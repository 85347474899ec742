---------------------------- MODULE ChildProcesses ----------------------------
(***************************************************************************)
(* Commands that are run as child processes (ProcessRunner): RunProcess(), *)
(* which reads a child's output until it ends, and RunAndVerifyCommand(),  *)
(* which waits for one with a timeout while a thread of its own reads.     *)
(* Threads of the server call both at the same time.                       *)
(*                                                                         *)
(* The output goes through a pipe with little room, whose writing end a    *)
(* child inherits, as does every process that a child starts in turn, and  *)
(* every child that another thread creates while the server still has that *)
(* end open: CreateProcessW is told to pass on all inheritable handles.    *)
(* A pipe ends when no process holds its writing end.  Output is counted   *)
(* in reads of the buffer's size.                                          *)
(***************************************************************************)
EXTENDS Naturals, FiniteSets, TLC

CONSTANTS
  Askers,     \* the threads, each of which makes one call
  Programs,    \* what a command may do: [chunks, exit, helper], see below
  PipeRoom,    \* what a pipe holds before a writer has to wait
  MaxOutput,   \* kMaxOutputBytes
  Server       \* this process

\* A program writes its chunks and ends with its exit code, or never ends; its
\* helper is a process it starts that ends by itself, one that stays, or none.
ASSUME ProgramsArePrograms ==
  \A p \in Programs : /\ p.chunks \in Nat /\ p.exit \in {"zero", "other", "never"}
                      /\ p.helper \in {"none", "ends", "stays"}
ASSUME RoomIsPositive == PipeRoom \in Nat \ {0} /\ MaxOutput \in Nat

Child(c) == <<"child", c>>
Helper(c) == <<"helper", c>>

ASSUME ServerIsNoCommand == \A c \in Askers : Server \notin {Child(c), Helper(c)}

VARIABLES
  asked,   \* of each caller: "run" or "verify", and the program
  at,        \* where the call is
  holders,   \* the processes that hold the writing end of the call's pipe
  alive,     \* the children and helpers that run
  exitCode,  \* of the child, "terminated" if it was stopped
  written,   \* what went into the pipe
  pipe,      \* what is in it
  output,    \* what was read and kept
  reading,   \* the reader has not seen the end of the pipe
  answer     \* the result of the call

childVars == <<asked, at, holders, alive, exitCode, written, pipe, output, reading, answer>>

Unanswered == "pending"
Answer(outcome, text) == [outcome |-> outcome, text |-> text]

HasLeft(p) == p \notin alive

\* The handles of a process close when it ends.
Ends(p) ==
  /\ alive' = alive \ {p}
  /\ holders' = [d \in Askers |-> holders[d] \ {p}]

\* A process passes on whichever writing ends its creator holds.
Inherits(p, creator, held) == [d \in Askers |-> IF creator \in held[d] THEN held[d] \cup {p} ELSE held[d]]
-----------------------------------------------------------------------------
(* LaunchRedirectedProcess(). *)

CreatePipe(c) ==
  /\ at[c] = "idle"
  /\ at' = [at EXCEPT ![c] = "piped"]
  /\ holders' = [holders EXCEPT ![c] = {Server}]
  /\ UNCHANGED <<asked, alive, exitCode, written, pipe, output, reading, answer>>

CreateChild(c) ==
  /\ at[c] = "piped"
  /\ \/ /\ at' = [at EXCEPT ![c] = "created"]
        /\ alive' = alive \cup {Child(c)}
        /\ holders' = Inherits(Child(c), Server, holders)
        /\ UNCHANGED answer
     \/ /\ at' = [at EXCEPT ![c] = "returned"]  \* CreateProcessW fails: both ends are closed
        /\ holders' = [holders EXCEPT ![c] = {}]
        /\ answer' = [answer EXCEPT ![c] = Answer("not started", 0)]
        /\ UNCHANGED alive
  /\ UNCHANGED <<asked, exitCode, written, pipe, output, reading>>

\* As if the server's own writing end stayed open.
KeepWriteEnd(c) ==
  /\ at[c] = "created"
  /\ at' = [at EXCEPT ![c] = "waiting"]
  /\ reading' = [reading EXCEPT ![c] = TRUE]
  /\ UNCHANGED <<asked, holders, alive, exitCode, written, pipe, output, answer>>

\* The reading begins: in the call itself, or in a thread.
CloseWriteEnd(c) ==
  /\ at[c] = "created"
  /\ at' = [at EXCEPT ![c] = "waiting"]
  /\ holders' = [holders EXCEPT ![c] = @ \ {Server}]
  /\ reading' = [reading EXCEPT ![c] = TRUE]
  /\ UNCHANGED <<asked, alive, exitCode, written, pipe, output, answer>>
-----------------------------------------------------------------------------
(* The reader: ReadFile() until it returns nothing. *)

ReadPipe(c) ==
  /\ reading[c] /\ pipe[c] > 0
  /\ pipe' = [pipe EXCEPT ![c] = @ - 1]
  /\ output' = [output EXCEPT ![c] = IF @ < MaxOutput THEN @ + 1 ELSE @]
  /\ UNCHANGED <<asked, at, holders, alive, exitCode, written, reading, answer>>

EndOfPipe(c) ==
  /\ reading[c] /\ pipe[c] = 0 /\ holders[c] = {}
  /\ reading' = [reading EXCEPT ![c] = FALSE]
  /\ UNCHANGED <<asked, at, holders, alive, exitCode, written, pipe, output, answer>>
-----------------------------------------------------------------------------
(* The callers. *)

Return(c, outcome) ==
  /\ at' = [at EXCEPT ![c] = "returned"]
  /\ answer' = [answer EXCEPT ![c] = Answer(outcome, output[c])]

\* RunProcess() reads to the end and then waits for the child.
RunReturns(c) ==
  /\ asked[c].call = "run" /\ at[c] = "waiting"
  /\ ~reading[c] /\ HasLeft(Child(c))
  /\ Return(c, exitCode[c])
  /\ UNCHANGED <<asked, holders, alive, exitCode, written, pipe, output, reading>>

\* As if Wait() did not join the reader.
WaitWithoutJoin(c) ==
  /\ asked[c].call = "verify" /\ at[c] = "waiting"
  /\ HasLeft(Child(c))
  /\ Return(c, exitCode[c])
  /\ UNCHANGED <<asked, holders, alive, exitCode, written, pipe, output, reading>>

\* Wait() has seen the child end and joins the reader; a non-zero code is a failure.
WaitReturns(c) ==
  /\ asked[c].call = "verify" /\ at[c] = "waiting"
  /\ HasLeft(Child(c)) /\ ~reading[c]
  /\ Return(c, exitCode[c])
  /\ UNCHANGED <<asked, holders, alive, exitCode, written, pipe, output, reading>>

\* The timeout elapses; nothing more is known of the outcome.
WaitTimesOut(c) ==
  /\ asked[c].call = "verify" /\ at[c] = "waiting" /\ ~HasLeft(Child(c))
  /\ at' = [at EXCEPT ![c] = "timed out"]
  /\ answer' = [answer EXCEPT ![c] = Answer("unknown", output[c])]
  /\ UNCHANGED <<asked, holders, alive, exitCode, written, pipe, output, reading>>

\* ~Impl(): the child is stopped if it still runs, then the reader is joined.
StopAndJoin(c) ==
  \/ /\ at[c] = "timed out"
     /\ at' = [at EXCEPT ![c] = "joining"]
     /\ IF HasLeft(Child(c)) THEN UNCHANGED <<alive, holders, exitCode>>
        ELSE Ends(Child(c)) /\ exitCode' = [exitCode EXCEPT ![c] = "terminated"]
     /\ UNCHANGED <<asked, written, pipe, output, reading, answer>>
  \/ /\ at[c] = "joining" /\ ~reading[c]
     /\ at' = [at EXCEPT ![c] = "returned"]
     /\ UNCHANGED <<asked, holders, alive, exitCode, written, pipe, output, reading, answer>>

Call(c) ==
  CreatePipe(c) \/ CreateChild(c) \/ CloseWriteEnd(c) \/ RunReturns(c) \/ WaitReturns(c) \/ StopAndJoin(c)
-----------------------------------------------------------------------------
(* The children and what they start. *)

Write(c) ==
  /\ Child(c) \in alive /\ written[c] < asked[c].program.chunks /\ pipe[c] < PipeRoom
  /\ written' = [written EXCEPT ![c] = @ + 1]
  /\ pipe' = [pipe EXCEPT ![c] = @ + 1]
  /\ UNCHANGED <<asked, at, holders, alive, exitCode, output, reading, answer>>

\* It starts its helper before it ends, as the last it does.
Exit(c) ==
  /\ Child(c) \in alive /\ written[c] = asked[c].program.chunks
  /\ asked[c].program.exit # "never"
  /\ exitCode' = [exitCode EXCEPT ![c] = asked[c].program.exit]
  /\ IF asked[c].program.helper = "none" THEN Ends(Child(c))
     ELSE /\ alive' = (alive \ {Child(c)}) \cup {Helper(c)}
          /\ LET held == Inherits(Helper(c), Child(c), holders)
             IN  holders' = [d \in Askers |-> held[d] \ {Child(c)}]
  /\ UNCHANGED <<asked, at, written, pipe, output, reading, answer>>

HelperExits(c) ==
  /\ Helper(c) \in alive /\ asked[c].program.helper = "ends"
  /\ Ends(Helper(c))
  /\ UNCHANGED <<asked, at, exitCode, written, pipe, output, reading, answer>>
-----------------------------------------------------------------------------
InitProcesses ==
  /\ asked \in [Askers -> [call : {"run", "verify"}, program : Programs]]
  /\ \A c \in Askers : asked[c].call = "run" => asked[c].program.exit # "never"
  /\ at = [c \in Askers |-> "idle"]
  /\ holders = [c \in Askers |-> {}]
  /\ alive = {}
  /\ exitCode = [c \in Askers |-> "none"]
  /\ written = [c \in Askers |-> 0]
  /\ pipe = [c \in Askers |-> 0]
  /\ output = [c \in Askers |-> 0]
  /\ reading = [c \in Askers |-> FALSE]
  /\ answer = [c \in Askers |-> Answer(Unanswered, 0)]

NextProcesses ==
  \E c \in Askers :
    \/ Call(c) \/ WaitTimesOut(c)
    \/ ReadPipe(c) \/ EndOfPipe(c)
    \/ Write(c) \/ Exit(c) \/ HelperExits(c)

\* Threads of the server run, a timeout elapses, a program goes on when there
\* is room for its output.  A call is not sure to be made.
Caller(c) == (at[c] # "idle" /\ Call(c)) \/ WaitTimesOut(c)
Reader(c) == ReadPipe(c) \/ EndOfPipe(c)
Command(c) == Write(c) \/ Exit(c)

FairProcesses ==
  \A c \in Askers :
    WF_childVars(Caller(c)) /\ WF_childVars(Reader(c)) /\ WF_childVars(Command(c)) /\ WF_childVars(HelperExits(c))

SpecProcesses == InitProcesses /\ [][NextProcesses]_childVars /\ FairProcesses
-----------------------------------------------------------------------------
AtMost(n) == IF n < MaxOutput THEN n ELSE MaxOutput

\* An answer is true: a code that is reported is the child's own, never that
\* of having been stopped, with all the child has written up to the cap; and
\* no child outlives the call that started it.
AnswerIsWhole ==
  \A c \in Askers : at[c] = "returned" =>
    /\ HasLeft(Child(c))
    /\ answer[c].outcome \in {"zero", "other"} =>
         answer[c] = Answer(asked[c].program.exit, AtMost(asked[c].program.chunks))
    /\ answer[c].outcome = "unknown" => asked[c].call = "verify" /\ answer[c].text <= AtMost(written[c])

NothingStays == \A c \in Askers : asked[c].program.helper # "stays"

\* However little the pipe holds and whatever other threads do meanwhile, a
\* call returns; unless some command leaves a process behind that stays.
CallsReturn == \A c \in Askers : (NothingStays /\ at[c] = "piped") ~> (at[c] = "returned")

\* Wait() with a timeout and the destructor: "this join is bounded, not a
\* second indefinite wait", whatever the command has started.
JoinIsBounded == \A c \in Askers : (asked[c].call = "verify" /\ at[c] = "waiting") ~> (at[c] = "returned")
=============================================================================
