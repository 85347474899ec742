------------------------------ MODULE MCServer ------------------------------
(***************************************************************************)
(* The parts of the server that work for a request and must answer it: the *)
(* operations a restart interrupts, the commands it starts, and the        *)
(* indexes an impact analysis walks.  They share no state: a behaviour is  *)
(* about one of them, its part, and leaves the others in an initial state. *)
(***************************************************************************)
EXTENDS MCOperations, MCChildProcesses, MCCodeIndexes

VARIABLE part

allVars == <<part, vars, childVars, codeVars>>

InitServer ==
  /\ part \in {"operations", "processes", "indexes"}
  /\ Init /\ InitIndexes
  /\ IF part = "processes" THEN TRUE
     ELSE asked = [c \in Askers |-> [call |-> "verify", program |-> CHOOSE one \in Programs : TRUE]]
  /\ InitProcesses

NextServer ==
  /\ UNCHANGED part
  /\ \/ part = "operations" /\ Next /\ UNCHANGED <<childVars, codeVars>>
     \/ part = "processes" /\ NextProcesses /\ UNCHANGED <<vars, codeVars>>
     \/ part = "indexes" /\ NextIndexes /\ UNCHANGED <<vars, childVars>>

SpecServer ==
  /\ InitServer /\ [][NextServer]_allVars
  /\ \A c \in Askers :
       /\ WF_childVars(part = "processes" /\ Caller(c))
       /\ WF_childVars(part = "processes" /\ Reader(c))
       /\ WF_childVars(part = "processes" /\ Command(c))
       /\ WF_childVars(part = "processes" /\ HelperExits(c))
  /\ WF_codeVars(part = "indexes" /\ Analyze)
=============================================================================
