----------------------------- MODULE MCDispatch -----------------------------
(***************************************************************************)
(* What is accepted now and dispatched later: the tasks that are tried     *)
(* again, the commands that wait for approval, and the backends they are   *)
(* for.  A behaviour is about one of them, its part.  The tasks share no   *)
(* state with the others, and what is theirs stays initial.  The other two *)
(* are one system: where decisions are looked at, two requests are made    *)
(* and resolved while no plugin is loaded and no backend started or        *)
(* stopped over HTTP; where backends are, plugins are loaded, backends     *)
(* started, stopped and queried while no request waits for approval.       *)
(***************************************************************************)
EXTENDS MCTaskExecutor, MCBackendGateway

VARIABLE part

allVars == <<part, vars, gatewayVars>>

InitDispatch ==
  /\ part \in {"tasks", "decisions", "backends"}
  /\ Init
  /\ IF part = "decisions" THEN TRUE ELSE level = CHOOSE one \in Levels : TRUE
  /\ InitGateway

NextDecisions ==
  \/ Boot /\ adapter' = {}
  \/ Leave
  \/ \E t \in HttpThreads : PostCommand(t) \/ PostApprove(t) \/ PostReject(t)
  \/ \E t \in HttpCallers : Proceed(t)

NextBackends ==
  \/ Boot
  \/ Leave
  \/ \E t \in HttpThreads : PostStart(t) \/ PostStop(t) \/ PostQuery(t)
  \/ \E t \in HttpCallers : Proceed(t)

NextDispatch ==
  /\ UNCHANGED part
  /\ \/ part = "tasks" /\ Next /\ UNCHANGED gatewayVars
     \/ part = "decisions" /\ NextDecisions /\ UNCHANGED vars
     \/ part = "backends" /\ NextBackends /\ UNCHANGED vars

SpecDispatch ==
  /\ InitDispatch /\ [][NextDispatch]_allVars
  /\ \A t \in HttpCallers : WF_gatewayVars(part # "tasks" /\ Proceed(t))
=============================================================================
