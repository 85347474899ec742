-------------------------- MODULE BackendGateway --------------------------
(* The HTTP mode of the program: main() registers the native backends, loads  *)
(* the plugins the configuration lists, starts every backend and then serves  *)
(* requests on the threads of the HTTP server until it stops listening; what  *)
(* it declared is destroyed in reverse order on every way out.  The registry  *)
(* of backends and the queue of approvals have no mutex: what a handler reads *)
(* there may have changed before it writes.  A write to a request that was    *)
(* removed, the use of one that is not found and a call into a library that   *)
(* was freed are undefined: the process may die of them, or go on.            *)
EXTENDS Naturals, FiniteSets

CONSTANTS
    Native,       \* backends linked into the program (AISTUDIO_REGISTER_BACKEND)
    Plugins,      \* entries of plugin.ids
    Ids,          \* backend ids
    IdOf,         \* [Native \cup Plugins -> Ids], what Id() returns
    Pings,        \* those that advertise diagnostics.ping
    HttpThreads,  \* threads of the HTTP server
    Main,         \* the thread that runs main()
    CommandNames,        \* names of commands
    Dangerous,    \* names a dangerous pattern matches
    Trusted,      \* ids allowed to act under RestrictedAutonomous
    Levels,       \* autonomy levels the server may be configured with
    MaxRequests,  \* bound on the approval requests submitted
    Unset

ASSUME GatewayAssumption ==
    /\ IdOf \in [Native \cup Plugins -> Ids]
    /\ \A a, b \in Native : IdOf[a] = IdOf[b] => a = b
    /\ Native \cap Plugins = {}
    /\ Main \notin HttpThreads
    /\ Dangerous \subseteq CommandNames
    /\ Trusted \subseteq Ids
    /\ MaxRequests \in Nat

VARIABLES
    phase,       \* how far main() has come
    todo,        \* what its current loop has still to visit
    library,     \* plugins whose library is loaded (PluginLoader::handles_)
    adapter,     \* plugins with a live PluginBackendAdapter
    backend,     \* BackendRegistry::backends_
    lifecycle,   \* BackendRegistry::lifecycle_states_
    manifest,    \* ids with a manifest in PluginRegistry
    level,       \* PermissionPolicy::level_
    approval,    \* ApprovalQueue::requests_: status of each request
    command,     \* ... and its command
    doing,       \* what each thread is in the middle of
    target,      \* ... the backend it is about
    request,     \* ... the approval request it is about
    up,          \* ids whose backend has been started and not stopped
    raced,       \* ids on which two starts or stops have overlapped
    ran,         \* how often the command of each request was dispatched
    granted,     \* requests of which Approve() has said Ok
    spoiled,     \* requests two resolutions of which have overlapped, and those
                 \* that undefined behaviour has struck
    calledFreed  \* plugins that were called after their library was freed

bootVars == <<phase, todo, library, adapter, manifest, level>>
registryVars == <<backend, lifecycle>>
approvalVars == <<approval, command>>
callVars == <<doing, target, request>>
decisions == <<ran, granted, spoiled>>
history == <<up, raced, decisions, calledFreed>>
gatewayVars == <<bootVars, registryVars, approvalVars, callVars, history>>

HttpCallers == HttpThreads \cup {Main}
Requests == 1..MaxRequests
LifecycleStates == {"Registered", "Starting", "Running", "Stopping", "Stopped", "Failed"}
Command == [to : Ids, name : CommandNames]

---------------------------------------------------------------------------
(* PermissionPolicy::RequiresApproval                                       *)

RequiresApproval(c) ==
    \/ level = "Manual"
    \/ level = "Assisted" /\ c.name \in Dangerous
    \/ level = "RestrictedAutonomous" /\ c.to \notin Trusted

---------------------------------------------------------------------------
(* The registry                                                             *)

Registered == {i \in Ids : backend[i] # Unset}

(* Threads between the check of a backend's state and the end of its Start() *)
(* or Stop().                                                                *)
Moving(i) == {t \in HttpCallers : target[t] = i /\ doing[t] \in {"mayStart", "starting", "mayStop", "stopping"}}

Register(b) ==
    /\ backend' = [backend EXCEPT ![IdOf[b]] = b]
    /\ lifecycle' = [lifecycle EXCEPT ![IdOf[b]] = "Registered"]

TransitionTo(i, s) == lifecycle' = [lifecycle EXCEPT ![i] = s]

Becomes(t, what) == doing' = [doing EXCEPT ![t] = what]

Done(t) ==
    /\ doing' = [doing EXCEPT ![t] = "idle"]
    /\ target' = [target EXCEPT ![t] = Unset]
    /\ request' = [request EXCEPT ![t] = Unset]

Startable(i) == lifecycle[i] \in {"Registered", "Stopped", "Failed"}

(* StartBackend: the state is looked up and judged ...                      *)
StartCheck(t) ==
    /\ doing[t] = "start"
    /\ \/ /\ target[t] \in Registered
          /\ Startable(target[t])
          /\ Becomes(t, "mayStart")
          /\ raced' = IF Moving(target[t]) = {} THEN raced ELSE raced \cup {target[t]}
          /\ UNCHANGED <<target, request>>
       \/ /\ ~(target[t] \in Registered /\ Startable(target[t]))
          /\ Done(t)
          /\ UNCHANGED raced
    /\ UNCHANGED <<bootVars, registryVars, approvalVars, up, decisions, calledFreed>>

(* Mutant: the backend counts as running although its Start() failed.       *)
StartReturnsRunning(t) ==
    /\ doing[t] = "starting"
    /\ TransitionTo(target[t], "Running")
    /\ \/ up' = up \cup {target[t]}
       \/ UNCHANGED up
    /\ Done(t)
    /\ UNCHANGED <<bootVars, backend, approvalVars, raced, decisions, calledFreed>>

(* ... and set afterwards; then the backend's own Start() runs.             *)
StartBegins(t) ==
    /\ doing[t] = "mayStart"
    /\ TransitionTo(target[t], "Starting")
    /\ Becomes(t, "starting")
    /\ UNCHANGED <<bootVars, backend, approvalVars, target, request, history>>

StartReturns(t) ==
    /\ doing[t] = "starting"
    /\ \/ TransitionTo(target[t], "Running") /\ up' = up \cup {target[t]}
       \/ TransitionTo(target[t], "Failed") /\ UNCHANGED up
    /\ Done(t)
    /\ UNCHANGED <<bootVars, backend, approvalVars, raced, decisions, calledFreed>>

(* StopBackend, in the same three steps.                                    *)
StopCheck(t) ==
    /\ doing[t] = "stop"
    /\ \/ /\ lifecycle[target[t]] = "Running"
          /\ Becomes(t, "mayStop")
          /\ raced' = IF Moving(target[t]) = {} THEN raced ELSE raced \cup {target[t]}
          /\ UNCHANGED <<target, request>>
       \/ /\ lifecycle[target[t]] # "Running"
          /\ Done(t)
          /\ UNCHANGED raced
    /\ UNCHANGED <<bootVars, registryVars, approvalVars, up, decisions, calledFreed>>

StopBegins(t) ==
    /\ doing[t] = "mayStop"
    /\ TransitionTo(target[t], "Stopping")
    /\ Becomes(t, "stopping")
    /\ UNCHANGED <<bootVars, backend, approvalVars, target, request, history>>

StopReturns(t) ==
    /\ doing[t] = "stopping"
    /\ \/ TransitionTo(target[t], "Stopped") /\ up' = up \ {target[t]}
       \/ TransitionTo(target[t], "Failed") /\ UNCHANGED up
    /\ Done(t)
    /\ UNCHANGED <<bootVars, backend, approvalVars, raced, decisions, calledFreed>>

---------------------------------------------------------------------------
(* main(): what happens before requests are served                          *)

Unregistered == [i \in Ids |-> Unset]

InitGateway ==
    /\ phase = "natives" /\ todo = Native
    /\ library = {} /\ adapter = {}
    /\ backend = Unregistered /\ lifecycle = Unregistered /\ manifest = {}
    /\ level \in Levels
    /\ approval = [r \in Requests |-> "none"] /\ command = [r \in Requests |-> Unset]
    /\ doing = [t \in HttpCallers |-> "idle"]
    /\ target = [t \in HttpCallers |-> Unset] /\ request = [t \in HttpCallers |-> Unset]
    /\ up = {} /\ raced = {} /\ ran = [r \in Requests |-> 0]
    /\ granted = {} /\ spoiled = {} /\ calledFreed = {}

Enter(next, loop) == phase' = next /\ todo' = loop

(* One round of a loop of main() that is done with b.                       *)
Visited(b) == todo' = todo \ {b} /\ UNCHANGED phase

RegisterNative ==
    /\ phase = "natives"
    /\ \/ \E b \in todo : Visited(b) /\ Register(b)
       \/ todo = {} /\ Enter("load", Plugins) /\ UNCHANGED registryVars
    /\ UNCHANGED <<library, adapter, manifest, level, approvalVars, callVars, history>>

(* PluginLoader::Load, and LoadPluginBackend with the adapter it makes.     *)
Load(p) == library' = library \cup {p}

LoadPluginBackend(p) == adapter' = adapter \cup {p}

(* LoadConfiguredPluginBackends: an entry without a library, or whose       *)
(* library does not load, is skipped; one whose entry point, ABI version or *)
(* function table is refused is unloaded again; the others get an adapter.  *)
LoadPlugin ==
    /\ phase = "load"
    /\ \/ \E p \in todo :
             /\ Visited(p)
             /\ \/ UNCHANGED <<library, adapter>>
                \/ Load(p) /\ LoadPluginBackend(p)
       \/ todo = {} /\ Enter("register", adapter) /\ UNCHANGED <<library, adapter>>
    /\ UNCHANGED <<registryVars, manifest, level, approvalVars, callVars, history>>

RegisterManifest(i) == manifest' = manifest \cup {i}

(* ~PluginBackendAdapter: vtable_->destroy is called in the plugin.         *)
DestroyAdapters(ps) ==
    /\ adapter' = adapter \ ps
    /\ calledFreed' = calledFreed \cup (ps \ library)

(* The loop over what was loaded.  A backend whose id is taken is not       *)
(* registered and dies with the list at the end of the loop; its library    *)
(* stays.                                                                   *)
Registrants == {p \in Plugins : p \in {backend[i] : i \in Ids}}

RegisterPlugin ==
    /\ phase = "register"
    /\ \/ \E p \in todo :
             /\ Visited(p)
             /\ UNCHANGED <<adapter, calledFreed>>
             /\ \/ /\ IdOf[p] \notin Registered
                   /\ Register(p)
                   /\ RegisterManifest(IdOf[p])
                \/ /\ IdOf[p] \in Registered
                   /\ UNCHANGED <<registryVars, manifest>>
       \/ /\ todo = {}
          /\ Enter("start", Registered)
          /\ DestroyAdapters(adapter \ Registrants)
          /\ UNCHANGED <<registryVars, manifest>>
    /\ UNCHANGED <<library, level, approvalVars, callVars, up, raced, decisions>>

(* StartAll: every backend is tried, whatever became of the others.         *)
StartAll ==
    /\ phase = "start"
    /\ doing[Main] = "idle"
    /\ \/ \E i \in todo :
             /\ todo' = todo \ {i}
             /\ Becomes(Main, "start")
             /\ target' = [target EXCEPT ![Main] = i]
             /\ UNCHANGED phase
       \/ todo = {} /\ Enter("ping", {}) /\ UNCHANGED <<doing, target>>
    /\ UNCHANGED <<library, adapter, manifest, level, registryVars, approvalVars, request, history>>

(* The demonstration: the first backend that advertises diagnostics.ping is *)
(* sent one, and its answer is taken for a std::string.  A plugin answers   *)
(* with JSON: std::any_cast throws, and nothing catches it.                 *)
Ping ==
    /\ phase = "ping"
    /\ LET pinged == {i \in Registered : backend[i] \in Pings}
       IN  \/ pinged = {} /\ phase' = "prepare"
           \/ \E i \in pinged : phase' \in {"prepare"} \cup (IF backend[i] \in Plugins THEN {"aborted"} ELSE {})
    /\ UNCHANGED <<todo, library, adapter, manifest, level, registryVars, approvalVars, callVars, history>>

(* The database may fail to open or to migrate, and the port may be taken:  *)
(* main() returns.                                                          *)
Prepare ==
    /\ phase = "prepare"
    /\ phase' \in {"serving", "leaving"}
    /\ UNCHANGED <<todo, library, adapter, manifest, level, registryVars, approvalVars, callVars, history>>

(* Listen() returns once the handlers under way have ended.                 *)
ListenEnds ==
    /\ phase = "serving"
    /\ \A t \in HttpThreads : doing[t] = "idle"
    /\ phase' = "leaving"
    /\ UNCHANGED <<todo, library, adapter, manifest, level, registryVars, approvalVars, callVars, history>>

(* Locals die in reverse order of declaration: plugin_loader, plugin_registry, *)
(* registry, and with it the adapters, each of which calls its plugin.      *)
FreeLibraries ==
    /\ phase = "leaving"
    /\ phase' = "unloaded"
    /\ library' = {}
    /\ UNCHANGED <<todo, adapter, manifest, level, registryVars, approvalVars, callVars, history>>

DestroyRegistry ==
    /\ phase = "unloaded"
    /\ phase' \in {"exited"} \cup (IF adapter \subseteq library THEN {} ELSE {"aborted"})
    /\ DestroyAdapters(adapter)
    /\ manifest' = {}
    /\ backend' = Unregistered /\ lifecycle' = Unregistered
    /\ UNCHANGED <<todo, library, level, approvalVars, callVars, up, raced, decisions>>

---------------------------------------------------------------------------
(* ApprovalQueue                                                            *)

Pending == {r \in Requests : approval[r] = "pending"}

Submit(c) ==
    \E r \in Requests :
        /\ approval[r] = "none"
        /\ \A s \in 1..(r - 1) : approval[s] # "none"
        /\ approval' = [approval EXCEPT ![r] = "pending"]
        /\ command' = [command EXCEPT ![r] = c]

(* Threads between the check of a request's status and the setting of it.   *)
Resolving(r) == {t \in HttpCallers : request[t] = r /\ doing[t] \in {"mayApprove", "mayReject"}}

(* Mutant: Approve() and Reject() do not look whether the request is still  *)
(* pending.                                                                 *)
FindAny(t, r) ==
    /\ approval[r] \notin {"none", "removed"}
    /\ request' = [request EXCEPT ![t] = r]
    /\ spoiled' = IF Resolving(r) = {} THEN spoiled ELSE spoiled \cup {r}

(* Approve() and Reject() first find the request and look at its status ... *)
FindPending(t, r) ==
    /\ r \in Pending
    /\ request' = [request EXCEPT ![t] = r]
    /\ spoiled' = IF Resolving(r) = {} THEN spoiled ELSE spoiled \cup {r}

(* ... and set it afterwards.  What was removed in between is memory that   *)
(* was freed, and may be another request's by now.                          *)
SetStatus(r, s) ==
    \/ /\ approval[r] # "removed"
       /\ approval' = [approval EXCEPT ![r] = s]
       /\ UNCHANGED <<phase, spoiled>>
    \/ /\ approval[r] = "removed"
       /\ \/ phase' = "aborted" /\ UNCHANGED <<approval, spoiled>>
          \/ UNCHANGED <<phase, approval, spoiled>>
          \/ \E other \in Pending :
                /\ approval' = [approval EXCEPT ![other] = s]
                /\ spoiled' = spoiled \cup {other}
                /\ UNCHANGED phase

Approve(t) ==
    /\ doing[t] = "mayApprove"
    /\ SetStatus(request[t], "approved")
    /\ granted' = granted \cup {request[t]}
    /\ Becomes(t, "approved")
    /\ UNCHANGED <<todo, library, adapter, manifest, level, registryVars, command, target, request,
                   up, raced, ran, calledFreed>>

Reject(t) ==
    /\ doing[t] = "mayReject"
    /\ SetStatus(request[t], "rejected")
    /\ Becomes(t, "resolved")
    /\ UNCHANGED <<todo, library, adapter, manifest, level, registryVars, command, target, request,
                   up, raced, ran, granted, calledFreed>>

RemoveFromQueue(r) == approval' = [approval EXCEPT ![r] = "removed"]

(* BackendRegistry::Dispatch and RunQuery: the call into the backend.       *)
DispatchTo(t, i) ==
    /\ i \in Registered
    /\ Becomes(t, "dispatch")
    /\ target' = [target EXCEPT ![t] = i]

---------------------------------------------------------------------------
(* The routes that change something.  A body that is no JSON, and a backend *)
(* that is not registered, are answered at once and change nothing.         *)

Serves(t) == phase = "serving" /\ doing[t] = "idle"

PostStart(t) ==
    /\ Serves(t)
    /\ \E i \in Registered : target' = [target EXCEPT ![t] = i]
    /\ Becomes(t, "start")
    /\ UNCHANGED <<bootVars, registryVars, approvalVars, request, history>>

PostStop(t) ==
    /\ Serves(t)
    /\ \E i \in Registered : target' = [target EXCEPT ![t] = i]
    /\ Becomes(t, "stop")
    /\ UNCHANGED <<bootVars, registryVars, approvalVars, request, history>>

(* A command is queued for approval or dispatched at once.                  *)
PostCommand(t) ==
    /\ Serves(t)
    /\ \E c \in Command :
          \/ /\ RequiresApproval(c)
             /\ Submit(c)
             /\ UNCHANGED <<doing, target>>
          \/ /\ ~RequiresApproval(c)
             /\ DispatchTo(t, c.to)
             /\ UNCHANGED approvalVars
    /\ UNCHANGED <<bootVars, registryVars, request, history>>

(* A query is never held up for approval.                                   *)
PostQuery(t) ==
    /\ Serves(t)
    /\ \E i \in Registered : DispatchTo(t, i)
    /\ UNCHANGED <<bootVars, registryVars, approvalVars, request, history>>

(* A request that is not found, or no longer pending, is answered at once.  *)
PostApprove(t) ==
    /\ Serves(t)
    /\ \E r \in Requests : FindPending(t, r)
    /\ Becomes(t, "mayApprove")
    /\ UNCHANGED <<bootVars, registryVars, approvalVars, target, up, raced, ran, granted, calledFreed>>

PostReject(t) ==
    /\ Serves(t)
    /\ \E r \in Requests : FindPending(t, r)
    /\ Becomes(t, "mayReject")
    /\ UNCHANGED <<bootVars, registryVars, approvalVars, target, up, raced, ran, granted, calledFreed>>

(* Dispatch of the command of r, if its backend exists.                     *)
DispatchCommand(t, r) ==
    \/ /\ command[r].to \in Registered
       /\ Becomes(t, "dispatchApproved")
       /\ target' = [target EXCEPT ![t] = command[r].to]
       /\ ran' = [ran EXCEPT ![r] = @ + 1]
    \/ /\ command[r].to \notin Registered
       /\ Becomes(t, "resolved")
       /\ UNCHANGED <<target, ran>>

(* Mutant: the approved request is only marked.                             *)
DispatchForgotten(t) ==
    /\ doing[t] = "approved"
    /\ Becomes(t, "resolved")
    /\ UNCHANGED <<target, ran, bootVars, registryVars, approvalVars, request, up, raced, granted, spoiled, calledFreed>>

(* The approved request is looked up again.  If another thread has removed  *)
(* it the empty optional is used: the process dies of it, the bytes that    *)
(* lie there name no backend, or they are of a command dispatched before.   *)
DispatchApproved(t) ==
    /\ doing[t] = "approved"
    /\ \/ /\ approval[request[t]] # "removed"
          /\ DispatchCommand(t, request[t])
          /\ UNCHANGED <<phase, spoiled>>
       \/ /\ approval[request[t]] = "removed"
          /\ \/ phase' = "aborted" /\ UNCHANGED <<doing, target, ran, spoiled>>
             \/ Becomes(t, "resolved") /\ UNCHANGED <<phase, target, ran, spoiled>>
             \/ \E r \in Requests :
                   /\ ran[r] > 0 /\ DispatchCommand(t, r)
                   /\ spoiled' = spoiled \cup {r}
                   /\ UNCHANGED phase
    /\ UNCHANGED <<todo, library, adapter, manifest, level, registryVars, approvalVars, request,
                   up, raced, granted, calledFreed>>

Dispatched(t) ==
    /\ \/ doing[t] = "dispatch" /\ Done(t)
       \/ /\ doing[t] = "dispatchApproved"
          /\ Becomes(t, "resolved")
          /\ UNCHANGED <<target, request>>
    /\ UNCHANGED <<bootVars, registryVars, approvalVars, history>>

(* ... and the request is removed.                                          *)
RemoveRequest(t) ==
    /\ doing[t] = "resolved"
    /\ RemoveFromQueue(request[t])
    /\ Done(t)
    /\ UNCHANGED <<bootVars, registryVars, command, history>>

---------------------------------------------------------------------------

Boot == RegisterNative \/ LoadPlugin \/ RegisterPlugin \/ StartAll \/ Ping \/ Prepare

Leave == ListenEnds \/ FreeLibraries \/ DestroyRegistry

Accept(t) == PostStart(t) \/ PostStop(t) \/ PostCommand(t) \/ PostQuery(t) \/ PostApprove(t) \/ PostReject(t)

(* A call that was begun and goes on.                                       *)
Proceed(t) ==
    /\ phase # "aborted"
    /\ \/ StartCheck(t) \/ StartBegins(t) \/ StartReturns(t)
       \/ StopCheck(t) \/ StopBegins(t) \/ StopReturns(t)
       \/ Approve(t) \/ Reject(t)
       \/ DispatchApproved(t) \/ Dispatched(t) \/ RemoveRequest(t)

NextGateway ==
    \/ Boot
    \/ Leave
    \/ \E t \in HttpThreads : Accept(t)
    \/ \E t \in HttpCallers : Proceed(t)

(* The operating system schedules every thread, and a backend returns.      *)
FairGateway == \A t \in HttpCallers : WF_gatewayVars(Proceed(t))

SpecGateway == InitGateway /\ [][NextGateway]_gatewayVars /\ FairGateway

---------------------------------------------------------------------------

GatewayTypeOK ==
    /\ phase \in {"natives", "load", "register", "start", "ping", "prepare", "serving", "leaving",
                  "unloaded", "exited", "aborted"}
    /\ todo \subseteq Native \cup Plugins \cup Ids
    /\ adapter \subseteq Plugins /\ library \subseteq Plugins
    /\ backend \in [Ids -> Native \cup Plugins \cup {Unset}]
    /\ lifecycle \in [Ids -> LifecycleStates \cup {Unset}]
    /\ manifest \subseteq Ids
    /\ approval \in [Requests -> {"none", "pending", "approved", "rejected", "removed"}]
    /\ ran \in [Requests -> Nat]
    /\ granted \subseteq Requests /\ spoiled \subseteq Requests
    /\ calledFreed \subseteq Plugins

(* However approvals and rejections race, no command that waits for a       *)
(* decision is dispatched unless Approve() said Ok of its request; and where *)
(* no two resolutions of the request have overlapped, it is dispatched at   *)
(* most once and never if it was rejected, whatever becomes of others.      *)
DecisionsAreKept ==
    \A r \in Requests :
        /\ ran[r] > 0 => r \in granted
        /\ r \notin spoiled =>
             /\ ran[r] <= 1
             /\ approval[r] \in {"none", "pending", "rejected"} => ran[r] = 0

(* An approved command whose backend is registered is dispatched in the     *)
(* end, unless resolutions of its request have overlapped, or the process   *)
(* has died of those of another.                                            *)
ApprovedRuns ==
    \A r \in Requests :
        (approval[r] = "approved" /\ command[r].to \in Registered)
            ~> (ran[r] = 1 \/ r \in spoiled \/ phase = "aborted")

(* While no start or stop of a backend is under way, what the registry      *)
(* reports of it is no passing state, even where two calls about it have    *)
(* overlapped; where none have, it is what the backend did last: it runs    *)
(* exactly if its Start() was the last to succeed.                          *)
LifecycleIsTrue ==
    \A i \in Registered :
        Moving(i) = {} =>
            /\ lifecycle[i] \notin {"Starting", "Stopping"}
            /\ i \notin raced =>
                 /\ lifecycle[i] = "Running" => i \in up
                 /\ lifecycle[i] \in {"Registered", "Stopped"} => i \notin up

(* Until main() destroys the registry, every call into a plugin, that of a  *)
(* dropped adapter's destructor included, reaches code that is loaded.      *)
CallsReachLoadedCode ==
    /\ \A t \in HttpCallers :
         (target[t] # Unset /\ doing[t] \in {"starting", "stopping", "dispatch", "dispatchApproved"})
             => phase = "aborted" \/ backend[target[t]] \in Native \cup library
    /\ phase \notin {"exited", "aborted"} => calledFreed = {}

(* What the registry reports and calls is there: running backends run, and   *)
(* the code that is called is loaded, until the registry is destroyed.       *)
BackendsAreThere == GatewayTypeOK /\ LifecycleIsTrue /\ CallsReachLoadedCode

(* PluginBackendAdapter.hpp: the vtable "must outlive this adapter", and    *)
(* main.cpp: "plugin_loader must outlive every Backend this returns".  The  *)
(* registry's adapters outlive it: DestroyRegistry calls freed libraries.   *)
LibrariesOutliveAdapters == calledFreed = {}

(* BackendRegistry.hpp: StartBackend "fails without calling Start() if ...  *)
(* the Backend isn't in a startable state (already Starting/Running/        *)
(* Stopping)": no two threads are in a backend's Start() at once.           *)
StartsOneAtATime ==
    \A t, u \in HttpCallers :
        (doing[t] = "starting" /\ doing[u] = "starting" /\ target[t] = target[u]) => t = u
===========================================================================
