----------------------------- MODULE NodeLifecycle -----------------------------
(***************************************************************************)
(* A running node: the status every request is admitted against (state.rs) *)
(* and everything that writes it.  The supervision loop restarts the model *)
(* runtime (node.rs, supervisor.rs), the integrity monitor quarantines     *)
(* (integrity_monitor.rs), operators quarantine, recover, provision and    *)
(* tear down (handlers.rs), and CordonNode::shutdown stops it all.  The    *)
(* bundle registry is ModelStore's; the handlers here drive its steps.     *)
(*                                                                         *)
(* Init is the node after build, start_background_services and             *)
(* go_operational.  Authorisation of the admin calls, the audit records    *)
(* other than Shutdown, and the metrics are not part of this model.        *)
(***************************************************************************)
EXTENDS Naturals, FiniteSets

CONSTANTS
  Bundles, Manifests, NoBundle, AllowUnregistered, Ttl,
  Served,        \* served_bundle: the sealed bundle, or NoBundle for a file
  Supervised,    \* runtime.backend is Supervised: the node owns its runtime
  HaltOnTamper,  \* the settings of model_store.halt_on_tamper considered
  Teardowns,     \* admin_teardown requests that may be in flight
  Exit,          \* ApiServer::run on its way out, the other shutdown caller
  Actors,        \* which of the actors below take part
  MaxFaults      \* bound of the model: runtime faults

Checkers == {"monitor", "recover", "provision"}

Callers == Teardowns \cup {Exit}

ASSUME LifecycleAssumption ==
  /\ NoBundle \notin Bundles
  /\ Manifests # {}
  /\ {"altered", "unreadable"} \cap Manifests = {}
  /\ AllowUnregistered \in BOOLEAN
  /\ Ttl \in Nat \ {0}
  /\ Served \in Bundles \cup {NoBundle}
  /\ Supervised \in BOOLEAN
  /\ HaltOnTamper \subseteq BOOLEAN
  /\ Exit \notin Teardowns
  /\ Actors \subseteq {"monitor", "recover", "provision", "quarantine",
                       "teardown", "exit", "supervisor", "disk", "webui"}
  /\ MaxFaults \in Nat

VARIABLES
  bundles, shards, checks, lastHashed, withdrawn,  \* see ModelStore
  status,     \* NodeState::status
  enclave,    \* NodeState::enclave_state
  halt_on_tamper,  \* the monitor's setting, fixed at start
  tamper,     \* IntegrityMonitor::tamper_detected
  pc,         \* where each checker's loop or handler is
  todo,       \* bundle ids each checker has yet to check
  sup,        \* where the supervision loop is
  child,      \* LlamaSupervisor::child and the process behind it
  faults,     \* runtime faults so far
  stopping,   \* CordonNode::stopping is cancelled
  caller,     \* where each caller of shutdown is
  shutdowns   \* Shutdown records in the audit log

storeVars == <<bundles, shards, checks, lastHashed, withdrawn>>
stateVars == <<status, enclave>>
checkerVars == <<tamper, pc, todo>>
runtimeVars == <<sup, child, faults>>
stopVars == <<stopping, caller, shutdowns>>
vars == <<halt_on_tamper, storeVars, stateVars, checkerVars, runtimeVars, stopVars>>

Store == INSTANCE ModelStore

Statuses == {"Initializing", "Healthy", "Degraded", "Quarantine", "Zeroized"}

Init ==
  /\ Store!Init
  /\ \A b \in Bundles :
       /\ b = Served => bundles[b].status = "Ready"
       /\ b # Served => bundles[b].status # "Ready"
  /\ status = "Healthy"
  /\ enclave = "Active"
  /\ halt_on_tamper \in HaltOnTamper
  /\ tamper = FALSE
  /\ pc = [c \in Checkers |-> "idle"]
  /\ todo = [c \in Checkers |-> {}]
  /\ sup = "wait"
  /\ child = "healthy"
  /\ faults = 0
  /\ stopping = FALSE
  /\ caller = [k \in Callers |-> "idle"]
  /\ shutdowns = 0

-------------------------------------------------------------------------------
(* NodeState (state.rs).  enter_locked has no caller.                      *)

CanServe == status \in {"Healthy", "Degraded"} /\ enclave = "Active"

EnterQuarantine ==
  /\ status' = "Quarantine"
  /\ UNCHANGED enclave

EnterZeroized ==
  /\ status' = "Zeroized"
  /\ enclave' = "Zeroized"

GoOperational ==
  /\ status' = "Healthy"
  /\ enclave' = "Active"

\* Mutation: the fault clearing always makes the node healthy.
RecoverFromAnything ==
  /\ status' = "Healthy"
  /\ enclave' = "Active"

RecoverFromDegraded ==
  IF status = "Degraded" THEN GoOperational ELSE UNCHANGED stateVars

Degrade ==
  /\ status' = IF status \in {"Healthy", "Degraded"} THEN "Degraded"
                                                      ELSE status
  /\ UNCHANGED enclave

(* Which requests admit lets through, as far as this state decides.          *)

\* A request names a model: a bundle id, or "default" (here NoBundle), which
\* means the bundle the runtime serves.
GateId(label) == IF label = NoBundle THEN Served ELSE label

\* The node's own runtime has loaded a plain model file.
PlainFile == Served = NoBundle /\ Supervised

Admits(label) ==
  /\ CanServe
  /\ PlainFile \/ Store!EnsureServable(GateId(label))

-------------------------------------------------------------------------------
(* Integrity checks, as the monitor, recovery and provisioning run them     *)

\* The caller c starts with the ids registered now.
StartChecks(c) ==
  /\ pc' = [pc EXCEPT ![c] = "check"]
  /\ todo' = [todo EXCEPT ![c] = Store!Registered]

\* run_integrity_check of one of the ids left.
CheckNext(c) ==
  /\ pc[c] = "check"
  /\ \E b \in todo[c] :
       /\ Store!BeginCheck(c, b)
       /\ todo' = [todo EXCEPT ![c] = @ \ {b}]
  /\ pc' = [pc EXCEPT ![c] = "checking"]
  /\ UNCHANGED <<halt_on_tamper, stateVars, tamper, runtimeVars, stopVars>>

\* The shards are hashed; after an I/O error the caller goes to onError.
Hash(c, onError) ==
  /\ pc[c] = "checking"
  /\ Store!HashShards(c)
  /\ pc' = [pc EXCEPT ![c] = IF checks'[c].pc = "idle" THEN onError ELSE @]
  /\ UNCHANGED <<halt_on_tamper, stateVars, tamper, todo, runtimeVars,
                 stopVars>>

\* The verdict is recorded; the caller goes on, or to onFailed.
Verdict(c, onFailed) ==
  /\ pc[c] = "checking"
  /\ Store!RecordVerdict(c)
  /\ pc' = [pc EXCEPT ![c] = IF checks[c].result = "failed" THEN onFailed
                                                           ELSE "check"]
  /\ UNCHANGED <<halt_on_tamper, stateVars, tamper, todo, runtimeVars,
                 stopVars>>

(* The monitor loop.  select! polls its branches in random order: a tick    *)
(* may win against a cancelled token.                                       *)

MonitorTick ==
  /\ "monitor" \in Actors
  /\ pc["monitor"] = "idle"
  /\ ~tamper
  /\ StartChecks("monitor")
  /\ UNCHANGED <<halt_on_tamper, storeVars, stateVars, tamper, runtimeVars,
                 stopVars>>

\* Mutation: the token is looked at only where a tick is skipped.
MonitorStopWhenSkipping ==
  /\ pc["monitor"] = "idle"
  /\ stopping
  /\ tamper
  /\ pc' = [pc EXCEPT !["monitor"] = "stopped"]
  /\ UNCHANGED <<halt_on_tamper, storeVars, stateVars, tamper, todo,
                 runtimeVars, stopVars>>

MonitorStop ==
  /\ pc["monitor"] = "idle"
  /\ stopping
  /\ pc' = [pc EXCEPT !["monitor"] = "stopped"]
  /\ UNCHANGED <<halt_on_tamper, storeVars, stateVars, tamper, todo,
                 runtimeVars, stopVars>>

\* What run_check does with Ok(false).
OnTamper == IF halt_on_tamper THEN "flag" ELSE "check"

MonitorFlag ==
  /\ pc["monitor"] = "flag"
  /\ tamper' = TRUE
  /\ pc' = [pc EXCEPT !["monitor"] = "halt"]
  /\ UNCHANGED <<halt_on_tamper, storeVars, stateVars, todo, runtimeVars,
                 stopVars>>

MonitorHalt ==
  /\ pc["monitor"] = "halt"
  /\ EnterQuarantine
  /\ pc' = [pc EXCEPT !["monitor"] = "check"]
  /\ UNCHANGED <<halt_on_tamper, storeVars, tamper, todo, runtimeVars,
                 stopVars>>

MonitorDone ==
  /\ pc["monitor"] = "check"
  /\ todo["monitor"] = {}
  /\ pc' = [pc EXCEPT !["monitor"] = "idle"]
  /\ UNCHANGED <<halt_on_tamper, storeVars, stateVars, tamper, todo,
                 runtimeVars, stopVars>>

Monitor ==
  \/ MonitorTick \/ MonitorStop \/ MonitorFlag \/ MonitorHalt \/ MonitorDone
  \/ CheckNext("monitor")
  \/ Hash("monitor", "check")
  \/ Verdict("monitor", OnTamper)

-------------------------------------------------------------------------------
(* Operator actions (handlers.rs)                                           *)

\* The API is up until the server is on its way out.
ApiUp == caller[Exit] = "idle"

AdminRecover ==
  /\ "recover" \in Actors
  /\ ApiUp
  /\ pc["recover"] = "idle"
  /\ StartChecks("recover")
  /\ UNCHANGED <<halt_on_tamper, storeVars, stateVars, tamper, runtimeVars,
                 stopVars>>

\* Every check passed: the monitor's flag is reset.
RecoverReset ==
  /\ pc["recover"] = "check"
  /\ todo["recover"] = {}
  /\ tamper' = FALSE
  /\ pc' = [pc EXCEPT !["recover"] = "resume"]
  /\ UNCHANGED <<halt_on_tamper, storeVars, stateVars, todo, runtimeVars,
                 stopVars>>

\* The client hung up, or the router's TimeoutLayer dropped the handler, while
\* the checks ran on their blocking thread.
RecoverAbandoned ==
  /\ pc["recover"] = "check"
  /\ todo["recover"] = {}
  /\ pc' = [pc EXCEPT !["recover"] = "idle"]
  /\ UNCHANGED <<halt_on_tamper, storeVars, stateVars, tamper, todo,
                 runtimeVars, stopVars>>

\* go_operational, and the reply "Node recovered and serving".
RecoverResume ==
  /\ pc["recover"] = "resume"
  /\ GoOperational
  /\ pc' = [pc EXCEPT !["recover"] = "idle"]
  /\ UNCHANGED <<halt_on_tamper, storeVars, tamper, todo, runtimeVars,
                 stopVars>>

\* `.all(|id| ...unwrap_or(false))` stops at the first bundle that does not
\* pass, and recovery is refused.
OnRecoverFailed == "idle"

\* A recovery that has begun.
RecoverGoesOn ==
  \/ RecoverReset \/ RecoverAbandoned \/ RecoverResume
  \/ CheckNext("recover")
  \/ Hash("recover", OnRecoverFailed)
  \/ Verdict("recover", OnRecoverFailed)

Recover == AdminRecover \/ RecoverGoesOn

\* provision_model registers the bundle, then checks it.
ProvisionModel ==
  /\ "provision" \in Actors
  /\ ApiUp
  /\ pc["provision"] = "idle"
  /\ \E b \in Bundles, m \in Manifests :
       /\ Store!Register(b, m)
       /\ todo' = [todo EXCEPT !["provision"] = {b}]
  /\ pc' = [pc EXCEPT !["provision"] = "check"]
  /\ UNCHANGED <<halt_on_tamper, stateVars, tamper, runtimeVars, stopVars>>

ProvisionDone ==
  /\ pc["provision"] = "check"
  /\ todo["provision"] = {}
  /\ pc' = [pc EXCEPT !["provision"] = "idle"]
  /\ UNCHANGED <<halt_on_tamper, storeVars, stateVars, tamper, todo,
                 runtimeVars, stopVars>>

\* A provisioning that has begun.
ProvisionGoesOn ==
  \/ ProvisionDone
  \/ CheckNext("provision")
  \/ Hash("provision", "idle")
  \/ Verdict("provision", "idle")

Provision == ProvisionModel \/ ProvisionGoesOn

AdminQuarantine ==
  /\ "quarantine" \in Actors
  /\ ApiUp
  /\ EnterQuarantine
  /\ UNCHANGED <<halt_on_tamper, storeVars, checkerVars, runtimeVars,
                 stopVars>>

AdminTeardown(k) ==
  /\ "teardown" \in Actors
  /\ ApiUp
  /\ k \in Teardowns
  /\ caller[k] = "idle"
  /\ EnterZeroized
  /\ caller' = [caller EXCEPT ![k] = "enter"]
  /\ UNCHANGED <<halt_on_tamper, storeVars, checkerVars, runtimeVars,
                 stopping, shutdowns>>

\* The listeners have stopped.  A connection may outlive the drain period, so
\* handlers in flight go on.
ServerExits ==
  /\ "exit" \in Actors
  /\ caller[Exit] = "idle"
  /\ caller' = [caller EXCEPT ![Exit] = "enter"]
  /\ UNCHANGED <<halt_on_tamper, storeVars, stateVars, checkerVars,
                 runtimeVars, stopping, shutdowns>>

-------------------------------------------------------------------------------
(* CordonNode::shutdown                                                     *)

Goes(k, here, next) ==
  /\ caller[k] = here
  /\ caller' = [caller EXCEPT ![k] = next]

\* `if self.stopping.is_cancelled() { return; }`
ShutdownEnter(k) ==
  /\ Goes(k, "enter", IF stopping THEN "returned" ELSE "cancel")
  /\ UNCHANGED <<halt_on_tamper, storeVars, stateVars, checkerVars,
                 runtimeVars, stopping, shutdowns>>

ShutdownCancel(k) ==
  /\ Goes(k, "cancel", "terminate")
  /\ stopping' = TRUE
  /\ UNCHANGED <<halt_on_tamper, storeVars, stateVars, checkerVars,
                 runtimeVars, shutdowns>>

\* inference.shutdown: LlamaSupervisor::terminate takes the child and kills it.
ShutdownTerminate(k) ==
  /\ Goes(k, "terminate", "record")
  /\ child' = "none"
  /\ UNCHANGED <<halt_on_tamper, storeVars, stateVars, checkerVars, sup,
                 faults, stopping, shutdowns>>

\* The staged file is erased (build did so already) and the audit log gets a
\* Shutdown record.
ShutdownRecord(k) ==
  /\ Goes(k, "record", "returned")
  /\ shutdowns' = shutdowns + 1
  /\ UNCHANGED <<halt_on_tamper, storeVars, stateVars, checkerVars,
                 runtimeVars, stopping>>

\* The client of a teardown hung up while terminate waited for the child to
\* end: the handler is dropped there, with the child killed.
TeardownAbandoned(k) ==
  /\ k \in Teardowns
  /\ child # "none"
  /\ Goes(k, "terminate", "abandoned")
  /\ child' = "none"
  /\ UNCHANGED <<halt_on_tamper, storeVars, stateVars, checkerVars, sup,
                 faults, stopping, shutdowns>>

Shutdown(k) ==
  \/ ShutdownEnter(k) \/ ShutdownCancel(k) \/ ShutdownTerminate(k)
  \/ ShutdownRecord(k)

-------------------------------------------------------------------------------
(* The model runtime and its supervision                                    *)

\* child: "none" (nothing in the mutex), "starting", "healthy" (answers
\* /health) or "exited" (a process that has ended, not yet taken).

\* build erased the staged plaintext once the runtime had loaded it; the
\* supervisor keeps launching the runtime against that path.
ModelFileExists == Served = NoBundle

\* The runtime answers once it has loaded the model file; started against a
\* missing one it exits.
ChildLoads ==
  /\ child = "starting"
  /\ child' = IF ModelFileExists THEN "healthy" ELSE "exited"
  /\ UNCHANGED <<halt_on_tamper, storeVars, stateVars, checkerVars, sup,
                 faults, stopVars>>

ChildCrashes ==
  /\ child \in {"starting", "healthy"}
  /\ faults < MaxFaults
  /\ faults' = faults + 1
  /\ child' = "exited"
  /\ UNCHANGED <<halt_on_tamper, storeVars, stateVars, checkerVars, sup,
                 stopVars>>

\* The loop breaks out of a select! on the cancelled token: while it waits, or
\* at an await point of restart, whose future is dropped.
SupStop ==
  /\ stopping
  /\ sup \in {"wait", "select", "killing", "await", "webui"}
  /\ sup' = "done"
  /\ UNCHANGED <<halt_on_tamper, storeVars, stateVars, checkerVars, child,
                 faults, stopVars>>

\* is_running, on a tick.
SupTick ==
  /\ "supervisor" \in Actors
  /\ Supervised
  /\ sup = "wait"
  /\ child \in {"none", "exited"}
  /\ sup' = "degrade"
  /\ UNCHANGED <<halt_on_tamper, storeVars, stateVars, checkerVars, child,
                 faults, stopVars>>

SupDegrade ==
  /\ sup = "degrade"
  /\ Degrade
  /\ sup' = "select"
  /\ UNCHANGED <<halt_on_tamper, storeVars, checkerVars, child, faults,
                 stopVars>>

\* restart: terminate takes whatever child there is and waits for its end.
SupTerminate ==
  /\ sup = "select"
  /\ sup' = IF child = "none" THEN "spawn" ELSE "killing"
  /\ child' = "none"
  /\ UNCHANGED <<halt_on_tamper, storeVars, stateVars, checkerVars, faults,
                 stopVars>>

SupKilled ==
  /\ sup = "killing"
  /\ sup' = "spawn"
  /\ UNCHANGED <<halt_on_tamper, storeVars, stateVars, checkerVars, child,
                 faults, stopVars>>

\* spawn_child stores the new child, or fails to launch it.
SupSpawn ==
  /\ sup = "spawn"
  /\ \/ /\ child' = "starting"
        /\ sup' = "await"
        /\ UNCHANGED faults
     \/ /\ faults < MaxFaults
        /\ faults' = faults + 1
        /\ sup' = "failed"
        /\ UNCHANGED child
  /\ UNCHANGED <<halt_on_tamper, storeVars, stateVars, checkerVars, stopVars>>

\* await_healthy: the child answers, has exited, or has not answered within
\* startup_timeout, which leaves it running.
SupAwait ==
  /\ sup = "await"
  /\ \/ child = "healthy" /\ sup' = "webui" /\ UNCHANGED faults
     \/ child = "exited" /\ sup' = "failed" /\ UNCHANGED faults
     \/ /\ child \in {"starting", "none"}
        /\ faults < MaxFaults
        /\ faults' = faults + 1
        /\ sup' = "failed"
  /\ UNCHANGED <<halt_on_tamper, storeVars, stateVars, checkerVars, child,
                 stopVars>>

\* assert_web_ui_unreachable: an error leaves the child running.
SupWebUi ==
  /\ sup = "webui"
  /\ \/ sup' = "recover"
     \/ "webui" \in Actors /\ child = "healthy" /\ sup' = "failed"
  /\ UNCHANGED <<halt_on_tamper, storeVars, stateVars, checkerVars, child,
                 faults, stopVars>>

SupRecover ==
  /\ sup = "recover"
  /\ RecoverFromDegraded
  /\ sup' = "wait"
  /\ UNCHANGED <<halt_on_tamper, storeVars, checkerVars, child, faults,
                 stopVars>>

\* Mutation: a failed restart ends the loop.
SupFailAndStop ==
  /\ sup = "failed"
  /\ Degrade
  /\ sup' = "done"
  /\ UNCHANGED <<halt_on_tamper, storeVars, checkerVars, child, faults,
                 stopVars>>

SupFail ==
  /\ sup = "failed"
  /\ Degrade
  /\ sup' = "wait"
  /\ UNCHANGED <<halt_on_tamper, storeVars, checkerVars, child, faults,
                 stopVars>>

Supervise ==
  \/ SupTick \/ SupDegrade \/ SupTerminate \/ SupKilled \/ SupSpawn
  \/ SupAwait \/ SupWebUi \/ SupRecover \/ SupFail

-------------------------------------------------------------------------------
(* The environment: the clock and the disk                                  *)

Clock ==
  /\ "monitor" \in Actors
  /\ Store!Tick
  /\ UNCHANGED <<halt_on_tamper, stateVars, checkerVars, runtimeVars,
                 stopVars>>

Disk ==
  /\ "disk" \in Actors
  /\ \E b \in Bundles : Store!DiskChanges(b)
  /\ UNCHANGED <<halt_on_tamper, stateVars, checkerVars, runtimeVars,
                 stopVars>>

Next ==
  \/ Monitor \/ Recover \/ Provision \/ AdminQuarantine
  \/ \E k \in Callers : AdminTeardown(k) \/ Shutdown(k) \/ TeardownAbandoned(k)
  \/ ServerExits
  \/ ChildLoads \/ ChildCrashes \/ Supervise \/ SupStop
  \/ Clock \/ Disk

Spec == Init /\ [][Next]_vars

\* Tasks that can run do run, and so do handlers once they are called, blocking
\* threads included; nobody has to call one.  The clock goes on; the runtime
\* finishes loading.  A tick is not ready again right after it was taken, so a
\* select! that keeps being polled with its token cancelled takes the cancelled
\* branch in the end (SF).
FairSpec ==
  /\ Spec
  /\ WF_vars(Monitor) /\ SF_vars(MonitorStop)
  /\ WF_vars(RecoverGoesOn) /\ WF_vars(ProvisionGoesOn)
  /\ WF_vars(Supervise) /\ SF_vars(SupStop)
  /\ WF_vars(ChildLoads)
  /\ WF_vars(Clock)
  /\ \A k \in Callers : WF_vars(Shutdown(k))

-------------------------------------------------------------------------------
(* Properties *)

\* Type correctness of the node's state.
TypeOK ==
  /\ Store!TypeOK
  /\ status \in Statuses
  /\ enclave \in {"Active", "Zeroized"}
  /\ halt_on_tamper \in BOOLEAN
  /\ tamper \in BOOLEAN
  /\ pc \in [Checkers -> {"idle", "check", "checking", "flag", "halt",
                         "resume", "stopped"}]
  /\ todo \in [Checkers -> SUBSET Bundles]
  /\ sup \in {"wait", "degrade", "select", "killing", "spawn", "await",
              "webui", "recover", "failed", "done"}
  /\ child \in {"none", "starting", "healthy", "exited"}
  /\ faults \in 0 .. MaxFaults
  /\ stopping \in BOOLEAN
  /\ caller \in [Callers -> {"idle", "enter", "cancel", "terminate", "record",
                             "returned", "abandoned"}]
  /\ shutdowns \in Nat

\* A node leaves quarantine or the zeroized state for a serving one only by
\* the last step of admin_recover: no fault, restart or monitor result lifts
\* what an operator must lift, however it interleaves.
OnlyOperatorResumes ==
  [][(status \in {"Quarantine", "Zeroized"} /\ CanServe') => RecoverResume]_vars

\* The model the runtime has loaded is served to whoever asks for it.
Servable == Admits(NoBundle)

\* However the monitor, recovery and provisioning interleave their checks of a
\* bundle, the verdict in the registry is the outcome of the latest hashing: no
\* slow check overwrites a newer verdict (run_integrity_check).
VerdictIsLatest == Store!VerdictIsLatest

\* Weights that failed a check are not served to a request for them until they
\* are provisioned again, whatever recovery, the monitor and the supervisor do
\* to the status.
FailedWeightsNotServed == Served \in withdrawn => ~Servable

\* While shards stay altered the node ends up refusing requests for good,
\* whatever halt_on_tamper says, and though nobody need ever call recover or
\* provision, or somebody may without end.
BadWeightsLeaveService ==
  <>[](Served # NoBundle /\ shards[Served] \in {"altered", "unreadable"})
    => <>[]~Servable

\* A runtime that dies under a node that serves a plain file and is not stopping
\* comes back, through crashes, failed launches and startup timeouts.  (A node
\* that serves a sealed bundle has erased the file its supervisor would load.)
RuntimeComesBack ==
  PlainFile => (child # "healthy" ~> child = "healthy" \/ stopping)

\* Everybody who calls shutdown returns from it unless its client hung up, the
\* background loops end, and the log gets a Shutdown record unless the caller
\* that was to write it is gone.
ShutdownEnds ==
  /\ \A k \in Callers :
       caller[k] = "enter" ~> caller[k] \in {"returned", "abandoned"}
  /\ stopping ~> sup = "done"
  /\ stopping ~> pc["monitor"] = "stopped"
  /\ stopping ~> shutdowns > 0 \/ \E k \in Callers : caller[k] = "abandoned"
===============================================================================
