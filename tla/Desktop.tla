------------------------------ MODULE Desktop ------------------------------
(***************************************************************************)
(* The desktop app: its commands (main.rs), the engine that starts, stops  *)
(* and restarts a node inside the app's process (engine.rs), the clients   *)
(* it issues certificates to and the registry a node enforces (remote.rs), *)
(* the key it keeps (keys.rs) and the decrypted weights a start stages     *)
(* (model_store.rs, node.rs).                                              *)
(*                                                                         *)
(* Commands run beside each other and beside the engine.  A start is a     *)
(* spawned task that carries the settings it was spawned with; starts and  *)
(* stops take the engine's slot in whatever order their tasks run, and two *)
(* waiting starts with the same settings are one.  The weights are         *)
(* decrypted on a thread of their own, which goes on when the start that   *)
(* wanted it is abandoned; all of them use the one path of the bundle.     *)
(* remote_issue runs on the async pool, remote_revoke on the main thread:  *)
(* each loads the records, changes its copy and saves it, with no lock     *)
(* between them; a save, a temporary file and its rename, is one step.     *)
(* Time is only that a wait may end: STOP_TIMEOUT, the 10 seconds of       *)
(* build_node and the 30 of the exit may pass at any moment.               *)
(***************************************************************************)
EXTENDS Deployment

CONSTANTS
  Choices,      \* the settings a person saves
  Certs,        \* certificates that may be issued
  Issued,       \* the ones an earlier session has issued
  ClientOf,     \* certificate -> the client it names
  Keys,         \* Client Master Keys that may be created or imported
  Threads,      \* threads of the blocking pool
  Probe,        \* the roots of trust this machine has
  NoOne,        \* no key, no thread, no file, no node
  MaxCommands,  \* bound: commands given
  MaxLaunches,  \* bound: launches of the app
  MaxTries      \* bound: builds retried while the audit log is claimed

ASSUME DesktopAssumption ==
  /\ Choices \subseteq {s \in Settings : s.sane}
  /\ Issued \subseteq Certs
  /\ \A c \in Certs : c # "console" /\ ClientOf[c] \notin Certs
  /\ \A c \in Issued : ClientOf[c] # "console"
  /\ NoOne \notin Threads \cup Certs
  /\ NoOne \notin [by : Threads \cup {NoOne}, at : {"partial", "whole", "left"},
                   kept : BOOLEAN]
  /\ \A n \in {MaxCommands, MaxLaunches, MaxTries} : n \in Nat

VARIABLES
  settings,   \* Desktop::settings, and settings.json
  key,        \* the key file
  disk,       \* the kinds of model on disk
  certs,      \* remote-clients.json: certificate -> its record's state
  issues,     \* remote_issue of each certificate: [at, all, exposed]
  main,       \* remote_revoke or remote_clear_revoked: [at, cert, all, alone]
  app,        \* the process
  phase,      \* Engine::phase
  starts,     \* spawned starts that wait for the slot, by their settings
  calls,      \* commands in an await: operation -> [at, s]
  slot,       \* Engine::slot while a start or a stop holds it
  node,       \* Engine::slot's Running
  lingering,  \* old nodes something still holds
  threads,    \* stage_plaintext on each thread
  file,       \* what is at the staged path
  shut,       \* history: certificates revoked while settings expose a node
              \* and no issue was between its load and its save
  commands, launches

records == <<certs, issues, main>>
disks == <<settings, key, disk, records>>
engine == <<phase, starts, slot, node, lingering>>
vars == <<disks, app, engine, calls, threads, file, shut, commands, launches>>

-----------------------------------------------------------------------------
(* Values *)

Ops == {"stop", "quit", "remove", "key", "capture"}
Steps == {"booting", "building", "staging", "loading", "opening", "failing"}

Idle == [at |-> "idle", s |-> DefaultSettings]
Log == [mode : Modes \cup {"local"}, key : Keys \cup {NoOne}]
Free == [at |-> "free", by |-> "start", s |-> DefaultSettings,
         log |-> NoOne, registry |-> {}, woken |-> FALSE, tries |-> 0,
         thread |-> NoOne]

(* The audit log of a plan: one per mode and key, or the local one. *)
LogOf(s) == IF UsesCmk(s) THEN [mode |-> s.mode, key |-> key]
                          ELSE [mode |-> "local", key |-> NoOne]

(* Plaintext that stays: nothing removes it, or a removal has failed. *)
Left == [by |-> NoOne, at |-> "left", kept |-> TRUE]

NoIssue == [at |-> "idle", all |-> [c \in Certs |-> "none"],
            exposed |-> FALSE]
MainIdle == [at |-> "idle", cert |-> NoOne, all |-> [c \in Certs |-> "none"],
             alone |-> FALSE]

(* write_registry: the live certificates, and the console. *)
Live == {c \in Certs : certs[c] = "live"}
Registry(s) == IF UsesTls(s) THEN Live \cup {"console"} ELSE {}

(* An identity registry without entries admits everyone; the entry of the  *)
(* console has no pin, so that any certificate of that name matches it.    *)
Admits(n, c) ==
  UsesTls(n.s) /\ (n.registry = {} \/ {c, ClientOf[c]} \cap n.registry # {})

(* pki::validate_client_id: the console's name is reserved. *)
ValidClientId(id) == id # "console"

(* remote::issue: one live certificate of a name. *)
Issuable(c) ==
  /\ certs[c] = "none"
  /\ ValidClientId(ClientOf[c])
  /\ \A d \in Live : ClientOf[d] # ClientOf[c]

(* remote::revoke and clear_revoked, on the records they have loaded *)
Revoked(all, c) == [all EXCEPT ![c] = "revoked"]
Cleared(all) ==
  [c \in Certs |-> IF all[c] = "revoked" THEN "forgotten" ELSE all[c]]

(* StagedModel::erase, by path: a removal that fails is only logged. *)
Removes ==
  \/ file' = NoOne
  \/ file # NoOne /\ file' = [file EXCEPT !.kept = TRUE]

Erase(sealed) == IF sealed THEN Removes ELSE UNCHANGED file

(* Desktop::save: the file, then the copy in memory. *)
Save(s) == SettingsValid(s) /\ settings' = s

(* The boot holds a StagedModel, whose drop removes the path. *)
Holds == slot.at = "loading" /\ slot.thread # NoOne

Lingers(s, log) == [log |-> log, sealed |-> Sealed(s)]

Command ==
  /\ app = "up" /\ commands < MaxCommands
  /\ commands' = commands + 1
  /\ UNCHANGED <<app, launches>>

-----------------------------------------------------------------------------
(* Engine: what commands do to it *)

(* Desktop::start *)
Spawn(s) == starts' = starts \cup {s}

(* Mutation: a node that is still starting is not restarted. *)
RestartOnlyRunning(s) ==
  IF phase = "running" THEN Spawn(s) ELSE UNCHANGED starts

(* Desktop::restart_if_running *)
RestartIfRunning(s) ==
  IF phase \in {"running", "starting"} THEN Spawn(s) ELSE UNCHANGED starts

(* Engine::stop up to its wait: wake a start that is in its select. *)
CallStop(op, s) ==
  /\ calls[op].at = "idle"
  /\ calls' = [calls EXCEPT ![op] = [at |-> "waiting", s |-> s]]
  /\ slot' = IF slot.at \in Steps THEN [slot EXCEPT !.woken = TRUE] ELSE slot

-----------------------------------------------------------------------------
(* Commands *)

SaveSettings(s, restart) ==
  /\ Command /\ main.at = "idle"
  /\ s # settings
  /\ Save(s)
  /\ IF restart /\ s.model # "none" THEN Spawn(s) ELSE UNCHANGED starts
  /\ UNCHANGED <<key, disk, records, phase, slot, node, lingering, calls,
                 threads, file, shut>>

Start ==
  /\ Command /\ main.at = "idle"
  /\ settings.model # "none"
  /\ Spawn(settings)
  /\ UNCHANGED <<disks, phase, slot, node, lingering, calls, threads, file,
                 shut>>

Stop ==
  /\ Command
  /\ CallStop("stop", settings)
  /\ UNCHANGED <<disks, phase, starts, node, lingering, threads, file, shut>>

(* select_model and import_model. *)
SelectModel(m) ==
  /\ Command
  /\ m \in disk
  /\ Save([settings EXCEPT !.model = m])
  /\ Spawn(settings')
  /\ UNCHANGED <<key, disk, records, phase, slot, node, lingering, calls,
                 threads, file, shut>>

(* download, once it is there; a bundle that is sealed or imported. *)
ModelArrives(m) ==
  /\ Command
  /\ m \notin disk
  /\ m = "plain" => PermitsDownloads(settings.mode)
  /\ disk' = disk \cup {m}
  /\ IF m = "plain" /\ settings.model = "none"
       THEN Save([settings EXCEPT !.model = m]) /\ Spawn(settings')
       ELSE UNCHANGED <<settings, starts>>
  /\ UNCHANGED <<key, records, phase, slot, node, lingering, calls, threads,
                 file, shut>>

(* remove_model and bundle_remove: the selected model is stopped first. *)
Remove(m) ==
  /\ Command
  /\ m \in disk
  /\ IF settings.model = m
       THEN CallStop("remove", settings) /\ UNCHANGED disk
       ELSE disk' = disk \ {m} /\ UNCHANGED <<slot, calls>>
  /\ UNCHANGED <<settings, key, records, phase, starts, node, lingering,
                 threads, file, shut>>

(* ... and the settings read before the stop are saved after it. *)
RemoveEnds ==
  LET s == calls["remove"].s IN
  /\ calls["remove"].at = "done"
  /\ Save([s EXCEPT !.model = "none"])
  /\ disk' = disk \ {s.model}
  /\ calls' = [calls EXCEPT !["remove"] = Idle]
  /\ UNCHANGED <<key, records, app, engine, threads, file, shut, commands,
                 launches>>

(* key_create and key_import *)
KeyCreate(k) ==
  /\ Command
  /\ key = NoOne
  /\ key' = k
  /\ UNCHANGED <<settings, disk, records, engine, calls, threads, file, shut>>

KeyRemove ==
  /\ Command
  /\ IF UsesCmk(settings)
       THEN CallStop("key", settings) /\ UNCHANGED key
       ELSE key' = NoOne /\ UNCHANGED <<slot, calls>>
  /\ UNCHANGED <<settings, disk, records, phase, starts, node, lingering,
                 threads, file, shut>>

KeyRemoveEnds ==
  /\ calls["key"].at = "done"
  /\ key' = NoOne
  /\ calls' = [calls EXCEPT !["key"] = Idle]
  /\ UNCHANGED <<settings, disk, records, app, engine, threads, file, shut,
                 commands, launches>>

(* hardware_capture reads the measurements in between. *)
HardwareCapture ==
  /\ Command
  /\ calls["capture"].at = "idle" /\ settings.source # "none"
  /\ calls' = [calls EXCEPT !["capture"] = [at |-> "done", s |-> settings]]
  /\ UNCHANGED <<disks, engine, threads, file, shut>>

CaptureEnds ==
  LET s == calls["capture"].s IN
  /\ calls["capture"].at = "done"
  /\ \/ /\ s.source \in Probe
        /\ Save([s EXCEPT !.pcrs = s.source = "tpm2",
                          !.measurement = s.source = "sev_snp"])
     \/ UNCHANGED settings
  /\ calls' = [calls EXCEPT !["capture"] = Idle]
  /\ UNCHANGED <<key, disk, records, app, engine, threads, file, shut,
                 commands, launches>>

HardwarePick(what) ==
  /\ Command
  /\ Save([settings EXCEPT ![what] = TRUE])
  /\ UNCHANGED <<key, disk, records, engine, calls, threads, file, shut>>

(* remote_issue reads the settings and loads the records ... *)
RemoteIssue(c) ==
  /\ Command
  /\ issues[c].at = "idle" /\ Issuable(c)
  /\ issues' = [issues EXCEPT ![c] = [at |-> "loaded", all |-> certs,
                                     exposed |-> UsesTls(settings)]]
  /\ UNCHANGED <<settings, key, disk, certs, main, engine, calls, threads,
                 file, shut>>

(* ... saves them with the new certificate, or fails to sign or to save    *)
(* it ...                                                                  *)
IssueSaves(c) ==
  /\ issues[c].at = "loaded"
  /\ \/ /\ certs' = [issues[c].all EXCEPT ![c] = "live"]
        /\ issues' = [issues EXCEPT ![c].at = "saved"]
     \/ /\ issues' = [issues EXCEPT ![c] = NoIssue]
        /\ UNCHANGED certs
  /\ UNCHANGED <<settings, key, disk, main, app, engine, calls, threads, file,
                 shut, commands, launches>>

(* ... and restarts the node once the client's files are saved; where they *)
(* cannot be, it returns, with the certificate on record.                  *)
IssueEnds(c) ==
  /\ issues[c].at = "saved"
  /\ issues' = [issues EXCEPT ![c] = NoIssue]
  /\ \/ issues[c].exposed /\ RestartIfRunning(settings)
     \/ UNCHANGED starts
  /\ UNCHANGED <<settings, key, disk, certs, main, app, phase, slot, node,
                 lingering, calls, threads, file, shut, commands, launches>>

(* remote_revoke and remote_clear_revoked load the records ... *)
OnMain(cert) ==
  /\ Command
  /\ main.at = "idle"
  /\ main' = [at |-> "loaded", cert |-> cert, all |-> certs, alone |-> FALSE]
  /\ UNCHANGED <<settings, key, disk, certs, issues, engine, calls, threads,
                 file, shut>>

RemoteRevoke(c) == certs[c] \in {"live", "revoked"} /\ OnMain(c)

RemoteClearRevoked == (\E c \in Certs : certs[c] = "revoked") /\ OnMain(NoOne)

(* ... and save them, or fail to; alone is whether no issue has loaded     *)
(* records it is yet to save.                                              *)
MainSaves ==
  /\ main.at = "loaded"
  /\ \/ /\ main.cert = NoOne
        /\ certs' = Cleared(main.all)
        /\ main' = MainIdle
     \/ /\ main.cert # NoOne
        /\ certs' = Revoked(main.all, main.cert)
        /\ main' = [main EXCEPT !.at = "saved",
                                !.alone = \A c \in Certs :
                                            issues[c].at # "loaded"]
     \/ main' = MainIdle /\ UNCHANGED certs
  /\ UNCHANGED <<settings, key, disk, issues, app, engine, calls, threads,
                 file, shut, commands, launches>>

(* A revocation restarts the node before it returns. *)
RevokeEnds ==
  /\ main.at = "saved"
  /\ main' = MainIdle
  /\ IF UsesTls(settings)
       THEN /\ RestartIfRunning(settings)
            /\ shut' = IF main.alone THEN shut \cup {main.cert} ELSE shut
       ELSE UNCHANGED <<starts, shut>>
  /\ UNCHANGED <<settings, key, disk, certs, issues, app, phase, slot, node,
                 lingering, calls, threads, file, commands, launches>>

-----------------------------------------------------------------------------
(* The slot: start and stop *)

(* A stop() returns to the command that awaits it. *)
Returned(op) ==
  [calls EXCEPT ![op] = IF op = "stop" THEN Idle
                        ELSE [at |-> "done", s |-> calls[op].s]]

(* start and stop, once they have the lock: a running node is stopped. *)
Take(s, by) ==
  IF node # NoOne
    THEN /\ slot' = [Free EXCEPT !.at = "draining", !.by = by, !.s = s]
         /\ phase' = "stopping"
    ELSE IF by = "start"
      THEN slot' = [Free EXCEPT !.at = "booting", !.s = s]
           /\ phase' = "starting"
      ELSE UNCHANGED slot /\ phase' = "idle"

AcquireStart(s) ==
  /\ slot.at = "free" /\ s \in starts
  /\ starts' = starts \ {s}
  /\ Take(s, "start")
  /\ UNCHANGED <<disks, app, node, lingering, calls, threads, file, shut,
                 commands, launches>>

AcquireStop(op) ==
  /\ slot.at = "free" /\ calls[op].at = "waiting"
  /\ Take(DefaultSettings, op)
  /\ calls' = IF node = NoOne THEN Returned(op) ELSE calls
  /\ UNCHANGED <<disks, app, starts, node, lingering, threads, file, shut,
                 commands, launches>>

(* stop_running: the server ends or its timeout passes, shutdown erases    *)
(* the staged path, and the node is released in time or not.               *)
LetGo(s, log) ==
  /\ \/ UNCHANGED lingering
     \/ lingering' = lingering \cup {Lingers(s, log)}
  /\ Erase(Sealed(s))

Drained ==
  /\ slot.at = "draining"
  /\ LetGo(node.s, node.log)
  /\ node' = NoOne
  /\ IF slot.by = "start"
       THEN /\ slot' = [slot EXCEPT !.at = "booting"]
            /\ phase' = "starting" /\ UNCHANGED calls
       ELSE /\ slot' = Free
            /\ phase' = "idle" /\ calls' = Returned(slot.by)
  /\ UNCHANGED <<disks, app, starts, threads, shut, commands, launches>>

-----------------------------------------------------------------------------
(* boot *)

BootFails ==
  /\ slot' = Free
  /\ phase' = "failed"
  /\ Erase(Holds)

Boots(step) ==
  /\ slot.at = step
  /\ UNCHANGED <<disks, app, starts, calls, shut, commands, launches>>

(* plan, which may also find its port taken. *)
Plan ==
  /\ Boots("booting")
  /\ \/ /\ CanPlan(slot.s, disk, key # NoOne)
        /\ slot' = [slot EXCEPT !.at = "building", !.log = LogOf(slot.s),
                                !.registry = Registry(slot.s)]
        /\ UNCHANGED <<phase, file>>
     \/ BootFails
  /\ UNCHANGED <<node, lingering, threads>>

(* CordonNode::build up to its first wait: the key is read again, and a    *)
(* bundle that is still in the store goes to a thread.                     *)
Build ==
  /\ Boots("building")
  /\ IF UsesCmk(slot.s) /\ key = NoOne THEN BootFails /\ UNCHANGED threads
     ELSE /\ IF Sealed(slot.s) /\ "bundle" \in disk
               THEN \E t \in {u \in Threads : threads[u] = "idle"} :
                      /\ threads' = [threads EXCEPT ![t] = "queued"]
                      /\ slot' = [slot EXCEPT !.at = "staging", !.thread = t]
               ELSE /\ slot' = [slot EXCEPT !.at = "loading"]
                    /\ UNCHANGED threads
          /\ UNCHANGED <<phase, file>>
  /\ UNCHANGED <<node, lingering>>

(* Mutation: the build is retried for as long as the log is claimed. *)
RetryForever == slot' = [slot EXCEPT !.at = "building", !.thread = NoOne]

(* build_node: the audit log is claimed, and the deadline not passed. *)
Retry ==
  /\ slot.tries < MaxTries
  /\ slot' = [slot EXCEPT !.at = "building", !.thread = NoOne,
                          !.tries = slot.tries + 1]

(* The runtime loads the model, the staged file is erased and the audit    *)
(* log is opened; claimed by an old node, the build is retried.            *)
Load ==
  /\ Boots("loading")
  /\ \/ BootFails
     \/ /\ IF Sealed(slot.s) THEN file # NoOne /\ file.at = "whole"
                             ELSE "plain" \in disk
        /\ Erase(Sealed(slot.s))
        /\ IF \E l \in lingering : l.log = slot.log
             THEN Retry
             ELSE slot' = [slot EXCEPT !.at = "opening"]
        /\ UNCHANGED phase
  /\ UNCHANGED <<node, lingering, threads>>

(* The listener answers and the node is published ... *)
Publish ==
  /\ Boots("opening")
  /\ node' = [s |-> slot.s, log |-> slot.log, registry |-> slot.registry]
  /\ slot' = Free
  /\ phase' = "running"
  /\ UNCHANGED <<lingering, threads, file>>

(* ... or the server has stopped, and so is the node. *)
OpenFails ==
  /\ Boots("opening")
  /\ slot' = [slot EXCEPT !.at = "failing"]
  /\ UNCHANGED <<phase, node, lingering, threads, file>>

FailedStops ==
  /\ Boots("failing")
  /\ LetGo(slot.s, slot.log)
  /\ slot' = Free
  /\ phase' = "failed"
  /\ UNCHANGED <<node, threads>>

(* Mutation: the weights of an abandoned start are left where they are. *)
AbandonLeaves ==
  /\ slot.at \in Steps /\ slot.woken
  /\ slot' = Free
  /\ phase' = "failed"
  /\ lingering' = IF slot.at \in {"opening", "failing"}
                    THEN lingering \cup {Lingers(slot.s, slot.log)}
                    ELSE lingering
  /\ UNCHANGED <<disks, app, starts, node, calls, threads, file, shut,
                 commands, launches>>

(* The select takes the notification: the boot future is dropped.  Its     *)
(* thread, or the server it has spawned, goes on by itself.                *)
Abandon ==
  /\ slot.at \in Steps /\ slot.woken
  /\ BootFails
  /\ lingering' = IF slot.at \in {"opening", "failing"}
                    THEN lingering \cup {Lingers(slot.s, slot.log)}
                    ELSE lingering
  /\ UNCHANGED <<disks, app, starts, node, calls, threads, shut, commands,
                 launches>>

-----------------------------------------------------------------------------
(* stage_plaintext on thread t *)

Stages(t, st) ==
  /\ threads[t] \in st
  /\ UNCHANGED <<disks, app, starts, node, lingering, calls, shut, commands,
                 launches>>

Wanted(t) == slot.at = "staging" /\ slot.thread = t

(* create_private_file: whatever is at the path is unlinked. *)
StageBegins(t) ==
  /\ Stages(t, {"queued"})
  /\ threads' = [threads EXCEPT ![t] = "writing"]
  /\ file' = [by |-> t, at |-> "partial", kept |-> FALSE]
  /\ UNCHANGED <<phase, slot>>

(* Every shard is written and the digest agrees.  Nobody waits for the     *)
(* result of an abandoned start: its StagedModel is dropped.               *)
StageEnds(t) ==
  /\ Stages(t, {"writing"})
  /\ threads' = [threads EXCEPT ![t] = "idle"]
  /\ IF Wanted(t)
       THEN /\ slot' = [slot EXCEPT !.at = "loading"]
            /\ file' = IF file # NoOne /\ file.by = t
                         THEN [file EXCEPT !.at = "whole"] ELSE file
       ELSE UNCHANGED slot /\ Removes
  /\ UNCHANGED phase

(* A shard fails and what was written stays, or only the digest of the     *)
(* whole does and the path is removed.                                     *)
StageFails(t) ==
  /\ Stages(t, {"queued", "writing"})
  /\ threads' = [threads EXCEPT ![t] = "idle"]
  /\ \/ file' = IF file # NoOne /\ file.by = t THEN Left ELSE file
     \/ threads[t] = "writing" /\ Removes
  /\ IF Wanted(t) THEN slot' = Free /\ phase' = "failed"
                  ELSE UNCHANGED <<slot, phase>>

(* Nothing holds an old node any more: its StagedModel is dropped too. *)
OldNodeReleased(l) ==
  /\ l \in lingering
  /\ lingering' = lingering \ {l}
  /\ Erase(l.sealed)
  /\ UNCHANGED <<disks, app, phase, starts, slot, node, calls, threads, shut,
                 commands, launches>>

-----------------------------------------------------------------------------
(* The process *)

(* The window closes: the node is stopped first. *)
Quit ==
  /\ app = "up" /\ main.at = "idle"
  /\ app' = "quitting"
  /\ CallStop("quit", settings)
  /\ UNCHANGED <<disks, phase, starts, node, lingering, threads, file, shut,
                 commands, launches>>

ProcessEnds ==
  /\ app' = "off"
  /\ phase' = "idle"
  /\ starts' = {} /\ lingering' = {}
  /\ calls' = [op \in Ops |-> Idle]
  /\ slot' = Free /\ node' = NoOne
  /\ threads' = [t \in Threads |-> "idle"]
  /\ file' = IF file = NoOne THEN NoOne ELSE Left
  /\ issues' = [c \in Certs |-> NoIssue] /\ main' = MainIdle
  /\ UNCHANGED <<settings, key, disk, certs, shut, commands, launches>>

(* The stop has returned, or 30 seconds have passed. *)
Exit == app = "quitting" /\ ProcessEnds

Kill == app = "up" /\ ProcessEnds

Launch ==
  /\ app = "off" /\ launches < MaxLaunches
  /\ app' = "up"
  /\ launches' = launches + 1
  /\ IF settings.start_on_launch /\ settings.model # "none"
       THEN Spawn(settings) ELSE UNCHANGED starts
  /\ UNCHANGED <<disks, phase, slot, node, lingering, calls, threads, file,
                 shut, commands>>

-----------------------------------------------------------------------------
(* A data directory some earlier session has left. *)
Init ==
  /\ settings \in Choices
  /\ key \in Keys
  /\ disk = {"plain", "bundle"}
  /\ certs = [c \in Certs |-> IF c \in Issued THEN "live" ELSE "none"]
  /\ issues = [c \in Certs |-> NoIssue] /\ main = MainIdle
  /\ app = "off" /\ phase = "idle"
  /\ starts = {} /\ calls = [op \in Ops |-> Idle]
  /\ slot = Free /\ node = NoOne /\ lingering = {}
  /\ threads = [t \in Threads |-> "idle"] /\ file = NoOne
  /\ shut = {} /\ commands = 0 /\ launches = 0

Commands ==
  \/ \E s \in Choices, restart \in BOOLEAN : SaveSettings(s, restart)
  \/ Start
  \/ Stop
  \/ \E m \in {"plain", "bundle"} :
       SelectModel(m) \/ ModelArrives(m) \/ Remove(m)
  \/ \E k \in Keys : KeyCreate(k)
  \/ KeyRemove
  \/ HardwareCapture
  \/ \E what \in {"ak", "amd_root"} : HardwarePick(what)
  \/ \E c \in Certs : RemoteIssue(c) \/ RemoteRevoke(c)
  \/ RemoteClearRevoked
  \/ Quit
  \/ Kill
  \/ Launch

SlotStep ==
  \/ \E s \in starts : AcquireStart(s)
  \/ \E op \in Ops : AcquireStop(op)
  \/ Drained
  \/ Plan
  \/ Build
  \/ Load
  \/ Publish
  \/ OpenFails
  \/ FailedStops
  \/ Abandon

StageStep(t) == StageBegins(t) \/ StageEnds(t) \/ StageFails(t)

Next ==
  \/ Commands
  \/ SlotStep
  \/ \E t \in Threads : StageStep(t)
  \/ \E l \in lingering : OldNodeReleased(l)
  \/ RemoveEnds
  \/ KeyRemoveEnds
  \/ CaptureEnds
  \/ \E c \in Certs : IssueSaves(c) \/ IssueEnds(c)
  \/ MainSaves
  \/ RevokeEnds
  \/ Exit

Spec == Init /\ [][Next]_vars

(* The tasks and threads of the process run; a wait has its timeout.       *)
(* Nothing makes a client close its connection, so an old node may be held *)
(* for ever, and nothing makes a person act.                               *)
FairSpec ==
  /\ Spec
  /\ WF_vars(SlotStep)
  /\ \A t \in Threads : WF_vars(StageStep(t))

-----------------------------------------------------------------------------
(* Every variable is in its set; a node is drained by who holds the slot,  *)
(* and a boot has no node beside it.                                       *)
TypeOK ==
  /\ settings \in Settings /\ settings.sane
  /\ key \in Keys \cup {NoOne} /\ disk \subseteq {"plain", "bundle"}
  /\ certs \in [Certs -> {"none", "live", "revoked", "forgotten"}]
  /\ \A c \in Certs : issues[c].at \in {"idle", "loaded", "saved"}
  /\ main.at \in {"idle", "loaded", "saved"} /\ main.cert \in Certs \cup {NoOne}
  /\ app \in {"off", "up", "quitting"}
  /\ phase \in {"idle", "starting", "running", "stopping", "failed"}
  /\ starts \subseteq Settings
  /\ \A op \in Ops : calls[op].at \in {"idle", "waiting", "done"}
  /\ slot.at \in Steps \cup {"free", "draining"}
  /\ slot.by \in Ops \cup {"start"} /\ slot.log \in Log \cup {NoOne}
  /\ slot.at = "draining" => node # NoOne
  /\ slot.at \in Steps => node = NoOne
  /\ \A l \in lingering : l.log \in Log
  /\ \A t \in Threads : threads[t] \in {"idle", "queued", "writing"}
  /\ shut \subseteq Certs

AtRest == starts = {} /\ slot.at = "free"

(* A client whose certificate was revoked while the settings expose the    *)
(* node is not served once the engine is at rest: whether the node was     *)
(* running, starting or stopping, and whatever else was asked for since,   *)
(* the node that serves has read the records after the revocation          *)
(* (remote_revoke, restart_if_running, write_registry).  A revocation that *)
(* saves while an issue is between its load and its save is excepted: that *)
(* issue puts the certificate back, as it had loaded it.                   *)
RevokedIsShut ==
  AtRest /\ node # NoOne => \A c \in shut : ~Admits(node, c)

(* Decrypted weights are on disk only while a thread writes them or a      *)
(* start holds them for its runtime, or because a shard failed, a removal  *)
(* failed or the process ended while they were there: no abandoned, failed *)
(* or retried start, and no node that stops late, leaves them without      *)
(* having tried to remove them (StagedModel).                              *)
PlaintextAccounted ==
  file # NoOne /\ ~file.kept =>
    \/ file.by # NoOne /\ threads[file.by] = "writing"
    \/ Holds

(* What has been prepared starts, and delivers what its mode is documented *)
(* to: the configuration of cordon run, settings the app reports ready for *)
(* a hardened mode, and a template completed as it says, once it is also   *)
(* given a Client Master Key, the one thing the template does not ask for  *)
(* (plan, validate, provision_keys, build_backend, AttestationService::new *)
(* on a machine whose roots of trust answer).                              *)
PreparedStarts ==
  launches = 0 =>
    /\ \A mode \in Modes : TemplateStarts(mode)
    /\ \A ui \in BOOLEAN : Builds(RunConfig(ui), {})
    /\ \A s \in {x \in Settings : x.sane /\ x.start_on_launch},
          mode \in Modes \ {"light"}, hasKey \in BOOLEAN,
          machine \in SUBSET {"tpm2", "sev_snp"} :
         Ready(mode, s, disk, hasKey, machine) =>
           LET p == [s EXCEPT !.mode = mode]
               c == PlannedConfig(p)
           IN  CanPlan(p, disk, hasKey) /\ Builds(c, machine)
                 /\ Claims(c, "mutual")

(* Every start that was asked for is over some day, published, failed or   *)
(* abandoned, and the slot is free again: also when an old node is held    *)
(* for ever and keeps the audit log (STOP_TIMEOUT, build_node's deadline). *)
StartsSettle == ~AtRest ~> AtRest
=============================================================================
