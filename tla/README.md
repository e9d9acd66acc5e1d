# Cordon: a verification project

Cordon (`src/`) puts a hardened node around a local language-model runtime: clients
reach it over mutual TLS, every request is admitted against the node's state, logged
in a hash-chained audit log before it is processed, answered by a supervised
`llama-server` from a sealed model bundle, filtered, settled against a token budget and
signed. This directory holds TLA+ models of the parts of it that carry state across
threads, tasks and crashes, the TLC runs that check them on small instances, and TLAPS
proofs of the most important results for every instance.

Paths below are relative to `src/`. `core/`, `api/`, `audit/` and `crypto/` abbreviate
`crates/cordon-core/src/` and so on. `PROJECT.json` maps every definition to the lines
it models.

## 1. Inventory

### Modelled

| Component | State | Operations | Touches |
|---|---|---|---|
| Audit log (`audit/log.rs`, `verify.rs`) | segment files, writer lock, in-memory sequence and chain tail, `BufWriter` | open, resume, append, rotate, close, verify, anchor | every other component appends to it |
| Model store (`core/model_store.rs`) | registry of bundles: status, manifest, cached verdict with its time; per-bundle check locks | register, `run_integrity_check`, `record_verdict`, `ensure_servable` | monitor, recovery, provisioning write; admission reads |
| Node state and lifecycle (`core/state.rs`, `core/node.rs`) | status, enclave state, `stopping` token | go operational, degrade, quarantine, zeroize, shutdown | written by monitor, supervisor, operators |
| Integrity monitor (`core/integrity_monitor.rs`) | tamper flag, ticker | check cycle, halt, reset | model store, node state |
| Runtime supervisor (`core/runtime/supervisor.rs`) | the child process | spawn, await healthy, restart, terminate | node state, shutdown |
| Admin handlers (`api/handlers.rs`) | none of their own | recover, provision, quarantine, teardown, suspend, anchor | all of the above |
| Request pipeline (`core/node.rs`, `api/handlers.rs`) | the request on its way | admit, process, stream, settle | limiter, engine, log |
| Inference engine and sessions (`core/inference.rs`) | semaphore, session table | admit, open/end session, expire | pipeline |
| Rate limiter (`core/rate_limiter.rs`) | one bucket per client | check, settle, prune, forget | pipeline, `admin_suspend_client` |
| Client identity, attack detector, covert-channel analyser (`core/identity.rs`, `attack_detector.rs`, `covert_channel.rs`) | registry with suspensions; window counters in bounded tables, blocks, suspensions | the gates of `admit`, record a failure, a probe or a covert response, suspend, sweep, clean up | `admit` in `node.rs`, `middleware.rs`, admin handlers |
| Attestation service and verifier (`core/attestation_service.rs`, `tpm.rs`, `confidential_vm.rs`, `crypto/attestation.rs`, `tpm2.rs`, `sev_snp.rs`, `nitro.rs`, `x509_chain.rs`) | measurements of start-up, configfs entries, verification records | build a report, verify it, record, gate | handlers, `admit`, `cordon attest` |
| Output filter, streaming filter, reader of the runtime's stream (`core/output_filter.rs`, `runtime/openai.rs`) | carried bytes and text, accumulated answer, release point | push, finish, filter | the stream's task in `handlers.rs` |
| Hub downloader (`core/hub.rs`, `cli/pull.rs`, desktop `models.rs`) | partial file, model file, sidecar record | resolve, probe, reuse, resume, stream, compare, rename, record, remove | the disk |
| Bundle sealing and copies (`core/bundle.rs`, `cli/provision.rs`, desktop `bundles.rs`) | bundle directories, the one job and its cancel flag | seal, verify, import, export, remove | model store scans the directories |
| Configuration, keys and runtime of a node, timing (`core/config.rs`, `node.rs`, `runtime/mod.rs`, `timing.rs`, `cli/main.rs`, `api/server.rs`) | none: functions of a configuration | default, template, validate, provision keys, build backend, choose transport, which timing is asked for | everything that starts a node |
| Bundle staging (`model_store.rs`, `node.rs`) | the staged plaintext and who holds it | stage on a thread, erase, drop | boot, shutdown, the engine |
| Desktop engine, commands, clients (`desktop/src-tauri/src`: `engine.rs`, `main.rs`, `settings.rs`, `keys.rs`, `remote.rs`, `posture.rs`; `api/pki.rs`) | slot of the running node, phase, settings, key, client records and registry | start, stop, restart, exit, save, select, remove, issue, revoke, capture | configuration, staging, the node |

### Not modelled

| Component | Why |
|---|---|
| Metrics (`metrics.rs`) | monotonic counters that nothing in the control path reads |
| Audit events and export (`events.rs`, `export.rs`) | record layouts and a file copy; an event is a value in `AuditLog` |
| Primitives of `cordon-crypto` (`hierarchy.rs`, `signing.rs`, `symmetric.rs`, `kdf.rs`, `zeroize_ext.rs`) | arithmetic without control state; taken as ideal (section 6) |
| Connection handling, routing, request decoding, the static console (`api/`) | transport; its stop, deadlines, dropped handlers, listeners and the caller's identity are in the models |
| `doctor`, `keygen`, argument parsing (`cli/`) | they print, or write one file |
| Windows, dialogs, log view, hardware probe (`desktop`: `cli.rs`, `hardware.rs`, `logs.rs`) | calls of the operating system without state that another part reads |

### What is hard

* *Interleaving.* Three callers hash the same bundle for minutes while registration goes
  past the check lock; five writers set the node's status; shutdown and the supervision
  loop both own the child; requests of several clients share slots, sessions, buckets and
  the detector's tables; starts and stops of the desktop engine queue for one slot while
  the threads of abandoned starts still decrypt; an issue and a revocation rewrite the same
  client records without a lock, and two imports check one target before either makes it.
* *Crash recovery.* The audit log, the bundle directories, the downloaded files and the
  settings survive the process: a kill or a power loss can fall between any two of
  `write_all`, `flush`, `sync_data` and the update of the in-memory tail, between a rename
  and the record that describes it, between two shards of an import.
* *Partial failure.* A request can leave at any `?` and any `await`; a handler is dropped
  when its client hangs up; an append can fail after its line was written; a seal or a copy
  fails half-way and has to undo exactly what it did.
* *Stale state.* A cached verdict outlives the shards; a verification record outlives the
  measurements; the bundle the gate looks up need not be the one the runtime has loaded; a
  reservation outlives its bucket; a node keeps the client registry it was built with.
* *Unreliable delivery.* Reports are replayed and joined on their way to a verifier; a server
  ignores a range; a stream of bytes is cut anywhere.
* *Limits.* The session table, the slots and the detector's tables at their ceiling; windows
  and deadlines on their boundary.
* *Liveness.* Bad weights must leave service, the runtime must come back, shutdown must end,
  slots must be returned, a retrying client must get in again, jobs and starts must end.

`PROJECT.json` lists these at their lines under `hazards`, with the properties that cover
them.

## 2. Modules

| Module | Role |
|---|---|
| `AuditLog` | the log, its writers, failures and the anchor |
| `AppendOnlyLog` | what the log promises; `AuditLog` is shown to implement it |
| `ModelStore` | the registry, concurrent checks, the serving gate |
| `NodeLifecycle` | composition: node state, monitor, operators, supervisor, shutdown, over an `INSTANCE` of `ModelStore` |
| `RequestPipeline` | requests, limiter, sessions, slots, settlement |
| `Admission`, `CovertScore` | identity, attack detector and the gates of `admit`; the score of a text |
| `Attestation`, `Evidence` | two machines, their reports, the transport, clients and the gate; the verifier's checks |
| `Streaming`, `ContentPolicy` | a streamed response from bytes to events; the whole-response filter, its reference definition |
| `Downloads` | pulls of one model reference |
| `BundleFiles` | bundle directories under jobs, removals and kills |
| `Desktop`, `Deployment` | the desktop app over its engine; configurations, what validates them and what they start |
| `MC*` | the modules TLC runs |
| `*Proofs` | theorems and their proofs; those of `ModelStore` are with `NodeLifecycle`, which instantiates it |

Definitions marked "Mutation" in the modules are faulty variants of the definition that
follows them, or of a nearby one. They are not part of the specification. Each
property has one it must reject (`PROJECT.json`, `mutants`), so that every property is known
to depend on the behaviour it is about.

### AuditLog

`lines` is the content of all segment files in the order it reached them, `durable` how much
of it would survive a power loss, `proc[n]` the `AuditLog` value of process `n` with its
position inside `append`. `Acquire`, `Resume`, `Create` and `OpenFails` are
`AuditLog::open`; `BeginAppend`, `Flush`, `SyncData`, `Commit` and `Rotate` the steps of
`append`, each a point where the process can be killed; `FlushFails`, `SyncFails` and
`RotateFails` its error returns; `Close`, `Crash` and `PowerLoss` the ends of a process.
`Resume` chooses the segment the way `find_existing_log_file` does, by the greatest last
sequence and not by name. A line is `whole` if all of its text is in the file and `ended` if
its newline is too. `PowerLoss` may cut the last surviving line inside its text, which makes the
next `open` fail, or take only its newline, which `read_last_entry` does not notice: `Resume`
goes on behind it and the next entry is glued to it (`Glued`). `Parses` is what a reader that
splits at newlines makes of a line. `AnchorSequence` to `AnchorSign` are the handler `audit_anchor`,
which takes the mutex once for each of the two values it reads.

The chain hash is modelled by the history it commits to: `Append(prev, event)` is injective
where SHA-256 is assumed to be. An event stands for a payload with its timestamp.

### ModelStore

A manifest stands for its digests; `shards[b]` is the manifest the files on disk match, or
`"altered"` or `"unreadable"`. A check is three steps, `BeginCheck` (lock, clone the
manifest), `HashShards` (the outcome is decided), `RecordVerdict` (written to whatever entry
the registry holds by then); `Register` does not take the check lock. Ages count ticks up to
`Ttl`, past which the code makes no difference between them. `lastHashed` and `withdrawn`
are history variables. `stage_plaintext` runs only inside `build`, so its effect is part of
`Init`; nothing calls `remove_bundle`.

### NodeLifecycle

`status` and `enclave` are `NodeState`. The monitor's cycle, `admin_recover` and
`provision_model` are each a program counter over the steps of `ModelStore`, with an action
for every point between two writes: the flag and the quarantine of the monitor, the reset and
the resume of recovery. The supervision loop is `SupTick` to `SupFail`, with the `select!` that
drops `restart` at one of its awaits as `SupStop`. `shutdown` is four steps per caller, since
the `is_cancelled` test and the cancel are two. `halt_on_tamper` is a setting chosen in `Init`
among the values of the constant `HaltOnTamper`. `Actors` selects who takes part in a run.

`Admits(label)` is what the status and the store contribute to `admit`: a request for
`"default"` is gated on the bundle the runtime serves, another label on itself; only a
supervised runtime without a bundle skips the gate (`Supervised`).

### RequestPipeline

`req[r]` is where a request is and what it holds: a reservation (`held`), a slot (the positions
`HasSlot`), a session (the positions `Leased`). Unary and streamed requests share admission and
part after `Ask`. `End` is every way out: it drops the lease, which ends a session the request did
not name (`InferenceLease::drop`), and forgets an unsettled reservation. `Answer` and
`FinishStream` settle. `DropBucket` is `admin_suspend_client` as well as the hourly pruning, with
requests in flight. `meter` is a history variable, kept for one client (`Watched`, any of them)
without looking at its bucket: what its rate still allows it to use. It gains `Tpm` with every
minute and every bucket opened, up to `MeterDepth`, and loses what a request reports at its
settlement or, unsettled, the whole reservation. A refused request opens a bucket too, as `check`
does.

### Admission and CovertScore

A connection has a peer (client name, certificate, whether the certificate was verified) and
goes through the gates of `admit` one lock at a time (`IsIpBlocked`, `Verify`,
`RecordAuthFailure`, `IsClientSuspended`, `CheckModel`, then `Answer` with the analyser), so
requests of one source interleave between them. A window counter is the ages of its events; the tables
`auth` and `probes` hold at most `MaxKeys` keys and are swept at most once per
`SweepInterval`, as in `prune_lapsed`. `failures` is history: every failure inside the window, by whom,
whether the table tracked it, and how old. `promised` and `barred` are history too: the time a
suspension was to last, and the lists a request arrived under. `CovertScore` has the
analyser's weights and thresholds in thousandths.

### Attestation and Evidence

`Evidence` has one operator per check of `AttestationReport::verify` and of the TPM, SEV-SNP and
Nitro verifiers, over structures: a signature is the key and the value it covers, so a field that
no check binds can be exchanged freely. `Attestation` has two machines with the same software, one
of them under the node whose gate is modelled. `signed` is what their platforms signed; the
transport keeps reports, delivers old ones, joins parts of two, and signs TPM quotes anew with an
attestation key of its own (`SignedAnew`), which the verifier takes from the report and ties to no
hardware. The class of a machine (genuine, without a chain to the vendor, with an old TCB,
debuggable) and what the operator pinned are chosen at the start. configfs entries are shared and
named, as `confidential_vm.rs` uses them, so concurrent requests meet.

### Streaming and ContentPolicy

`ContentPolicy!Filter` is `OutputFilter::filter`, every rule kind and action. `Streaming`
carries bytes (`reader`), text (`filter`) and what was sent; a read may end anywhere, also inside
a character or inside the separator of a record, which is two line feeds or two pairs of carriage
return and line feed; a record that is not JSON is skipped. `push` scans when the stride has
accumulated and releases up to the holdback; `finish` scans once more.

### Downloads

`final`, `partial` and `record` are the three files of one model reference; `pull[p]` is
a pull with its own handle and offset. The branch moves (`head`), the server may withhold the
digest, ignore a range or end early, and the process dies anywhere. Digests are the content.
Resolution (`First`) takes the first file, in the order of names, of the wanted or preferred
quantisation, falls back to a name that contains it, and refuses one in several parts.

### BundleFiles

`dir[p]` is a directory: its manifest and, per shard, the sealing it is of. A job is a
program counter over file operations with the cancel flag tested where the code tests it.
`call[c]` is an import or export command between its check of the target and `Jobs::begin`, and
the directory is made later still, on the job's thread: between the three another job may run
and end. The undo of a failed job is a step of its own that may fail half-way. `late` is
history: targets of a copy that began although its check was outdated. Removal runs beside the
job.

### Deployment and Desktop

`Deployment` has no state. A configuration is a record of the settings that decide anything;
`Validate` has one operator per section of `CordonConfig::validate`, and `ProvisionKeys`,
`BuildBackend`, `Measures` (`AttestationService::new`), `TlsMode` and `Acceptor` are what is
refused later than validation. `Template` and `Completed` are what `cordon default-config` prints
and its comments ask to fill in, which does not include a Client Master Key; `TemplateStarts` says
what becomes of them. `PlannedConfig` and `Harden` are the desktop's. `Claims` is what the documents
say a mode delivers, latency normalisation included.

`Desktop` composes it with the engine: `slot` is the engine's mutex with what its holder is doing,
`starts` the spawned starts that wait for it with the settings they carry, `calls` the stop and the
exit, `threads` the blocking threads of `stage_plaintext`, `file` the one staged path, `lingering`
the nodes that were stopped and not yet released. `certs` is `remote-clients.json`; `issues` and
`main` are the copies that `remote_issue`, on the async pool, and `remote_revoke` or
`remote_clear_revoked`, on the main thread, have loaded and not yet saved. Removing the staged file
may fail, which the code only logs (`file.kept`). `shut` is history: certificates revoked while
the settings exposed the node, unless an issue was between its load and its save when the
revocation was saved. The configurations do not change with the state, so `PreparedStarts` is
evaluated before the first launch only, over all settings, machines and models on disk.

## 3. Runs

| Run | Question | Bounds |
|---|---|---|
| `audit_honest` | Two processes on one directory, killed anywhere, with power loss, rotation and anchors: does an untouched log verify at every instant, do anchors hold, does it implement `AppendOnlyLog`? | 2 nodes, 5 lines, segments of 2, 4 segments |
| `audit_faults` | With failing writes and lines torn anywhere, does every acknowledged entry stay in the files on one history, and which can readers miss? | 4 lines, 3 segments |
| `store_checks` | The registry alone, with checkers that may stop: do bad shards end up refused, by a failed check or because the verdict runs out? | 1 bundle, 2 manifests, 2 checkers, `Ttl` 2 |
| `lifecycle_tamper` | Monitor, recovery, provisioning and quarantine over a bundle whose shards change: does a slow check ever overwrite a newer verdict, are failed weights ever served, do bad weights leave service? | 1 bundle, 2 manifests, `Ttl` 1, `halt_on_tamper` on and off |
| `lifecycle_runtime` | Crashes, failed launches, timeouts, quarantine, recovery, teardown, exit: who lifts a quarantine, does the runtime come back, does shutdown end? | 2 runtime faults, 1 teardown and the exiting server |
| `pipeline_life` | Two requests of two clients with every way out: sessions, usage, slots | 1 slot, 2 sessions, 1 per client, reservations of 2 tokens, rates of 1 a minute, burst 2, 1 metered client |
| `attestation_reports` | Reports of two machines over a transport that replays them, joins them and signs quotes anew: what does a verdict prove, does an honest report verify, do the gate's records run out? | 4 sources, 4 classes of machine, 2 nonces, 2 reports in flight, interval 2 |
| `downloads_pulls` | A moving branch pulled again and again with interruptions at every step | 3 revisions, 2 chunks a file, 3 interruptions, 1 process |
| `bundles_jobs` | Jobs, cancels, removals, I/O errors and kills over the bundle directories | 1 bundle id (in the store and outside), 2 commands between check and begin, 2 shards, 2 sealings, 1 fault |
| `admission_gates` | Two clients, an administrator and a connection without a certificate at the gates, a detector table of one key | thresholds 2, windows 1 and 2, blocks of 2, suspensions of 1 and 2 ticks |
| `streaming_filter` | Five policies and all short texts, cut into reads anywhere | 6 one-byte characters, or 3 with a two-byte one; holdback 2, stride from 2, reads of 2 bytes; both separators, a malformed record |
| `desktop_app` | Commands, quits, kills and launches over the engine, with an issue beside a revocation; all settings, machines and templates | 2 commands beside the start at launch, 2 launches, 2 staging threads, 3 settings, 4 certificates |

Why the bounds are enough. Segments of two entries and four segments let a process rotate, die on
an empty segment, be resumed by the other node and rotate again; a fifth line follows the second
rotation. Two manifests are the fewest that tell "matches another manifest" from "altered".
Bundles only meet in a checker, which holds one at a time, so that one shows every interleaving of
checks. One slot and one session per client make every ceiling bind with two requests; a
reservation as large as the burst, of two minutes' tokens, lets a refund meet the ceiling after a
refill and after its bucket was dropped. Two reports in flight are what a join of parts needs, and
two nonces what a replay needs. Three revisions give a file that changes, one that disappears and
one that cannot be pulled; three interruptions allow a partial file, its resumption and a second
cut. Two commands that passed their check make every check outdated, and one fault is a failed
write or a failed undo. A detector table of one key makes every second source meet the full table.
The words of the policies are as long as the holdback and the texts three times as long, so a
match can fall before, across and after every release point. Two commands of the app reach every
pair of commands at every point of a start, and two threads are an abandoned one and the one of
the next start; the fourth certificate is of another client, so that its issue can overlap a
revocation. The theorems remove the bounds for the results they state.

`CHECK_DEADLOCK FALSE` is set where the system may stop for good: after shutdown
(`lifecycle_runtime`) and when the app has ended (`desktop_app`). The symmetry of the nodes is
used in the audit runs, which check safety properties only.

### Properties

* `ChainVerifies`: `verify_log_chain` accepts the log at every instant, although only the
  chain's own discipline (lock, resume, order of flush and commit) makes it so.
* `AckedSurvives`, `AckedExtends`: what an append returned Ok for is in the files from then on, the
  last one with its newline, and later acknowledgements extend it, under failing writes too.
  Readers can parse it unless it was glued to a line that lost its newline, or is that line: the
  exception is the code's, see section 5.
* `AnchorHolds`: a signed anchor's hash is the hash of an entry that stays in the log, at or
  after the sequence it carries.
* `ImplementsContract`: refinement of `AppendOnlyLog`.
* `BadShardsWithdrawn`: the registry under concurrent checks and registrations.
* `VerdictIsLatest`, `FailedWeightsNotServed`, `OnlyOperatorResumes`, `BadWeightsLeaveService`
  (whatever `halt_on_tamper` says, and whether operators act without end or never),
  `RuntimeComesBack`, `ShutdownEnds`: the node.
* `NoLeakedSession`, `UsageWithinRate`, `NobodyLockedOut`, `SlotsComeBack`: the pipeline.
  `UsageWithinRate` compares what requests use with what time allows, so that tokens minted
  anywhere in refill, refund, ceiling or a dropped bucket show.
* `AcceptedIsQuoted`: whatever the transport did, a client that concludes "hardware rooted" was
  answered by the holder of an attestation key that signed for this challenge, this signing key and
  the pinned measurements. The holder is a genuine platform only where the verifier calls
  the key trusted, which it never does for a TPM.
  `HonestReportVerifies` is its converse for reports nobody touched, with concurrent requests
  at the platform's interface. `GateIsRecent`: nobody is admitted on a record older than the
  interval, also across changes of the measurements and restarts.
* `VerifiedIsPublished`, `RecordDescribesFile`, `RetryRecovers`: a verified pull has the published
  file whatever prefix was there before; the record describes the file; a pull that is tried
  again and again succeeds, with the exception section 5 names.
* `AdmittedIsComplete`, `JobsEnd`: nothing half-written, half-cancelled or half-cleaned-up is taken
  for a bundle, except under a removal or a copy that began on an outdated check; jobs end.
* `FloodIsBlocked`, `BlockedForCause`: the detector misses no tracked flood and blocks nobody for
  the failures of others. `SuspensionHolds`: two
  lists, two gates and overlapping orders never cut a suspension short. `RetrierGetsIn`: a
  client's own retries do not keep it out for ever.
* `ReleasedIsPrefix`, `ReleasedIsAllowed`, `DeliveredIsWhole`: the streaming filter against the
  whole-response filter, its reference. `ReleasedIsPrefix` compares with what the redacting and
  truncating rules leave (`Lenient`), also in a response that is blocked later: what was released by
  then stays released (section 5).
* `RevokedIsShut`: a revocation reaches the node that serves, unless it raced an issue.
  `PlaintextAccounted`: decrypted weights are on disk only while somebody answers for them or
  after a removal that was tried and failed. `StartsSettle`: every start ends. `PreparedStarts`
  relates the four places that write a mode's requirements down: what is reported ready, or a
  template completed as it says and given a key, is accepted by everything that checks it and
  keeps its mode's claims.

Each module also has a type invariant `TypeOK`. Those of `AuditLog`, `ModelStore`,
`NodeLifecycle`, `RequestPipeline`, `BundleFiles`, `Admission`, `Downloads` and `Desktop` are
theorems (section 4); those of `Attestation` and `Streaming` hold on the instances above (add
`TypeOK` to the `.cfg`).

### Fairness

* `ModelStore`: the clock never stops. Nobody is obliged to check anything, so
  `BadShardsWithdrawn` rests on the verdict's lifetime alone.
* `NodeLifecycle`: tokio runs a task that can run, and blocking threads end (`WF` of the loops,
  handlers and shutdown callers); the runtime loads a model that exists (`WF(ChildLoads)`).
  `SF(MonitorStop)` and `SF(SupStop)`: `select!` polls its branches in random order, so a tick may
  win against a cancelled token; but the ticker is not ready again right after it was taken, and
  the next poll finds the token. `admin_recover` and `provision_model` run on once they are called
  (`RecoverGoesOn`, `ProvisionGoesOn`); nobody has to call them. No fairness for operators,
  clients, the disk or faults, and faults are finite in number (`MaxFaults`): a runtime that
  crashes for ever is restarted for ever.
* `RequestPipeline`: the node's tasks run and every wait on the runtime has a deadline
  (`WF(NodeStep)`); a client reads or hangs up (`WF(ClientStep)`). Without the latter
  `SlotsComeBack` fails: see section 5.
* `Downloads`: the steps of a pull (`WF(Step)`), each a request with a timeout or a file
  operation. Nobody has to start one: `RetryRecovers` supposes a pull that is started for ever.
* `BundleFiles`: a job's thread and a removal run on.
* `Admission`: time passes, and the connections `RetrierGetsIn` is about keep trying. Nothing is
  assumed of the others, so a stranger may flood for ever.
* `Desktop`: `WF(SlotStep)`, whose waits end by the code's own timeouts (start-up, `STOP_TIMEOUT`,
  10 s in `build_node`, 30 s at exit), and `WF(StageStep(t))` for the threads. None for
  `OldNodeReleased`: a connection may hold an old node for ever. None for persons.

## 4. Proofs

All proofs are for any values of the constants that satisfy the named assumptions of the module
(`ConstantsAssumption`, `StoreAssumption`, `LifecycleAssumption`, `PipelineAssumption`,
`DesktopAssumption`, `FilesAssumption`, `AdmissionAssumption`, `BoundsAssumption`,
`KindsAssumption`, `DownloadsAssumption`), which say no more than that constants have their types
and are finite where the code counts them, that special values are not members of the sets they
are special for and that a certificate is not the name of a client. TLC evaluates them in every
run.

**AuditLogProofs.** In two parts. `AcknowledgedIsKept`, `AcknowledgementsExtend` and `TypeCorrect`
hold for any `Faults`; `HonestLogVerifies`, `LogImplementsContract` and `SignedAnchorsHold` only
under `Faults = {}`: crashes, power loss, rotation, competing nodes and anchors are allowed in both,
failing writes and torn lines in the first only (with a failing write a log need not verify:
section 5). `ChainVerifies` and `AckedSurvives` say nothing of what a process is about to write,
so neither is inductive. For the log without faults the strengthening `ChainInv` says that line
*i* has sequence *i* and the hash of the events up to *i* (`LinesInv`); that only the holder of
the lock is past `open`, that its tail is the last line, or the one before it between `flush` and
`Commit`, and that its buffer is empty but inside `append` (`ProcInv`); and that what is
acknowledged is durable (`AckInv`). Because sequences are positions, the segment with the greatest
last sequence holds the last line, so that `Resume` continues the chain whatever the names of the
segments. `SignedAnchorsHold` is about a handler that reads sequence and hash
apart, with appends between them. `AnchorInv` follows it: what it has read is the history of a
prefix of the lines, the hash is never of an older prefix than the sequence, and once the append
of the access record is synced that prefix is on the device, so that a power loss cannot take it
back after the signature.

With faults, sequences repeat and positions mean nothing: a failed `flush` leaves entries in the
buffer that the next append writes in front of its own, with the same sequence and the same
predecessor. `FaultInv` keeps what is left. Of the files (`DirOk`): segments and sequences never
go back, a later segment starts past every sequence before it, only the last line can have lost
part of its text, and the histories that a line commits to are all in the lines up to it. Of an
open process (`OpenOk`, `Entries`, `StageOk`): its tail is in the files, everything in its buffer
comes right after that tail, and no line is more than one entry ahead of it; after `flush` the
last line is the entry being appended. Of what was acknowledged (`AckedOk`): it is a whole line
with its newline on the device, so that a power loss cannot shorten it, and every line after it
continues its history. A line without its newline is whole, so that a resume behind it keeps all
of this but what readers can parse, which is exactly the exception the property makes. The order
of sequences makes `find_existing_log_file` find the last line even among repeated ones
(`NewestIsLast`), so that a restart resumes behind what was acknowledged, and not from a retried
entry that branched off before it. `LinesGrow` carries all of it over a write of any number of
buffered entries, which serves `Flush`, the partial write of `FlushFails` and the flush on drop of
`Close`.

**NodeLifecycleProofs.** First the registry, for the node's three callers of a check:
`StoreTypeCorrect`, `WithdrawnRefused`. The strengthening `StoreInv` is the check
lock's meaning, at most one check in flight per bundle, with the result of a check that has hashed
being the last hashing of its bundle; and that a withdrawn bundle is marked `Tampered`. The lemmas
`StoreStarts` and `StoreSteps` (a step of the node is a step of `ModelStore` or leaves its variables
alone) carry it over to the node, with the node's handlers as callers: `LatestVerdict` and
`FailedWeightsRefused` follow from it.
`OperatorResumes` goes action by action; `LifecycleTypeCorrect` is the type invariant they use.

**RequestPipelineProofs.** `PipelineTypeCorrect` includes that no bucket leaves `0 .. 2 * rate`,
which is arithmetic on refills and refunds. `SessionsAreReclaimed` needs `LeaseMatches`: a lease
is on the session its request named, or else on an ephemeral one. Without it the end of a request,
which tears down the session of its lease only if it named none, might leave an ephemeral session
in the table. `UsageStaysWithinRate` says that the meter, which knows nothing of buckets, never
runs out. It needs that the meter covers the bucket and all reservations of the client together
(`MeterInv`), and that reservations not yet settled are whole. A gain that `MeterDepth` cuts off
is harmless because the depth is the burst and a reservation of every request; a bucket opened
again after it was dropped, with reservations of the old one outstanding, is the case that makes a
gain for every new bucket necessary. Every reservation is `MaxTokens`, so the reservations are
counted by cardinality, and each action moves at most one request in or out of `Holding`
(`HeldChanges`). `CeilingsHold` (slots, table, a client's share of it) holds because each is
tested and taken in one step. `NobodyIsLockedOut` follows from it: numbering the sessions of each
of the other clients injects the live sessions into (others) x (1 .. share), which has fewer
elements than the table.

**DesktopProofs.** `RevokedStaysShut` needs three things the property does not say (`ShutInv`). A
certificate that was shut out, or that a revocation being saved alone shuts out (`Closed`), is live
neither in the file (`CertsInv`) nor in any copy that an issue (`IssuesInv`) or the main thread
(`MainInv`) may still save; `alone` is what the second rests on, and where the code's race breaks it.
`phase`, which `restart_if_running` looks at without the slot, tells of every start in its boot
and of every node that is not already stopping (`PhaseInv`). And a registry older than a
revocation is behind a start still to come or in front of a node being stopped (`StaleInv`).
`PlaintextIsAccounted` needs that a start with a thread decrypts a bundle, so that whoever erases
"because it is sealed" erases, or tries to, what was staged (`StageInv`). `PreparedAlwaysStarts`
reduces the two ways a hardened configuration is made, the completed template with a key and the plan
of settings reported ready, to what both give the checks to look at (`Prepared`), and shows once that
this passes them and keeps the claims (`PreparedServes`); that Vault, Island and Dark normalise
comes from the default a template prints and the desktop keeps (`AirGappedTiming`), since nothing
checks it. `DesktopTypeCorrect` contains that the engine has one node at a time (a boot has none
beside it, and only a slot with a node drains); besides that it needs that every boot past its plan,
and so every node and every old node, has an audit log (`EngineInv`), and that the settings a pending
call or start carries are valid ones (`DataInv`).

**BundleFilesProofs.** `BundlesAreComplete`, `FilesTypeCorrect`, from `FilesInductive`.
`AdmittedIsComplete` says nothing of a directory being filled. `FilesInv` adds that a directory
nobody is removing has the shards up to `job.done` of one sealing while a job writes to it
(`SealInv`, `CopyInv`), that no manifest is there before the last shard is, that an undo never
meets a whole one (`JobInv`), so that what it fails to remove is not admitted, and that no
directory that can be admitted mixes two sealings (`PureInv`), all of it outside `late`. The last
is what makes an import during a removal harmless: its source may lose shards under it but never
gains one of another sealing, because one job runs at a time.

**AdmissionProofs.** `SuspendedStayOut`, `PromisesAreKept`, `AdmissionTypeCorrect`. A suspension is
in one of two lists that different gates read, so the property needs to know, of a request between
the gates, which lists it has been measured against (`Barred`), and that a list holds a client for
exactly as long as promised (`ListsKeepPromises`): `suspend` and the detector take the later of two
deadlines, and both lists lapse with the same clock as the promise. The type invariant contains the
capacity of the detector's tables, which is where `record` must refuse a new key.
The detector's counts are proved against `failures`, which forgets nothing inside the window:
`FloodsAreBlocked` (a source with a threshold's worth of failures in the window is blocked)
and `BlocksHaveCause` (nobody is blocked with
fewer). A window slides by one tick for all ages at once, so the invariants `FloodInv`
and `SourcesExact` compare, for every age *a*, the events no older than *a* on both
sides; a tick is then a shift by one, and the window is one instance. A counter drops its oldest
event at `MAX_EVENTS_PER_COUNTER` (512, `attack_detector.rs:79`), so the first assumes that the
threshold fits in it, as the configured tens do, and the other is about behaviours that stay
within it: beyond it it is false (section 5). Nothing is claimed of the global counter, which a
full table of 16384 keys has long saturated.

**AttestationProofs.** `AcceptedAreQuoted`, `HonestReportsVerify`, `GateStaysRecent`, from
`AttestationInductive`. `GateInv` ties the age of every record to the time since the machine last
measured as pinned. `WireInv` says of every report in transit how it was made: the machine, key
and image, that its signed parts are in `signed`, and of a clean one that it is what a genuine
machine made for its nonce. What a transport joins from two of them is taken apart again at
delivery (`RearrangedParts`), and a quote signed anew rests on what was quoted or signed for the
same challenge (`MadeTpmParts`, `QuoteRests`). `RequestsInv` is needed for the second theorem:
concurrent requests have entries of different names, and the entry of a request holds what the
platform was given for that request. The verifier's checks enter through one lemma per kind of
evidence (`TpmMeans`, `SnpMeans`, `NitroMeans`), which states what acceptance implies, and
`HonestReport`, which states that sound evidence is accepted.

**DownloadsProofs.** `DownloadsTypeCorrect` is for any number of pulls. `VerifiedArePublished` and
`RecordsDescribeFiles` are for one process that pulls at a time (`Pulls = {p}`), any number of times
and with any interruptions: for two they are false (section 5, item 8). The invariant `LoneInv`
follows the content: what the pull has hashed is what the partial file holds, whoever wrote its
beginning, because it resumes at the file's end and hashes the prefix first; after the rename it is
what the model file was made of, unless that was removed; and `verified` means it is what the Hub
published. Between the rename and the end of the record the property says nothing, which is why an
interruption there has to be remembered in `left`.

Only model-checked: everything about liveness (fairness and `ENABLED` are out of the prover's
reach). `ContentPolicy` and `Streaming` compute over sequences of
any length, which needs induction over data and stays with TLC.

## 5. Where code and documents disagree

Every run is about what holds. What follows is what the models showed the code not to do,
although a comment, a document or a reader would expect it; the properties of section 3 are
stated around it.

Refuted by TLC on these models:

1. After a failed `flush` or `sync_data` the next append reuses the sequence of a line that is
   or will be in the file: an untouched log fails verification (`audit/log.rs:339`;
   `ChainVerifies` added to `AuditLog_faults.cfg`). `log.rs:117`: "A tamper-evident log that
   cries tamper over an operational slip is worse than useless".
2. A bundle that failed a check stays `Tampered` after the recovery procedure that the tamper
   record prescribes (`model_store.rs:635`); `handlers.rs:1114` replies "Node recovered and
   serving".
3. A node serving a sealed bundle cannot restart its runtime: the file it would load was erased
   (`node.rs:361`; `RuntimeComesBack` without its hypothesis, `Served` a bundle).
   `ARCHITECTURE.md:145` says "restarted automatically if it dies".
4. A request that names another bundle is gated on that bundle and answered from the loaded one
   (`node.rs:1258`); `node.rs:1249` says "The store gate vouches for the weights being served".
   `FailedWeightsNotServed` is about requests for the loaded bundle.
5. A request that fails after its reservation is charged in full; a stream that breaks off is
   charged nothing (`node.rs:1350`). `ARCHITECTURE.md:91`: "settles to the actual generated count
   afterwards".
6. A rule that fires only in the last scan of a stream, or that blocks it, is not in the
   stream's record: `finish` does not update `matches`, and a blocking push returns before it
   does (`output_filter.rs:526`). `handlers.rs:509`: "recorded on both the success and the
   failure path".
7. A `ReturnError` rule that fires after text was released blocks the rest only: the client has
   the beginning of an answer that the whole-response filter replaces (policies 2 and 5 of the run,
   for instance on "bbbbaa"). `output_filter.rs:410` and `427` and `handlers.rs:396` promise that
   streaming releases no more than the whole-response filter. For policies outside the run's the
   contract also fails with a topic filter that truncates, a pattern longer than the holdback and a
   first match that a later character lengthens (`output_filter.rs:404`).
8. Two pulls of one model share the partial file: one truncates what the other writes, and the
   digest is of what was received, not of what is on disk (`hub.rs:550`; `Pulls = {p1, p2}`).
   A pull interrupted with the partial file complete is answered 416 for ever, the
   exception in `RetryRecovers`; one interrupted between rename and record leaves a file
   without a record.
9. A power loss that takes only the newline of the last line goes unnoticed: `read_last_entry`
   accepts the line, `open` appends behind it (`log.rs:588`, `619`), and the next entry, fsynced
   and acknowledged, is glued to it. Neither can be parsed from then on (`verify.rs:173`), so an
   entry that was acknowledged is lost to every reader (`AckedSurvives` without its exception).
10. An import or export tests its target, begins its job and makes the directory at three
   moments (`bundles.rs:315`, `318`, `365`). One whose test passed before another ended copies over
   the other's admitted bundle, and its cancel removes that bundle (`AdmittedIsComplete` without
   `late`). The results of `remove_dir_all` are ignored (`bundle.rs:167`, `bundles.rs:322`, `341`),
   so that a failed job may leave its directory, which refuses every later import.
11. A TPM report brings its own attestation key, and nothing ties it to hardware (`tpm2.rs:477`;
   said so in `ARCHITECTURE.md:284` and `SECURITY.md:105`): a program that signs the pinned
   registers for the nonce is accepted, and `is_hardware_rooted` (`attestation.rs:547`) is true of
   the result. `AcceptedIsQuoted` therefore speaks of the key's holder, and of a platform only
   where `ak_is_trusted` is set.
12. `remote_issue` and `remote_revoke` each load, change and save the client records without a
   lock (`remote.rs:135`, `157`). An issue that loaded before a revocation and saves after it
   writes the certificate back live, and the restart it asks for pins it (`RevokedIsShut` with
   every revocation in `shut`). An issue that fails after its record was saved (`remote.rs:213`)
   leaves a live certificate nobody was given.
13. A hardened template completed as its comments say is refused: "Required before this node will
   start" (`cli/main.rs:1013`) lists measurements only, and `node.rs:549` wants a Client Master Key
   (`TemplateStarts` without one).
14. Vault, Island and Dark are documented as normalising latency (`README.md:564`;
   `documented_config.rs:254`: a template without it "would quietly deliver less than the mode
   claims"), and `README.md:450` says a configuration "that cannot deliver its mode's guarantees is
   refused rather than degraded"; but `validate` accepts them without it. `Claims` holds of what
   the templates and the app prepare, not of every configuration that is served.

Seen while modelling, in behaviours of these modules:

* A last line torn inside its text makes `open` fail until somebody edits the file (`log.rs:596`).
* `audit_anchor` reads sequence and hash under two acquisitions of the mutex, so that the hash
  can be of a later entry than the sequence (`handlers.rs:972`); `AnchorHolds` states what
  remains true.
* A bundle registered again during a check gets the verdict of the manifest it had before
  (`model_store.rs:629`).
* `admin_recover` makes a zeroized node healthy (`handlers.rs:1110`); it resumes over a verdict
  the monitor records after the checks of recovery, and the monitor may raise the flag
  right after the reset, so that a serving node's monitor skips its cycles
  (`integrity_monitor.rs:162`). The bundle gate still refuses the weights, which is why
  `FailedWeightsNotServed` and `BadWeightsLeaveService` hold.
* The supervision loop can spawn a child after `shutdown` has terminated the last one
  (`node.rs:740`). Two callers can both pass the `is_cancelled` test and leave two Shutdown
  records (`node.rs:798`); a teardown whose client hangs up leaves none (`node.rs:805`), which
  is the exception `ShutdownEnds` makes.
* A restart that fails after spawning leaves the node degraded although the runtime becomes
  healthy later (`node.rs:747`).
* A stream whose client hangs up returns without `finish_streaming_inference`: no completion
  record (`handlers.rs:467`). A client that stops reading keeps its slot for as long as the
  connection lives, once the output exceeds the buffers between them (`handlers.rs:465`).
* A reservation taken from a bucket that a suspension dropped is refunded to the client's next
  bucket (`rate_limiter.rs:205`); the burst ceiling still holds.
* An import that is killed leaves a directory without a manifest that is not listed, cannot be
  removed from the app and refuses every later import of the bundle (`bundles.rs:309`); a
  removal that is cut short may leave a manifest with shards missing, the exception in
  `AdmittedIsComplete`. Shards are not synced before the manifest.
* A saturated window counter over-counts until every retained event has lapsed, and then drops
  to zero although the overflow is newer (`attack_detector.rs:114`). The global counter is meant to
  see what a full table does not track, but it keeps 512 events and the table 16384 keys
  (`attack_detector.rs:75`, `83`): when the table is full it has long been saturated, and may have
  dropped to zero. The retries of a suspended
  client count as failures and block its certificate for an hour. Admin calls do not
  consult the detector. `record_session_event`, `record_enclave_exception` and `on_attack`
  have no callers. A text that is one base64 run scores at most about 0.49, below the
  default threshold of 0.7.
* `cordon attest` says it "runs the verifier locally" and does not; `extend_model_manifest` has
  no caller; `has_hardware_measurements` is true for `Tpm2` only.
* The reader of the runtime's stream drops an unterminated last record, and an end of the stream
  without `[DONE]` is reported, and signed, as complete.
* Signing and a synced audit append follow `normalize` (`node.rs:1416`), and refused or failed
  responses leave without it (`node.rs:1350`, `1386`, `1410`), so that latencies are not on the
  boundaries `timing.rs` computes.
* `StagedModel::erase` only logs a removal that fails (`model_store.rs:862`): plaintext may stay,
  the `file.kept` of `PlaintextAccounted`.
* Desktop. The audit log's path depends on the mode and the key, its signing key also on the
  principal: a changed principal continues the log with another key (`engine.rs:451`). The staging
  thread of an abandoned start goes on, and it and an old node released late act by path, so they
  can remove or replace the file of the next start (`engine.rs:266` calls dropping the boot
  "safe"). Stopping reaches only a start that is already in its `select!`, so the 30 seconds of
  the exit may pass and plaintext stay behind. Starts take the slot in any order: one with older
  settings may run last, and `save_settings` without a restart leaves node and settings apart.
  `remove_model`, `bundle_remove` and `hardware_capture` save settings they read before an await:
  a change made in between is lost (`main.rs:469`). A kill between the server's key and
  certificate may leave a pair that does not match (`pki.rs`).
* `readiness` calls Light ready without a model or without the key of a sealed one, and an empty
  AMD root file met, which `validate` refuses; `validate` accepts an off-host runtime in
  Sovereign Cloud, which only `build_external` refuses (`posture.rs`, `config.rs`).

## 6. What the models assume and leave out

Hashes are injective and signatures cannot be forged. A power loss keeps a prefix of what was
in the page cache and may cut one line anywhere, its newline alone included; it does not reorder
lines. The disk does not lose
what `sync_data` returned for. The advisory lock of the operating system excludes, and is
released with its process. Hostile rewriting of the log, which verification is for, is not
modelled. The gates of `admit` are spread over modules, each with the state it reads: identity and
detector in `Admission`, the verification record in `Attestation`, status and store in
`NodeLifecycle`, the limiter in `RequestPipeline`; a request one of them refuses changes nothing in
the others, so no module composes them all. The cost of a request is its output tokens.

The byte-level decoding of TPM structures, SEV-SNP reports, CBOR and X.509 is reduced to whether
it succeeds. Texts are over two or three letters and a regular expression is a list of words; the
analyser's floating point is integer arithmetic in thousandths. A configuration has the settings
that decide something; numbers that are only checked for their range are one flag. A certificate
file is never empty; two waiting starts with the same settings are one; the settings file and the
settings in memory are written in one step, and so is a save of the client records (temporary file
and rename; two saves at once would share the temporary name). The downloads run asks for no
particular quantisation; a named one is covered by the theorems. Only a node with a plain model
file has its supervisor in a run: that of a sealed one is item 3 of section 5.

Metrics, audit events other than those named, wording and formats are left out; section 1 lists
the parts that are not modelled at all.

## 7. Plan

Done: the node (log, store, lifecycle, pipeline), the desktop application with its
configurations, admission, attestation, downloads and bundles, with their proofs; streaming,
model-checked. Next:

1. `AuditVerify`: what `verify_log_chain` and an anchor detect of rewriting, truncation and
   reordering.
