------------------------- MODULE NodeLifecycleProofs -------------------------
(***************************************************************************)
(* Proofs about ModelStore and NodeLifecycle for any bundles, manifests,   *)
(* verdict lifetime, teardown requests, set of actors and number of        *)
(* runtime faults.  First the registry by itself: VerdictIsLatest is not   *)
(* inductive, it needs the check lock to exclude (Exclusive) and an        *)
(* unrecorded outcome to be the latest one (Outcome).  Then the node,      *)
(* which is shown to drive the registry by the registry's own steps.       *)
(***************************************************************************)
EXTENDS NodeLifecycle, TLAPS

-------------------------------------------------------------------------------
(* The registry: ModelStore *)

\* A checker holds a bundle exactly while it is checking, and what it is about
\* to record is the outcome of the latest hashing.
Outcome ==
  \A c \in Checkers :
    /\ checks[c].pc = "idle" <=> checks[c].bundle = NoBundle
    /\ checks[c].pc = "hashed" =>
         /\ checks[c].result \in {"passed", "failed"}
         /\ lastHashed[checks[c].bundle] = checks[c].result

\* No two checkers hold the same bundle.
Exclusive ==
  \A c, d \in Checkers :
    c # d /\ checks[c].bundle # NoBundle => checks[c].bundle # checks[d].bundle

\* A bundle that failed since it was registered is marked Tampered.
Marked == \A b \in withdrawn : bundles[b].status = "Tampered"

StoreInv ==
  Store!TypeOK /\ Outcome /\ Exclusive /\ Marked /\ Store!VerdictIsLatest

\* The record a checker is left with between checks has the right type.
LEMMA IdleType ==
  /\ Store!Idle \in Store!Check
  /\ Store!Idle.pc = "idle" /\ Store!Idle.bundle = NoBundle
<1>. DEFINE m0 == CHOOSE m \in Manifests : TRUE
<1>1. m0 \in Manifests
  BY LifecycleAssumption
<1>. HIDE DEF m0
<1>2. Store!Idle = [pc |-> "idle", bundle |-> NoBundle, manifest |-> m0,
              result |-> "none"]
  BY DEF Store!Idle, m0
<1>. QED
  BY <1>1, <1>2 DEF Store!Check, Store!Outcomes

\* The initial registry, with the verdict stage_plaintext left, satisfies the
\* invariant.
LEMMA StoreInit == Store!Init => StoreInv
<1>. SUFFICES ASSUME Store!Init PROVE StoreInv
  OBVIOUS
<1>1. PICK manifest \in [Bundles -> Manifests] :
        /\ bundles \in [Bundles ->
                          UNION {{Store!Found(m), Store!Staged(m),
                                  Store!Absent(m)} :
                                            m \in Manifests}]
        /\ \A b \in Bundles : bundles[b].manifest = manifest[b]
        /\ shards = manifest
        /\ checks = [c \in Checkers |-> Store!Idle]
        /\ lastHashed = [b \in Bundles |-> bundles[b].verdict]
        /\ withdrawn = {}
  BY DEF Store!Init
<1>2. \A m \in Manifests : /\ Store!Found(m) \in Store!Entry
                           /\ Store!Staged(m) \in Store!Entry
                           /\ Store!Absent(m) \in Store!Entry
  BY LifecycleAssumption
     DEF Store!Found, Store!Staged, Store!Absent, Store!Entry, Store!Outcomes
<1>3. bundles \in [Bundles -> Store!Entry]
  BY <1>1, <1>2
<1>4. Store!TypeOK
  <2>1. shards \in [Bundles -> Store!Content]
    BY <1>1 DEF Store!Content
  <2>2. checks \in [Checkers -> Store!Check]
    BY <1>1, IdleType
  <2>3. lastHashed \in [Bundles -> Store!Outcomes]
    BY <1>1, <1>3 DEF Store!Entry
  <2>. QED
    BY <1>1, <1>3, <2>1, <2>2, <2>3 DEF Store!TypeOK
<1>5. Outcome /\ Exclusive
  BY <1>1, IdleType DEF Outcome, Exclusive
<1>6. Marked /\ Store!VerdictIsLatest
  BY <1>1 DEF Marked, Store!VerdictIsLatest
<1>. QED
  BY <1>4, <1>5, <1>6 DEF StoreInv

\* Every step of the registry, by any checker, keeps the invariant.
LEMMA StoreStep == StoreInv /\ [Store!Next]_(Store!vars) => StoreInv'
<1>. SUFFICES ASSUME StoreInv, [Store!Next]_(Store!vars) PROVE StoreInv'
  OBVIOUS
<1>. USE DEF StoreInv
<1>1. ASSUME NEW c \in Checkers, NEW b \in Bundles, Store!BeginCheck(c, b)
      PROVE  StoreInv'
  <2>. DEFINE q == [pc |-> "cloned", bundle |-> b,
                    manifest |-> bundles[b].manifest, result |-> "none"]
  <2>1. q \in Store!Check
    BY DEF Store!TypeOK, Store!Entry, Store!Check, Store!Outcomes
  <2>2. checks' = [checks EXCEPT ![c] = q]
    BY <1>1 DEF Store!BeginCheck
  <2>3. q.pc = "cloned" /\ q.bundle = b
    OBVIOUS
  <2>. HIDE DEF q
  <2>4. Store!TypeOK'
    BY <1>1, <2>1, <2>2 DEF Store!TypeOK, Store!BeginCheck
  <2>5. Outcome'
    BY <1>1, <2>2, <2>3, LifecycleAssumption
       DEF Store!TypeOK, Store!BeginCheck, Outcome
  <2>6. Exclusive'
    BY <1>1, <2>2, <2>3 DEF Store!TypeOK, Store!BeginCheck, Exclusive
  <2>7. Marked'
    BY <1>1 DEF Store!BeginCheck, Marked
  <2>8. Store!VerdictIsLatest'
    <3>1. \A e \in Bundles : Store!Unrecorded(e) => Store!Unrecorded(e)'
      BY <1>1, <2>2 DEF Store!TypeOK, Store!BeginCheck, Store!Unrecorded
    <3>. QED
      BY <1>1, <3>1 DEF Store!BeginCheck, Store!VerdictIsLatest
  <2>. QED
    BY <2>4, <2>5, <2>6, <2>7, <2>8
<1>2. ASSUME NEW c \in Checkers, Store!HashShards(c) PROVE StoreInv'
  <2>. DEFINE b == checks[c].bundle
              m == checks[c].manifest
              r == Store!CheckShards(m, shards[b])
  <2>1. checks[c].pc = "cloned" /\ b \in Bundles /\ m \in Manifests
    BY <1>2 DEF Store!HashShards, Outcome, Store!TypeOK, Store!Check
  <2>2. CASE r = "error"
    <3>. DEFINE q == [Store!Idle EXCEPT !.result = "error"]
    <3>1. q \in Store!Check /\ q.pc = "idle" /\ q.bundle = NoBundle
      BY IdleType DEF Store!Check, Store!Outcomes
    <3>2. checks' = [checks EXCEPT ![c] = q]
      BY <1>2, <2>2 DEF Store!HashShards
    <3>3. UNCHANGED <<bundles, shards, lastHashed, withdrawn>>
      BY <1>2, <2>2 DEF Store!HashShards
    <3>. HIDE DEF q
    <3>4. Store!TypeOK'
      BY <3>1, <3>2, <3>3 DEF Store!TypeOK
    <3>5. Outcome'
      BY <3>1, <3>2, <3>3 DEF Store!TypeOK, Outcome
    <3>6. Exclusive'
      BY <3>1, <3>2 DEF Store!TypeOK, Exclusive
    <3>7. Marked' /\ Store!VerdictIsLatest'
      <4>1. \A e \in Bundles : Store!Unrecorded(e) => Store!Unrecorded(e)'
        BY <2>1, <3>2 DEF Store!TypeOK, Store!Unrecorded
      <4>. QED
        BY <3>3, <4>1 DEF Marked, Store!VerdictIsLatest
    <3>. QED
      BY <3>4, <3>5, <3>6, <3>7
  <2>3. CASE r # "error"
    <3>1. r \in {"passed", "failed"}
      BY <2>3 DEF Store!CheckShards
    <3>2. checks' = [checks EXCEPT ![c] =
                       [checks[c] EXCEPT !.pc = "hashed", !.result = r]]
      BY <1>2, <2>3 DEF Store!HashShards, Store!TypeOK, Store!Check
    <3>3. lastHashed' = [lastHashed EXCEPT ![b] = r]
      BY <1>2, <2>3 DEF Store!HashShards
    <3>4. UNCHANGED <<bundles, shards, withdrawn>>
      BY <1>2 DEF Store!HashShards
    <3>. HIDE DEF r
    <3>5. Store!TypeOK'
      <4>1. checks' \in [Checkers -> Store!Check]
        BY <3>1, <3>2 DEF Store!TypeOK, Store!Check, Store!Outcomes
      <4>2. lastHashed' \in [Bundles -> Store!Outcomes]
        BY <2>1, <3>1, <3>3 DEF Store!TypeOK, Store!Outcomes
      <4>. QED
        BY <3>4, <4>1, <4>2 DEF Store!TypeOK
    <3>6. \A d \in Checkers : checks'[d].bundle = checks[d].bundle
      BY <3>2 DEF Store!TypeOK, Store!Check
    <3>7. \A d \in Checkers \ {c} : checks'[d] = checks[d]
                                      /\ checks[d].bundle # b
      BY <2>1, <3>2, LifecycleAssumption DEF Store!TypeOK, Exclusive
    <3>8. checks'[c].pc = "hashed" /\ checks'[c].result = r
      BY <3>2 DEF Store!TypeOK, Store!Check
    <3>9. Outcome'
      <4>. SUFFICES ASSUME NEW d \in Checkers
                    PROVE  /\ checks'[d].pc = "idle" <=>
                                checks'[d].bundle = NoBundle
                           /\ checks'[d].pc = "hashed" =>
                                /\ checks'[d].result \in {"passed", "failed"}
                                /\ lastHashed'[checks'[d].bundle] =
                                     checks'[d].result
        BY DEF Outcome
      <4>1. CASE d = c
        BY <2>1, <3>1, <3>3, <3>6, <3>8, <4>1, LifecycleAssumption
           DEF Store!TypeOK
      <4>2. CASE d # c
        <5>1. checks'[d] = checks[d] /\ checks[d].bundle # b
          BY <3>7, <4>2
        <5>2. checks[d].bundle \in Bundles =>
                lastHashed'[checks[d].bundle] = lastHashed[checks[d].bundle]
          BY <3>3, <5>1 DEF Store!TypeOK
        <5>3. checks[d].bundle \in Bundles \/ checks[d].bundle = NoBundle
          BY DEF Store!TypeOK, Store!Check
        <5>. QED
          BY <5>1, <5>2, <5>3 DEF Outcome
      <4>. QED
        BY <4>1, <4>2
    <3>10. Exclusive'
      BY <3>6 DEF Exclusive
    <3>11. Marked'
      BY <3>4 DEF Marked
    <3>12. Store!VerdictIsLatest'
      <4>1. \A e \in Bundles : e = b => Store!Unrecorded(e)'
        BY <2>1, <3>6, <3>8 DEF Store!Unrecorded
      <4>2. \A e \in Bundles \ {b} :
              /\ Store!Unrecorded(e) => Store!Unrecorded(e)'
              /\ lastHashed'[e] = lastHashed[e]
        BY <3>3, <3>7, <2>1 DEF Store!TypeOK, Store!Unrecorded
      <4>. QED
        BY <3>4, <4>1, <4>2 DEF Store!VerdictIsLatest
    <3>. QED
      BY <3>5, <3>9, <3>10, <3>11, <3>12
  <2>. QED
    BY <2>2, <2>3
<1>3. ASSUME NEW c \in Checkers, Store!RecordVerdict(c) PROVE StoreInv'
  <2>. DEFINE b == checks[c].bundle
              r == checks[c].result
              q == [Store!Idle EXCEPT !.result = r]
              w == Store!WithVerdict(bundles[b], r)
  <2>1. /\ checks[c].pc = "hashed" /\ b \in Bundles /\ b # NoBundle
        /\ r \in {"passed", "failed"} /\ lastHashed[b] = r
    BY <1>3, LifecycleAssumption
       DEF Store!RecordVerdict, Outcome, Store!TypeOK, Store!Check
  <2>2. q \in Store!Check /\ q.pc = "idle" /\ q.bundle = NoBundle
    BY <2>1, IdleType DEF Store!Check, Store!Outcomes
  <2>3. /\ w \in Store!Entry /\ w.verdict = r
        /\ r = "failed" => w.status = "Tampered"
        /\ bundles[b].status = "Tampered" => w.status = "Tampered"
    <3>1. bundles[b] \in Store!Entry /\ 0 \in 0 .. Ttl
      BY <2>1, LifecycleAssumption DEF Store!TypeOK
    <3>2. CASE r = "failed"
      BY <3>1, <3>2 DEF Store!WithVerdict, Store!Entry, Store!Outcomes
    <3>3. CASE r = "passed"
      BY <3>1, <3>3 DEF Store!WithVerdict, Store!Entry, Store!Outcomes
    <3>. QED
      BY <2>1, <3>2, <3>3
  <2>4. /\ bundles' = [bundles EXCEPT ![b] = w]
        /\ checks' = [checks EXCEPT ![c] = q]
        /\ withdrawn' \in {withdrawn, withdrawn \cup {b}}
        /\ r = "passed" => withdrawn' = withdrawn
        /\ UNCHANGED <<shards, lastHashed>>
    BY <1>3, <2>1 DEF Store!RecordVerdict
  <2>. HIDE DEF q, w
  <2>5. Store!TypeOK'
    BY <2>1, <2>2, <2>3, <2>4 DEF Store!TypeOK
  <2>6. Outcome'
    BY <2>2, <2>4 DEF Store!TypeOK, Outcome
  <2>7. Exclusive'
    BY <2>2, <2>4 DEF Store!TypeOK, Exclusive
  <2>8. Marked'
    BY <2>1, <2>3, <2>4 DEF Store!TypeOK, Marked
  <2>9. Store!VerdictIsLatest'
    <3>1. \A e \in Bundles \ {b} : Store!Unrecorded(e) => Store!Unrecorded(e)'
      BY <2>4 DEF Store!TypeOK, Store!Unrecorded
    <3>. QED
      BY <2>1, <2>3, <2>4, <3>1 DEF Store!TypeOK, Store!VerdictIsLatest
  <2>. QED
    BY <2>5, <2>6, <2>7, <2>8, <2>9
<1>4. ASSUME NEW b \in Bundles, NEW m \in Manifests, Store!Register(b, m)
      PROVE  StoreInv'
  <2>1. /\ Store!Found(m) \in Store!Entry /\ Store!Found(m).verdict = "none"
    BY LifecycleAssumption DEF Store!Found, Store!Entry, Store!Outcomes
  <2>2. Store!TypeOK'
    BY <1>4, <2>1 DEF Store!Register, Store!TypeOK
  <2>3. Outcome' /\ Exclusive'
    BY <1>4 DEF Store!Register, Outcome, Exclusive
  <2>4. Marked'
    BY <1>4 DEF Store!Register, Marked, Store!TypeOK
  <2>5. Store!VerdictIsLatest'
    BY <1>4, <2>1
       DEF Store!Register, Store!VerdictIsLatest, Store!Unrecorded, Store!TypeOK
  <2>. QED
    BY <2>2, <2>3, <2>4, <2>5
<1>5. CASE Store!Tick
  <2>1. \A b \in Bundles : /\ bundles'[b] \in Store!Entry
                           /\ bundles'[b].verdict = bundles[b].verdict
                           /\ bundles'[b].status = bundles[b].status
    <3>. SUFFICES ASSUME NEW b \in Bundles
                  PROVE  /\ bundles'[b] \in Store!Entry
                         /\ bundles'[b].verdict = bundles[b].verdict
                         /\ bundles'[b].status = bundles[b].status
      OBVIOUS
    <3>1. bundles[b] \in Store!Entry
      BY DEF Store!TypeOK
    <3>2. bundles[b].age < Ttl => bundles[b].age + 1 \in 0 .. Ttl
      BY <3>1, LifecycleAssumption DEF Store!Entry
    <3>. QED
      BY <1>5, <3>1, <3>2 DEF Store!Tick, Store!Entry
  <2>2. Store!TypeOK'
    BY <1>5, <2>1 DEF Store!Tick, Store!TypeOK
  <2>3. Outcome' /\ Exclusive'
    BY <1>5 DEF Store!Tick, Outcome, Exclusive
  <2>4. Marked'
    BY <1>5, <2>1 DEF Store!Tick, Marked, Store!TypeOK
  <2>5. Store!VerdictIsLatest'
    BY <1>5, <2>1 DEF Store!Tick, Store!VerdictIsLatest, Store!Unrecorded
  <2>. QED
    BY <2>2, <2>3, <2>4, <2>5
<1>6. ASSUME NEW b \in Bundles, Store!DiskChanges(b) PROVE StoreInv'
  BY <1>6 DEF Store!DiskChanges, Store!TypeOK, Outcome, Exclusive, Marked,
              Store!VerdictIsLatest, Store!Unrecorded
<1>7. CASE UNCHANGED Store!vars
  BY <1>7
     DEF Store!vars, Store!TypeOK, Outcome, Exclusive, Marked,
         Store!VerdictIsLatest, Store!Unrecorded
<1>. QED
  BY <1>1, <1>2, <1>3, <1>4, <1>5, <1>6, <1>7 DEF Store!Next

\* The inductive invariant holds of every state the store can be in.
THEOREM StoreInvariant == Store!Spec => []StoreInv
BY StoreInit, StoreStep, PTL DEF Store!Spec

\* Every check, registration and tick keeps the registry well typed.
THEOREM StoreTypeCorrect == Store!Spec => []Store!TypeOK
<1>1. StoreInv => Store!TypeOK
  BY DEF StoreInv
<1>. QED
  BY <1>1, StoreInvariant, PTL

\* ensure_servable refuses a bundle that has failed a check until it is
\* registered again.
THEOREM WithdrawnRefused == Store!Spec => []Store!WithdrawnStaysOut
<1>1. StoreInv => Store!WithdrawnStaysOut
  BY DEF StoreInv, Marked, Store!WithdrawnStaysOut, Store!EnsureServable,
         Store!Registered, Store!TypeOK
<1>. QED
  BY <1>1, StoreInvariant, PTL

-------------------------------------------------------------------------------
(* The node implements the registry *)

\* The registry the node opens is one ModelStore starts from.
LEMMA StoreStarts == Init => Store!Init
BY DEF Init

\* Whatever a handler, the monitor or the environment does to the registry is
\* a step of ModelStore.
LEMMA StoreSteps == [Next]_vars => [Store!Next]_(Store!vars)
<1>. SUFFICES ASSUME [Next]_vars PROVE [Store!Next]_(Store!vars)
  OBVIOUS
<1>. USE DEF storeVars, Store!vars
<1>1. ASSUME NEW c \in Checkers, CheckNext(c) PROVE Store!Next
  <2>1. PICK b \in todo[c] : Store!BeginCheck(c, b)
    BY <1>1 DEF CheckNext
  <2>2. b \in Bundles
    BY <2>1 DEF Store!BeginCheck, Store!Registered
  <2>. QED
    BY <2>1, <2>2 DEF Store!Next
<1>2. ASSUME NEW c \in Checkers, NEW e, Hash(c, e) PROVE Store!Next
  BY <1>2 DEF Hash, Store!Next
<1>3. ASSUME NEW c \in Checkers, NEW f, Verdict(c, f) PROVE Store!Next
  BY <1>3 DEF Verdict, Store!Next
<1>4. "monitor" \in Checkers /\ "recover" \in Checkers
                             /\ "provision" \in Checkers
  BY DEF Checkers
<1>5. CASE Monitor
  BY <1>1, <1>2, <1>3, <1>4, <1>5
     DEF Monitor, MonitorTick, MonitorStop, MonitorFlag, MonitorHalt,
         MonitorDone
<1>6. CASE Recover
  BY <1>1, <1>2, <1>3, <1>4, <1>6
     DEF Recover, RecoverGoesOn, AdminRecover, RecoverReset, RecoverAbandoned, RecoverResume
<1>7. CASE Provision
  <2>1. CASE ProvisionModel
    BY <2>1 DEF ProvisionModel, Store!Next
  <2>2. CASE ProvisionDone
    BY <2>2 DEF ProvisionDone
  <2>. QED
    BY <1>1, <1>2, <1>3, <1>4, <1>7, <2>1, <2>2
       DEF Provision, ProvisionGoesOn
<1>8. CASE AdminQuarantine \/ ServerExits
  BY <1>8 DEF AdminQuarantine, ServerExits
<1>9. ASSUME NEW k \in Callers,
             AdminTeardown(k) \/ Shutdown(k) \/ TeardownAbandoned(k)
      PROVE  UNCHANGED storeVars
  BY <1>9
     DEF AdminTeardown, TeardownAbandoned, Shutdown,
         ShutdownEnter, ShutdownCancel, ShutdownTerminate, ShutdownRecord
<1>10. CASE ChildLoads \/ ChildCrashes \/ SupStop
  BY <1>10 DEF ChildLoads, ChildCrashes, SupStop
<1>11. CASE Supervise
  BY <1>11 DEF Supervise, SupTick, SupDegrade, SupTerminate, SupKilled,
               SupSpawn, SupAwait, SupWebUi, SupRecover, SupFail
<1>12. CASE Clock \/ Disk
  BY <1>12 DEF Clock, Disk, Store!Next
<1>13. CASE UNCHANGED vars
  BY <1>13 DEF vars
<1>. QED
  BY <1>5, <1>6, <1>7, <1>8, <1>9, <1>10, <1>11, <1>12, <1>13 DEF Next

\* The invariant proved of ModelStore holds under the node's own steps.
LEMMA StoreInvHolds == Spec => []StoreInv
<1>1. Init => StoreInv
  BY StoreStarts, StoreInit
<1>2. StoreInv /\ [Next]_vars => StoreInv'
  BY StoreSteps, StoreStep
<1>. QED
  BY <1>1, <1>2, PTL DEF Spec

\* However the monitor, recovery and provisioning interleave their calls of
\* run_integrity_check, the registry's verdict is the outcome of the latest
\* hashing: no slow check overwrites a newer verdict with an older one.
THEOREM LatestVerdict == Spec => []VerdictIsLatest
<1>1. StoreInv => VerdictIsLatest
  BY DEF StoreInv, VerdictIsLatest
<1>. QED
  BY <1>1, StoreInvHolds, PTL

\* Weights that failed an integrity check are not served again before they are
\* provisioned again, although recovery may make the node operational.
THEOREM FailedWeightsRefused == Spec => []FailedWeightsNotServed
<1>1. StoreInv => FailedWeightsNotServed
  BY LifecycleAssumption
     DEF StoreInv, Store!TypeOK, Marked,
         FailedWeightsNotServed, Servable, Admits, GateId, PlainFile,
         Store!EnsureServable, Store!Registered
<1>. QED
  BY <1>1, StoreInvHolds, PTL

-------------------------------------------------------------------------------
(* The status *)

\* Only the last step of recovery turns a quarantined or zeroized node into a
\* serving one.
LEMMA ResumeStep ==
  [Next]_vars /\ status \in {"Quarantine", "Zeroized"} /\ CanServe'
    => RecoverResume
<1>. SUFFICES ASSUME [Next]_vars, status \in {"Quarantine", "Zeroized"},
                     CanServe', ~RecoverResume
              PROVE  FALSE
  OBVIOUS
<1>1. ~UNCHANGED stateVars
  BY DEF stateVars, CanServe
<1>2. status' \notin {"Quarantine", "Zeroized"}
  BY DEF CanServe
<1>. USE DEF stateVars
<1>3. ASSUME NEW c, CheckNext(c) PROVE FALSE
  BY <1>1, <1>3 DEF CheckNext
<1>4. ASSUME NEW c, NEW e, Hash(c, e) PROVE FALSE
  BY <1>1, <1>4 DEF Hash
<1>5. ASSUME NEW c, NEW f, Verdict(c, f) PROVE FALSE
  BY <1>1, <1>5 DEF Verdict
<1>6. CASE Monitor
  BY <1>1, <1>2, <1>3, <1>4, <1>5, <1>6
     DEF Monitor, MonitorTick, MonitorStop, MonitorFlag, MonitorHalt,
         MonitorDone, EnterQuarantine
<1>7. CASE Recover
  BY <1>1, <1>3, <1>4, <1>5, <1>7
     DEF Recover, RecoverGoesOn, AdminRecover, RecoverReset, RecoverAbandoned
<1>8. CASE Provision
  BY <1>1, <1>3, <1>4, <1>5, <1>8
     DEF Provision, ProvisionGoesOn, ProvisionModel, ProvisionDone
<1>9. CASE AdminQuarantine \/ ServerExits
  BY <1>1, <1>2, <1>9 DEF AdminQuarantine, ServerExits, EnterQuarantine
<1>10. ASSUME NEW k \in Callers,
              AdminTeardown(k) \/ Shutdown(k) \/ TeardownAbandoned(k)
       PROVE  FALSE
  BY <1>1, <1>2, <1>10
     DEF AdminTeardown, TeardownAbandoned, Shutdown, ShutdownEnter,
         ShutdownCancel, ShutdownTerminate, ShutdownRecord, EnterZeroized
<1>11. CASE ChildLoads \/ ChildCrashes \/ SupStop
  BY <1>1, <1>11 DEF ChildLoads, ChildCrashes, SupStop
<1>12. CASE Supervise
  BY <1>1, <1>12
     DEF Supervise, SupTick, SupDegrade, SupTerminate, SupKilled, SupSpawn,
         SupAwait, SupWebUi, SupRecover, SupFail, Degrade,
         RecoverFromDegraded
<1>13. CASE Clock \/ Disk
  BY <1>1, <1>13 DEF Clock, Disk
<1>14. CASE UNCHANGED vars
  BY <1>1, <1>14 DEF vars
<1>. QED
  BY <1>6, <1>7, <1>8, <1>9, <1>10, <1>11, <1>12, <1>13, <1>14 DEF Next

\* Leaving quarantine is an operator decision: no interleaving of faults,
\* restarts and checks does it.
THEOREM OperatorResumes == Spec => OnlyOperatorResumes
BY ResumeStep, PTL DEF Spec, OnlyOperatorResumes

-------------------------------------------------------------------------------
(* Type correctness *)

\* The node's own variables, without the registry's.
NodeTypes ==
  /\ status \in Statuses
  /\ enclave \in {"Active", "Zeroized"}
  /\ tamper \in BOOLEAN
  /\ pc \in [Checkers -> {"idle", "check", "checking", "flag", "halt",
                         "resume", "stopped"}]
  /\ todo \in [Checkers -> SUBSET Bundles]
  /\ sup \in {"wait", "degrade", "select", "killing", "spawn", "await",
              "webui", "recover", "failed", "done"}
  /\ child \in {"none", "starting", "healthy", "exited"}
  /\ faults \in 0 .. MaxFaults
  /\ stopping \in BOOLEAN
  /\ caller \in [Callers -> {"idle", "enter", "cancel", "terminate", "record",
                             "returned", "abandoned"}]
  /\ shutdowns \in Nat

\* Every handler and task leaves the node's variables well typed.
LEMMA NodeTypesStep == NodeTypes /\ [Next]_vars => NodeTypes'
<1>. SUFFICES ASSUME NodeTypes, [Next]_vars PROVE NodeTypes'
  OBVIOUS
<1>. USE DEF NodeTypes, stateVars, checkerVars, runtimeVars, stopVars
<1>0. "monitor" \in Checkers /\ "recover" \in Checkers
                             /\ "provision" \in Checkers
  BY DEF Checkers
<1>1. ASSUME NEW c \in Checkers, CheckNext(c) PROVE NodeTypes'
  BY <1>1 DEF CheckNext
<1>2. ASSUME NEW c \in Checkers, NEW e \in {"idle", "check"}, Hash(c, e)
      PROVE  NodeTypes'
  BY <1>2 DEF Hash
<1>3. ASSUME NEW c \in Checkers, NEW f \in {"idle", "check", "flag"},
             Verdict(c, f)
      PROVE  NodeTypes'
  BY <1>3 DEF Verdict
<1>4. ASSUME NEW c \in Checkers, StartChecks(c),
             UNCHANGED <<stateVars, tamper, runtimeVars, stopVars>>
      PROVE  NodeTypes'
  BY <1>4 DEF StartChecks, Store!Registered
<1>5. CASE Monitor
  <2>1. OnTamper \in {"idle", "check", "flag"}
    BY DEF OnTamper
  <2>2. CASE MonitorTick
    BY <1>0, <1>4, <2>2 DEF MonitorTick
  <2>3. CASE MonitorStop \/ MonitorFlag \/ MonitorDone
    BY <1>0, <2>3 DEF MonitorStop, MonitorFlag, MonitorDone
  <2>4. CASE MonitorHalt
    BY <1>0, <2>4 DEF MonitorHalt, EnterQuarantine, Statuses
  <2>. QED
    BY <1>0, <1>1, <1>2, <1>3, <1>5, <2>1, <2>2, <2>3, <2>4 DEF Monitor
<1>6. CASE Recover
  <2>1. CASE AdminRecover
    BY <1>0, <1>4, <2>1 DEF AdminRecover
  <2>2. CASE RecoverReset \/ RecoverAbandoned
    BY <1>0, <2>2 DEF RecoverReset, RecoverAbandoned
  <2>3. CASE RecoverResume
    BY <1>0, <2>3 DEF RecoverResume, GoOperational, Statuses
  <2>4. OnRecoverFailed = "idle"
    BY DEF OnRecoverFailed
  <2>. QED
    BY <1>0, <1>1, <1>2, <1>3, <1>6, <2>1, <2>2, <2>3, <2>4
       DEF Recover, RecoverGoesOn
<1>7. CASE Provision
  <2>1. CASE ProvisionModel
    BY <1>0, <2>1 DEF ProvisionModel
  <2>2. CASE ProvisionDone
    BY <1>0, <2>2 DEF ProvisionDone
  <2>. QED
    BY <1>0, <1>1, <1>2, <1>3, <1>7, <2>1, <2>2
       DEF Provision, ProvisionGoesOn
<1>8. CASE AdminQuarantine
  BY <1>8 DEF AdminQuarantine, EnterQuarantine, Statuses
<1>9. ASSUME NEW k \in Callers, AdminTeardown(k) \/ TeardownAbandoned(k)
      PROVE  NodeTypes'
  <2>1. CASE AdminTeardown(k)
    BY <2>1 DEF AdminTeardown, EnterZeroized, Statuses
  <2>2. CASE TeardownAbandoned(k)
    BY <2>2 DEF TeardownAbandoned, Goes
  <2>. QED
    BY <1>9, <2>1, <2>2
<1>10. ASSUME NEW k \in Callers, Shutdown(k) PROVE NodeTypes'
  <2>1. shutdowns + 1 \in Nat
    OBVIOUS
  <2>2. CASE ShutdownEnter(k)
    <3>1. caller' \in [Callers -> {"idle", "enter", "cancel", "terminate",
                                   "record", "returned", "abandoned"}]
      <4>1. CASE stopping
        BY <2>2, <4>1 DEF ShutdownEnter, Goes
      <4>2. CASE ~stopping
        BY <2>2, <4>2 DEF ShutdownEnter, Goes
      <4>. QED
        BY <4>1, <4>2
    <3>. QED
      BY <2>2, <3>1 DEF ShutdownEnter
  <2>3. CASE ShutdownCancel(k)
    BY <2>3 DEF ShutdownCancel, Goes
  <2>4. CASE ShutdownTerminate(k)
    BY <2>4 DEF ShutdownTerminate, Goes
  <2>5. CASE ShutdownRecord(k)
    BY <2>1, <2>5 DEF ShutdownRecord, Goes
  <2>. QED
    BY <1>10, <2>2, <2>3, <2>4, <2>5 DEF Shutdown
<1>11. CASE ServerExits
  BY <1>11 DEF ServerExits, Callers
<1>12. CASE ChildLoads \/ SupStop
  BY <1>12 DEF ChildLoads, SupStop
<1>13. faults < MaxFaults => faults + 1 \in 0 .. MaxFaults
  BY LifecycleAssumption
<1>14. CASE ChildCrashes
  BY <1>13, <1>14 DEF ChildCrashes
<1>15. CASE Supervise
  <2>1. CASE SupTick \/ SupTerminate \/ SupKilled \/ SupWebUi
    BY <2>1 DEF SupTick, SupTerminate, SupKilled, SupWebUi
  <2>2. CASE SupDegrade \/ SupRecover \/ SupFail
    BY <2>2 DEF SupDegrade, SupRecover, SupFail, Degrade,
                RecoverFromDegraded, GoOperational, Statuses
  <2>3. CASE SupSpawn \/ SupAwait
    BY <1>13, <2>3 DEF SupSpawn, SupAwait
  <2>. QED
    BY <1>15, <2>1, <2>2, <2>3 DEF Supervise
<1>16. CASE Clock \/ Disk
  BY <1>16 DEF Clock, Disk
<1>17. CASE UNCHANGED vars
  BY <1>17 DEF vars
<1>. QED
  BY <1>5, <1>6, <1>7, <1>8, <1>9, <1>10, <1>11, <1>12, <1>14, <1>15, <1>16,
     <1>17 DEF Next

\* The setting of the monitor does not change while the node runs.
LEMMA SettingKept == [Next]_vars => halt_on_tamper' = halt_on_tamper
<1> SUFFICES ASSUME [Next]_vars PROVE halt_on_tamper' = halt_on_tamper
  OBVIOUS
<1>1. CASE Monitor
  BY <1>1 DEF Monitor, MonitorTick, MonitorStop, MonitorFlag, MonitorHalt,
     MonitorDone, CheckNext, Hash, Verdict
<1>2. CASE Recover \/ Provision
  BY <1>2 DEF Recover, RecoverGoesOn, AdminRecover, RecoverReset,
     RecoverAbandoned, RecoverResume, Provision, ProvisionGoesOn,
     ProvisionModel, ProvisionDone, CheckNext, Hash, Verdict
<1>3. CASE AdminQuarantine \/ ServerExits \/ Clock \/ Disk
  BY <1>3 DEF AdminQuarantine, ServerExits, Clock, Disk
<1>4. CASE \E k \in Callers :
             AdminTeardown(k) \/ Shutdown(k) \/ TeardownAbandoned(k)
  BY <1>4 DEF AdminTeardown, Shutdown, ShutdownEnter, ShutdownCancel,
     ShutdownTerminate, ShutdownRecord, TeardownAbandoned
<1>5. CASE ChildLoads \/ ChildCrashes \/ SupStop \/ Supervise
  BY <1>5 DEF ChildLoads, ChildCrashes, SupStop, Supervise, SupTick,
     SupDegrade, SupTerminate, SupKilled, SupSpawn, SupAwait, SupWebUi,
     SupRecover, SupFail
<1>6. CASE UNCHANGED vars
  BY <1>6 DEF vars
<1> QED
  BY <1>1, <1>2, <1>3, <1>4, <1>5, <1>6 DEF Next

\* Type correctness of the node and of the registry it drives.
THEOREM LifecycleTypeCorrect == Spec => []TypeOK
<1>1. Init => NodeTypes
  <2>. SUFFICES ASSUME Init PROVE NodeTypes
    OBVIOUS
  <2>1. faults \in 0 .. MaxFaults /\ shutdowns \in Nat
    BY LifecycleAssumption DEF Init
  <2>2. pc \in [Checkers -> {"idle", "check", "checking", "flag", "halt",
                            "resume", "stopped"}]
    BY DEF Init
  <2>3. todo \in [Checkers -> SUBSET Bundles]
    BY DEF Init
  <2>4. caller \in [Callers -> {"idle", "enter", "cancel", "terminate",
                                "record", "returned", "abandoned"}]
    BY DEF Init
  <2>5. /\ status \in Statuses
        /\ enclave \in {"Active", "Zeroized"}
        /\ tamper \in BOOLEAN
        /\ stopping \in BOOLEAN
    BY DEF Init, Statuses
  <2>6. /\ sup \in {"wait", "degrade", "select", "killing", "spawn", "await",
                    "webui", "recover", "failed", "done"}
        /\ child \in {"none", "starting", "healthy", "exited"}
    BY DEF Init
  <2>. QED
    BY <2>1, <2>2, <2>3, <2>4, <2>5, <2>6 DEF NodeTypes
<1>2. Init => halt_on_tamper \in BOOLEAN
  BY LifecycleAssumption DEF Init
<1>3. NodeTypes /\ StoreInv /\ halt_on_tamper \in BOOLEAN => TypeOK
  BY DEF TypeOK, NodeTypes, StoreInv
<1>4. Spec => [](halt_on_tamper \in BOOLEAN)
  <2>1. halt_on_tamper \in BOOLEAN /\ [Next]_vars => (halt_on_tamper \in BOOLEAN)'
    BY SettingKept
  <2>. QED
    BY <1>2, <2>1, PTL DEF Spec
<1>. QED
  BY <1>1, <1>3, <1>4, NodeTypesStep, StoreInvHolds, PTL DEF Spec
===============================================================================
