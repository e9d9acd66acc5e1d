------------------------------ MODULE ModelStore ------------------------------
(***************************************************************************)
(* The bundle registry of model_store.rs: registration, integrity checks   *)
(* by several callers under the per-bundle check lock, the cached verdict  *)
(* with its lifetime, and the serving gate.  Hashing takes time: a check   *)
(* clones the manifest, reads the shards and records its verdict in three  *)
(* steps, and registration does not take the check lock.                   *)
(*                                                                         *)
(* A manifest stands for its digests.  The shards on disk match at most    *)
(* one manifest, or none ("altered", which is also a missing shard), or    *)
(* cannot be read at all.  Nothing in the program calls remove_bundle, so  *)
(* a registered bundle stays registered.                                   *)
(***************************************************************************)
EXTENDS Naturals

CONSTANTS
  Bundles,            \* bundle ids
  Manifests,          \* manifests a bundle id may be registered with
  Checkers,           \* callers of run_integrity_check
  NoBundle,           \* a checker that is checking nothing
  AllowUnregistered,  \* CORDON_ALLOW_UNREGISTERED_MODELS
  Ttl                 \* verdict_ttl, in ticks of the clock

ASSUME StoreAssumption ==
  /\ NoBundle \notin Bundles
  /\ Manifests # {}
  /\ {"altered", "unreadable"} \cap Manifests = {}
  /\ AllowUnregistered \in BOOLEAN
  /\ Ttl \in Nat \ {0}

VARIABLES
  bundles,     \* the registry
  shards,      \* what is on disk for each bundle
  checks,      \* run_integrity_check in each caller
  lastHashed,  \* history: outcome of the last hashing of a bundle
  withdrawn    \* history: bundles with a failing verdict since registration

vars == <<bundles, shards, checks, lastHashed, withdrawn>>

Outcomes == {"none", "passed", "failed"}

Entry == [status : {"absent", "Encrypted", "Ready", "Tampered"},
          manifest : Manifests, verdict : Outcomes, age : 0 .. Ttl]

Check == [pc : {"idle", "cloned", "hashed"}, bundle : Bundles \cup {NoBundle},
          manifest : Manifests, result : Outcomes \cup {"error"}]

Content == Manifests \cup {"altered", "unreadable"}

\* The store after scan_existing_bundles, and after stage_plaintext has
\* verified and decrypted the bundle the runtime serves.
Found(m) == [status |-> "Encrypted", manifest |-> m, verdict |-> "none",
             age |-> 0]
Staged(m) == [status |-> "Ready", manifest |-> m, verdict |-> "passed",
              age |-> 0]
Absent(m) == [status |-> "absent", manifest |-> m, verdict |-> "none",
              age |-> 0]

Idle == [pc |-> "idle", bundle |-> NoBundle,
         manifest |-> CHOOSE m \in Manifests : TRUE, result |-> "none"]

Init ==
  \E manifest \in [Bundles -> Manifests] :
    /\ bundles \in [Bundles -> UNION {{Found(m), Staged(m), Absent(m)} :
                                         m \in Manifests}]
    /\ \A b \in Bundles : bundles[b].manifest = manifest[b]
    /\ shards = manifest
    /\ checks = [c \in Checkers |-> Idle]
    /\ lastHashed = [b \in Bundles |-> bundles[b].verdict]
    /\ withdrawn = {}

Registered == {b \in Bundles : bundles[b].status # "absent"}

-------------------------------------------------------------------------------
(* Integrity checks *)

\* Mutation: checks of one bundle are not serialised.
BeginCheckUnlocked(c, b) ==
  /\ checks[c].pc = "idle"
  /\ b \in Registered
  /\ checks' = [checks EXCEPT ![c] =
       [pc |-> "cloned", bundle |-> b, manifest |-> bundles[b].manifest,
        result |-> "none"]]
  /\ UNCHANGED <<bundles, shards, lastHashed, withdrawn>>

\* run_integrity_check takes the bundle's check lock and clones its manifest.
BeginCheck(c, b) ==
  /\ checks[c].pc = "idle"
  /\ b \in Registered
  /\ \A d \in Checkers : checks[d].bundle # b
  /\ checks' = [checks EXCEPT ![c] =
       [pc |-> "cloned", bundle |-> b, manifest |-> bundles[b].manifest,
        result |-> "none"]]
  /\ UNCHANGED <<bundles, shards, lastHashed, withdrawn>>

\* check_shards: a missing shard or a digest mismatch fails the check, an I/O
\* error makes it return an error.
CheckShards(manifest, content) ==
  CASE content = manifest -> "passed"
    [] content = "unreadable" -> "error"
    [] OTHER -> "failed"

\* The shards have been hashed.  An error is returned at once, with the lock
\* released and no verdict recorded.
HashShards(c) ==
  LET b == checks[c].bundle
      result == CheckShards(checks[c].manifest, shards[b])
  IN /\ checks[c].pc = "cloned"
     /\ IF result = "error"
        THEN /\ checks' = [checks EXCEPT ![c] =
                  [Idle EXCEPT !.result = "error"]]
             /\ UNCHANGED lastHashed
        ELSE /\ checks' = [checks EXCEPT ![c].pc = "hashed",
                                         ![c].result = result]
             /\ lastHashed' = [lastHashed EXCEPT ![b] = result]
     /\ UNCHANGED <<bundles, shards, withdrawn>>

\* Mutation: a failing verdict does not mark the bundle.
WithVerdictUnmarked(entry, result) ==
  [entry EXCEPT !.verdict = result, !.age = 0]

\* record_verdict on whatever entry the registry holds now: a pass never
\* clears Tampered.
WithVerdict(entry, result) ==
  [entry EXCEPT !.verdict = result, !.age = 0,
                !.status = IF result = "failed" THEN "Tampered" ELSE @]

\* record_verdict, and the check lock is released.
RecordVerdict(c) ==
  LET b == checks[c].bundle
      result == checks[c].result
  IN /\ checks[c].pc = "hashed"
     /\ bundles' = [bundles EXCEPT ![b] = WithVerdict(bundles[b], result)]
     /\ withdrawn' = IF result = "failed" THEN withdrawn \cup {b}
                                          ELSE withdrawn
     /\ checks' = [checks EXCEPT ![c] = [Idle EXCEPT !.result = result]]
     /\ UNCHANGED <<shards, lastHashed>>

-------------------------------------------------------------------------------
(* Registration, the passage of time, the disk *)

\* register_bundle, with a manifest whose structure is valid.  A directory
\* with other shards in it is this step followed by DiskChanges.
Register(b, m) ==
  /\ bundles' = [bundles EXCEPT ![b] = Found(m)]
  /\ withdrawn' = withdrawn \ {b}
  /\ UNCHANGED <<shards, checks, lastHashed>>

\* A tick of the clock ages every verdict; past Ttl, age makes no difference.
Tick ==
  /\ bundles' = [b \in Bundles |->
       IF bundles[b].verdict # "none" /\ bundles[b].age < Ttl
       THEN [bundles[b] EXCEPT !.age = @ + 1] ELSE bundles[b]]
  /\ UNCHANGED <<shards, checks, lastHashed, withdrawn>>

\* The shards are altered, become unreadable, or are replaced by the ones that
\* belong to manifest m.
DiskChanges(b) ==
  /\ \E content \in Content : shards' = [shards EXCEPT ![b] = content]
  /\ UNCHANGED <<bundles, checks, lastHashed, withdrawn>>

-------------------------------------------------------------------------------
(* The serving gate *)

\* Mutation: a passing verdict never expires.
EnsureServableForever(b) ==
  IF b \notin Registered THEN Registered = {} \/ AllowUnregistered
  ELSE /\ bundles[b].status # "Tampered"
       /\ bundles[b].verdict = "passed"

\* ensure_servable returns Ok.
EnsureServable(b) ==
  IF b \notin Registered THEN Registered = {} \/ AllowUnregistered
  ELSE /\ bundles[b].status # "Tampered"
       /\ bundles[b].verdict = "passed"
       /\ bundles[b].age < Ttl

-------------------------------------------------------------------------------
Next ==
  \/ \E c \in Checkers, b \in Bundles : BeginCheck(c, b)
  \/ \E c \in Checkers : HashShards(c) \/ RecordVerdict(c)
  \/ \E b \in Bundles, m \in Manifests : Register(b, m)
  \/ Tick
  \/ \E b \in Bundles : DiskChanges(b)

Spec == Init /\ [][Next]_vars

\* The clock never stops; nobody is obliged to check anything.
FairSpec == Spec /\ WF_vars(Tick)

-------------------------------------------------------------------------------
(* Properties *)

\* Type correctness of the registry, the checks in flight and the histories.
TypeOK ==
  /\ bundles \in [Bundles -> Entry]
  /\ shards \in [Bundles -> Content]
  /\ checks \in [Checkers -> Check]
  /\ lastHashed \in [Bundles -> Outcomes]
  /\ withdrawn \in SUBSET Bundles

\* A check of bundle b has hashed its shards and not recorded the outcome.
Unrecorded(b) ==
  \E c \in Checkers : checks[c].pc = "hashed" /\ checks[c].bundle = b

\* However the monitor, recovery and provisioning interleave their checks of a
\* bundle, the verdict in the registry is the outcome of the latest hashing:
\* no slow check overwrites a newer verdict with an older one.
VerdictIsLatest ==
  \A b \in Bundles :
    bundles[b].verdict # "none" /\ ~Unrecorded(b)
      => bundles[b].verdict = lastHashed[b]

\* A registered bundle that has failed a check is refused until it is
\* registered again, whatever later checks find.
WithdrawnStaysOut == \A b \in withdrawn : ~EnsureServable(b)

\* A bundle whose shards stay altered or unreadable is refused in the end, for
\* good, even when every checker stops: the verdict runs out.  (b is registered.)
BadShardsWithdrawn ==
  \A b \in Bundles :
    <>[](shards[b] \in {"altered", "unreadable"} /\ b \in Registered)
      => <>[]~EnsureServable(b)
===============================================================================
