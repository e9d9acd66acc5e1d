------------------------------ MODULE Admission ------------------------------
(***************************************************************************)
(* Who gets in: the identity a connection carries (middleware.rs,          *)
(* handlers.rs), the client registry with its suspensions (identity.rs),   *)
(* the attack detector with its bounded window counters, its blocks and    *)
(* its suspensions (attack_detector.rs), and the gates of admit in         *)
(* node.rs that consult them, one step per lock they take.                 *)
(*                                                                         *)
(* Time is the action Tick.  A deadline is the time left until it, an      *)
(* event of a window counter its age; an event aged the full window has    *)
(* lapsed, but stays until something prunes the counter.  The gates before *)
(* these (status, attestation) and after (limits, store, rate limiter) are *)
(* in other modules: a request they refuse changes nothing here.  The      *)
(* replay, session and exception counters and the callbacks only feed log  *)
(* lines.                                                                  *)
(***************************************************************************)
EXTENDS CovertScore, SequencesExt

CONSTANTS
  Conns,             \* connections, each doing one request at a time
  Peer,              \* connection -> [client, cert, verified]
  Policy,            \* enrolled client -> [active, models, pins, admin]
  Asks,              \* connection -> the models it may ask for
  Texts,             \* what the runtime may answer, as the analyser sees it
  RequiresMtls,      \* CordonConfig::requires_mtls
  MayLapse,          \* certificates and clients' policies that may expire
  AuthThreshold, ProbeThreshold, CovertThreshold, CovertScoreThreshold,
  AuthWindow, ProbeWindow, CovertWindow,
  BlockFor,          \* how long a block or a detector suspension lasts
  SuspendFor,        \* the durations an administrator may give
  Targets,           \* the clients administrators suspend
  MaxKeys,           \* MAX_TRACKED_KEYS
  MaxEvents,         \* MAX_EVENTS_PER_COUNTER
  SweepInterval,     \* SWEEP_INTERVAL_SECONDS
  MaxRecent,         \* bound: failures of a source in one window
  MaxSuspensions     \* bound: suspensions by administrators

Sources == {Peer[k].cert : k \in Conns}
Clients == {Peer[k].client : k \in Conns}
Enrolled == DOMAIN Policy

ASSUME AdmissionAssumption ==
  /\ \A n \in {AuthThreshold, ProbeThreshold, CovertThreshold, AuthWindow,
               ProbeWindow, CovertWindow, BlockFor, MaxKeys, MaxEvents,
               SweepInterval} : n \in Nat \ {0}
  /\ AuthWindow <= BlockFor
  /\ SuspendFor \subseteq Nat \ {0} /\ Targets \subseteq Clients
  /\ Texts \subseteq Text /\ Conns \subseteq DOMAIN Asks

VARIABLES
  conn,        \* the request on each connection
  auth,        \* DetectorState::auth_failures
  global,      \* DetectorState::global_auth_failures
  probes,      \* DetectorState::invalid_model_probes
  covert,      \* DetectorState::covert_channel_events
  blocked,     \* DetectorState::blocked_ips: source -> time left
  probation,   \* DetectorState::suspended_clients: client -> time left
  suspended,   \* IdentityRegistry::suspended: client -> time left
  lapsed,      \* the certificates and policies past their expiry
  orders,      \* suspensions ordered by administrators so far
  failures,    \* every recorded failure inside the window, oldest first:
               \* its source, whether the table tracked it, its age
  promised     \* list -> client -> time left of the longest suspension given

detector == <<auth, global, probes, covert, blocked, probation>>
registry == <<suspended, lapsed, orders>>
ghosts == <<failures, promised>>
vars == <<conn, detector, registry, ghosts>>

-----------------------------------------------------------------------------
\* WindowCounter: the ages of its events, oldest first, the events past the
\* cap, and the window.  A counter without events is one no table holds.

NewCounter(window) == [events |-> <<>>, sat |-> 0, window |-> window]

\* prune: the lapsed events are a prefix, since events are in time order; the
\* saturated ones are forgotten with the last retained one.
FirstLive(c) ==
  1 + Cardinality({i \in DOMAIN c.events : c.events[i] >= c.window})

Pruned(c) ==
  LET live == SubSeq(c.events, FirstLive(c), Len(c.events))
  IN [c EXCEPT !.events = live,
               !.sat = IF live = <<>> /\ c.events # <<>> THEN 0 ELSE @]

Total(c) == Len(c.events) + c.sat

Incremented(c) ==
  LET p == Pruned(c)
  IN IF Len(p.events) >= MaxEvents THEN [p EXCEPT !.sat = @ + 1]
     ELSE [p EXCEPT !.events = Append(@, 0)]

\* Ages past the window are all alike.
Aged(c) ==
  [c EXCEPT !.events = [i \in DOMAIN @ |->
                          IF @[i] < c.window THEN @[i] + 1 ELSE c.window]]

\* BoundedCounters: the counters by key, and the time since the last sweep.
NewTable(keys, window) ==
  [counters |-> [k \in keys |-> NewCounter(window)], swept |-> 0]

Keys(t) == {k \in DOMAIN t.counters : t.counters[k].events # <<>>}

\* is_lapsed: nothing of the counter is still inside its window.
IsLapsed(c) == Pruned(c).events = <<>>

\* Mutation: a sweep that evicts what is merely old.
PruneOld(t) ==
  LET old(c) == \A i \in DOMAIN c.events : c.events[i] > 0
  IN [counters |-> [k \in DOMAIN t.counters |->
                      IF old(t.counters[k])
                      THEN NewCounter(t.counters[k].window)
                      ELSE Pruned(t.counters[k])],
      swept |-> 0]

PruneLapsed(t) ==
  [counters |-> [k \in DOMAIN t.counters |->
                   IF IsLapsed(t.counters[k])
                   THEN NewCounter(t.counters[k].window)
                   ELSE Pruned(t.counters[k])],
   swept |-> 0]

Full(t) == Cardinality(Keys(t)) >= MaxKeys

SweepIfDue(t) == IF t.swept < SweepInterval THEN t ELSE PruneLapsed(t)

\* record: the table after one event of the key, and whether it was tracked.
Record(t, key) ==
  LET room == IF key \notin Keys(t) /\ Full(t) THEN SweepIfDue(t) ELSE t
      tracked == key \in Keys(room) \/ ~Full(room)
  IN [tracked |-> tracked,
      table |-> IF tracked
                THEN [room EXCEPT !.counters[key] = Incremented(@)] ELSE room]

TableAged(t) ==
  [counters |-> [k \in DOMAIN t.counters |-> Aged(t.counters[k])],
   swept |-> Min({t.swept + 1, SweepInterval})]

-----------------------------------------------------------------------------
\* The identity of a connection and the policy it has (identity.rs).

\* populate_identity and authenticated_client: a certificate verified by the
\* TLS listener, or a header, which a node that requires mTLS refuses.
Authenticated(k) == Peer[k].verified \/ ~RequiresMtls

DefaultPolicy == [active |-> TRUE, models |-> {}, pins |-> {}, admin |-> FALSE]

\* load_from_file: enrolling anyone denies everyone else.
DenyUnknown == Enrolled # {}

PolicyOf(c) == IF c \in Enrolled THEN Policy[c] ELSE DefaultPolicy

Verifies(k) ==
  LET c == Peer[k].client
  IN /\ Peer[k].cert \notin lapsed
     /\ suspended[c] = 0
     /\ c \in Enrolled \/ ~DenyUnknown
     /\ PolicyOf(c).active /\ c \notin lapsed
     /\ PolicyOf(c).pins = {} \/ Peer[k].cert \in PolicyOf(c).pins

ModelPermitted(k) ==
  LET models == PolicyOf(Peer[k].client).models
  IN models = {} \/ conn[k].model \in models

\* suspend: extends a suspension, never shortens it.
\* Mutation: the latest order wins.
SuspensionReplaced(c, d) == [suspended EXCEPT ![c] = d]

SuspensionAfter(c, d) == [suspended EXCEPT ![c] = Max({@, d})]

\* The two lists of suspensions: the registry's and the detector's.
Lists == {"registry", "detector"}
Promise(list, c, d) ==
  promised' = [promised EXCEPT ![list][c] = Max({@, d})]

\* client_may_administer: the registry alone, never the detector.
MayAdminister(k) ==
  DenyUnknown => Verifies(k) /\ PolicyOf(Peer[k].client).admin

-----------------------------------------------------------------------------
NoRequest == [pc |-> "idle", model |-> "none", barred |-> {}]

Init ==
  /\ conn = [k \in Conns |-> NoRequest]
  /\ auth = NewTable(Sources, AuthWindow)
  /\ global = NewCounter(AuthWindow)
  /\ probes = NewTable(Clients, ProbeWindow)
  /\ covert = [c \in Clients |-> NewCounter(CovertWindow)]
  /\ blocked = [s \in Sources |-> 0]
  /\ probation = [c \in Clients |-> 0]
  /\ suspended = [c \in Clients |-> 0]
  /\ lapsed = {}
  /\ orders = 0
  /\ failures = <<>>
  /\ promised = [l \in Lists |-> [c \in Clients |-> 0]]

Goes(k, there) == conn' = [conn EXCEPT ![k].pc = there]
Ends(k) == conn' = [conn EXCEPT ![k] = NoRequest]

\* The failures of a source inside the window, and those that were tracked.
FailuresOf(s) == {i \in DOMAIN failures : failures[i].source = s}
TrackedOf(s) == {i \in FailuresOf(s) : failures[i].tracked}

\* The failures a tick later, without the ones that lapse: the oldest.
FailuresAged ==
  LET gone == {i \in DOMAIN failures : failures[i].age + 1 >= AuthWindow}
      first == Cardinality(gone)
  IN [i \in 1 .. Len(failures) - first |->
        [source |-> failures[i + first].source,
         tracked |-> failures[i + first].tracked,
         age |-> failures[i + first].age + 1]]

\* A request arrives.  barred notes the lists its client is suspended on.
Arrive(k) ==
  /\ conn[k].pc = "idle" /\ Authenticated(k)
  /\ Cardinality(FailuresOf(Peer[k].cert)) < MaxRecent
  /\ \E m \in Asks[k] :
       conn' = [conn EXCEPT ![k] =
                 [pc |-> "arrived", model |-> m,
                  barred |-> {l \in Lists : promised[l][Peer[k].client] > 0}]]
  /\ UNCHANGED <<detector, registry, ghosts>>

\* is_ip_blocked: a blocked source is refused and nothing is recorded.
\* Mutation: the refusal of a blocked source counts as one more failure.
IsIpBlockedCounted(k) ==
  /\ conn[k].pc = "arrived"
  /\ Goes(k, IF blocked[Peer[k].cert] > 0 THEN "failing" ELSE "unblocked")
  /\ UNCHANGED <<detector, registry, ghosts>>

IsIpBlocked(k) ==
  /\ conn[k].pc = "arrived"
  /\ IF blocked[Peer[k].cert] > 0 THEN Ends(k) ELSE Goes(k, "unblocked")
  /\ UNCHANGED <<detector, registry, ghosts>>

\* IdentityRegistry::verify.
Verify(k) ==
  /\ conn[k].pc = "unblocked"
  /\ Goes(k, IF Verifies(k) THEN "verified" ELSE "failing")
  /\ UNCHANGED <<detector, registry, ghosts>>

\* record_auth_failure: the source's counter, if the table has room, and the
\* global one; at the threshold the source is blocked.
\* Mutation: the global count decides.
BlocksOnGlobal(c) == Total(global) + 1 >= AuthThreshold

Blocks(c) == Total(c) >= AuthThreshold

RecordAuthFailure(k) ==
  LET s == Peer[k].cert
      rec == Record(auth, s)
  IN /\ conn[k].pc = "failing"
     /\ Ends(k)
     /\ auth' = rec.table
     /\ global' = Incremented(global)
     /\ blocked' = [blocked EXCEPT ![s] =
                      IF rec.tracked /\ Blocks(rec.table.counters[s])
                      THEN BlockFor ELSE @]
     /\ failures' = Append(failures, [source |-> s, tracked |-> rec.tracked,
                                      age |-> 0])
     /\ UNCHANGED <<probes, covert, probation, registry, promised>>

\* is_client_suspended: the detector's own suspensions.
IsClientSuspended(k) ==
  /\ conn[k].pc = "verified"
  /\ IF probation[Peer[k].client] > 0 THEN Ends(k) ELSE Goes(k, "trusted")
  /\ UNCHANGED <<detector, registry, ghosts>>

\* model_permitted, and record_invalid_model for a request that fails it.
CheckModel(k) ==
  LET c == Peer[k].client
      rec == Record(probes, c)
      caught == rec.tracked
                  /\ Total(rec.table.counters[c]) >= ProbeThreshold
  IN /\ conn[k].pc = "trusted"
     /\ \/ /\ ModelPermitted(k)
           /\ Goes(k, "admitted")
           /\ UNCHANGED <<detector, ghosts>>
        \/ /\ ~ModelPermitted(k)
           /\ Ends(k)
           /\ probes' = rec.table
           /\ probation' = IF caught THEN [probation EXCEPT ![c] = BlockFor]
                           ELSE probation
           /\ IF caught THEN Promise("detector", c, BlockFor) ELSE UNCHANGED promised
           /\ UNCHANGED <<auth, global, covert, blocked, failures>>
     /\ UNCHANGED registry

\* The request is refused by a later gate, or its run fails.
TurnedAway(k) ==
  /\ conn[k].pc = "admitted" /\ Ends(k)
  /\ UNCHANGED <<detector, registry, ghosts>>

\* The answer is analysed; record_covert_channel_score if it stands out.
Answer(k) ==
  LET c == Peer[k].client
  IN /\ conn[k].pc = "admitted"
     /\ Ends(k)
     /\ \E t \in Texts :
          IF AnomalyScore(t) < CovertScoreThreshold
          THEN UNCHANGED <<detector, ghosts>>
          ELSE LET counter == Incremented(covert[c])
                   caught == Total(counter) >= CovertThreshold
               IN /\ covert' = [covert EXCEPT ![c] = counter]
                  /\ probation' = IF caught
                                  THEN [probation EXCEPT ![c] = BlockFor]
                                  ELSE probation
                  /\ IF caught THEN Promise("detector", c, BlockFor)
                     ELSE UNCHANGED promised
                  /\ UNCHANGED <<auth, global, probes, blocked, failures>>
     /\ UNCHANGED registry

\* admin_suspend_client, with the operator's signature.
AdminSuspend(k) ==
  /\ conn[k].pc = "idle" /\ Authenticated(k) /\ MayAdminister(k)
  /\ orders < MaxSuspensions
  /\ \E c \in Targets, d \in SuspendFor :
       suspended' = SuspensionAfter(c, d) /\ Promise("registry", c, d)
  /\ orders' = orders + 1
  /\ UNCHANGED <<conn, detector, lapsed, failures>>

\* A certificate or a policy passes its expiry.
Lapse ==
  /\ \E x \in MayLapse \ lapsed : lapsed' = lapsed \cup {x}
  /\ UNCHANGED <<conn, detector, suspended, orders, ghosts>>

\* The node's timer: AttackDetector::cleanup.  What it drops of the blocks and
\* the suspensions has no time left.
Cleanup ==
  /\ auth' = PruneLapsed(auth)
  /\ probes' = PruneLapsed(probes)
  /\ covert' = [c \in Clients |-> Pruned(covert[c])]
  /\ global' = Pruned(global)
  /\ UNCHANGED <<conn, blocked, probation, registry, ghosts>>

Elapsed(left) == [x \in DOMAIN left |-> Max({left[x] - 1, 0})]

Tick ==
  /\ auth' = TableAged(auth) /\ probes' = TableAged(probes)
  /\ covert' = [c \in Clients |-> Aged(covert[c])]
  /\ global' = Aged(global)
  /\ blocked' = Elapsed(blocked)
  /\ probation' = Elapsed(probation)
  /\ suspended' = Elapsed(suspended)
  /\ promised' = [l \in Lists |-> Elapsed(promised[l])]
  /\ failures' = FailuresAged
  /\ conn' = [k \in Conns |->
                [conn[k] EXCEPT !.barred =
                   {l \in conn[k].barred : promised'[l][Peer[k].client] > 0}]]
  /\ UNCHANGED <<lapsed, orders>>

Gates(k) ==
  \/ IsIpBlocked(k) \/ Verify(k) \/ RecordAuthFailure(k)
  \/ IsClientSuspended(k) \/ CheckModel(k)

Next ==
  \/ \E k \in Conns : Arrive(k) \/ Gates(k) \/ TurnedAway(k) \/ Answer(k)
                        \/ AdminSuspend(k)
  \/ Lapse \/ Cleanup \/ Tick

Spec == Init /\ [][Next]_vars

\* The connections of clients in good standing.
Sound == {k \in Conns :
  /\ Authenticated(k) /\ Asks[k] # {} /\ Peer[k].client \in Enrolled
  /\ LET p == PolicyOf(Peer[k].client)
     IN /\ p.active /\ (p.pins = {} \/ Peer[k].cert \in p.pins)
        /\ p.models = {} \/ Asks[k] \subseteq p.models
  /\ {Peer[k].client, Peer[k].cert} \cap MayLapse = {}}

\* Time goes on; a client in good standing keeps trying, and its requests are
\* carried through.  Nothing is assumed of the other connections.
FairSpec ==
  /\ Spec
  /\ WF_vars(Tick)
  /\ \A k \in Sound : WF_vars(Arrive(k) \/ Gates(k) \/ Answer(k))

-----------------------------------------------------------------------------
Counter(window) ==
  [events : Seq(0 .. window), sat : Nat,
   window : {window}]
Table(keys, window) ==
  [counters : [keys -> Counter(window)], swept : 0 .. SweepInterval]

\* Every variable has its type, and no table holds more keys than its
\* capacity (the bound the header of attack_detector.rs promises).
TypeOK ==
  /\ conn \in [Conns -> [pc : {"idle", "arrived", "unblocked", "failing",
                               "verified", "trusted", "admitted"},
                         model : {"none"} \cup UNION Range(Asks),
                         barred : SUBSET Lists]]
  /\ auth \in Table(Sources, AuthWindow)
  /\ probes \in Table(Clients, ProbeWindow)
  /\ global \in Counter(AuthWindow)
  /\ covert \in [Clients -> Counter(CovertWindow)]
  /\ blocked \in [Sources -> 0 .. BlockFor]
  /\ probation \in [Clients -> 0 .. BlockFor]
  /\ suspended \in [Clients -> Nat]
  /\ promised \in [Lists -> [Clients -> Nat]]
  /\ failures \in Seq([source : Sources, tracked : BOOLEAN,
                       age : 0 .. AuthWindow - 1])
  /\ \A t \in {auth, probes} : Cardinality(Keys(t)) <= MaxKeys

\* A source whose tracked failures inside one window have reached the
\* threshold is blocked, however sweeps, the timer and other requests of the
\* source interleave with the counting (record_auth_failure, prune_lapsed).
FloodIsBlocked ==
  \A s \in Sources :
    Cardinality(TrackedOf(s)) >= AuthThreshold => blocked[s] > 0

\* Nobody is blocked for the failures of others: a block is set or renewed
\* only for a source with as many failures of its own inside the window.
BlockedForCause ==
  [][\A s \in Sources :
       blocked'[s] > blocked[s]
         => Cardinality(FailuresOf(s)') >= AuthThreshold]_vars

\* A suspension holds for the time that was promised, by the administrator or
\* by the detector: a request that arrives during it is not admitted while it
\* lasts, whatever is ordered or detected in between.
SuspensionHolds ==
  \A k \in Conns : conn[k].pc = "admitted" => conn[k].barred = {}

\* A client in good standing that keeps trying gets in again: its retries
\* during a suspension get its certificate blocked, but do not renew the
\* block for ever.
RetrierGetsIn == \A k \in Sound : []<>(conn[k].pc = "admitted")

===============================================================================
