--------------------------- MODULE AdmissionProofs ---------------------------
(***************************************************************************)
(* What is proved of the gates of admit, for any connections, policies,    *)
(* windows, thresholds and capacities: the tables of the attack detector   *)
(* stay within their capacity, nobody is admitted during a suspension, a   *)
(* flood of failures is blocked and counted, and nobody is blocked for the *)
(* failures of others.                                                     *)
(***************************************************************************)
EXTENDS Admission, FiniteSetTheorems, TLAPS

-----------------------------------------------------------------------------
(* Window counters *)

\* The windows, capacities and deadlines the operators are used with.
LEMMA Positive ==
  /\ AuthWindow \in Nat \ {0} /\ ProbeWindow \in Nat \ {0}
  /\ CovertWindow \in Nat \ {0} /\ BlockFor \in Nat \ {0}
  /\ MaxKeys \in Nat \ {0} /\ MaxEvents \in Nat \ {0}
  /\ SweepInterval \in Nat \ {0}
BY AdmissionAssumption

\* A longer deadline never loses to a shorter one.
LEMMA MaxOfTwo ==
  ASSUME NEW a \in Nat, NEW b \in Nat
  PROVE  Max({a, b}) = IF a >= b THEN a ELSE b
<1> DEFINE m == IF a >= b THEN a ELSE b
<1>1. m \in {a, b} /\ \A y \in {a, b} : m >= y
  OBVIOUS
<1>2. \A x \in {a, b} : (\A y \in {a, b} : x >= y) => x = m
  OBVIOUS
<1> QED
  BY <1>1, <1>2 DEF Max

\* Elapsed takes one tick off a deadline, and stops at zero.
LEMMA ElapsedDeadline ==
  ASSUME NEW n \in Nat
  PROVE  /\ Max({n - 1, 0}) = IF n = 0 THEN 0 ELSE n - 1
         /\ Max({n - 1, 0}) \in Nat /\ Max({n - 1, 0}) <= n
<1>1. CASE n = 0
  <2>1. -1 \in {-1, 0} /\ 0 \in {-1, 0}
    OBVIOUS
  <2>2. \A x \in {-1, 0} : (\A y \in {-1, 0} : x >= y) => x = 0
    OBVIOUS
  <2>3. \A y \in {-1, 0} : 0 >= y
    OBVIOUS
  <2>4. Max({-1, 0}) = 0
    BY <2>1, <2>2, <2>3 DEF Max
  <2>5. n - 1 = -1
    BY <1>1
  <2> QED
    BY <1>1, <2>4, <2>5
<1>2. CASE n # 0
  <2>1. n - 1 \in Nat
    BY <1>2
  <2> QED
    BY <1>2, <2>1, MaxOfTwo
<1> QED
  BY <1>1, <1>2

\* prune keeps a counter a counter, and an empty one empty.
LEMMA PrunedCounter ==
  ASSUME NEW w \in Nat \ {0}, NEW c \in Counter(w)
  PROVE  /\ Pruned(c) \in Counter(w)
         /\ c.events = <<>> => Pruned(c).events = <<>>
<1> DEFINE gone == {i \in DOMAIN c.events : c.events[i] >= c.window}
           live == SubSeq(c.events, FirstLive(c), Len(c.events))
<1>1. /\ c.events \in Seq(0 .. w) /\ c.sat \in Nat /\ c.window = w
      /\ Len(c.events) \in Nat /\ DOMAIN c.events = 1 .. Len(c.events)
  BY DEF Counter
<1>2. IsFiniteSet(gone) /\ Cardinality(gone) \in Nat
  <2>1. IsFiniteSet(1 .. Len(c.events))
    <3>1. 1 \in Int /\ Len(c.events) \in Int
      BY <1>1
    <3> QED
      BY <3>1, FS_Interval, Zenon
  <2>2. gone \in SUBSET (1 .. Len(c.events))
    BY <1>1
  <2>3. IsFiniteSet(gone)
    BY <2>1, <2>2, FS_Subset
  <2> QED
    BY <2>3, FS_CardinalityType
<1>3. FirstLive(c) \in Nat /\ FirstLive(c) >= 1
  BY <1>2 DEF FirstLive
<1>4. live \in Seq(0 .. w)
  BY <1>1, <1>3
<1>5. Pruned(c) \in Counter(w)
  BY <1>1, <1>4 DEF Pruned, Counter
<1>6. c.events = <<>> => Pruned(c).events = <<>>
  BY <1>1, <1>3 DEF Pruned, Counter
<1> QED
  BY <1>5, <1>6

\* increment leaves a counter with at least one event.
LEMMA IncrementedCounter ==
  ASSUME NEW w \in Nat \ {0}, NEW c \in Counter(w)
  PROVE  Incremented(c) \in Counter(w) /\ Incremented(c).events # <<>>
<1> DEFINE p == Pruned(c)
<1>1. p \in Counter(w)
  BY PrunedCounter
<1> HIDE DEF p
<1>2. Incremented(c) = IF Len(p.events) >= MaxEvents
                       THEN [p EXCEPT !.sat = @ + 1]
                       ELSE [p EXCEPT !.events = Append(@, 0)]
  BY DEF Incremented, p
<1>3. p.events \in Seq(0 .. w) /\ Len(p.events) \in Nat /\ p.sat \in Nat
  BY <1>1 DEF Counter
<1>4. CASE Len(p.events) >= MaxEvents
  <2>1. [p EXCEPT !.sat = @ + 1] \in Counter(w)
    BY <1>1, <1>3 DEF Counter
  <2>2. p.events # <<>>
    BY <1>3, <1>4, Positive
  <2>3. [p EXCEPT !.sat = @ + 1].events = p.events
    BY <1>1 DEF Counter
  <2> QED
    BY <1>2, <1>4, <2>1, <2>2, <2>3
<1>5. CASE ~(Len(p.events) >= MaxEvents)
  <2>1. Append(p.events, 0) \in Seq(0 .. w) /\ Append(p.events, 0) # <<>>
    BY <1>3
  <2> QED
    BY <1>1, <1>2, <1>5, <2>1 DEF Counter
<1> QED
  BY <1>4, <1>5

\* Time passes over a counter without adding or dropping an event.
LEMMA AgedCounter ==
  ASSUME NEW w \in Nat \ {0}, NEW c \in Counter(w)
  PROVE  /\ Aged(c) \in Counter(w)
         /\ c.events = <<>> => Aged(c).events = <<>>
<1> DEFINE n == Len(c.events)
           aged == [i \in DOMAIN c.events |->
                      IF c.events[i] < c.window THEN c.events[i] + 1
                      ELSE c.window]
<1>1. /\ c.events \in Seq(0 .. w) /\ c.window = w
      /\ n \in Nat /\ DOMAIN c.events = 1 .. n
      /\ \A i \in 1 .. n : c.events[i] \in 0 .. w
  BY DEF Counter
<1>2. aged \in [1 .. n -> 0 .. w]
  BY <1>1
<1>3. aged \in Seq(0 .. w) /\ Len(aged) = n
  BY <1>1, <1>2
<1>4. Aged(c) = [c EXCEPT !.events = aged]
  BY DEF Aged
<1> HIDE DEF aged
<1>5. Aged(c) \in Counter(w) /\ Aged(c).events = aged
  BY <1>3, <1>4 DEF Counter
<1> QED
  BY <1>1, <1>3, <1>5
-----------------------------------------------------------------------------
(* Tables of counters *)

\* A table of counters with the window w that is within its capacity.
Bounded(t, keys, w) ==
  /\ t \in Table(keys, w)
  /\ IsFiniteSet(Keys(t)) /\ Cardinality(Keys(t)) <= MaxKeys

\* What a table holds, by its type.
LEMMA TableParts ==
  ASSUME NEW keys, NEW w \in Nat \ {0}, NEW t \in Table(keys, w)
  PROVE  /\ DOMAIN t.counters = keys
         /\ \A k \in keys : t.counters[k] \in Counter(w)
         /\ t.swept \in 0 .. SweepInterval
BY DEF Table

\* A new counter is one no table holds.
LEMMA NewCounterTyped ==
  ASSUME NEW w \in Nat \ {0}
  PROVE  NewCounter(w) \in Counter(w) /\ NewCounter(w).events = <<>>
BY DEF NewCounter, Counter

\* A set of keys that loses members keeps to the capacity.
LEMMA FewerKeys ==
  ASSUME NEW S, NEW T, IsFiniteSet(S), Cardinality(S) <= MaxKeys,
         T \subseteq S
  PROVE  IsFiniteSet(T) /\ Cardinality(T) <= MaxKeys
<1>1. /\ IsFiniteSet(T) /\ Cardinality(T) <= Cardinality(S)
  BY FS_Subset
<1>2. Cardinality(T) \in Nat /\ Cardinality(S) \in Nat
  BY <1>1, FS_CardinalityType
<1> QED
  BY <1>1, <1>2, Positive

\* The tables start empty.
LEMMA NewTableBounded ==
  ASSUME NEW keys, NEW w \in Nat \ {0}
  PROVE  Bounded(NewTable(keys, w), keys, w)
<1>1. NewTable(keys, w) \in Table(keys, w)
  BY NewCounterTyped, Positive DEF NewTable, Table
<1>2. Keys(NewTable(keys, w)) = {}
  BY NewCounterTyped DEF Keys, NewTable
<1> QED
  BY <1>1, <1>2, FS_EmptySet, Positive DEF Bounded

\* A sweep, like the timer's cleanup, only lets keys go.
LEMMA PruneLapsedBounded ==
  ASSUME NEW keys, NEW w \in Nat \ {0}, NEW t, Bounded(t, keys, w)
  PROVE  Bounded(PruneLapsed(t), keys, w)
<1> DEFINE new == PruneLapsed(t)
<1>1. /\ DOMAIN t.counters = keys
      /\ \A k \in keys : t.counters[k] \in Counter(w)
  BY TableParts DEF Bounded
<1>2. \A k \in keys : t.counters[k].window = w
  BY <1>1 DEF Counter
<1>3. \A k \in keys :
        /\ Pruned(t.counters[k]) \in Counter(w)
        /\ t.counters[k].events = <<>> => Pruned(t.counters[k]).events = <<>>
  BY <1>1, PrunedCounter
<1>4. \A k \in keys : /\ NewCounter(t.counters[k].window) \in Counter(w)
                      /\ NewCounter(t.counters[k].window).events = <<>>
  BY <1>2, NewCounterTyped
<1>5. /\ DOMAIN new.counters = keys /\ new.swept = 0
      /\ new = [counters |-> new.counters, swept |-> new.swept]
      /\ \A k \in keys : \/ new.counters[k] = Pruned(t.counters[k])
                         \/ new.counters[k] = NewCounter(t.counters[k].window)
      /\ new.counters = [k \in keys |-> new.counters[k]]
  BY <1>1 DEF PruneLapsed
<1> HIDE DEF new
<1>6. \A k \in keys :
        /\ new.counters[k] \in Counter(w)
        /\ t.counters[k].events = <<>> => new.counters[k].events = <<>>
  BY <1>3, <1>4, <1>5
<1>7. new.counters \in [keys -> Counter(w)]
  BY <1>5, <1>6
<1>8. new \in Table(keys, w)
  BY <1>5, <1>7, Positive DEF Table
<1>9. Keys(new) \subseteq Keys(t)
  BY <1>1, <1>5, <1>6 DEF Keys
<1>10. IsFiniteSet(Keys(new)) /\ Cardinality(Keys(new)) <= MaxKeys
  BY <1>9, FewerKeys DEF Bounded
<1> QED
  BY <1>8, <1>10 DEF Bounded, new

\* Time passing over a table leaves its keys as they are.
LEMMA TableAgedBounded ==
  ASSUME NEW keys, NEW w \in Nat \ {0}, NEW t, Bounded(t, keys, w)
  PROVE  Bounded(TableAged(t), keys, w)
<1> DEFINE new == TableAged(t)
<1>1. /\ DOMAIN t.counters = keys /\ t.swept \in 0 .. SweepInterval
      /\ \A k \in keys : t.counters[k] \in Counter(w)
  BY TableParts DEF Bounded
<1>2. \A k \in keys :
        /\ Aged(t.counters[k]) \in Counter(w)
        /\ t.counters[k].events = <<>> => Aged(t.counters[k]).events = <<>>
  BY <1>1, AgedCounter
<1>3. Min({t.swept + 1, SweepInterval}) \in 0 .. SweepInterval
  <2> DEFINE a == t.swept + 1
             b == SweepInterval
             m == IF a <= b THEN a ELSE b
  <2>1. a \in Nat /\ b \in Nat
    BY <1>1, Positive
  <2> HIDE DEF a, b
  <2>2. m \in {a, b} /\ \A y \in {a, b} : m <= y
    BY <2>1
  <2>3. \A x \in {a, b} : (\A y \in {a, b} : x <= y) => x = m
    BY <2>1
  <2>4. Min({a, b}) = m
    BY <2>2, <2>3 DEF Min
  <2> QED
    BY <2>1, <2>4 DEF a, b
<1>4. /\ new = [counters |-> new.counters, swept |-> new.swept]
      /\ new.swept \in 0 .. SweepInterval
      /\ new.counters = [k \in keys |-> Aged(t.counters[k])]
  BY <1>1, <1>3 DEF TableAged
<1> HIDE DEF new
<1>5. new.counters \in [keys -> Counter(w)]
  BY <1>2, <1>4
<1>6. new \in Table(keys, w)
  BY <1>4, <1>5 DEF Table
<1>7. Keys(new) \subseteq Keys(t)
  BY <1>1, <1>2, <1>4 DEF Keys
<1>8. IsFiniteSet(Keys(new)) /\ Cardinality(Keys(new)) <= MaxKeys
  BY <1>7, FewerKeys DEF Bounded
<1> QED
  BY <1>6, <1>8 DEF Bounded, new

\* record, with its sweep: a key enters only a table with room for it.
LEMMA RecordBounded ==
  ASSUME NEW keys, NEW w \in Nat \ {0}, NEW t, Bounded(t, keys, w),
         NEW key \in keys
  PROVE  Bounded(Record(t, key).table, keys, w)
<1> DEFINE room == IF key \notin Keys(t) /\ Full(t) THEN SweepIfDue(t) ELSE t
           tracked == key \in Keys(room) \/ ~Full(room)
           new == [room EXCEPT !.counters[key] = Incremented(@)]
<1>1. Bounded(room, keys, w)
  BY PruneLapsedBounded DEF SweepIfDue
<1>2. Record(t, key).table = IF tracked THEN new ELSE room
  BY DEF Record
<1> HIDE DEF room
<1>3. /\ DOMAIN room.counters = keys /\ room \in Table(keys, w)
      /\ \A k \in keys : room.counters[k] \in Counter(w)
  BY <1>1, TableParts DEF Bounded
<1>4. Incremented(room.counters[key]) \in Counter(w)
  BY <1>3, IncrementedCounter
<1>5. ASSUME tracked
      PROVE  Bounded(new, keys, w)
  <2>1. /\ new \in Table(keys, w) /\ DOMAIN new.counters = keys
        /\ \A k \in keys : k # key => new.counters[k] = room.counters[k]
    BY <1>3, <1>4 DEF Table
  <2> HIDE DEF new
  <2>2. Keys(new) \subseteq Keys(room) \cup {key}
    BY <1>3, <2>1 DEF Keys
  <2>3. IsFiniteSet(Keys(room)) /\ Cardinality(Keys(room)) <= MaxKeys
    BY <1>1 DEF Bounded
  <2>4. CASE key \in Keys(room)
    <3>1. Keys(new) \subseteq Keys(room)
      BY <2>2, <2>4
    <3> QED
      BY <2>1, <2>3, <3>1, FewerKeys DEF Bounded
  <2>5. CASE key \notin Keys(room)
    <3>1. Cardinality(Keys(room)) \in Nat /\ Cardinality(Keys(room)) < MaxKeys
      BY <1>5, <2>3, <2>5, FS_CardinalityType, Positive DEF Full
    <3>2. /\ IsFiniteSet(Keys(room) \cup {key})
          /\ Cardinality(Keys(room) \cup {key}) = Cardinality(Keys(room)) + 1
      BY <2>3, <2>5, FS_AddElement
    <3>3. Cardinality(Keys(room) \cup {key}) <= MaxKeys
      BY <3>1, <3>2, Positive
    <3> QED
      BY <2>1, <2>2, <3>2, <3>3, FewerKeys DEF Bounded
  <2> QED
    BY <2>4, <2>5
<1> QED
  BY <1>1, <1>2, <1>5

-----------------------------------------------------------------------------
(* The inductive invariant *)

ConnRecords ==
  [pc : {"idle", "arrived", "unblocked", "failing", "verified", "trusted",
         "admitted"},
   model : {"none"} \cup UNION Range(Asks),
   barred : SUBSET Lists]

\* The counters, the tables and the blocks.
CountersTyped ==
  /\ Bounded(auth, Sources, AuthWindow)
  /\ Bounded(probes, Clients, ProbeWindow)
  /\ global \in Counter(AuthWindow)
  /\ covert \in [Clients -> Counter(CovertWindow)]
  /\ blocked \in [Sources -> 0 .. BlockFor]

\* The connections and the two lists of suspensions.
ListsTyped ==
  /\ conn \in [Conns -> ConnRecords]
  /\ probation \in [Clients -> 0 .. BlockFor]
  /\ suspended \in [Clients -> Nat]
  /\ promised \in [Lists -> [Clients -> Nat]]

\* A list holds every suspension for exactly as long as the longest that was
\* promised.
ListsKeepPromises ==
  promised["registry"] = suspended /\ promised["detector"] = probation

\* The lists a request is barred by still hold its client; the gates it has
\* passed are those of lists that do not bar it.
Barred(k) ==
  /\ \A l \in conn[k].barred : promised[l][Peer[k].client] > 0
  /\ conn[k].pc \in {"verified", "trusted", "admitted"} =>
       "registry" \notin conn[k].barred
  /\ conn[k].pc \in {"trusted", "admitted"} =>
       "detector" \notin conn[k].barred

AdmissionInv ==
  /\ CountersTyped /\ ListsTyped /\ ListsKeepPromises
  /\ \A k \in Conns : Barred(k)

\* A connection's certificate and client are among those that are tracked.
LEMMA PeersKnown ==
  \A k \in Conns : Peer[k].cert \in Sources /\ Peer[k].client \in Clients
BY DEF Sources, Clients

\* The steps of one request: other requests keep what they have when no
\* suspension is shortened.
LEMMA OthersStay ==
  ASSUME AdmissionInv, NEW k \in Conns, NEW r \in ConnRecords,
         conn' = [conn EXCEPT ![k] = r],
         \A l \in Lists, c \in Clients : promised'[l][c] >= promised[l][c],
         promised' \in [Lists -> [Clients -> Nat]],
         Barred(k)'
  PROVE  conn' \in [Conns -> ConnRecords] /\ \A q \in Conns : Barred(q)'
<1>1. conn' \in [Conns -> ConnRecords]
  BY DEF AdmissionInv, ListsTyped
<1>2. ASSUME NEW q \in Conns, q # k
      PROVE  Barred(q)'
  <2>1. conn'[q] = conn[q] /\ conn[q].barred \subseteq Lists
    BY <1>2 DEF AdmissionInv, ListsTyped, ConnRecords
  <2>2. \A l \in Lists : /\ promised[l][Peer[q].client] \in Nat
                         /\ promised'[l][Peer[q].client] \in Nat
                         /\ promised'[l][Peer[q].client]
                              >= promised[l][Peer[q].client]
    BY PeersKnown DEF AdmissionInv, ListsTyped
  <2>3. \A l \in conn[q].barred : promised'[l][Peer[q].client] > 0
    BY <2>1, <2>2 DEF AdmissionInv, Barred
  <2> QED
    BY <2>1, <2>3 DEF AdmissionInv, Barred
<1> QED
  BY <1>1, <1>2

\* A request that ends is barred by nothing.
LEMMA EndedRequest ==
  ASSUME AdmissionInv, NEW k \in Conns, Ends(k),
         \A l \in Lists, c \in Clients : promised'[l][c] >= promised[l][c],
         promised' \in [Lists -> [Clients -> Nat]]
  PROVE  conn' \in [Conns -> ConnRecords] /\ \A q \in Conns : Barred(q)'
<1>1. NoRequest \in ConnRecords
  BY DEF NoRequest, ConnRecords
<1>2. conn' = [conn EXCEPT ![k] = NoRequest] /\ conn'[k] = NoRequest
  BY DEF Ends, AdmissionInv, ListsTyped
<1>3. NoRequest.barred = {}
  BY DEF NoRequest
<1>4. Barred(k)'
  BY <1>2, <1>3 DEF Barred
<1> QED
  BY <1>1, <1>2, <1>4, OthersStay

\* A request that goes past a gate that reads a list is not barred by it.
LEMMA PassedGate ==
  ASSUME AdmissionInv, NEW k \in Conns, UNCHANGED promised,
         NEW there \in {"unblocked", "failing", "verified", "trusted",
                        "admitted"},
         Goes(k, there),
         there \in {"verified", "trusted", "admitted"} =>
           "registry" \notin conn[k].barred,
         there \in {"trusted", "admitted"} => "detector" \notin conn[k].barred
  PROVE  conn' \in [Conns -> ConnRecords] /\ \A q \in Conns : Barred(q)'
<1> DEFINE r == [conn[k] EXCEPT !.pc = there]
<1>1. conn[k] \in ConnRecords
  BY DEF AdmissionInv, ListsTyped
<1>2. r \in ConnRecords /\ r.pc = there /\ r.barred = conn[k].barred
  BY <1>1 DEF ConnRecords
<1>3. conn' = [conn EXCEPT ![k] = r] /\ conn'[k] = r
  BY DEF Goes, AdmissionInv, ListsTyped
<1> HIDE DEF r
<1>4. Barred(k)'
  BY <1>2, <1>3 DEF AdmissionInv, Barred
<1>5. /\ promised' \in [Lists -> [Clients -> Nat]]
      /\ \A l \in Lists, c \in Clients : promised'[l][c] >= promised[l][c]
  BY DEF AdmissionInv, ListsTyped
<1> QED
  BY <1>2, <1>3, <1>4, <1>5, OthersStay

\* A list that bars a request has a client with time left on it.
LEMMA BarredByRegistry ==
  ASSUME AdmissionInv, NEW k \in Conns
  PROVE  /\ suspended[Peer[k].client] = 0 => "registry" \notin conn[k].barred
         /\ probation[Peer[k].client] = 0 => "detector" \notin conn[k].barred
BY DEF AdmissionInv, ListsKeepPromises, Barred

-----------------------------------------------------------------------------
(* Counters, tables and blocks *)

\* Every operation of the detector keeps its counters and its capacity.
LEMMA CountersNext ==
  ASSUME AdmissionInv, [Next]_vars
  PROVE  CountersTyped'
<1> USE Positive
<1>0. CountersTyped
  BY DEF AdmissionInv
<1>1. ASSUME UNCHANGED <<auth, global, probes, covert, blocked>>
      PROVE  CountersTyped'
  BY <1>0, <1>1 DEF CountersTyped, Bounded
<1>2. ASSUME NEW k \in Conns, RecordAuthFailure(k)
      PROVE  CountersTyped'
  <2>1. Peer[k].cert \in Sources
    BY PeersKnown
  <2>2. /\ auth' = Record(auth, Peer[k].cert).table
        /\ global' = Incremented(global)
        /\ UNCHANGED <<probes, covert>>
    BY <1>2 DEF RecordAuthFailure
  <2>3. blocked' \in [Sources -> 0 .. BlockFor]
    BY <1>0, <1>2, <2>1 DEF RecordAuthFailure, CountersTyped
  <2>4. Bounded(auth', Sources, AuthWindow)
    BY <1>0, <2>1, <2>2, RecordBounded DEF CountersTyped
  <2>5. global' \in Counter(AuthWindow)
    BY <1>0, <2>2, IncrementedCounter DEF CountersTyped
  <2> QED
    BY <1>0, <2>2, <2>3, <2>4, <2>5 DEF CountersTyped, Bounded
<1>3. ASSUME NEW k \in Conns, CheckModel(k)
      PROVE  CountersTyped'
  <2>1. Peer[k].client \in Clients
    BY PeersKnown
  <2>2. \/ UNCHANGED detector
        \/ /\ probes' = Record(probes, Peer[k].client).table
           /\ UNCHANGED <<auth, global, covert, blocked>>
    BY <1>3 DEF CheckModel
  <2>3. Bounded(Record(probes, Peer[k].client).table, Clients, ProbeWindow)
    BY <1>0, <2>1, RecordBounded DEF CountersTyped
  <2> QED
    BY <1>0, <1>1, <2>2, <2>3 DEF CountersTyped, Bounded, detector
<1>4. ASSUME NEW k \in Conns, Answer(k)
      PROVE  CountersTyped'
  <2>1. Peer[k].client \in Clients
    BY PeersKnown
  <2>2. \/ UNCHANGED detector
        \/ /\ covert' = [covert EXCEPT ![Peer[k].client] =
                           Incremented(covert[Peer[k].client])]
           /\ UNCHANGED <<auth, global, probes, blocked>>
    BY <1>4 DEF Answer
  <2>3. Incremented(covert[Peer[k].client]) \in Counter(CovertWindow)
    BY <1>0, <2>1, IncrementedCounter DEF CountersTyped
  <2> QED
    BY <1>0, <1>1, <2>2, <2>3 DEF CountersTyped, Bounded, detector
<1>5. CASE Cleanup
  <2>1. /\ Bounded(auth', Sources, AuthWindow)
        /\ Bounded(probes', Clients, ProbeWindow)
    BY <1>0, <1>5, PruneLapsedBounded DEF Cleanup, CountersTyped
  <2>2. \A c \in Clients : Pruned(covert[c]) \in Counter(CovertWindow)
    BY <1>0, PrunedCounter DEF CountersTyped
  <2>3. global' \in Counter(AuthWindow)
    BY <1>0, <1>5, PrunedCounter DEF Cleanup, CountersTyped
  <2> QED
    BY <1>0, <1>5, <2>1, <2>2, <2>3 DEF Cleanup, CountersTyped, Bounded
<1>6. CASE Tick
  <2>1. /\ Bounded(auth', Sources, AuthWindow)
        /\ Bounded(probes', Clients, ProbeWindow)
    BY <1>0, <1>6, TableAgedBounded DEF Tick, CountersTyped
  <2>2. \A c \in Clients : Aged(covert[c]) \in Counter(CovertWindow)
    BY <1>0, AgedCounter DEF CountersTyped
  <2>3. global' \in Counter(AuthWindow)
    BY <1>0, <1>6, AgedCounter DEF Tick, CountersTyped
  <2>4. blocked' \in [Sources -> 0 .. BlockFor]
    <3>1. \A x \in Sources : Max({blocked[x] - 1, 0}) \in 0 .. BlockFor
      BY <1>0, ElapsedDeadline DEF CountersTyped
    <3>2. blocked' = [x \in Sources |-> Max({blocked[x] - 1, 0})]
      BY <1>0, <1>6 DEF Tick, Elapsed, CountersTyped
    <3> QED
      BY <3>1, <3>2
  <2>5. covert' \in [Clients -> Counter(CovertWindow)]
    BY <1>6, <2>2 DEF Tick
  <2> QED
    BY <2>1, <2>3, <2>4, <2>5 DEF CountersTyped, Bounded
<1>7. ASSUME NEW k \in Conns,
             \/ Arrive(k) \/ IsIpBlocked(k) \/ Verify(k)
             \/ IsClientSuspended(k) \/ TurnedAway(k) \/ AdminSuspend(k)
      PROVE  CountersTyped'
  BY <1>1, <1>7 DEF Arrive, IsIpBlocked, Verify, IsClientSuspended,
                    TurnedAway, AdminSuspend, detector
<1>8. CASE Lapse \/ UNCHANGED vars
  BY <1>1, <1>8 DEF Lapse, vars, detector
<1> QED
  BY <1>2, <1>3, <1>4, <1>5, <1>6, <1>7, <1>8 DEF Next, Gates

-----------------------------------------------------------------------------
(* Suspensions *)

\* A promise never shortens another, and the list it is of keeps the longest.
LEMMA PromiseGrows ==
  ASSUME AdmissionInv, NEW list \in Lists, NEW c \in Clients, NEW d \in Nat,
         Promise(list, c, d)
  PROVE  /\ promised' \in [Lists -> [Clients -> Nat]]
         /\ \A l \in Lists, x \in Clients : promised'[l][x] >= promised[l][x]
         /\ \A l \in Lists : l # list => promised'[l] = promised[l]
         /\ promised'[list] = [promised[list] EXCEPT ![c] =
                                 IF promised[list][c] >= d
                                 THEN promised[list][c] ELSE d]
<1> DEFINE m == IF promised[list][c] >= d THEN promised[list][c] ELSE d
<1>1. promised[list][c] \in Nat /\ promised \in [Lists -> [Clients -> Nat]]
  BY DEF AdmissionInv, ListsTyped
<1>2. Max({promised[list][c], d}) = m
  BY <1>1, MaxOfTwo
<1>3. m \in Nat /\ m >= promised[list][c]
  BY <1>1
<1>4. promised' = [promised EXCEPT ![list] = [promised[list] EXCEPT ![c] = m]]
  BY <1>1, <1>2 DEF Promise
<1> HIDE DEF m
<1>5. /\ promised' \in [Lists -> [Clients -> Nat]]
      /\ \A l \in Lists : l # list => promised'[l] = promised[l]
      /\ promised'[list] = [promised[list] EXCEPT ![c] = m]
  BY <1>1, <1>3, <1>4
<1>6. \A l \in Lists, x \in Clients : promised'[l][x] >= promised[l][x]
  BY <1>1, <1>3, <1>5
<1> QED
  BY <1>5, <1>6 DEF m

\* The detector's suspension of a client that is caught probing or leaking.
LEMMA CaughtClient ==
  ASSUME AdmissionInv, NEW k \in Conns, Ends(k), UNCHANGED suspended,
         NEW caught \in BOOLEAN,
         probation' = IF caught
                      THEN [probation EXCEPT ![Peer[k].client] = BlockFor]
                      ELSE probation,
         IF caught THEN Promise("detector", Peer[k].client, BlockFor)
         ELSE UNCHANGED promised
  PROVE  /\ ListsTyped' /\ ListsKeepPromises'
         /\ \A q \in Conns : Barred(q)'
<1> DEFINE c == Peer[k].client
<1>1. /\ c \in Clients /\ probation \in [Clients -> 0 .. BlockFor]
      /\ suspended' \in [Clients -> Nat] /\ BlockFor \in Nat
      /\ "detector" \in Lists /\ "registry" \in Lists
  BY PeersKnown, Positive DEF AdmissionInv, ListsTyped, Lists
<1>2. CASE caught
  <2>1. Promise("detector", c, BlockFor)
    BY <1>2
  <2>2. /\ promised' \in [Lists -> [Clients -> Nat]]
        /\ \A l \in Lists, x \in Clients : promised'[l][x] >= promised[l][x]
        /\ promised'["registry"] = promised["registry"]
        /\ promised'["detector"] =
             [promised["detector"] EXCEPT ![c] =
                IF promised["detector"][c] >= BlockFor
                THEN promised["detector"][c] ELSE BlockFor]
    BY <1>1, <2>1, PromiseGrows
  <2>3. conn' \in [Conns -> ConnRecords] /\ \A q \in Conns : Barred(q)'
    BY <2>2, EndedRequest
  <2>4. probation' = [probation EXCEPT ![c] = BlockFor]
    BY <1>2
  <2>5. probation' \in [Clients -> 0 .. BlockFor]
    BY <1>1, <2>4
  <2>6. (IF probation[c] >= BlockFor THEN probation[c] ELSE BlockFor)
          = BlockFor
    BY <1>1
  <2>7. promised'["detector"] = probation'
    BY <2>2, <2>4, <2>6 DEF AdmissionInv, ListsKeepPromises
  <2>8. promised'["registry"] = suspended'
    BY <2>2 DEF AdmissionInv, ListsKeepPromises
  <2> QED
    BY <1>1, <2>2, <2>3, <2>5, <2>7, <2>8 DEF ListsTyped, ListsKeepPromises
<1>3. CASE ~caught
  <2>1. UNCHANGED <<promised, probation>>
    BY <1>3
  <2>2. /\ promised' \in [Lists -> [Clients -> Nat]]
        /\ \A l \in Lists, x \in Clients : promised'[l][x] >= promised[l][x]
    BY <2>1 DEF AdmissionInv, ListsTyped
  <2>3. conn' \in [Conns -> ConnRecords] /\ \A q \in Conns : Barred(q)'
    BY <2>2, EndedRequest
  <2> QED
    BY <1>1, <2>1, <2>2, <2>3 DEF AdmissionInv, ListsTyped, ListsKeepPromises
<1> QED
  BY <1>2, <1>3

\* The steps of a request that change no list.
LEMMA GatesKeep ==
  ASSUME AdmissionInv, NEW k \in Conns,
         UNCHANGED <<promised, suspended, probation>>,
         \/ Arrive(k) \/ IsIpBlocked(k) \/ Verify(k) \/ RecordAuthFailure(k)
         \/ IsClientSuspended(k) \/ TurnedAway(k)
         \/ conn[k].pc = "trusted" /\ Goes(k, "admitted")
  PROVE  conn' \in [Conns -> ConnRecords] /\ \A q \in Conns : Barred(q)'
<1>1. /\ promised' \in [Lists -> [Clients -> Nat]]
      /\ \A l \in Lists, c \in Clients : promised'[l][c] >= promised[l][c]
  BY DEF AdmissionInv, ListsTyped
<1>2. CASE Ends(k)
  BY <1>1, <1>2, EndedRequest
<1>3. CASE Arrive(k)
  <2>1. PICK m \in Asks[k] :
          conn' = [conn EXCEPT ![k] =
                    [pc |-> "arrived", model |-> m,
                     barred |-> {l \in Lists :
                                   promised[l][Peer[k].client] > 0}]]
    BY <1>3 DEF Arrive
  <2> DEFINE r == [pc |-> "arrived", model |-> m,
                   barred |-> {l \in Lists : promised[l][Peer[k].client] > 0}]
  <2>2. m \in UNION Range(Asks)
    BY AdmissionAssumption DEF Range
  <2>3. r \in ConnRecords
    BY <2>2 DEF ConnRecords
  <2>4. conn' = [conn EXCEPT ![k] = r] /\ conn'[k] = r
    BY <2>1 DEF AdmissionInv, ListsTyped
  <2>5. Barred(k)'
    BY <2>4 DEF Barred
  <2> QED
    BY <1>1, <2>3, <2>4, <2>5, OthersStay
<1>4. CASE IsIpBlocked(k)
  BY <1>2, <1>4, PassedGate DEF IsIpBlocked
<1>5. CASE Verify(k)
  <2>1. CASE Verifies(k)
    <3>1. "registry" \notin conn[k].barred
      BY <2>1, BarredByRegistry DEF Verifies
    <3>2. Goes(k, "verified")
      BY <1>5, <2>1 DEF Verify
    <3> QED
      BY <3>1, <3>2, PassedGate
  <2>2. CASE ~Verifies(k)
    BY <1>5, <2>2, PassedGate DEF Verify
  <2> QED
    BY <2>1, <2>2
<1>6. CASE RecordAuthFailure(k) \/ TurnedAway(k)
  BY <1>2, <1>6 DEF RecordAuthFailure, TurnedAway
<1>7. CASE IsClientSuspended(k)
  <2>1. conn[k].pc = "verified" /\ "registry" \notin conn[k].barred
    BY <1>7 DEF IsClientSuspended, AdmissionInv, Barred
  <2>2. probation[Peer[k].client] \in Nat
    BY PeersKnown, Positive DEF AdmissionInv, ListsTyped
  <2>3. CASE probation[Peer[k].client] > 0
    BY <1>2, <1>7, <2>3 DEF IsClientSuspended
  <2>4. CASE probation[Peer[k].client] = 0
    <3>1. Goes(k, "trusted")
      BY <1>7, <2>4 DEF IsClientSuspended
    <3> QED
      BY <2>1, <2>4, <3>1, BarredByRegistry, PassedGate
  <2> QED
    BY <2>2, <2>3, <2>4
<1>8. CASE conn[k].pc = "trusted" /\ Goes(k, "admitted")
  BY <1>8, PassedGate DEF AdmissionInv, Barred
<1> QED
  BY <1>3, <1>4, <1>5, <1>6, <1>7, <1>8

\* Time passing takes the same from a list and from what it promised, and a
\* request is barred no longer than that.
LEMMA TickKeeps ==
  ASSUME AdmissionInv, Tick
  PROVE  /\ ListsTyped' /\ ListsKeepPromises'
         /\ \A q \in Conns : Barred(q)'
<1> DEFINE less(n) == Max({n - 1, 0})
<1>1. \A n \in Nat : less(n) \in Nat /\ less(n) <= n
  BY ElapsedDeadline
<1>2. /\ suspended \in [Clients -> Nat]
      /\ probation \in [Clients -> 0 .. BlockFor]
      /\ promised \in [Lists -> [Clients -> Nat]]
      /\ conn \in [Conns -> ConnRecords] /\ BlockFor \in Nat
  BY Positive DEF AdmissionInv, ListsTyped
<1>3. /\ suspended' = [x \in Clients |-> less(suspended[x])]
      /\ probation' = [x \in Clients |-> less(probation[x])]
      /\ promised' = [l \in Lists |->
                        [x \in Clients |-> less(promised[l][x])]]
  BY <1>2 DEF Tick, Elapsed
<1> HIDE DEF less
<1>4. /\ suspended' \in [Clients -> Nat]
      /\ probation' \in [Clients -> 0 .. BlockFor]
      /\ promised' \in [Lists -> [Clients -> Nat]]
  BY <1>1, <1>2, <1>3
<1>5. ListsKeepPromises'
  <2>1. "registry" \in Lists /\ "detector" \in Lists
    BY DEF Lists
  <2> QED
    BY <1>3, <2>1 DEF AdmissionInv, ListsKeepPromises
<1>6. ASSUME NEW k \in Conns
      PROVE  /\ conn'[k] \in ConnRecords /\ conn'[k].pc = conn[k].pc
             /\ conn'[k].barred = {l \in conn[k].barred :
                                     promised'[l][Peer[k].client] > 0}
  <2> DEFINE left == {l \in conn[k].barred :
                        promised'[l][Peer[k].client] > 0}
  <2>1. conn'[k] = [conn[k] EXCEPT !.barred = left]
    BY DEF Tick
  <2>2. conn[k] \in ConnRecords
    BY <1>2
  <2>3. left \subseteq Lists
    BY <2>2 DEF ConnRecords
  <2> QED
    BY <2>1, <2>2, <2>3 DEF ConnRecords
<1>7. conn' \in [Conns -> ConnRecords]
  <2>1. conn' = [k \in Conns |-> conn'[k]]
    BY DEF Tick
  <2> QED
    BY <1>6, <2>1
<1>8. \A q \in Conns : Barred(q)'
  BY <1>6 DEF AdmissionInv, Barred
<1> QED
  BY <1>4, <1>5, <1>7, <1>8 DEF ListsTyped

\* Every step keeps the lists, their promises and what bars a request.
LEMMA ListsNext ==
  ASSUME AdmissionInv, [Next]_vars
  PROVE  /\ ListsTyped' /\ ListsKeepPromises'
         /\ \A q \in Conns : Barred(q)'
<1>1. ASSUME UNCHANGED <<conn, promised, suspended, probation>>
      PROVE  /\ ListsTyped' /\ ListsKeepPromises'
             /\ \A q \in Conns : Barred(q)'
  BY <1>1 DEF AdmissionInv, ListsTyped, ListsKeepPromises, Barred
<1>2. ASSUME NEW k \in Conns,
             UNCHANGED <<promised, suspended, probation>>,
             \/ Arrive(k) \/ IsIpBlocked(k) \/ Verify(k)
             \/ RecordAuthFailure(k) \/ IsClientSuspended(k) \/ TurnedAway(k)
             \/ conn[k].pc = "trusted" /\ Goes(k, "admitted")
      PROVE  /\ ListsTyped' /\ ListsKeepPromises'
             /\ \A q \in Conns : Barred(q)'
  BY <1>2, GatesKeep DEF AdmissionInv, ListsTyped, ListsKeepPromises
<1>3. ASSUME NEW k \in Conns,
             \/ Arrive(k) \/ IsIpBlocked(k) \/ Verify(k)
             \/ RecordAuthFailure(k) \/ IsClientSuspended(k) \/ TurnedAway(k)
      PROVE  /\ ListsTyped' /\ ListsKeepPromises'
             /\ \A q \in Conns : Barred(q)'
  <2>1. UNCHANGED <<promised, suspended, probation>>
    BY <1>3 DEF Arrive, IsIpBlocked, Verify, RecordAuthFailure, TurnedAway,
                IsClientSuspended, detector, registry, ghosts
  <2> QED
    BY <1>2, <1>3, <2>1
<1>4. ASSUME NEW k \in Conns, CheckModel(k)
      PROVE  /\ ListsTyped' /\ ListsKeepPromises'
             /\ \A q \in Conns : Barred(q)'
  <2> DEFINE rec == Record(probes, Peer[k].client)
             caught == rec.tracked
               /\ Total(rec.table.counters[Peer[k].client]) >= ProbeThreshold
  <2>1. UNCHANGED suspended /\ conn[k].pc = "trusted"
    BY <1>4 DEF CheckModel, registry
  <2>2. CASE ModelPermitted(k)
    <3>1. Goes(k, "admitted") /\ UNCHANGED <<promised, probation>>
      BY <1>4, <2>2 DEF CheckModel, detector, ghosts
    <3> QED
      BY <1>2, <2>1, <3>1
  <2>3. CASE ~ModelPermitted(k)
    <3>1. /\ Ends(k)
          /\ probation' = IF caught
                          THEN [probation EXCEPT ![Peer[k].client] = BlockFor]
                          ELSE probation
          /\ IF caught THEN Promise("detector", Peer[k].client, BlockFor)
             ELSE UNCHANGED promised
      BY <1>4, <2>3 DEF CheckModel
    <3>2. caught \in BOOLEAN
      OBVIOUS
    <3> HIDE DEF caught
    <3> QED
      BY <2>1, <3>1, <3>2, CaughtClient
  <2> QED
    BY <2>2, <2>3
<1>5. ASSUME NEW k \in Conns, Answer(k)
      PROVE  /\ ListsTyped' /\ ListsKeepPromises'
             /\ \A q \in Conns : Barred(q)'
  <2> DEFINE caught == Total(Incremented(covert[Peer[k].client]))
                         >= CovertThreshold
  <2>1. UNCHANGED suspended /\ Ends(k)
    BY <1>5 DEF Answer, registry
  <2>2. \/ UNCHANGED <<probation, promised>>
        \/ /\ probation' = IF caught
                           THEN [probation EXCEPT ![Peer[k].client] = BlockFor]
                           ELSE probation
           /\ IF caught THEN Promise("detector", Peer[k].client, BlockFor)
              ELSE UNCHANGED promised
    BY <1>5 DEF Answer, detector, ghosts
  <2>3. caught \in BOOLEAN
    OBVIOUS
  <2> HIDE DEF caught
  <2>4. CASE UNCHANGED <<probation, promised>>
    BY <2>1, <2>4, CaughtClient
  <2> QED
    BY <2>1, <2>2, <2>3, <2>4, CaughtClient
<1>6. ASSUME NEW k \in Conns, AdminSuspend(k)
      PROVE  /\ ListsTyped' /\ ListsKeepPromises'
             /\ \A q \in Conns : Barred(q)'
  <2>1. PICK c \in Targets, d \in SuspendFor :
          suspended' = SuspensionAfter(c, d) /\ Promise("registry", c, d)
    BY <1>6 DEF AdminSuspend
  <2>2. /\ c \in Clients /\ d \in Nat
        /\ "registry" \in Lists /\ "detector" \in Lists
        /\ UNCHANGED <<conn, probation>>
    BY <1>6, AdmissionAssumption DEF Lists, AdminSuspend, detector
  <2>3. suspended \in [Clients -> Nat] /\ suspended[c] \in Nat
    BY <2>2 DEF AdmissionInv, ListsTyped
  <2>4. suspended' = [suspended EXCEPT ![c] = IF suspended[c] >= d
                                              THEN suspended[c] ELSE d]
    BY <2>1, <2>2, <2>3, MaxOfTwo DEF SuspensionAfter
  <2>5. suspended' \in [Clients -> Nat]
    BY <2>2, <2>3, <2>4
  <2>6. /\ promised' \in [Lists -> [Clients -> Nat]]
        /\ \A l \in Lists, x \in Clients : promised'[l][x] >= promised[l][x]
        /\ promised'["detector"] = promised["detector"]
        /\ promised'["registry"] =
             [promised["registry"] EXCEPT ![c] =
                IF promised["registry"][c] >= d
                THEN promised["registry"][c] ELSE d]
    BY <2>1, <2>2, PromiseGrows
  <2>7. ListsKeepPromises'
    BY <2>2, <2>4, <2>6 DEF AdmissionInv, ListsKeepPromises
  <2>8. conn[k] \in ConnRecords /\ conn' = [conn EXCEPT ![k] = conn[k]]
    BY <2>2 DEF AdmissionInv, ListsTyped
  <2>9. Barred(k)'
    <3>1. conn[k].barred \subseteq Lists
      BY <2>8 DEF ConnRecords
    <3>2. \A l \in Lists : /\ promised[l][Peer[k].client] \in Nat
                           /\ promised'[l][Peer[k].client] \in Nat
                           /\ promised'[l][Peer[k].client]
                                >= promised[l][Peer[k].client]
      BY <2>6, PeersKnown DEF AdmissionInv, ListsTyped
    <3>3. \A l \in conn[k].barred : promised'[l][Peer[k].client] > 0
      BY <3>1, <3>2 DEF AdmissionInv, Barred
    <3> QED
      BY <2>2, <3>3 DEF AdmissionInv, Barred
  <2>10. conn' \in [Conns -> ConnRecords] /\ \A q \in Conns : Barred(q)'
    BY <2>6, <2>8, <2>9, OthersStay
  <2> QED
    BY <2>2, <2>5, <2>6, <2>7, <2>10 DEF AdmissionInv, ListsTyped
<1>7. CASE Lapse \/ Cleanup \/ UNCHANGED vars
  BY <1>1, <1>7 DEF Lapse, Cleanup, vars, detector, registry, ghosts
<1> QED
  BY <1>3, <1>4, <1>5, <1>6, <1>7, TickKeeps DEF Next, Gates

-----------------------------------------------------------------------------
(* The theorems *)

\* The gates, the registry and the detector keep the inductive invariant.
LEMMA AdmissionInductive == Spec => []AdmissionInv
<1>1. Init => AdmissionInv
  <2> SUFFICES ASSUME Init
               PROVE  AdmissionInv
    OBVIOUS
  <2>1. CountersTyped
    <3>1. /\ Bounded(auth, Sources, AuthWindow)
          /\ Bounded(probes, Clients, ProbeWindow)
      BY NewTableBounded, Positive DEF Init
    <3>2. /\ global \in Counter(AuthWindow)
          /\ covert \in [Clients -> Counter(CovertWindow)]
      BY NewCounterTyped, Positive DEF Init
    <3>3. blocked \in [Sources -> 0 .. BlockFor]
      BY Positive DEF Init
    <3> QED
      BY <3>1, <3>2, <3>3 DEF CountersTyped
  <2>2. NoRequest \in ConnRecords /\ NoRequest.barred = {}
    BY DEF NoRequest, ConnRecords
  <2>3. ListsTyped
    BY <2>2, Positive DEF Init, ListsTyped
  <2>4. ListsKeepPromises
    BY DEF Init, ListsKeepPromises, Lists
  <2>5. \A k \in Conns : Barred(k)
    BY <2>2 DEF Init, Barred
  <2> QED
    BY <2>1, <2>3, <2>4, <2>5 DEF AdmissionInv
<1>2. AdmissionInv /\ [Next]_vars => AdmissionInv'
  BY CountersNext, ListsNext DEF AdmissionInv
<1> QED
  BY <1>1, <1>2, PTL DEF Spec

\* A request that arrives during a suspension is not admitted while it lasts:
\* neither another order, nor another detection, nor the time between the two
\* gates that read the lists lets it through (suspend, is_client_suspended).
THEOREM SuspendedStayOut == Spec => []SuspensionHolds
<1>1. AdmissionInv => SuspensionHolds
  <2> SUFFICES ASSUME AdmissionInv, NEW k \in Conns, conn[k].pc = "admitted"
               PROVE  conn[k].barred = {}
    BY DEF SuspensionHolds
  <2>1. conn[k].barred \subseteq Lists
    BY DEF AdmissionInv, ListsTyped, ConnRecords
  <2>2. "registry" \notin conn[k].barred /\ "detector" \notin conn[k].barred
    BY DEF AdmissionInv, Barred
  <2> QED
    BY <2>1, <2>2 DEF Lists
<1> QED
  BY <1>1, AdmissionInductive, PTL

\* The lists themselves: whatever administrators order and the detector finds,
\* the registry and the detector hold a client for exactly the longest time
\* it was given (suspend never shortens).
THEOREM PromisesAreKept == Spec => []ListsKeepPromises
<1>1. AdmissionInv => ListsKeepPromises
  BY DEF AdmissionInv
<1> QED
  BY <1>1, AdmissionInductive, PTL
-----------------------------------------------------------------------------
(* Counting: the positions of a sequence, and the events of a counter *)

\* The positions of a sequence are as many as it is long.
LEMMA IntervalSize ==
  ASSUME NEW n \in Nat
  PROVE  IsFiniteSet(1 .. n) /\ Cardinality(1 .. n) = n
<1>1. 1 \in Int /\ n \in Int
  OBVIOUS
<1>2. /\ IsFiniteSet(1 .. n)
      /\ Cardinality(1 .. n) = IF 1 > n THEN 0 ELSE n - 1 + 1
  BY <1>1, FS_Interval, Zenon
<1> QED
  BY <1>2

\* A set of positions is finite, and no larger than the sequence.
LEMMA Positions ==
  ASSUME NEW n \in Nat, NEW S \in SUBSET (1 .. n)
  PROVE  IsFiniteSet(S) /\ Cardinality(S) \in Nat /\ Cardinality(S) <= n
<1>1. IsFiniteSet(1 .. n) /\ Cardinality(1 .. n) = n
  BY IntervalSize
<1>2. IsFiniteSet(S) /\ Cardinality(S) <= Cardinality(1 .. n)
  BY <1>1, FS_Subset
<1> QED
  BY <1>1, <1>2, FS_CardinalityType

\* A set of positions without gaps is known by its size.
LEMMA FirstPositions ==
  ASSUME NEW n \in Nat, NEW G \in SUBSET (1 .. n),
         \A i \in G, j \in 1 .. n : j <= i => j \in G
  PROVE  /\ Cardinality(G) \in Nat /\ Cardinality(G) <= n
         /\ G = 1 .. Cardinality(G)
<1> DEFINE m == Cardinality(G)
<1>1. IsFiniteSet(G) /\ m \in Nat /\ m <= n
  BY Positions
<1>2. \A i \in G : i <= m
  <2> SUFFICES ASSUME NEW i \in G
               PROVE  i <= m
    OBVIOUS
  <2>1. (1 .. i) \in SUBSET G
    OBVIOUS
  <2>2. Cardinality(1 .. i) <= m
    BY <1>1, <2>1, FS_Subset
  <2>3. Cardinality(1 .. i) = i
    BY IntervalSize
  <2> QED
    BY <2>2, <2>3
<1>3. IsFiniteSet(1 .. m) /\ Cardinality(1 .. m) = m
  BY <1>1, IntervalSize
<1>4. G \in SUBSET (1 .. m)
  BY <1>1, <1>2
<1>5. 1 .. m = G
  BY <1>3, <1>4, FS_Subset
<1> QED
  BY <1>1, <1>5

\* Cutting off the first m positions renumbers the others.
LEMMA Renumbered ==
  ASSUME NEW n \in Nat, NEW m \in 0 .. n, NEW S \in SUBSET ((m + 1) .. n)
  PROVE  Cardinality({i \in 1 .. (n - m) : i + m \in S}) = Cardinality(S)
<1> DEFINE T == {i \in 1 .. (n - m) : i + m \in S}
           f == [i \in T |-> i + m]
<1>1. T \in SUBSET (1 .. (n - m)) /\ n - m \in Nat
  OBVIOUS
<1>2. IsFiniteSet(T)
  BY <1>1, Positions
<1>3. f \in [T -> S]
  OBVIOUS
<1>4. \A a, b \in T : f[a] = f[b] => a = b
  OBVIOUS
<1>5. ASSUME NEW y \in S
      PROVE  \E i \in T : f[i] = y
  <2>1. y - m \in 1 .. (n - m) /\ (y - m) + m = y
    OBVIOUS
  <2>2. y - m \in T
    BY <2>1
  <2> QED
    BY <2>1, <2>2
<1> HIDE DEF f, T
<1>6. f \in Bijection(T, S)
  BY <1>3, <1>4, <1>5 DEF Bijection, Injection, Surjection, IsInjective
<1>7. ExistsBijection(T, S)
  BY <1>6 DEF ExistsBijection
<1>8. Cardinality(S) = Cardinality(T)
  BY <1>2, <1>7, FS_Bijection
<1> QED
  BY <1>8 DEF T

\* The events of a counter younger than a, and how many they are.
Young(events, a) == {i \in DOMAIN events : events[i] < a}
Count(events, a) == Cardinality(Young(events, a))

\* Events are pushed in order: the oldest comes first.
InOrder(events) ==
  \A i, j \in DOMAIN events : i <= j => events[j] <= events[i]

\* A counter has no more events than it keeps.
LEMMA CountBounds ==
  ASSUME NEW w \in Nat \ {0}, NEW c \in Counter(w), NEW a
  PROVE  /\ Count(c.events, a) \in Nat
         /\ Count(c.events, a) <= Len(c.events)
         /\ Count(c.events, a) <= Total(c)
         /\ c.events = <<>> => Count(c.events, a) = 0
<1>1. /\ c.events \in Seq(0 .. w) /\ Len(c.events) \in Nat /\ c.sat \in Nat
      /\ DOMAIN c.events = 1 .. Len(c.events)
  BY DEF Counter
<1>2. Young(c.events, a) \in SUBSET (1 .. Len(c.events))
  BY <1>1 DEF Young
<1>3. /\ Count(c.events, a) \in Nat
      /\ Count(c.events, a) <= Len(c.events)
  BY <1>1, <1>2, Positions DEF Count
<1>4. Total(c) = Len(c.events) + c.sat
  BY DEF Total
<1>5. c.events = <<>> => Len(c.events) = 0
  OBVIOUS
<1> QED
  BY <1>1, <1>3, <1>4, <1>5

\* prune drops exactly what has lapsed, and the rest stays in order.
LEMMA PrunedCount ==
  ASSUME NEW w \in Nat \ {0}, NEW c \in Counter(w), InOrder(c.events)
  PROVE  /\ InOrder(Pruned(c).events)
         /\ \A i \in DOMAIN Pruned(c).events : Pruned(c).events[i] < w
         /\ \A a \in 0 .. w : Count(Pruned(c).events, a) = Count(c.events, a)
<1> DEFINE e == c.events
           n == Len(e)
           gone == {i \in DOMAIN e : e[i] >= c.window}
           m == Cardinality(gone)
           live == SubSeq(c.events, FirstLive(c), Len(c.events))
<1>1. /\ e \in Seq(0 .. w) /\ n \in Nat /\ DOMAIN e = 1 .. n /\ c.window = w
      /\ \A i \in 1 .. n : e[i] \in 0 .. w
  BY DEF Counter
<1>0. \A i, j \in 1 .. n : i <= j => e[j] <= e[i]
  BY <1>1 DEF InOrder
<1>4. FirstLive(c) = 1 + m
  BY DEF FirstLive
<1>5. live = SubSeq(e, FirstLive(c), n) /\ Pruned(c).events = live
  BY DEF Pruned, Counter
<1> HIDE DEF e, n, live
<1>2. m \in 0 .. n /\ gone = 1 .. m
  <2>1. gone \in SUBSET (1 .. n)
    BY <1>1
  <2>2. \A i \in gone, j \in 1 .. n : j <= i => j \in gone
    BY <1>0, <1>1
  <2> HIDE DEF gone
  <2> QED
    BY <1>1, <2>1, <2>2, FirstPositions
<1>3. \A i \in 1 .. n : i \in gone <=> e[i] >= w
  BY <1>1
<1> HIDE DEF gone, m
<1>6. /\ Len(live) = n - m /\ DOMAIN live = 1 .. (n - m)
      /\ \A i \in 1 .. (n - m) : live[i] = e[m + i]
  BY <1>1, <1>2, <1>4, <1>5
<1>8. \A i \in 1 .. (n - m) : m + i \in 1 .. n /\ m + i \notin gone
  BY <1>1, <1>2
<1>9. \A i \in DOMAIN live : live[i] < w
  BY <1>1, <1>3, <1>6, <1>8
<1>10. InOrder(live)
  <2> SUFFICES ASSUME NEW i \in 1 .. (n - m), NEW j \in 1 .. (n - m), i <= j
               PROVE  live[j] <= live[i]
    BY <1>6 DEF InOrder
  <2>1. live[i] = e[m + i] /\ live[j] = e[m + j] /\ m + i <= m + j
    BY <1>2, <1>6
  <2>2. m + i \in 1 .. n /\ m + j \in 1 .. n
    BY <1>8
  <2>3. e[m + j] <= e[m + i]
    BY <1>0, <2>1, <2>2
  <2> QED
    BY <2>1, <2>3
<1>11. ASSUME NEW a \in 0 .. w
       PROVE  Count(live, a) = Count(e, a)
  <2>1. Young(e, a) \in SUBSET ((m + 1) .. n)
    BY <1>1, <1>2, <1>3 DEF Young
  <2>2. Young(live, a) = {i \in 1 .. (n - m) : i + m \in Young(e, a)}
    <3>1. \A i \in 1 .. (n - m) : i + m = m + i
      BY <1>2
    <3> QED
      BY <1>1, <1>6, <1>8, <3>1 DEF Young
  <2>3. Cardinality({i \in 1 .. (n - m) : i + m \in Young(e, a)})
          = Cardinality(Young(e, a))
    <3>1. n \in Nat /\ m \in 0 .. n
      BY <1>1, <1>2
    <3> QED
      BY <2>1, <3>1, Renumbered
  <2> QED
    BY <2>2, <2>3 DEF Count
<1> QED
  BY <1>5, <1>9, <1>10, <1>11 DEF e

\* A counter that has not saturated does not by being pruned, nor by time.
LEMMA NothingSaturates ==
  ASSUME NEW w \in Nat \ {0}, NEW c \in Counter(w), c.sat = 0
  PROVE  Pruned(c).sat = 0 /\ Aged(c).sat = 0
BY DEF Pruned, Aged, Counter

\* increment adds one event to every age, or one to the overflow of a counter
\* that is full.
LEMMA IncrementedCount ==
  ASSUME NEW w \in Nat \ {0}, NEW c \in Counter(w), InOrder(c.events)
  PROVE  /\ InOrder(Incremented(c).events)
         /\ \A i \in DOMAIN Incremented(c).events : Incremented(c).events[i] < w
         /\ \/ /\ c.sat = 0 => Incremented(c).sat = 0
               /\ \A a \in 1 .. w :
                    Count(Incremented(c).events, a) = Count(c.events, a) + 1
            \/ /\ Len(Incremented(c).events) >= MaxEvents
               /\ Total(Incremented(c)) > MaxEvents
               /\ \A a \in 1 .. w :
                    Count(Incremented(c).events, a) = Count(c.events, a)
<1> DEFINE p == Pruned(c)
           r == Incremented(c)
           e == p.events
           n == Len(e)
<1>1. /\ p \in Counter(w) /\ InOrder(e) /\ \A i \in DOMAIN e : e[i] < w
      /\ \A a \in 1 .. w : Count(e, a) = Count(c.events, a)
  BY PrunedCounter, PrunedCount
<1>2. r = IF Len(p.events) >= MaxEvents
          THEN [p EXCEPT !.sat = @ + 1]
          ELSE [p EXCEPT !.events = Append(@, 0)]
  BY DEF Incremented
<1> HIDE DEF p, r
<1>3. /\ e \in Seq(0 .. w) /\ n \in Nat /\ p.sat \in Nat /\ DOMAIN e = 1 .. n
      /\ \A i \in 1 .. n : e[i] \in Nat
  BY <1>1 DEF Counter
<1>4. CASE n >= MaxEvents
  <2>1. r.events = e /\ r.sat = p.sat + 1
    BY <1>1, <1>2, <1>4 DEF Counter
  <2>2. Total(r) > MaxEvents /\ Len(r.events) >= MaxEvents
    BY <1>3, <1>4, <2>1, Positive DEF Total
  <2> QED
    BY <1>1, <2>1, <2>2 DEF r
<1>5. CASE ~(n >= MaxEvents)
  <2>1. r.events = Append(e, 0) /\ r.sat = p.sat
    BY <1>1, <1>2, <1>5 DEF Counter
  <2>2. /\ DOMAIN r.events = 1 .. (n + 1)
        /\ \A i \in 1 .. n : r.events[i] = e[i]
        /\ r.events[n + 1] = 0
    BY <1>3, <2>1
  <2>3. InOrder(r.events) /\ \A i \in DOMAIN r.events : r.events[i] < w
    <3>1. \A i, j \in 1 .. n : i <= j => e[j] <= e[i]
      BY <1>1, <1>3 DEF InOrder
    <3>2. \A i \in 1 .. n : e[i] < w /\ 0 <= e[i]
      BY <1>1, <1>3
    <3> HIDE DEF e, n
    <3>3. \A i, j \in 1 .. (n + 1) : i <= j => r.events[j] <= r.events[i]
      <4> SUFFICES ASSUME NEW i \in 1 .. (n + 1), NEW j \in 1 .. (n + 1),
                          i <= j
                   PROVE  r.events[j] <= r.events[i]
        OBVIOUS
      <4>1. CASE j \in 1 .. n
        BY <1>3, <2>2, <3>1, <4>1
      <4>2. CASE j = n + 1 /\ i \in 1 .. n
        BY <2>2, <3>2, <4>2
      <4> QED
        BY <1>3, <2>2, <4>1, <4>2
    <3>4. InOrder(r.events)
      BY <2>2, <3>3 DEF InOrder
    <3>5. \A i \in 1 .. (n + 1) : r.events[i] < w
      <4>1. \A i \in 1 .. (n + 1) : i \in 1 .. n \/ i = n + 1
        BY <1>3
      <4> QED
        BY <2>2, <3>2, <4>1
    <3> QED
      BY <2>2, <3>4, <3>5
  <2>4. ASSUME NEW a \in 1 .. w
        PROVE  Count(r.events, a) = Count(c.events, a) + 1
    <3>1. Young(r.events, a) = Young(e, a) \cup {n + 1}
      BY <1>3, <2>2 DEF Young
    <3>2. Young(e, a) \in SUBSET (1 .. n) /\ n + 1 \notin Young(e, a)
      BY <1>3 DEF Young
    <3>3. IsFiniteSet(Young(e, a))
      BY <1>3, <3>2, Positions
    <3>4. Cardinality(Young(e, a) \cup {n + 1}) = Cardinality(Young(e, a)) + 1
      BY <3>2, <3>3, FS_AddElement
    <3> QED
      BY <1>1, <3>1, <3>4 DEF Count
  <2>5. c.sat = 0 => r.sat = 0
    BY <2>1, NothingSaturates DEF p
  <2> QED
    BY <2>3, <2>4, <2>5 DEF r, p
<1> QED
  BY <1>4, <1>5

\* A tick makes every event one older.
LEMMA AgedCount ==
  ASSUME NEW w \in Nat \ {0}, NEW c \in Counter(w), InOrder(c.events)
  PROVE  /\ InOrder(Aged(c).events)
         /\ \A a \in 1 .. w : Count(Aged(c).events, a) = Count(c.events, a - 1)
<1> DEFINE e == c.events
           n == Len(e)
           aged == [i \in DOMAIN c.events |->
                      IF c.events[i] < c.window THEN c.events[i] + 1
                      ELSE c.window]
<1>1. /\ c.window = w /\ n \in Nat /\ DOMAIN e = 1 .. n
      /\ \A i \in 1 .. n : e[i] \in 0 .. w
  BY DEF Counter
<1>2. /\ DOMAIN aged = 1 .. n
      /\ \A i \in 1 .. n : aged[i] = IF e[i] < w THEN e[i] + 1 ELSE w
  BY <1>1
<1>3. Aged(c).events = aged
  BY DEF Aged, Counter
<1> HIDE DEF aged
<1>4. InOrder(aged)
  BY <1>1, <1>2 DEF InOrder
<1>5. ASSUME NEW a \in 1 .. w
      PROVE  Young(aged, a) = Young(e, a - 1)
  BY <1>1, <1>2 DEF Young
<1> QED
  BY <1>3, <1>4, <1>5 DEF Count

\* The counters of a table keep their events in order.
TableInOrder(t, keys) == \A k \in keys : InOrder(t.counters[k].events)

\* A sweep forgets nothing that is still inside the window.
LEMMA PruneLapsedCount ==
  ASSUME NEW keys, NEW w \in Nat \ {0}, NEW t \in Table(keys, w),
         TableInOrder(t, keys)
  PROVE  /\ TableInOrder(PruneLapsed(t), keys)
         /\ \A k \in keys, a \in 0 .. w :
              Count(PruneLapsed(t).counters[k].events, a)
                = Count(t.counters[k].events, a)
         /\ \A k \in keys : t.counters[k].sat = 0 =>
              PruneLapsed(t).counters[k].sat = 0
<1> DEFINE new == PruneLapsed(t)
<1>1. DOMAIN t.counters = keys /\ \A k \in keys : t.counters[k] \in Counter(w)
  BY TableParts
<1>2. ASSUME NEW k \in keys
      PROVE  /\ InOrder(new.counters[k].events)
             /\ \A a \in 0 .. w : Count(new.counters[k].events, a)
                                    = Count(t.counters[k].events, a)
             /\ t.counters[k].sat = 0 => new.counters[k].sat = 0
  <2> DEFINE c == t.counters[k]
  <2>1. /\ c \in Counter(w) /\ InOrder(c.events) /\ c.window = w
    BY <1>1 DEF TableInOrder, Counter
  <2>2. new.counters[k] = IF IsLapsed(c) THEN NewCounter(c.window)
                          ELSE Pruned(c)
    BY <1>1 DEF PruneLapsed
  <2> HIDE DEF c, new
  <2>3. /\ InOrder(Pruned(c).events)
        /\ \A a \in 0 .. w : Count(Pruned(c).events, a) = Count(c.events, a)
        /\ c.sat = 0 => Pruned(c).sat = 0
    BY <2>1, PrunedCount, NothingSaturates
  <2>4. CASE IsLapsed(c)
    <3>1. /\ new.counters[k].events = Pruned(c).events
          /\ new.counters[k].sat = 0
      BY <2>1, <2>2, <2>4, NewCounterTyped DEF IsLapsed, NewCounter
    <3> QED
      BY <2>3, <3>1 DEF c
  <2>5. CASE ~IsLapsed(c)
    BY <2>2, <2>3, <2>5 DEF c
  <2> QED
    BY <2>4, <2>5
<1> QED
  BY <1>2 DEF TableInOrder

\* Time passes over every counter of a table alike.
LEMMA TableAgedCount ==
  ASSUME NEW keys, NEW w \in Nat \ {0}, NEW t \in Table(keys, w),
         TableInOrder(t, keys)
  PROVE  /\ TableInOrder(TableAged(t), keys)
         /\ \A k \in keys, a \in 1 .. w :
              Count(TableAged(t).counters[k].events, a)
                = Count(t.counters[k].events, a - 1)
         /\ \A k \in keys : t.counters[k].sat = 0 =>
              TableAged(t).counters[k].sat = 0
<1>1. DOMAIN t.counters = keys /\ \A k \in keys : t.counters[k] \in Counter(w)
  BY TableParts
<1>2. \A k \in keys : TableAged(t).counters[k] = Aged(t.counters[k])
  BY <1>1 DEF TableAged
<1>3. \A k \in keys :
        /\ InOrder(Aged(t.counters[k]).events)
        /\ \A a \in 1 .. w : Count(Aged(t.counters[k]).events, a)
                               = Count(t.counters[k].events, a - 1)
        /\ t.counters[k].sat = 0 => Aged(t.counters[k]).sat = 0
  BY <1>1, AgedCount, NothingSaturates DEF TableInOrder
<1> QED
  BY <1>2, <1>3 DEF TableInOrder

\* The table t with one event of the key, which is tracked or not: it counts
\* once, for its own key only, unless the counter is at its cap.
Recorded(t, new, tracked, key, keys, w) ==
  /\ TableInOrder(new, keys)
  /\ \A k \in keys, a \in 1 .. w :
       k # key \/ ~tracked => Count(new.counters[k].events, a)
                                = Count(t.counters[k].events, a)
  /\ \A k \in keys : k # key \/ ~tracked =>
       (t.counters[k].sat = 0 => new.counters[k].sat = 0)
  /\ tracked =>
       LET own == new.counters[key]
       IN /\ \A i \in DOMAIN own.events : own.events[i] < w
          /\ \/ /\ t.counters[key].sat = 0 => own.sat = 0
                /\ \A a \in 1 .. w : Count(own.events, a)
                                       = Count(t.counters[key].events, a) + 1
             \/ /\ Len(own.events) >= MaxEvents
                /\ Total(own) > MaxEvents
                /\ \A a \in 1 .. w : Count(own.events, a)
                                       = Count(t.counters[key].events, a)

\* This is what record does, with its sweep.
LEMMA RecordCount ==
  ASSUME NEW keys, NEW w \in Nat \ {0}, NEW t, Bounded(t, keys, w),
         TableInOrder(t, keys), NEW key \in keys
  PROVE  Recorded(t, Record(t, key).table, Record(t, key).tracked, key, keys, w)
<1> DEFINE rec == Record(t, key)
           own == rec.table.counters[key]
           room == IF key \notin Keys(t) /\ Full(t) THEN SweepIfDue(t) ELSE t
           tracked == key \in Keys(room) \/ ~Full(room)
           new == [room EXCEPT !.counters[key] = Incremented(@)]
<1>1. /\ room \in Table(keys, w) /\ TableInOrder(room, keys)
      /\ \A k \in keys, a \in 1 .. w :
           Count(room.counters[k].events, a) = Count(t.counters[k].events, a)
      /\ \A k \in keys : t.counters[k].sat = 0 => room.counters[k].sat = 0
  <2>1. t \in Table(keys, w) /\ PruneLapsed(t) \in Table(keys, w)
    BY PruneLapsedBounded DEF Bounded
  <2>2. /\ TableInOrder(PruneLapsed(t), keys)
        /\ \A k \in keys, a \in 0 .. w :
             Count(PruneLapsed(t).counters[k].events, a)
               = Count(t.counters[k].events, a)
        /\ \A k \in keys : t.counters[k].sat = 0 =>
             PruneLapsed(t).counters[k].sat = 0
    BY <2>1, PruneLapsedCount
  <2>3. room = t \/ room = PruneLapsed(t)
    BY DEF SweepIfDue
  <2>4. \A a \in 1 .. w : a \in 0 .. w
    OBVIOUS
  <2> HIDE DEF room
  <2> QED
    BY <2>1, <2>2, <2>3, <2>4
<1>2. rec.tracked = tracked /\ rec.table = IF tracked THEN new ELSE room
  BY DEF Record
<1> HIDE DEF room, rec
<1>3. /\ DOMAIN room.counters = keys
      /\ \A k \in keys : room.counters[k] \in Counter(w)
  BY <1>1, TableParts
<1>4. CASE tracked
  <2> DEFINE c == room.counters[key]
  <2>1. /\ rec.tracked /\ rec.table.counters[key] = Incremented(c)
        /\ \A k \in keys : k # key =>
             rec.table.counters[k] = room.counters[k]
    <3>1. rec.tracked /\ rec.table = new
      BY <1>2, <1>4
    <3>2. /\ new.counters[key] = Incremented(c)
          /\ \A k \in keys : k # key => new.counters[k] = room.counters[k]
      BY <1>1, <1>3 DEF Table
    <3> HIDE DEF new
    <3> QED
      BY <3>1, <3>2
  <2>2. c \in Counter(w) /\ InOrder(c.events)
    BY <1>1, <1>3 DEF TableInOrder
  <2>3. /\ \A a \in 1 .. w :
             Count(c.events, a) = Count(t.counters[key].events, a)
        /\ t.counters[key].sat = 0 => c.sat = 0
    BY <1>1
  <2> HIDE DEF c
  <2>4. /\ InOrder(Incremented(c).events)
        /\ \A i \in DOMAIN Incremented(c).events : Incremented(c).events[i] < w
        /\ \/ /\ c.sat = 0 => Incremented(c).sat = 0
              /\ \A a \in 1 .. w :
                   Count(Incremented(c).events, a) = Count(c.events, a) + 1
           \/ /\ Len(Incremented(c).events) >= MaxEvents
              /\ Total(Incremented(c)) > MaxEvents
              /\ \A a \in 1 .. w :
                   Count(Incremented(c).events, a) = Count(c.events, a)
    BY <2>2, IncrementedCount
  <2>5. TableInOrder(rec.table, keys)
    BY <1>1, <2>1, <2>4 DEF TableInOrder
  <2>6. \A k \in keys, a \in 1 .. w :
          k # key => Count(rec.table.counters[k].events, a)
                       = Count(t.counters[k].events, a)
    BY <1>1, <2>1
  <2>9. \A k \in keys :
          k # key /\ t.counters[k].sat = 0 => rec.table.counters[k].sat = 0
    BY <1>1, <2>1
  <2>7. own = Incremented(c)
    BY <2>1
  <2> HIDE DEF own
  <2>8. /\ \A i \in DOMAIN own.events : own.events[i] < w
        /\ \/ /\ t.counters[key].sat = 0 => own.sat = 0
              /\ \A a \in 1 .. w : Count(own.events, a)
                                     = Count(t.counters[key].events, a) + 1
           \/ /\ Len(own.events) >= MaxEvents /\ Total(own) > MaxEvents
              /\ \A a \in 1 .. w : Count(own.events, a)
                                     = Count(t.counters[key].events, a)
    BY <2>3, <2>4, <2>7
  <2> QED
    BY <2>1, <2>5, <2>6, <2>8, <2>9 DEF rec, own, Recorded
<1>5. CASE ~tracked
  <2>1. ~rec.tracked /\ rec.table = room
    BY <1>2, <1>5
  <2> QED
    BY <1>1, <2>1 DEF rec, Recorded
<1> QED
  BY <1>4, <1>5

-----------------------------------------------------------------------------
(* The failures themselves *)

\* The failures are records of their type, the oldest first.
FailuresInOrder ==
  \A i, j \in DOMAIN failures : i <= j => failures[j].age <= failures[i].age

FailuresInv ==
  /\ failures \in Seq([source : Sources, tracked : BOOLEAN,
                       age : 0 .. AuthWindow - 1])
  /\ FailuresInOrder

\* The failures younger than a: all of them, and the tracked ones of s.
YoungFailures(a) == {i \in DOMAIN failures : failures[i].age < a}
YoungTracked(s, a) == {i \in TrackedOf(s) : failures[i].age < a}

\* They are counted by natural numbers.
LEMMA FailureCounts ==
  ASSUME FailuresInv, NEW s, NEW a
  PROVE  /\ IsFiniteSet(YoungFailures(a))
         /\ IsFiniteSet(YoungTracked(s, a)) /\ IsFiniteSet(FailuresOf(s))
         /\ Cardinality(YoungFailures(a)) \in Nat
         /\ Cardinality(YoungTracked(s, a)) \in Nat
         /\ Cardinality(FailuresOf(s)) \in Nat
         /\ Cardinality(YoungTracked(s, a)) <= Cardinality(FailuresOf(s))
<1>1. Len(failures) \in Nat /\ DOMAIN failures = 1 .. Len(failures)
  BY DEF FailuresInv
<1>2. /\ YoungFailures(a) \in SUBSET (1 .. Len(failures))
      /\ YoungTracked(s, a) \in SUBSET (1 .. Len(failures))
      /\ FailuresOf(s) \in SUBSET (1 .. Len(failures))
      /\ YoungTracked(s, a) \in SUBSET FailuresOf(s)
  BY <1>1 DEF YoungFailures, YoungTracked, TrackedOf, FailuresOf
<1>3. IsFiniteSet(FailuresOf(s)) /\ Cardinality(FailuresOf(s)) \in Nat
  BY <1>1, <1>2, Positions
<1>4. /\ IsFiniteSet(YoungTracked(s, a))
      /\ Cardinality(YoungTracked(s, a)) \in Nat
      /\ Cardinality(YoungTracked(s, a)) <= Cardinality(FailuresOf(s))
  BY <1>2, <1>3, FS_Subset, FS_CardinalityType
<1>5. /\ IsFiniteSet(YoungFailures(a)) /\ Cardinality(YoungFailures(a)) \in Nat
  BY <1>1, <1>2, Positions
<1> QED
  BY <1>3, <1>4, <1>5

\* A failure is counted once, and as tracked only for its own source.
LEMMA FailureRecorded ==
  ASSUME FailuresInv, NEW s \in Sources, NEW tracked \in BOOLEAN,
         failures' = Append(failures,
                       [source |-> s, tracked |-> tracked, age |-> 0])
  PROVE  /\ FailuresInv'
         /\ \A a \in 1 .. AuthWindow :
              Cardinality(YoungFailures(a)') = Cardinality(YoungFailures(a)) + 1
         /\ \A x \in Sources, a \in 1 .. AuthWindow :
              Cardinality(YoungTracked(x, a)')
                = IF x = s /\ tracked THEN Cardinality(YoungTracked(x, a)) + 1
                  ELSE Cardinality(YoungTracked(x, a))
<1> DEFINE F == [source : Sources, tracked : BOOLEAN, age : 0 .. AuthWindow - 1]
           f == [source |-> s, tracked |-> tracked, age |-> 0]
           n == Len(failures)
<1>1. /\ failures \in Seq(F) /\ n \in Nat /\ DOMAIN failures = 1 .. n
      /\ \A i \in 1 .. n : failures[i].age \in Nat
      /\ \A i, j \in 1 .. n : i <= j => failures[j].age <= failures[i].age
  <2>1. failures \in Seq(F) /\ FailuresInOrder
    BY DEF FailuresInv
  <2> HIDE DEF F
  <2>2. n \in Nat /\ DOMAIN failures = 1 .. n /\ \A i \in 1 .. n : failures[i] \in F
    BY <2>1
  <2> USE DEF F
  <2>3. \A i \in 1 .. n : failures[i].age \in Nat
    BY <2>2, Positive
  <2> QED
    BY <2>1, <2>2, <2>3 DEF FailuresInOrder
<1>2. f \in F /\ f.source = s /\ f.tracked = tracked /\ f.age = 0
  BY Positive
<1> HIDE DEF f, F
<1>3. /\ failures' \in Seq(F) /\ DOMAIN failures' = 1 .. (n + 1)
      /\ \A i \in 1 .. n : failures'[i] = failures[i]
      /\ failures'[n + 1] = f
  BY <1>1, <1>2 DEF f
<1> HIDE DEF n
<1>4. FailuresInOrder'
  <2> SUFFICES ASSUME NEW i \in 1 .. (n + 1), NEW j \in 1 .. (n + 1), i <= j
               PROVE  failures'[j].age <= failures'[i].age
    BY <1>3 DEF FailuresInOrder
  <2>1. CASE j \in 1 .. n
    BY <1>1, <1>3, <2>1
  <2>2. CASE j = n + 1 /\ i \in 1 .. n
    BY <1>1, <1>2, <1>3, <2>2
  <2>3. CASE j = n + 1 /\ i = n + 1
    BY <1>2, <1>3, <2>3
  <2> QED
    BY <1>1, <2>1, <2>2, <2>3
<1>5. FailuresInv'
  BY <1>3, <1>4 DEF FailuresInv, F
<1>6. ASSUME NEW a \in 1 .. AuthWindow
      PROVE  Cardinality(YoungFailures(a)') = Cardinality(YoungFailures(a)) + 1
  <2>1. YoungFailures(a)' = YoungFailures(a) \cup {n + 1}
    BY <1>1, <1>2, <1>3, Positive DEF YoungFailures
  <2>2. n + 1 \notin YoungFailures(a)
    BY <1>1 DEF YoungFailures
  <2>3. IsFiniteSet(YoungFailures(a))
    BY FailureCounts
  <2> QED
    BY <2>1, <2>2, <2>3, FS_AddElement
<1>7. ASSUME NEW x \in Sources, NEW a \in 1 .. AuthWindow
      PROVE  Cardinality(YoungTracked(x, a)')
               = IF x = s /\ tracked THEN Cardinality(YoungTracked(x, a)) + 1
                 ELSE Cardinality(YoungTracked(x, a))
  <2>1. YoungTracked(x, a)' =
          IF x = s /\ tracked THEN YoungTracked(x, a) \cup {n + 1}
          ELSE YoungTracked(x, a)
    BY <1>1, <1>2, <1>3, Positive DEF YoungTracked, TrackedOf, FailuresOf
  <2>2. n + 1 \notin YoungTracked(x, a)
    BY <1>1 DEF YoungTracked, TrackedOf, FailuresOf
  <2>3. IsFiniteSet(YoungTracked(x, a))
    BY FailureCounts
  <2>4. Cardinality(YoungTracked(x, a) \cup {n + 1})
          = Cardinality(YoungTracked(x, a)) + 1
    BY <2>2, <2>3, FS_AddElement
  <2> QED
    BY <2>1, <2>4
<1> QED
  BY <1>5, <1>6, <1>7

\* A tick makes every failure one older and forgets the lapsed ones only.
LEMMA FailuresTick ==
  ASSUME FailuresInv, failures' = FailuresAged
  PROVE  /\ FailuresInv'
         /\ \A a \in 1 .. AuthWindow :
              Cardinality(YoungFailures(a)')
                = Cardinality(YoungFailures(a - 1))
         /\ \A x \in Sources, a \in 1 .. AuthWindow :
              Cardinality(YoungTracked(x, a)')
                = Cardinality(YoungTracked(x, a - 1))
<1> DEFINE F == [source : Sources, tracked : BOOLEAN, age : 0 .. AuthWindow - 1]
           n == Len(failures)
           gone == {i \in DOMAIN failures : failures[i].age + 1 >= AuthWindow}
           m == Cardinality(gone)
           new == [i \in 1 .. n - m |->
                     [source |-> failures[i + m].source,
                      tracked |-> failures[i + m].tracked,
                      age |-> failures[i + m].age + 1]]
<1>1. /\ n \in Nat /\ DOMAIN failures = 1 .. n
      /\ \A i \in 1 .. n : /\ failures[i].age \in 0 .. AuthWindow - 1
                           /\ failures[i].source \in Sources
                           /\ failures[i].tracked \in BOOLEAN
      /\ \A i, j \in 1 .. n : i <= j => failures[j].age <= failures[i].age
  <2>1. failures \in Seq(F) /\ FailuresInOrder
    BY DEF FailuresInv
  <2> HIDE DEF F
  <2>2. n \in Nat /\ DOMAIN failures = 1 .. n /\ \A i \in 1 .. n : failures[i] \in F
    BY <2>1
  <2> USE DEF F
  <2> QED
    BY <2>1, <2>2 DEF FailuresInOrder
<1>2. failures' = new
  BY DEF FailuresAged
<1> HIDE DEF n
<1>3. m \in 0 .. n /\ gone = 1 .. m
  <2>1. gone \in SUBSET (1 .. n)
    BY <1>1
  <2>2. \A i \in gone, j \in 1 .. n : j <= i => j \in gone
    BY <1>1, Positive
  <2> HIDE DEF gone
  <2> QED
    BY <1>1, <2>1, <2>2, FirstPositions
<1>4. \A i \in 1 .. n : i \in gone <=> failures[i].age + 1 >= AuthWindow
  BY <1>1
<1> HIDE DEF gone, m
<1>5. \A i \in 1 .. (n - m) :
        /\ i + m \in 1 .. n /\ i + m \notin gone
        /\ failures'[i].source = failures[i + m].source
        /\ failures'[i].tracked = failures[i + m].tracked
        /\ failures'[i].age = failures[i + m].age + 1
        /\ failures'[i] \in F
  <2> SUFFICES ASSUME NEW i \in 1 .. (n - m)
               PROVE  /\ i + m \in 1 .. n /\ i + m \notin gone
                      /\ failures'[i].source = failures[i + m].source
                      /\ failures'[i].tracked = failures[i + m].tracked
                      /\ failures'[i].age = failures[i + m].age + 1
                      /\ failures'[i] \in F
    OBVIOUS
  <2>1. i + m \in 1 .. n /\ i + m \notin gone
    BY <1>1, <1>3
  <2>2. failures[i + m].age + 1 \in 0 .. AuthWindow - 1
    BY <1>1, <1>4, <2>1, Positive
  <2>3. failures'[i] = [source |-> failures[i + m].source,
                        tracked |-> failures[i + m].tracked,
                        age |-> failures[i + m].age + 1]
    BY <1>2
  <2> QED
    BY <1>1, <2>1, <2>2, <2>3
<1>6. DOMAIN failures' = 1 .. (n - m) /\ n - m \in Nat
  BY <1>1, <1>2, <1>3
<1>7. failures' \in Seq(F)
  <2>1. failures' \in [1 .. (n - m) -> F]
    BY <1>2, <1>5, <1>6
  <2> HIDE DEF new, F
  <2> QED
    BY <1>6, <2>1
<1> HIDE DEF new
<1>8. FailuresInOrder'
  <2> SUFFICES ASSUME NEW i \in 1 .. (n - m), NEW j \in 1 .. (n - m), i <= j
               PROVE  failures'[j].age <= failures'[i].age
    BY <1>6 DEF FailuresInOrder
  <2>1. i + m \in 1 .. n /\ j + m \in 1 .. n /\ i + m <= j + m
    BY <1>3, <1>5
  <2>2. failures[j + m].age <= failures[i + m].age
    BY <1>1, <2>1
  <2> QED
    BY <1>1, <1>5, <2>1, <2>2
<1>9. FailuresInv'
  BY <1>7, <1>8 DEF FailuresInv
<1>10. ASSUME NEW a \in 1 .. AuthWindow
       PROVE  Cardinality(YoungFailures(a)') = Cardinality(YoungFailures(a - 1))
  <2>1. YoungFailures(a - 1) \in SUBSET ((m + 1) .. n)
    BY <1>1, <1>3, <1>4, Positive DEF YoungFailures
  <2>2. YoungFailures(a)'
          = {i \in 1 .. (n - m) : i + m \in YoungFailures(a - 1)}
    BY <1>1, <1>5, <1>6, Positive DEF YoungFailures
  <2>3. Cardinality({i \in 1 .. (n - m) : i + m \in YoungFailures(a - 1)})
          = Cardinality(YoungFailures(a - 1))
    <3>1. n \in Nat /\ m \in 0 .. n
      BY <1>1, <1>3
    <3> QED
      BY <2>1, <3>1, Renumbered
  <2> QED
    BY <2>2, <2>3
<1>11. ASSUME NEW x \in Sources, NEW a \in 1 .. AuthWindow
       PROVE  Cardinality(YoungTracked(x, a)')
                = Cardinality(YoungTracked(x, a - 1))
  <2>1. YoungTracked(x, a - 1) \in SUBSET ((m + 1) .. n)
    BY <1>1, <1>3, <1>4, Positive DEF YoungTracked, TrackedOf, FailuresOf
  <2>2. YoungTracked(x, a)'
          = {i \in 1 .. (n - m) : i + m \in YoungTracked(x, a - 1)}
    BY <1>1, <1>5, <1>6, Positive DEF YoungTracked, TrackedOf, FailuresOf
  <2>3. Cardinality({i \in 1 .. (n - m) : i + m \in YoungTracked(x, a - 1)})
          = Cardinality(YoungTracked(x, a - 1))
    <3>1. n \in Nat /\ m \in 0 .. n
      BY <1>1, <1>3
    <3> QED
      BY <2>1, <3>1, Renumbered
  <2> QED
    BY <2>2, <2>3
<1> QED
  BY <1>9, <1>10, <1>11

-----------------------------------------------------------------------------
(* What each step does to the counts *)

\* The tracked failures a source's own counter still shows, and the failures
\* the global one shows, of those younger than a.
OwnCount(s, a) == Count(auth.counters[s].events, a)
GlobalCount(a) == Count(global.events, a)

\* The counters and the failures are in the order of time.
OrderInv ==
  /\ TableInOrder(auth, Sources) /\ InOrder(global.events) /\ FailuresInv

\* A counter whose events are all inside the window shows every one of them.
LEMMA WholeCount ==
  ASSUME NEW w \in Nat \ {0}, NEW c \in Counter(w),
         \A i \in DOMAIN c.events : c.events[i] < w
  PROVE  Count(c.events, w) = Len(c.events)
<1>1. Len(c.events) \in Nat /\ DOMAIN c.events = 1 .. Len(c.events)
  BY DEF Counter
<1>2. Young(c.events, w) = 1 .. Len(c.events)
  BY <1>1 DEF Young
<1>3. Cardinality(1 .. Len(c.events)) = Len(c.events)
  BY <1>1, IntervalSize
<1> QED
  BY <1>2, <1>3 DEF Count

\* All the failures are younger than the window, and so are the tracked ones.
LEMMA WholeWindow ==
  FailuresInv =>
    /\ Len(failures) \in Nat
    /\ Cardinality(YoungFailures(AuthWindow)) = Len(failures)
    /\ \A s \in Sources :
         /\ YoungTracked(s, AuthWindow) = TrackedOf(s)
         /\ Cardinality(TrackedOf(s)) \in Nat
         /\ Cardinality(FailuresOf(s)) \in Nat
         /\ Cardinality(TrackedOf(s)) <= Cardinality(FailuresOf(s))
<1> SUFFICES ASSUME FailuresInv
             PROVE  /\ Len(failures) \in Nat
                    /\ Cardinality(YoungFailures(AuthWindow)) = Len(failures)
                    /\ \A s \in Sources :
                         /\ YoungTracked(s, AuthWindow) = TrackedOf(s)
                         /\ Cardinality(TrackedOf(s)) \in Nat
                         /\ Cardinality(FailuresOf(s)) \in Nat
                         /\ Cardinality(TrackedOf(s))
                              <= Cardinality(FailuresOf(s))
  OBVIOUS
<1> DEFINE F == [source : Sources, tracked : BOOLEAN, age : 0 .. AuthWindow - 1]
<1>1. failures \in Seq(F)
  BY DEF FailuresInv
<1> HIDE DEF F
<1>2. /\ Len(failures) \in Nat /\ DOMAIN failures = 1 .. Len(failures)
      /\ \A i \in DOMAIN failures : failures[i] \in F
  BY <1>1
<1>3. \A i \in DOMAIN failures : failures[i].age < AuthWindow
  BY <1>2, Positive DEF F
<1>4. YoungFailures(AuthWindow) = 1 .. Len(failures)
  BY <1>2, <1>3 DEF YoungFailures
<1>5. Cardinality(1 .. Len(failures)) = Len(failures)
  BY <1>2, IntervalSize
<1>6. \A s \in Sources : YoungTracked(s, AuthWindow) = TrackedOf(s)
  BY <1>3 DEF YoungTracked, TrackedOf, FailuresOf
<1>7. \A s \in Sources :
        /\ Cardinality(YoungTracked(s, AuthWindow)) \in Nat
        /\ Cardinality(FailuresOf(s)) \in Nat
        /\ Cardinality(YoungTracked(s, AuthWindow))
             <= Cardinality(FailuresOf(s))
  BY FailureCounts
<1> QED
  BY <1>2, <1>4, <1>5, <1>6, <1>7

\* The counts are natural numbers.
LEMMA CountsTyped ==
  ASSUME AdmissionInv
  PROVE  /\ AuthWindow \in Nat \ {0} /\ auth \in Table(Sources, AuthWindow)
         /\ Bounded(auth, Sources, AuthWindow)
         /\ global \in Counter(AuthWindow)
         /\ \A s \in Sources : auth.counters[s] \in Counter(AuthWindow)
         /\ \A s \in Sources : auth.counters[s].sat \in Nat
         /\ \A s \in Sources, a \in 0 .. AuthWindow : OwnCount(s, a) \in Nat
         /\ \A a \in 0 .. AuthWindow : GlobalCount(a) \in Nat
<1>1. /\ AuthWindow \in Nat \ {0} /\ global \in Counter(AuthWindow)
      /\ auth \in Table(Sources, AuthWindow)
      /\ Bounded(auth, Sources, AuthWindow)
  BY Positive DEF AdmissionInv, CountersTyped, Bounded
<1>2. \A s \in Sources : auth.counters[s] \in Counter(AuthWindow)
  BY <1>1, TableParts
<1>3. \A s \in Sources : auth.counters[s].sat \in Nat
  BY <1>2 DEF Counter
<1>4. \A s \in Sources, a \in 0 .. AuthWindow : OwnCount(s, a) \in Nat
  BY <1>1, <1>2, CountBounds DEF OwnCount
<1>5. \A a \in 0 .. AuthWindow : GlobalCount(a) \in Nat
  BY <1>1, CountBounds DEF GlobalCount
<1> QED
  BY <1>1, <1>2, <1>3, <1>4, <1>5

\* Only a failure, the timer and time itself touch what counts failures.
LEMMA CountingSteps ==
  ASSUME [Next]_vars
  PROVE  \/ \E k \in Conns : RecordAuthFailure(k)
         \/ Cleanup \/ Tick
         \/ UNCHANGED <<auth, global, blocked, failures>>
<1>1. ASSUME NEW k \in Conns,
             \/ Arrive(k) \/ IsIpBlocked(k) \/ Verify(k)
             \/ IsClientSuspended(k) \/ TurnedAway(k)
      PROVE  UNCHANGED <<auth, global, blocked, failures>>
  BY <1>1 DEF Arrive, IsIpBlocked, Verify, IsClientSuspended, TurnedAway,
              detector, ghosts
<1>2. ASSUME NEW k \in Conns, CheckModel(k)
      PROVE  UNCHANGED <<auth, global, blocked, failures>>
  BY <1>2 DEF CheckModel, detector, ghosts
<1>3. ASSUME NEW k \in Conns, Answer(k)
      PROVE  UNCHANGED <<auth, global, blocked, failures>>
  BY <1>3 DEF Answer, detector, ghosts
<1>4. ASSUME NEW k \in Conns, AdminSuspend(k)
      PROVE  UNCHANGED <<auth, global, blocked, failures>>
  BY <1>4 DEF AdminSuspend, detector
<1>5. CASE Lapse \/ UNCHANGED vars
  BY <1>5 DEF Lapse, vars, detector, ghosts
<1> QED
  BY <1>1, <1>2, <1>3, <1>4, <1>5 DEF Next, Gates

\* The timer's cleanup changes no count.
LEMMA CleanupCounts ==
  ASSUME AdmissionInv, OrderInv, Cleanup
  PROVE  /\ OrderInv' /\ UNCHANGED <<blocked, failures>>
         /\ \A s \in Sources, a \in 1 .. AuthWindow :
              OwnCount(s, a)' = OwnCount(s, a)
         /\ \A s \in Sources :
              auth.counters[s].sat = 0 => auth'.counters[s].sat = 0
         /\ \A a \in 1 .. AuthWindow : GlobalCount(a)' = GlobalCount(a)
         /\ global.sat = 0 => global'.sat = 0
<1>1. /\ auth' = PruneLapsed(auth) /\ global' = Pruned(global)
      /\ UNCHANGED <<blocked, failures>>
  BY DEF Cleanup, ghosts
<1>2. \A a \in 1 .. AuthWindow : a \in 0 .. AuthWindow
  BY Positive
<1>3. /\ TableInOrder(auth', Sources)
      /\ \A s \in Sources, a \in 0 .. AuthWindow :
           Count(auth'.counters[s].events, a) = Count(auth.counters[s].events, a)
      /\ \A s \in Sources :
           auth.counters[s].sat = 0 => auth'.counters[s].sat = 0
  BY <1>1, CountsTyped, PruneLapsedCount DEF OrderInv
<1>4. /\ InOrder(global'.events)
      /\ \A a \in 0 .. AuthWindow :
           Count(global'.events, a) = Count(global.events, a)
  BY <1>1, CountsTyped, PrunedCount DEF OrderInv
<1>5. global.sat = 0 => global'.sat = 0
  BY <1>1, CountsTyped, NothingSaturates
<1>6. FailuresInv'
  BY <1>1 DEF OrderInv, FailuresInv, FailuresInOrder
<1> QED
  BY <1>1, <1>2, <1>3, <1>4, <1>5, <1>6 DEF OrderInv, OwnCount, GlobalCount

\* A tick makes every count that of what was one tick younger.
LEMMA TickCounts ==
  ASSUME AdmissionInv, OrderInv, Tick
  PROVE  /\ OrderInv' /\ failures' = FailuresAged
         /\ \A s \in Sources, a \in 1 .. AuthWindow :
              OwnCount(s, a)' = OwnCount(s, a - 1)
         /\ \A s \in Sources :
              auth.counters[s].sat = 0 => auth'.counters[s].sat = 0
         /\ \A a \in 1 .. AuthWindow : GlobalCount(a)' = GlobalCount(a - 1)
         /\ global.sat = 0 => global'.sat = 0
         /\ \A s \in Sources :
              blocked'[s] = IF blocked[s] = 0 THEN 0 ELSE blocked[s] - 1
<1>1. /\ auth' = TableAged(auth) /\ global' = Aged(global)
      /\ failures' = FailuresAged
  BY DEF Tick
<1>2. /\ TableInOrder(auth', Sources)
      /\ \A s \in Sources, a \in 1 .. AuthWindow :
           Count(auth'.counters[s].events, a)
             = Count(auth.counters[s].events, a - 1)
      /\ \A s \in Sources :
           auth.counters[s].sat = 0 => auth'.counters[s].sat = 0
  BY <1>1, CountsTyped, TableAgedCount DEF OrderInv
<1>3. /\ InOrder(global'.events)
      /\ \A a \in 1 .. AuthWindow :
           Count(global'.events, a) = Count(global.events, a - 1)
  BY <1>1, CountsTyped, AgedCount DEF OrderInv
<1>4. global.sat = 0 => global'.sat = 0
  BY <1>1, CountsTyped, NothingSaturates
<1>5. FailuresInv'
  BY <1>1, FailuresTick DEF OrderInv
<1>6. \A s \in Sources :
        blocked'[s] = IF blocked[s] = 0 THEN 0 ELSE blocked[s] - 1
  <2>1. /\ DOMAIN blocked = Sources /\ \A s \in Sources : blocked[s] \in Nat
    BY Positive DEF AdmissionInv, CountersTyped
  <2>2. \A s \in Sources : blocked'[s] = Max({blocked[s] - 1, 0})
    BY <2>1 DEF Tick, Elapsed
  <2> QED
    BY <2>1, <2>2, ElapsedDeadline
<1> QED
  BY <1>1, <1>2, <1>3, <1>4, <1>5, <1>6 DEF OrderInv, OwnCount, GlobalCount

\* A failure is counted once by the global counter, and by its source's own
\* if the table tracks it, unless the counter is at its cap; no other source's
\* count or block changes.
FailureCounted(s, tracked) ==
  /\ failures' = Append(failures, [source |-> s, tracked |-> tracked,
                                   age |-> 0])
  /\ blocked' = [blocked EXCEPT ![s] =
                   IF tracked /\ Total(auth'.counters[s]) >= AuthThreshold
                   THEN BlockFor ELSE blocked[s]]
  /\ \A x \in Sources, a \in 1 .. AuthWindow :
       x # s \/ ~tracked => OwnCount(x, a)' = OwnCount(x, a)
  /\ \A x \in Sources : x # s \/ ~tracked =>
       (auth.counters[x].sat = 0 => auth'.counters[x].sat = 0)
  /\ tracked =>
       /\ auth'.counters[s] \in Counter(AuthWindow)
       /\ OwnCount(s, AuthWindow)' = Len(auth'.counters[s].events)
       /\ \/ /\ auth.counters[s].sat = 0 => auth'.counters[s].sat = 0
             /\ \A a \in 1 .. AuthWindow :
                  OwnCount(s, a)' = OwnCount(s, a) + 1
          \/ /\ Len(auth'.counters[s].events) >= MaxEvents
             /\ Total(auth'.counters[s]) > MaxEvents
             /\ \A a \in 1 .. AuthWindow : OwnCount(s, a)' = OwnCount(s, a)
  /\ GlobalCount(AuthWindow)' = Len(global'.events)
  /\ \/ /\ global.sat = 0 => global'.sat = 0
        /\ \A a \in 1 .. AuthWindow : GlobalCount(a)' = GlobalCount(a) + 1
     \/ /\ Len(global'.events) >= MaxEvents
        /\ \A a \in 1 .. AuthWindow : GlobalCount(a)' = GlobalCount(a)

\* This is what record_auth_failure does.
LEMMA FailureStep ==
  ASSUME AdmissionInv, OrderInv, NEW k \in Conns, RecordAuthFailure(k)
  PROVE  /\ OrderInv'
         /\ \E s \in Sources, tracked \in BOOLEAN : FailureCounted(s, tracked)
<1>0. PICK s : s = Peer[k].cert
  OBVIOUS
<1>1. s \in Sources
  BY <1>0, PeersKnown
<1>2. /\ auth' = Record(auth, s).table /\ global' = Incremented(global)
      /\ blocked' = [blocked EXCEPT ![s] =
                       IF Record(auth, s).tracked
                          /\ Total(auth'.counters[s]) >= AuthThreshold
                       THEN BlockFor ELSE blocked[s]]
      /\ failures' = Append(failures, [source |-> s,
                                       tracked |-> Record(auth, s).tracked,
                                       age |-> 0])
  BY <1>0 DEF RecordAuthFailure, Blocks
<1>3. Record(auth, s).tracked \in BOOLEAN
  BY DEF Record
<1>4. PICK tracked \in BOOLEAN : tracked = Record(auth, s).tracked
  BY <1>3
<1>5. Bounded(auth, Sources, AuthWindow) /\ AuthWindow \in Nat \ {0}
  BY CountsTyped
<1>6. /\ TableInOrder(auth', Sources)
      /\ \A x \in Sources, a \in 1 .. AuthWindow :
           x # s \/ ~tracked => Count(auth'.counters[x].events, a)
                                  = Count(auth.counters[x].events, a)
      /\ \A x \in Sources : x # s \/ ~tracked =>
           (auth.counters[x].sat = 0 => auth'.counters[x].sat = 0)
      /\ tracked =>
           /\ \A i \in DOMAIN auth'.counters[s].events :
                auth'.counters[s].events[i] < AuthWindow
           /\ \/ /\ auth.counters[s].sat = 0 => auth'.counters[s].sat = 0
                 /\ \A a \in 1 .. AuthWindow :
                      Count(auth'.counters[s].events, a)
                        = Count(auth.counters[s].events, a) + 1
              \/ /\ Len(auth'.counters[s].events) >= MaxEvents
                 /\ Total(auth'.counters[s]) > MaxEvents
                 /\ \A a \in 1 .. AuthWindow :
                      Count(auth'.counters[s].events, a)
                        = Count(auth.counters[s].events, a)
  <2>1. TableInOrder(auth, Sources)
    BY DEF OrderInv
  <2>2. Recorded(auth, Record(auth, s).table, Record(auth, s).tracked, s,
                 Sources, AuthWindow)
    BY <1>1, <1>5, <2>1, RecordCount
  <2>3. Recorded(auth, auth', tracked, s, Sources, AuthWindow)
    BY <1>2, <1>4, <2>2
  <2> QED
    BY <2>3 DEF Recorded
<1>7. auth'.counters[s] \in Counter(AuthWindow)
  <2>1. auth' \in Table(Sources, AuthWindow)
    BY <1>1, <1>2, <1>5, RecordBounded DEF Bounded
  <2> QED
    BY <1>1, <1>5, <2>1, TableParts
<1>8. tracked => Count(auth'.counters[s].events, AuthWindow)
                   = Len(auth'.counters[s].events)
  BY <1>5, <1>6, <1>7, WholeCount
<1>9. /\ InOrder(global'.events)
      /\ \A i \in DOMAIN global'.events : global'.events[i] < AuthWindow
      /\ \/ /\ global.sat = 0 => global'.sat = 0
            /\ \A a \in 1 .. AuthWindow :
                 Count(global'.events, a) = Count(global.events, a) + 1
         \/ /\ Len(global'.events) >= MaxEvents
            /\ \A a \in 1 .. AuthWindow :
                 Count(global'.events, a) = Count(global.events, a)
  BY <1>2, CountsTyped, IncrementedCount DEF OrderInv
<1>10. Count(global'.events, AuthWindow) = Len(global'.events)
  <2>1. global' \in Counter(AuthWindow)
    BY <1>2, CountsTyped, IncrementedCounter
  <2> QED
    BY <1>5, <1>9, <2>1, WholeCount
<1>11. OrderInv'
  <2>1. FailuresInv'
    BY <1>1, <1>2, <1>4, FailureRecorded DEF OrderInv
  <2> QED
    BY <1>6, <1>9, <2>1 DEF OrderInv
<1>12. /\ \A x, a : OwnCount(x, a)' = Count(auth'.counters[x].events, a)
       /\ \A x, a : OwnCount(x, a) = Count(auth.counters[x].events, a)
       /\ \A a : GlobalCount(a)' = Count(global'.events, a)
       /\ \A a : GlobalCount(a) = Count(global.events, a)
  BY DEF OwnCount, GlobalCount
<1>13. /\ \A x \in Sources, a \in 1 .. AuthWindow :
            x # s \/ ~tracked => OwnCount(x, a)' = OwnCount(x, a)
       /\ tracked =>
            /\ OwnCount(s, AuthWindow)' = Len(auth'.counters[s].events)
            /\ \/ /\ auth.counters[s].sat = 0 => auth'.counters[s].sat = 0
                  /\ \A a \in 1 .. AuthWindow :
                       OwnCount(s, a)' = OwnCount(s, a) + 1
               \/ /\ Len(auth'.counters[s].events) >= MaxEvents
                  /\ Total(auth'.counters[s]) > MaxEvents
                  /\ \A a \in 1 .. AuthWindow :
                       OwnCount(s, a)' = OwnCount(s, a)
  BY <1>6, <1>8, <1>12
<1>14. /\ GlobalCount(AuthWindow)' = Len(global'.events)
       /\ \/ /\ global.sat = 0 => global'.sat = 0
             /\ \A a \in 1 .. AuthWindow : GlobalCount(a)' = GlobalCount(a) + 1
          \/ /\ Len(global'.events) >= MaxEvents
             /\ \A a \in 1 .. AuthWindow : GlobalCount(a)' = GlobalCount(a)
  BY <1>9, <1>10, <1>12
<1>15. FailureCounted(s, tracked)
  BY <1>2, <1>4, <1>6, <1>7, <1>13, <1>14 DEF FailureCounted
<1> QED
  BY <1>1, <1>11, <1>15

\* Nothing is younger than no time at all.
LEMMA NothingYet ==
  ASSUME AdmissionInv, OrderInv
  PROVE  /\ GlobalCount(0) = 0 /\ Cardinality(YoungFailures(0)) = 0
         /\ \A s \in Sources : /\ OwnCount(s, 0) = 0
                               /\ Cardinality(YoungTracked(s, 0)) = 0
<1>1. ASSUME NEW c \in Counter(AuthWindow)
      PROVE  Count(c.events, 0) = 0
  <2>1. c.events \in Seq(0 .. AuthWindow) /\ AuthWindow \in Nat
    BY Positive DEF Counter
  <2>2. Young(c.events, 0) = {}
    BY <2>1 DEF Young
  <2> QED
    BY <2>2, FS_EmptySet DEF Count
<1>2. GlobalCount(0) = 0 /\ \A s \in Sources : OwnCount(s, 0) = 0
  BY <1>1, CountsTyped DEF OwnCount, GlobalCount
<1> DEFINE F == [source : Sources, tracked : BOOLEAN, age : 0 .. AuthWindow - 1]
<1>3. failures \in Seq(F)
  BY DEF OrderInv, FailuresInv
<1> HIDE DEF F
<1>4. \A i \in DOMAIN failures : failures[i] \in F
  BY <1>3
<1>5. \A i \in DOMAIN failures : ~(failures[i].age < 0)
  BY <1>4, Positive DEF F
<1>6. YoungFailures(0) = {} /\ \A s \in Sources : YoungTracked(s, 0) = {}
  BY <1>5 DEF YoungFailures, YoungTracked, TrackedOf, FailuresOf
<1> QED
  BY <1>2, <1>6, FS_EmptySet

\* A step that leaves the detector's counting alone leaves every count alone.
LEMMA CountsStay ==
  ASSUME UNCHANGED <<auth, global, blocked, failures>>
  PROVE  /\ OrderInv' = OrderInv
         /\ \A s, a : OwnCount(s, a)' = OwnCount(s, a)
         /\ \A a : GlobalCount(a)' = GlobalCount(a)
         /\ \A a : YoungFailures(a)' = YoungFailures(a)
         /\ \A s, a : YoungTracked(s, a)' = YoungTracked(s, a)
         /\ \A s : FailuresOf(s)' = FailuresOf(s)
         /\ \A s : TrackedOf(s)' = TrackedOf(s)
BY DEF OrderInv, FailuresInv, FailuresInOrder, OwnCount, GlobalCount,
       YoungFailures, YoungTracked, FailuresOf, TrackedOf

\* The order of time is kept by every step.
LEMMA OrderInductive == Spec => []OrderInv
<1>1. Init => OrderInv
  <2> SUFFICES ASSUME Init
               PROVE  OrderInv
    OBVIOUS
  <2>1. \A s \in Sources : auth.counters[s].events = <<>>
    BY NewCounterTyped, Positive DEF Init, NewTable
  <2>2. global.events = <<>> /\ failures = <<>>
    BY NewCounterTyped, Positive DEF Init
  <2> QED
    BY <2>1, <2>2 DEF OrderInv, TableInOrder, InOrder, FailuresInv,
                      FailuresInOrder
<1>2. AdmissionInv /\ OrderInv /\ [Next]_vars => OrderInv'
  <2> SUFFICES ASSUME AdmissionInv, OrderInv, [Next]_vars
               PROVE  OrderInv'
    OBVIOUS
  <2>1. ASSUME NEW k \in Conns, RecordAuthFailure(k)
        PROVE  OrderInv'
    BY <2>1, FailureStep
  <2>2. CASE Cleanup
    BY <2>2, CleanupCounts
  <2>3. CASE Tick
    BY <2>3, TickCounts
  <2>4. CASE UNCHANGED <<auth, global, blocked, failures>>
    BY <2>4, CountsStay
  <2> QED
    BY <2>1, <2>2, <2>3, <2>4, CountingSteps
<1> QED
  BY <1>1, <1>2, AdmissionInductive, PTL DEF Spec

\* Every variable of the gates and of the attack detector keeps its type, and
\* no table of counters ever holds more than MAX_TRACKED_KEYS keys, however
\* many sources fail and whenever the sweeps come.
THEOREM AdmissionTypeCorrect == Spec => []TypeOK
<1>1. AdmissionInv /\ OrderInv => TypeOK
  BY DEF AdmissionInv, CountersTyped, ListsTyped, Bounded, TypeOK, ConnRecords,
         OrderInv, FailuresInv
<1> QED
  BY <1>1, AdmissionInductive, OrderInductive, PTL

-----------------------------------------------------------------------------
(* A flood is blocked *)

\* For every age a, not only the window: a source's counter misses no tracked
\* failure younger than a, and has blocked the source if it shows the
\* threshold; a block that was set by one of these failures has more left than
\* the time they take to reach the age a.
FloodInv ==
  \A s \in Sources, a \in 1 .. AuthWindow :
    /\ \/ Cardinality(YoungTracked(s, a)) <= OwnCount(s, a)
       \/ blocked[s] > BlockFor - a
    /\ OwnCount(s, a) >= AuthThreshold => blocked[s] > BlockFor - a

LEMMA FloodNext ==
  ASSUME AuthThreshold <= MaxEvents,
         AdmissionInv, AdmissionInv', OrderInv, FloodInv, [Next]_vars
  PROVE  FloodInv'
<1>0. /\ AuthWindow \in Nat \ {0} /\ BlockFor \in Nat \ {0}
      /\ AuthThreshold \in Nat \ {0} /\ AuthWindow <= BlockFor
      /\ MaxEvents \in Nat \ {0}
  BY AdmissionAssumption
<1>1. /\ DOMAIN blocked = Sources
      /\ \A s \in Sources : blocked[s] \in 0 .. BlockFor
  BY DEF AdmissionInv, CountersTyped
<1>2. \A s \in Sources, a \in 0 .. AuthWindow :
        OwnCount(s, a) \in Nat /\ Cardinality(YoungTracked(s, a)) \in Nat
  BY CountsTyped, FailureCounts DEF OrderInv
<1>3. ASSUME NEW k \in Conns, RecordAuthFailure(k)
      PROVE  FloodInv'
  <2>0. PICK s \in Sources, tracked \in BOOLEAN : FailureCounted(s, tracked)
    BY <1>3, FailureStep
  <2>1. /\ failures' = Append(failures, [source |-> s, tracked |-> tracked,
                                         age |-> 0])
        /\ blocked' = [blocked EXCEPT ![s] =
                         IF tracked
                            /\ Total(auth'.counters[s]) >= AuthThreshold
                         THEN BlockFor ELSE blocked[s]]
        /\ \A x \in Sources, a \in 1 .. AuthWindow :
             x # s \/ ~tracked => OwnCount(x, a)' = OwnCount(x, a)
        /\ tracked =>
             \/ \A a \in 1 .. AuthWindow :
                  OwnCount(s, a)' = OwnCount(s, a) + 1
             \/ Total(auth'.counters[s]) > MaxEvents
    BY <2>0 DEF FailureCounted
  <2>2. \A x \in Sources, a \in 1 .. AuthWindow :
          Cardinality(YoungTracked(x, a)')
            = IF x = s /\ tracked THEN Cardinality(YoungTracked(x, a)) + 1
              ELSE Cardinality(YoungTracked(x, a))
    BY <2>1, FailureRecorded DEF OrderInv
  <2>3. \A x \in Sources, a \in 1 .. AuthWindow :
          /\ auth'.counters[x] \in Counter(AuthWindow)
          /\ OwnCount(x, a)' <= Total(auth'.counters[x])
    <3>1. auth' \in Table(Sources, AuthWindow)
      BY DEF AdmissionInv, CountersTyped, Bounded
    <3>2. \A x \in Sources : auth'.counters[x] \in Counter(AuthWindow)
      BY <1>0, <3>1, TableParts
    <3> QED
      BY <1>0, <3>2, CountBounds DEF OwnCount
  <2>4. Total(auth'.counters[s]) \in Nat
    <3>1. 1 \in 1 .. AuthWindow
      BY <1>0
    <3>2. auth'.counters[s] \in Counter(AuthWindow)
      BY <2>3, <3>1
    <3> QED
      BY <3>2 DEF Total, Counter
  <2> SUFFICES ASSUME NEW x \in Sources, NEW a \in 1 .. AuthWindow
               PROVE  /\ \/ Cardinality(YoungTracked(x, a)') <= OwnCount(x, a)'
                         \/ blocked'[x] > BlockFor - a
                      /\ OwnCount(x, a)' >= AuthThreshold =>
                           blocked'[x] > BlockFor - a
    BY DEF FloodInv
  <2>5. /\ \/ Cardinality(YoungTracked(x, a)) <= OwnCount(x, a)
           \/ blocked[x] > BlockFor - a
        /\ OwnCount(x, a) >= AuthThreshold => blocked[x] > BlockFor - a
        /\ OwnCount(x, a) \in Nat /\ Cardinality(YoungTracked(x, a)) \in Nat
        /\ blocked[x] \in 0 .. BlockFor
    BY <1>1, <1>2 DEF FloodInv
  <2>6. CASE x # s \/ ~tracked
    <3>1. blocked'[x] = blocked[x] /\ OwnCount(x, a)' = OwnCount(x, a)
      BY <1>1, <2>1, <2>6
    <3>2. Cardinality(YoungTracked(x, a)') = Cardinality(YoungTracked(x, a))
      BY <2>2, <2>6
    <3> QED
      BY <2>5, <3>1, <3>2
  <2>7. CASE x = s /\ tracked
    <3>1. blocked'[x] = IF Total(auth'.counters[s]) >= AuthThreshold
                        THEN BlockFor ELSE blocked[x]
      BY <1>1, <2>1, <2>7
    <3>2. Cardinality(YoungTracked(x, a)')
            = Cardinality(YoungTracked(x, a)) + 1
      BY <2>2, <2>7
    <3>3. CASE Total(auth'.counters[s]) >= AuthThreshold
      BY <1>0, <3>1, <3>3
    <3>4. CASE ~(Total(auth'.counters[s]) >= AuthThreshold)
      <4>1. OwnCount(x, a)' = OwnCount(x, a) + 1
        BY <1>0, <2>1, <2>4, <2>7, <3>4
      <4>2. OwnCount(x, a)' < AuthThreshold
        BY <1>0, <2>3, <2>4, <2>5, <2>7, <3>4, <4>1
      <4> QED
        BY <1>0, <2>5, <3>1, <3>2, <3>4, <4>1, <4>2
    <3> QED
      BY <3>3, <3>4
  <2> QED
    BY <2>6, <2>7
<1>4. CASE Tick
  <2>1. /\ \A s \in Sources, a \in 1 .. AuthWindow :
             OwnCount(s, a)' = OwnCount(s, a - 1)
        /\ \A s \in Sources :
             blocked'[s] = IF blocked[s] = 0 THEN 0 ELSE blocked[s] - 1
        /\ failures' = FailuresAged
    BY <1>4, TickCounts
  <2>2. \A s \in Sources, a \in 1 .. AuthWindow :
          Cardinality(YoungTracked(s, a)') = Cardinality(YoungTracked(s, a - 1))
    BY <2>1, FailuresTick DEF OrderInv
  <2> SUFFICES ASSUME NEW x \in Sources, NEW a \in 1 .. AuthWindow
               PROVE  /\ \/ Cardinality(YoungTracked(x, a)') <= OwnCount(x, a)'
                         \/ blocked'[x] > BlockFor - a
                      /\ OwnCount(x, a)' >= AuthThreshold =>
                           blocked'[x] > BlockFor - a
    BY DEF FloodInv
  <2>3. /\ OwnCount(x, a)' = OwnCount(x, a - 1)
        /\ Cardinality(YoungTracked(x, a)') = Cardinality(YoungTracked(x, a - 1))
        /\ blocked'[x] = IF blocked[x] = 0 THEN 0 ELSE blocked[x] - 1
        /\ blocked[x] \in 0 .. BlockFor
    BY <1>1, <2>1, <2>2
  <2>4. CASE a = 1
    <3>1. OwnCount(x, a - 1) = 0 /\ Cardinality(YoungTracked(x, a - 1)) = 0
      BY <2>4, NothingYet
    <3> QED
      BY <1>0, <2>3, <3>1
  <2>5. CASE a # 1
    <3>1. a - 1 \in 1 .. AuthWindow /\ a - 1 \in 0 .. AuthWindow
      BY <1>0, <2>5
    <3>2. /\ \/ Cardinality(YoungTracked(x, a - 1)) <= OwnCount(x, a - 1)
             \/ blocked[x] > BlockFor - (a - 1)
          /\ OwnCount(x, a - 1) >= AuthThreshold =>
               blocked[x] > BlockFor - (a - 1)
      BY <3>1 DEF FloodInv
    <3>3. /\ OwnCount(x, a - 1) \in Nat
          /\ Cardinality(YoungTracked(x, a - 1)) \in Nat
      BY <1>2, <3>1
    <3>4. blocked[x] > BlockFor - (a - 1) => blocked'[x] > BlockFor - a
      BY <1>0, <2>3, <3>1
    <3> QED
      BY <2>3, <3>2, <3>3, <3>4
  <2> QED
    BY <2>4, <2>5
<1>5. CASE Cleanup
  <2>1. /\ UNCHANGED <<blocked, failures>>
        /\ \A s \in Sources, a \in 1 .. AuthWindow :
             OwnCount(s, a)' = OwnCount(s, a)
    BY <1>5, CleanupCounts
  <2>2. \A s, a : YoungTracked(s, a)' = YoungTracked(s, a)
    BY <2>1 DEF YoungTracked, TrackedOf, FailuresOf
  <2> QED
    BY <2>1, <2>2 DEF FloodInv
<1>6. CASE UNCHANGED <<auth, global, blocked, failures>>
  BY <1>6, CountsStay DEF FloodInv
<1> QED
  BY <1>3, <1>4, <1>5, <1>6, CountingSteps

\* A source whose tracked failures of one window reach the threshold is
\* blocked.  The threshold is within what a counter keeps: the thresholds of
\* attack_detector.rs are in the tens, MAX_EVENTS_PER_COUNTER is 512.
THEOREM FloodsAreBlocked ==
  ASSUME AuthThreshold <= MaxEvents
  PROVE  Spec => []FloodIsBlocked
<1>0. /\ AuthWindow \in Nat \ {0} /\ BlockFor \in Nat \ {0}
      /\ AuthThreshold \in Nat \ {0} /\ AuthWindow <= BlockFor
  BY AdmissionAssumption
<1>1. Init => FloodInv
  <2> SUFFICES ASSUME Init, NEW s \in Sources, NEW a \in 1 .. AuthWindow
               PROVE  /\ Cardinality(YoungTracked(s, a)) <= OwnCount(s, a)
                      /\ ~(OwnCount(s, a) >= AuthThreshold)
    BY DEF FloodInv
  <2>1. YoungTracked(s, a) = {}
    BY DEF Init, YoungTracked, TrackedOf, FailuresOf
  <2>2. auth.counters[s].events = <<>>
    BY NewCounterTyped, Positive DEF Init, NewTable
  <2>3. Young(auth.counters[s].events, a) = {}
    BY <2>2 DEF Young
  <2> QED
    BY <1>0, <2>1, <2>3, FS_EmptySet DEF OwnCount, Count
<1>2. AdmissionInv /\ AdmissionInv' /\ OrderInv /\ FloodInv /\ [Next]_vars
        => FloodInv'
  BY FloodNext
<1>3. AdmissionInv /\ OrderInv /\ FloodInv => FloodIsBlocked
  <2> SUFFICES ASSUME AdmissionInv, OrderInv, FloodInv, NEW s \in Sources,
                      Cardinality(TrackedOf(s)) >= AuthThreshold
               PROVE  blocked[s] > 0
    BY DEF FloodIsBlocked
  <2>1. AuthWindow \in 1 .. AuthWindow /\ AuthWindow \in 0 .. AuthWindow
    BY <1>0
  <2>2. YoungTracked(s, AuthWindow) = TrackedOf(s)
    BY WholeWindow DEF OrderInv
  <2>3. /\ OwnCount(s, AuthWindow) \in Nat
        /\ Cardinality(YoungTracked(s, AuthWindow)) \in Nat
        /\ blocked[s] \in 0 .. BlockFor
    BY <2>1, CountsTyped, FailureCounts
       DEF OrderInv, AdmissionInv, CountersTyped
  <2>4. blocked[s] > BlockFor - AuthWindow
    BY <1>0, <2>1, <2>2, <2>3 DEF FloodInv
  <2> QED
    BY <1>0, <2>3, <2>4
<1> QED
  BY <1>1, <1>2, <1>3, AdmissionInductive, OrderInductive, PTL DEF Spec

-----------------------------------------------------------------------------
(* Only a source's own failures are counted for it *)

\* No window has more tracked failures of one source than its counter keeps
\* (MAX_EVENTS_PER_COUNTER).
SourcesWithinCap ==
  \A s \in Sources : Cardinality(TrackedOf(s)) <= MaxEvents

\* What holds of every window holds of the next.
LEMMA WholeWindowNext ==
  FailuresInv' =>
    \A s \in Sources :
      /\ YoungTracked(s, AuthWindow)' = TrackedOf(s)'
      /\ Cardinality(TrackedOf(s)') \in Nat
      /\ Cardinality(FailuresOf(s)') \in Nat
      /\ Cardinality(TrackedOf(s)') <= Cardinality(FailuresOf(s)')
<1> DEFINE whole == \A s \in Sources :
                      /\ YoungTracked(s, AuthWindow) = TrackedOf(s)
                      /\ Cardinality(TrackedOf(s)) \in Nat
                      /\ Cardinality(FailuresOf(s)) \in Nat
                      /\ Cardinality(TrackedOf(s)) <= Cardinality(FailuresOf(s))
<1>1. FailuresInv => whole
  BY WholeWindow
<1>2. FailuresInv' => whole'
  BY <1>1, PTL
<1> QED
  BY <1>2

\* The counters of the sources show their tracked failures exactly.
SourcesExact ==
  \A s \in Sources :
    /\ auth.counters[s].sat = 0
    /\ \A a \in 1 .. AuthWindow :
         Cardinality(YoungTracked(s, a)) = OwnCount(s, a)

LEMMA SourcesExactNext ==
  ASSUME AdmissionInv, OrderInv, SourcesExact, SourcesWithinCap', [Next]_vars
  PROVE  SourcesExact'
<1>0. /\ AuthWindow \in Nat \ {0} /\ MaxEvents \in Nat \ {0}
      /\ AuthWindow \in 1 .. AuthWindow
  BY Positive
<1>1. ASSUME NEW k \in Conns, RecordAuthFailure(k)
      PROVE  SourcesExact'
  <2>0. PICK s \in Sources, tracked \in BOOLEAN : FailureCounted(s, tracked)
    BY <1>1, FailureStep
  <2>1. /\ failures' = Append(failures, [source |-> s, tracked |-> tracked,
                                         age |-> 0])
        /\ \A x \in Sources, a \in 1 .. AuthWindow :
             x # s \/ ~tracked => OwnCount(x, a)' = OwnCount(x, a)
        /\ \A x \in Sources : x # s \/ ~tracked =>
             (auth.counters[x].sat = 0 => auth'.counters[x].sat = 0)
        /\ tracked =>
             /\ OwnCount(s, AuthWindow)' = Len(auth'.counters[s].events)
             /\ \/ /\ auth.counters[s].sat = 0 => auth'.counters[s].sat = 0
                   /\ \A a \in 1 .. AuthWindow :
                        OwnCount(s, a)' = OwnCount(s, a) + 1
                \/ /\ Len(auth'.counters[s].events) >= MaxEvents
                   /\ \A a \in 1 .. AuthWindow :
                        OwnCount(s, a)' = OwnCount(s, a)
    BY <2>0 DEF FailureCounted
  <2>2. \A x \in Sources, a \in 1 .. AuthWindow :
          Cardinality(YoungTracked(x, a)')
            = IF x = s /\ tracked THEN Cardinality(YoungTracked(x, a)) + 1
              ELSE Cardinality(YoungTracked(x, a))
    BY <2>1, FailureRecorded DEF OrderInv
  <2>3. ASSUME NEW x \in Sources, x # s \/ ~tracked
        PROVE  /\ auth'.counters[x].sat = 0
               /\ \A a \in 1 .. AuthWindow :
                    Cardinality(YoungTracked(x, a)') = OwnCount(x, a)'
    BY <2>1, <2>2, <2>3 DEF SourcesExact
  <2>4. ASSUME tracked
        PROVE  /\ auth'.counters[s].sat = 0
               /\ \A a \in 1 .. AuthWindow :
                    Cardinality(YoungTracked(s, a)') = OwnCount(s, a)'
    <3>1. CASE /\ auth.counters[s].sat = 0 => auth'.counters[s].sat = 0
               /\ \A a \in 1 .. AuthWindow :
                    OwnCount(s, a)' = OwnCount(s, a) + 1
      BY <2>2, <2>4, <3>1 DEF SourcesExact
    <3>2. CASE /\ Len(auth'.counters[s].events) >= MaxEvents
               /\ \A a \in 1 .. AuthWindow : OwnCount(s, a)' = OwnCount(s, a)
      <4>1. YoungTracked(s, AuthWindow)' = TrackedOf(s)'
        BY <1>1, FailureStep, WholeWindowNext DEF OrderInv
      <4>2. /\ OwnCount(s, AuthWindow) >= MaxEvents
            /\ Cardinality(YoungTracked(s, AuthWindow))
                 = OwnCount(s, AuthWindow)
        BY <1>0, <2>1, <2>4, <3>2 DEF SourcesExact
      <4>3. OwnCount(s, AuthWindow) \in Nat
        <5>1. AuthWindow \in 0 .. AuthWindow
          BY <1>0
        <5> QED
          BY <5>1, CountsTyped
      <4>4. Cardinality(TrackedOf(s)') = OwnCount(s, AuthWindow) + 1
        BY <1>0, <2>2, <2>4, <4>1, <4>2
      <4> QED
        BY <1>0, <4>2, <4>3, <4>4 DEF SourcesWithinCap
    <3> QED
      BY <2>1, <2>4, <3>1, <3>2
  <2> QED
    BY <2>3, <2>4 DEF SourcesExact
<1>2. CASE Tick
  <2>1. /\ \A s \in Sources, a \in 1 .. AuthWindow :
             OwnCount(s, a)' = OwnCount(s, a - 1)
        /\ \A s \in Sources :
             auth.counters[s].sat = 0 => auth'.counters[s].sat = 0
        /\ failures' = FailuresAged
    BY <1>2, TickCounts
  <2>2. \A s \in Sources, a \in 1 .. AuthWindow :
          Cardinality(YoungTracked(s, a)') = Cardinality(YoungTracked(s, a - 1))
    BY <2>1, FailuresTick DEF OrderInv
  <2>3. ASSUME NEW s \in Sources, NEW a \in 1 .. AuthWindow
        PROVE  Cardinality(YoungTracked(s, a - 1)) = OwnCount(s, a - 1)
    <3>1. CASE a = 1
      BY <3>1, NothingYet
    <3>2. CASE a # 1
      <4>1. a - 1 \in 1 .. AuthWindow
        BY <1>0, <3>2
      <4> QED
        BY <4>1 DEF SourcesExact
    <3> QED
      BY <3>1, <3>2
  <2> QED
    BY <2>1, <2>2, <2>3 DEF SourcesExact
<1>3. CASE Cleanup
  <2>1. /\ UNCHANGED failures
        /\ \A s \in Sources :
             auth.counters[s].sat = 0 => auth'.counters[s].sat = 0
        /\ \A s \in Sources, a \in 1 .. AuthWindow :
             OwnCount(s, a)' = OwnCount(s, a)
    BY <1>3, CleanupCounts
  <2>2. \A s, a : YoungTracked(s, a)' = YoungTracked(s, a)
    BY <2>1 DEF YoungTracked, TrackedOf, FailuresOf
  <2> QED
    BY <2>1, <2>2 DEF SourcesExact
<1>4. CASE UNCHANGED <<auth, global, blocked, failures>>
  BY <1>4, CountsStay DEF SourcesExact
<1> QED
  BY <1>1, <1>2, <1>3, <1>4, CountingSteps

\* A block is set or renewed only for a source with the threshold's number of
\* failures of its own inside the window, as long as no source has more of
\* them there than its counter keeps.
THEOREM BlocksHaveCause ==
  Spec /\ []SourcesWithinCap => BlockedForCause
<1>0. AuthWindow \in Nat \ {0} /\ AuthWindow \in 1 .. AuthWindow
  BY Positive
<1>1. Init => SourcesExact
  <2> SUFFICES ASSUME Init
               PROVE  SourcesExact
    OBVIOUS
  <2>1. \A s \in Sources : /\ auth.counters[s].events = <<>>
                           /\ auth.counters[s].sat = 0
    BY DEF Init, NewTable, NewCounter
  <2>2. \A s \in Sources : \A a : /\ YoungTracked(s, a) = {}
                                  /\ Young(auth.counters[s].events, a) = {}
    BY <2>1 DEF Init, YoungTracked, TrackedOf, FailuresOf, Young
  <2> QED
    BY <2>1, <2>2 DEF SourcesExact, OwnCount, Count
<1>2. AdmissionInv /\ OrderInv /\ SourcesExact /\ SourcesWithinCap'
        /\ [Next]_vars => SourcesExact'
  BY SourcesExactNext
<1>3. AdmissionInv /\ OrderInv /\ SourcesExact' /\ [Next]_vars =>
        [\A s \in Sources :
           blocked'[s] > blocked[s]
             => Cardinality(FailuresOf(s)') >= AuthThreshold]_vars
  <2> SUFFICES ASSUME AdmissionInv, OrderInv, SourcesExact', [Next]_vars,
                      NEW x \in Sources, blocked'[x] > blocked[x]
               PROVE  Cardinality(FailuresOf(x)') >= AuthThreshold
    OBVIOUS
  <2>0. /\ DOMAIN blocked = Sources /\ blocked[x] \in 0 .. BlockFor
        /\ BlockFor \in Nat
    BY Positive DEF AdmissionInv, CountersTyped
  <2>1. ASSUME NEW k \in Conns, RecordAuthFailure(k)
        PROVE  Cardinality(FailuresOf(x)') >= AuthThreshold
    <3>0. PICK s \in Sources, tracked \in BOOLEAN : FailureCounted(s, tracked)
      BY <2>1, FailureStep
    <3>1. /\ blocked' = [blocked EXCEPT ![s] =
                           IF tracked
                              /\ Total(auth'.counters[s]) >= AuthThreshold
                           THEN BlockFor ELSE blocked[s]]
          /\ tracked =>
               /\ auth'.counters[s] \in Counter(AuthWindow)
               /\ OwnCount(s, AuthWindow)' = Len(auth'.counters[s].events)
      BY <3>0 DEF FailureCounted
    <3>2. x = s /\ tracked /\ Total(auth'.counters[x]) >= AuthThreshold
      BY <2>0, <3>1
    <3>3. auth'.counters[x].sat = 0 /\ Len(auth'.counters[x].events) \in Nat
      BY <3>1, <3>2 DEF SourcesExact, Counter
    <3>4. Total(auth'.counters[x]) = OwnCount(x, AuthWindow)'
      BY <3>1, <3>2, <3>3 DEF Total
    <3>5. OwnCount(x, AuthWindow)' = Cardinality(YoungTracked(x, AuthWindow)')
      BY <1>0 DEF SourcesExact
    <3>6. /\ YoungTracked(x, AuthWindow)' = TrackedOf(x)'
          /\ Cardinality(TrackedOf(x)') <= Cardinality(FailuresOf(x)')
          /\ Cardinality(TrackedOf(x)') \in Nat
          /\ Cardinality(FailuresOf(x)') \in Nat
      BY <2>1, FailureStep, WholeWindowNext DEF OrderInv
    <3>7. AuthThreshold \in Nat
      BY AdmissionAssumption
    <3> QED
      BY <3>2, <3>4, <3>5, <3>6, <3>7
  <2>2. CASE Tick
    <3>1. blocked'[x] = IF blocked[x] = 0 THEN 0 ELSE blocked[x] - 1
      BY <2>2, TickCounts
    <3> QED
      BY <2>0, <3>1
  <2>3. CASE Cleanup \/ UNCHANGED <<auth, global, blocked, failures>>
    BY <2>0, <2>3, CleanupCounts
  <2> QED
    BY <2>1, <2>2, <2>3, CountingSteps
<1> QED
  BY <1>1, <1>2, <1>3, AdmissionInductive, OrderInductive, PTL
     DEF Spec, BlockedForCause
=============================================================================
