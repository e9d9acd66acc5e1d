------------------------- MODULE RequestPipelineProofs -------------------------
(***************************************************************************)
(* For any requests, clients, limits and rates: no way out of a request    *)
(* leaves an ephemeral session behind, no client uses more tokens than its *)
(* rate allows, slots and sessions stay within their ceilings, and nobody  *)
(* is locked out of the session table by the others.                       *)
(***************************************************************************)
EXTENDS RequestPipeline, FiniteSetTheorems, TLAPS

\* The lower of two integers.
LEMMA MinOfTwo ==
  \A a, b \in Int : /\ Min({a, b}) \in {a, b}
                    /\ Min({a, b}) <= a
                    /\ Min({a, b}) <= b
<1>. SUFFICES ASSUME NEW a \in Int, NEW b \in Int
              PROVE  \E x \in {a, b} : \A y \in {a, b} : x <= y
  BY DEF Min
<1>1. CASE a <= b
  BY <1>1
<1>2. CASE b <= a
  BY <1>2
<1>. QED
  BY <1>1, <1>2

\* A lease is on the session the request named, or else on an ephemeral one.
Matches(q) == IF q.named = None THEN q.session \in Ephemerals
                                ELSE q.session = q.named
LeaseMatches == \A r \in Requests : req[r].pc \in Leased => Matches(req[r])

\* Inductive: an ephemeral session in the table has its lease.
PipeInv == TypeOK /\ LeaseMatches /\ NoLeakedSession

\* A request that holds a slot or a lease is in flight.
LEMMA HolderInFlight ==
  ASSUME TypeOK, NEW r \in Requests, req[r].pc # "done"
  PROVE  req[r] \in InFlight
BY DEF TypeOK, NoRequest

\* A refill stays between zero and the ceiling.
LEMMA BurstBounded ==
  ASSUME NEW rate \in Nat, NEW have \in 0 .. 2 * rate
  PROVE  Burst(have, rate) \in 0 .. 2 * rate
<1>1. have + rate \in Int /\ 2 * rate \in Int
  OBVIOUS
<1>2. /\ Burst(have, rate) \in {have + rate, 2 * rate}
      /\ Burst(have, rate) <= 2 * rate
  BY <1>1, MinOfTwo DEF Burst
<1>. QED
  BY <1>2

\* The meter has a depth.
LEMMA DepthType == MeterDepth \in Nat /\ Cardinality(Requests) \in Nat
<1>1. Cardinality(Requests) \in Nat
  BY PipelineAssumption, FS_CardinalityType
<1>. QED
  BY <1>1, PipelineAssumption DEF MeterDepth

\* A gain leaves a number.
LEMMA GainType ==
  ASSUME meter \in Int, Gain
  PROVE  meter' \in Int
<1>1. PICK a \in Int : a = meter + Tpm
  BY PipelineAssumption
<1>2. PICK b \in Int : b = MeterDepth
  BY DepthType
<1>3. meter' = Min({a, b})
  BY <1>1, <1>2 DEF Gain
<1>. QED
  BY <1>3, MinOfTwo

\* Using leaves a number.
LEMMA UsesType ==
  ASSUME meter \in Int, NEW c, NEW tokens \in Int, Uses(c, tokens)
  PROVE  meter' \in Int
BY DEF Uses

-------------------------------------------------------------------------------
\* A step that rewrites one request and keeps its lease.
LEMMA RewriteStep ==
  ASSUME PipeInv, NEW r \in Requests, NEW q \in InFlight,
         req' = [req EXCEPT ![r] = q],
         UNCHANGED sessions,
         buckets' \in [Clients -> Bucket],
         meter' \in Int,
         req[r].pc \in Leased => q.pc \in Leased /\ q.session = req[r].session,
         q.pc \in Leased => Matches(q)
  PROVE  PipeInv'
<1>. USE DEF PipeInv
<1>1. TypeOK'
  BY DEF TypeOK
<1>2. \A p \in Requests : req'[p] = IF p = r THEN q ELSE req[p]
  BY DEF TypeOK
<1>3. LeaseMatches'
  BY <1>2 DEF LeaseMatches
<1>4. NoLeakedSession'
  <2>. SUFFICES ASSUME ZeroOnEnd, NEW e \in Ephemerals, sessions[e] # Nobody
                PROVE  \E p \in Requests : req'[p].pc \in Leased
                                           /\ req'[p].session = e
    BY DEF NoLeakedSession
  <2>1. PICK p \in Requests : req[p].pc \in Leased /\ req[p].session = e
    BY DEF NoLeakedSession
  <2>. QED
    BY <1>2, <2>1
<1>. QED
  BY <1>1, <1>3, <1>4

\* Moving on within the lease, or to the slot.
LEMMA MoveStep ==
  ASSUME PipeInv, NEW r \in Requests, NEW here, NEW there \in HasSlot,
         here # "done", here \in Leased <=> there \in Leased,
         Moves(r, here, there)
  PROVE  PipeInv'
<1>. DEFINE q == [req[r] EXCEPT !.pc = there]
<1>1. req[r].pc = here /\ req[r] \in InFlight
  BY HolderInFlight DEF Moves, PipeInv
<1>2. /\ q \in InFlight /\ q.pc = there
      /\ q.session = req[r].session /\ q.named = req[r].named
  BY <1>1 DEF InFlight
<1>3. req' = [req EXCEPT ![r] = q] /\ UNCHANGED <<buckets, sessions, meter>>
  BY DEF Moves
<1>. HIDE DEF q
<1>4. req[r].pc \in Leased => Matches(q)
  BY <1>2 DEF PipeInv, LeaseMatches, Matches
<1>. QED
  BY <1>1, <1>2, <1>3, <1>4, RewriteStep DEF PipeInv, TypeOK

\* Every way out drops the lease with the request.
LEMMA EndStep ==
  ASSUME PipeInv, NEW r \in Requests, End(r)
  PROVE  PipeInv'
<1>1. req' = [req EXCEPT ![r] = NoRequest] /\ UNCHANGED buckets /\ DropLease(r)
  BY DEF End
<1>2. \A p \in Requests : req'[p] = IF p = r THEN NoRequest ELSE req[p]
  BY <1>1 DEF PipeInv, TypeOK
<1>3. NoRequest.pc \notin Leased
  BY DEF NoRequest, Leased
<1>4. sessions' \in [Sids \cup Ephemerals -> Clients \cup {Nobody}]
  BY <1>1 DEF DropLease, PipeInv, TypeOK
<1>5. meter' \in Int
  <2>1. req[r].held \in Int
    BY PipelineAssumption DEF PipeInv, TypeOK, InFlight, NoRequest
  <2>. QED
    BY <2>1, UsesType DEF End, PipeInv, TypeOK
<1>6. TypeOK'
  BY <1>1, <1>4, <1>5 DEF PipeInv, TypeOK
<1>7. LeaseMatches'
  BY <1>2, <1>3 DEF PipeInv, LeaseMatches
<1>8. NoLeakedSession'
  <2>. SUFFICES ASSUME ZeroOnEnd, NEW e \in Ephemerals, sessions'[e] # Nobody
                PROVE  \E p \in Requests : req'[p].pc \in Leased
                                           /\ req'[p].session = e
    BY DEF NoLeakedSession
  <2>1. sessions[e] # Nobody
    BY <1>1 DEF DropLease, PipeInv, TypeOK
  <2>2. PICK p \in Requests : req[p].pc \in Leased /\ req[p].session = e
    BY <2>1 DEF PipeInv, NoLeakedSession
  <2>3. p # r
    <3>. SUFFICES ASSUME p = r PROVE FALSE
      OBVIOUS
    <3>1. req[r] \in InFlight
      BY <2>2, HolderInFlight DEF Leased, PipeInv
    <3>2. req[r].named = None
      BY <2>2, <3>1, PipelineAssumption
         DEF PipeInv, LeaseMatches, Matches, InFlight
    <3>3. EndOnDrop(r)
      BY <2>2, <3>2 DEF EndOnDrop
    <3>4. sessions'[e] = Nobody
      BY <1>1, <2>2, <3>3 DEF DropLease, PipeInv, TypeOK
    <3>. QED
      BY <3>4
  <2>. QED
    BY <1>2, <2>2, <2>3
<1>. QED
  BY <1>6, <1>7, <1>8 DEF PipeInv

\* Settling keeps the bucket under its ceiling.
LEMMA SettleTypes ==
  ASSUME TypeOK, NEW r \in Requests, NEW actual \in 0 .. MaxTokens,
         req[r].pc # "done", Settle(r, actual)
  PROVE  buckets' \in [Clients -> Bucket] /\ meter' \in Int
<1>. DEFINE c == req[r].client
            h == req[r].held
            o == buckets[c].output
            credit == Credit(r, actual)
<1>1. c \in Clients /\ h \in {0, MaxTokens}
  BY HolderInFlight DEF InFlight
<1>2. buckets[c] \in Bucket
  BY <1>1 DEF TypeOK
<1>3. h \in Int /\ h >= 0 /\ o \in 0 .. 2 * Tpm /\ Tpm \in Nat
  BY <1>1, <1>2, PipelineAssumption DEF Bucket
<1>4. Refund(r, actual) \in Nat
  <2>1. Min({actual, h}) \in {actual, h} /\ Min({actual, h}) <= h
    <3>. HIDE DEF h
    <3>1. actual \in Int /\ h \in Int
      BY <1>3
    <3>. QED
      BY <3>1, MinOfTwo
  <2>2. Refund(r, actual) = h - Min({actual, h})
    BY DEF Refund
  <2>. HIDE DEF h
  <2>3. h - Min({actual, h}) \in Nat
    BY <1>3, <2>1
  <2>. QED
    BY <2>2, <2>3
<1>5. credit \in Nat /\ credit <= 2 * Tpm - o
  <2>1. CASE buckets[c].live
    <3>. DEFINE f == Refund(r, actual)
                room == 2 * Tpm - o
    <3>1. credit = Min({f, room})
      BY <2>1 DEF Credit
    <3>. HIDE DEF o, f
    <3>2. f \in Int /\ f >= 0 /\ room \in Int /\ room >= 0
      BY <1>3, <1>4 DEF f
    <3>. HIDE DEF room
    <3>3. Min({f, room}) \in {f, room} /\ Min({f, room}) <= room
      BY <3>2, MinOfTwo
    <3>. HIDE DEF credit
    <3>4. credit \in Nat /\ credit <= room
      BY <3>1, <3>2, <3>3
    <3>. QED
      BY <3>4 DEF room
  <2>2. CASE ~buckets[c].live
    <3>1. credit = 0
      BY <2>2 DEF Credit
    <3>. HIDE DEF credit
    <3>. QED
      BY <1>3, <3>1
  <2>. QED
    BY <2>1, <2>2
<1>6. /\ buckets' = [buckets EXCEPT ![c] = [buckets[c] EXCEPT !.output = o + credit]]
      /\ Uses(c, actual)
  BY DEF Settle
<1>. HIDE DEF credit, o, h
<1>7. o + credit \in 0 .. 2 * Tpm
  BY <1>3, <1>5
<1>8. [buckets[c] EXCEPT !.output = o + credit] \in Bucket
  BY <1>2, <1>7 DEF Bucket
<1>9. meter' \in Int
  BY <1>6, UsesType DEF TypeOK
<1>. QED
  BY <1>1, <1>6, <1>8, <1>9 DEF TypeOK

-------------------------------------------------------------------------------
\* The reservation of a request that held none.
LEMMA AdmitStep ==
  ASSUME PipeInv, NEW r \in Requests, Admit(r)
  PROVE  PipeInv'
<1>1. PICK c \in Clients, named \in Sids \cup {None} :
        /\ BucketOf(c).requests >= 1
        /\ BucketOf(c).output >= MaxTokens
        /\ req' = [req EXCEPT ![r] = Reserved(c, named)]
        /\ buckets' = [buckets EXCEPT ![c] =
             [live |-> TRUE, requests |-> BucketOf(c).requests - 1,
              output |-> BucketOf(c).output - MaxTokens]]
        /\ OpensBucket(c)
  BY DEF Admit
<1>. DEFINE q == Reserved(c, named)
<1>2. q \in InFlight /\ q.pc \notin Leased
  BY PipelineAssumption DEF Reserved, InFlight, Leased
<1>3. req[r].pc \notin Leased /\ UNCHANGED sessions
  BY DEF Admit, Leased
<1>4. NewBucket \in Bucket
  BY PipelineAssumption DEF NewBucket, Bucket
<1>5. BucketOf(c) \in Bucket /\ buckets[c] \in Bucket
  BY <1>4 DEF BucketOf, PipeInv, TypeOK
<1>. HIDE DEF q
<1>6. buckets' \in [Clients -> Bucket]
  <2>1. /\ BucketOf(c).requests - 1 \in 0 .. 2 * Rpm
        /\ BucketOf(c).output - MaxTokens \in 0 .. 2 * Tpm
    BY <1>1, <1>5, PipelineAssumption DEF Bucket
  <2>2. [live |-> TRUE, requests |-> BucketOf(c).requests - 1,
         output |-> BucketOf(c).output - MaxTokens] \in Bucket
    BY <2>1 DEF Bucket
  <2>. QED
    BY <1>1, <2>2 DEF PipeInv, TypeOK
<1>7. meter' \in Int
  BY <1>1, GainType DEF OpensBucket, PipeInv, TypeOK
<1>. QED
  BY <1>1, <1>2, <1>3, <1>6, <1>7, RewriteStep DEF q

\* A lease on a session that is the client's or new.
LEMMA OpenSessionStep ==
  ASSUME PipeInv, NEW r \in Requests, OpenSession(r)
  PROVE  PipeInv'
<1>. DEFINE s == IF req[r].named = None THEN CHOOSE e \in FreshIds : TRUE
                                        ELSE req[r].named
            q == [req[r] EXCEPT !.pc = "leased", !.session = s]
<1>1. req[r] \in InFlight /\ req[r].pc = "slot"
  BY HolderInFlight DEF PipeInv, OpenSession
<1>2. IF req[r].named = None THEN s \in Ephemerals ELSE s = req[r].named
  BY DEF OpenSession, FreshIds
<1>3. s \in Sids \cup Ephemerals
  BY <1>1, <1>2 DEF InFlight
<1>4. /\ sessions' = [sessions EXCEPT ![s] = req[r].client]
      /\ req' = [req EXCEPT ![r] = q]
      /\ UNCHANGED <<buckets, meter>>
  BY DEF OpenSession
<1>. HIDE DEF s
<1>5. q \in InFlight /\ q.pc \in Leased /\ Matches(q) /\ q.session = s
  BY <1>1, <1>2, <1>3 DEF InFlight, HasSlot, Leased, Matches
<1>. HIDE DEF q
<1>6. \A p \in Requests : req'[p] = IF p = r THEN q ELSE req[p]
  BY <1>4 DEF PipeInv, TypeOK
<1>7. TypeOK'
  BY <1>1, <1>4, <1>5 DEF PipeInv, TypeOK, InFlight
<1>8. LeaseMatches'
  BY <1>5, <1>6 DEF PipeInv, LeaseMatches
<1>9. NoLeakedSession'
  <2>. SUFFICES ASSUME ZeroOnEnd, NEW e \in Ephemerals, sessions'[e] # Nobody
                PROVE  \E p \in Requests : req'[p].pc \in Leased
                                           /\ req'[p].session = e
    BY DEF NoLeakedSession
  <2>1. CASE e = s
    BY <1>5, <1>6, <2>1
  <2>2. CASE e # s
    <3>1. sessions[e] # Nobody
      BY <1>4, <2>2 DEF PipeInv, TypeOK
    <3>2. PICK p \in Requests : req[p].pc \in Leased /\ req[p].session = e
      BY <3>1 DEF PipeInv, NoLeakedSession
    <3>3. p # r
      BY <1>1, <3>2 DEF Leased
    <3>. QED
      BY <1>6, <3>2, <3>3
  <2>. QED
    BY <2>1, <2>2
<1>. QED
  BY <1>7, <1>8, <1>9 DEF PipeInv

\* Settlement, unary or streamed, keeps the lease.
LEMMA SettlingStep ==
  ASSUME PipeInv, NEW r \in Requests, Answer(r) \/ FinishStream(r)
  PROVE  PipeInv'
<1>1. req[r] \in InFlight /\ req[r].pc # "done"
  BY HolderInFlight DEF PipeInv, Answer, FinishStream
<1>2. CASE Answer(r)
  <2>1. PICK n \in 0 .. MaxTokens :
          /\ Settle(r, n)
          /\ req' = [req EXCEPT ![r].pc = "settled", ![r].held = 0]
    BY <1>2 DEF Answer
  <2>. DEFINE q == [req[r] EXCEPT !.pc = "settled", !.held = 0]
  <2>2. req' = [req EXCEPT ![r] = q]
    BY <2>1 DEF PipeInv, TypeOK
  <2>3. /\ q \in InFlight /\ q.pc \in Leased
        /\ q.session = req[r].session /\ q.named = req[r].named
    BY <1>1 DEF InFlight, HasSlot, Leased
  <2>4. req[r].pc \in Leased /\ UNCHANGED sessions
    BY <1>2 DEF Answer, Leased
  <2>. HIDE DEF q
  <2>5. Matches(q)
    BY <2>3, <2>4 DEF PipeInv, LeaseMatches, Matches
  <2>. QED
    BY <1>1, <2>1, <2>2, <2>3, <2>4, <2>5, SettleTypes, RewriteStep DEF PipeInv
<1>3. CASE FinishStream(r)
  <2>. DEFINE q == [req[r] EXCEPT !.pc = "terminal", !.held = 0,
                                  !.generated = 0, !.usage = 0]
  <2>1. req' = [req EXCEPT ![r] = q] /\ Settle(r, req[r].usage)
    BY <1>3 DEF FinishStream, PipeInv, TypeOK
  <2>2. req[r].usage \in 0 .. MaxTokens
    BY <1>1 DEF InFlight
  <2>0. 0 \in 0 .. MaxTokens
    BY PipelineAssumption
  <2>3. /\ q \in InFlight /\ q.pc \in Leased
        /\ q.session = req[r].session /\ q.named = req[r].named
    BY <1>1, <2>0 DEF InFlight, HasSlot, Leased
  <2>4. req[r].pc \in Leased /\ UNCHANGED sessions
    BY <1>3 DEF FinishStream, Leased
  <2>. HIDE DEF q
  <2>5. Matches(q)
    BY <2>3, <2>4 DEF PipeInv, LeaseMatches, Matches
  <2>. QED
    BY <1>1, <2>1, <2>2, <2>3, <2>4, <2>5, SettleTypes, RewriteStep DEF PipeInv
<1>. QED
  BY <1>2, <1>3

\* A stream that generates or ends keeps its lease and its reservation.
LEMMA StreamStep ==
  ASSUME PipeInv, NEW r \in Requests, Chunk(r) \/ StreamEnds(r)
  PROVE  PipeInv'
<1>1. /\ req[r] \in InFlight /\ req[r].pc = "streaming"
      /\ UNCHANGED <<buckets, sessions, meter>>
  BY HolderInFlight DEF PipeInv, Chunk, StreamEnds
<1>2. PICK q \in InFlight :
        /\ req' = [req EXCEPT ![r] = q]
        /\ q.pc \in Leased
        /\ q.session = req[r].session /\ q.named = req[r].named
  <2>1. req[r].generated \in 0 .. MaxTokens /\ req[r].usage \in 0 .. MaxTokens
    BY <1>1 DEF InFlight
  <2>2. CASE Chunk(r)
    <3>1. req[r].generated + 1 \in 0 .. MaxTokens
      BY <2>1, <2>2, PipelineAssumption DEF Chunk
    <3>2. PICK pc \in {"streaming", "sending"} :
            req' = [req EXCEPT ![r].generated = @ + 1, ![r].pc = pc]
      BY <2>2 DEF Chunk
    <3>. DEFINE p == [req[r] EXCEPT !.generated = req[r].generated + 1, !.pc = pc]
    <3>3. req' = [req EXCEPT ![r] = p]
      BY <3>2 DEF PipeInv, TypeOK
    <3>4. /\ p \in InFlight /\ p.pc \in Leased
          /\ p.session = req[r].session /\ p.named = req[r].named
      BY <1>1, <3>1 DEF InFlight, HasSlot, Leased
    <3>. QED
      BY <3>3, <3>4
  <2>3. CASE StreamEnds(r)
    <3>1. PICK pc \in {"tail", "closing"}, u \in {0, req[r].generated} :
            req' = [req EXCEPT ![r].pc = pc, ![r].usage = u]
      BY <2>3 DEF StreamEnds
    <3>2. u \in 0 .. MaxTokens
      BY <2>1, <3>1, PipelineAssumption
    <3>. DEFINE p == [req[r] EXCEPT !.pc = pc, !.usage = u]
    <3>3. req' = [req EXCEPT ![r] = p]
      BY <3>1 DEF PipeInv, TypeOK
    <3>4. /\ p \in InFlight /\ p.pc \in Leased
          /\ p.session = req[r].session /\ p.named = req[r].named
      BY <1>1, <3>2 DEF InFlight, HasSlot, Leased
    <3>. QED
      BY <3>3, <3>4
  <2>. QED
    BY <2>2, <2>3
<1>3. Matches(q)
  <2>1. req[r].pc \in Leased
    BY <1>1 DEF Leased
  <2>. QED
    BY <1>2, <2>1 DEF PipeInv, LeaseMatches, Matches
<1>. QED
  BY <1>1, <1>2, <1>3, RewriteStep DEF PipeInv, TypeOK

\* Time and the reaper change no request.
LEMMA TimeStep ==
  ASSUME PipeInv, \/ Minute
                  \/ \E c \in Clients : Refuse(c) \/ DropBucket(c)
                  \/ \E s \in Sids \cup Ephemerals : Expire(s)
  PROVE  PipeInv'
<1>0. ASSUME buckets' \in [Clients -> Bucket], meter' \in Int,
             UNCHANGED <<req, sessions>>
      PROVE  PipeInv'
  BY <1>0 DEF PipeInv, TypeOK, LeaseMatches, NoLeakedSession
<1>1. CASE Minute
  <2>1. \A c \in Clients : buckets[c] \in Bucket
    BY DEF PipeInv, TypeOK
  <2>2. \A c \in Clients : /\ Burst(buckets[c].requests, Rpm) \in 0 .. 2 * Rpm
                           /\ Burst(buckets[c].output, Tpm) \in 0 .. 2 * Tpm
    BY <2>1, BurstBounded, PipelineAssumption DEF Bucket
  <2>3. \A c \in Clients :
          [live |-> TRUE, requests |-> Burst(buckets[c].requests, Rpm),
           output |-> Burst(buckets[c].output, Tpm)] \in Bucket
    BY <2>2 DEF Bucket
  <2>4. buckets' \in [Clients -> Bucket]
    BY <1>1, <2>1, <2>3 DEF Minute
  <2>6. meter' \in Int
    BY <1>1, GainType DEF Minute, PipeInv, TypeOK
  <2>7. UNCHANGED <<req, sessions>>
    BY <1>1 DEF Minute
  <2>. QED
    BY <1>0, <2>4, <2>6, <2>7
<1>2. ASSUME NEW c \in Clients, DropBucket(c) PROVE PipeInv'
  <2>1. NoBucket \in Bucket
    BY PipelineAssumption DEF NoBucket, Bucket
  <2>3. buckets' \in [Clients -> Bucket] /\ meter' \in Int
    BY <1>2, <2>1 DEF DropBucket, PipeInv, TypeOK
  <2>. QED
    BY <1>0, <1>2, <2>3 DEF DropBucket
<1>3. ASSUME NEW s \in Sids \cup Ephemerals, Expire(s) PROVE PipeInv'
  <2>1. sessions' = [sessions EXCEPT ![s] = Nobody]
        /\ UNCHANGED <<req, buckets, meter>>
    BY <1>3 DEF Expire
  <2>2. TypeOK' /\ LeaseMatches'
    BY <2>1 DEF PipeInv, TypeOK, LeaseMatches
  <2>3. NoLeakedSession'
    BY <2>1 DEF PipeInv, TypeOK, NoLeakedSession
  <2>. QED
    BY <2>2, <2>3 DEF PipeInv
<1>4. ASSUME NEW c \in Clients, Refuse(c) PROVE PipeInv'
  <2>1. NewBucket \in Bucket
    BY PipelineAssumption DEF NewBucket, Bucket
  <2>2. buckets' \in [Clients -> Bucket]
    BY <1>4, <2>1 DEF Refuse, BucketOf, PipeInv, TypeOK
  <2>3. meter' \in Int
    BY <1>4, GainType DEF Refuse, OpensBucket, PipeInv, TypeOK
  <2>. QED
    BY <1>0, <1>4, <2>2, <2>3 DEF Refuse
<1>. QED
  BY <1>1, <1>2, <1>3, <1>4

-------------------------------------------------------------------------------
\* Before the first request there is neither lease nor session.
LEMMA PipeInit == Init => PipeInv
<1>. SUFFICES ASSUME Init PROVE PipeInv
  OBVIOUS
<1>1. NoBucket \in Bucket
  BY PipelineAssumption DEF NoBucket, Bucket
<1>2. TypeOK
  BY <1>1 DEF Init, TypeOK
<1>3. \A r \in Requests : req[r].pc \notin Leased
  BY DEF Init, NoRequest, Leased
<1>. QED
  BY <1>2, <1>3 DEF Init, PipeInv, LeaseMatches, NoLeakedSession

\* Every step of the node, of a client, of the clock and of the reaper.
LEMMA PipeStep == PipeInv /\ [Next]_vars => PipeInv'
<1>. SUFFICES ASSUME PipeInv, [Next]_vars PROVE PipeInv'
  OBVIOUS
<1>1. ASSUME NEW r \in Requests, AcquireSlot(r) \/ Intake(r) \/ Ask(r)
                \/ StreamOpens(r) \/ StreamFails(r) \/ ClientReads(r)
      PROVE  PipeInv'
  <2>1. PICK here \in {"reserved"} \cup HasSlot, there \in HasSlot :
          (here \in Leased <=> there \in Leased) /\ Moves(r, here, there)
    <3>1. CASE AcquireSlot(r)
      BY <3>1 DEF AcquireSlot, HasSlot, Leased
    <3>2. CASE Intake(r) \/ StreamOpens(r) \/ StreamFails(r) \/ ClientReads(r)
      BY <3>2 DEF Intake, StreamOpens, StreamFails, ClientReads, HasSlot, Leased
    <3>3. CASE Ask(r)
      BY <3>3 DEF Ask, HasSlot, Leased
    <3>. QED
      BY <1>1, <3>1, <3>2, <3>3
  <2>2. here # "done"
    BY DEF HasSlot, Leased
  <2>. QED
    BY <2>1, <2>2, MoveStep
<1>2. ASSUME NEW r \in Requests, Overloaded(r) \/ SessionRefused(r)
                \/ IntakeFails(r) \/ Return(r) \/ RunFails(r) \/ TerminalSent(r)
                \/ SendFails(r) \/ HangUp(r)
      PROVE  PipeInv'
  <2>1. End(r)
    BY <1>2 DEF Overloaded, SessionRefused, IntakeFails, Return, RunFails,
                TerminalSent, SendFails, HangUp
  <2>. QED
    BY <2>1, EndStep
<1>3. ASSUME NEW r \in Requests, Admit(r) \/ NodeStep(r) \/ ClientStep(r)
                                  \/ HangUp(r)
      PROVE  PipeInv'
  BY <1>1, <1>2, <1>3, AdmitStep, OpenSessionStep, SettlingStep, StreamStep
     DEF NodeStep, ClientStep
<1>4. CASE UNCHANGED vars
  BY <1>4 DEF vars, PipeInv, TypeOK, LeaseMatches, NoLeakedSession
<1>. QED
  BY <1>3, <1>4, TimeStep DEF Next

\* Requests, buckets and sessions stay within their types: buckets between zero
\* and the burst ceiling (rate_limiter.rs, try_consume and settle).
THEOREM PipelineTypeCorrect == Spec => []TypeOK
<1>1. PipeInv => TypeOK
  BY DEF PipeInv
<1>. QED
  BY <1>1, PipeInit, PipeStep, PTL DEF Spec

\* No way out of process_inference or of the stream's task leaves an ephemeral
\* session in the table (inference.rs, Drop for InferenceLease).
THEOREM SessionsAreReclaimed == Spec => []NoLeakedSession
<1>1. PipeInv => NoLeakedSession
  BY DEF PipeInv
<1>. QED
  BY <1>1, PipeInit, PipeStep, PTL DEF Spec

-------------------------------------------------------------------------------
(* The meter *)

\* What of a request's reservation is client c's.
Share(q, c) == IF q.client = c THEN q.held ELSE 0

Held(c) == MaxTokens * Cardinality(Holding(c))

\* Until it is settled a request holds what it reserved.
Unsettled == ({"reserved"} \cup HasSlot) \ {"settled", "terminal"}
InFull(q) == q.pc \in Unsettled => q.held = MaxTokens

\* Inductive: what the watched client has in its bucket and in its reservations
\* is within what its rate still allows.
MeterInv ==
  /\ \A r \in Requests : InFull(req[r])
  /\ buckets[Watched].output + Held(Watched) <= meter

\* A product with one more, and with one less.
LEMMA OneMore ==
  ASSUME NEW m \in Nat, NEW n \in Nat
  PROVE  m * (n + 1) = m * n + m /\ m * n \in Nat
OBVIOUS

\* When one request changes, what its client holds changes by its reservation.
LEMMA HeldChanges ==
  ASSUME TypeOK, NEW c \in Clients, IsFiniteSet(Holding(c)),
         NEW r \in Requests, NEW q \in InFlight \cup {NoRequest},
         req' = [req EXCEPT ![r] = q]
  PROVE  /\ IsFiniteSet(Holding(c)') /\ Held(c) \in Int /\ Held(c)' \in Int
         /\ Held(c)' = Held(c) - Share(req[r], c) + Share(q, c)
<1>. DEFINE S == Holding(c)
            T == Holding(c)'
            n == Cardinality(S)
<1>1. MaxTokens \in Nat /\ MaxTokens # 0
  BY PipelineAssumption
<1>2. n \in Nat
  BY FS_CardinalityType
<1>3. \A p \in Requests : req'[p] = IF p = r THEN q ELSE req[p]
  BY DEF TypeOK
<1>4. req[r].held \in {0, MaxTokens} /\ q.held \in {0, MaxTokens}
  BY DEF TypeOK, InFlight, NoRequest
<1>5. /\ r \in S <=> req[r].client = c /\ req[r].held # 0
      /\ r \in T <=> q.client = c /\ q.held # 0
      /\ \A p \in Requests \ {r} : p \in S <=> p \in T
      /\ S \subseteq Requests /\ T \subseteq Requests
  BY <1>3 DEF Holding
<1>6. /\ Share(req[r], c) = IF r \in S THEN MaxTokens ELSE 0
      /\ Share(q, c) = IF r \in T THEN MaxTokens ELSE 0
  BY <1>4, <1>5 DEF Share
<1>7. /\ Held(c) = MaxTokens * n
      /\ Held(c)' = MaxTokens * Cardinality(T)
  BY DEF Held
<1>. HIDE DEF S, T
<1>8. IsFiniteSet(S)
  BY DEF S
<1>9. CASE r \in S /\ r \in T
  <2>1. T = S
    BY <1>5, <1>9
  <2>. QED
    BY <1>1, <1>2, <1>6, <1>7, <1>8, <1>9, <2>1 DEF T
<1>10. CASE r \notin S /\ r \notin T
  <2>1. T = S
    BY <1>5, <1>10
  <2>. QED
    BY <1>1, <1>2, <1>6, <1>7, <1>8, <1>10, <2>1 DEF T
<1>11. CASE r \notin S /\ r \in T
  <2>1. T = S \cup {r}
    BY <1>5, <1>11
  <2>2. IsFiniteSet(T) /\ Cardinality(T) = n + 1
    BY <1>8, <1>11, <2>1, FS_AddElement
  <2>3. MaxTokens * (n + 1) = MaxTokens * n + MaxTokens /\ MaxTokens * n \in Nat
    BY <1>1, <1>2, OneMore
  <2>. QED
    BY <1>1, <1>6, <1>7, <1>11, <2>2, <2>3 DEF T
<1>12. CASE r \in S /\ r \notin T
  <2>1. T = S \ {r}
    BY <1>5, <1>12
  <2>2. IsFiniteSet(T) /\ Cardinality(T) = n - 1
    BY <1>8, <1>12, <2>1, FS_RemoveElement
  <2>3. Cardinality(T) \in Nat /\ n = Cardinality(T) + 1
    BY <1>2, <2>2, FS_CardinalityType
  <2>4. /\ MaxTokens * n = MaxTokens * Cardinality(T) + MaxTokens
        /\ MaxTokens * Cardinality(T) \in Nat
    BY <1>1, <2>3, OneMore
  <2>. QED
    BY <1>1, <1>6, <1>7, <1>12, <2>2, <2>4 DEF T
<1>. QED
  BY <1>9, <1>10, <1>11, <1>12

\* The requests of a client that hold a reservation are some of all.
LEMMA HoldingFinite ==
  ASSUME NEW S \in SUBSET Requests
  PROVE  /\ IsFiniteSet(S) /\ Cardinality(S) \in Nat
         /\ Cardinality(S) <= Cardinality(Requests)
<1>1. IsFiniteSet(S) /\ Cardinality(S) <= Cardinality(Requests)
  BY PipelineAssumption, FS_Subset
<1>. QED
  BY <1>1, FS_CardinalityType

\* Products keep the order of their factors.
LEMMA MoreTimes ==
  ASSUME NEW m \in Nat, NEW a \in Nat, NEW b \in Nat, a <= b
  PROVE  m * a <= m * b
OBVIOUS

\* A full bucket and the reservations in flight are within the meter's depth.
LEMMA DepthEnough ==
  ASSUME NEW S \in SUBSET Requests, NEW output \in 0 .. 2 * Tpm
  PROVE  output + MaxTokens * Cardinality(S) <= MeterDepth
<1>. DEFINE n == Cardinality(S)
            all == Cardinality(Requests)
<1>1. n \in Nat /\ all \in Nat /\ n <= all /\ MaxTokens \in Nat /\ Tpm \in Nat
  BY HoldingFinite, DepthType, PipelineAssumption
<1>. HIDE DEF n, all
<1>2. MaxTokens * n <= MaxTokens * all
  BY <1>1, MoreTimes
<1>3. MaxTokens * n \in Nat /\ MaxTokens * all \in Nat
  BY <1>1
<1>4. MeterDepth = 2 * Tpm + MaxTokens * all
  BY DEF MeterDepth, all
<1>5. output + MaxTokens * n <= MeterDepth
  <2>. DEFINE x == MaxTokens * n
              y == MaxTokens * all
  <2>. HIDE DEF x, y
  <2>1. x \in Nat /\ y \in Nat /\ x <= y /\ MeterDepth = 2 * Tpm + y
    BY <1>2, <1>3, <1>4 DEF x, y
  <2>2. output + x <= MeterDepth
    BY <1>1, <2>1
  <2>. QED
    BY <2>2 DEF x
<1>. QED
  BY <1>5 DEF n

\* A gain covers what a minute, or a new bucket, gives.
LEMMA GainCovers ==
  ASSUME meter \in Int, Gain, NEW x \in Int, x <= meter + Tpm, x <= MeterDepth
  PROVE  x <= meter'
<1>1. PICK a \in Int : a = meter + Tpm
  BY PipelineAssumption
<1>2. PICK b \in Int : b = MeterDepth
  BY DepthType
<1>3. meter' = Min({a, b})
  BY <1>1, <1>2 DEF Gain
<1>4. Min({a, b}) \in {a, b}
  BY MinOfTwo
<1>. QED
  BY <1>1, <1>2, <1>3, <1>4

\* The numbers of the invariant, before a step and after it.
LEMMA MeterTypes ==
  ASSUME TypeOK, TypeOK'
  PROVE  /\ buckets[Watched].output \in 0 .. 2 * Tpm
         /\ buckets'[Watched].output \in 0 .. 2 * Tpm
         /\ Held(Watched) \in Nat /\ Held(Watched)' \in Nat
         /\ meter \in Int /\ meter' \in Int
         /\ buckets'[Watched].output + Held(Watched)' <= MeterDepth
<1>1. buckets[Watched] \in Bucket /\ buckets'[Watched] \in Bucket
  BY PipelineAssumption DEF TypeOK
<1>2. /\ buckets[Watched].output \in 0 .. 2 * Tpm
      /\ buckets'[Watched].output \in 0 .. 2 * Tpm
  BY <1>1 DEF Bucket
<1>3. Holding(Watched) \in SUBSET Requests /\ Holding(Watched)' \in SUBSET Requests
  BY DEF Holding
<1>4. Cardinality(Holding(Watched)) \in Nat /\ Cardinality(Holding(Watched)') \in Nat
  BY <1>3, HoldingFinite
<1>5. /\ Held(Watched) = MaxTokens * Cardinality(Holding(Watched))
      /\ Held(Watched)' = MaxTokens * Cardinality(Holding(Watched)')
  BY DEF Held
<1>6. Held(Watched) \in Nat /\ Held(Watched)' \in Nat
  BY <1>4, <1>5, PipelineAssumption
<1>7. buckets'[Watched].output + Held(Watched)' <= MeterDepth
  BY <1>2, <1>3, <1>5, DepthEnough
<1>. QED
  BY <1>2, <1>6, <1>7 DEF TypeOK

\* A step that changes one request and leaves the watched client no better off
\* than its meter keeps the invariant.
LEMMA MeterMoves ==
  ASSUME TypeOK, TypeOK', MeterInv, NEW r \in Requests,
         NEW q \in InFlight \cup {NoRequest}, req' = [req EXCEPT ![r] = q],
         InFull(q),
         \/ buckets'[Watched].output + Share(q, Watched) - meter'
              <= buckets[Watched].output + Share(req[r], Watched) - meter
         \/ /\ Gain
            /\ buckets'[Watched].output + Share(q, Watched)
                 <= buckets[Watched].output + Share(req[r], Watched) + Tpm
  PROVE  MeterInv'
<1>1. \A p \in Requests : req'[p] = IF p = r THEN q ELSE req[p]
  BY DEF TypeOK
<1>2. \A p \in Requests : InFull(req'[p])
  BY <1>1 DEF MeterInv
<1>3. IsFiniteSet(Holding(Watched))
  <2>1. Holding(Watched) \in SUBSET Requests
    BY DEF Holding
  <2>. QED
    BY <2>1, HoldingFinite
<1>4. Held(Watched)' = Held(Watched) - Share(req[r], Watched) + Share(q, Watched)
  BY <1>3, HeldChanges, PipelineAssumption
<1>5. Share(req[r], Watched) \in Int /\ Share(q, Watched) \in Int
  BY PipelineAssumption DEF Share, TypeOK, InFlight, NoRequest
<1>6. /\ buckets[Watched].output \in Int /\ buckets'[Watched].output \in Int
      /\ Held(Watched) \in Int /\ Held(Watched)' \in Int
      /\ meter \in Int /\ meter' \in Int
      /\ buckets'[Watched].output + Held(Watched)' <= MeterDepth
  BY MeterTypes, PipelineAssumption
<1>7. buckets[Watched].output + Held(Watched) <= meter
  BY DEF MeterInv
<1>8. buckets'[Watched].output + Held(Watched)' <= meter'
  <2>1. CASE buckets'[Watched].output + Share(q, Watched) - meter'
               <= buckets[Watched].output + Share(req[r], Watched) - meter
    BY <1>4, <1>5, <1>6, <1>7, <2>1
  <2>2. CASE /\ Gain
             /\ buckets'[Watched].output + Share(q, Watched)
                  <= buckets[Watched].output + Share(req[r], Watched) + Tpm
    <3>1. buckets'[Watched].output + Held(Watched)' <= meter + Tpm
      BY <1>4, <1>5, <1>6, <1>7, <2>2, PipelineAssumption
    <3>. QED
      BY <1>6, <2>2, <3>1, GainCovers
  <2>. QED
    BY <2>1, <2>2
<1>. QED
  BY <1>2, <1>8 DEF MeterInv

\* What settle credits is no more than what was reserved and not used.
LEMMA CreditBound ==
  ASSUME TypeOK, NEW r \in Requests, req[r].pc # "done",
         NEW actual \in 0 .. MaxTokens, actual <= req[r].held
  PROVE  Credit(r, actual) \in Int /\ Credit(r, actual) <= req[r].held - actual
<1>1. req[r].client \in Clients /\ req[r].held \in Int
  BY HolderInFlight, PipelineAssumption DEF InFlight
<1>2. buckets[req[r].client].output \in Int /\ 2 * Tpm \in Int
  BY <1>1, PipelineAssumption DEF TypeOK, Bucket
<1>3. Refund(r, actual) = req[r].held - actual
  <2>1. PICK h \in Int : h = req[r].held
    BY <1>1
  <2>2. actual \in Int /\ actual <= h
    BY <2>1
  <2>3. \E x \in {actual, h} : \A y \in {actual, h} : x <= y
    BY <2>2
  <2>4. Min({actual, h}) \in {actual, h} /\ Min({actual, h}) <= actual
    BY <2>2, MinOfTwo
  <2>5. Min({actual, h}) = actual
    BY <2>2, <2>4
  <2>. QED
    BY <2>1, <2>5 DEF Refund
<1>4. PICK f \in Int : f = Refund(r, actual)
  BY <1>1, <1>3
<1>5. PICK room \in Int : room = 2 * Tpm - buckets[req[r].client].output
  BY <1>2
<1>6. Min({f, room}) \in Int /\ Min({f, room}) <= f
  BY MinOfTwo
<1>7. f = req[r].held - actual /\ f >= 0
  BY <1>1, <1>3, <1>4
<1>8. CASE buckets[req[r].client].live
  <2>1. Credit(r, actual) = Min({f, room})
    BY <1>4, <1>5, <1>8 DEF Credit
  <2>. QED
    BY <1>6, <1>7, <2>1
<1>9. CASE ~buckets[req[r].client].live
  <2>1. Credit(r, actual) = 0
    BY <1>9 DEF Credit
  <2>. QED
    BY <1>7, <2>1
<1>. QED
  BY <1>8, <1>9

\* A bucket found, or opened with the rate.
LEMMA BucketFound ==
  ASSUME TypeOK, OpensBucket(Watched)
  PROVE  \/ BucketOf(Watched) = buckets[Watched] /\ meter' = meter
         \/ Gain /\ BucketOf(Watched).output = Tpm
BY DEF OpensBucket, BucketOf, NewBucket

\* try_consume: the reservation leaves the bucket for the request.
LEMMA MeterAdmit ==
  ASSUME PipeInv, TypeOK', MeterInv, NEW r \in Requests, Admit(r)
  PROVE  MeterInv'
<1>1. PICK c \in Clients, named \in Sids \cup {None} :
        /\ req' = [req EXCEPT ![r] = Reserved(c, named)]
        /\ buckets' = [buckets EXCEPT ![c] =
             [live |-> TRUE, requests |-> BucketOf(c).requests - 1,
              output |-> BucketOf(c).output - MaxTokens]]
        /\ OpensBucket(c)
  BY DEF Admit
<1>2. PICK q \in InFlight : q = Reserved(c, named)
  <2>1. Reserved(c, named) \in InFlight
    BY PipelineAssumption DEF Reserved, InFlight
  <2>. QED
    BY <2>1
<1>3. q.client = c /\ q.held = MaxTokens
  BY <1>2 DEF Reserved
<1>4. req[r] = NoRequest
  BY DEF Admit, PipeInv, TypeOK, InFlight, HasSlot, Leased
<1>5. Share(req[r], Watched) = 0
  BY <1>4, PipelineAssumption DEF Share, NoRequest
<1>6. /\ MaxTokens \in Int /\ Tpm \in Nat /\ meter \in Int
      /\ buckets[Watched].output \in Nat
  BY PipelineAssumption DEF PipeInv, TypeOK, Bucket
<1>7. CASE c = Watched
  <2>1. buckets'[Watched].output = BucketOf(Watched).output - MaxTokens
    BY <1>1, <1>7 DEF PipeInv, TypeOK
  <2>2. Share(q, Watched) = MaxTokens
    BY <1>3, <1>7 DEF Share
  <2>3. CASE BucketOf(Watched) = buckets[Watched] /\ meter' = meter
    <3>1. buckets'[Watched].output + Share(q, Watched) - meter'
            <= buckets[Watched].output + Share(req[r], Watched) - meter
      BY <1>5, <1>6, <2>1, <2>2, <2>3
    <3>. QED
      BY <1>1, <1>2, <1>3, <3>1, MeterMoves DEF PipeInv, InFull
  <2>4. CASE Gain /\ BucketOf(Watched).output = Tpm
    <3>1. buckets'[Watched].output + Share(q, Watched)
            <= buckets[Watched].output + Share(req[r], Watched) + Tpm
      BY <1>5, <1>6, <2>1, <2>2, <2>4
    <3>. QED
      BY <1>1, <1>2, <1>3, <2>4, <3>1, MeterMoves DEF PipeInv, InFull
  <2>. QED
    BY <1>1, <1>7, <2>3, <2>4, BucketFound DEF PipeInv
<1>8. CASE c # Watched
  <2>1. buckets'[Watched] = buckets[Watched] /\ meter' = meter
    BY <1>1, <1>8, PipelineAssumption DEF PipeInv, TypeOK, OpensBucket
  <2>2. Share(q, Watched) = 0
    BY <1>3, <1>8 DEF Share
  <2>3. buckets'[Watched].output + Share(q, Watched) - meter'
          <= buckets[Watched].output + Share(req[r], Watched) - meter
    BY <1>5, <1>6, <2>1, <2>2
  <2>. QED
    BY <1>1, <1>2, <1>3, <2>3, MeterMoves DEF PipeInv, InFull
<1>. QED
  BY <1>7, <1>8

\* settle: what is credited was reserved and not used.
LEMMA MeterSettle ==
  ASSUME TypeOK, TypeOK', MeterInv, NEW r \in Requests,
         req[r].pc \in {"running", "closing"},
         NEW actual \in 0 .. MaxTokens, Settle(r, actual), NEW q \in InFlight,
         req' = [req EXCEPT ![r] = q],
         q.pc \in {"settled", "terminal"}, q.client = req[r].client, q.held = 0
  PROVE  MeterInv'
<1>1. PICK c \in Clients : c = req[r].client
  BY HolderInFlight DEF InFlight
<1>2. req[r].held = MaxTokens
  BY DEF MeterInv, InFull, Unsettled, HasSlot, Leased
<1>3. PICK credit : credit = Credit(r, actual)
  OBVIOUS
<1>4. credit \in Int /\ credit <= MaxTokens - actual
  BY <1>2, <1>3, CreditBound
<1>5. buckets' = [buckets EXCEPT ![c].output = @ + credit] /\ Uses(c, actual)
  BY <1>1, <1>3 DEF Settle
<1>6. MaxTokens \in Int /\ meter \in Int /\ buckets[Watched].output \in Int
  BY PipelineAssumption DEF TypeOK, Bucket
<1>7. InFull(q) /\ Share(q, Watched) = 0
  BY DEF InFull, Unsettled, Share
<1>8. buckets'[Watched].output + Share(q, Watched) - meter'
        <= buckets[Watched].output + Share(req[r], Watched) - meter
  <2>1. CASE c = Watched
    <3>1. buckets'[Watched].output = buckets[Watched].output + credit
      BY <1>5, <2>1 DEF TypeOK, Bucket
    <3>2. meter' = meter - actual
      BY <1>5, <2>1 DEF Uses
    <3>3. Share(req[r], Watched) = MaxTokens
      BY <1>1, <1>2, <2>1 DEF Share
    <3>. QED
      BY <1>4, <1>6, <1>7, <3>1, <3>2, <3>3
  <2>2. CASE c # Watched
    <3>1. buckets'[Watched] = buckets[Watched] /\ meter' = meter
      BY <1>5, <2>2, PipelineAssumption DEF TypeOK, Uses
    <3>2. Share(req[r], Watched) = 0
      BY <1>1, <2>2 DEF Share
    <3>. QED
      BY <1>6, <1>7, <3>1, <3>2
  <2>. QED
    BY <2>1, <2>2
<1>. QED
  BY <1>7, <1>8, MeterMoves

\* The end of a request loses what it still holds.
LEMMA MeterEnd ==
  ASSUME TypeOK, TypeOK', MeterInv, NEW r \in Requests, End(r)
  PROVE  MeterInv'
<1>1. /\ req' = [req EXCEPT ![r] = NoRequest] /\ UNCHANGED buckets
      /\ Uses(req[r].client, req[r].held)
  BY DEF End
<1>2. req[r].held \in Int /\ buckets[Watched].output \in Int /\ meter \in Int
  BY PipelineAssumption DEF TypeOK, Bucket, InFlight, NoRequest
<1>3. Share(NoRequest, Watched) = 0 /\ InFull(NoRequest)
  BY DEF Share, NoRequest, InFull, Unsettled, HasSlot, Leased
<1>4. meter' = meter - Share(req[r], Watched)
  BY <1>1, <1>2 DEF Uses, Share
<1>5. Share(req[r], Watched) \in Int
  BY <1>2 DEF Share
<1>6. buckets'[Watched].output + Share(NoRequest, Watched) - meter'
        <= buckets[Watched].output + Share(req[r], Watched) - meter
  BY <1>1, <1>2, <1>3, <1>4, <1>5
<1>. QED
  BY <1>1, <1>3, <1>6, MeterMoves

\* A step that keeps a request's client and reservation and no bucket.
LEMMA MeterKept ==
  ASSUME TypeOK, TypeOK', MeterInv, NEW r \in Requests, NEW q \in InFlight,
         req' = [req EXCEPT ![r] = q], UNCHANGED <<buckets, meter>>,
         req[r].pc \in Unsettled,
         q.client = req[r].client, q.held = req[r].held
  PROVE  MeterInv'
<1>1. Share(q, Watched) = Share(req[r], Watched)
  BY DEF Share
<1>2. req[r].held \in Int /\ buckets[Watched].output \in Int /\ meter \in Int
  BY PipelineAssumption DEF TypeOK, Bucket, InFlight, NoRequest
<1>3. Share(req[r], Watched) \in Int
  BY <1>2 DEF Share
<1>4. InFull(q)
  BY DEF MeterInv, InFull
<1>5. buckets'[Watched].output + Share(q, Watched) - meter'
        <= buckets[Watched].output + Share(req[r], Watched) - meter
  BY <1>1, <1>2, <1>3
<1>. QED
  BY <1>4, <1>5, MeterMoves

\* A refill and a bucket opened for a refused client are gains; a dropped bucket
\* only loses.
LEMMA MeterTime ==
  ASSUME TypeOK, TypeOK', MeterInv,
         Minute \/ \E c \in Clients : Refuse(c) \/ DropBucket(c)
  PROVE  MeterInv'
<1>1. UNCHANGED req
  BY DEF Minute, Refuse, DropBucket
<1>2. Held(Watched)' = Held(Watched) /\ \A r \in Requests : InFull(req'[r])
  BY <1>1 DEF Held, Holding, MeterInv
<1>3. /\ buckets[Watched].output \in 0 .. 2 * Tpm
      /\ buckets'[Watched].output \in 0 .. 2 * Tpm
      /\ Held(Watched) \in Nat /\ meter \in Int /\ meter' \in Int
      /\ buckets'[Watched].output + Held(Watched) <= MeterDepth
      /\ Tpm \in Nat
  BY <1>2, MeterTypes, PipelineAssumption
<1>4. buckets[Watched].output + Held(Watched) <= meter
  BY DEF MeterInv
<1>5. ASSUME Gain, buckets'[Watched].output <= buckets[Watched].output + Tpm
      PROVE  buckets'[Watched].output + Held(Watched) <= meter'
  <2>1. buckets'[Watched].output + Held(Watched) <= meter + Tpm
    BY <1>3, <1>4, <1>5
  <2>. QED
    BY <1>3, <1>5, <2>1, GainCovers
<1>6. buckets'[Watched].output + Held(Watched) <= meter'
  <2>1. CASE Minute
    <3>1. Gain
      BY <2>1 DEF Minute
    <3>2. CASE buckets[Watched].live
      <4>1. buckets'[Watched].output = Burst(buckets[Watched].output, Tpm)
        BY <2>1, <3>2, PipelineAssumption DEF Minute
      <4>2. PICK a \in Int : a = buckets[Watched].output + Tpm
        BY <1>3
      <4>3. PICK b \in Int : b = 2 * Tpm
        BY <1>3
      <4>4. Burst(buckets[Watched].output, Tpm) = Min({a, b})
        BY <4>2, <4>3 DEF Burst
      <4>5. Min({a, b}) <= a
        BY MinOfTwo
      <4>. QED
        BY <1>5, <3>1, <4>1, <4>2, <4>4, <4>5
    <3>3. CASE ~buckets[Watched].live
      <4>1. buckets'[Watched].output = buckets[Watched].output
        BY <2>1, <3>3, PipelineAssumption DEF Minute
      <4>. QED
        BY <1>3, <1>5, <3>1, <4>1
    <3>. QED
      BY <3>2, <3>3
  <2>2. ASSUME NEW c \in Clients, Refuse(c)
        PROVE  buckets'[Watched].output + Held(Watched) <= meter'
    <3>1. CASE c = Watched
      <4>1. buckets'[Watched] = BucketOf(Watched) /\ OpensBucket(Watched)
        BY <2>2, <3>1 DEF Refuse, TypeOK
      <4>2. CASE BucketOf(Watched) = buckets[Watched] /\ meter' = meter
        BY <1>4, <4>1, <4>2
      <4>3. CASE Gain /\ BucketOf(Watched).output = Tpm
        BY <1>3, <1>5, <4>1, <4>3
      <4>. QED
        BY <4>1, <4>2, <4>3, BucketFound
    <3>2. CASE c # Watched
      <4>1. buckets'[Watched] = buckets[Watched] /\ meter' = meter
        BY <2>2, <3>2, PipelineAssumption DEF Refuse, OpensBucket, TypeOK
      <4>. QED
        BY <1>4, <4>1
    <3>. QED
      BY <3>1, <3>2
  <2>3. ASSUME NEW c \in Clients, DropBucket(c)
        PROVE  buckets'[Watched].output + Held(Watched) <= meter'
    <3>1. buckets'[Watched].output \in {0, buckets[Watched].output}
      BY <2>3, PipelineAssumption DEF DropBucket, NoBucket, TypeOK
    <3>2. meter' = meter
      BY <2>3 DEF DropBucket
    <3>. QED
      BY <1>3, <1>4, <3>1, <3>2
  <2>. QED
    BY <2>1, <2>2, <2>3
<1>. QED
  BY <1>2, <1>6 DEF MeterInv

\* The meter over every step.
LEMMA MeterStep ==
  ASSUME PipeInv, PipeInv', MeterInv, [Next]_vars
  PROVE  MeterInv'
<1>0. TypeOK /\ TypeOK'
  BY DEF PipeInv
<1>1. ASSUME NEW r \in Requests, AcquireSlot(r) \/ Intake(r) \/ Ask(r)
                \/ StreamOpens(r) \/ StreamFails(r) \/ ClientReads(r)
                \/ OpenSession(r) \/ Chunk(r) \/ StreamEnds(r)
      PROVE  MeterInv'
  <2>1. req[r].pc \in Unsettled /\ req[r].pc # "done" /\ UNCHANGED <<buckets, meter>>
    BY <1>1 DEF AcquireSlot, Intake, Ask, StreamOpens, StreamFails,
                ClientReads, OpenSession, Chunk, StreamEnds, Moves,
                Unsettled, HasSlot, Leased
  <2>2. req[r] \in InFlight
    BY <1>0, <2>1, HolderInFlight
  <2>3. PICK q : /\ req' = [req EXCEPT ![r] = q]
                 /\ q.client = req[r].client /\ q.held = req[r].held
    <3>1. CASE AcquireSlot(r) \/ Intake(r) \/ Ask(r) \/ StreamOpens(r)
                 \/ StreamFails(r) \/ ClientReads(r)
      <4>1. PICK pc : req' = [req EXCEPT ![r].pc = pc]
        BY <3>1 DEF AcquireSlot, Intake, Ask, StreamOpens, StreamFails,
                    ClientReads, Moves
      <4>. QED
        BY <1>0, <2>2, <4>1 DEF TypeOK, InFlight
    <3>2. CASE OpenSession(r)
      <4>1. PICK sid : req' = [req EXCEPT ![r].pc = "leased", ![r].session = sid]
        BY <3>2 DEF OpenSession
      <4>. DEFINE x == [req[r] EXCEPT !.pc = "leased", !.session = sid]
      <4>2. req' = [req EXCEPT ![r] = x]
        BY <1>0, <4>1 DEF TypeOK
      <4>3. x.client = req[r].client /\ x.held = req[r].held
        BY <2>2 DEF InFlight
      <4>. HIDE DEF x
      <4>. QED
        BY <4>2, <4>3
    <3>3. CASE Chunk(r)
      <4>1. PICK pc : req' = [req EXCEPT ![r].generated = @ + 1, ![r].pc = pc]
        BY <3>3 DEF Chunk
      <4>. DEFINE x == [req[r] EXCEPT !.generated = req[r].generated + 1, !.pc = pc]
      <4>2. req' = [req EXCEPT ![r] = x]
        BY <1>0, <4>1 DEF TypeOK
      <4>3. x.client = req[r].client /\ x.held = req[r].held
        BY <2>2 DEF InFlight
      <4>. HIDE DEF x
      <4>. QED
        BY <4>2, <4>3
    <3>4. CASE StreamEnds(r)
      <4>1. PICK pc, u : req' = [req EXCEPT ![r].pc = pc, ![r].usage = u]
        BY <3>4 DEF StreamEnds
      <4>. DEFINE x == [req[r] EXCEPT !.pc = pc, !.usage = u]
      <4>2. req' = [req EXCEPT ![r] = x]
        BY <1>0, <4>1 DEF TypeOK
      <4>3. x.client = req[r].client /\ x.held = req[r].held
        BY <2>2 DEF InFlight
      <4>. HIDE DEF x
      <4>. QED
        BY <4>2, <4>3
    <3>. QED
      BY <1>1, <3>1, <3>2, <3>3, <3>4
  <2>4. q = req'[r]
    BY <1>0, <2>3 DEF TypeOK
  <2>5. q \in InFlight
    <3>1. q \in InFlight \cup {NoRequest}
      BY <1>0, <2>4 DEF TypeOK
    <3>2. q.client \in Clients
      BY <2>2, <2>3 DEF InFlight
    <3>. QED
      BY <3>1, <3>2, PipelineAssumption DEF NoRequest
  <2>. QED
    BY <1>0, <2>1, <2>3, <2>5, MeterKept
<1>2. ASSUME NEW r \in Requests, Overloaded(r) \/ SessionRefused(r)
                \/ IntakeFails(r) \/ Return(r) \/ RunFails(r) \/ TerminalSent(r)
                \/ SendFails(r) \/ HangUp(r)
      PROVE  MeterInv'
  <2>1. End(r)
    BY <1>2 DEF Overloaded, SessionRefused, IntakeFails, Return, RunFails,
                TerminalSent, SendFails, HangUp
  <2>. QED
    BY <1>0, <2>1, MeterEnd
<1>3. ASSUME NEW r \in Requests, Answer(r) \/ FinishStream(r)
      PROVE  MeterInv'
  <2>1. req[r].pc \in {"running", "closing"}
    BY <1>3 DEF Answer, FinishStream
  <2>2. req[r] \in InFlight
    BY <1>0, <2>1, HolderInFlight
  <2>3. PICK actual, q : /\ actual \in 0 .. MaxTokens
                         /\ Settle(r, actual) /\ req' = [req EXCEPT ![r] = q]
                         /\ q.pc \in {"settled", "terminal"}
                         /\ q.client = req[r].client /\ q.held = 0
    <3>1. CASE Answer(r)
      <4>1. PICK n \in 0 .. MaxTokens :
                     /\ Settle(r, n)
                     /\ req' = [req EXCEPT ![r].pc = "settled", ![r].held = 0]
        BY <3>1 DEF Answer
      <4>. DEFINE x == [req[r] EXCEPT !.pc = "settled", !.held = 0]
      <4>2. req' = [req EXCEPT ![r] = x]
        BY <1>0, <4>1 DEF TypeOK
      <4>3. x.pc = "settled" /\ x.client = req[r].client /\ x.held = 0
        BY <2>2 DEF InFlight
      <4>. HIDE DEF x
      <4>. QED
        BY <4>1, <4>2, <4>3
    <3>2. CASE FinishStream(r)
      <4>. DEFINE x == [req[r] EXCEPT !.pc = "terminal", !.held = 0,
                                      !.generated = 0, !.usage = 0]
      <4>1. Settle(r, req[r].usage) /\ req' = [req EXCEPT ![r] = x]
        BY <1>0, <3>2 DEF FinishStream, TypeOK
      <4>2. x.pc = "terminal" /\ x.client = req[r].client /\ x.held = 0
        BY <2>2 DEF InFlight
      <4>3. req[r].usage \in 0 .. MaxTokens
        BY <2>2 DEF InFlight
      <4>. HIDE DEF x
      <4>. QED
        BY <4>1, <4>2, <4>3
    <3>. QED
      BY <1>3, <3>1, <3>2
  <2>4. q = req'[r]
    BY <1>0, <2>3 DEF TypeOK
  <2>5. q \in InFlight
    <3>1. q \in InFlight \cup {NoRequest}
      BY <1>0, <2>4 DEF TypeOK
    <3>2. q.client \in Clients
      BY <2>2, <2>3 DEF InFlight
    <3>. QED
      BY <3>1, <3>2, PipelineAssumption DEF NoRequest
  <2>. QED
    BY <1>0, <2>1, <2>3, <2>5, MeterSettle
<1>4. ASSUME NEW r \in Requests, Admit(r) PROVE MeterInv'
  BY <1>0, <1>4, MeterAdmit
<1>5. CASE Minute \/ \E c \in Clients : Refuse(c) \/ DropBucket(c)
  BY <1>0, <1>5, MeterTime
<1>6. CASE UNCHANGED <<req, buckets, meter>>
  BY <1>6 DEF MeterInv, Held, Holding
<1>7. ASSUME NEW s \in Sids \cup Ephemerals, Expire(s) PROVE MeterInv'
  BY <1>6, <1>7 DEF Expire
<1>8. ASSUME NEW r \in Requests, Admit(r) \/ NodeStep(r) \/ ClientStep(r)
                                  \/ HangUp(r)
      PROVE  MeterInv'
  BY <1>1, <1>2, <1>3, <1>4, <1>8 DEF NodeStep, ClientStep
<1>. QED
  BY <1>5, <1>6, <1>7, <1>8 DEF Next, vars

\* No client, whichever is watched, uses more than its rate: what its requests
\* report or lose is covered by what minutes and new buckets gave it, whatever
\* is refunded, dropped or in flight (rate_limiter.rs, try_consume and settle;
\* node.rs, process_inference and finish_streaming_inference).
THEOREM UsageStaysWithinRate == Spec => []UsageWithinRate
<1>1. Init => MeterInv
  <2>. SUFFICES ASSUME Init PROVE MeterInv
    OBVIOUS
  <2>1. Holding(Watched) = {}
    BY DEF Init, Holding, NoRequest
  <2>2. buckets[Watched].output = 0 /\ meter = 0
    BY PipelineAssumption DEF Init, NoBucket
  <2>3. Held(Watched) = 0
    BY <2>1, FS_EmptySet, PipelineAssumption DEF Held
  <2>4. \A r \in Requests : InFull(req[r])
    BY DEF Init, NoRequest, InFull, Unsettled, HasSlot, Leased
  <2>. QED
    BY <2>2, <2>3, <2>4 DEF MeterInv
<1>2. PipeInv /\ PipeInv' /\ MeterInv /\ [Next]_vars => MeterInv'
  BY MeterStep
<1>3. PipeInv /\ MeterInv => UsageWithinRate
  <2>. SUFFICES ASSUME PipeInv, MeterInv PROVE meter >= 0
    BY DEF UsageWithinRate
  <2>1. Holding(Watched) \in SUBSET Requests
    BY DEF Holding
  <2>2. Cardinality(Holding(Watched)) \in Nat
    BY <2>1, HoldingFinite
  <2>3. Held(Watched) \in Nat
    BY <2>2, PipelineAssumption DEF Held
  <2>4. buckets[Watched].output \in Nat /\ meter \in Int
    BY PipelineAssumption DEF PipeInv, TypeOK, Bucket
  <2>. QED
    BY <2>3, <2>4 DEF MeterInv
<1>. QED
  BY <1>1, <1>2, <1>3, PipeInit, PipeStep, PTL DEF Spec

-------------------------------------------------------------------------------
(* The ceilings *)

Owned(c) == {s \in Live : sessions[s] = c}
Holders == {r \in Requests : req[r].pc \in HasSlot}

\* The table, each client's share of it, and the slots are within their limits.
Ceilings ==
  /\ SlotsTaken <= MaxConcurrent
  /\ Cardinality(Live) <= MaxSessions
  /\ \A c \in Clients : Cardinality(Owned(c)) <= MaxPerClient

CapsInv == IsFiniteSet(Holders) /\ IsFiniteSet(Live) /\ Ceilings

\* Smaller sets stay under a ceiling.
LEMMA StaysUnder ==
  ASSUME NEW S, NEW T \in SUBSET S, IsFiniteSet(S), NEW n \in Nat,
         Cardinality(S) <= n
  PROVE  IsFiniteSet(T) /\ Cardinality(T) <= n
<1>1. IsFiniteSet(T) /\ Cardinality(T) <= Cardinality(S)
  BY FS_Subset
<1>2. Cardinality(S) \in Nat /\ Cardinality(T) \in Nat
  BY <1>1, FS_CardinalityType
<1>. QED
  BY <1>1, <1>2

\* One more under a ceiling that was not reached.
LEMMA OneMoreUnder ==
  ASSUME NEW S, NEW x, IsFiniteSet(S), NEW n \in Nat, Cardinality(S) < n
  PROVE  IsFiniteSet(S \cup {x}) /\ Cardinality(S \cup {x}) <= n
<1>1. /\ IsFiniteSet(S \cup {x})
      /\ Cardinality(S \cup {x}) =
           IF x \in S THEN Cardinality(S) ELSE Cardinality(S) + 1
  BY FS_AddElement
<1>2. Cardinality(S) \in Nat
  BY FS_CardinalityType
<1>. QED
  BY <1>1, <1>2

\* The sessions of a client are among those in the table.
LEMMA OwnedFinite ==
  ASSUME CapsInv, NEW c
  PROVE  IsFiniteSet(Owned(c))
<1>1. Owned(c) \in SUBSET Live
  BY DEF Owned
<1>. QED
  BY <1>1, FS_Subset DEF CapsInv

\* Sessions that end leave room.
LEMMA TableShrinks ==
  ASSUME CapsInv, Live' \subseteq Live,
         \A c \in Clients : Owned(c)' \subseteq Owned(c)
  PROVE  /\ IsFiniteSet(Live') /\ Cardinality(Live') <= MaxSessions
         /\ \A c \in Clients : Cardinality(Owned(c)') <= MaxPerClient
<1>1. MaxSessions \in Nat /\ MaxPerClient \in Nat
  BY PipelineAssumption
<1>2. IsFiniteSet(Live') /\ Cardinality(Live') <= MaxSessions
  <2>1. Live' \in SUBSET Live /\ IsFiniteSet(Live) /\ Cardinality(Live) <= MaxSessions
    BY DEF CapsInv, Ceilings
  <2>. QED
    BY <1>1, <2>1, StaysUnder
<1>3. ASSUME NEW c \in Clients
      PROVE  Cardinality(Owned(c)') <= MaxPerClient
  <2>1. /\ Owned(c)' \in SUBSET Owned(c) /\ IsFiniteSet(Owned(c))
        /\ Cardinality(Owned(c)) <= MaxPerClient
    BY OwnedFinite DEF CapsInv, Ceilings
  <2>. QED
    BY <1>1, <2>1, StaysUnder
<1>. QED
  BY <1>2, <1>3

\* insert_session and resume: the two ceilings are looked at before the entry
\* is made.
LEMMA TableGrows ==
  ASSUME TypeOK, CapsInv, NEW r \in Requests, OpenSession(r)
  PROVE  /\ IsFiniteSet(Live') /\ Cardinality(Live') <= MaxSessions
         /\ \A c \in Clients : Cardinality(Owned(c)') <= MaxPerClient
<1>1. PICK c \in Clients : c = req[r].client
  BY HolderInFlight DEF OpenSession, InFlight
<1>2. PICK s : /\ sessions[s] = c \/ (sessions[s] = Nobody /\ RoomFor(c))
               /\ sessions' = [sessions EXCEPT ![s] = c]
  BY <1>1 DEF OpenSession
<1>3. MaxSessions \in Nat /\ MaxPerClient \in Nat
  BY PipelineAssumption
<1>4. CASE sessions' = sessions
  BY <1>4, TableShrinks DEF Live, Owned
<1>5. CASE /\ s \in Sids \cup Ephemerals
           /\ sessions[s] = Nobody /\ RoomFor(c)
  <2>1. /\ sessions'[s] = c
        /\ \A x \in (Sids \cup Ephemerals) \ {s} : sessions'[x] = sessions[x]
    BY <1>2, <1>5 DEF TypeOK
  <2>2. c # Nobody
    BY PipelineAssumption
  <2>3. Live' = Live \cup {s}
    BY <1>5, <2>1, <2>2 DEF Live
  <2>4. /\ Owned(c)' = Owned(c) \cup {s}
        /\ \A d \in Clients \ {c} : Owned(d)' = Owned(d)
    BY <1>5, <2>1, <2>2, <2>3 DEF Owned, Live
  <2>5. Cardinality(Live) < MaxSessions /\ Cardinality(Owned(c)) < MaxPerClient
    BY <1>5 DEF RoomFor, Owned
  <2>6. IsFiniteSet(Live') /\ Cardinality(Live') <= MaxSessions
    BY <1>3, <2>3, <2>5, OneMoreUnder DEF CapsInv
  <2>7. Cardinality(Owned(c)') <= MaxPerClient
    BY <1>3, <2>4, <2>5, OneMoreUnder, OwnedFinite
  <2>. QED
    BY <2>4, <2>6, <2>7 DEF CapsInv, Ceilings
<1>. QED
  BY <1>2, <1>4, <1>5 DEF TypeOK

\* try_acquire_owned: one more slot, if one is free.
LEMMA SlotTaken ==
  ASSUME TypeOK, CapsInv, NEW r \in Requests, AcquireSlot(r)
  PROVE  IsFiniteSet(Holders') /\ SlotsTaken' <= MaxConcurrent
<1>1. /\ Cardinality(Holders) < MaxConcurrent /\ IsFiniteSet(Holders)
      /\ MaxConcurrent \in Nat
  BY PipelineAssumption DEF AcquireSlot, SlotsTaken, Holders, CapsInv
<1>2. /\ \A p \in Requests \ {r} : req'[p] = req[p]
      /\ req'[r].pc = "slot"
  BY HolderInFlight DEF AcquireSlot, Moves, TypeOK, InFlight
<1>3. Holders' = Holders \cup {r}
  BY <1>2 DEF Holders, HasSlot
<1>4. IsFiniteSet(Holders') /\ Cardinality(Holders') <= MaxConcurrent
  BY <1>1, <1>3, OneMoreUnder
<1>. QED
  BY <1>4 DEF SlotsTaken, Holders

\* A step after which no request holds a slot that it did not hold before.
LEMMA SlotsKept ==
  ASSUME CapsInv, \A p \in Requests : req'[p].pc \in HasSlot => req[p].pc \in HasSlot
  PROVE  IsFiniteSet(Holders') /\ SlotsTaken' <= MaxConcurrent
<1>1. Holders' \in SUBSET Holders
  BY DEF Holders
<1>2. /\ IsFiniteSet(Holders) /\ Cardinality(Holders) <= MaxConcurrent
      /\ MaxConcurrent \in Nat
  BY PipelineAssumption DEF CapsInv, Ceilings, SlotsTaken, Holders
<1>3. IsFiniteSet(Holders') /\ Cardinality(Holders') <= MaxConcurrent
  BY <1>1, <1>2, StaysUnder
<1>. QED
  BY <1>3 DEF SlotsTaken, Holders

\* The ceilings over every step.
LEMMA CapsStep ==
  ASSUME PipeInv, CapsInv, [Next]_vars
  PROVE  CapsInv'
<1>0. TypeOK
  BY DEF PipeInv
<1>1. ASSUME sessions' = sessions, IsFiniteSet(Holders'),
             SlotsTaken' <= MaxConcurrent
      PROVE  CapsInv'
  <2>1. Live' = Live /\ \A c \in Clients : Owned(c)' = Owned(c)
    BY <1>1 DEF Live, Owned
  <2>. QED
    BY <1>1, <2>1 DEF CapsInv, Ceilings
<1>2. ASSUME NEW x, sessions' \in {sessions, [sessions EXCEPT ![x] = Nobody]},
             IsFiniteSet(Holders'), SlotsTaken' <= MaxConcurrent
      PROVE  CapsInv'
  <2>1. \A s \in Sids \cup Ephemerals : sessions'[s] \in {sessions[s], Nobody}
    BY <1>0, <1>2 DEF TypeOK
  <2>2. Live' \subseteq Live
    BY <2>1 DEF Live
  <2>3. \A c \in Clients : Owned(c)' \subseteq Owned(c)
    BY <2>1, <2>2 DEF Owned, Live
  <2>. QED
    BY <1>2, <2>2, <2>3, TableShrinks DEF CapsInv, Ceilings
<1>3. ASSUME NEW r \in Requests, AcquireSlot(r) PROVE CapsInv'
  BY <1>0, <1>1, <1>3, SlotTaken DEF AcquireSlot, Moves
<1>4. ASSUME NEW r \in Requests, OpenSession(r) PROVE CapsInv'
  <2>1. \A p \in Requests : req'[p].pc \in HasSlot => req[p].pc \in HasSlot
    BY <1>0, <1>4 DEF OpenSession, TypeOK, HasSlot
  <2>2. IsFiniteSet(Holders') /\ SlotsTaken' <= MaxConcurrent
    BY <2>1, SlotsKept
  <2>. QED
    BY <1>0, <1>4, <2>2, TableGrows DEF CapsInv, Ceilings
<1>5. ASSUME NEW r \in Requests, End(r) PROVE CapsInv'
  <2>1. \A p \in Requests : req'[p].pc \in HasSlot => req[p].pc \in HasSlot
    BY <1>0, <1>5 DEF End, TypeOK, NoRequest, HasSlot, Leased
  <2>2. IsFiniteSet(Holders') /\ SlotsTaken' <= MaxConcurrent
    BY <2>1, SlotsKept
  <2>3. sessions' \in {sessions, [sessions EXCEPT ![req[r].session] = Nobody]}
    BY <1>5 DEF End, DropLease
  <2>. QED
    BY <1>2, <2>2, <2>3
<1>6. ASSUME NEW r \in Requests, NEW pc,
             \A p \in Requests \ {r} : req'[p] = req[p],
             req'[r].pc = pc, pc \in HasSlot => req[r].pc \in HasSlot,
             sessions' = sessions
      PROVE  CapsInv'
  <2>1. \A p \in Requests : req'[p].pc \in HasSlot => req[p].pc \in HasSlot
    BY <1>6
  <2>. QED
    BY <1>1, <1>6, <2>1, SlotsKept
<1>7. ASSUME NEW r \in Requests, Admit(r) PROVE CapsInv'
  <2>1. PICK q : q.pc = "reserved" /\ req' = [req EXCEPT ![r] = q]
    BY <1>7 DEF Admit, Reserved
  <2>2. /\ \A p \in Requests \ {r} : req'[p] = req[p]
        /\ req'[r].pc = "reserved" /\ sessions' = sessions
    BY <1>0, <1>7, <2>1 DEF TypeOK, Admit
  <2>. QED
    BY <1>6, <2>2 DEF HasSlot, Leased
<1>8. ASSUME NEW r \in Requests, Intake(r) \/ Ask(r) \/ StreamOpens(r)
                \/ StreamFails(r) \/ ClientReads(r) \/ Chunk(r) \/ StreamEnds(r)
                \/ Answer(r) \/ FinishStream(r)
      PROVE  CapsInv'
  <2>1. req[r].pc \in HasSlot /\ sessions' = sessions
    BY <1>8 DEF Intake, Ask, StreamOpens, StreamFails, ClientReads, Chunk,
                StreamEnds, Answer, FinishStream, Moves, HasSlot, Leased
  <2>2. \A p \in Requests \ {r} : req'[p] = req[p]
    BY <1>0, <1>8 DEF TypeOK, Intake, Ask, StreamOpens, StreamFails,
                ClientReads, Chunk, StreamEnds, Answer, FinishStream, Moves
  <2>. QED
    BY <1>6, <2>1, <2>2
<1>9. ASSUME NEW r \in Requests, Admit(r) \/ NodeStep(r) \/ ClientStep(r)
                                  \/ HangUp(r)
      PROVE  CapsInv'
  BY <1>3, <1>4, <1>5, <1>7, <1>8, <1>9
     DEF NodeStep, ClientStep, Overloaded, SessionRefused, IntakeFails, Return,
         RunFails, TerminalSent, SendFails, HangUp
<1>10. ASSUME req' = req PROVE IsFiniteSet(Holders') /\ SlotsTaken' <= MaxConcurrent
  BY <1>10, SlotsKept
<1>11. ASSUME NEW s \in Sids \cup Ephemerals, Expire(s) PROVE CapsInv'
  <2>1. req' = req /\ sessions' \in {sessions, [sessions EXCEPT ![s] = Nobody]}
    BY <1>11 DEF Expire
  <2>2. IsFiniteSet(Holders') /\ SlotsTaken' <= MaxConcurrent
    BY <1>10, <2>1
  <2>. QED
    BY <1>2, <2>1, <2>2
<1>12. CASE \/ Minute \/ UNCHANGED vars
            \/ \E c \in Clients : Refuse(c) \/ DropBucket(c)
  <2>1. req' = req /\ sessions' = sessions
    BY <1>12 DEF Minute, Refuse, DropBucket, vars
  <2>. QED
    BY <1>1, <1>10, <2>1
<1>. QED
  BY <1>9, <1>11, <1>12 DEF Next

\* Before the first request nothing is taken.
LEMMA CapsInit == Init => CapsInv
<1>. SUFFICES ASSUME Init PROVE CapsInv
  OBVIOUS
<1>1. Holders = {} /\ Live = {} /\ \A c \in Clients : Owned(c) = {}
  BY DEF Init, Holders, Live, Owned, NoRequest, HasSlot, Leased
<1>2. SlotsTaken = Cardinality(Holders)
  BY DEF SlotsTaken, Holders
<1>. QED
  BY <1>1, <1>2, FS_EmptySet, PipelineAssumption DEF CapsInv, Ceilings

\* No interleaving of requests exceeds max_concurrent_requests, the session
\* table or a client's share of it (inference.rs, admit and insert_session).
THEOREM CeilingsHold == Spec => []Ceilings
<1>1. PipeInv /\ CapsInv /\ [Next]_vars => CapsInv'
  BY CapsStep
<1>2. CapsInv => Ceilings
  BY DEF CapsInv
<1>. QED
  BY <1>1, <1>2, CapsInit, PipeInit, PipeStep, PTL DEF Spec

-------------------------------------------------------------------------------
(* Nobody is locked out *)

\* A client's sessions in some order, and a session's place in its owner's.
InOrder(c) ==
  CHOOSE f : f \in Bijection(1 .. Cardinality(Owned(c)), Owned(c))
Place(s) ==
  CHOOSE i \in 1 .. Cardinality(Owned(sessions[s])) :
    InOrder(sessions[s])[i] = s

\* The place is within the client's share, and tells its sessions apart.
LEMMA PlaceInShare ==
  ASSUME TypeOK, CapsInv, NEW s \in Live
  PROVE  /\ sessions[s] \in Clients
         /\ Place(s) \in 1 .. MaxPerClient
         /\ InOrder(sessions[s])[Place(s)] = s
<1>1. PICK c \in Clients : c = sessions[s]
  BY DEF Live, TypeOK
<1>2. s \in Owned(c)
  BY <1>1 DEF Owned
<1>3. IsFiniteSet(Owned(c))
  BY OwnedFinite
<1>4. /\ Cardinality(Owned(c)) \in Nat
      /\ ExistsBijection(1 .. Cardinality(Owned(c)), Owned(c))
  BY <1>3, FS_CardinalityType
<1>5. InOrder(c) \in Bijection(1 .. Cardinality(Owned(c)), Owned(c))
  BY <1>4 DEF InOrder, ExistsBijection
<1>6. \E i \in 1 .. Cardinality(Owned(c)) : InOrder(c)[i] = s
  BY <1>2, <1>5 DEF Bijection, Surjection
<1>7. /\ Place(s) \in 1 .. Cardinality(Owned(c))
      /\ InOrder(c)[Place(s)] = s
  BY <1>1, <1>6 DEF Place
<1>8. Cardinality(Owned(c)) <= MaxPerClient /\ MaxPerClient \in Nat
  BY PipelineAssumption DEF CapsInv, Ceilings
<1>. QED
  BY <1>1, <1>4, <1>7, <1>8

\* The shares of the other clients bound what a client without a session finds
\* in the table.
LEMMA SharesFit ==
  ASSUME TypeOK, CapsInv, NEW c \in Clients, \A s \in Live : sessions[s] # c
  PROVE  Cardinality(Live) <= (Cardinality(Clients) - 1) * MaxPerClient
<1>. DEFINE Others == Clients \ {c}
            Shares == Others \X (1 .. MaxPerClient)
            f == [s \in Live |-> <<sessions[s], Place(s)>>]
<1>1. \A s \in Live : /\ sessions[s] \in Others
                      /\ Place(s) \in 1 .. MaxPerClient
                      /\ InOrder(sessions[s])[Place(s)] = s
  BY PlaceInShare
<1>2. f \in [Live -> Shares]
  BY <1>1
<1>3. ASSUME NEW s \in Live, NEW t \in Live, f[s] = f[t] PROVE s = t
  <2>1. <<sessions[s], Place(s)>> = <<sessions[t], Place(t)>>
    BY <1>3
  <2>2. sessions[s] = sessions[t] /\ Place(s) = Place(t)
    BY <2>1
  <2>. QED
    BY <1>1, <2>2
<1>4. f \in Injection(Live, Shares)
  BY <1>2, <1>3 DEF Injection, IsInjective
<1>5. /\ IsFiniteSet(Others)
      /\ Cardinality(Others) = Cardinality(Clients) - 1
  BY PipelineAssumption, FS_RemoveElement
<1>6. 1 \in Int /\ MaxPerClient \in Int /\ MaxPerClient \in Nat \ {0}
  BY PipelineAssumption
<1>7. /\ IsFiniteSet(1 .. MaxPerClient)
      /\ Cardinality(1 .. MaxPerClient) =
           IF 1 > MaxPerClient THEN 0 ELSE MaxPerClient - 1 + 1
  BY <1>6, FS_Interval, Zenon
<1>8. Cardinality(1 .. MaxPerClient) = MaxPerClient
  BY <1>6, <1>7
<1>. HIDE DEF Others, f
<1>9. /\ IsFiniteSet(Shares)
      /\ Cardinality(Shares) = Cardinality(Others) * MaxPerClient
  BY <1>5, <1>7, <1>8, FS_Product
<1>. HIDE DEF Shares
<1>10. Cardinality(Live) <= Cardinality(Shares)
  BY <1>4, <1>9, FS_Injection
<1>. QED
  BY <1>5, <1>9, <1>10

\* "one caller cannot consume the table and deny everyone else": however many
\* sessions the others open, a client without one finds room, as long as their
\* shares fit in the table (inference.rs, insert_session).
THEOREM NobodyIsLockedOut == Spec => []NobodyLockedOut
<1>1. PipeInv /\ CapsInv /\ [Next]_vars => CapsInv'
  BY CapsStep
<1>2. PipeInv /\ CapsInv => NobodyLockedOut
  <2>. SUFFICES ASSUME PipeInv, CapsInv,
                       (Cardinality(Clients) - 1) * MaxPerClient < MaxSessions,
                       NEW c \in Clients, \A s \in Live : sessions[s] # c
                PROVE  Cardinality(Live) < MaxSessions
    BY DEF NobodyLockedOut
  <2>1. Cardinality(Live) <= (Cardinality(Clients) - 1) * MaxPerClient
    BY SharesFit DEF PipeInv
  <2>2. Cardinality(Live) \in Nat /\ Cardinality(Clients) \in Nat
    BY FS_CardinalityType, PipelineAssumption DEF CapsInv
  <2>3. PICK n \in Int : n = (Cardinality(Clients) - 1) * MaxPerClient
    BY <2>2, PipelineAssumption
  <2>. QED
    BY <2>1, <2>2, <2>3, PipelineAssumption
<1>. QED
  BY <1>1, <1>2, CapsInit, PipeInit, PipeStep, PTL DEF Spec
===============================================================================
