---------------------------- MODULE RequestPipeline ----------------------------
(***************************************************************************)
(* The life of an inference request, unary or streamed (node.rs,           *)
(* inference.rs, rate_limiter.rs, handlers.rs): the token reservation, the *)
(* concurrency slot, the session, the intake record, the generation and    *)
(* the settlement, with requests of several clients interleaved and every  *)
(* way out, an error, a deadline, a policy block and a client that hangs   *)
(* up or stops reading included.                                           *)
(*                                                                         *)
(* The gates of admit that write nothing here (status, attestation,        *)
(* identity, limits, model store) have been passed.  Every request asks    *)
(* for MaxTokens output tokens.  Time shows in two ways: a minute refills  *)
(* the buckets, and a session may be idle for longer than any deadline.    *)
(***************************************************************************)
EXTENDS Integers, FiniteSets, FiniteSetsExt

CONSTANTS
  Requests,      \* requests that may be in flight
  Clients,
  Watched,       \* the client whose use is metered: any of them
  Sids,          \* session ids a client may name
  Ephemerals,    \* ids Uuid::new_v4 may return
  Nobody, None,
  MaxConcurrent, \* inference.max_concurrent_requests
  MaxSessions, MaxPerClient,
  ZeroOnEnd,     \* inference.kv_cache_zero_on_session_end
  MaxTokens,     \* params.max_tokens
  Rpm, Tpm       \* max_requests_per_minute, max_tokens_per_minute

ASSUME PipelineAssumption ==
  /\ IsFiniteSet(Clients) /\ IsFiniteSet(Requests) /\ Nobody \notin Clients
  /\ Watched \in Clients
  /\ None \notin Sids \cup Ephemerals
  /\ Sids \cap Ephemerals = {}
  /\ MaxConcurrent \in Nat \ {0}
  /\ MaxSessions \in Nat /\ MaxPerClient \in Nat \ {0}
  /\ ZeroOnEnd \in BOOLEAN
  /\ MaxTokens \in Nat \ {0}
  /\ Rpm \in Nat /\ Tpm \in Nat

VARIABLES
  req,       \* each request: where it is and what it holds
  buckets,   \* RateLimiter::buckets
  sessions,  \* KvCacheManager::sessions, the owner of each id
  meter      \* history: what its rate still allows Watched to use, see below

vars == <<req, buckets, sessions, meter>>

\* Where a request holds a concurrency slot, and a lease on a session.
Leased == {"leased", "logged", "running", "settled", "opening", "streaming",
           "sending", "tail", "closing", "terminal"}
HasSlot == {"slot"} \cup Leased

\* A request in flight.
InFlight == [pc : {"reserved"} \cup HasSlot, client : Clients,
             named : Sids \cup {None},
             session : Sids \cup Ephemerals \cup {None},
             held : {0, MaxTokens}, generated : 0 .. MaxTokens,
             usage : 0 .. MaxTokens]

NoRequest == [pc |-> "done", client |-> Nobody,
              named |-> None, session |-> None, held |-> 0, generated |-> 0,
              usage |-> 0]

Bucket == [live : BOOLEAN, requests : 0 .. 2 * Rpm, output : 0 .. 2 * Tpm]
NoBucket == [live |-> FALSE, requests |-> 0, output |-> 0]

\* A new bucket starts at the steady rate, not at the burst ceiling.
NewBucket == [live |-> TRUE, requests |-> Rpm, output |-> Tpm]

\* A request that has its reservation.
Reserved(c, named) ==
  [pc |-> "reserved", client |-> c, named |-> named,
   session |-> None, held |-> MaxTokens, generated |-> 0, usage |-> 0]

Init ==
  /\ req = [r \in Requests |-> NoRequest]
  /\ buckets = [c \in Clients |-> NoBucket]
  /\ sessions = [s \in Sids \cup Ephemerals |-> Nobody]
  /\ meter = 0

-------------------------------------------------------------------------------
(* What the rate allows a client, kept apart from its bucket: the meter    *)
(* gains Tpm with each minute and each bucket opened for the client, and   *)
(* loses what its requests use.  It holds no more than a full bucket and   *)
(* the reservations in flight.                                             *)

MeterDepth == 2 * Tpm + MaxTokens * Cardinality(Requests)

Gain == meter' = Min({meter + Tpm, MeterDepth})

Uses(c, tokens) == meter' = IF c = Watched THEN meter - tokens ELSE meter

-------------------------------------------------------------------------------
(* The rate limiter *)

\* refill tops out at burst_multiplier (2) times the rate.
Burst(have, rate) == Min({have + rate, 2 * rate})

\* A minute passes.  refill runs at the next check; its effect is the same.
Minute ==
  /\ buckets' = [c \in Clients |->
       IF buckets[c].live
       THEN [live |-> TRUE, requests |-> Burst(buckets[c].requests, Rpm),
             output |-> Burst(buckets[c].output, Tpm)]
       ELSE buckets[c]]
  /\ Gain
  /\ UNCHANGED <<req, sessions>>

\* The bucket is dropped: admin_suspend_client, or no request for an hour.
\* Requests in flight keep their reservations.
DropBucket(c) ==
  /\ buckets[c].live
  /\ buckets' = [buckets EXCEPT ![c] = NoBucket]
  /\ UNCHANGED <<req, sessions, meter>>

\* saturating_sub: tokens of the reservation that were not used.
Refund(r, actual) == req[r].held - Min({actual, req[r].held})

\* What settle credits back: up to the burst ceiling, and nothing to a client
\* without a bucket.
Credit(r, actual) ==
  LET bucket == buckets[req[r].client]
  IN IF bucket.live THEN Min({Refund(r, actual), 2 * Tpm - bucket.output}) ELSE 0

\* Mutation: the whole reservation is credited back.
SettleInFull(r, actual) ==
  LET c == req[r].client
  IN /\ buckets' = [buckets EXCEPT ![c].output = @ + Credit(r, 0)]
     /\ Uses(c, actual)

Settle(r, actual) ==
  LET c == req[r].client
  IN /\ buckets' = [buckets EXCEPT ![c].output = @ + Credit(r, actual)]
     /\ Uses(c, actual)

-------------------------------------------------------------------------------
(* The end of a request *)

\* Dropping the lease ends a session the request did not name.
EndOnDrop(r) == req[r].pc \in Leased /\ req[r].named = None /\ ZeroOnEnd

\* Mutation: only a request that was answered tears its session down.
DropLeaseWhenSettled(r) ==
  sessions' = IF EndOnDrop(r) /\ req[r].pc \in {"settled", "terminal"}
              THEN [sessions EXCEPT ![req[r].session] = Nobody] ELSE sessions

DropLease(r) ==
  sessions' = IF EndOnDrop(r) THEN [sessions EXCEPT ![req[r].session] = Nobody]
                              ELSE sessions

\* The request is over.  A reservation that was not settled is gone, and may
\* have been used up.
End(r) ==
  /\ req' = [req EXCEPT ![r] = NoRequest]
  /\ Uses(req[r].client, req[r].held)
  /\ DropLease(r)
  /\ UNCHANGED buckets

Moves(r, here, there) ==
  /\ req[r].pc = here
  /\ req' = [req EXCEPT ![r].pc = there]
  /\ UNCHANGED <<buckets, sessions, meter>>

-------------------------------------------------------------------------------
(* Admission *)

\* The bucket check finds, or inserts.
BucketOf(c) == IF buckets[c].live THEN buckets[c] ELSE NewBucket

OpensBucket(c) ==
  IF c = Watched /\ ~buckets[c].live THEN Gain ELSE UNCHANGED meter

\* RateLimiter::check, the last gate of admit.
Admit(r) ==
  /\ req[r].pc = "done"
  /\ \E c \in Clients, named \in Sids \cup {None} :
       /\ BucketOf(c).requests >= 1
       /\ BucketOf(c).output >= MaxTokens
       /\ req' = [req EXCEPT ![r] = Reserved(c, named)]
       /\ buckets' = [buckets EXCEPT ![c] =
            [live |-> TRUE, requests |-> BucketOf(c).requests - 1,
             output |-> BucketOf(c).output - MaxTokens]]
       /\ OpensBucket(c)
  /\ UNCHANGED sessions

\* A refusal takes nothing, but the client has a bucket from then on.
Refuse(c) ==
  /\ BucketOf(c).requests < 1 \/ BucketOf(c).output < MaxTokens
  /\ buckets' = [buckets EXCEPT ![c] = BucketOf(c)]
  /\ OpensBucket(c)
  /\ UNCHANGED <<req, sessions>>

SlotsTaken == Cardinality({r \in Requests : req[r].pc \in HasSlot})

\* InferenceEngine::admit: try_acquire_owned, or Overloaded.
AcquireSlot(r) == SlotsTaken < MaxConcurrent /\ Moves(r, "reserved", "slot")

Overloaded(r) ==
  /\ req[r].pc = "reserved"
  /\ SlotsTaken >= MaxConcurrent
  /\ End(r)

Live == {s \in Sids \cup Ephemerals : sessions[s] # Nobody}

\* Mutation: the table's ceiling only.
RoomInTable(c) == Cardinality(Live) < MaxSessions

\* insert_session's two ceilings.
RoomFor(c) ==
  /\ Cardinality(Live) < MaxSessions
  /\ Cardinality({s \in Live : sessions[s] = c}) < MaxPerClient

\* A new id is in no table and was given to no request in flight.
FreshIds == {e \in Ephemerals : sessions[e] = Nobody
               /\ \A r \in Requests : req[r].pc \in Leased => req[r].session # e}

\* open_session: resume what the client owns, or insert.
OpenSession(r) ==
  LET c == req[r].client
      s == IF req[r].named = None THEN CHOOSE e \in FreshIds : TRUE
                                  ELSE req[r].named
  IN /\ req[r].pc = "slot"
     /\ req[r].named = None => FreshIds # {}
     /\ sessions[s] = c \/ (sessions[s] = Nobody /\ RoomFor(c))
     /\ sessions' = [sessions EXCEPT ![s] = c]
     /\ req' = [req EXCEPT ![r].pc = "leased", ![r].session = s]
     /\ UNCHANGED <<buckets, meter>>

\* The session is another client's, or a ceiling is reached: the permit is
\* dropped.
SessionRefused(r) ==
  LET c == req[r].client
  IN /\ req[r].pc = "slot"
     /\ IF req[r].named = None THEN ~RoomFor(c)
        ELSE \/ sessions[req[r].named] \notin {c, Nobody}
             \/ sessions[req[r].named] = Nobody /\ ~RoomFor(c)
     /\ End(r)

\* The intake record is written before the runtime is asked.
Intake(r) == Moves(r, "leased", "logged")

\* A failed write refuses the request.
IntakeFails(r) == req[r].pc = "leased" /\ End(r)

-------------------------------------------------------------------------------
(* process_inference *)

\* The runtime is asked, for an answer or for a stream: up to here the two go
\* the same way.
Ask(r) == Moves(r, "logged", "running") \/ Moves(r, "logged", "opening")

\* The runtime's answer is settled to the tokens it reports.
Answer(r) ==
  /\ req[r].pc = "running"
  /\ \E n \in 0 .. MaxTokens :
       /\ Settle(r, n)
       /\ req' = [req EXCEPT ![r].pc = "settled", ![r].held = 0]
  /\ UNCHANGED sessions

\* Delivered, blocked by policy or refused for a covert channel: the lease is
\* dropped.
Return(r) == req[r].pc = "settled" /\ End(r)

\* The runtime fails or the deadline passes, after generating something or
\* nothing.
RunFails(r) ==
  /\ req[r].pc \in {"running", "opening"}
  /\ End(r)

\* The handler is dropped at one of its awaits: the answer of the runtime, or
\* the delay of timing.normalize.
HangUp(r) == req[r].pc \in {"running", "settled", "opening"} /\ End(r)

-------------------------------------------------------------------------------
(* begin_streaming_inference and the task that pumps the stream *)

StreamOpens(r) == Moves(r, "opening", "streaming")

\* A chunk: the filter releases some text, or withholds it.
Chunk(r) ==
  /\ req[r].pc = "streaming"
  /\ req[r].generated < MaxTokens
  /\ \E pc \in {"streaming", "sending"} :
       req' = [req EXCEPT ![r].generated = @ + 1, ![r].pc = pc]
  /\ UNCHANGED <<buckets, sessions, meter>>

\* tx.send has waited for room in the channel: the client reads on.
ClientReads(r) ==
  Moves(r, "sending", "streaming") \/ Moves(r, "tail", "closing")

\* The Done chunk brings the usage, if the runtime reported it before it closed.
\* What the filter held back is sent, unless there is none or it breaks the
\* policy.
StreamEnds(r) ==
  /\ req[r].pc = "streaming"
  /\ \E pc \in {"tail", "closing"}, usage \in {0, req[r].generated} :
       req' = [req EXCEPT ![r].pc = pc, ![r].usage = usage]
  /\ UNCHANGED <<buckets, sessions, meter>>

\* A runtime fault or a policy block: the loop breaks before Done.
StreamFails(r) == Moves(r, "streaming", "closing")

\* Mutation: the outcome is recorded once the usage is known.
FinishWhenReported(r) ==
  /\ req[r].pc = "closing"
  /\ req[r].usage = req[r].generated
  /\ Settle(r, req[r].usage)
  /\ req' = [req EXCEPT ![r].pc = "terminal", ![r].held = 0, ![r].generated = 0,
                        ![r].usage = 0]
  /\ UNCHANGED sessions

\* finish_streaming_inference, with whatever usage is known.
FinishStream(r) ==
  /\ req[r].pc = "closing"
  /\ Settle(r, req[r].usage)
  /\ req' = [req EXCEPT ![r].pc = "terminal", ![r].held = 0, ![r].generated = 0,
                        ![r].usage = 0]
  /\ UNCHANGED sessions

\* The terminal event is sent, and the session dropped with its lease.
TerminalSent(r) ==
  /\ req[r].pc = "terminal"
  /\ End(r)

\* A send to a client that hung up: the task returns at once.
SendFails(r) == req[r].pc \in {"sending", "tail"} /\ End(r)

-------------------------------------------------------------------------------
\* cleanup_expired.  The idle limit (900 s) is longer than any deadline: only a
\* stream that waits for its client can be idle that long.
Expire(s) ==
  /\ sessions[s] # Nobody
  /\ \A r \in Requests : req[r].pc \in Leased /\ req[r].session = s
                           => req[r].pc \in {"sending", "tail", "terminal"}
  /\ sessions' = [sessions EXCEPT ![s] = Nobody]
  /\ UNCHANGED <<req, buckets, meter>>

\* What the node and its runtime do for a request in flight.
NodeStep(r) ==
  \/ AcquireSlot(r) \/ Overloaded(r) \/ OpenSession(r) \/ SessionRefused(r)
  \/ Intake(r) \/ IntakeFails(r) \/ Ask(r) \/ Answer(r) \/ Return(r)
  \/ RunFails(r) \/ StreamOpens(r) \/ Chunk(r) \/ StreamEnds(r)
  \/ StreamFails(r) \/ FinishStream(r)

\* What its client does.
ClientStep(r) == ClientReads(r) \/ TerminalSent(r) \/ SendFails(r)

Next ==
  \/ \E r \in Requests : Admit(r) \/ NodeStep(r) \/ ClientStep(r) \/ HangUp(r)
  \/ \E s \in Sids \cup Ephemerals : Expire(s)
  \/ \E c \in Clients : Refuse(c) \/ DropBucket(c)
  \/ Minute

Spec == Init /\ [][Next]_vars

\* The node's tasks run, every wait on the runtime has a deadline, and clients
\* read what they are sent or hang up.
FairSpec ==
  Spec /\ \A r \in Requests : WF_vars(NodeStep(r)) /\ WF_vars(ClientStep(r))

-------------------------------------------------------------------------------
(* Properties *)

\* Type correctness of requests, buckets and sessions.
TypeOK ==
  /\ req \in [Requests -> InFlight \cup {NoRequest}]
  /\ buckets \in [Clients -> Bucket]
  /\ sessions \in [Sids \cup Ephemerals -> Clients \cup {Nobody}]
  /\ meter \in Int

\* The lease tears its session down on every way out: a session nobody named is
\* in the table only while a request holds it.
NoLeakedSession ==
  ZeroOnEnd => \A e \in Ephemerals : sessions[e] # Nobody =>
    \E r \in Requests : req[r].pc \in Leased /\ req[r].session = e

\* The requests of a client with a reservation, of MaxTokens each.
Holding(c) == {r \in Requests : req[r].client = c /\ req[r].held # 0}

\* No client uses more than its rate: over any stretch of time its requests
\* report, or lose unsettled, at most MeterDepth tokens and Tpm more for each
\* minute and each bucket opened, however refills, refunds, the burst ceiling,
\* dropped buckets and requests in flight follow one another (rate_limiter.rs,
\* try_consume and settle).
UsageWithinRate == meter >= 0

\* "one caller cannot consume the table and deny everyone else": a client that
\* holds no session finds the table not full, as long as the others' shares fit
\* in it.
NobodyLockedOut ==
  (Cardinality(Clients) - 1) * MaxPerClient < MaxSessions =>
    \A c \in Clients : (\A s \in Live : sessions[s] # c)
      => Cardinality(Live) < MaxSessions

\* Every request gives its slot back, whatever the runtime and the policy do.
SlotsComeBack ==
  \A r \in Requests : req[r].pc \in HasSlot ~> req[r].pc \notin HasSlot
===============================================================================
