------------------------------ MODULE Streaming ------------------------------
(***************************************************************************)
(* One streamed response, from the bytes of the runtime to the events of   *)
(* the client: the reader of server-sent events (openai.rs), which carries *)
(* an incomplete character and an incomplete record from one read to the   *)
(* next; the filter that releases text while it is generated               *)
(* (StreamingFilter in output_filter.rs); and the task of                  *)
(* inference_stream (handlers.rs) that sends what is released, and records *)
(* and signs the response at its end.                                      *)
(*                                                                         *)
(* A record is its payload and a blank line, two line ends of one or of    *)
(* two characters; usage and finish reasons, which only describe the       *)
(* response, are left out.  "wide" is a character of two bytes, "bad" a    *)
(* byte that starts none, "junk" a payload that is not JSON or has no      *)
(* delta.  What the runtime sends is chosen at the start, how it is cut    *)
(* into reads is not.  The channel to the client is in RequestPipeline.    *)
(***************************************************************************)
EXTENDS ContentPolicy, SequencesExt

CONSTANTS
  Policies,        \* the content policies, sequences of rules
  Replies,         \* what the runtime may generate, sequences of deltas
  Holdback,        \* DEFAULT_STREAM_HOLDBACK_CHARS
  MinStride,       \* MIN_REFILTER_STRIDE_CHARS
  StrideDivisor,   \* REFILTER_STRIDE_DIVISOR
  MaxRead          \* bound: bytes in one read

ASSUME StreamingAssumption ==
  /\ Holdback \in Nat /\ MinStride \in Nat \ {0}
  /\ StrideDivisor \in Nat \ {0} /\ MaxRead \in Nat \ {0}

VARIABLES
  policy,     \* the policy of the client
  wire,       \* the bytes the runtime has not been read of yet
  got,        \* all the bytes read so far
  reader,     \* the state of the reader: pending, buffer, terminated
  filter,     \* the StreamingFilter
  task,       \* where the task is, and how the stream ended
  sent,       \* the text of the delta events
  record      \* what finish_streaming_inference was told

vars == <<policy, wire, got, reader, filter, task, sent, record>>

-----------------------------------------------------------------------------
\* Bytes and characters.

Encode(char) == IF char = "wide" THEN <<"wide1", "wide2">> ELSE <<char>>
EncodeAll(text) == FlattenSeq([i \in DOMAIN text |-> Encode(text[i])])
Newlines == <<"nl", "nl">>
CarriageReturns == <<"cr", "nl", "cr", "nl">>
Blanks == {Newlines, CarriageReturns}
RecordsOf(deltas, blank) ==
  FlattenSeq([i \in DOMAIN deltas |-> EncodeAll(deltas[i]) \o blank])
Done == <<"DONE">>

\* The characters of complete byte sequences.  A byte that cannot start or
\* continue a character is replaced; a character that lacks its second byte
\* at the end is incomplete.
Decode(bytes) ==
  LET text[i \in 1 .. Len(bytes) + 1] ==
        IF i > Len(bytes) THEN <<>>
        ELSE IF bytes[i] # "wide1"
             THEN <<IF bytes[i] \in {"wide2", "bad"} THEN "lost"
                    ELSE bytes[i]>> \o text[i + 1]
             ELSE IF i = Len(bytes) THEN <<>>
             ELSE IF bytes[i + 1] = "wide2" THEN <<"wide">> \o text[i + 2]
             ELSE <<"lost">> \o text[i + 1]
  IN text[1]

Incomplete(bytes) ==
  IF bytes # <<>> /\ Last(bytes) = "wide1" THEN <<"wide1">> ELSE <<>>

\* decode_utf8_prefix: the text goes to the buffer, the incomplete character
\* waits for the next read.
\* Mutation: the incomplete character is replaced at once.
DecodedEagerly(rd, bytes) ==
  LET all == rd.pending \o bytes
  IN [rd EXCEPT !.pending = <<>>,
                !.buffer = @ \o Decode(all)
                             \o [i \in DOMAIN Incomplete(all) |-> "lost"]]

Decoded(rd, bytes) ==
  LET all == rd.pending \o bytes
  IN [rd EXCEPT !.pending = Incomplete(all), !.buffer = @ \o Decode(all)]

\* take_event: the first complete record of the buffer, up to the first pair
\* of newlines and, when there is none, to the first pair of CRLF.
Separator(buffer) ==
  IF Starts(<<Newlines>>, buffer) # {} THEN Newlines ELSE CarriageReturns
EventEnds(buffer) == Starts(<<Separator(buffer)>>, buffer)
FirstEvent(buffer) == SubSeq(buffer, 1, Min(EventEnds(buffer)) - 1)
AfterEvent(buffer) ==
  SubSeq(buffer, Min(EventEnds(buffer)) + Len(Separator(buffer)), Len(buffer))

-----------------------------------------------------------------------------
Init ==
  /\ policy \in Policies
  /\ \E deltas \in Replies, blank \in Blanks :
       \E end \in {<<>>, Done \o blank} : wire = RecordsOf(deltas, blank) \o end
  /\ got = <<>>
  /\ reader = [pending |-> <<>>, buffer |-> <<>>, terminated |-> FALSE]
  /\ filter = [raw |-> <<>>, scanned |-> 0, count |-> 0, released |-> <<>>,
               matched |-> {}]
  /\ task = "reading"
  /\ sent = <<>>
  /\ record = [text |-> <<>>, matched |-> {}]

\* scan_is_due, once the buffer is longer than what is held back.
ScanIsDue(raw, scanned) ==
  /\ Len(raw) > Holdback
  /\ Len(raw) - scanned >= Max({MinStride, scanned \div StrideDivisor})

\* What a scan of a text lets go, of which count characters went before.
\* Mutation: nothing is held back.
ReleaseAll(text, count) == SubSeq(text, count + 1, Len(text))

Release(text, count) == SubSeq(text, count + 1, Len(text) - Holdback)

\* The task ends with an error event; the record has no text.
Fails(reason) ==
  /\ task' = reason
  /\ record' = [text |-> <<>>, matched |-> filter.matched]

\* A scan that blocks: nothing of it is released.
\* Mutation: what precedes the holdback is released before the test.
BlockedLate(raw, chunk) ==
  /\ filter' = [filter EXCEPT !.raw = raw, !.scanned = Len(raw),
                              !.count = @ + Len(chunk),
                              !.released = @ \o chunk]
  /\ sent' = sent \o chunk
  /\ Fails("blocked")

Blocked(raw, chunk) ==
  /\ filter' = [filter EXCEPT !.raw = raw, !.scanned = Len(raw)]
  /\ Fails("blocked")
  /\ UNCHANGED sent

\* push: add the delta, scan when it is due, release what is safe.
Push(delta) ==
  LET raw == filter.raw \o delta
      result == Filter(policy, raw)
      chunk == Release(result.text, filter.count)
  IN \/ /\ ~ScanIsDue(raw, filter.scanned)
        /\ filter' = [filter EXCEPT !.raw = raw]
        /\ UNCHANGED <<task, sent, record>>
     \/ /\ ScanIsDue(raw, filter.scanned)
        /\ result.blocked
        /\ Blocked(raw, chunk)
     \/ /\ ScanIsDue(raw, filter.scanned)
        /\ ~result.blocked
        /\ filter' = [raw |-> raw, scanned |-> Len(raw),
                      count |-> filter.count + Len(chunk),
                      released |-> filter.released \o chunk,
                      matched |-> result.matched]
        /\ sent' = sent \o chunk
        /\ UNCHANGED <<task, record>>

\* The next complete record is parsed: the end marker, a payload that is
\* empty or malformed and skipped, or a delta for the filter.
NextEvent ==
  LET event == FirstEvent(reader.buffer)
      ends == event = Done
      skipped == event \in {<<>>, <<"junk">>}
  IN /\ task = "reading"
     /\ EventEnds(reader.buffer) # {}
     /\ reader' = [reader EXCEPT !.buffer = AfterEvent(@),
                                 !.terminated = @ \/ ends]
     /\ IF ends \/ skipped THEN UNCHANGED <<filter, task, sent, record>>
        ELSE Push(event)
     /\ UNCHANGED <<policy, wire, got>>

Waits == task = "reading" /\ EventEnds(reader.buffer) = {}

\* The next bytes arrive, cut anywhere.
Read ==
  /\ Waits
  /\ \E n \in 1 .. Min({MaxRead, Len(wire)}) :
       /\ reader' = Decoded(reader, SubSeq(wire, 1, n))
       /\ got' = got \o SubSeq(wire, 1, n)
       /\ wire' = SubSeq(wire, n + 1, Len(wire))
  /\ UNCHANGED <<policy, filter, task, sent, record>>

\* The connection to the runtime fails.
ReadFails ==
  /\ Waits
  /\ Fails("failed")
  /\ UNCHANGED <<policy, wire, got, reader, filter, sent>>

\* The runtime ends the stream early, cleanly.
Cut ==
  /\ Waits /\ wire # <<>>
  /\ wire' = <<>>
  /\ UNCHANGED <<policy, got, reader, filter, task, sent, record>>

\* The end of the stream without the end marker: what is left of a character
\* is replaced.  It cannot complete a record.
Flushed(rd) ==
  [rd EXCEPT !.buffer = @ \o [i \in DOMAIN rd.pending |-> "lost"],
             !.pending = <<>>, !.terminated = TRUE]

Eof ==
  /\ Waits /\ wire = <<>> /\ ~reader.terminated
  /\ reader' = Flushed(reader)
  /\ UNCHANGED <<policy, wire, got, filter, task, sent, record>>

\* finish: the last scan and the tail; the record has what was released, and
\* the rules of the last push that scanned.
Withheld(text) == SubSeq(text, filter.count + 1, Len(text))

Finish ==
  LET result == Filter(policy, filter.raw)
      tail == Withheld(result.text)
  IN /\ Waits /\ wire = <<>> /\ reader.terminated
     /\ \/ /\ result.blocked
           /\ filter' = [filter EXCEPT !.scanned = Len(filter.raw)]
           /\ Fails("blocked")
           /\ UNCHANGED sent
        \/ /\ ~result.blocked
           /\ filter' = [filter EXCEPT !.scanned = Len(filter.raw),
                                       !.count = Len(result.text),
                                       !.released = @ \o tail]
           /\ sent' = sent \o tail
           /\ task' = "done"
           /\ record' = [text |-> filter'.released,
                         matched |-> filter.matched]
     /\ UNCHANGED <<policy, wire, got, reader>>

Ended == task # "reading" /\ UNCHANGED vars

Next == NextEvent \/ Read \/ ReadFails \/ Cut \/ Eof \/ Finish \/ Ended

Spec == Init /\ [][Next]_vars

-----------------------------------------------------------------------------
Bytes == {"wide1", "wide2", "bad", "nl", "cr", "DONE", "junk", "a", "b"}
Chars == {"wide", "lost", "nl", "cr", "DONE", "junk", "a", "b", "mark"}

TypeOK ==
  /\ policy \in Policies
  /\ wire \in Seq(Bytes) /\ got \in Seq(Bytes)
  /\ reader.pending \in {<<>>, <<"wide1">>}
  /\ reader.buffer \in Seq(Chars) /\ reader.terminated \in BOOLEAN
  /\ filter.raw \in Seq(Chars) /\ filter.released \in Seq(Chars)
  /\ filter.scanned \in 0 .. Len(filter.raw)
  /\ filter.count = Len(filter.released)
  /\ filter.matched \subseteq DOMAIN policy
  /\ task \in {"reading", "done", "blocked", "failed"}
  /\ sent \in Seq(Chars)
  /\ record.text \in Seq(Chars) /\ record.matched \subseteq DOMAIN policy

\* The policy without the power to block: a blocking rule only logs.
Lenient == [n \in DOMAIN policy |->
              IF policy[n].action = "error"
              THEN [policy[n] EXCEPT !.action = "log"] ELSE policy[n]]

\* Nothing is released that a redacting or truncating rule of the
\* whole-response filter would have removed, had the response ended here:
\* what is released is the beginning of its result (the contract of
\* StreamingFilter).  That is all that holds of a response that is blocked:
\* what was released before the blocking rule fired stays released.
ReleasedIsPrefix == IsPrefix(filter.released, Filter(Lenient, filter.raw).text)

\* Whatever happens later, also when the stream is stopped by a rule, what
\* was released is text the policy allows (the promise of push).
ReleasedIsAllowed == ~Filter(policy, filter.released).blocked

\* The text of the complete records among the bytes read, whatever the reads.
Heard ==
  LET text == Decode(got)
      ends == EventEnds(text)
      inside(i) == text[i] \notin {"nl", "cr", "DONE", "junk"} /\ \E e \in ends : e > i
  IN SelectSeq([i \in DOMAIN text |-> IF inside(i) THEN text[i] ELSE "no"],
               LAMBDA c : c # "no")

\* A stream that ends well has delivered, and recorded, exactly what the
\* whole-response filter makes of what the runtime generated, however reads
\* cut the characters and the records and whenever the scans fell.
DeliveredIsWhole ==
  task = "done" =>
    /\ ~Filter(policy, Heard).blocked
    /\ sent = Filter(policy, Heard).text
    /\ record.text = sent
===============================================================================
