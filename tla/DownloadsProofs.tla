--------------------------- MODULE DownloadsProofs ---------------------------
(***************************************************************************)
(* What is proved of the Hub downloader, for any repository, preference    *)
(* and number of interruptions.  Type correctness is for any number of     *)
(* pulls, the rest for one at a time: two pulls of a model share its       *)
(* partial file, and neither property holds of them.                       *)
(***************************************************************************)
EXTENDS Downloads, SequenceTheorems, TLAPS

-----------------------------------------------------------------------------
(* Types *)

\* The names of files and quantisations, and those that stand for none.
Names == STRING \cup {"none", "zeros"}

Chunks == Nat \X Names \X Nat

Files == [name : Names, place : Nat, quant : Names, words : SUBSET Names,
          multipart : BOOLEAN, chunks : Nat \ {0}]

PullRecords ==
  [pc : {"idle", "resolve", "head", "reuse", "get", "stream", "rename",
         "record", "fill"},
   stage : Ended \cup {"resolving", "downloading", "verifying"},
   rev : Nat, file : Files, expected : Seq(Chunks), from : Nat,
   handle : {"closed", "partial", "final", "lost"}, pos : Nat,
   hash : Seq(Chunks), verified : BOOLEAN]

Records ==
  [state : {"absent", "unreadable", "written"}, rev : Nat, sha : Seq(Chunks),
   verified : BOOLEAN]

\* An idle pull has ended or was never started; a file is open only while its
\* bytes arrive.
Quiet(q) == /\ q.pc = "idle" <=> q.stage \in Ended
            /\ q.pc # "stream" => q.handle = "closed"

Types ==
  /\ head \in Revisions
  /\ final \in Seq(Chunks) /\ partial \in Seq(Chunks)
  /\ record \in Records
  /\ pull \in [Pulls -> PullRecords]
  /\ \A p \in Pulls : Quiet(pull[p])
  /\ faults \in 0 .. MaxFaults

\* resolve() ends with a file of the revision.
LEMMA ChoicesPublished ==
  ASSUME NEW r \in Revisions
  PROVE  Choices(r) \subseteq Files
<1>1. Pool(Repo[r]) \subseteq Repo[r]
  BY DEF Pool
<1>2. PickDefault(Repo[r]) \subseteq Repo[r]
  BY <1>1 DEF PickDefault, First
<1>3. Choices(r) \subseteq Repo[r]
  BY <1>2 DEF Choices, Candidates, First
<1>. QED
  BY <1>3, DownloadsAssumption DEF Revisions, Files, Names

\* The bytes of a file are chunks.
LEMMA BytesTyped ==
  ASSUME NEW r \in Nat, NEW f \in Files
  PROVE  /\ Bytes(r, f) \in Seq(Chunks) /\ Len(Bytes(r, f)) = f.chunks
         /\ \A i \in 1 .. f.chunks : Bytes(r, f)[i] = <<r, f.name, i>>
<1>1. f.chunks \in Nat /\ f.name \in Names
  BY DEF Files
<1>2. \A i \in 1 .. f.chunks : <<r, f.name, i>> \in Chunks
  BY <1>1 DEF Chunks
<1>. QED
  BY <1>1, <1>2 DEF Bytes

\* A write at an offset leaves a file of chunks, gaps included.
LEMMA WrittenTyped ==
  ASSUME NEW bytes \in Seq(Chunks), NEW pos \in Nat, NEW chunk \in Chunks
  PROVE  Written(bytes, pos, chunk) \in Seq(Chunks)
<1>. DEFINE n == IF Len(bytes) > pos THEN Len(bytes) ELSE pos + 1
<1>1. n \in Nat
  OBVIOUS
<1>2. \A i \in 1 .. n : <<0, "zeros", i>> \in Chunks
  BY <1>1 DEF Chunks, Names
<1>3. \A i \in 1 .. n : i <= Len(bytes) => bytes[i] \in Chunks
  BY <1>1
<1>. HIDE DEF n
<1>4. Written(bytes, pos, chunk) =
        [i \in 1 .. n |-> IF i = pos + 1 THEN chunk
                          ELSE IF i <= Len(bytes) THEN bytes[i]
                          ELSE <<0, "zeros", i>>]
  BY DEF Written, n
<1>. QED
  BY <1>1, <1>2, <1>3, <1>4

\* A pull that is over, whatever came of it.
LEMMA IdleTyped ==
  ASSUME NEW stage \in Ended \cup {"resolving"}
  PROVE  /\ Idle(stage) \in PullRecords
         /\ Idle(stage).pc = "idle" /\ Idle(stage).stage = stage
         /\ Idle(stage).handle = "closed"
<1>1. NoChoice \in Files
  BY DEF NoChoice, Files, Names
<1>. QED
  BY <1>1 DEF Idle, PullRecords, NoDigest

\* One pull goes on, the others stay where they are.
LEMMA OneMoves ==
  ASSUME Types, NEW p \in Pulls, NEW x \in PullRecords, Quiet(x),
         pull' = [pull EXCEPT ![p] = x]
  PROVE  /\ pull' \in [Pulls -> PullRecords]
         /\ \A q \in Pulls : Quiet(pull'[q])
BY DEF Types

\* A rename or a removal of a file changes nothing of a pull but its handle.
LEMMA HandlesMove ==
  ASSUME Types, NEW from, NEW to \in {"final", "lost"}, from # "closed"
  PROVE  /\ Rehandled(from, to) \in [Pulls -> PullRecords]
         /\ \A q \in Pulls :
              /\ Quiet(Rehandled(from, to)[q])
              /\ Rehandled(from, to)[q] =
                   [pull[q] EXCEPT !.handle = Moved(pull[q].handle, from, to)]
<1>. SUFFICES ASSUME NEW q \in Pulls
              PROVE  /\ Rehandled(from, to)[q] \in PullRecords
                     /\ Quiet(Rehandled(from, to)[q])
                     /\ Rehandled(from, to)[q] =
                          [pull[q] EXCEPT
                             !.handle = Moved(pull[q].handle, from, to)]
  BY DEF Rehandled
<1>. DEFINE h == Moved(pull[q].handle, from, to)
<1>1. pull[q] \in PullRecords /\ Quiet(pull[q])
  BY DEF Types
<1>2. /\ h \in {"closed", "partial", "final", "lost"}
      /\ pull[q].handle = "closed" => h = "closed"
  BY <1>1 DEF Moved, PullRecords
<1>3. Rehandled(from, to)[q] = [pull[q] EXCEPT !.handle = h]
  BY DEF Rehandled
<1>. HIDE DEF h
<1>4. [pull[q] EXCEPT !.handle = h] \in PullRecords
  BY <1>1, <1>2 DEF PullRecords
<1>5. Quiet([pull[q] EXCEPT !.handle = h])
  BY <1>1, <1>2 DEF PullRecords, Quiet
<1>. QED
  BY <1>3, <1>4, <1>5 DEF h

\* A step of a pull that touches nothing but its own progress.
LEMMA ProgressTyped ==
  ASSUME Types, NEW p \in Pulls, NEW x \in PullRecords, Quiet(x),
         pull' = [pull EXCEPT ![p] = x], faults' \in 0 .. MaxFaults,
         UNCHANGED <<head, final, record>>, partial' \in {partial, <<>>}
  PROVE  Types'
<1>1. <<>> \in Seq(Chunks) /\ partial \in Seq(Chunks)
  BY DEF Types
<1>2. partial' \in Seq(Chunks)
  BY <1>1
<1>. QED
  BY <1>2, OneMoves DEF Types

\* A fault is counted.
LEMMA FaultCounted == Types /\ Fault => faults' \in 0 .. MaxFaults
BY DownloadsAssumption DEF Types, Fault

\* The steps before the first byte arrives.
LEMMA OpeningTyped ==
  ASSUME Types, NEW p \in Pulls,
         \/ Start(p) \/ Resolve(p) \/ NothingToPull(p) \/ HeadFile(p)
         \/ ReuseExisting(p) \/ Measure(p) \/ RangeRefused(p)
  PROVE  Types'
<1>0. /\ pull[p] \in PullRecords /\ Quiet(pull[p]) /\ head \in Nat
      /\ partial \in Seq(Chunks) /\ final \in Seq(Chunks)
      /\ faults \in 0 .. MaxFaults
  BY DownloadsAssumption DEF Types, Revisions
<1>1. CASE Start(p)
  <2>. DEFINE x == [Idle("resolving") EXCEPT !.pc = "resolve"]
  <2>1. x \in PullRecords
    BY IdleTyped DEF PullRecords
  <2>2. Quiet(x)
    BY DEF Idle, Quiet, Ended
  <2>. HIDE DEF x
  <2>. QED
    BY <1>0, <1>1, <2>1, <2>2, ProgressTyped DEF Start, x
<1>2. CASE Resolve(p)
  <2>1. PICK f \in Choices(head) :
          pull' = [pull EXCEPT ![p] =
                    [pull[p] EXCEPT !.pc = "head", !.stage = "downloading",
                                    !.rev = head, !.file = f]]
    BY <1>2 DEF Resolve, Types
  <2>. DEFINE x == [pull[p] EXCEPT !.pc = "head", !.stage = "downloading",
                                   !.rev = head, !.file = f]
  <2>2. f \in Files
    BY ChoicesPublished DEF Types
  <2>3. x \in PullRecords
    BY <1>0, <2>2 DEF PullRecords
  <2>4. Quiet(x)
    BY <1>0, <1>2 DEF PullRecords, Quiet, Ended, Resolve
  <2>5. pull' = [pull EXCEPT ![p] = x]
    BY <2>1
  <2>. HIDE DEF x
  <2>. QED
    BY <1>0, <1>2, <2>3, <2>4, <2>5, ProgressTyped DEF Resolve
<1>3. CASE NothingToPull(p) \/ RangeRefused(p)
  <2>1. Idle("failed") \in PullRecords /\ Quiet(Idle("failed"))
    BY IdleTyped DEF Ended, Quiet
  <2>. QED
    BY <1>0, <1>3, <2>1, ProgressTyped DEF NothingToPull, RangeRefused, Fail
<1>4. CASE HeadFile(p)
  <2>1. PICK e \in {pull[p].expected, Published(p)} :
          pull' = [pull EXCEPT ![p] =
                    [pull[p] EXCEPT !.pc = "reuse", !.expected = e]]
    <3>1. [pull[p] EXCEPT !.pc = "reuse", !.expected = pull[p].expected] =
            [pull[p] EXCEPT !.pc = "reuse"]
      BY <1>0 DEF PullRecords
    <3>. QED
      BY <1>4, <3>1 DEF HeadFile, Types
  <2>. DEFINE x == [pull[p] EXCEPT !.pc = "reuse", !.expected = e]
  <2>2. e \in Seq(Chunks)
    BY <1>0, BytesTyped DEF PullRecords, Published, Digest
  <2>3. x \in PullRecords
    BY <1>0, <2>2 DEF PullRecords
  <2>4. Quiet(x)
    BY <1>0, <1>4 DEF PullRecords, Quiet, HeadFile
  <2>5. pull' = [pull EXCEPT ![p] = x]
    BY <2>1
  <2>6. faults' \in 0 .. MaxFaults
    BY <1>0, <1>4, FaultCounted DEF HeadFile
  <2>. HIDE DEF x
  <2>. QED
    BY <1>0, <1>4, <2>3, <2>4, <2>5, <2>6, ProgressTyped DEF HeadFile
<1>5. CASE ReuseExisting(p)
  <2>. DEFINE x == [Idle("done") EXCEPT !.rev = pull[p].rev,
                                        !.file = pull[p].file,
                                        !.hash = final, !.verified = TRUE]
  <2>1. Idle("done") \in PullRecords /\ Quiet(Idle("done"))
    BY IdleTyped DEF Ended, Quiet
  <2>2. x \in PullRecords
    BY <1>0, <2>1 DEF PullRecords
  <2>3. Quiet(x)
    BY <2>1 DEF Quiet, PullRecords
  <2>4. pull' = [pull EXCEPT ![p] = x]
    BY <1>5 DEF ReuseExisting
  <2>. HIDE DEF x
  <2>. QED
    BY <1>0, <1>5, <2>2, <2>3, <2>4, ProgressTyped DEF ReuseExisting
<1>6. CASE Measure(p)
  <2>. DEFINE n == Len(partial)
              x == [pull[p] EXCEPT !.pc = "get", !.from = n]
  <2>0. n \in Nat
    BY <1>0
  <2>. HIDE DEF n
  <2>1. x \in PullRecords
    BY <1>0, <2>0 DEF PullRecords
  <2>2. Quiet(x)
    BY <1>0, <1>6 DEF PullRecords, Quiet, Measure
  <2>3. pull' = [pull EXCEPT ![p] = x]
    BY <1>6 DEF Measure, n
  <2>. HIDE DEF x
  <2>. QED
    BY <1>0, <1>6, <2>1, <2>2, <2>3, ProgressTyped DEF Measure
<1>. QED
  BY <1>1, <1>2, <1>3, <1>4, <1>5, <1>6

\* The steps from the first byte to the comparison.
LEMMA StreamTyped ==
  ASSUME Types, NEW p \in Pulls,
         \/ ResumeAt(p) \/ FromZero(p) \/ Chunk(p) \/ Check(p) \/ Mismatch(p)
  PROVE  Types'
<1>0. /\ pull[p] \in PullRecords /\ Quiet(pull[p])
      /\ partial \in Seq(Chunks) /\ final \in Seq(Chunks)
      /\ faults \in 0 .. MaxFaults
  BY DEF Types
<1>1. ASSUME NEW n \in Nat, pull[p].pc = "get",
             pull' = [pull EXCEPT ![p] = Opened(p, n)],
             UNCHANGED <<head, final, record>>, partial' \in {partial, <<>>},
             faults' \in 0 .. MaxFaults
      PROVE  Types'
  <2>. DEFINE prefix == HashPrefix(n)
              x == [pull[p] EXCEPT !.pc = "stream", !.handle = "partial",
                                   !.pos = n, !.hash = prefix]
  <2>1. prefix \in Seq(Chunks)
    BY <1>0, <1>1 DEF HashPrefix
  <2>. HIDE DEF prefix
  <2>2. x \in PullRecords
    BY <1>0, <1>1, <2>1 DEF PullRecords
  <2>3. Quiet(x)
    BY <1>0, <1>1 DEF PullRecords, Quiet
  <2>4. pull' = [pull EXCEPT ![p] = x]
    BY <1>1 DEF Opened, prefix
  <2>. HIDE DEF x
  <2>. QED
    BY <1>1, <2>2, <2>3, <2>4, ProgressTyped
<1>2. CASE ResumeAt(p)
  <2>1. pull[p].from \in Nat
    BY <1>0 DEF PullRecords
  <2>. QED
    BY <1>0, <1>1, <1>2, <2>1 DEF ResumeAt
<1>3. CASE FromZero(p)
  <2>1. faults' \in 0 .. MaxFaults
    BY <1>0, <1>3, FaultCounted DEF FromZero
  <2>. QED
    BY <1>1, <1>3, <2>1 DEF FromZero
<1>4. CASE Chunk(p)
  <2>. DEFINE chunk == Bytes(pull[p].rev, pull[p].file)[pull[p].pos + 1]
              stage == IF pull[p].pos + 1 = pull[p].file.chunks
                       THEN "verifying" ELSE pull[p].stage
              x == [pull[p] EXCEPT !.pos = pull[p].pos + 1,
                                   !.hash = Append(pull[p].hash, chunk),
                                   !.stage = stage]
  <2>1. /\ pull[p].pos \in Nat /\ pull[p].pos < pull[p].file.chunks
        /\ pull[p].rev \in Nat /\ pull[p].file \in Files
        /\ pull[p].file.chunks \in Nat /\ pull[p].hash \in Seq(Chunks)
    BY <1>0, <1>4 DEF PullRecords, Chunk, Files
  <2>2. Bytes(pull[p].rev, pull[p].file) \in Seq(Chunks)
        /\ Len(Bytes(pull[p].rev, pull[p].file)) = pull[p].file.chunks
    BY <2>1, BytesTyped
  <2>3. chunk \in Chunks
    BY <2>1, <2>2
  <2>4. pull' = [pull EXCEPT ![p] = x]
    BY <1>4 DEF Chunk
  <2>5. /\ partial' \in {partial, Written(partial, pull[p].pos, chunk)}
        /\ final' \in {final, Written(final, pull[p].pos, chunk)}
        /\ UNCHANGED <<head, record, faults>>
    BY <1>4 DEF Chunk
  <2>. HIDE DEF chunk
  <2>6. Append(pull[p].hash, chunk) \in Seq(Chunks) /\ pull[p].pos + 1 \in Nat
    BY <2>1, <2>3
  <2>7. stage \in Ended \cup {"resolving", "downloading", "verifying"}
        /\ stage \notin Ended
    BY <1>0, <1>4 DEF PullRecords, Quiet, Ended, Chunk
  <2>. HIDE DEF stage
  <2>8. x \in PullRecords
    BY <1>0, <2>6, <2>7 DEF PullRecords
  <2>9. Quiet(x)
    BY <1>0, <1>4, <2>7 DEF PullRecords, Quiet, Chunk
  <2>10. partial' \in Seq(Chunks) /\ final' \in Seq(Chunks)
    BY <1>0, <2>1, <2>3, <2>5, WrittenTyped
  <2>. HIDE DEF x
  <2>. QED
    BY <2>4, <2>5, <2>8, <2>9, <2>10, OneMoves DEF Types
<1>5. CASE Check(p)
  <2>. DEFINE v == pull[p].expected # NoDigest
              x == [pull[p] EXCEPT !.pc = "rename", !.handle = "closed",
                                   !.verified = v]
  <2>1. v \in BOOLEAN
    OBVIOUS
  <2>2. pull' = [pull EXCEPT ![p] = x]
    BY <1>5 DEF Check, Types
  <2>. HIDE DEF v
  <2>3. x \in PullRecords
    BY <1>0, <2>1 DEF PullRecords
  <2>4. Quiet(x)
    BY <1>0, <1>5 DEF PullRecords, Quiet, Check, Streamed
  <2>. HIDE DEF x
  <2>. QED
    BY <1>0, <1>5, <2>2, <2>3, <2>4, ProgressTyped DEF Check
<1>6. CASE Mismatch(p)
  <2>1. /\ Rehandled("partial", "lost") \in [Pulls -> PullRecords]
        /\ \A q \in Pulls : Quiet(Rehandled("partial", "lost")[q])
    BY HandlesMove
  <2>2. Idle("failed") \in PullRecords /\ Quiet(Idle("failed"))
    BY IdleTyped DEF Ended, Quiet
  <2>3. /\ pull' \in [Pulls -> PullRecords]
        /\ \A q \in Pulls : Quiet(pull'[q])
    BY <1>6, <2>1, <2>2 DEF Mismatch, Fail
  <2>4. partial' \in Seq(Chunks)
    BY <1>6 DEF Mismatch
  <2>. QED
    BY <1>6, <2>3, <2>4 DEF Mismatch, Types
<1>. QED
  BY <1>2, <1>3, <1>4, <1>5, <1>6

\* The steps from the rename on, and the ways a pull is ended from outside.
LEMMA ClosingTyped ==
  ASSUME Types, NEW p \in Pulls,
         \/ Rename(p) \/ TruncateRecord(p) \/ FillRecord(p)
         \/ Interrupted(p) \/ Cancel(p)
  PROVE  Types'
<1>0. /\ pull[p] \in PullRecords /\ Quiet(pull[p]) /\ record \in Records
      /\ partial \in Seq(Chunks) /\ final \in Seq(Chunks)
      /\ faults \in 0 .. MaxFaults
  BY DEF Types
<1>1. /\ Idle("failed") \in PullRecords /\ Quiet(Idle("failed"))
      /\ Idle("cancelled") \in PullRecords /\ Quiet(Idle("cancelled"))
  BY IdleTyped DEF Ended, Quiet
<1>2. CASE Rename(p)
  <2>1. CASE partial = <<>>
    BY <1>0, <1>1, <1>2, <2>1, ProgressTyped DEF Rename, Fail
  <2>2. CASE partial # <<>>
    <3>. DEFINE m == Rehandled("partial", "final")
                x == [m[p] EXCEPT !.pc = "record"]
    <3>1. /\ m \in [Pulls -> PullRecords] /\ \A q \in Pulls : Quiet(m[q])
          /\ m[p] = [pull[p] EXCEPT
                       !.handle = Moved(pull[p].handle, "partial", "final")]
      BY HandlesMove
    <3>2. /\ m[p] \in PullRecords /\ m[p].stage = pull[p].stage
          /\ m[p].pc = pull[p].pc /\ Quiet(m[p])
      BY <1>0, <3>1 DEF PullRecords
    <3>3. pull' = [m EXCEPT ![p] = x]
      BY <1>2, <2>2, <3>1 DEF Rename
    <3>. HIDE DEF m
    <3>4. x \in PullRecords
      BY <3>2 DEF PullRecords
    <3>5. Quiet(x)
      BY <1>2, <3>2 DEF PullRecords, Quiet, Rename
    <3>. HIDE DEF x
    <3>6. /\ pull' \in [Pulls -> PullRecords]
          /\ \A q \in Pulls : Quiet(pull'[q])
      BY <3>1, <3>3, <3>4, <3>5
    <3>7. /\ final' = partial /\ partial' = <<>>
          /\ UNCHANGED <<head, record, faults>>
      BY <1>2, <2>2 DEF Rename
    <3>8. partial' \in Seq(Chunks)
      BY <3>7
    <3>. QED
      BY <1>0, <3>6, <3>7, <3>8 DEF Types
  <2>. QED
    BY <2>1, <2>2
<1>3. CASE TruncateRecord(p)
  <2>. DEFINE x == [pull[p] EXCEPT !.pc = "fill"]
  <2>1. x \in PullRecords
    BY <1>0 DEF PullRecords
  <2>2. Quiet(x)
    BY <1>0, <1>3 DEF PullRecords, Quiet, TruncateRecord
  <2>3. pull' = [pull EXCEPT ![p] = x]
    BY <1>3 DEF TruncateRecord, Types
  <2>4. record' \in Records
    <3>1. <<>> \in Seq(Chunks)
      OBVIOUS
    <3>. QED
      BY <1>3, <3>1 DEF TruncateRecord, Unreadable, NoRecord, NoDigest, Records
  <2>. HIDE DEF x
  <2>. QED
    BY <1>3, <2>1, <2>2, <2>3, <2>4, OneMoves DEF TruncateRecord, Types
<1>4. CASE FillRecord(p)
  <2>. DEFINE x == [pull[p] EXCEPT !.pc = "idle", !.stage = "done"]
  <2>1. x \in PullRecords
    BY <1>0 DEF PullRecords, Ended
  <2>2. pull' = [pull EXCEPT ![p] = x]
    BY <1>4 DEF FillRecord, Types
  <2>3. record' \in Records
    BY <1>0, <1>4 DEF FillRecord, RecordOf, Digest, PullRecords, Records
  <2>4. x.handle = pull[p].handle /\ x.pc = "idle" /\ x.stage = "done"
    BY <1>0 DEF PullRecords
  <2>5. pull[p].handle = "closed"
    BY <1>0, <1>4 DEF Quiet, FillRecord
  <2>6. Quiet(x)
    BY <2>4, <2>5 DEF Quiet, Ended
  <2>. HIDE DEF x
  <2>. QED
    BY <1>4, <2>1, <2>2, <2>3, <2>6, OneMoves DEF FillRecord, Types
<1>5. CASE Interrupted(p)
  BY <1>0, <1>1, <1>5, FaultCounted, ProgressTyped DEF Interrupted, Fail
<1>6. CASE Cancel(p)
  BY <1>0, <1>1, <1>6, FaultCounted, ProgressTyped DEF Cancel
<1>. QED
  BY <1>2, <1>3, <1>4, <1>5, <1>6

\* Every step of any number of pulls, of the publisher and of `cordon remove`
\* keeps the types.
LEMMA TypesNext == Types /\ [Next]_vars => Types'
<1>. SUFFICES ASSUME Types, [Next]_vars PROVE Types'
  OBVIOUS
<1>1. ASSUME NEW p \in Pulls, Start(p) \/ Step(p) \/ Interrupted(p) \/ Cancel(p)
      PROVE  Types'
  BY <1>1, OpeningTyped, StreamTyped, ClosingTyped DEF Step
<1>2. CASE Remove
  <2>1. /\ pull' \in [Pulls -> PullRecords]
        /\ \A q \in Pulls : Quiet(pull'[q])
    <3>1. /\ Rehandled("final", "lost") \in [Pulls -> PullRecords]
          /\ \A q \in Pulls : Quiet(Rehandled("final", "lost")[q])
      BY HandlesMove
    <3>. QED
      BY <1>2, <3>1 DEF Remove
  <2>2. <<>> \in Seq(Chunks)
    OBVIOUS
  <2>3. record' \in Records
    <3>1. NoRecord \in Records
      BY <2>2 DEF NoRecord, NoDigest, Records
    <3>2. record \in Records
      BY DEF Types
    <3>. QED
      BY <1>2, <3>1, <3>2 DEF Remove
  <2>4. faults' \in 0 .. MaxFaults
    BY <1>2, FaultCounted DEF Remove, Types
  <2>. QED
    BY <1>2, <2>1, <2>2, <2>3, <2>4 DEF Remove, Types
<1>3. CASE Publish
  BY <1>3 DEF Publish, Types
<1>4. CASE UNCHANGED vars
  BY <1>4 DEF vars, Types
<1>. QED
  BY <1>1, <1>2, <1>3, <1>4 DEF Next

\* Nothing is on disk and nobody pulls.
LEMMA TypesInit == Init => Types
<1>. SUFFICES ASSUME Init PROVE Types
  OBVIOUS
<1>1. <<>> \in Seq(Chunks)
  OBVIOUS
<1>2. head \in Revisions /\ faults \in 0 .. MaxFaults
  BY DownloadsAssumption DEF Init, Revisions
<1>3. record \in Records
  BY <1>1 DEF Init, NoRecord, NoDigest, Records
<1>4. Idle("none") \in PullRecords /\ Quiet(Idle("none"))
  BY IdleTyped DEF Ended, Quiet
<1>. QED
  BY <1>1, <1>2, <1>3, <1>4 DEF Init, Types

\* However many pulls share the three files, files, record and pulls keep their
\* types, and a pull that is over holds no file.
THEOREM DownloadsTypeCorrect == Spec => []TypeOK
<1>1. Types => TypeOK
  BY DEF Types, TypeOK, PullRecords, Records, Quiet, Busy
<1>. QED
  BY <1>1, TypesInit, TypesNext, PTL DEF Spec

-----------------------------------------------------------------------------
(* One pull at a time *)

\* Where a pull knows the file it is after.
Resolved == {"head", "reuse", "get", "stream", "rename", "record", "fill"}

\* What a pull knows of the files: it resumes at the end of the partial file;
\* what it has hashed is what is there, and after the rename what the model
\* file was made of; it calls itself verified only if that is what the Hub
\* published.
Knows(q) ==
  /\ q.pc = "resolve" => q.expected = NoDigest
  /\ q.pc \in Resolved =>
       q.expected \in {NoDigest, Bytes(q.rev, q.file)}
  /\ q.pc = "get" => q.from = Len(partial)
  /\ q.pc = "stream" => q.pos = Len(partial) /\ q.handle = "partial"
  /\ q.pc \in {"stream", "rename"} => q.hash = partial
  /\ q.pc \in {"record", "fill"} => final \in {<<>>, q.hash}
  /\ q.pc = "fill" => record.state = "unreadable"
  /\ q.pc \in {"rename", "record", "fill"} /\ q.verified =>
       q.hash = Bytes(q.rev, q.file)

\* Between two pulls the record is of the file.
LoneInv(p) ==
  /\ Types
  /\ Knows(pull[p])
  /\ "unrecorded" \notin left /\ final # <<>>
       /\ pull[p].pc \notin {"record", "fill"} =>
         record.state = "written" /\ record.sha = final

\* A chunk written at the end of a file is appended to it.
LEMMA WrittenAtEnd ==
  ASSUME NEW bytes \in Seq(Chunks), NEW chunk \in Chunks
  PROVE  Written(bytes, Len(bytes), chunk) = Append(bytes, chunk)
<1>. DEFINE n == Len(bytes)
            w == Written(bytes, n, chunk)
            a == Append(bytes, chunk)
<1>1. n \in Nat /\ ~(n > n)
  OBVIOUS
<1>2. w = [i \in 1 .. n + 1 |->
             IF i = n + 1 THEN chunk
             ELSE IF i <= n THEN bytes[i] ELSE <<0, "zeros", i>>]
  BY <1>1 DEF Written
<1>3. w \in Seq(Chunks)
  BY <1>1, WrittenTyped
<1>4. /\ a \in Seq(Chunks) /\ Len(a) = n + 1
      /\ \A i \in 1 .. n + 1 : a[i] = IF i = n + 1 THEN chunk ELSE bytes[i]
  OBVIOUS
<1>. HIDE DEF a, n
<1>5. Len(w) = n + 1 /\ \A i \in 1 .. n + 1 : w[i] = a[i]
  BY <1>1, <1>2, <1>4
<1>. HIDE DEF w
<1>6. w = a
  BY <1>3, <1>4, <1>5, SeqEqual
<1>. QED
  BY <1>6 DEF w, a, n

\* A pull that is over has nothing to know; unless it had renamed its file
\* already, the record is what it was.
LEMMA Over ==
  ASSUME NEW p \in Pulls, LoneInv(p), Types', pull'[p].pc = "idle",
         UNCHANGED <<final, record>>, left \subseteq left',
         pull[p].pc \in {"record", "fill"} => "unrecorded" \in left'
  PROVE  LoneInv(p)'
<1>1. Knows(pull[p])'
  BY DEF Knows, Resolved
<1>. QED
  BY <1>1 DEF LoneInv

\* The steps of a pull up to the comparison leave file and record alone.
LEMMA Onward ==
  ASSUME NEW p \in Pulls, LoneInv(p), Types', Knows(pull[p])',
         UNCHANGED <<final, record, left>>,
         pull[p].pc \notin {"record", "fill"}
  PROVE  LoneInv(p)'
BY DEF LoneInv

\* What a lone pull does before the first byte arrives.
LEMMA LoneOpening ==
  ASSUME NEW p, Pulls = {p}, LoneInv(p), Types',
         \/ Start(p) \/ Resolve(p) \/ NothingToPull(p) \/ HeadFile(p)
         \/ ReuseExisting(p) \/ Measure(p) \/ RangeRefused(p)
  PROVE  LoneInv(p)'
<1>0. /\ p \in Pulls /\ pull[p] \in PullRecords /\ Knows(pull[p])
      /\ pull \in [Pulls -> PullRecords] /\ head \in Nat
      /\ partial \in Seq(Chunks) /\ pull'[p] \in PullRecords
  BY DownloadsAssumption DEF LoneInv, Types, Revisions
<1>1. CASE Start(p)
  <2>1. pull'[p].pc = "resolve" /\ pull'[p].expected = NoDigest
    BY <1>0, <1>1 DEF Start, Idle
  <2>2. Knows(pull[p])'
    BY <2>1 DEF Knows, Resolved
  <2>3. pull[p].pc = "idle"
    BY <1>0, <1>1 DEF Start, Busy, LoneInv, Types, Quiet
  <2>. QED
    BY <1>0, <1>1, <2>2, <2>3, Onward DEF Start
<1>2. CASE Resolve(p)
  <2>1. pull'[p].pc = "head" /\ pull'[p].expected = pull[p].expected
    <3>1. PICK f \in Choices(head) :
            pull' = [pull EXCEPT ![p] =
                      [pull[p] EXCEPT !.pc = "head", !.stage = "downloading",
                                      !.rev = head, !.file = f]]
      BY <1>2 DEF Resolve
    <3>2. pull'[p] = [pull[p] EXCEPT !.pc = "head", !.stage = "downloading",
                                     !.rev = head, !.file = f]
      BY <1>0, <3>1
    <3>. QED
      BY <1>0, <3>2 DEF PullRecords
  <2>2. Knows(pull[p])'
    BY <1>0, <1>2, <2>1 DEF Knows, Resolved, Resolve
  <2>. QED
    BY <1>0, <1>2, <2>2, Onward DEF Resolve
<1>3. CASE NothingToPull(p) \/ RangeRefused(p) \/ ReuseExisting(p)
  <2>1. pull'[p].pc = "idle"
    <3>1. CASE NothingToPull(p) \/ RangeRefused(p)
      BY <1>0, <3>1 DEF NothingToPull, RangeRefused, Fail, Idle
    <3>2. CASE ReuseExisting(p)
      <4>1. pull'[p] = [Idle("done") EXCEPT !.rev = pull[p].rev,
                                            !.file = pull[p].file,
                                            !.hash = final, !.verified = TRUE]
        BY <1>0, <3>2 DEF ReuseExisting
      <4>. QED
        BY <4>1 DEF Idle
    <3>. QED
      BY <1>3, <3>1, <3>2
  <2>. QED
    BY <1>0, <1>3, <2>1, Over DEF NothingToPull, RangeRefused, ReuseExisting
<1>4. CASE HeadFile(p)
  <2>1. /\ pull'[p].pc = "reuse"
        /\ pull'[p].expected \in {pull[p].expected, Published(p)}
        /\ pull'[p].rev = pull[p].rev /\ pull'[p].file = pull[p].file
    <3>1. CASE pull' = [pull EXCEPT ![p] =
                         [pull[p] EXCEPT !.pc = "reuse",
                                         !.expected = Published(p)]]
      <4>1. pull'[p] = [pull[p] EXCEPT !.pc = "reuse",
                                       !.expected = Published(p)]
        BY <1>0, <3>1
      <4>. QED
        BY <1>0, <4>1 DEF PullRecords
    <3>2. CASE pull' = [pull EXCEPT ![p] = [pull[p] EXCEPT !.pc = "reuse"]]
      <4>1. pull'[p] = [pull[p] EXCEPT !.pc = "reuse"]
        BY <1>0, <3>2
      <4>. QED
        BY <1>0, <4>1 DEF PullRecords
    <3>. QED
      BY <1>4, <3>1, <3>2 DEF HeadFile
  <2>2. pull'[p].expected \in {NoDigest, Bytes(pull'[p].rev, pull'[p].file)}
    BY <1>0, <1>4, <2>1 DEF HeadFile, Knows, Resolved, Published, Digest
  <2>3. Knows(pull[p])'
    BY <2>1, <2>2 DEF Knows
  <2>. QED
    BY <1>0, <1>4, <2>3, Onward DEF HeadFile
<1>5. CASE Measure(p)
  <2>1. /\ pull'[p].pc = "get" /\ pull'[p].expected = pull[p].expected
        /\ pull'[p].rev = pull[p].rev /\ pull'[p].file = pull[p].file
        /\ pull'[p].from = Len(partial')
    BY <1>0, <1>5 DEF Measure, PullRecords
  <2>2. Knows(pull[p])'
    BY <1>0, <1>5, <2>1 DEF Knows, Resolved, Measure
  <2>. QED
    BY <1>0, <1>5, <2>2, Onward DEF Measure
<1>. QED
  BY <1>1, <1>2, <1>3, <1>4, <1>5

\* What it does from the first byte to the comparison.
LEMMA LoneStream ==
  ASSUME NEW p, Pulls = {p}, LoneInv(p), Types',
         \/ ResumeAt(p) \/ FromZero(p) \/ Chunk(p) \/ Check(p) \/ Mismatch(p)
  PROVE  LoneInv(p)'
<1>0. /\ p \in Pulls /\ pull[p] \in PullRecords /\ Knows(pull[p])
      /\ pull \in [Pulls -> PullRecords] /\ partial \in Seq(Chunks)
      /\ pull'[p] \in PullRecords /\ Len(partial) \in Nat
  BY DEF LoneInv, Types
<1>1. ASSUME NEW n \in {0, Len(partial)}, pull[p].pc = "get",
             pull' = [pull EXCEPT ![p] = Opened(p, n)],
             partial' = SubSeq(partial, 1, n), UNCHANGED <<final, record, left>>
      PROVE  LoneInv(p)'
  <2>1. HashPrefix(n) = SubSeq(partial, 1, n) /\ Len(SubSeq(partial, 1, n)) = n
    BY <1>0 DEF HashPrefix
  <2>2. pull'[p] = [pull[p] EXCEPT !.pc = "stream", !.handle = "partial",
                                   !.pos = n, !.hash = HashPrefix(n)]
    BY <1>0, <1>1 DEF Opened
  <2>3. /\ pull'[p].pc = "stream" /\ pull'[p].handle = "partial"
        /\ pull'[p].pos = n /\ pull'[p].hash = HashPrefix(n)
        /\ pull'[p].rev = pull[p].rev /\ pull'[p].file = pull[p].file
        /\ pull'[p].expected = pull[p].expected
    BY <1>0, <2>2 DEF PullRecords
  <2>4. pull[p].expected \in {NoDigest, Bytes(pull[p].rev, pull[p].file)}
    BY <1>0, <1>1 DEF Knows, Resolved
  <2>5. Knows(pull[p])'
    BY <1>1, <2>1, <2>3, <2>4 DEF Knows
  <2>. QED
    BY <1>0, <1>1, <2>5, Onward
<1>2. CASE ResumeAt(p)
  <2>1. pull[p].from = Len(partial)
    BY <1>0, <1>2 DEF ResumeAt, Knows
  <2>2. SubSeq(partial, 1, Len(partial)) = partial
    BY <1>0
  <2>. QED
    BY <1>1, <1>2, <2>1, <2>2 DEF ResumeAt
<1>3. CASE FromZero(p)
  <2>1. SubSeq(partial, 1, 0) = <<>>
    BY <1>0
  <2>. QED
    BY <1>1, <1>3, <2>1 DEF FromZero
<1>4. CASE Chunk(p)
  <2>. DEFINE chunk == Bytes(pull[p].rev, pull[p].file)[pull[p].pos + 1]
              stage == IF pull[p].pos + 1 = pull[p].file.chunks
                       THEN "verifying" ELSE pull[p].stage
  <2>1. /\ pull[p].pc = "stream" /\ pull[p].pos < pull[p].file.chunks
        /\ pull[p].pos = Len(partial) /\ pull[p].handle = "partial"
        /\ pull[p].hash = partial
    BY <1>0, <1>4 DEF Chunk, Knows
  <2>2. chunk \in Chunks
    <3>1. /\ pull[p].rev \in Nat /\ pull[p].file \in Files
          /\ pull[p].pos \in Nat /\ pull[p].file.chunks \in Nat
      BY <1>0 DEF PullRecords, Files
    <3>2. /\ Bytes(pull[p].rev, pull[p].file) \in Seq(Chunks)
          /\ Len(Bytes(pull[p].rev, pull[p].file)) = pull[p].file.chunks
      BY <3>1, BytesTyped
    <3>. QED
      BY <2>1, <3>1, <3>2
  <2>3. /\ partial' = Written(partial, Len(partial), chunk)
        /\ UNCHANGED <<final, record, left>>
    BY <1>4, <2>1 DEF Chunk
  <2>4. pull'[p] = [pull[p] EXCEPT !.pos = pull[p].pos + 1,
                                   !.hash = Append(pull[p].hash, chunk),
                                   !.stage = stage]
    BY <1>0, <1>4 DEF Chunk
  <2>. HIDE DEF chunk, stage
  <2>5. partial' = Append(partial, chunk)
    BY <1>0, <2>2, <2>3, WrittenAtEnd
  <2>6. /\ pull'[p].pc = pull[p].pc /\ pull'[p].handle = pull[p].handle
        /\ pull'[p].pos = pull[p].pos + 1
        /\ pull'[p].hash = Append(pull[p].hash, chunk)
        /\ pull'[p].rev = pull[p].rev /\ pull'[p].file = pull[p].file
        /\ pull'[p].expected = pull[p].expected
    BY <1>0, <2>4 DEF PullRecords
  <2>7. pull[p].expected \in {NoDigest, Bytes(pull[p].rev, pull[p].file)}
    BY <1>0, <2>1 DEF Knows, Resolved
  <2>8. Len(Append(partial, chunk)) = Len(partial) + 1
    BY <1>0, <2>2
  <2>9. Knows(pull[p])'
    BY <2>1, <2>5, <2>6, <2>7, <2>8 DEF Knows
  <2>. QED
    BY <1>0, <2>1, <2>3, <2>9, Onward
<1>5. CASE Check(p)
  <2>1. /\ pull[p].pc = "stream" /\ UNCHANGED <<final, partial, record, left>>
        /\ pull[p].expected \in {NoDigest, pull[p].hash}
    BY <1>5 DEF Check, Streamed, Agrees, Digest
  <2>2. pull'[p] = [pull[p] EXCEPT !.pc = "rename", !.handle = "closed",
                                   !.verified = pull[p].expected # NoDigest]
    BY <1>0, <1>5 DEF Check
  <2>3. /\ pull'[p].pc = "rename" /\ pull'[p].hash = pull[p].hash
        /\ pull'[p].rev = pull[p].rev /\ pull'[p].file = pull[p].file
        /\ pull'[p].expected = pull[p].expected
        /\ pull'[p].verified => pull[p].expected # NoDigest
    BY <1>0, <2>2 DEF PullRecords
  <2>4. /\ pull[p].expected \in {NoDigest, Bytes(pull[p].rev, pull[p].file)}
        /\ pull[p].hash = partial
    BY <1>0, <2>1 DEF Knows, Resolved
  <2>5. Knows(pull[p])'
    BY <2>1, <2>3, <2>4 DEF Knows
  <2>. QED
    BY <1>0, <2>1, <2>5, Onward
<1>6. CASE Mismatch(p)
  <2>1. pull'[p].pc = "idle" /\ pull[p].pc = "stream"
    BY <1>0, <1>6 DEF Mismatch, Streamed, Fail, Rehandled, Idle
  <2>. QED
    BY <1>0, <1>6, <2>1, Over DEF Mismatch
<1>. QED
  BY <1>2, <1>3, <1>4, <1>5, <1>6

\* What it does from the rename on, and how it is ended.
LEMMA LoneClosing ==
  ASSUME NEW p, Pulls = {p}, LoneInv(p), Types',
         \/ Rename(p) \/ TruncateRecord(p) \/ FillRecord(p)
         \/ Interrupted(p) \/ Cancel(p)
  PROVE  LoneInv(p)'
<1>0. /\ p \in Pulls /\ pull[p] \in PullRecords /\ Knows(pull[p])
      /\ pull \in [Pulls -> PullRecords] /\ Types /\ Quiet(pull[p])
  BY DEF LoneInv, Types
<1>1. CASE Rename(p)
  <2>1. CASE partial = <<>>
    <3>1. pull'[p].pc = "idle" /\ pull[p].pc = "rename"
          /\ UNCHANGED <<final, record, left>>
      BY <1>0, <1>1, <2>1 DEF Rename, Fail, Idle
    <3>. QED
      BY <1>0, <3>1, Over
  <2>2. CASE partial # <<>>
    <3>. DEFINE m == Rehandled("partial", "final")
    <3>1. /\ m[p] = [pull[p] EXCEPT
                       !.handle = Moved(pull[p].handle, "partial", "final")]
          /\ m \in [Pulls -> PullRecords]
      BY <1>0, HandlesMove
    <3>. HIDE DEF m
    <3>2. /\ pull[p].pc = "rename" /\ final' = partial
          /\ pull' = [m EXCEPT ![p] = [m[p] EXCEPT !.pc = "record"]]
      BY <1>1, <2>2, <3>1 DEF Rename, m
    <3>3. pull'[p] = [m[p] EXCEPT !.pc = "record"]
      BY <1>0, <3>1, <3>2
    <3>4. /\ pull'[p].pc = "record" /\ pull'[p].hash = pull[p].hash
          /\ pull'[p].rev = pull[p].rev /\ pull'[p].file = pull[p].file
          /\ pull'[p].expected = pull[p].expected
          /\ pull'[p].verified = pull[p].verified
      BY <1>0, <3>1, <3>3 DEF PullRecords
    <3>5. Knows(pull[p])'
      BY <1>0, <3>2, <3>4 DEF Knows, Resolved
    <3>. QED
      BY <3>4, <3>5 DEF LoneInv
  <2>. QED
    BY <2>1, <2>2
<1>2. CASE TruncateRecord(p)
  <2>1. /\ pull[p].pc = "record" /\ record'.state = "unreadable"
        /\ UNCHANGED final
    BY <1>2 DEF TruncateRecord, Unreadable, NoRecord
  <2>2. pull'[p] = [pull[p] EXCEPT !.pc = "fill"]
    BY <1>0, <1>2 DEF TruncateRecord
  <2>3. /\ pull'[p].pc = "fill" /\ pull'[p].hash = pull[p].hash
        /\ pull'[p].rev = pull[p].rev /\ pull'[p].file = pull[p].file
        /\ pull'[p].expected = pull[p].expected
        /\ pull'[p].verified = pull[p].verified
    BY <1>0, <2>2 DEF PullRecords
  <2>4. Knows(pull[p])'
    BY <1>0, <2>1, <2>3 DEF Knows, Resolved
  <2>. QED
    BY <2>3, <2>4 DEF LoneInv
<1>3. CASE FillRecord(p)
  <2>1. /\ final \in {<<>>, pull[p].hash} /\ UNCHANGED final
        /\ record'.state = "written" /\ record'.sha = pull[p].hash
    BY <1>0, <1>3 DEF FillRecord, Knows, RecordOf, Digest
  <2>2. pull'[p].pc = "idle"
    BY <1>0, <1>3 DEF FillRecord, PullRecords
  <2>3. Knows(pull[p])'
    BY <2>2 DEF Knows, Resolved
  <2>. QED
    BY <2>1, <2>3 DEF LoneInv
<1>4. CASE Interrupted(p) \/ Cancel(p)
  <2>1. pull'[p].pc = "idle"
    BY <1>0, <1>4 DEF Interrupted, Cancel, Fail, Idle
  <2>2. left' = left \cup LeftBy(p) /\ UNCHANGED <<final, record>>
    BY <1>4 DEF Interrupted, Cancel
  <2>3. pull[p].pc \in {"record", "fill"} => "unrecorded" \in LeftBy(p)
    BY DEF LeftBy
  <2>. QED
    BY <1>0, <2>1, <2>2, <2>3, Over
<1>. QED
  BY <1>1, <1>2, <1>3, <1>4

\* The invariant of a lone pull, at every step of it, of the publisher and of
\* `cordon remove`.
LEMMA LoneNext ==
  ASSUME NEW p, Pulls = {p}
  PROVE  LoneInv(p) /\ [Next]_vars => LoneInv(p)'
<1>. SUFFICES ASSUME LoneInv(p), [Next]_vars PROVE LoneInv(p)'
  OBVIOUS
<1>0. Types /\ Types' /\ p \in Pulls
  BY TypesNext DEF LoneInv
<1>1. ASSUME Start(p) \/ Step(p) \/ Interrupted(p) \/ Cancel(p)
      PROVE  LoneInv(p)'
  BY <1>0, <1>1, LoneOpening, LoneStream, LoneClosing DEF Step
<1>2. CASE Remove
  <2>1. pull[p] \in PullRecords /\ Knows(pull[p])
    BY <1>0 DEF Types, LoneInv
  <2>2. /\ final' = <<>> /\ record.state = "written"
        /\ UNCHANGED partial /\ pull' = Rehandled("final", "lost")
    BY <1>2 DEF Remove, Listed
  <2>3. pull'[p] = [pull[p] EXCEPT
                      !.handle = Moved(pull[p].handle, "final", "lost")]
    BY <1>0, <2>2, HandlesMove
  <2>4. pull[p].handle = "partial" =>
          Moved(pull[p].handle, "final", "lost") = "partial"
    BY DEF Moved
  <2>5. /\ pull'[p].pc = pull[p].pc /\ pull'[p].hash = pull[p].hash
        /\ pull'[p].rev = pull[p].rev /\ pull'[p].file = pull[p].file
        /\ pull'[p].expected = pull[p].expected
        /\ pull'[p].from = pull[p].from /\ pull'[p].pos = pull[p].pos
        /\ pull'[p].verified = pull[p].verified
        /\ pull[p].handle = "partial" => pull'[p].handle = "partial"
    BY <2>1, <2>3, <2>4 DEF PullRecords
  <2>6. pull[p].pc # "fill"
    BY <2>1, <2>2 DEF Knows
  <2>7. Knows(pull[p])'
    BY <2>1, <2>2, <2>5, <2>6 DEF Knows
  <2>. QED
    BY <1>0, <2>2, <2>7 DEF LoneInv
<1>3. CASE Publish \/ UNCHANGED vars
  BY <1>0, <1>3 DEF Publish, vars, LoneInv, Knows
<1>. QED
  BY <1>1, <1>2, <1>3 DEF Next

\* Nothing is on disk at first.
LEMMA LoneInit ==
  ASSUME NEW p, Pulls = {p}
  PROVE  Init => LoneInv(p)
<1>. SUFFICES ASSUME Init PROVE LoneInv(p)
  OBVIOUS
<1>1. pull[p].pc = "idle" /\ final = <<>>
  BY DEF Init, Idle
<1>2. Knows(pull[p])
  BY <1>1 DEF Knows, Resolved
<1>. QED
  BY <1>1, <1>2, TypesInit DEF LoneInv

\* One pull at a time, any number of times, over any revisions, interruptions
\* and removals: unless it was interrupted between rename and record, the model
\* on disk is listed and its record has the digest of the file (write_record).
THEOREM RecordsDescribeFiles ==
  ASSUME NEW p, Pulls = {p}
  PROVE  Spec => []RecordDescribesFile
<1>1. LoneInv(p) => RecordDescribesFile
  BY DEF LoneInv, RecordDescribesFile, Listed, Digest
<1>2. Init => LoneInv(p)
  BY LoneInit
<1>3. LoneInv(p) /\ [Next]_vars => LoneInv(p)'
  BY LoneNext
<1>. QED
  BY <1>1, <1>2, <1>3, PTL DEF Spec

\* What a step that completes a pull leaves: the published file, or nothing
\* when it was removed meanwhile.
LEMMA CompletesPublished ==
  ASSUME NEW p, Pulls = {p}, LoneInv(p), [Next]_vars,
         pull'[p].stage = "done", pull[p].stage # "done", pull'[p].verified
  PROVE  final' \in {<<>>, Bytes(pull'[p].rev, pull'[p].file)}
<1>0. /\ p \in Pulls /\ pull[p] \in PullRecords /\ Knows(pull[p])
      /\ pull \in [Pulls -> PullRecords] /\ Types
  BY DEF LoneInv, Types
<1>1. CASE ReuseExisting(p)
  <2>1. /\ pull'[p] = [Idle("done") EXCEPT !.rev = pull[p].rev,
                                           !.file = pull[p].file,
                                           !.hash = final, !.verified = TRUE]
        /\ pull[p].pc = "reuse" /\ UNCHANGED final
        /\ final = pull[p].expected /\ pull[p].expected # NoDigest
    BY <1>0, <1>1 DEF ReuseExisting, CanReuse, Digest
  <2>2. pull'[p].rev = pull[p].rev /\ pull'[p].file = pull[p].file
    BY <2>1 DEF Idle
  <2>. QED
    BY <1>0, <2>1, <2>2 DEF Knows, Resolved
<1>2. CASE FillRecord(p)
  <2>1. /\ pull'[p] = [pull[p] EXCEPT !.pc = "idle", !.stage = "done"]
        /\ pull[p].pc = "fill" /\ UNCHANGED final
    BY <1>0, <1>2 DEF FillRecord
  <2>2. /\ pull'[p].rev = pull[p].rev /\ pull'[p].file = pull[p].file
        /\ pull'[p].verified = pull[p].verified
    BY <1>0, <2>1 DEF PullRecords
  <2>. QED
    BY <1>0, <2>1, <2>2 DEF Knows
<1>3. CASE \/ Start(p) \/ NothingToPull(p) \/ RangeRefused(p) \/ Interrupted(p)
           \/ Cancel(p) \/ Mismatch(p)
  <2>1. pull'[p].stage \in {"resolving", "failed", "cancelled"}
    BY <1>0, <1>3 DEF Start, NothingToPull, RangeRefused, Interrupted, Cancel,
                      Mismatch, Fail, Rehandled, Idle
  <2>. QED
    BY <2>1
<1>4. CASE Resolve(p)
  <2>1. PICK f \in Choices(head) :
          pull' = [pull EXCEPT ![p] =
                    [pull[p] EXCEPT !.pc = "head", !.stage = "downloading",
                                    !.rev = head, !.file = f]]
    BY <1>4 DEF Resolve
  <2>2. pull'[p] = [pull[p] EXCEPT !.pc = "head", !.stage = "downloading",
                                   !.rev = head, !.file = f]
    BY <1>0, <2>1
  <2>3. pull'[p].stage = "downloading"
    BY <1>0, <2>2 DEF PullRecords
  <2>. QED
    BY <2>3
<1>5. CASE \/ HeadFile(p) \/ Measure(p) \/ ResumeAt(p) \/ FromZero(p)
           \/ Check(p) \/ TruncateRecord(p)
  <2>1. pull'[p].stage = pull[p].stage
    <3>1. ASSUME NEW x, pull' = [pull EXCEPT ![p] = x],
                 x.stage = pull[p].stage
          PROVE  pull'[p].stage = pull[p].stage
      BY <1>0, <3>1
    <3>2. CASE HeadFile(p)
      BY <1>0, <3>1, <3>2 DEF HeadFile, PullRecords
    <3>3. CASE Measure(p)
      BY <1>0, <3>1, <3>3 DEF Measure, PullRecords
    <3>4. CASE ResumeAt(p) \/ FromZero(p)
      BY <1>0, <3>1, <3>4 DEF ResumeAt, FromZero, Opened, PullRecords
    <3>5. CASE Check(p) \/ TruncateRecord(p)
      BY <1>0, <3>1, <3>5 DEF Check, TruncateRecord, PullRecords
    <3>. QED
      BY <1>5, <3>2, <3>3, <3>4, <3>5
  <2>. QED
    BY <2>1
<1>6. CASE Chunk(p)
  <2>. DEFINE chunk == Bytes(pull[p].rev, pull[p].file)[pull[p].pos + 1]
              stage == IF pull[p].pos + 1 = pull[p].file.chunks
                       THEN "verifying" ELSE pull[p].stage
  <2>1. pull'[p] = [pull[p] EXCEPT !.pos = pull[p].pos + 1,
                                   !.hash = Append(pull[p].hash, chunk),
                                   !.stage = stage]
    BY <1>0, <1>6 DEF Chunk
  <2>. HIDE DEF chunk, stage
  <2>2. pull'[p].stage = stage
    BY <1>0, <2>1 DEF PullRecords
  <2>. QED
    BY <2>2 DEF stage
<1>7. CASE Rename(p) \/ Remove
  <2>1. ASSUME NEW from, NEW to \in {"final", "lost"}, from # "closed"
        PROVE  /\ Rehandled(from, to) \in [Pulls -> PullRecords]
               /\ Rehandled(from, to)[p].stage = pull[p].stage
    <3>1. Rehandled(from, to)[p] =
            [pull[p] EXCEPT !.handle = Moved(pull[p].handle, from, to)]
      BY <1>0, <2>1, HandlesMove
    <3>. QED
      BY <1>0, <2>1, <3>1, HandlesMove DEF PullRecords
  <2>2. CASE Rename(p)
    <3>. DEFINE m == Rehandled("partial", "final")
    <3>1. m \in [Pulls -> PullRecords] /\ m[p].stage = pull[p].stage
      BY <2>1
    <3>. HIDE DEF m
    <3>2. CASE partial = <<>>
      BY <1>0, <2>2, <3>2 DEF Rename, Fail, Idle
    <3>3. CASE partial # <<>>
      <4>1. pull' = [m EXCEPT ![p] = [m[p] EXCEPT !.pc = "record"]]
        BY <2>2, <3>1, <3>3 DEF Rename, m
      <4>2. pull'[p].stage = pull[p].stage
        BY <1>0, <3>1, <4>1 DEF PullRecords
      <4>. QED
        BY <4>2
    <3>. QED
      BY <3>2, <3>3
  <2>3. CASE Remove
    BY <2>1, <2>3 DEF Remove
  <2>. QED
    BY <1>7, <2>2, <2>3
<1>8. CASE Publish \/ UNCHANGED vars
  BY <1>8 DEF Publish, vars
<1>. QED
  BY <1>1, <1>2, <1>3, <1>4, <1>5, <1>6, <1>7, <1>8 DEF Next, Step

\* One pull at a time: whatever prefix earlier pulls of other revisions left
\* behind, a pull that ends with digest_verified has exactly the file its
\* revision publishes, unless the operator removed it meanwhile (download and
\* reuse_existing).
THEOREM VerifiedArePublished ==
  ASSUME NEW one, Pulls = {one}
  PROVE  Spec => VerifiedIsPublished
<1>1. LoneInv(one) /\ [Next]_vars =>
        [\A p \in Pulls :
           (pull'[p].stage = "done" /\ pull[p].stage # "done"
              /\ pull'[p].verified)
             => final' \in {<<>>, Bytes(pull'[p].rev, pull'[p].file)}]_vars
  BY CompletesPublished
<1>2. Init => LoneInv(one)
  BY LoneInit
<1>3. LoneInv(one) /\ [Next]_vars => LoneInv(one)'
  BY LoneNext
<1>. QED
  BY <1>1, <1>2, <1>3, PTL DEF Spec, VerifiedIsPublished
=============================================================================
