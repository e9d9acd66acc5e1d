------------------------------ MODULE Downloads ------------------------------
(***************************************************************************)
(* The Hub downloader: hub.rs, `cordon pull` and `cordon remove`, and the  *)
(* desktop app's Downloads.  One model reference, so one local id and one  *)
(* set of files: <id>.gguf, <id>.gguf.partial and the sidecar <id>.json.   *)
(*                                                                         *)
(* A published file is a sequence of chunks, each known by the revision    *)
(* and the file it belongs to; the SHA-256 of a sequence is the sequence.  *)
(* Every pull writes through its own file handle at its own offset.  A     *)
(* handle follows the file it was opened on when that file is renamed, so  *)
(* it is known by the name its file has now.                               *)
(***************************************************************************)
EXTENDS Naturals, Sequences, FiniteSets

CONSTANTS
  Pulls,         \* processes that pull: `cordon pull` and the desktop app
  LastRevision,  \* `main` moves forward from revision 1 to this one
  Repo,          \* the .gguf files of each revision
  Wanted,        \* the quantisation the reference names, or "none"
  Preference,    \* QUANT_PREFERENCE
  MaxFaults      \* bound on interruptions, failed answers and withheld digests

ASSUME DownloadsAssumption ==
  /\ LastRevision \in Nat \ {0}
  /\ \A r \in 1 .. LastRevision : \A f \in Repo[r] :
       f \in [name : STRING, place : Nat, quant : STRING,
              words : SUBSET STRING, multipart : BOOLEAN, chunks : Nat \ {0}]
  /\ MaxFaults \in Nat

VARIABLES
  head,     \* the revision `main` names at the Hub
  final,    \* <id>.gguf; <<>> when absent
  partial,  \* <id>.gguf.partial; <<>> when absent or empty
  record,   \* <id>.json
  pull,     \* download() in each process
  left,     \* history: what interruptions left behind
  faults    \* faults so far, bounded by MaxFaults

vars == <<head, final, partial, record, pull, left, faults>>

-------------------------------------------------------------------------------
(* The repository and the choice of a file *)

Revisions == 1 .. LastRevision

Bytes(r, f) == [i \in 1 .. f.chunks |-> <<r, f.name, i>>]

Digest(bytes) == bytes

\* A digest the Hub did not publish.
NoDigest == <<>>

\* The files of a revision are in the order of their names, `place`.
First(files) == {f \in files : \A g \in files : f.place <= g.place}

\* Without a quantisation the first single-file one in the order of preference,
\* multi-part files only where nothing else is published.
Pool(files) ==
  LET single == {f \in files : ~f.multipart}
  IN  IF single = {} THEN files ELSE single

PickDefault(files) ==
  LET Ranked(i) == {f \in Pool(files) : f.quant = Preference[i]}
      best == {i \in 1 .. Len(Preference) : Ranked(i) # {}}
  IN  First(IF best = {} THEN Pool(files)
            ELSE Ranked(CHOOSE i \in best : \A j \in best : i <= j))

\* The requested quantisation, or else a name that contains it, multi-part
\* or not.
Candidates(files) ==
  LET exact == {f \in files : f.quant = Wanted}
  IN  IF Wanted = "none" THEN PickDefault(files)
      ELSE First(IF exact # {} THEN exact
                 ELSE {f \in files : Wanted \in f.words})

\* resolve() ends with a file that can be downloaded on its own.
Choices(r) == {f \in Candidates(Repo[r]) : ~f.multipart}

-------------------------------------------------------------------------------
(* State *)

NoRecord == [state |-> "absent", rev |-> 0, sha |-> NoDigest,
             verified |-> FALSE]

Unreadable == [NoRecord EXCEPT !.state = "unreadable"]

RecordOf(r, sha, verified) ==
  [state |-> "written", rev |-> r, sha |-> sha, verified |-> verified]

NoChoice == [name |-> "none", place |-> 0, quant |-> "none", words |-> {},
             multipart |-> FALSE, chunks |-> 1]

\* Stages of the desktop's DownloadState; `cordon pull` prints the same ones.
Ended == {"none", "done", "failed", "cancelled"}

Idle(stage) ==
  [pc |-> "idle", stage |-> stage, rev |-> 0, file |-> NoChoice,
   expected |-> NoDigest, from |-> 0, handle |-> "closed", pos |-> 0,
   hash |-> <<>>, verified |-> FALSE]

Init ==
  /\ head = 1
  /\ final = <<>> /\ partial = <<>> /\ record = NoRecord
  /\ pull = [p \in Pulls |-> Idle("none")]
  /\ left = {}
  /\ faults = 0

Busy(p) == pull[p].stage \notin Ended

Fault == faults < MaxFaults /\ faults' = faults + 1

\* Handles on the partial file follow it to its new name, those on a file
\* that loses its last name follow it nowhere.
Moved(h, from, to) == IF h = from THEN to ELSE IF h = to THEN "lost" ELSE h

Rehandled(from, to) ==
  [q \in Pulls |->
     [pull[q] EXCEPT !.handle = Moved(pull[q].handle, from, to)]]

Fail(p, ps) == [ps EXCEPT ![p] = Idle("failed")]

-------------------------------------------------------------------------------
(* A pull *)

\* Downloads::start, or a new `cordon pull`.
Start(p) ==
  /\ ~Busy(p)
  /\ pull' = [pull EXCEPT ![p] = [Idle("resolving") EXCEPT !.pc = "resolve"]]
  /\ UNCHANGED <<head, final, partial, record, left, faults>>

\* The commit the branch names now pins every later request of this pull.
Resolve(p) ==
  /\ pull[p].pc = "resolve"
  /\ \E f \in Choices(head) :
       pull' = [pull EXCEPT ![p] =
                 [@ EXCEPT !.pc = "head", !.stage = "downloading",
                           !.rev = head, !.file = f]]
  /\ UNCHANGED <<head, final, partial, record, left, faults>>

\* No file, no such quantisation, or one shard of a multi-part file.
NothingToPull(p) ==
  /\ pull[p].pc = "resolve"
  /\ Choices(head) = {}
  /\ pull' = Fail(p, pull)
  /\ UNCHANGED <<head, final, partial, record, left, faults>>

Published(p) == Digest(Bytes(pull[p].rev, pull[p].file))

\* published_digest: the Hub's digest, or None when the HEAD fails, is
\* redirected without one, or carries something else.
HeadFile(p) ==
  /\ pull[p].pc = "head"
  /\ \/ /\ pull' = [pull EXCEPT ![p] =
                     [@ EXCEPT !.pc = "reuse", !.expected = Published(p)]]
        /\ UNCHANGED faults
     \/ /\ pull' = [pull EXCEPT ![p] = [@ EXCEPT !.pc = "reuse"]]
        /\ Fault
  /\ UNCHANGED <<head, final, partial, record, left>>

\* reuse_existing: the file on disk has the published digest.  The record
\* returned is not written.
CanReuse(p) ==
  /\ final # <<>>
  /\ pull[p].expected # NoDigest
  /\ Digest(final) = pull[p].expected

ReuseExisting(p) ==
  /\ pull[p].pc = "reuse"
  /\ CanReuse(p)
  /\ pull' = [pull EXCEPT ![p] =
               [Idle("done") EXCEPT !.rev = pull[p].rev,
                                    !.file = pull[p].file,
                                    !.hash = final, !.verified = TRUE]]
  /\ UNCHANGED <<head, final, partial, record, left, faults>>

\* The length of the partial file is the offset to resume from.
Measure(p) ==
  /\ pull[p].pc = "reuse"
  /\ ~CanReuse(p)
  /\ pull' = [pull EXCEPT ![p] =
               [@ EXCEPT !.pc = "get", !.from = Len(partial)]]
  /\ UNCHANGED <<head, final, partial, record, left, faults>>

\* hash_prefix stops at the end of the file, should it be shorter by now.
HashPrefix(len) ==
  SubSeq(partial, 1, IF len <= Len(partial) THEN len ELSE Len(partial))

Opened(p, offset) ==
  [pull[p] EXCEPT !.pc = "stream", !.handle = "partial", !.pos = offset,
                  !.hash = HashPrefix(offset)]

\* 206: the answer continues at the offset asked for; the prefix on disk is
\* hashed first.
ResumeAt(p) ==
  /\ pull[p].pc = "get"
  /\ pull[p].from > 0
  /\ pull[p].from < pull[p].file.chunks
  /\ pull' = [pull EXCEPT ![p] = Opened(p, pull[p].from)]
  /\ UNCHANGED <<head, final, partial, record, left, faults>>

\* 200: the whole file, asked for without a range or with one the server
\* ignores; the partial file is truncated.
FromZero(p) ==
  /\ pull[p].pc = "get"
  /\ \/ pull[p].from = 0 /\ UNCHANGED faults
     \/ pull[p].from > 0 /\ Fault
  /\ partial' = <<>>
  /\ pull' = [pull EXCEPT ![p] = Opened(p, 0)]
  /\ UNCHANGED <<head, final, record, left>>

\* 416: the range starts at or after the end of the file, so the status is
\* not a success.
RangeRefused(p) ==
  /\ pull[p].pc = "get"
  /\ pull[p].from >= pull[p].file.chunks
  /\ pull' = Fail(p, pull)
  /\ UNCHANGED <<head, final, partial, record, left, faults>>

\* A write of one chunk at offset pos, beyond the end too: the gap reads as
\* zeros.
Written(bytes, pos, chunk) ==
  [i \in 1 .. (IF Len(bytes) > pos THEN Len(bytes) ELSE pos + 1) |->
     IF i = pos + 1 THEN chunk
     ELSE IF i <= Len(bytes) THEN bytes[i] ELSE <<0, "zeros", i>>]

Chunk(p) ==
  LET pl == pull[p]
      chunk == Bytes(pl.rev, pl.file)[pl.pos + 1]
  IN  /\ pl.pc = "stream"
      /\ pl.pos < pl.file.chunks
      /\ partial' = IF pl.handle = "partial"
                    THEN Written(partial, pl.pos, chunk) ELSE partial
      /\ final' = IF pl.handle = "final"
                  THEN Written(final, pl.pos, chunk) ELSE final
      /\ pull' = [pull EXCEPT ![p] =
                   [pl EXCEPT !.pos = pl.pos + 1,
                              !.hash = Append(pl.hash, chunk),
                              !.stage = IF pl.pos + 1 = pl.file.chunks
                                        THEN "verifying" ELSE pl.stage]]
      /\ UNCHANGED <<head, record, left, faults>>

Streamed(p) == pull[p].pc = "stream" /\ pull[p].pos = pull[p].file.chunks

\* Mutation: the digest of the received chunks is not compared.
AgreesAlways(p) == TRUE

Agrees(p) == pull[p].expected \in {NoDigest, Digest(pull[p].hash)}

\* flush, fsync and the comparison.  The comparison is with the digest of
\* what this pull hashed; without a published digest there is none.
Check(p) ==
  /\ Streamed(p)
  /\ Agrees(p)
  /\ pull' = [pull EXCEPT ![p] =
               [@ EXCEPT !.pc = "rename", !.handle = "closed",
                         !.verified = pull[p].expected # NoDigest]]
  /\ UNCHANGED <<head, final, partial, record, left, faults>>

\* Mutation: a download that failed the comparison stays on disk.
MismatchKept(p) ==
  /\ Streamed(p)
  /\ ~Agrees(p)
  /\ pull' = Fail(p, pull)
  /\ UNCHANGED <<head, final, partial, record, left, faults>>

Mismatch(p) ==
  /\ Streamed(p)
  /\ ~Agrees(p)
  /\ partial' = <<>>
  /\ pull' = Fail(p, Rehandled("partial", "lost"))
  /\ UNCHANGED <<head, final, record, left, faults>>

\* Another pull may have renamed or removed the partial file already.
Rename(p) ==
  /\ pull[p].pc = "rename"
  /\ IF partial = <<>>
     THEN pull' = Fail(p, pull) /\ UNCHANGED <<final, partial>>
     ELSE /\ final' = partial
          /\ partial' = <<>>
          /\ pull' = [Rehandled("partial", "final") EXCEPT ![p].pc = "record"]
  /\ UNCHANGED <<head, record, left, faults>>

\* write_record: tokio::fs::write truncates the sidecar before it fills it.
TruncateRecord(p) ==
  /\ pull[p].pc = "record"
  /\ record' = Unreadable
  /\ pull' = [pull EXCEPT ![p].pc = "fill"]
  /\ UNCHANGED <<head, final, partial, left, faults>>

\* Mutation: the published digest is recorded instead of the received one.
FillRecordPublished(p) ==
  /\ pull[p].pc = "fill"
  /\ record' = RecordOf(pull[p].rev, Published(p), pull[p].verified)
  /\ pull' = [pull EXCEPT ![p] = [@ EXCEPT !.pc = "idle", !.stage = "done"]]
  /\ UNCHANGED <<head, final, partial, left, faults>>

FillRecord(p) ==
  /\ pull[p].pc = "fill"
  /\ record' = RecordOf(pull[p].rev, Digest(pull[p].hash), pull[p].verified)
  /\ pull' = [pull EXCEPT ![p] = [@ EXCEPT !.pc = "idle", !.stage = "done"]]
  /\ UNCHANGED <<head, final, partial, left, faults>>

\* A partial file as long as a file that is still to be pulled, and a file
\* that was renamed but not recorded.
LeftBy(p) ==
  {w \in {"whole", "unrecorded"} :
     \/ w = "whole" /\ \E r \in Revisions : \E f \in Choices(r) :
                           Len(partial) >= f.chunks
     \/ w = "unrecorded" /\ pull[p].pc \in {"record", "fill"}}

\* A request, a read, a write, a rename or the record fails, or the stream
\* ends in an error.  The files stay as they are.
Interrupted(p) ==
  /\ pull[p].pc # "idle"
  /\ pull' = Fail(p, pull)
  /\ left' = left \cup LeftBy(p)
  /\ Fault
  /\ UNCHANGED <<head, final, partial, record>>

\* The task is aborted (Downloads::cancel) or the process is killed.
Cancel(p) ==
  /\ Busy(p)
  /\ pull' = [pull EXCEPT ![p] = Idle("cancelled")]
  /\ left' = left \cup LeftBy(p)
  /\ Fault
  /\ UNCHANGED <<head, final, partial, record>>

-------------------------------------------------------------------------------
(* The model directory *)

\* list_local_models: the record can be read and its file exists.
Listed == record.state = "written" /\ final # <<>>

\* remove_local_model: the file goes first; a record that cannot be removed
\* is left behind.
Remove ==
  /\ Listed
  /\ final' = <<>>
  /\ pull' = Rehandled("final", "lost")
  /\ \/ record' = NoRecord /\ UNCHANGED faults
     \/ UNCHANGED record /\ Fault
  /\ UNCHANGED <<head, partial, left>>

\* The publisher pushes a new commit.
Publish ==
  /\ head + 1 \in Revisions
  /\ head' = head + 1
  /\ UNCHANGED <<final, partial, record, pull, left, faults>>

-------------------------------------------------------------------------------
(* Specification *)

\* What a pull does by itself once it has started: every request has a
\* timeout and every stream ends.
Step(p) ==
  \/ Resolve(p) \/ NothingToPull(p) \/ HeadFile(p)
  \/ ReuseExisting(p) \/ Measure(p)
  \/ ResumeAt(p) \/ FromZero(p) \/ RangeRefused(p)
  \/ Chunk(p) \/ Check(p) \/ Mismatch(p)
  \/ Rename(p) \/ TruncateRecord(p) \/ FillRecord(p)

Next ==
  \/ \E p \in Pulls : Start(p) \/ Step(p) \/ Interrupted(p) \/ Cancel(p)
  \/ Remove
  \/ Publish

Spec == Init /\ [][Next]_vars

FairSpec == Spec /\ \A p \in Pulls : WF_vars(Step(p))

-------------------------------------------------------------------------------
(* Properties *)

\* Every variable keeps its type; an idle pull holds no file.
TypeOK ==
  /\ head \in Revisions
  /\ faults \in 0 .. MaxFaults
  /\ record.state \in {"absent", "unreadable", "written"}
  /\ record.verified \in BOOLEAN
  /\ \A p \in Pulls :
       /\ pull[p].stage \in
            Ended \cup {"resolving", "downloading", "verifying"}
       /\ pull[p].handle \in {"closed", "partial", "final", "lost"}
       /\ pull[p].pc = "idle" <=> ~Busy(p)
       /\ pull[p].pc = "idle" => pull[p].handle = "closed"

\* A pull that ends with digest_verified has exactly the file its revision
\* publishes, unless the operator removed it meanwhile, however many
\* interrupted pulls of other revisions left a prefix behind (download and
\* reuse_existing).
VerifiedIsPublished ==
  [][\A p \in Pulls :
       (pull'[p].stage = "done" /\ pull[p].stage # "done" /\ pull'[p].verified)
         => final' \in {<<>>, Bytes(pull'[p].rev, pull'[p].file)}]_vars

\* Unless an interruption fell between the rename and the record, the model
\* on disk is listed and its record holds the digest of the file there, also
\* after pulls of other revisions and removals (write_record).
RecordDescribesFile ==
  ("unrecorded" \notin left /\ final # <<>> /\
     \A p \in Pulls : pull[p].pc \notin {"record", "fill"})
    => Listed /\ record.sha = Digest(final)

\* A pull that is started again and again ends with a model, unless nothing
\* can be pulled or an interruption left a partial file as long as the whole
\* one, whose resume the server refuses for ever.  A download with the wrong
\* digest does not block the ones after it.
RetryRecovers ==
  \A p \in Pulls :
    []<><<Start(p)>>_vars =>
      \/ []<>(pull[p].stage = "done")
      \/ <>("whole" \in left)
      \/ <>(Choices(head) = {})

===============================================================================
