------------------------------- MODULE AuditLog -------------------------------
(***************************************************************************)
(* The hash-chained audit log of cordon-audit: opening a directory under   *)
(* the operating-system writer lock, resuming from the newest segment,     *)
(* appending (BufWriter, flush, fsync, commit), rotation, orderly close,   *)
(* process crash, power loss, and the signed anchor that the API hands     *)
(* out.  The node always runs with fsync_on_write (LogConfig::new), so     *)
(* append is modelled with it.                                             *)
(*                                                                         *)
(* SHA-256(prev || timestamp || payload_hash) is modelled by Append(prev,  *)
(* event), which is injective in both arguments: an event stands for a     *)
(* payload together with its timestamp, and the hash of an entry is the    *)
(* history it commits to.                                                  *)
(***************************************************************************)
EXTENDS Naturals, Sequences, FiniteSets

CONSTANTS
  Nodes,        \* processes that may be pointed at the log directory
  NoNode,       \* nobody holds the writer lock
  Events,       \* what an entry records
  Boot,         \* the genesis event
  LogAccess,    \* the event record_log_access appends for an anchor
  Faults,       \* which of "write_error" and "torn" the environment may do
  SegmentMax,   \* max_file_size_bytes, counted in entries
  MaxEntries,   \* bound of the model: lines in the log
  MaxSegments   \* bound of the model: segments ever created

ASSUME ConstantsAssumption ==
  /\ NoNode \notin Nodes
  /\ Boot \in Events
  /\ LogAccess \in Events
  /\ Faults \subseteq {"write_error", "torn"}
  /\ SegmentMax \in Nat \ {0}
  /\ MaxEntries \in Nat
  /\ MaxSegments \in Nat

VARIABLES
  lines,     \* the lines of all segments, in the order they reached a file
  durable,   \* how many of them are on the device: the rest is page cache
  segments,  \* segments created so far; segment s is the s-th in name order
  lock,      \* who holds .cordon-writer.lock
  proc,      \* the AuditLog value of each process
  acked,     \* history: the newest history an append returned Ok for
  anchor     \* the audit_anchor handler in flight, or the last one signed

vars == <<lines, durable, segments, lock, proc, acked, anchor>>

Genesis == << >>

\* whole: the text of the line is all there; ended: so is its newline.
Line == [seg : Nat, sequence : Nat, hash : Seq(Events), event : Events,
         whole : BOOLEAN, ended : BOOLEAN]

\* pc: where the process is between taking the lock and returning from append.
Proc == [pc : {"down", "locked", "idle", "buffered", "flushed", "synced",
               "rotating"},
         sequence : Nat, last_hash : Seq(Events), file : Nat,
         bytes : Nat, buf : Seq(Line), event : Events]

Down == [pc |-> "down", sequence |-> 0, last_hash |-> Genesis, file |-> 0,
         bytes |-> 0, buf |-> << >>, event |-> Boot]

Anchor == [pc : {"idle", "sequence", "hash", "recorded", "signed"},
           by : Nodes \cup {NoNode}, sequence : Nat, hash : Seq(Events)]

NoAnchor == [pc |-> "idle", by |-> NoNode, sequence |-> 0, hash |-> Genesis]

Init ==
  /\ lines = << >>
  /\ durable = 0
  /\ segments = 0
  /\ lock = NoNode
  /\ proc = [n \in Nodes |-> Down]
  /\ acked = Genesis
  /\ anchor = NoAnchor

-------------------------------------------------------------------------------
(* Opening the log *)

\* Mutation: the lock is taken whoever holds it.
AcquireAnyway(n) ==
  /\ proc[n].pc = "down"
  /\ lock' = n
  /\ proc' = [proc EXCEPT ![n].pc = "locked"]
  /\ UNCHANGED <<lines, durable, segments, acked, anchor>>

\* WriterLock::acquire.  A second process is refused: it stays down.
Acquire(n) ==
  /\ proc[n].pc = "down"
  /\ lock = NoNode
  /\ lock' = n
  /\ proc' = [proc EXCEPT ![n].pc = "locked"]
  /\ UNCHANGED <<lines, durable, segments, acked, anchor>>

\* The index of the last line of every segment that has one.
LastLines ==
  {i \in DOMAIN lines :
     \A j \in DOMAIN lines : lines[j].seg = lines[i].seg => j <= i}

\* Mutation: the first segment in name order.
FirstByName ==
  CHOOSE i \in LastLines : \A j \in LastLines : lines[i].seg <= lines[j].seg

\* find_existing_log_file: the segment whose last entry has the greatest
\* sequence; among equals, the first in name order.
Newest ==
  CHOOSE i \in LastLines :
    \A j \in LastLines :
      \/ lines[j].sequence < lines[i].sequence
      \/ /\ lines[j].sequence = lines[i].sequence
         /\ lines[i].seg <= lines[j].seg

\* Line i was appended to a line without a newline: the two are one line to
\* whoever splits the file at newlines.
Glued(i) ==
  /\ i \in DOMAIN lines
  /\ i - 1 \in DOMAIN lines
  /\ lines[i - 1].seg = lines[i].seg
  /\ ~lines[i - 1].ended

\* serde_json::from_str on the line that holds entry i.
Parses(i) == lines[i].whole /\ ~Glued(i) /\ ~Glued(i + 1)

\* read_last_entry fails on a last line that does not parse; it does not ask
\* for the newline at its end.
Readable == \A i \in LastLines : Parses(i)

\* The length of a segment's file, in entries.
BytesIn(s) == Cardinality({i \in DOMAIN lines : lines[i].seg = s})

\* Mutation: the file is reopened one entry short.
ResumeTruncating(n) ==
  /\ proc[n].pc = "locked"
  /\ lines # << >>
  /\ lines' = SubSeq(lines, 1, Len(lines) - 1)
  /\ durable' = Len(lines')
  /\ proc' = [proc EXCEPT ![n] =
                [@ EXCEPT !.pc = "idle",
                          !.sequence = lines[Newest].sequence,
                          !.last_hash = lines[Newest].hash,
                          !.file = lines[Newest].seg]]
  /\ UNCHANGED <<segments, lock, acked, anchor>>

\* initialize, on a directory that holds entries: the newest segment is opened
\* in append mode, whatever byte it ends with.
Resume(n) ==
  /\ proc[n].pc = "locked"
  /\ Readable
  /\ lines # << >>
  /\ proc' = [proc EXCEPT ![n] =
                [@ EXCEPT !.pc = "idle",
                          !.sequence = lines[Newest].sequence,
                          !.last_hash = lines[Newest].hash,
                          !.file = lines[Newest].seg,
                          !.bytes = BytesIn(lines[Newest].seg)]]
  /\ UNCHANGED <<lines, durable, segments, lock, acked, anchor>>

\* initialize, on a directory without entries: a new segment; the genesis
\* append follows (Append lets nothing else through at sequence 0).
Create(n) ==
  /\ proc[n].pc = "locked"
  /\ Readable
  /\ lines = << >>
  /\ segments < MaxSegments
  /\ segments' = segments + 1
  /\ proc' = [proc EXCEPT ![n] =
                [@ EXCEPT !.pc = "idle", !.file = segments + 1]]
  /\ UNCHANGED <<lines, durable, lock, acked, anchor>>

\* initialize returns an error: open fails and drops the lock.
OpenFails(n) ==
  /\ proc[n].pc = "locked"
  /\ ~Readable
  /\ lock' = NoNode
  /\ proc' = [proc EXCEPT ![n] = Down]
  /\ UNCHANGED <<lines, durable, segments, acked, anchor>>

-------------------------------------------------------------------------------
(* append, under the state mutex: other appends and the two accessors wait *)

EntryOf(p, e) ==
  [seg |-> p.file, sequence |-> p.sequence + 1,
   hash |-> Append(p.last_hash, e), event |-> e, whole |-> TRUE,
   ended |-> TRUE]

\* Compute the entry and write_all it into the BufWriter.
WriteAll(n, e) ==
  /\ proc[n].pc = "idle"
  /\ Len(lines) + Len(proc[n].buf) < MaxEntries
  /\ (proc[n].sequence = 0) => (e = Boot)
  /\ proc' = [proc EXCEPT ![n] =
                [@ EXCEPT !.pc = "buffered",
                          !.buf = Append(proc[n].buf, EntryOf(proc[n], e)),
                          !.event = e]]

BeginAppend(n, e) ==
  /\ e # LogAccess
  /\ WriteAll(n, e)
  /\ UNCHANGED <<lines, durable, segments, lock, acked, anchor>>

\* writer.flush(): BufWriter to page cache.
Flush(n) ==
  /\ proc[n].pc = "buffered"
  /\ lines' = lines \o proc[n].buf
  /\ proc' = [proc EXCEPT ![n] = [@ EXCEPT !.pc = "flushed", !.buf = << >>]]
  /\ UNCHANGED <<durable, segments, lock, acked, anchor>>

\* Mutation: flush without fsync.
SyncNothing(n) ==
  /\ proc[n].pc = "flushed"
  /\ proc' = [proc EXCEPT ![n].pc = "synced"]
  /\ UNCHANGED <<lines, durable, segments, lock, acked, anchor>>

\* sync_data(): page cache to device.
SyncData(n) ==
  /\ proc[n].pc = "flushed"
  /\ durable' = Len(lines)
  /\ proc' = [proc EXCEPT ![n].pc = "synced"]
  /\ UNCHANGED <<lines, segments, lock, acked, anchor>>

\* The state advances; append returns Ok unless it must rotate first.
Commit(n) ==
  LET p    == proc[n]
      full == p.bytes + 1 >= SegmentMax
      hash == Append(p.last_hash, p.event)
  IN /\ p.pc = "synced"
     /\ proc' = [proc EXCEPT ![n] =
                   [@ EXCEPT !.pc = IF full THEN "rotating" ELSE "idle",
                             !.sequence = p.sequence + 1,
                             !.last_hash = hash,
                             !.bytes = p.bytes + 1]]
     /\ acked' = IF full THEN acked ELSE hash
     /\ UNCHANGED <<lines, durable, segments, lock, anchor>>

\* rotate_log_file, then append returns Ok.
Rotate(n) ==
  /\ proc[n].pc = "rotating"
  /\ segments < MaxSegments
  /\ segments' = segments + 1
  /\ lines' = lines \o proc[n].buf
  /\ proc' = [proc EXCEPT ![n] =
                [@ EXCEPT !.pc = "idle", !.file = segments + 1, !.bytes = 0,
                          !.buf = << >>]]
  /\ acked' = proc[n].last_hash
  /\ UNCHANGED <<durable, lock, anchor>>

\* append returns Err.  While the log is being opened (nothing committed yet)
\* that fails open itself; afterwards the callers drop the error or refuse
\* the one request, and the log stays in use.
AppendErr(n, p) ==
  IF p.sequence = 0
    THEN /\ proc' = [proc EXCEPT ![n] = Down]
         /\ lock' = NoNode
    ELSE /\ proc' = [proc EXCEPT ![n] = [p EXCEPT !.pc = "idle"]]
         /\ UNCHANGED lock

\* flush fails after k whole lines: BufWriter keeps what it did not write, and
\* tries again when it is dropped, which a failing open does at once.
FlushFails(n) ==
  /\ "write_error" \in Faults
  /\ proc[n].pc = "buffered"
  /\ \E k \in 0 .. Len(proc[n].buf) :
       /\ k = Len(proc[n].buf) => proc[n].sequence = 0
       /\ lines' = lines \o SubSeq(proc[n].buf, 1, k)
       /\ AppendErr(n, [proc[n] EXCEPT
                          !.buf = SubSeq(@, k + 1, Len(@))])
  /\ UNCHANGED <<durable, segments, acked, anchor>>

SyncFails(n) ==
  /\ "write_error" \in Faults
  /\ proc[n].pc = "flushed"
  /\ AppendErr(n, proc[n])
  /\ UNCHANGED <<lines, durable, segments, acked, anchor>>

\* The new segment cannot be opened: Err, though the entry is committed.
RotateFails(n) ==
  /\ "write_error" \in Faults
  /\ proc[n].pc = "rotating"
  /\ AppendErr(n, proc[n])
  /\ UNCHANGED <<lines, durable, segments, acked, anchor>>

-------------------------------------------------------------------------------
(* Going away *)

\* A handler dies with the process that runs it.
DropAnchor(N) ==
  anchor' = IF anchor.pc # "signed" /\ anchor.by \in N THEN NoAnchor ELSE anchor

\* The AuditLog is dropped: BufWriter flushes on drop, the lock goes with it.
Close(n) ==
  /\ proc[n].pc = "idle"
  /\ lines' = lines \o proc[n].buf
  /\ proc' = [proc EXCEPT ![n] = Down]
  /\ lock' = NoNode
  /\ DropAnchor({n})
  /\ UNCHANGED <<durable, segments, acked>>

\* The process is killed: its buffer is gone, the page cache is not, and the
\* operating system releases the lock.
Crash(n) ==
  /\ proc[n].pc # "down"
  /\ proc' = [proc EXCEPT ![n] = Down]
  /\ lock' = IF lock = n THEN NoNode ELSE lock
  /\ DropAnchor({n})
  /\ UNCHANGED <<lines, durable, segments, acked>>

\* The machine loses power: some prefix of the lines that were only in the
\* page cache survives, and with "torn" the next one may be left cut short, in
\* its text or just before its newline.
PowerLoss ==
  /\ \E k \in durable .. Len(lines) :
       \/ /\ lines' = SubSeq(lines, 1, k)
          /\ durable' = k
       \/ /\ "torn" \in Faults
          /\ k < Len(lines)
          /\ \E w \in BOOLEAN :
               lines' = Append(SubSeq(lines, 1, k),
                          [lines[k + 1] EXCEPT !.whole = w, !.ended = FALSE])
          /\ durable' = k + 1
  /\ proc' = [n \in Nodes |-> Down]
  /\ lock' = NoNode
  /\ DropAnchor(Nodes)
  /\ UNCHANGED <<segments, acked>>

-------------------------------------------------------------------------------
(* audit_anchor: two separate acquisitions of the mutex, then the access   *)
(* record, then the signature.                                             *)

AnchorSequence(n) ==
  /\ anchor.pc \in {"idle", "signed"}
  /\ proc[n].pc = "idle"
  /\ proc[n].sequence > 0
  /\ anchor' = [pc |-> "sequence", by |-> n, sequence |-> proc[n].sequence,
                hash |-> Genesis]
  /\ UNCHANGED <<lines, durable, segments, lock, proc, acked>>

AnchorHash(n) ==
  /\ anchor.pc = "sequence"
  /\ anchor.by = n
  /\ proc[n].pc = "idle"
  /\ anchor' = [anchor EXCEPT !.pc = "hash", !.hash = proc[n].last_hash]
  /\ UNCHANGED <<lines, durable, segments, lock, proc, acked>>

AnchorRecord(n) ==
  /\ anchor.pc = "hash"
  /\ anchor.by = n
  /\ WriteAll(n, LogAccess)
  /\ anchor' = [anchor EXCEPT !.pc = "recorded"]
  /\ UNCHANGED <<lines, durable, segments, lock, acked>>

\* Mutation: the sequence is read again after the access is recorded.
AnchorSignRereading(n) ==
  /\ anchor.pc = "recorded"
  /\ anchor.by = n
  /\ proc[n].pc = "idle"
  /\ anchor' = [anchor EXCEPT !.pc = "signed", !.sequence = proc[n].sequence]
  /\ UNCHANGED <<lines, durable, segments, lock, proc, acked>>

\* Once its append has returned, whatever it returned.
AnchorSign(n) ==
  /\ anchor.pc = "recorded"
  /\ anchor.by = n
  /\ proc[n].pc = "idle"
  /\ anchor' = [anchor EXCEPT !.pc = "signed"]
  /\ UNCHANGED <<lines, durable, segments, lock, proc, acked>>

-------------------------------------------------------------------------------
Next ==
  \/ \E n \in Nodes :
       \/ Acquire(n) \/ Resume(n) \/ Create(n) \/ OpenFails(n)
       \/ \E e \in Events : BeginAppend(n, e)
       \/ Flush(n) \/ SyncData(n) \/ Commit(n) \/ Rotate(n)
       \/ FlushFails(n) \/ SyncFails(n) \/ RotateFails(n)
       \/ Close(n) \/ Crash(n)
       \/ AnchorSequence(n) \/ AnchorHash(n) \/ AnchorRecord(n) \/ AnchorSign(n)
  \/ PowerLoss

Spec == Init /\ [][Next]_vars

-------------------------------------------------------------------------------
(* Properties *)

TypeOK ==
  /\ lines \in Seq(Line)
  /\ durable \in Nat
  /\ segments \in Nat
  /\ lock \in Nodes \cup {NoNode}
  /\ proc \in [Nodes -> Proc]
  /\ acked \in Seq(Events)
  /\ anchor \in Anchor

\* verify_log_chain sorts by sequence, so the entry it meets n-th in a log it
\* accepts is the one with sequence n.
EntriesAt(n) == {i \in DOMAIN lines : lines[i].sequence = n}

PrevHash(n) ==
  IF n = 1 THEN Genesis ELSE lines[CHOOSE i \in EntriesAt(n - 1) : TRUE].hash

\* verify_log_chain finds no violation: every line parses, the sequences are
\* 1 .. Len(lines) without gap or repetition, every hash links to the entry
\* before it.  (Payload hash and signature are right on every line the node
\* wrote.)
VerifyLogChain ==
  /\ \A i \in DOMAIN lines : Parses(i)
  /\ \A n \in DOMAIN lines :
       \E i \in EntriesAt(n) :
         lines[i].hash = Append(PrevHash(n), lines[i].event)

\* A log that only Cordon wrote passes verification at every instant: with
\* two nodes started on one directory, killed at any step of append, open or
\* rotation, or losing power (log.rs, WriterLock: the log must not cry tamper
\* over an operational slip).
ChainVerifies == VerifyLogChain

\* Every entry whose append returned Ok is in the log from then on, on the
\* history it was acknowledged with: after a crash, a power loss, failed
\* writes, rotations and resumes.  The line of the entry acknowledged last
\* ends in a newline, and readers can parse it and its whole history, but for
\* an entry glued to a line whose newline a power loss took, and that line:
\* open resumes behind it (log.rs, fsync_on_write: what makes
\* log-before-process survive a crash; read_last_entry; open_log_file).
AckedSurvives ==
  \A k \in 1 .. Len(acked) :
    \E i \in DOMAIN lines :
      /\ lines[i].whole /\ lines[i].hash = SubSeq(acked, 1, k)
      /\ (k = Len(acked)) => lines[i].ended
      /\ Parses(i) \/ ~lines[i].ended \/ (i > 1 /\ ~lines[i - 1].ended)

IsExtension(s, t) == Len(s) <= Len(t) /\ SubSeq(t, 1, Len(s)) = s

\* What has been acknowledged is never acknowledged differently: each Ok
\* extends the history of the one before, across restarts by other nodes and
\* failed writes in between (log.rs, append: the log is append-only).
AckedExtends == [][IsExtension(acked, acked')]_acked

\* A signed anchor names a head that stays in the log, at or after the
\* sequence it carries (handlers.rs, audit_anchor: a later rewrite before
\* this sequence becomes detectable).
AnchorHolds ==
  anchor.pc = "signed" =>
    /\ anchor.sequence <= Len(anchor.hash)
    /\ \E i \in DOMAIN lines : Parses(i) /\ lines[i].hash = anchor.hash

-------------------------------------------------------------------------------
(* What the log promises its callers *)

Contract == INSTANCE AppendOnlyLog
  WITH log <- [i \in DOMAIN lines |-> lines[i].event], acked <- Len(acked)

\* The log implements AppendOnlyLog: readers see entries added at the tail
\* only, and lose none that was acknowledged.
ImplementsContract == Contract!Spec

===============================================================================
