---------------------------- MODULE AuditLogProofs ----------------------------
(***************************************************************************)
(* Proofs about AuditLog, for any nodes, events and bounds: crashes, power *)
(* losses, rotations, concurrent nodes and anchors are all allowed.  The   *)
(* first part is about a log whose writes do not fail and whose lines are  *)
(* not torn: that it verifies, implements its contract, and keeps what an  *)
(* anchor names.  The second part holds for any Faults: what append        *)
(* acknowledged is kept, and only extended.                                *)
(***************************************************************************)
EXTENDS AuditLog, FiniteSetTheorems, TLAPS

\* The events of the first k lines of L: what entry k's hash commits to.
History(L, k) == [j \in 1 .. k |-> L[j].event]

\* Line i is the i-th entry of one chain.
LinesInv ==
  \A i \in DOMAIN lines :
    /\ lines[i].whole /\ lines[i].ended
    /\ lines[i].sequence = i
    /\ lines[i].hash = History(lines, i)

\* Nothing has been read or written yet.
Blank(p) == p.buf = << >> /\ p.sequence = 0 /\ p.last_hash = Genesis

\* A process at rest continues from the tail; one inside append is one entry
\* ahead of the files, then one behind.
ProcInv(n) ==
  LET p == proc[n] IN
  /\ p.pc # "down" => lock = n
  /\ p.pc \in {"down", "locked"} => Blank(p)
  /\ p.pc \in {"idle", "rotating"} =>
       /\ p.buf = << >>
       /\ p.sequence = Len(lines)
       /\ p.last_hash = History(lines, Len(lines))
  /\ p.pc = "buffered" =>
       /\ p.sequence = Len(lines)
       /\ p.last_hash = History(lines, Len(lines))
       /\ p.buf = <<EntryOf(p, p.event)>>
  /\ p.pc \in {"flushed", "synced"} =>
       /\ p.buf = << >>
       /\ p.sequence + 1 = Len(lines)
       /\ p.last_hash = History(lines, p.sequence)
       /\ p.event = lines[Len(lines)].event
  /\ p.pc \in {"synced", "rotating"} => durable = Len(lines)

\* What was acknowledged is on the device.
AckInv ==
  /\ durable <= Len(lines)
  /\ Len(acked) <= durable
  /\ acked = History(lines, Len(acked))

ChainInv == TypeOK /\ LinesInv /\ (\A n \in Nodes : ProcInv(n)) /\ AckInv

-------------------------------------------------------------------------------
LEMMA BytesInType ==
  ASSUME lines \in Seq(Line), NEW s
  PROVE  BytesIn(s) \in Nat
  <1>1. {i \in DOMAIN lines : lines[i].seg = s} \subseteq 1 .. Len(lines)
    OBVIOUS
  <1>2. IsFiniteSet(1 .. Len(lines))
    BY FS_Interval
  <1>3. QED
    BY <1>1, <1>2, FS_Subset, FS_CardinalityType DEF BytesIn

\* The shapes of the ways a process record changes.
LEMMA ProcUpdate ==
  ASSUME NEW P, P \in [Nodes -> Proc], NEW n \in Nodes, NEW q \in Proc
  PROVE  [P EXCEPT ![n] = q] \in [Nodes -> Proc]
  OBVIOUS

LEMMA DownType == Down \in Proc
  BY ConstantsAssumption DEF Down, Proc, Genesis

LEMMA NewestExists ==
  ASSUME lines \in Seq(Line), LinesInv, lines # << >>
  PROVE  /\ Newest = Len(lines)
         /\ Newest \in DOMAIN lines
  <1>1. Len(lines) \in LastLines
    BY DEF LastLines
  <1>2. \A i \in LastLines : i \in DOMAIN lines /\ lines[i].sequence = i
    BY DEF LastLines, LinesInv
  <1> DEFINE Best(i) == \A j \in LastLines :
               \/ lines[j].sequence < lines[i].sequence
               \/ /\ lines[j].sequence = lines[i].sequence
                  /\ lines[i].seg <= lines[j].seg
  <1>3. Best(Len(lines))
    <2> SUFFICES ASSUME NEW j \in LastLines
                 PROVE  \/ lines[j].sequence < lines[Len(lines)].sequence
                        \/ /\ lines[j].sequence = lines[Len(lines)].sequence
                           /\ lines[Len(lines)].seg <= lines[j].seg
      OBVIOUS
    <2>1. lines[Len(lines)].sequence = Len(lines) /\ lines[j].sequence = j
      BY <1>1, <1>2
    <2>2. lines[Len(lines)].seg \in Nat
      <3>1. Len(lines) \in DOMAIN lines
      BY <1>1, <1>2
    <3>2. lines[Len(lines)] \in Line
      BY <3>1
    <3> QED
      BY <3>2 DEF Line
    <2>3. j \in 1 .. Len(lines)
      BY <1>2
    <2> QED
      BY <2>1, <2>2, <2>3
  <1>4. \A i \in LastLines : Best(i) => i = Len(lines)
    BY <1>1, <1>2
  <1>5. Newest = (CHOOSE i \in LastLines : Best(i))
    BY DEF Newest
  <1> HIDE DEF Best
  <1>6. Newest \in LastLines /\ Best(Newest)
    BY <1>1, <1>3, <1>5
  <1>7. QED
    BY <1>4, <1>6 DEF LastLines

-------------------------------------------------------------------------------
(* Histories *)

LEMMA HistoryType ==
  ASSUME NEW L \in Seq(Line), NEW k \in 0 .. Len(L)
  PROVE  /\ History(L, k) \in Seq(Events)
         /\ Len(History(L, k)) = k
  <1>1. \A j \in 1 .. k : L[j] \in Line
    OBVIOUS
  <1>2. \A j \in 1 .. k : L[j].event \in Events
    BY <1>1 DEF Line
  <1>3. QED
    BY <1>2 DEF History

LEMMA HistoryGrows ==
  ASSUME NEW L \in Seq(Line), NEW k \in Nat, k < Len(L)
  PROVE  History(L, k + 1) = Append(History(L, k), L[k + 1].event)
  <1>1. History(L, k) \in Seq(Events) /\ Len(History(L, k)) = k
    BY HistoryType
  <1>2. History(L, k + 1) \in Seq(Events) /\ Len(History(L, k + 1)) = k + 1
    BY HistoryType
  <1>3. L[k + 1].event \in Events
    <2>1. L[k + 1] \in Line
      OBVIOUS
    <2> QED
      BY <2>1 DEF Line
  <1>4. Append(History(L, k), L[k + 1].event) \in Seq(Events)
        /\ Len(Append(History(L, k), L[k + 1].event)) = k + 1
    BY <1>1, <1>3
  <1>5. \A j \in 1 .. k + 1 :
          History(L, k + 1)[j] = Append(History(L, k), L[k + 1].event)[j]
    BY <1>1, <1>3 DEF History
  <1>6. QED
    BY <1>2, <1>4, <1>5

LEMMA HistoryKept ==
  ASSUME NEW L, NEW M, NEW k \in Nat, \A j \in 1 .. k : M[j] = L[j]
  PROVE  History(M, k) = History(L, k)
  BY DEF History

LEMMA HistoryPrefix ==
  ASSUME NEW L \in Seq(Line), NEW k \in 0 .. Len(L), NEW i \in 0 .. k
  PROVE  SubSeq(History(L, k), 1, i) = History(L, i)
  <1>1. History(L, k) \in Seq(Events) /\ Len(History(L, k)) = k
    BY HistoryType
  <1>2. History(L, i) \in Seq(Events) /\ Len(History(L, i)) = i
    BY HistoryType
  <1>3. SubSeq(History(L, k), 1, i) \in Seq(Events)
        /\ Len(SubSeq(History(L, k), 1, i)) = i
        /\ \A j \in 1 .. i : SubSeq(History(L, k), 1, i)[j] = History(L, k)[j]
    BY <1>1
  <1>4. \A j \in 1 .. i : History(L, k)[j] = History(L, i)[j]
    BY DEF History
  <1>5. QED
    BY <1>2, <1>3, <1>4

-------------------------------------------------------------------------------
(* Processes other than the one that moves *)

LEMMA OthersDown ==
  ASSUME \A n \in Nodes : ProcInv(n),
         NEW n \in Nodes, NEW m \in Nodes, m # n, proc[n].pc # "down"
  PROVE  proc[m].pc = "down" /\ Blank(proc[m])
  BY DEF ProcInv

LEMMA DownOk ==
  ASSUME NEW n \in Nodes, proc'[n].pc = "down", Blank(proc'[n])
  PROVE  ProcInv(n)'
  BY DEF ProcInv, Blank

\* A step of n that leaves the other processes alone keeps their invariant.
LEMMA OnlyMover ==
  ASSUME proc \in [Nodes -> Proc],
         \A n \in Nodes : ProcInv(n),
         NEW n \in Nodes, NEW q, proc' = [proc EXCEPT ![n] = q],
         proc[n].pc # "down" \/ lock = NoNode,
         ProcInv(n)'
  PROVE  \A m \in Nodes : ProcInv(m)'
  <1> SUFFICES ASSUME NEW m \in Nodes, m # n
               PROVE  ProcInv(m)'
    OBVIOUS
  <1>1. proc'[m] = proc[m]
    OBVIOUS
  <1>2. proc[m].pc = "down" /\ Blank(proc[m])
    <2>1. CASE proc[n].pc # "down"
      BY <2>1, OthersDown
    <2>2. CASE lock = NoNode
      BY <2>2, ConstantsAssumption DEF ProcInv
    <2> QED
      BY <2>1, <2>2
  <1> QED
    BY <1>1, <1>2, DownOk

-------------------------------------------------------------------------------
(* Steps that leave the files and what was acknowledged alone *)

\* Such a step keeps the invariant when the mover's own part is kept.
LEMMA QuietStep ==
  ASSUME ChainInv, NEW n \in Nodes, NEW q \in Proc,
         proc' = [proc EXCEPT ![n] = q],
         proc[n].pc # "down" \/ lock = NoNode,
         UNCHANGED <<lines, durable, acked>>,
         segments' \in Nat, lock' \in Nodes \cup {NoNode}, anchor' \in Anchor,
         ProcInv(n)'
  PROVE  ChainInv'
  <1>1. TypeOK'
    BY ProcUpdate DEF ChainInv, TypeOK
  <1>2. LinesInv' /\ AckInv'
    BY DEF ChainInv, LinesInv, AckInv, History
  <1>3. \A m \in Nodes : ProcInv(m)'
    BY OnlyMover DEF ChainInv, TypeOK
  <1> QED
    BY <1>1, <1>2, <1>3 DEF ChainInv

LEMMA AcquireStep ==
  ASSUME ChainInv, NEW n \in Nodes, Acquire(n)
  PROVE  ChainInv'
  <1> DEFINE q == [proc[n] EXCEPT !.pc = "locked"]
  <1>1. q \in Proc /\ proc' = [proc EXCEPT ![n] = q]
    BY DEF ChainInv, TypeOK, Proc, Acquire
  <1>2. proc'[n].pc = "locked" /\ Blank(proc'[n]) /\ lock' = n
    BY DEF ChainInv, TypeOK, Proc, Acquire, ProcInv, Blank
  <1>3. ProcInv(n)'
    BY <1>2 DEF ProcInv, Blank
  <1> HIDE DEF q
  <1> QED
    BY <1>1, <1>3, QuietStep DEF Acquire, ChainInv, TypeOK

LEMMA ResumeStep ==
  ASSUME ChainInv, NEW n \in Nodes, Resume(n)
  PROVE  ChainInv'
  <1> DEFINE q == [proc[n] EXCEPT !.pc = "idle",
                     !.sequence = lines[Newest].sequence,
                     !.last_hash = lines[Newest].hash,
                     !.file = lines[Newest].seg,
                     !.bytes = BytesIn(lines[Newest].seg)]
  <1>1. Newest = Len(lines) /\ Newest \in DOMAIN lines
    BY NewestExists DEF ChainInv, TypeOK, Resume
  <1>2. lines[Newest] \in Line
    BY <1>1 DEF ChainInv, TypeOK
  <1>3. BytesIn(lines[Newest].seg) \in Nat
    BY BytesInType DEF ChainInv, TypeOK
  <1>4. q \in Proc
    BY <1>2, <1>3 DEF ChainInv, TypeOK, Proc, Line
  <1>5. proc' = [proc EXCEPT ![n] = q]
    BY DEF Resume
  <1>6. lines[Newest].sequence = Len(lines)
        /\ lines[Newest].hash = History(lines, Len(lines))
    BY <1>1 DEF ChainInv, LinesInv
  <1>7. /\ proc'[n].pc = "idle" /\ proc'[n].buf = proc[n].buf
        /\ proc'[n].sequence = Len(lines)
        /\ proc'[n].last_hash = History(lines, Len(lines))
    BY <1>5, <1>6 DEF ChainInv, TypeOK, Proc
  <1>8. proc[n].buf = << >> /\ lock = n /\ lock' = lock /\ lines' = lines
    BY DEF ChainInv, ProcInv, Resume, Blank
  <1>9. ProcInv(n)'
    BY <1>7, <1>8 DEF ProcInv, History
  <1> HIDE DEF q
  <1> QED
    BY <1>4, <1>5, <1>9, QuietStep DEF Resume, ChainInv, TypeOK

LEMMA CreateStep ==
  ASSUME ChainInv, NEW n \in Nodes, Create(n)
  PROVE  ChainInv'
  <1> DEFINE q == [proc[n] EXCEPT !.pc = "idle", !.file = segments + 1]
  <1>1a. segments + 1 \in Nat /\ segments' \in Nat /\ proc[n] \in Proc
    BY DEF ChainInv, TypeOK, Create
  <1>1b. q \in Proc
    BY <1>1a DEF Proc
  <1>1. q \in Proc /\ proc' = [proc EXCEPT ![n] = q]
    BY <1>1b DEF Create
  <1>2. proc[n].buf = << >> /\ proc[n].sequence = 0
        /\ proc[n].last_hash = << >> /\ lock = n
    BY DEF ChainInv, ProcInv, Blank, Create, Genesis
  <1>3. /\ proc'[n].pc = "idle" /\ proc'[n].buf = << >>
        /\ proc'[n].sequence = 0 /\ proc'[n].last_hash = << >>
    BY <1>1, <1>2 DEF ChainInv, TypeOK, Proc
  <1>4. lines' = << >> /\ lock' = n
    BY <1>2 DEF Create
  <1>5. Len(lines') = 0 /\ History(lines', 0) = << >>
    BY <1>4 DEF History
  <1>6. ProcInv(n)'
    BY <1>3, <1>4, <1>5 DEF ProcInv
  <1> HIDE DEF q
  <1> QED
    BY <1>1, <1>1a, <1>6, QuietStep DEF Create, ChainInv, TypeOK

\* The mover goes down, with the lock.
LEMMA GoesDown ==
  ASSUME ChainInv, NEW n \in Nodes, proc[n].pc # "down",
         proc' = [proc EXCEPT ![n] = Down],
         UNCHANGED <<lines, durable, acked>>,
         segments' \in Nat, lock' \in Nodes \cup {NoNode}, anchor' \in Anchor
  PROVE  ChainInv'
  <1>1. proc'[n] = Down
    BY DEF ChainInv, TypeOK
  <1>2. ProcInv(n)'
    BY <1>1, DownOk DEF Down, Blank
  <1> QED
    BY <1>2, DownType, QuietStep

LEMMA DropAnchorType ==
  ASSUME anchor \in Anchor, NEW N, DropAnchor(N)
  PROVE  anchor' \in Anchor
  BY DEF DropAnchor, Anchor, NoAnchor, Genesis

LEMMA LockOwner ==
  ASSUME ChainInv, NEW n \in Nodes, proc[n].pc # "down"
  PROVE  lock = n
  BY DEF ChainInv, ProcInv

\* With nothing torn, open always finds the last entries readable.
LEMMA NeverUnreadable ==
  ASSUME ChainInv
  PROVE  Readable
  BY DEF ChainInv, LinesInv, Readable, LastLines, Parses, Glued

LEMMA CloseStep ==
  ASSUME ChainInv, NEW n \in Nodes, Close(n)
  PROVE  ChainInv'
  <1>1. lines' = lines
    BY DEF Close, ChainInv, TypeOK, ProcInv
  <1> QED
    BY <1>1, GoesDown, DropAnchorType DEF Close, ChainInv, TypeOK

LEMMA CrashStep ==
  ASSUME ChainInv, NEW n \in Nodes, Crash(n)
  PROVE  ChainInv'
  BY GoesDown, DropAnchorType DEF Crash, ChainInv, TypeOK

LEMMA WriteAllStep ==
  ASSUME ChainInv, NEW n \in Nodes, NEW e \in Events, WriteAll(n, e),
         UNCHANGED <<lines, durable, segments, lock, acked>>, anchor' \in Anchor
  PROVE  ChainInv'
  <1> DEFINE q == [proc[n] EXCEPT !.pc = "buffered",
                     !.buf = Append(proc[n].buf, EntryOf(proc[n], e)),
                     !.event = e]
  <1>1. proc[n] \in Proc /\ proc[n].buf = << >>
    BY DEF WriteAll, ChainInv, TypeOK, ProcInv
  <1>2. EntryOf(proc[n], e) \in Line
    BY <1>1 DEF EntryOf, Line, Proc
  <1>3. Append(proc[n].buf, EntryOf(proc[n], e)) = <<EntryOf(proc[n], e)>>
    BY <1>1
  <1>4. q \in Proc
    <2>1. Append(proc[n].buf, EntryOf(proc[n], e)) \in Seq(Line)
      BY <1>2, <1>3
    <2> HIDE DEF q
    <2> QED
      BY <1>1, <2>1 DEF Proc, q
  <1>5. proc' = [proc EXCEPT ![n] = q]
    BY DEF WriteAll
  <1>6. /\ proc'[n].pc = "buffered" /\ proc'[n].sequence = proc[n].sequence
        /\ proc'[n].last_hash = proc[n].last_hash
        /\ proc'[n].file = proc[n].file /\ proc'[n].event = e
        /\ proc'[n].buf = <<EntryOf(proc[n], e)>>
    BY <1>1, <1>3, <1>5 DEF ChainInv, TypeOK, Proc
  <1>7. proc'[n].buf = <<EntryOf(proc'[n], proc'[n].event)>>
    BY <1>6 DEF EntryOf
  <1>8. /\ proc[n].sequence = Len(lines) /\ lock = n
        /\ proc[n].last_hash = History(lines, Len(lines))
    BY DEF WriteAll, ChainInv, ProcInv
  <1>9. ProcInv(n)'
    BY <1>6, <1>7, <1>8 DEF ProcInv, History
  <1> HIDE DEF q
  <1> QED
    BY <1>4, <1>5, <1>9, QuietStep DEF WriteAll, ChainInv, TypeOK

-------------------------------------------------------------------------------
(* Steps that write *)

LEMMA FlushStep ==
  ASSUME ChainInv, NEW n \in Nodes, Flush(n)
  PROVE  ChainInv'
  <1> DEFINE q == [proc[n] EXCEPT !.pc = "flushed", !.buf = << >>]
             x == EntryOf(proc[n], proc[n].event)
  <1>1. /\ proc[n] \in Proc /\ lines \in Seq(Line) /\ lock = n
        /\ proc[n].sequence = Len(lines)
        /\ proc[n].last_hash = History(lines, Len(lines))
        /\ proc[n].buf = <<x>>
    BY DEF Flush, ChainInv, TypeOK, ProcInv
  <1>2. x \in Line /\ x.event = proc[n].event /\ x.sequence = Len(lines) + 1
        /\ x.hash = Append(proc[n].last_hash, proc[n].event)
        /\ x.whole /\ x.ended
    BY <1>1 DEF EntryOf, Line, Proc
  <1>3. lines' = lines \o <<x>>
    BY <1>1 DEF Flush
  <1> HIDE DEF x
  <1>4. /\ lines' \in Seq(Line) /\ Len(lines') = Len(lines) + 1
        /\ \A j \in 1 .. Len(lines) : lines'[j] = lines[j]
        /\ lines'[Len(lines) + 1] = x
    BY <1>1, <1>2, <1>3
  <1>5. \A k \in 0 .. Len(lines) : History(lines', k) = History(lines, k)
    BY <1>1, <1>4, HistoryKept
  <1>6. q \in Proc /\ proc' = [proc EXCEPT ![n] = q]
    <2>1. << >> \in Seq(Line)
      OBVIOUS
    <2> QED
      BY <1>1, <2>1 DEF Proc, Flush
  <1>7. TypeOK'
    BY <1>4, <1>6, ProcUpdate DEF ChainInv, TypeOK, Flush
  <1>8. History(lines', Len(lines) + 1) = Append(History(lines, Len(lines)), x.event)
    <2>1. History(lines', Len(lines) + 1)
            = Append(History(lines', Len(lines)), lines'[Len(lines) + 1].event)
      BY <1>1, <1>4, HistoryGrows
    <2> QED
      BY <2>1, <1>1, <1>4, <1>5
  <1>9. LinesInv'
    <2> SUFFICES ASSUME NEW i \in 1 .. Len(lines) + 1
                 PROVE  /\ lines'[i].whole /\ lines'[i].ended
                        /\ lines'[i].sequence = i
                        /\ lines'[i].hash = History(lines', i)
      BY <1>4 DEF LinesInv
    <2>1. CASE i = Len(lines) + 1
      BY <1>1, <1>2, <1>4, <1>8, <2>1
    <2>2. CASE i \in 1 .. Len(lines)
      BY <1>1, <1>4, <1>5, <2>2 DEF ChainInv, LinesInv
    <2> QED
      BY <1>1, <2>1, <2>2
  <1>10. AckInv'
    BY <1>1, <1>4, <1>5 DEF Flush, ChainInv, TypeOK, AckInv
  <1>11. ProcInv(n)'
    <2>1. /\ proc'[n].pc = "flushed" /\ proc'[n].buf = << >>
          /\ proc'[n].sequence = Len(lines)
          /\ proc'[n].last_hash = History(lines, Len(lines))
          /\ proc'[n].event = proc[n].event /\ lock' = n
      BY <1>1, <1>6 DEF Flush, Proc, ChainInv, TypeOK
    <2> QED
      BY <2>1, <1>1, <1>2, <1>4, <1>5 DEF ProcInv
  <1>12. \A m \in Nodes : ProcInv(m)'
    BY <1>6, <1>11, OnlyMover DEF ChainInv, TypeOK, Flush
  <1> QED
    BY <1>7, <1>9, <1>10, <1>12 DEF ChainInv

LEMMA SyncDataStep ==
  ASSUME ChainInv, NEW n \in Nodes, SyncData(n)
  PROVE  ChainInv'
  <1> DEFINE q == [proc[n] EXCEPT !.pc = "synced"]
  <1>1. proc[n] \in Proc /\ lines \in Seq(Line) /\ lock = n
    BY DEF SyncData, ChainInv, TypeOK, ProcInv
  <1>2. q \in Proc /\ proc' = [proc EXCEPT ![n] = q]
    BY <1>1 DEF Proc, SyncData
  <1>3. lines' = lines /\ durable' = Len(lines) /\ acked' = acked
    BY DEF SyncData
  <1>4. TypeOK'
    BY <1>1, <1>2, ProcUpdate DEF ChainInv, TypeOK, SyncData
  <1>5. LinesInv' /\ AckInv'
    BY <1>1, <1>3 DEF ChainInv, TypeOK, LinesInv, AckInv, History
  <1>6. ProcInv(n)'
    <2>1. /\ proc'[n].pc = "synced" /\ proc'[n].buf = proc[n].buf
          /\ proc'[n].sequence = proc[n].sequence
          /\ proc'[n].last_hash = proc[n].last_hash
          /\ proc'[n].event = proc[n].event /\ lock' = n
      BY <1>1, <1>2 DEF SyncData, Proc, ChainInv, TypeOK
    <2> QED
      BY <2>1, <1>3 DEF ProcInv, History, ChainInv, SyncData
  <1>7. \A m \in Nodes : ProcInv(m)'
    BY <1>2, <1>6, OnlyMover DEF ChainInv, TypeOK, SyncData
  <1> QED
    BY <1>4, <1>5, <1>7 DEF ChainInv

\* The history a process that has synced is about to commit.
LEMMA CommittedHash ==
  ASSUME ChainInv, NEW n \in Nodes, proc[n].pc = "synced"
  PROVE  /\ Append(proc[n].last_hash, proc[n].event) = History(lines, Len(lines))
         /\ Len(History(lines, Len(lines))) = Len(lines)
         /\ proc[n].sequence + 1 = Len(lines)
         /\ durable = Len(lines)
         /\ proc[n].buf = << >>
  <1>1. /\ lines \in Seq(Line) /\ proc[n].sequence \in Nat
        /\ proc[n].sequence + 1 = Len(lines)
        /\ proc[n].last_hash = History(lines, proc[n].sequence)
        /\ proc[n].event = lines[Len(lines)].event
        /\ durable = Len(lines) /\ proc[n].buf = << >>
    BY DEF ChainInv, TypeOK, ProcInv, Proc
  <1>2. Append(proc[n].last_hash, proc[n].event) = History(lines, Len(lines))
    BY <1>1, HistoryGrows
  <1> QED
    BY <1>1, <1>2, HistoryType

LEMMA CommitStep ==
  ASSUME ChainInv, NEW n \in Nodes, Commit(n)
  PROVE  ChainInv'
  <1> DEFINE hash == Append(proc[n].last_hash, proc[n].event)
             full == proc[n].bytes + 1 >= SegmentMax
             q == [proc[n] EXCEPT !.pc = IF full THEN "rotating" ELSE "idle",
                                  !.sequence = proc[n].sequence + 1,
                                  !.last_hash = hash,
                                  !.bytes = proc[n].bytes + 1]
  <1>1. proc[n] \in Proc /\ lines \in Seq(Line) /\ lock = n
    BY DEF Commit, ChainInv, TypeOK, ProcInv
  <1>2. /\ hash = History(lines, Len(lines)) /\ Len(hash) = Len(lines)
        /\ proc[n].sequence + 1 = Len(lines) /\ durable = Len(lines)
        /\ proc[n].buf = << >>
    BY CommittedHash DEF Commit
  <1>3. hash \in Seq(Events)
    BY <1>1, <1>2, HistoryType
  <1> HIDE DEF hash, full
  <1>4. q \in Proc
    <2>1. proc[n].sequence + 1 \in Nat /\ proc[n].bytes + 1 \in Nat
          /\ (IF full THEN "rotating" ELSE "idle") \in {"rotating", "idle"}
      BY <1>1 DEF Proc
    <2> QED
      BY <1>1, <1>3, <2>1 DEF Proc
  <1>5. proc' = [proc EXCEPT ![n] = q]
        /\ acked' = (IF full THEN acked ELSE hash)
        /\ UNCHANGED <<lines, durable, segments, lock, anchor>>
    BY DEF Commit, hash, full
  <1>6. TypeOK'
    BY <1>3, <1>4, <1>5, ProcUpdate DEF ChainInv, TypeOK
  <1>7. LinesInv'
    BY <1>5 DEF ChainInv, LinesInv, History
  <1>8. AckInv'
    BY <1>2, <1>5 DEF ChainInv, AckInv, History
  <1>9. ProcInv(n)'
    <2>1. /\ proc'[n].pc \in {"idle", "rotating"} /\ proc'[n].buf = << >>
          /\ proc'[n].sequence = Len(lines) /\ proc'[n].last_hash = hash
          /\ lock' = n
      BY <1>1, <1>2, <1>5 DEF Proc, ChainInv, TypeOK
    <2> QED
      BY <2>1, <1>2, <1>5 DEF ProcInv, History
  <1> HIDE DEF q
  <1>10. \A m \in Nodes : ProcInv(m)'
    BY <1>5, <1>9, OnlyMover DEF ChainInv, TypeOK, Commit
  <1> QED
    BY <1>6, <1>7, <1>8, <1>10 DEF ChainInv

LEMMA RotateStep ==
  ASSUME ChainInv, NEW n \in Nodes, Rotate(n)
  PROVE  ChainInv'
  <1> DEFINE q == [proc[n] EXCEPT !.pc = "idle", !.file = segments + 1,
                                  !.bytes = 0, !.buf = << >>]
  <1>1. /\ proc[n] \in Proc /\ lines \in Seq(Line) /\ segments \in Nat
        /\ lock = n /\ proc[n].buf = << >> /\ proc[n].sequence = Len(lines)
        /\ proc[n].last_hash = History(lines, Len(lines)) /\ durable = Len(lines)
    BY DEF Rotate, ChainInv, TypeOK, ProcInv
  <1>2. /\ History(lines, Len(lines)) \in Seq(Events)
        /\ Len(History(lines, Len(lines))) = Len(lines)
    BY <1>1, HistoryType
  <1>3. q \in Proc
    <2>1. segments + 1 \in Nat /\ 0 \in Nat /\ << >> \in Seq(Line)
      BY <1>1
    <2> QED
      BY <1>1, <2>1 DEF Proc
  <1>4. /\ proc' = [proc EXCEPT ![n] = q] /\ lines' = lines
        /\ acked' = History(lines, Len(lines)) /\ segments' = segments + 1
        /\ UNCHANGED <<durable, lock, anchor>>
    BY <1>1 DEF Rotate
  <1>5. TypeOK'
    BY <1>1, <1>2, <1>3, <1>4, ProcUpdate DEF ChainInv, TypeOK
  <1>6. LinesInv'
    BY <1>4 DEF ChainInv, LinesInv, History
  <1>7. AckInv'
    BY <1>1, <1>2, <1>4 DEF AckInv, History
  <1>8. ProcInv(n)'
    <2>1. /\ proc'[n].pc = "idle" /\ proc'[n].buf = << >>
          /\ proc'[n].sequence = Len(lines) /\ lock' = n
          /\ proc'[n].last_hash = History(lines, Len(lines))
      BY <1>1, <1>4 DEF Proc, ChainInv, TypeOK
    <2> QED
      BY <2>1, <1>4 DEF ProcInv, History
  <1> HIDE DEF q
  <1>9. \A m \in Nodes : ProcInv(m)'
    BY <1>4, <1>8, OnlyMover DEF ChainInv, TypeOK, Rotate
  <1> QED
    BY <1>5, <1>6, <1>7, <1>9 DEF ChainInv

\* The log after a failure that tears nothing: a prefix that holds all that
\* was synced.
LEMMA PowerLossKeeps ==
  ASSUME TypeOK, AckInv, Faults = {}, PowerLoss
  PROVE  \E k \in durable .. Len(lines) :
           lines' = SubSeq(lines, 1, k) /\ durable' = k
  BY DEF PowerLoss

LEMMA PowerLossStep ==
  ASSUME ChainInv, Faults = {}, PowerLoss
  PROVE  ChainInv'
  <1>1. PICK k \in durable .. Len(lines) :
          lines' = SubSeq(lines, 1, k) /\ durable' = k
    BY PowerLossKeeps DEF ChainInv
  <1>2. lines \in Seq(Line) /\ durable \in Nat /\ durable <= Len(lines)
        /\ k \in 0 .. Len(lines)
    BY <1>1 DEF ChainInv, TypeOK, AckInv
  <1>3. /\ lines' \in Seq(Line) /\ Len(lines') = k
        /\ \A j \in 1 .. k : lines'[j] = lines[j]
    BY <1>1, <1>2
  <1>4. \A i \in 0 .. k : History(lines', i) = History(lines, i)
    BY <1>2, <1>3, HistoryKept
  <1>5. /\ proc' = [n \in Nodes |-> Down] /\ lock' = NoNode
        /\ anchor' \in Anchor /\ UNCHANGED <<segments, acked>>
    BY DropAnchorType DEF PowerLoss, ChainInv, TypeOK
  <1>6. TypeOK'
    BY <1>1, <1>2, <1>3, <1>5, DownType DEF ChainInv, TypeOK
  <1>7. LinesInv'
    BY <1>2, <1>3, <1>4 DEF ChainInv, LinesInv
  <1>8. AckInv'
    BY <1>1, <1>2, <1>3, <1>4, <1>5 DEF ChainInv, AckInv, TypeOK
  <1>9. \A n \in Nodes : ProcInv(n)'
    BY <1>5, DownOk DEF Down, Blank
  <1> QED
    BY <1>6, <1>7, <1>8, <1>9 DEF ChainInv

\* The anchor handler's reads and its signature touch nothing but the anchor.
LEMMA AnchorStep ==
  ASSUME ChainInv, anchor' \in Anchor,
         UNCHANGED <<lines, durable, segments, lock, proc, acked>>
  PROVE  ChainInv'
  BY DEF ChainInv, TypeOK, LinesInv, ProcInv, AckInv, History

LEMMA AnchorReadsStep ==
  ASSUME ChainInv, NEW n \in Nodes,
         AnchorSequence(n) \/ AnchorHash(n) \/ AnchorSign(n)
  PROVE  ChainInv'
  <1>1. proc[n] \in Proc /\ anchor \in Anchor
    BY DEF ChainInv, TypeOK
  <1>2. CASE AnchorSequence(n)
    <2>1. anchor' \in Anchor
      BY <1>1, <1>2 DEF AnchorSequence, Anchor, Proc, Genesis
    <2> QED
      BY <1>2, <2>1, AnchorStep DEF AnchorSequence
  <1>3. CASE AnchorHash(n)
    <2>1. anchor' \in Anchor
      BY <1>1, <1>3 DEF AnchorHash, Anchor, Proc
    <2> QED
      BY <1>3, <2>1, AnchorStep DEF AnchorHash
  <1>4. CASE AnchorSign(n)
    <2>1. anchor' \in Anchor
      BY <1>1, <1>4 DEF AnchorSign, Anchor
    <2> QED
      BY <1>4, <2>1, AnchorStep DEF AnchorSign
  <1> QED
    BY <1>2, <1>3, <1>4

LEMMA AnchorRecordStep ==
  ASSUME ChainInv, NEW n \in Nodes, AnchorRecord(n)
  PROVE  ChainInv'
  <1>1. anchor' \in Anchor
    BY DEF AnchorRecord, Anchor, ChainInv, TypeOK
  <1> QED
    BY <1>1, WriteAllStep, ConstantsAssumption DEF AnchorRecord

-------------------------------------------------------------------------------
LEMMA ChainInvInit == Init => ChainInv
  <1> SUFFICES ASSUME Init PROVE ChainInv
    OBVIOUS
  <1>1. TypeOK
    BY DownType, ConstantsAssumption DEF Init, TypeOK, Anchor, NoAnchor, Genesis
  <1>2. LinesInv
    BY DEF Init, LinesInv
  <1>3. \A n \in Nodes : ProcInv(n)
    BY DEF Init, ProcInv, Down, Blank
  <1>4. AckInv
    BY DEF Init, AckInv, Genesis, History
  <1> QED
    BY <1>1, <1>2, <1>3, <1>4 DEF ChainInv

LEMMA ChainInvNext ==
  ASSUME ChainInv, Faults = {}, [Next]_vars
  PROVE  ChainInv'
  <1>1. ASSUME NEW n \in Nodes, Acquire(n) PROVE ChainInv'
    BY <1>1, AcquireStep
  <1>2. ASSUME NEW n \in Nodes, Resume(n) PROVE ChainInv'
    BY <1>2, ResumeStep
  <1>3. ASSUME NEW n \in Nodes, Create(n) PROVE ChainInv'
    BY <1>3, CreateStep
  <1>4. ASSUME NEW n \in Nodes, OpenFails(n) PROVE ChainInv'
    BY <1>4, NeverUnreadable DEF OpenFails
  <1>5. ASSUME NEW n \in Nodes, NEW e \in Events, BeginAppend(n, e)
        PROVE  ChainInv'
    BY <1>5, WriteAllStep DEF BeginAppend, ChainInv, TypeOK
  <1>6. ASSUME NEW n \in Nodes, Flush(n) PROVE ChainInv'
    BY <1>6, FlushStep
  <1>7. ASSUME NEW n \in Nodes, SyncData(n) PROVE ChainInv'
    BY <1>7, SyncDataStep
  <1>8. ASSUME NEW n \in Nodes, Commit(n) PROVE ChainInv'
    BY <1>8, CommitStep
  <1>9. ASSUME NEW n \in Nodes, Rotate(n) PROVE ChainInv'
    BY <1>9, RotateStep
  <1>10. ASSUME NEW n \in Nodes,
                FlushFails(n) \/ SyncFails(n) \/ RotateFails(n)
         PROVE  ChainInv'
    BY <1>10 DEF FlushFails, SyncFails, RotateFails
  <1>11. ASSUME NEW n \in Nodes, Close(n) PROVE ChainInv'
    BY <1>11, CloseStep
  <1>12. ASSUME NEW n \in Nodes, Crash(n) PROVE ChainInv'
    BY <1>12, CrashStep
  <1>13. ASSUME NEW n \in Nodes,
                AnchorSequence(n) \/ AnchorHash(n) \/ AnchorSign(n)
         PROVE  ChainInv'
    BY <1>13, AnchorReadsStep
  <1>14. ASSUME NEW n \in Nodes, AnchorRecord(n) PROVE ChainInv'
    BY <1>14, AnchorRecordStep
  <1>15. CASE PowerLoss
    BY <1>15, PowerLossStep
  <1>16. CASE UNCHANGED vars
    BY <1>16, AnchorStep DEF vars, ChainInv, TypeOK
  <1> QED
    BY <1>1, <1>2, <1>3, <1>4, <1>5, <1>6, <1>7, <1>8, <1>9, <1>10, <1>11,
       <1>12, <1>13, <1>14, <1>15, <1>16 DEF Next

\* The inductive invariant: while no write fails and no line is torn, the
\* files hold one chain, a process at rest continues from its tail, and what
\* append acknowledged is on the device (log.rs, open and append).
THEOREM ChainInvariant ==
  ASSUME Faults = {}
  PROVE  Spec => []ChainInv
  <1>1. Init => ChainInv
    BY ChainInvInit
  <1>2. ChainInv /\ [Next]_vars => ChainInv'
    BY ChainInvNext
  <1> QED
    BY <1>1, <1>2, PTL DEF Spec

LEMMA VerifiesFromInv == ChainInv => ChainVerifies
  <1> SUFFICES ASSUME ChainInv PROVE VerifyLogChain
    BY DEF ChainVerifies
  <1>1. lines \in Seq(Line) /\ LinesInv
    BY DEF ChainInv, TypeOK
  <1>2. \A n \in DOMAIN lines : EntriesAt(n) = {n}
    BY <1>1 DEF EntriesAt, LinesInv
  <1>3. ASSUME NEW n \in DOMAIN lines
        PROVE  lines[n].hash = Append(PrevHash(n), lines[n].event)
    <2>1. PrevHash(n) = History(lines, n - 1)
      <3>1. CASE n = 1
        BY <3>1 DEF PrevHash, Genesis, History
      <3>2. CASE n # 1
        <4>1. n - 1 \in DOMAIN lines
          BY <1>1, <3>2
        <4>2. (CHOOSE i \in EntriesAt(n - 1) : TRUE) = n - 1
          BY <1>2, <4>1
        <4>3. lines[n - 1].hash = History(lines, n - 1)
          BY <1>1, <4>1 DEF LinesInv
        <4> QED
          BY <3>2, <4>2, <4>3 DEF PrevHash
      <3> QED
        BY <3>1, <3>2
    <2>2. lines[n].hash = History(lines, n)
      BY <1>1 DEF LinesInv
    <2>3. n - 1 \in Nat /\ n - 1 < Len(lines) /\ (n - 1) + 1 = n
      BY <1>1
    <2>4. History(lines, n) = Append(History(lines, n - 1), lines[n].event)
      BY <1>1, <2>3, HistoryGrows
    <2> QED
      BY <2>1, <2>2, <2>4
  <1>4. \A i \in DOMAIN lines : Parses(i)
    BY <1>1 DEF LinesInv, Parses, Glued
  <1> QED
    BY <1>2, <1>3, <1>4 DEF VerifyLogChain

\* A log only Cordon wrote verifies at every instant, for any number of nodes
\* started on it, killed, or losing power, and any rotation size (log.rs,
\* append and find_existing_log_file; verify.rs, verify_log_chain).
THEOREM HonestLogVerifies ==
  ASSUME Faults = {}
  PROVE  Spec => []ChainVerifies
  BY ChainInvariant, VerifiesFromInv, PTL

-------------------------------------------------------------------------------
(* The contract *)

\* The events of a sequence of lines, as the refinement mapping writes them.
EventsOf(L) == [i \in DOMAIN L |-> L[i].event]

LEMMA EventsOfLines ==
  ASSUME NEW L \in Seq(Line)
  PROVE  /\ EventsOf(L) = History(L, Len(L))
         /\ Len(EventsOf(L)) = Len(L)
         /\ EventsOf(L) \in Seq(Events)
  <1>1. EventsOf(L) = History(L, Len(L))
    BY DEF EventsOf, History
  <1> QED
    BY <1>1, HistoryType

\* Cutting the lines cuts the events.
LEMMA EventsOfPrefix ==
  ASSUME NEW L \in Seq(Line), NEW M \in Seq(Line), Len(M) <= Len(L),
         \A j \in 1 .. Len(M) : M[j] = L[j]
  PROVE  SubSeq(EventsOf(L), 1, Len(M)) = EventsOf(M)
  <1>1. EventsOf(L) = History(L, Len(L)) /\ EventsOf(M) = History(M, Len(M))
    BY EventsOfLines
  <1>2. History(M, Len(M)) = History(L, Len(M))
    BY HistoryKept
  <1>3. SubSeq(History(L, Len(L)), 1, Len(M)) = History(L, Len(M))
    <2>1. Len(L) \in 0 .. Len(L) /\ Len(M) \in 0 .. Len(L)
      OBVIOUS
    <2> QED
      BY <2>1, HistoryPrefix
  <1> QED
    BY <1>1, <1>2, <1>3

\* What the files and the acknowledgements do in one step, whoever takes it.
LogStep ==
  \/ UNCHANGED <<lines, acked>>
  \/ /\ \E x : lines' = lines \o <<x>>
     /\ UNCHANGED acked
  \/ /\ acked' = History(lines, Len(lines))
     /\ UNCHANGED lines
  \/ /\ \E k \in durable .. Len(lines) : lines' = SubSeq(lines, 1, k)
     /\ UNCHANGED acked

LEMMA NextIsLogStep ==
  ASSUME ChainInv, Faults = {}, [Next]_vars
  PROVE  LogStep
  <1> USE DEF LogStep
  <1>1. ASSUME NEW n \in Nodes,
               \/ Acquire(n) \/ Resume(n) \/ Create(n) \/ OpenFails(n)
               \/ SyncData(n) \/ Crash(n)
               \/ AnchorSequence(n) \/ AnchorHash(n) \/ AnchorRecord(n)
               \/ AnchorSign(n)
        PROVE  LogStep
    BY <1>1 DEF Acquire, Resume, Create, OpenFails, SyncData, Crash,
                AnchorSequence, AnchorHash, AnchorRecord, AnchorSign
  <1>2. ASSUME NEW n \in Nodes, NEW e \in Events, BeginAppend(n, e)
        PROVE  LogStep
    BY <1>2 DEF BeginAppend
  <1>3. ASSUME NEW n \in Nodes, Flush(n) PROVE LogStep
    BY <1>3 DEF Flush, ChainInv, ProcInv
  <1>4. ASSUME NEW n \in Nodes, Commit(n) PROVE LogStep
    BY <1>4, CommittedHash DEF Commit
  <1>5. ASSUME NEW n \in Nodes, Rotate(n) PROVE LogStep
    BY <1>5 DEF Rotate, ChainInv, ProcInv, TypeOK
  <1>6. ASSUME NEW n \in Nodes, Close(n) PROVE LogStep
    BY <1>6 DEF Close, ChainInv, ProcInv, TypeOK
  <1>7. ASSUME NEW n \in Nodes,
               FlushFails(n) \/ SyncFails(n) \/ RotateFails(n)
        PROVE  LogStep
    BY <1>7 DEF FlushFails, SyncFails, RotateFails
  <1>8. CASE PowerLoss
    <2>1. \E k \in durable .. Len(lines) : lines' = SubSeq(lines, 1, k)
      BY <1>8, PowerLossKeeps DEF ChainInv
    <2>2. UNCHANGED acked
      BY <1>8 DEF PowerLoss
    <2> QED
      BY <2>1, <2>2
  <1>9. CASE UNCHANGED vars
    BY <1>9 DEF vars
  <1> HIDE DEF LogStep
  <1> QED
    BY <1>1, <1>2, <1>3, <1>4, <1>5, <1>6, <1>7, <1>8, <1>9 DEF Next

LEMMA LogStepRefines ==
  ASSUME ChainInv, ChainInv', LogStep
  PROVE  [Contract!Next]_<<EventsOf(lines), Len(acked)>>
  <1>1. /\ lines \in Seq(Line) /\ lines' \in Seq(Line)
        /\ acked \in Seq(Events) /\ acked' \in Seq(Events) /\ durable \in Nat
        /\ Len(acked) <= durable /\ durable <= Len(lines)
    BY DEF ChainInv, TypeOK, AckInv
  <1>2. /\ Len(EventsOf(lines)) = Len(lines)
        /\ Len(EventsOf(lines')) = Len(lines')
        /\ EventsOf(lines) = History(lines, Len(lines))
        /\ Len(History(lines, Len(lines))) = Len(lines)
    BY <1>1, EventsOfLines, HistoryType
  <1>3. CASE UNCHANGED <<lines, acked>>
    BY <1>3
  <1>4. CASE (\E x : lines' = lines \o <<x>>) /\ UNCHANGED acked
    <2>1. PICK x : lines' = lines \o <<x>>
      BY <1>4
    <2>2. /\ Len(lines') = Len(lines) + 1
          /\ \A j \in 1 .. Len(lines) : lines[j] = lines'[j]
      BY <1>1, <2>1
    <2>3. SubSeq(EventsOf(lines'), 1, Len(lines)) = EventsOf(lines)
      BY <1>1, <2>2, EventsOfPrefix
    <2>4. Contract!Extend
      BY <1>1, <1>2, <1>4, <2>2, <2>3 DEF Contract!Extend, EventsOf
    <2> QED
      BY <2>4 DEF Contract!Next
  <1>5. CASE acked' = History(lines, Len(lines)) /\ UNCHANGED lines
    <2>1. Len(acked') = Len(lines)
      BY <1>2, <1>5
    <2>2. Contract!Acknowledge
      BY <1>1, <1>2, <1>5, <2>1 DEF Contract!Acknowledge, EventsOf
    <2> QED
      BY <2>2 DEF Contract!Next
  <1>6. CASE /\ \E k \in durable .. Len(lines) : lines' = SubSeq(lines, 1, k)
             /\ UNCHANGED acked
    <2>1. PICK k \in durable .. Len(lines) : lines' = SubSeq(lines, 1, k)
      BY <1>6
    <2>2. /\ k \in Len(acked) .. Len(lines) /\ Len(lines') = k
          /\ \A j \in 1 .. k : lines'[j] = lines[j]
      BY <1>1, <2>1
    <2>3. EventsOf(lines') = SubSeq(EventsOf(lines), 1, k)
      BY <1>1, <2>2, EventsOfPrefix
    <2>4. Contract!Lose
      BY <1>2, <1>6, <2>2, <2>3 DEF Contract!Lose, EventsOf
    <2> QED
      BY <2>4 DEF Contract!Next
  <1> QED
    BY <1>3, <1>4, <1>5, <1>6 DEF LogStep

\* AuditLog implements AppendOnlyLog: readers see the log grow at its tail,
\* and a failure takes back nothing that was acknowledged (log.rs).
THEOREM LogImplementsContract ==
  ASSUME Faults = {}
  PROVE  Spec => ImplementsContract
  <1>1. Init => Contract!Init
    BY DEF Init, Contract!Init, Genesis
  <1>2. ChainInv /\ ChainInv' /\ [Next]_vars
          => [Contract!Next]_<<EventsOf(lines), Len(acked)>>
    BY NextIsLogStep, LogStepRefines
  <1> QED
    BY <1>1, <1>2, ChainInvariant, PTL
    DEF Spec, ImplementsContract, Contract!Spec, EventsOf

-------------------------------------------------------------------------------
(* Anchors *)

\* A handler in flight runs in a process that is open.  What it has read stays
\* the history of a prefix of the lines; that prefix is on the device once the
\* append of the access record is synced, hence before the signature.
AnchorInv ==
  /\ anchor.pc \in {"sequence", "hash", "recorded"} =>
       /\ anchor.by \in Nodes
       /\ proc[anchor.by].pc \notin {"down", "locked"}
  /\ anchor.pc = "sequence" => anchor.sequence \in 1 .. Len(lines)
  /\ anchor.pc \in {"hash", "recorded", "signed"} =>
       /\ anchor.sequence <= Len(anchor.hash)
       /\ Len(anchor.hash) \in 1 .. Len(lines)
       /\ anchor.hash = History(lines, Len(anchor.hash))
  /\ anchor.pc = "recorded"
       /\ proc[anchor.by].pc \in {"idle", "synced", "rotating"} =>
         Len(anchor.hash) <= durable
  /\ anchor.pc = "signed" => Len(anchor.hash) <= durable

\* What is read of a log that only grows stays true of it.
LEMMA AnchorKept ==
  ASSUME ChainInv, AnchorInv, anchor' = anchor,
         lines' \in Seq(Line), Len(lines) <= Len(lines'),
         \A j \in 1 .. Len(lines) : lines'[j] = lines[j],
         durable' \in Nat, durable <= durable',
         anchor.pc \in {"sequence", "hash", "recorded"} =>
           proc'[anchor.by].pc \notin {"down", "locked"},
         anchor.pc = "recorded"
           /\ proc'[anchor.by].pc \in {"idle", "synced", "rotating"} =>
             \/ proc[anchor.by].pc \in {"idle", "synced", "rotating"}
             \/ durable' = Len(lines)
  PROVE  AnchorInv'
  <1>1. /\ lines \in Seq(Line) /\ durable \in Nat
        /\ anchor.hash \in Seq(Events) /\ anchor.sequence \in Nat
    BY DEF ChainInv, TypeOK, Anchor
  <1>2. Len(anchor.hash) \in Nat
    BY <1>1
  <1>3. anchor.pc \in {"hash", "recorded", "signed"} =>
          /\ Len(anchor.hash) \in 1 .. Len(lines')
          /\ anchor.hash = History(lines', Len(anchor.hash))
    <2> SUFFICES ASSUME anchor.pc \in {"hash", "recorded", "signed"}
                 PROVE  /\ Len(anchor.hash) \in 1 .. Len(lines')
                        /\ anchor.hash = History(lines', Len(anchor.hash))
      OBVIOUS
    <2>1. /\ Len(anchor.hash) \in 1 .. Len(lines)
          /\ anchor.hash = History(lines, Len(anchor.hash))
      BY DEF AnchorInv
    <2>2. \A j \in 1 .. Len(anchor.hash) : lines'[j] = lines[j]
      BY <1>1, <2>1
    <2>3. History(lines', Len(anchor.hash)) = History(lines, Len(anchor.hash))
      BY <1>2, <2>2, HistoryKept
    <2> QED
      BY <1>1, <2>1, <2>3
  <1>4. anchor.pc = "recorded"
          /\ proc'[anchor.by].pc \in {"idle", "synced", "rotating"} =>
            Len(anchor.hash) <= durable'
    BY <1>1, <1>2 DEF AnchorInv
  <1>5. anchor.pc = "signed" => Len(anchor.hash) <= durable'
    BY <1>1, <1>2 DEF AnchorInv
  <1>6. anchor.pc = "sequence" => anchor.sequence \in 1 .. Len(lines')
    BY <1>1 DEF AnchorInv
  <1> QED
    BY <1>3, <1>4, <1>5, <1>6 DEF AnchorInv

\* Signing, and reading the two halves of the head, each at rest.
LEMMA AnchorReadsAnchor ==
  ASSUME ChainInv, AnchorInv, NEW n \in Nodes,
         AnchorSequence(n) \/ AnchorHash(n) \/ AnchorSign(n)
  PROVE  AnchorInv'
  <1>1. /\ lines \in Seq(Line) /\ durable \in Nat
        /\ anchor \in Anchor /\ proc[n] \in Proc
    BY DEF ChainInv, TypeOK
  <1>2. /\ proc[n].pc = "idle" /\ UNCHANGED <<lines, durable, proc>>
    BY DEF AnchorSequence, AnchorHash, AnchorSign
  <1>3. /\ proc[n].sequence = Len(lines)
        /\ proc[n].last_hash = History(lines, Len(lines))
    BY <1>2 DEF ChainInv, ProcInv
  <1>4. Len(History(lines, Len(lines))) = Len(lines)
    BY <1>1, HistoryType
  <1>5. CASE AnchorSequence(n)
    <2>1. /\ anchor'.pc = "sequence" /\ anchor'.by = n
          /\ anchor'.sequence = proc[n].sequence /\ proc[n].sequence > 0
      BY <1>5 DEF AnchorSequence
    <2> QED
      BY <1>1, <1>2, <1>3, <2>1 DEF AnchorInv
  <1>6. CASE AnchorHash(n)
    <2>1. /\ anchor'.pc = "hash" /\ anchor'.by = n
          /\ anchor'.sequence = anchor.sequence
          /\ anchor'.hash = proc[n].last_hash
          /\ anchor.pc = "sequence"
      BY <1>1, <1>6 DEF AnchorHash, Anchor
    <2>2. /\ anchor.sequence \in 1 .. Len(lines)
      BY <2>1 DEF AnchorInv
    <2> QED
      BY <1>1, <1>2, <1>3, <1>4, <2>1, <2>2 DEF AnchorInv
  <1>7. CASE AnchorSign(n)
    <2>1. /\ anchor'.pc = "signed" /\ anchor'.sequence = anchor.sequence
          /\ anchor'.hash = anchor.hash
          /\ anchor.pc = "recorded" /\ anchor.by = n
      BY <1>1, <1>7 DEF AnchorSign, Anchor
    <2> QED
      BY <1>2, <2>1 DEF AnchorInv
  <1> QED
    BY <1>5, <1>6, <1>7

\* A handler's anchor goes with its process, unless it is signed.
LEMMA AnchorDropped ==
  ASSUME ChainInv, AnchorInv, ChainInv', NEW N, DropAnchor(N),
         Len(lines') >= durable, \A j \in 1 .. durable : lines'[j] = lines[j],
         durable' >= durable,
         anchor.pc \in {"sequence", "hash", "recorded"} /\ anchor.by \notin N =>
           /\ Len(lines') >= Len(lines)
           /\ \A j \in 1 .. Len(lines) : lines'[j] = lines[j]
           /\ proc'[anchor.by] = proc[anchor.by]
  PROVE  AnchorInv'
  <1>1. /\ lines \in Seq(Line) /\ durable \in Nat /\ lines' \in Seq(Line)
        /\ durable' \in Nat
        /\ anchor.hash \in Seq(Events) /\ anchor.sequence \in Nat
    BY DEF ChainInv, TypeOK, Anchor
  <1>2. CASE anchor.pc = "signed"
    <2>1. anchor' = anchor
      BY <1>2 DEF DropAnchor
    <2>2. /\ Len(anchor.hash) \in 1 .. durable
          /\ anchor.hash = History(lines, Len(anchor.hash))
          /\ anchor.sequence <= Len(anchor.hash)
      BY <1>1, <1>2 DEF AnchorInv
    <2>3. History(lines', Len(anchor.hash)) = History(lines, Len(anchor.hash))
      <3>1. Len(anchor.hash) \in Nat
        BY <1>1
      <3>2. \A j \in 1 .. Len(anchor.hash) : lines'[j] = lines[j]
        BY <1>1, <2>2
      <3> QED
        BY <3>1, <3>2, HistoryKept
    <2>4. /\ Len(anchor.hash) \in 1 .. Len(lines')
          /\ Len(anchor.hash) <= durable'
      BY <1>1, <2>2
    <2> QED
      BY <1>2, <2>1, <2>2, <2>3, <2>4 DEF AnchorInv
  <1>3. CASE anchor.pc # "signed" /\ anchor.by \in N
    <2>1. anchor'.pc = "idle"
      BY <1>3 DEF DropAnchor, NoAnchor
    <2> QED
      BY <2>1 DEF AnchorInv
  <1>4. CASE /\ anchor.pc \in {"sequence", "hash", "recorded"}
             /\ anchor.by \notin N
    <2>1. anchor' = anchor
      BY <1>4 DEF DropAnchor
    <2> QED
      BY <1>1, <1>4, <2>1, AnchorKept DEF AnchorInv
  <1>5. CASE anchor.pc = "idle"
    BY <1>5 DEF DropAnchor, NoAnchor, AnchorInv
  <1> QED
    BY <1>2, <1>3, <1>4, <1>5 DEF ChainInv, TypeOK, Anchor

\* The anchor handler, interleaved with appends, rotations, restarts and
\* crashes of any node.
LEMMA AnchorInvNext ==
  ASSUME ChainInv, ChainInv', AnchorInv, Faults = {}, [Next]_vars
  PROVE  AnchorInv'
  <1>1. /\ lines \in Seq(Line) /\ durable \in Nat /\ lines' \in Seq(Line)
        /\ durable' \in Nat /\ proc \in [Nodes -> Proc]
        /\ durable <= Len(lines) /\ anchor \in Anchor
    BY DEF ChainInv, TypeOK, AckInv
  <1>2. ASSUME NEW n \in Nodes, Acquire(n) \/ Resume(n) \/ Create(n)
        PROVE  AnchorInv'
    <2>1. /\ UNCHANGED <<lines, durable, anchor>>
          /\ proc[n].pc \in {"down", "locked"}
          /\ \E q : proc' = [proc EXCEPT ![n] = q]
      BY <1>2 DEF Acquire, Resume, Create
    <2>2. anchor.pc \in {"sequence", "hash", "recorded"} =>
            proc'[anchor.by] = proc[anchor.by]
      BY <1>1, <2>1 DEF AnchorInv
    <2> QED
      BY <1>1, <2>1, <2>2, AnchorKept DEF AnchorInv
  <1>3. ASSUME NEW n \in Nodes, OpenFails(n)
        PROVE  AnchorInv'
    BY <1>3, NeverUnreadable DEF OpenFails
  <1>4. ASSUME NEW n \in Nodes, NEW e \in Events, BeginAppend(n, e)
        PROVE  AnchorInv'
    <2>1. /\ UNCHANGED <<lines, durable, anchor>>
          /\ proc'[n].pc = "buffered"
          /\ \A m \in Nodes \ {n} : proc'[m] = proc[m]
      BY <1>1, <1>4 DEF BeginAppend, WriteAll, Proc
    <2> QED
      BY <1>1, <2>1, AnchorKept DEF AnchorInv
  <1>5. ASSUME NEW n \in Nodes, Flush(n)
        PROVE  AnchorInv'
    <2>1. /\ UNCHANGED <<durable, anchor>> /\ lines' = lines \o proc[n].buf
          /\ proc'[n].pc = "flushed"
          /\ \A m \in Nodes \ {n} : proc'[m] = proc[m]
      BY <1>1, <1>5 DEF Flush, Proc
    <2>2. proc[n].buf \in Seq(Line)
      BY <1>1 DEF Proc
    <2>3. /\ Len(lines) <= Len(lines')
          /\ \A j \in 1 .. Len(lines) : lines'[j] = lines[j]
      BY <1>1, <2>1, <2>2
    <2>4. anchor.pc \in {"sequence", "hash", "recorded"} =>
            /\ proc'[anchor.by].pc \notin {"down", "locked"}
            /\ proc'[anchor.by].pc \in {"idle", "synced", "rotating"} =>
                 proc[anchor.by].pc \in {"idle", "synced", "rotating"}
      BY <2>1 DEF AnchorInv
    <2> QED
      BY <1>1, <2>1, <2>3, <2>4, AnchorKept
  <1>6. ASSUME NEW n \in Nodes, SyncData(n)
        PROVE  AnchorInv'
    <2>1. /\ UNCHANGED <<lines, anchor>> /\ durable' = Len(lines)
          /\ proc'[n].pc = "synced"
          /\ \A m \in Nodes \ {n} : proc'[m] = proc[m]
      BY <1>1, <1>6 DEF SyncData, Proc
    <2> QED
      BY <1>1, <2>1, AnchorKept DEF AnchorInv
  <1>7. ASSUME NEW n \in Nodes, Commit(n)
        PROVE  AnchorInv'
    <2>1. /\ UNCHANGED <<lines, durable, anchor>> /\ proc[n].pc = "synced"
          /\ proc'[n].pc \in {"rotating", "idle"}
          /\ \A m \in Nodes \ {n} : proc'[m] = proc[m]
      BY <1>1, <1>7 DEF Commit, Proc
    <2> QED
      BY <1>1, <2>1, AnchorKept DEF AnchorInv
  <1>8. ASSUME NEW n \in Nodes, Rotate(n)
        PROVE  AnchorInv'
    <2>1. /\ UNCHANGED <<durable, anchor>> /\ proc[n].pc = "rotating"
          /\ lines' = lines \o proc[n].buf
          /\ proc'[n].pc = "idle"
          /\ \A m \in Nodes \ {n} : proc'[m] = proc[m]
      BY <1>1, <1>8 DEF Rotate, Proc
    <2>2. proc[n].buf \in Seq(Line)
      BY <1>1 DEF Proc
    <2>3. /\ Len(lines) <= Len(lines')
          /\ \A j \in 1 .. Len(lines) : lines'[j] = lines[j]
      BY <1>1, <2>1, <2>2
    <2> QED
      BY <1>1, <2>1, <2>3, AnchorKept DEF AnchorInv
  <1>9. ASSUME NEW n \in Nodes,
               FlushFails(n) \/ SyncFails(n) \/ RotateFails(n)
        PROVE  AnchorInv'
    BY <1>9 DEF FlushFails, SyncFails, RotateFails
  <1>10. ASSUME NEW n \in Nodes, Close(n) \/ Crash(n)
         PROVE  AnchorInv'
    <2>1. /\ durable' = durable /\ DropAnchor({n})
          /\ proc' = [proc EXCEPT ![n] = Down]
          /\ lines' = lines \/ lines' = lines \o proc[n].buf
      BY <1>10 DEF Close, Crash
    <2>2. proc[n].buf \in Seq(Line)
      BY <1>1 DEF Proc
    <2>3. /\ Len(lines) <= Len(lines')
          /\ \A j \in 1 .. Len(lines) : lines'[j] = lines[j]
      BY <1>1, <2>1, <2>2
    <2>4. \A j \in 1 .. durable : lines'[j] = lines[j]
      BY <1>1, <2>3
    <2>5. Len(lines') >= durable /\ durable' >= durable
      BY <1>1, <2>1, <2>3
    <2>6. anchor.by \notin {n} =>
            /\ Len(lines') >= Len(lines)
            /\ proc'[anchor.by] = proc[anchor.by]
      BY <1>1, <2>1, <2>3
    <2> QED
      BY <2>1, <2>3, <2>4, <2>5, <2>6, AnchorDropped
  <1>11. ASSUME NEW n \in Nodes,
                AnchorSequence(n) \/ AnchorHash(n) \/ AnchorSign(n)
         PROVE  AnchorInv'
    BY <1>11, AnchorReadsAnchor
  <1>12. ASSUME NEW n \in Nodes, AnchorRecord(n)
         PROVE  AnchorInv'
    <2>1. /\ anchor'.pc = "recorded" /\ anchor'.by = n
          /\ anchor'.sequence = anchor.sequence /\ anchor'.hash = anchor.hash
          /\ anchor.pc = "hash" /\ anchor.by = n
      BY <1>1, <1>12 DEF AnchorRecord, Anchor
    <2>2. UNCHANGED <<lines, durable>> /\ proc'[n].pc = "buffered"
      BY <1>1, <1>12 DEF AnchorRecord, WriteAll, Proc
    <2> QED
      BY <2>1, <2>2 DEF AnchorInv
  <1>13. CASE PowerLoss
    <2>1. PICK k \in durable .. Len(lines) :
            lines' = SubSeq(lines, 1, k) /\ durable' = k
      BY <1>13 DEF PowerLoss
    <2>2. DropAnchor(Nodes)
      BY <1>13 DEF PowerLoss
    <2>3. Len(lines') = k /\ \A j \in 1 .. k : lines'[j] = lines[j]
      BY <1>1, <2>1
    <2>4. /\ Len(lines') >= durable /\ durable' >= durable
          /\ \A j \in 1 .. durable : lines'[j] = lines[j]
      BY <1>1, <2>1, <2>3
    <2>5. ~(anchor.pc \in {"sequence", "hash", "recorded"}
              /\ anchor.by \notin Nodes)
      BY DEF AnchorInv
    <2> QED
      BY <2>2, <2>4, <2>5, AnchorDropped
  <1>14. CASE UNCHANGED vars
    BY <1>1, <1>14, AnchorKept DEF vars, AnchorInv
  <1> QED
    BY <1>2, <1>3, <1>4, <1>5, <1>6, <1>7, <1>8, <1>9, <1>10, <1>11, <1>12,
       <1>13, <1>14 DEF Next

\* A signed anchor is of a head that is in the log and stays there, though the
\* handler reads sequence and hash apart and appends in between, and whoever
\* crashes afterwards (handlers.rs, audit_anchor).
THEOREM SignedAnchorsHold ==
  ASSUME Faults = {}
  PROVE  Spec => []AnchorHolds
  <1>1. Init => AnchorInv
    BY DEF Init, AnchorInv, NoAnchor
  <1>2. ChainInv /\ ChainInv' /\ AnchorInv /\ [Next]_vars => AnchorInv'
    BY AnchorInvNext
  <1>3. ChainInv /\ AnchorInv => AnchorHolds
    <2> SUFFICES ASSUME ChainInv, AnchorInv, anchor.pc = "signed"
                 PROVE  /\ anchor.sequence <= Len(anchor.hash)
                        /\ \E i \in DOMAIN lines :
                             Parses(i) /\ lines[i].hash = anchor.hash
      BY DEF AnchorHolds
    <2>1. /\ anchor.sequence <= Len(anchor.hash)
          /\ Len(anchor.hash) \in 1 .. Len(lines)
          /\ anchor.hash = History(lines, Len(anchor.hash))
      BY DEF AnchorInv
    <2>2. Len(anchor.hash) \in DOMAIN lines
      BY <2>1 DEF ChainInv, TypeOK
    <2>3. Parses(Len(anchor.hash))
      BY <2>2 DEF ChainInv, LinesInv, Parses, Glued
    <2> QED
      BY <2>1, <2>2, <2>3 DEF ChainInv, LinesInv
  <1> QED
    BY <1>1, <1>2, <1>3, ChainInvariant, PTL DEF Spec

-------------------------------------------------------------------------------
(* Under failing writes and torn lines *)

\* The files L of a log with sg segments, d lines of which are on the device:
\* only the last line can be torn; segments and sequences do not go back, and
\* a later segment starts past every sequence before it; every history that a
\* line commits to is in the lines up to it.  Sequences may repeat.
DirOk(L, d, sg) ==
  /\ d <= Len(L)
  /\ \A i, j \in DOMAIN L : i < j =>
       /\ L[i].whole
       /\ L[i].seg <= L[j].seg /\ L[i].sequence <= L[j].sequence
       /\ L[i].seg < L[j].seg => L[i].sequence < L[j].sequence
  /\ \A i \in DOMAIN L :
       /\ L[i].seg <= sg
       /\ \A k \in 1 .. Len(L[i].hash) :
            \E j \in 1 .. i : L[j].hash = SubSeq(L[i].hash, 1, k)

\* B holds entries that p may still write: all of them right after its tail.
Entries(B, p) ==
  B \in Seq(Line) /\ \A b \in DOMAIN B : B[b] = EntryOf(p, B[b].event)

\* A process that has the log open: its tail is in the files, with what was
\* acknowledged behind it; no line is more than one entry ahead of it, and
\* those that are, are in its segment.
OpenOk(p, L, sg, a) ==
  /\ p.file <= sg
  /\ \A i \in DOMAIN L :
       /\ L[i].whole
       /\ L[i].seg <= p.file /\ L[i].sequence <= p.sequence + 1
       /\ L[i].seg < p.file => L[i].sequence <= p.sequence
  /\ \/ p.last_hash = Genesis
     \/ \E i \in DOMAIN L : L[i].hash = p.last_hash
  /\ IsExtension(a, p.last_hash)

\* How far append has come.
StageOk(p, L, d) ==
  /\ p.pc = "buffered" => p.buf # << >> /\ p.buf[Len(p.buf)].event = p.event
  /\ p.pc \in {"flushed", "synced", "rotating"} =>
       p.buf = << >> /\ L # << >> /\ L[Len(L)].ended
  /\ p.pc \in {"flushed", "synced"} =>
       L[Len(L)].hash = Append(p.last_hash, p.event)
  /\ p.pc \in {"synced", "rotating"} => d = Len(L)
  /\ p.pc = "rotating" =>
       /\ L[Len(L)].hash = p.last_hash
       /\ \A i \in DOMAIN L : L[i].sequence <= p.sequence

\* The process n with the record p, when the lock is l.
WriterOk(n, p, L, d, sg, l, a) ==
  /\ p.pc # "down" => l = n
  /\ p.pc \in {"down", "locked"} => Blank(p)
  /\ p.pc \notin {"down", "locked"} => OpenOk(p, L, sg, a) /\ Entries(p.buf, p)
  /\ StageOk(p, L, d)

\* What was acknowledged is a whole line on the device, newline included, and
\* every line after it continues its history.
AckedOk(a, L, d) ==
  a # Genesis =>
    \E i \in 1 .. d :
      /\ L[i].whole /\ L[i].ended /\ L[i].hash = a
      /\ \A j \in i .. Len(L) : IsExtension(a, L[j].hash)

FaultInv ==
  /\ TypeOK
  /\ DirOk(lines, durable, segments)
  /\ AckedOk(acked, lines, durable)
  /\ \A n \in Nodes :
       WriterOk(n, proc[n], lines, durable, segments, lock, acked)

-------------------------------------------------------------------------------
(* Histories and lines *)

LEMMA ExtensionFacts ==
  ASSUME NEW s \in Seq(Events), NEW t \in Seq(Events)
  PROVE  /\ IsExtension(s, s) /\ IsExtension(Genesis, t)
         /\ \A e \in Events : IsExtension(s, t) => IsExtension(s, Append(t, e))
<1>1. IsExtension(s, s)
  BY DEF IsExtension
<1>2. IsExtension(Genesis, t)
  BY DEF IsExtension, Genesis
<1>3. ASSUME NEW e \in Events, IsExtension(s, t)
      PROVE  IsExtension(s, Append(t, e))
  <2>1. /\ Len(s) \in Nat /\ Len(t) \in Nat /\ Len(s) <= Len(t)
        /\ SubSeq(t, 1, Len(s)) = s
    BY <1>3 DEF IsExtension
  <2>2. SubSeq(Append(t, e), 1, Len(s)) = SubSeq(t, 1, Len(s))
    BY <2>1
  <2>3. Len(Append(t, e)) = Len(t) + 1
    OBVIOUS
  <2> QED
    BY <2>1, <2>2, <2>3 DEF IsExtension
<1> QED
  BY <1>1, <1>2, <1>3

\* The histories an entry commits to: those of the tail, and its own.
LEMMA PrefixOfEntry ==
  ASSUME NEW h \in Seq(Events), NEW e \in Events,
         NEW k \in 1 .. Len(Append(h, e))
  PROVE  \/ k \in 1 .. Len(h) /\ SubSeq(Append(h, e), 1, k) = SubSeq(h, 1, k)
         \/ SubSeq(Append(h, e), 1, k) = Append(h, e)
<1>1. Len(Append(h, e)) = Len(h) + 1 /\ Len(h) \in Nat
  OBVIOUS
<1>2. CASE k = Len(h) + 1
  BY <1>1, <1>2
<1>3. CASE k \in 1 .. Len(h)
  BY <1>1, <1>3
<1> QED
  BY <1>1, <1>2, <1>3

\* What an entry is.
LEMMA EntryParts ==
  ASSUME NEW p \in Proc, NEW e \in Events
  PROVE  /\ EntryOf(p, e) \in Line /\ EntryOf(p, e).seg = p.file
         /\ EntryOf(p, e).sequence = p.sequence + 1
         /\ EntryOf(p, e).hash = Append(p.last_hash, e)
         /\ EntryOf(p, e).whole /\ EntryOf(p, e).event = e
BY DEF EntryOf, Proc, Line

\* The lines L with the entries B behind them.
LEMMA Concatenated ==
  ASSUME NEW L \in Seq(Line), NEW p \in Proc, NEW B, Entries(B, p)
  PROVE  /\ L \o B \in Seq(Line) /\ Len(L \o B) = Len(L) + Len(B)
         /\ Len(L) \in Nat /\ Len(B) \in Nat
         /\ DOMAIN L = 1 .. Len(L) /\ DOMAIN (L \o B) = 1 .. Len(L) + Len(B)
         /\ \A i \in 1 .. Len(L) : (L \o B)[i] = L[i]
         /\ \A i \in Len(L) + 1 .. Len(L) + Len(B) :
              /\ (L \o B)[i].seg = p.file
              /\ (L \o B)[i].sequence = p.sequence + 1
              /\ (L \o B)[i].event \in Events /\ (L \o B)[i].whole
              /\ (L \o B)[i].hash = Append(p.last_hash, (L \o B)[i].event)
<1>1. B \in Seq(Line) /\ \A b \in DOMAIN B : B[b] = EntryOf(p, B[b].event)
  BY DEF Entries
<1>2. /\ L \o B \in Seq(Line) /\ Len(L \o B) = Len(L) + Len(B)
      /\ Len(L) \in Nat /\ Len(B) \in Nat
      /\ DOMAIN L = 1 .. Len(L) /\ DOMAIN (L \o B) = 1 .. Len(L) + Len(B)
      /\ \A i \in 1 .. Len(L) : (L \o B)[i] = L[i]
  BY <1>1
<1>3. ASSUME NEW i \in Len(L) + 1 .. Len(L) + Len(B)
      PROVE  /\ (L \o B)[i].seg = p.file
             /\ (L \o B)[i].sequence = p.sequence + 1
             /\ (L \o B)[i].event \in Events /\ (L \o B)[i].whole
             /\ (L \o B)[i].hash = Append(p.last_hash, (L \o B)[i].event)
  <2>1. (L \o B)[i] = B[i - Len(L)] /\ i - Len(L) \in DOMAIN B
    BY <1>1, <1>2
  <2>2. PICK b \in DOMAIN B : b = i - Len(L)
    BY <2>1
  <2>3. B[b] \in Line /\ B[b] = EntryOf(p, B[b].event)
    BY <1>1
  <2>4. B[b].event \in Events
    BY <2>3 DEF Line
  <2>5. /\ B[b].seg = p.file /\ B[b].sequence = p.sequence + 1
        /\ B[b].whole /\ B[b].hash = Append(p.last_hash, B[b].event)
    BY <2>3, <2>4, EntryParts
  <2> QED
    BY <2>1, <2>2, <2>4, <2>5
<1> QED
  BY <1>2, <1>3

\* What a line holds.
LEMMA LineParts ==
  ASSUME NEW L \in Seq(Line)
  PROVE  /\ Len(L) \in Nat /\ DOMAIN L = 1 .. Len(L)
         /\ \A i \in 1 .. Len(L) :
              /\ L[i].seg \in Nat /\ L[i].sequence \in Nat
              /\ L[i].hash \in Seq(Events) /\ Len(L[i].hash) \in Nat
              /\ L[i].event \in Events
<1>1. Len(L) \in Nat /\ DOMAIN L = 1 .. Len(L) /\ \A i \in 1 .. Len(L) : L[i] \in Line
  OBVIOUS
<1> QED
  BY <1>1 DEF Line

\* Entries of a process that has the log open keep everything in place,
\* whether their append succeeds or not.
LEMMA LinesGrow ==
  ASSUME NEW L \in Seq(Line), NEW d \in Nat, NEW sg \in Nat,
         NEW a \in Seq(Events), NEW p \in Proc, NEW B, Entries(B, p),
         DirOk(L, d, sg), OpenOk(p, L, sg, a), AckedOk(a, L, d)
  PROVE  /\ L \o B \in Seq(Line) /\ DirOk(L \o B, d, sg)
         /\ OpenOk(p, L \o B, sg, a) /\ AckedOk(a, L \o B, d)
<1> DEFINE N == Len(L)
           M == Len(L) + Len(B)
           K == L \o B
<1>1. /\ K \in Seq(Line) /\ Len(K) = M /\ N \in Nat /\ Len(B) \in Nat
      /\ DOMAIN L = 1 .. N /\ DOMAIN K = 1 .. M
      /\ \A i \in 1 .. N : K[i] = L[i]
      /\ \A i \in N + 1 .. M :
           /\ K[i].seg = p.file /\ K[i].sequence = p.sequence + 1
           /\ K[i].event \in Events /\ K[i].whole
           /\ K[i].hash = Append(p.last_hash, K[i].event)
  BY Concatenated
<1>2. /\ p.file \in Nat /\ p.sequence \in Nat /\ p.last_hash \in Seq(Events)
  BY DEF Proc
<1>3. \A i \in 1 .. N : /\ L[i].seg \in Nat /\ L[i].sequence \in Nat
                        /\ L[i].hash \in Seq(Events)
  BY LineParts
<1>4. /\ p.file <= sg
      /\ \A i \in 1 .. N :
           /\ L[i].whole
           /\ L[i].seg <= p.file /\ L[i].sequence <= p.sequence + 1
           /\ L[i].seg < p.file => L[i].sequence <= p.sequence
      /\ p.last_hash = Genesis \/ \E i \in 1 .. N : L[i].hash = p.last_hash
      /\ IsExtension(a, p.last_hash)
  BY <1>1 DEF OpenOk
<1>5. /\ d <= N
      /\ \A i, j \in 1 .. N : i < j =>
           /\ L[i].seg <= L[j].seg /\ L[i].sequence <= L[j].sequence
           /\ L[i].seg < L[j].seg => L[i].sequence < L[j].sequence
      /\ \A i \in 1 .. N :
           /\ L[i].seg <= sg
           /\ \A k \in 1 .. Len(L[i].hash) :
                \E j \in 1 .. i : L[j].hash = SubSeq(L[i].hash, 1, k)
  BY <1>1 DEF DirOk
<1> HIDE DEF N, M, K
<1>6. M \in Nat /\ N \in Nat /\ N <= M
      /\ \A i \in 1 .. M : i \in 1 .. N \/ i \in N + 1 .. M
  BY <1>1 DEF N, M
<1>7. \A i \in 1 .. M : K[i].whole /\ K[i].seg <= p.file /\ K[i].seg <= sg
                        /\ K[i].sequence <= p.sequence + 1
                        /\ (K[i].seg < p.file => K[i].sequence <= p.sequence)
  <2> SUFFICES ASSUME NEW i \in 1 .. M
               PROVE  K[i].whole /\ K[i].seg <= p.file /\ K[i].seg <= sg
                        /\ K[i].sequence <= p.sequence + 1
                        /\ (K[i].seg < p.file => K[i].sequence <= p.sequence)
    OBVIOUS
  <2>1. CASE i \in 1 .. N
    BY <1>1, <1>4, <1>5, <2>1
  <2>2. CASE i \in N + 1 .. M
    BY <1>1, <1>2, <1>4, <2>2
  <2> QED
    BY <1>6, <2>1, <2>2
<1>8. ASSUME NEW i \in 1 .. M, NEW j \in 1 .. M, i < j
      PROVE  /\ K[i].seg <= K[j].seg /\ K[i].sequence <= K[j].sequence
             /\ K[i].seg < K[j].seg => K[i].sequence < K[j].sequence
  <2>1. CASE j \in 1 .. N
    <3>1. i \in 1 .. N
      BY <1>6, <1>8, <2>1
    <3> QED
      BY <1>1, <1>5, <1>8, <2>1, <3>1
  <2>2. CASE j \in N + 1 .. M
    <3>1. K[j].seg = p.file /\ K[j].sequence = p.sequence + 1
      BY <1>1, <2>2
    <3>2. K[i].seg \in Nat /\ K[i].sequence \in Nat
      <4>1. CASE i \in 1 .. N
        BY <1>1, <1>3, <4>1
      <4>2. CASE i \in N + 1 .. M
        BY <1>1, <1>2, <4>2
      <4> QED
        BY <1>6, <4>1, <4>2
    <3> QED
      BY <1>2, <1>7, <3>1, <3>2
  <2> QED
    BY <1>6, <2>1, <2>2
<1>9. ASSUME NEW i \in 1 .. M, NEW k \in 1 .. Len(K[i].hash)
      PROVE  \E j \in 1 .. i : K[j].hash = SubSeq(K[i].hash, 1, k)
  <2>1. CASE i \in 1 .. N
    <3>1. PICK j \in 1 .. i : L[j].hash = SubSeq(L[i].hash, 1, k)
      BY <1>1, <1>5, <1>9, <2>1
    <3>2. j \in 1 .. N
      BY <1>6, <2>1
    <3> QED
      BY <1>1, <2>1, <3>1, <3>2
  <2>2. CASE i \in N + 1 .. M
    <3>1. PICK e \in Events : K[i].hash = Append(p.last_hash, e)
      BY <1>1, <2>2
    <3>2. k \in 1 .. Len(Append(p.last_hash, e))
      BY <3>1
    <3>3. CASE SubSeq(Append(p.last_hash, e), 1, k) = Append(p.last_hash, e)
      <4>1. i \in 1 .. i
        BY <1>6
      <4> QED
        BY <3>1, <3>3, <4>1
    <3>4. CASE /\ k \in 1 .. Len(p.last_hash)
               /\ SubSeq(Append(p.last_hash, e), 1, k)
                    = SubSeq(p.last_hash, 1, k)
      <4>1. p.last_hash # Genesis
        BY <1>2, <3>4 DEF Genesis
      <4>2. PICK x \in 1 .. N : L[x].hash = p.last_hash
        BY <1>4, <4>1
      <4>3. PICK j \in 1 .. x : L[j].hash = SubSeq(p.last_hash, 1, k)
        BY <1>5, <3>4, <4>2
      <4>4. j \in 1 .. N /\ j \in 1 .. i
        BY <1>1, <1>6, <2>2
      <4> QED
        BY <1>1, <3>1, <3>4, <4>3, <4>4
    <3> QED
      BY <1>2, <3>2, <3>3, <3>4, PrefixOfEntry
  <2> QED
    BY <1>6, <2>1, <2>2
<1>10. DirOk(K, d, sg)
  <2>1. d <= Len(K)
    BY <1>1, <1>5, <1>6
  <2> QED
    BY <1>1, <1>7, <1>8, <1>9, <2>1 DEF DirOk
<1>11. OpenOk(p, K, sg, a)
  <2>1. p.last_hash = Genesis \/ \E i \in 1 .. M : K[i].hash = p.last_hash
    <3>1. \A i \in 1 .. N : i \in 1 .. M /\ K[i].hash = L[i].hash
      BY <1>1, <1>6
    <3> QED
      BY <1>4, <3>1
  <2> QED
    BY <1>1, <1>4, <1>7, <2>1 DEF OpenOk
<1>12. AckedOk(a, K, d)
  <2> SUFFICES ASSUME a # Genesis
               PROVE  \E i \in 1 .. d :
                        /\ K[i].whole /\ K[i].ended /\ K[i].hash = a
                        /\ \A j \in i .. Len(K) : IsExtension(a, K[j].hash)
    BY DEF AckedOk
  <2>1. PICK i \in 1 .. d : /\ L[i].whole /\ L[i].ended /\ L[i].hash = a
                            /\ \A j \in i .. N : IsExtension(a, L[j].hash)
    BY DEF AckedOk, N
  <2>2. i \in 1 .. N
    BY <1>5, <1>6, d \in Nat
  <2>3. ASSUME NEW j \in i .. M
        PROVE  IsExtension(a, K[j].hash)
    <3>1. CASE j \in 1 .. N
      BY <1>1, <2>1, <2>3, <3>1
    <3>2. CASE j \in N + 1 .. M
      BY <1>1, <1>2, <1>4, <3>2, ExtensionFacts
    <3>3. j \in 1 .. M
      BY <1>6, <2>2
    <3> QED
      BY <1>6, <3>1, <3>2, <3>3
  <2> QED
    BY <1>1, <2>1, <2>2, <2>3
<1> QED
  BY <1>1, <1>10, <1>11, <1>12 DEF K

LEMMA DownWriter ==
  ASSUME NEW n, NEW p, p.pc = "down", Blank(p),
         NEW L, NEW d, NEW sg, NEW l, NEW a
  PROVE  WriterOk(n, p, L, d, sg, l, a)
BY DEF WriterOk, StageOk

\* The history of a process depends on these fields alone.
LEMMA SameTail ==
  ASSUME NEW p \in Proc, NEW q \in Proc,
         p.file = q.file, p.sequence = q.sequence, p.last_hash = q.last_hash,
         NEW L, NEW sg, NEW a, NEW B
  PROVE  /\ OpenOk(p, L, sg, a) => OpenOk(q, L, sg, a)
         /\ Entries(B, p) => Entries(B, q)
BY DEF OpenOk, Entries, EntryOf

\* A step of one process: the others are down, and stay so.
LEMMA FaultMover ==
  ASSUME FaultInv, NEW n \in Nodes, NEW q \in Proc,
         proc' = [proc EXCEPT ![n] = q],
         proc[n].pc # "down" \/ lock = NoNode,
         lines' \in Seq(Line), durable' \in Nat, segments' \in Nat,
         lock' \in Nodes \cup {NoNode}, acked' \in Seq(Events),
         anchor' \in Anchor,
         DirOk(lines', durable', segments'), AckedOk(acked', lines', durable'),
         WriterOk(n, q, lines', durable', segments', lock', acked')
  PROVE  FaultInv'
<1>1. proc \in [Nodes -> Proc]
  BY DEF FaultInv, TypeOK
<1>2. TypeOK'
  BY <1>1, ProcUpdate DEF TypeOK
<1>3. ASSUME NEW m \in Nodes
      PROVE  WriterOk(m, proc'[m], lines', durable', segments', lock', acked')
  <2>1. CASE m = n
    BY <1>1, <2>1
  <2>2. CASE m # n
    <3>1. proc'[m] = proc[m]
      BY <1>1, <2>2
    <3>2. /\ WriterOk(m, proc[m], lines, durable, segments, lock, acked)
          /\ WriterOk(n, proc[n], lines, durable, segments, lock, acked)
      BY DEF FaultInv
    <3>3. lock = NoNode \/ lock = n
      BY <3>2 DEF WriterOk
    <3>4. lock # m
      BY <2>2, <3>3, ConstantsAssumption
    <3>5. proc[m].pc = "down" /\ Blank(proc[m])
      BY <3>2, <3>4 DEF WriterOk
    <3> QED
      BY <3>1, <3>5, DownWriter
  <2> QED
    BY <2>1, <2>2
<1> QED
  BY <1>2, <1>3 DEF FaultInv

\* A step that changes the state in memory only.
LEMMA FaultQuiet ==
  ASSUME FaultInv, NEW n \in Nodes, NEW q \in Proc,
         proc' = [proc EXCEPT ![n] = q], proc[n].pc # "down",
         UNCHANGED <<lines, durable, segments, lock, acked>>,
         anchor' \in Anchor,
         WriterOk(n, q, lines, durable, segments, lock, acked)
  PROVE  FaultInv'
<1>1. /\ lines' = lines /\ durable' = durable /\ segments' = segments
      /\ lock' = lock /\ acked' = acked
  OBVIOUS
<1>2. /\ lines' \in Seq(Line) /\ durable' \in Nat /\ segments' \in Nat
      /\ lock' \in Nodes \cup {NoNode} /\ acked' \in Seq(Events)
  BY <1>1 DEF FaultInv, TypeOK
<1>3. /\ DirOk(lines', durable', segments')
      /\ AckedOk(acked', lines', durable')
      /\ WriterOk(n, q, lines', durable', segments', lock', acked')
  BY <1>1 DEF FaultInv
<1> QED
  BY <1>2, <1>3, FaultMover

\* The AuditLog value is gone, with the files in order.
LEMMA FaultDown ==
  ASSUME FaultInv, NEW n \in Nodes, proc' = [proc EXCEPT ![n] = Down],
         proc[n].pc # "down", lock' \in Nodes \cup {NoNode},
         UNCHANGED <<durable, segments, acked>>, anchor' \in Anchor,
         lines' \in Seq(Line), DirOk(lines', durable, segments),
         AckedOk(acked, lines', durable)
  PROVE  FaultInv'
<1>1. durable' = durable /\ segments' = segments /\ acked' = acked
  OBVIOUS
<1>2. durable' \in Nat /\ segments' \in Nat /\ acked' \in Seq(Events)
  BY <1>1 DEF FaultInv, TypeOK
<1>3. DirOk(lines', durable', segments') /\ AckedOk(acked', lines', durable')
  BY <1>1
<1>4. Down.pc = "down" /\ Blank(Down)
  BY DEF Down, Blank
<1>5. WriterOk(n, Down, lines', durable', segments', lock', acked')
  BY <1>4, DownWriter
<1> QED
  BY <1>2, <1>3, <1>5, DownType, FaultMover

\* What the invariant says of the process that moves.
Known(n) ==
  /\ lines \in Seq(Line) /\ durable \in Nat /\ segments \in Nat
  /\ lock \in Nodes \cup {NoNode} /\ acked \in Seq(Events)
  /\ anchor \in Anchor /\ proc[n] \in Proc /\ proc \in [Nodes -> Proc]
  /\ DirOk(lines, durable, segments) /\ AckedOk(acked, lines, durable)
  /\ WriterOk(n, proc[n], lines, durable, segments, lock, acked)

LEMMA FaultKnown ==
  ASSUME FaultInv, NEW n \in Nodes
  PROVE  Known(n)
BY DEF FaultInv, TypeOK, Known

-------------------------------------------------------------------------------
(* Opening *)

LEMMA AcquireKeeps ==
  ASSUME FaultInv, NEW n \in Nodes, Acquire(n)
  PROVE  FaultInv'
<1>1. Known(n)
  BY FaultKnown
<1> DEFINE q == [proc[n] EXCEPT !.pc = "locked"]
<1>2. proc' = [proc EXCEPT ![n] = q] /\ q \in Proc
  BY <1>1 DEF Known, Acquire, Proc
<1>3. /\ q.pc = "locked" /\ q.buf = proc[n].buf
      /\ q.sequence = proc[n].sequence /\ q.last_hash = proc[n].last_hash
  BY <1>1 DEF Known, Proc
<1>4. Blank(proc[n])
  BY <1>1 DEF Known, WriterOk, Acquire
<1> HIDE DEF q
<1>5. WriterOk(n, q, lines, durable, segments, n, acked)
  BY <1>3, <1>4 DEF WriterOk, StageOk, Blank
<1>6. /\ lines' = lines /\ durable' = durable /\ segments' = segments
      /\ lock' = n /\ acked' = acked /\ anchor' = anchor /\ lock = NoNode
  BY DEF Acquire
<1>7. /\ lines' \in Seq(Line) /\ durable' \in Nat /\ segments' \in Nat
      /\ lock' \in Nodes \cup {NoNode} /\ acked' \in Seq(Events)
      /\ anchor' \in Anchor
      /\ DirOk(lines', durable', segments')
      /\ AckedOk(acked', lines', durable')
      /\ WriterOk(n, q, lines', durable', segments', lock', acked')
  BY <1>1, <1>5, <1>6 DEF Known
<1> QED
  BY <1>2, <1>6, <1>7, FaultMover

\* find_existing_log_file picks the segment of the very last line.
LEMMA NewestIsLast ==
  ASSUME lines \in Seq(Line), DirOk(lines, durable, segments), lines # << >>
  PROVE  Newest = Len(lines) /\ Len(lines) \in LastLines
<1> DEFINE N == Len(lines)
<1>1. N \in Nat /\ DOMAIN lines = 1 .. N /\ N \in 1 .. N
  OBVIOUS
<1>2. \A i \in 1 .. N : lines[i].seg \in Nat /\ lines[i].sequence \in Nat
  BY LineParts
<1> HIDE DEF N
<1>3. N \in LastLines
  BY <1>1 DEF LastLines
<1>4. ASSUME NEW j \in LastLines, j # N
      PROVE  j \in 1 .. N /\ lines[j].sequence < lines[N].sequence
  <2>1. j \in 1 .. N /\ j < N
    BY <1>1, <1>4 DEF LastLines
  <2>2. /\ lines[j].seg <= lines[N].seg
        /\ lines[j].seg < lines[N].seg => lines[j].sequence < lines[N].sequence
    BY <1>1, <2>1 DEF DirOk
  <2>3. lines[N].seg # lines[j].seg
    BY <1>1, <2>1 DEF LastLines
  <2> QED
    BY <1>1, <1>2, <2>1, <2>2, <2>3
<1> DEFINE Best(i) == \A j \in LastLines :
             \/ lines[j].sequence < lines[i].sequence
             \/ /\ lines[j].sequence = lines[i].sequence
                /\ lines[i].seg <= lines[j].seg
<1>5. Best(N)
  <2> SUFFICES ASSUME NEW j \in LastLines
               PROVE  \/ lines[j].sequence < lines[N].sequence
                      \/ /\ lines[j].sequence = lines[N].sequence
                         /\ lines[N].seg <= lines[j].seg
    OBVIOUS
  <2> QED
    BY <1>1, <1>2, <1>4
<1>6. \A i \in LastLines : Best(i) => i = N
  BY <1>1, <1>2, <1>3, <1>4
<1>7. Newest = (CHOOSE i \in LastLines : Best(i))
  BY DEF Newest
<1> HIDE DEF Best
<1>8. Newest \in LastLines /\ Best(Newest)
  BY <1>3, <1>5, <1>7
<1> QED
  BY <1>3, <1>6, <1>8 DEF N

\* A process that continues after the last line has the log open.
LEMMA OpenAtLast ==
  ASSUME NEW L \in Seq(Line), L # << >>, NEW d \in Nat, NEW sg \in Nat,
         NEW a \in Seq(Events), DirOk(L, d, sg), AckedOk(a, L, d),
         L[Len(L)].whole, NEW q \in Proc, q.sequence = L[Len(L)].sequence,
         q.last_hash = L[Len(L)].hash, q.file = L[Len(L)].seg
  PROVE  OpenOk(q, L, sg, a)
<1> DEFINE N == Len(L)
<1>1. N \in Nat /\ DOMAIN L = 1 .. N /\ N \in 1 .. N
  OBVIOUS
<1>2. \A i \in 1 .. N : /\ L[i].seg \in Nat /\ L[i].sequence \in Nat
                        /\ L[i].hash \in Seq(Events)
  BY LineParts
<1>3. /\ L[N].whole /\ q.sequence = L[N].sequence /\ q.last_hash = L[N].hash
      /\ q.file = L[N].seg
  OBVIOUS
<1>4. AckedOk(a, L, d) /\ Len(L) = N
  OBVIOUS
<1> HIDE DEF N
<1>5. d <= N /\ L[N].seg <= sg
  BY <1>1, <1>4 DEF DirOk
<1>6. ASSUME NEW i \in 1 .. N
      PROVE  /\ L[i].whole /\ L[i].seg <= L[N].seg
             /\ L[i].sequence <= L[N].sequence + 1
             /\ L[i].seg < L[N].seg => L[i].sequence <= L[N].sequence
  <2>1. CASE i = N
    BY <1>1, <1>2, <1>3, <2>1
  <2>2. CASE i # N
    <3>1. i < N
      BY <1>1, <2>2
    <3>2. /\ L[i].whole
          /\ L[i].seg <= L[N].seg /\ L[i].sequence <= L[N].sequence
      BY <1>1, <3>1 DEF DirOk
    <3> QED
      BY <1>1, <1>2, <3>2
  <2> QED
    BY <2>1, <2>2
<1>7. IsExtension(a, L[N].hash)
  <2>1. CASE a = Genesis
    BY <1>1, <1>2, <2>1, ExtensionFacts
  <2>2. CASE a # Genesis
    <3>1. PICK i \in 1 .. d : \A j \in i .. N : IsExtension(a, L[j].hash)
      BY <1>4, <2>2 DEF AckedOk
    <3>2. N \in i .. N
      BY <1>1, <1>5, d \in Nat
    <3> QED
      BY <3>1, <3>2
  <2> QED
    BY <2>1, <2>2
<1> QED
  BY <1>1, <1>3, <1>5, <1>6, <1>7 DEF OpenOk

LEMMA ResumeKeeps ==
  ASSUME FaultInv, NEW n \in Nodes, Resume(n)
  PROVE  FaultInv'
<1>1. Known(n) /\ lines # << >> /\ Readable /\ proc[n].pc = "locked"
  BY FaultKnown DEF Resume
<1>2. Newest = Len(lines) /\ Len(lines) \in LastLines
  BY <1>1, NewestIsLast DEF Known
<1>3. lines[Len(lines)].whole
  BY <1>1, <1>2 DEF Readable, Parses
<1>4. lines[Len(lines)] \in Line
  BY <1>1 DEF Known
<1> DEFINE s == lines[Len(lines)].sequence
           h == lines[Len(lines)].hash
           f == lines[Len(lines)].seg
           b == BytesIn(lines[Len(lines)].seg)
<1>5. s \in Nat /\ h \in Seq(Events) /\ f \in Nat /\ b \in Nat
  BY <1>1, <1>4, BytesInType DEF Line, Known
<1>6. proc' = [proc EXCEPT ![n] =
                [proc[n] EXCEPT !.pc = "idle", !.sequence = s, !.last_hash = h,
                                !.file = f, !.bytes = b]]
  BY <1>2 DEF Resume
<1> HIDE DEF s, h, f, b
<1> DEFINE q == [proc[n] EXCEPT !.pc = "idle", !.sequence = s, !.last_hash = h,
                                !.file = f, !.bytes = b]
<1>7. /\ q \in Proc /\ q.pc = "idle" /\ q.sequence = s /\ q.last_hash = h
      /\ q.file = f /\ q.buf = proc[n].buf
  BY <1>1, <1>5 DEF Known, Proc
<1>8. proc' = [proc EXCEPT ![n] = q]
  BY <1>6
<1> HIDE DEF q
<1>9. proc[n].buf = << >> /\ lock = n
  BY <1>1 DEF Known, WriterOk, Blank
<1>10. OpenOk(q, lines, segments, acked)
  BY <1>1, <1>3, <1>7, OpenAtLast DEF Known, s, h, f
<1>11. Entries(q.buf, q)
  BY <1>7, <1>9 DEF Entries
<1>12. WriterOk(n, q, lines, durable, segments, lock, acked)
  BY <1>7, <1>9, <1>10, <1>11 DEF WriterOk, StageOk
<1>13. UNCHANGED <<lines, durable, segments, lock, acked>> /\ anchor' \in Anchor
  BY <1>1 DEF Resume, Known
<1> QED
  BY <1>1, <1>7, <1>8, <1>12, <1>13, FaultQuiet

LEMMA CreateKeeps ==
  ASSUME FaultInv, NEW n \in Nodes, Create(n)
  PROVE  FaultInv'
<1>1. Known(n) /\ lines = << >> /\ proc[n].pc = "locked"
  BY FaultKnown DEF Create
<1> DEFINE q == [proc[n] EXCEPT !.pc = "idle", !.file = segments + 1]
<1>2. proc' = [proc EXCEPT ![n] = q] /\ q \in Proc
  <2>1. proc' = [proc EXCEPT ![n] = q]
    BY DEF Create
  <2>2. proc[n] \in Proc /\ segments + 1 \in Nat
    BY <1>1 DEF Known
  <2>3. q \in Proc
    BY <2>2 DEF Proc
  <2> QED
    BY <2>1, <2>3
<1>3. /\ q.pc = "idle" /\ q.buf = proc[n].buf /\ q.file = segments + 1
      /\ q.last_hash = proc[n].last_hash
  BY <1>1 DEF Known, Proc
<1>4. proc[n].buf = << >> /\ lock = n /\ proc[n].last_hash = Genesis
  BY <1>1 DEF Known, WriterOk, Blank
<1> HIDE DEF q
<1>5. /\ lines' = << >> /\ durable' = durable /\ segments' = segments + 1
      /\ lock' = lock /\ acked' = acked /\ anchor' = anchor
  BY <1>1 DEF Create
<1>6. segments + 1 \in Nat /\ durable = 0
  BY <1>1 DEF Known, DirOk
<1>7. acked = Genesis
  BY <1>1, <1>6 DEF Known, AckedOk
<1>8. DirOk(<< >>, durable, segments + 1)
  BY <1>6 DEF DirOk
<1>9. OpenOk(q, << >>, segments + 1, acked)
  BY <1>3, <1>4, <1>6, <1>7 DEF OpenOk, IsExtension, Genesis
<1>10. Entries(q.buf, q)
  BY <1>3, <1>4 DEF Entries
<1>11. WriterOk(n, q, << >>, durable, segments + 1, lock, acked)
  BY <1>3, <1>4, <1>9, <1>10 DEF WriterOk, StageOk
<1>12. /\ lines' \in Seq(Line) /\ durable' \in Nat /\ segments' \in Nat
       /\ lock' \in Nodes \cup {NoNode} /\ acked' \in Seq(Events)
       /\ anchor' \in Anchor
       /\ DirOk(lines', durable', segments')
       /\ AckedOk(acked', lines', durable')
       /\ WriterOk(n, q, lines', durable', segments', lock', acked')
  BY <1>1, <1>5, <1>6, <1>7, <1>8, <1>11 DEF Known, AckedOk
<1> QED
  BY <1>1, <1>2, <1>12, FaultMover

LEMMA OpenFailsKeeps ==
  ASSUME FaultInv, NEW n \in Nodes, OpenFails(n)
  PROVE  FaultInv'
<1>1. Known(n)
  BY FaultKnown
<1>2. /\ proc[n].pc # "down" /\ proc' = [proc EXCEPT ![n] = Down]
      /\ lines' = lines /\ UNCHANGED <<durable, segments, acked>>
      /\ lock' \in Nodes \cup {NoNode} /\ anchor' \in Anchor
  BY <1>1 DEF OpenFails, Known
<1>3. /\ lines' \in Seq(Line) /\ DirOk(lines', durable, segments)
      /\ AckedOk(acked, lines', durable)
  BY <1>1, <1>2 DEF Known
<1> QED
  BY <1>2, <1>3, FaultDown

-------------------------------------------------------------------------------
(* append, and the ways it fails *)

\* A process with the log open, and its buffer.
LEMMA OpenKnown ==
  ASSUME NEW n, Known(n), proc[n].pc \notin {"down", "locked"}
  PROVE  /\ lock = n /\ OpenOk(proc[n], lines, segments, acked)
         /\ Entries(proc[n].buf, proc[n])
         /\ StageOk(proc[n], lines, durable)
BY DEF Known, WriterOk

LEMMA WriteAllKeeps ==
  ASSUME FaultInv, NEW n \in Nodes, NEW e \in Events, WriteAll(n, e),
         UNCHANGED <<lines, durable, segments, lock, acked>>,
         anchor' \in Anchor
  PROVE  FaultInv'
<1>1. Known(n) /\ proc[n].pc = "idle"
  BY FaultKnown DEF WriteAll
<1>2. /\ lock = n /\ OpenOk(proc[n], lines, segments, acked)
      /\ Entries(proc[n].buf, proc[n]) /\ proc[n] \in Proc
  BY <1>1, OpenKnown DEF Known
<1> DEFINE x == EntryOf(proc[n], e)
           B == Append(proc[n].buf, x)
<1>3. x \in Line /\ x.event = e
  BY <1>2, EntryParts
<1>4. x = EntryOf(proc[n], x.event)
  BY <1>3
<1>5. proc' = [proc EXCEPT ![n] = [proc[n] EXCEPT !.pc = "buffered", !.buf = B,
                                                  !.event = e]]
  BY DEF WriteAll
<1> HIDE DEF x
<1>6. /\ B \in Seq(Line) /\ B # << >> /\ B[Len(B)] = x
      /\ DOMAIN B = 1 .. Len(proc[n].buf) + 1 /\ Len(proc[n].buf) \in Nat
      /\ B[Len(proc[n].buf) + 1] = x
      /\ \A b \in 1 .. Len(proc[n].buf) : B[b] = proc[n].buf[b]
      /\ DOMAIN proc[n].buf = 1 .. Len(proc[n].buf)
  BY <1>2, <1>3 DEF Entries
<1> HIDE DEF B
<1>7. Entries(B, proc[n])
  <2>1. ASSUME NEW b \in DOMAIN B
        PROVE  B[b] = EntryOf(proc[n], B[b].event)
    <3>1. CASE b = Len(proc[n].buf) + 1
      BY <1>4, <1>6, <3>1
    <3>2. CASE b \in 1 .. Len(proc[n].buf)
      BY <1>2, <1>6, <3>2 DEF Entries
    <3> QED
      BY <1>6, <3>1, <3>2
  <2> QED
    BY <1>6, <2>1 DEF Entries
<1> DEFINE q == [proc[n] EXCEPT !.pc = "buffered", !.buf = B, !.event = e]
<1>8. /\ q \in Proc /\ q.pc = "buffered" /\ q.buf = B /\ q.event = e
      /\ q.file = proc[n].file /\ q.sequence = proc[n].sequence
      /\ q.last_hash = proc[n].last_hash
  BY <1>2, <1>6 DEF Proc
<1>9. proc' = [proc EXCEPT ![n] = q]
  BY <1>5
<1> HIDE DEF q
<1>10. OpenOk(q, lines, segments, acked) /\ Entries(B, q)
  BY <1>2, <1>7, <1>8, SameTail
<1>11. WriterOk(n, q, lines, durable, segments, lock, acked)
  BY <1>2, <1>3, <1>6, <1>8, <1>10 DEF WriterOk, StageOk
<1> QED
  BY <1>1, <1>8, <1>9, <1>11, FaultQuiet

LEMMA BeginAppendKeeps ==
  ASSUME FaultInv, NEW n \in Nodes, NEW e \in Events, BeginAppend(n, e)
  PROVE  FaultInv'
<1>1. /\ WriteAll(n, e) /\ UNCHANGED <<lines, durable, segments, lock, acked>>
      /\ anchor' = anchor
  BY DEF BeginAppend
<1>2. anchor' \in Anchor
  BY <1>1 DEF FaultInv, TypeOK
<1> QED
  BY <1>1, <1>2, WriteAllKeeps

LEMMA FlushKeeps ==
  ASSUME FaultInv, NEW n \in Nodes, Flush(n)
  PROVE  FaultInv'
<1>1. Known(n) /\ proc[n].pc = "buffered"
  BY FaultKnown DEF Flush
<1>2. /\ lock = n /\ OpenOk(proc[n], lines, segments, acked)
      /\ Entries(proc[n].buf, proc[n]) /\ proc[n] \in Proc
      /\ StageOk(proc[n], lines, durable)
  BY <1>1, OpenKnown DEF Known
<1> DEFINE B == proc[n].buf
           K == lines \o B
           z == << >>
           q == [proc[n] EXCEPT !.pc = "flushed", !.buf = z]
<1>3. /\ K \in Seq(Line) /\ DirOk(K, durable, segments)
      /\ OpenOk(proc[n], K, segments, acked) /\ AckedOk(acked, K, durable)
  <2>1. /\ lines \in Seq(Line) /\ durable \in Nat /\ segments \in Nat
        /\ acked \in Seq(Events) /\ DirOk(lines, durable, segments)
        /\ AckedOk(acked, lines, durable)
    BY <1>1 DEF Known
  <2> QED
    BY <1>2, <2>1, LinesGrow
<1>4. /\ q \in Proc /\ q.pc = "flushed" /\ q.buf = << >>
      /\ q.event = proc[n].event
      /\ q.file = proc[n].file /\ q.sequence = proc[n].sequence
      /\ q.last_hash = proc[n].last_hash
  <2>1. z = << >> /\ z \in Seq(Line)
    OBVIOUS
  <2> HIDE DEF z
  <2> QED
    BY <1>2, <2>1 DEF Proc
<1>5. /\ proc' = [proc EXCEPT ![n] = q] /\ lines' = K /\ durable' = durable
      /\ segments' = segments /\ lock' = lock /\ acked' = acked
      /\ anchor' = anchor
  BY DEF Flush
<1>6. /\ B # << >> /\ B[Len(B)].event = proc[n].event /\ B \in Seq(Line)
      /\ B[Len(B)].ended
  <2>1. B # << >> /\ B[Len(B)].event = proc[n].event /\ B \in Seq(Line)
    BY <1>1, <1>2 DEF StageOk, Entries
  <2>2. Len(B) \in DOMAIN B
    BY <2>1
  <2>3. B[Len(B)] = EntryOf(proc[n], B[Len(B)].event)
    BY <1>2, <2>2 DEF Entries
  <2>4. EntryOf(proc[n], B[Len(B)].event).ended
    BY DEF EntryOf
  <2> QED
    BY <2>1, <2>3, <2>4
<1>7. /\ Len(K) = Len(lines) + Len(B) /\ Len(lines) \in Nat /\ Len(B) \in Nat
      /\ \A i \in Len(lines) + 1 .. Len(lines) + Len(B) :
           K[i].hash = Append(proc[n].last_hash, K[i].event)
  <2>1. lines \in Seq(Line) /\ proc[n] \in Proc /\ Entries(B, proc[n])
    BY <1>1, <1>2 DEF Known
  <2> HIDE DEF B
  <2>2. /\ Len(lines \o B) = Len(lines) + Len(B)
        /\ Len(lines) \in Nat /\ Len(B) \in Nat
    BY <2>1, Concatenated
  <2> DEFINE p == proc[n]
  <2>3. p \in Proc /\ Entries(B, p)
    BY <2>1
  <2> HIDE DEF K, q, z, p
  <2>4. \A i \in Len(lines) + 1 .. Len(lines) + Len(B) :
          (lines \o B)[i].hash = Append(p.last_hash, (lines \o B)[i].event)
    BY <2>1, <2>3, Concatenated
  <2> QED
    BY <2>2, <2>4 DEF K, p
<1>8. Len(B) # 0 /\ K[Len(lines) + Len(B)] = B[Len(B)]
  BY <1>1, <1>6 DEF Known
<1> HIDE DEF B, K, q
<1>9. /\ K # << >> /\ K[Len(K)].hash = Append(q.last_hash, q.event)
      /\ K[Len(K)].ended
  <2>1. Len(K) \in Len(lines) + 1 .. Len(lines) + Len(B) /\ Len(K) # 0
    BY <1>7, <1>8
  <2>2. K[Len(K)] = B[Len(B)]
    BY <1>7, <1>8
  <2> QED
    BY <1>4, <1>6, <1>7, <2>1, <2>2
<1>10. OpenOk(q, K, segments, acked) /\ Entries(q.buf, q)
  <2>1. Entries(<< >>, q)
    BY DEF Entries
  <2> QED
    BY <1>2, <1>3, <1>4, <2>1, SameTail
<1>11. WriterOk(n, q, K, durable, segments, lock, acked)
  BY <1>2, <1>4, <1>9, <1>10 DEF WriterOk, StageOk
<1>12. /\ lines' \in Seq(Line) /\ durable' \in Nat /\ segments' \in Nat
       /\ lock' \in Nodes \cup {NoNode} /\ acked' \in Seq(Events)
       /\ anchor' \in Anchor
       /\ DirOk(lines', durable', segments')
       /\ AckedOk(acked', lines', durable')
       /\ WriterOk(n, q, lines', durable', segments', lock', acked')
  BY <1>1, <1>3, <1>5, <1>11 DEF Known
<1> QED
  BY <1>1, <1>4, <1>5, <1>12, FaultMover

\* More of the same lines on the device.
LEMMA AckedOkGrows ==
  ASSUME NEW L \in Seq(Line), NEW d \in Nat, NEW a, d <= Len(L),
         AckedOk(a, L, d)
  PROVE  AckedOk(a, L, Len(L))
<1>1. \A i \in 1 .. d : i \in 1 .. Len(L)
  OBVIOUS
<1> QED
  BY <1>1 DEF AckedOk

\* The history of a whole last line on the device may be acknowledged.
LEMMA LastAcked ==
  ASSUME NEW L \in Seq(Line), L # << >>, L[Len(L)].whole,
         L[Len(L)].ended
  PROVE  AckedOk(L[Len(L)].hash, L, Len(L))
<1>1. Len(L) \in 1 .. Len(L) /\ \A j \in Len(L) .. Len(L) : j = Len(L)
  OBVIOUS
<1>2. L[Len(L)].hash \in Seq(Events)
  BY <1>1, LineParts
<1>3. IsExtension(L[Len(L)].hash, L[Len(L)].hash)
  BY <1>2, ExtensionFacts
<1> QED
  BY <1>1, <1>3 DEF AckedOk

LEMMA SyncDataKeeps ==
  ASSUME FaultInv, NEW n \in Nodes, SyncData(n)
  PROVE  FaultInv'
<1>1. Known(n) /\ proc[n].pc = "flushed"
  BY FaultKnown DEF SyncData
<1>2. /\ lock = n /\ OpenOk(proc[n], lines, segments, acked)
      /\ Entries(proc[n].buf, proc[n]) /\ proc[n] \in Proc
      /\ StageOk(proc[n], lines, durable)
  BY <1>1, OpenKnown DEF Known
<1> DEFINE q == [proc[n] EXCEPT !.pc = "synced"]
<1>3. /\ q \in Proc /\ q.pc = "synced" /\ q.buf = proc[n].buf
      /\ q.event = proc[n].event
      /\ q.file = proc[n].file /\ q.sequence = proc[n].sequence
      /\ q.last_hash = proc[n].last_hash
  BY <1>2 DEF Proc
<1>4. /\ proc' = [proc EXCEPT ![n] = q] /\ lines' = lines
      /\ durable' = Len(lines) /\ segments' = segments /\ lock' = lock
      /\ acked' = acked /\ anchor' = anchor
  BY DEF SyncData
<1> HIDE DEF q
<1>5. OpenOk(q, lines, segments, acked) /\ Entries(q.buf, q)
  BY <1>2, <1>3, SameTail
<1>6. /\ q.buf = << >> /\ lines # << >> /\ lines[Len(lines)].ended
      /\ lines[Len(lines)].hash = Append(q.last_hash, q.event)
  BY <1>1, <1>2, <1>3 DEF StageOk
<1>7. WriterOk(n, q, lines, Len(lines), segments, lock, acked)
  BY <1>2, <1>3, <1>5, <1>6 DEF WriterOk, StageOk
<1>8. Len(lines) \in Nat /\ DirOk(lines, Len(lines), segments)
  BY <1>1 DEF Known, DirOk
<1>9. AckedOk(acked, lines, Len(lines))
  BY <1>1, AckedOkGrows DEF Known, DirOk
<1>10. /\ lines' \in Seq(Line) /\ durable' \in Nat /\ segments' \in Nat
       /\ lock' \in Nodes \cup {NoNode} /\ acked' \in Seq(Events)
       /\ anchor' \in Anchor
       /\ DirOk(lines', durable', segments')
       /\ AckedOk(acked', lines', durable')
       /\ WriterOk(n, q, lines', durable', segments', lock', acked')
  BY <1>1, <1>4, <1>7, <1>8, <1>9 DEF Known
<1> QED
  BY <1>1, <1>3, <1>4, <1>10, FaultMover

\* What Commit and Rotate acknowledge is the history of the last line.
LEMMA CommittedTail ==
  ASSUME NEW n, Known(n), proc[n].pc \in {"synced", "rotating"}
  PROVE  /\ lines # << >> /\ durable = Len(lines)
         /\ lines[Len(lines)].whole /\ lines[Len(lines)].ended
         /\ proc[n].buf = << >>
         /\ proc[n].pc = "synced" =>
              lines[Len(lines)].hash = Append(proc[n].last_hash, proc[n].event)
         /\ proc[n].pc = "rotating" => lines[Len(lines)].hash = proc[n].last_hash
<1>1. OpenOk(proc[n], lines, segments, acked) /\ StageOk(proc[n], lines, durable)
  BY OpenKnown
<1>2. lines # << >> /\ lines \in Seq(Line)
  BY <1>1 DEF StageOk, Known
<1>3. Len(lines) \in DOMAIN lines
  BY <1>2
<1> QED
  BY <1>1, <1>2, <1>3 DEF StageOk, OpenOk

\* Committing one entry moves the tail to the last line.
LEMMA OpenAfterCommit ==
  ASSUME NEW p \in Proc, NEW q \in Proc, NEW L \in Seq(Line), L # << >>,
         NEW sg \in Nat, NEW a \in Seq(Events), NEW b, OpenOk(p, L, sg, a),
         L[Len(L)].hash = Append(p.last_hash, p.event),
         q.file = p.file, q.sequence = p.sequence + 1,
         q.last_hash = Append(p.last_hash, p.event),
         b = a \/ b = q.last_hash
  PROVE  OpenOk(q, L, sg, b) /\ \A i \in DOMAIN L : L[i].sequence <= q.sequence
<1>1. /\ p.sequence \in Nat /\ p.file \in Nat /\ p.last_hash \in Seq(Events)
      /\ p.event \in Events /\ q.last_hash \in Seq(Events)
  BY DEF Proc
<1>2. \A i \in DOMAIN L : L[i].seg \in Nat /\ L[i].sequence \in Nat
  BY LineParts
<1>3. Len(L) \in DOMAIN L
  OBVIOUS
<1>4. \A i \in DOMAIN L :
        /\ L[i].whole /\ L[i].seg <= p.file /\ L[i].sequence <= p.sequence + 1
  BY DEF OpenOk
<1>5. \A i \in DOMAIN L :
        /\ L[i].whole /\ L[i].seg <= q.file /\ L[i].sequence <= q.sequence + 1
        /\ L[i].sequence <= q.sequence
  <2> SUFFICES ASSUME NEW i \in DOMAIN L
               PROVE /\ L[i].whole /\ L[i].seg <= q.file
                     /\ L[i].sequence <= q.sequence + 1
                     /\ L[i].sequence <= q.sequence
    OBVIOUS
  <2> QED
    BY <1>1, <1>2, <1>4
<1>6. IsExtension(b, q.last_hash)
  <2>1. IsExtension(a, q.last_hash)
    BY <1>1, ExtensionFacts DEF OpenOk
  <2>2. IsExtension(q.last_hash, q.last_hash)
    BY <1>1, ExtensionFacts
  <2> QED
    BY <2>1, <2>2
<1>7. q.file <= sg
  BY DEF OpenOk
<1> QED
  BY <1>3, <1>5, <1>6, <1>7 DEF OpenOk

LEMMA CommitKeeps ==
  ASSUME FaultInv, NEW n \in Nodes, Commit(n)
  PROVE  FaultInv'
<1>1. Known(n) /\ proc[n].pc = "synced"
  BY FaultKnown DEF Commit
<1>2. /\ lock = n /\ OpenOk(proc[n], lines, segments, acked)
      /\ proc[n] \in Proc
  BY <1>1, OpenKnown DEF Known
<1>3. /\ lines # << >> /\ durable = Len(lines)
      /\ lines[Len(lines)].whole /\ lines[Len(lines)].ended
      /\ proc[n].buf = << >>
      /\ lines[Len(lines)].hash = Append(proc[n].last_hash, proc[n].event)
  BY <1>1, CommittedTail
<1> DEFINE full == proc[n].bytes + 1 >= SegmentMax
           h == Append(proc[n].last_hash, proc[n].event)
           c == IF full THEN "rotating" ELSE "idle"
           s == proc[n].sequence + 1
           b == proc[n].bytes + 1
<1>4. /\ proc' = [proc EXCEPT ![n] =
                    [proc[n] EXCEPT !.pc = c, !.sequence = s, !.last_hash = h,
                                    !.bytes = b]]
      /\ acked' = IF full THEN acked ELSE h
      /\ UNCHANGED <<lines, durable, segments, lock, anchor>>
  BY DEF Commit
<1>5. /\ h \in Seq(Events) /\ s \in Nat /\ b \in Nat
      /\ c \in {"rotating", "idle"} /\ (full <=> c = "rotating")
  BY <1>2 DEF Proc
<1>6. h = lines[Len(lines)].hash /\ s = proc[n].sequence + 1
      /\ h = Append(proc[n].last_hash, proc[n].event)
  BY <1>3
<1> HIDE DEF full, h, c, s, b
<1> DEFINE q == [proc[n] EXCEPT !.pc = c, !.sequence = s, !.last_hash = h,
                                !.bytes = b]
<1>7. /\ q \in Proc /\ q.pc = c /\ q.sequence = s /\ q.last_hash = h
      /\ q.file = proc[n].file /\ q.buf = proc[n].buf
  BY <1>2, <1>5 DEF Proc
<1>8. proc' = [proc EXCEPT ![n] = q]
  BY <1>4
<1> HIDE DEF q
<1>9. acked' \in Seq(Events) /\ (acked' = acked \/ acked' = q.last_hash)
  BY <1>1, <1>4, <1>5, <1>7 DEF Known
<1>10. /\ OpenOk(q, lines, segments, acked')
       /\ \A i \in DOMAIN lines : lines[i].sequence <= q.sequence
  <2> DEFINE k == acked'
  <2>1. k = acked \/ k = q.last_hash
    BY <1>9
  <2>2. q.sequence = proc[n].sequence + 1
        /\ q.last_hash = Append(proc[n].last_hash, proc[n].event)
    BY <1>6, <1>7
  <2> HIDE DEF k
  <2>3. /\ OpenOk(q, lines, segments, k)
        /\ \A i \in DOMAIN lines : lines[i].sequence <= q.sequence
    BY <1>1, <1>2, <1>3, <1>7, <2>1, <2>2, OpenAfterCommit DEF Known
  <2> QED
    BY <2>3 DEF k
<1>11. AckedOk(acked', lines, durable)
  <2>1. AckedOk(h, lines, durable)
    BY <1>1, <1>3, <1>6, LastAcked DEF Known
  <2> QED
    BY <1>1, <1>4, <2>1 DEF Known
<1>12. Entries(q.buf, q) /\ q.buf = << >>
  BY <1>3, <1>7 DEF Entries
<1>13. WriterOk(n, q, lines, durable, segments, lock, acked')
  BY <1>2, <1>3, <1>5, <1>6, <1>7, <1>10, <1>12 DEF WriterOk, StageOk
<1>14. /\ lines' \in Seq(Line) /\ durable' \in Nat /\ segments' \in Nat
       /\ lock' \in Nodes \cup {NoNode} /\ anchor' \in Anchor
       /\ DirOk(lines', durable', segments')
       /\ AckedOk(acked', lines', durable')
       /\ WriterOk(n, q, lines', durable', segments', lock', acked')
  BY <1>1, <1>4, <1>11, <1>13 DEF Known
<1> QED
  BY <1>1, <1>7, <1>8, <1>9, <1>14, FaultMover

LEMMA RotateKeeps ==
  ASSUME FaultInv, NEW n \in Nodes, Rotate(n)
  PROVE  FaultInv'
<1>1. Known(n) /\ proc[n].pc = "rotating"
  BY FaultKnown DEF Rotate
<1>2. /\ lock = n /\ OpenOk(proc[n], lines, segments, acked)
      /\ proc[n] \in Proc /\ StageOk(proc[n], lines, durable)
  BY <1>1, OpenKnown DEF Known
<1>3. /\ lines # << >> /\ durable = Len(lines)
      /\ lines[Len(lines)].whole /\ lines[Len(lines)].ended
      /\ proc[n].buf = << >> /\ lines[Len(lines)].hash = proc[n].last_hash
  BY <1>1, CommittedTail
<1>4. lines \in Seq(Line) /\ lines \o << >> = lines
  BY <1>1 DEF Known
<1> DEFINE f == segments + 1
           z == << >>
           q == [proc[n] EXCEPT !.pc = "idle", !.file = f, !.bytes = 0,
                                !.buf = z]
<1>5. /\ proc' = [proc EXCEPT ![n] = q] /\ lines' = lines
      /\ durable' = durable /\ segments' = f /\ lock' = lock
      /\ acked' = proc[n].last_hash /\ anchor' = anchor
  BY <1>3, <1>4 DEF Rotate
<1>6. f \in Nat /\ segments < f
  BY <1>1 DEF Known
<1> HIDE DEF f
<1>7. /\ q \in Proc /\ q.pc = "idle" /\ q.sequence = proc[n].sequence
      /\ q.last_hash = proc[n].last_hash /\ q.file = f /\ q.buf = << >>
  <2>1. z = << >> /\ z \in Seq(Line)
    OBVIOUS
  <2> HIDE DEF z
  <2> QED
    BY <1>2, <1>6, <2>1 DEF Proc
<1> HIDE DEF q
<1>8. proc[n].last_hash \in Seq(Events) /\ proc[n].sequence \in Nat
  BY <1>2 DEF Proc
<1>9. DirOk(lines, durable, f)
  <2>1. \A i \in DOMAIN lines : lines[i].seg <= segments /\ lines[i].seg \in Nat
    BY <1>1, LineParts DEF Known, DirOk
  <2>2. \A i \in DOMAIN lines : lines[i].seg <= f
    <3> SUFFICES ASSUME NEW i \in DOMAIN lines PROVE lines[i].seg <= f
      OBVIOUS
    <3> QED
      BY <1>1, <1>6, <2>1 DEF Known
  <2> QED
    BY <1>1, <2>2 DEF Known, DirOk
<1>10. OpenOk(q, lines, f, proc[n].last_hash)
  <2>1. /\ \A i \in DOMAIN lines : lines[i].whole /\ lines[i].seg <= f
        /\ \A i \in DOMAIN lines : lines[i].sequence <= proc[n].sequence
    BY <1>1, <1>2, <1>9 DEF StageOk, OpenOk, DirOk
  <2>2. \A i \in DOMAIN lines : lines[i].sequence <= q.sequence + 1
    <3> SUFFICES ASSUME NEW i \in DOMAIN lines
                 PROVE  lines[i].sequence <= q.sequence + 1
      OBVIOUS
    <3>1. lines[i].sequence \in Nat
      BY <1>4, LineParts
    <3> QED
      BY <1>7, <1>8, <2>1, <3>1
  <2>3. IsExtension(proc[n].last_hash, proc[n].last_hash)
    BY <1>8, ExtensionFacts
  <2>4. Len(lines) \in DOMAIN lines
    BY <1>3, <1>4
  <2> QED
    BY <1>3, <1>6, <1>7, <2>1, <2>2, <2>3, <2>4 DEF OpenOk
<1>11. AckedOk(proc[n].last_hash, lines, durable)
  BY <1>3, <1>4, LastAcked
<1>12. Entries(q.buf, q)
  BY <1>7 DEF Entries
<1>13. WriterOk(n, q, lines, durable, f, lock, proc[n].last_hash)
  BY <1>2, <1>7, <1>10, <1>12 DEF WriterOk, StageOk
<1>14. /\ lines' \in Seq(Line) /\ durable' \in Nat /\ segments' \in Nat
       /\ lock' \in Nodes \cup {NoNode} /\ acked' \in Seq(Events)
       /\ anchor' \in Anchor
       /\ DirOk(lines', durable', segments')
       /\ AckedOk(acked', lines', durable')
       /\ WriterOk(n, q, lines', durable', segments', lock', acked')
  BY <1>1, <1>5, <1>6, <1>8, <1>9, <1>11, <1>13 DEF Known
<1> QED
  BY <1>1, <1>5, <1>7, <1>14, FaultMover

LEMMA EntriesSplit ==
  ASSUME NEW p, NEW B, Entries(B, p), NEW k \in 0 .. Len(B)
  PROVE  Entries(SubSeq(B, 1, k), p) /\ Entries(SubSeq(B, k + 1, Len(B)), p)
<1>1. B \in Seq(Line) /\ Len(B) \in Nat /\ DOMAIN B = 1 .. Len(B)
  BY DEF Entries
<1>2. /\ SubSeq(B, 1, k) \in Seq(Line) /\ DOMAIN SubSeq(B, 1, k) = 1 .. k
      /\ \A i \in 1 .. k : SubSeq(B, 1, k)[i] = B[i] /\ i \in DOMAIN B
  BY <1>1
<1>3. /\ SubSeq(B, k + 1, Len(B)) \in Seq(Line)
      /\ DOMAIN SubSeq(B, k + 1, Len(B)) = 1 .. Len(B) - k
      /\ \A i \in 1 .. Len(B) - k :
           SubSeq(B, k + 1, Len(B))[i] = B[k + i] /\ k + i \in DOMAIN B
  BY <1>1
<1>4. \A b \in DOMAIN B : B[b] = EntryOf(p, B[b].event)
  BY DEF Entries
<1>5. Entries(SubSeq(B, 1, k), p)
  BY <1>2, <1>4 DEF Entries
<1>6. Entries(SubSeq(B, k + 1, Len(B)), p)
  BY <1>3, <1>4 DEF Entries
<1> QED
  BY <1>5, <1>6

\* append returns an error, with the files in order.
LEMMA AppendErrKeeps ==
  ASSUME FaultInv, NEW n \in Nodes, NEW p \in Proc, AppendErr(n, p),
         proc[n].pc \notin {"down", "locked"},
         p.file = proc[n].file, p.sequence = proc[n].sequence,
         p.last_hash = proc[n].last_hash,
         UNCHANGED <<durable, segments, acked, anchor>>,
         lines' \in Seq(Line), DirOk(lines', durable, segments),
         AckedOk(acked, lines', durable),
         OpenOk(proc[n], lines', segments, acked), Entries(p.buf, proc[n])
  PROVE  FaultInv'
<1>1. Known(n)
  BY FaultKnown
<1>2. lock = n /\ proc[n] \in Proc
  BY <1>1, OpenKnown DEF Known
<1>3. /\ durable' = durable /\ segments' = segments /\ acked' = acked
      /\ anchor' \in Anchor
  BY <1>1 DEF Known
<1>4. CASE p.sequence = 0
  <2>1. proc' = [proc EXCEPT ![n] = Down] /\ lock' \in Nodes \cup {NoNode}
    BY <1>4 DEF AppendErr
  <2> QED
    BY <1>3, <2>1, FaultDown
<1>5. CASE p.sequence # 0
  <2> DEFINE q == [p EXCEPT !.pc = "idle"]
  <2>1. proc' = [proc EXCEPT ![n] = q] /\ lock' = lock
    BY <1>5 DEF AppendErr
  <2>2. /\ q \in Proc /\ q.pc = "idle" /\ q.file = proc[n].file
        /\ q.sequence = proc[n].sequence /\ q.last_hash = proc[n].last_hash
        /\ q.buf = p.buf
    BY DEF Proc
  <2> HIDE DEF q
  <2> DEFINE K == lines'
  <2>3. /\ OpenOk(proc[n], K, segments, acked) /\ Entries(q.buf, proc[n])
    BY <2>2
  <2> HIDE DEF K
  <2>4. OpenOk(q, K, segments, acked) /\ Entries(q.buf, q)
    BY <1>2, <2>2, <2>3, SameTail
  <2>5. WriterOk(n, q, K, durable, segments, lock, acked)
    BY <1>2, <2>2, <2>4 DEF WriterOk, StageOk
  <2>6. /\ durable' \in Nat /\ segments' \in Nat
        /\ lock' \in Nodes \cup {NoNode} /\ acked' \in Seq(Events)
        /\ DirOk(lines', durable', segments')
        /\ AckedOk(acked', lines', durable')
        /\ WriterOk(n, q, lines', durable', segments', lock', acked')
    BY <1>1, <1>3, <2>1, <2>5 DEF Known, K
  <2> QED
    BY <1>3, <2>1, <2>2, <2>6, FaultMover
<1> QED
  BY <1>4, <1>5

LEMMA FlushFailsKeeps ==
  ASSUME FaultInv, NEW n \in Nodes, FlushFails(n)
  PROVE  FaultInv'
<1>1. Known(n) /\ proc[n].pc = "buffered"
  BY FaultKnown DEF FlushFails
<1>2. /\ lock = n /\ OpenOk(proc[n], lines, segments, acked)
      /\ Entries(proc[n].buf, proc[n]) /\ proc[n] \in Proc
  BY <1>1, OpenKnown DEF Known
<1>3. PICK k \in 0 .. Len(proc[n].buf) :
        /\ lines' = lines \o SubSeq(proc[n].buf, 1, k)
        /\ AppendErr(n, [proc[n] EXCEPT
             !.buf = SubSeq(proc[n].buf, k + 1, Len(proc[n].buf))])
  BY DEF FlushFails
<1> DEFINE A == SubSeq(proc[n].buf, 1, k)
           Z == SubSeq(proc[n].buf, k + 1, Len(proc[n].buf))
           p == [proc[n] EXCEPT !.buf = Z]
<1>4. Entries(A, proc[n]) /\ Entries(Z, proc[n])
  BY <1>2, EntriesSplit
<1>5. lines' = lines \o A /\ AppendErr(n, p)
  BY <1>3
<1>6. UNCHANGED <<durable, segments, acked, anchor>>
  BY DEF FlushFails
<1> HIDE DEF A, Z
<1>7. Z \in Seq(Line)
  BY <1>4 DEF Entries
<1>8. /\ p \in Proc /\ p.file = proc[n].file /\ p.sequence = proc[n].sequence
      /\ p.last_hash = proc[n].last_hash /\ p.buf = Z
  BY <1>2, <1>7 DEF Proc
<1> HIDE DEF p
<1>9. /\ lines \o A \in Seq(Line) /\ DirOk(lines \o A, durable, segments)
      /\ OpenOk(proc[n], lines \o A, segments, acked)
      /\ AckedOk(acked, lines \o A, durable)
  <2>1. /\ lines \in Seq(Line) /\ durable \in Nat /\ segments \in Nat
        /\ acked \in Seq(Events) /\ DirOk(lines, durable, segments)
        /\ AckedOk(acked, lines, durable)
    BY <1>1 DEF Known
  <2> QED
    BY <1>2, <1>4, <2>1, LinesGrow
<1>10. /\ lines' \in Seq(Line) /\ DirOk(lines', durable, segments)
       /\ OpenOk(proc[n], lines', segments, acked)
       /\ AckedOk(acked, lines', durable) /\ Entries(p.buf, proc[n])
  BY <1>4, <1>5, <1>8, <1>9
<1> QED
  BY <1>1, <1>5, <1>6, <1>8, <1>10, AppendErrKeeps

LEMMA AppendErrHere ==
  ASSUME FaultInv, NEW n \in Nodes, AppendErr(n, proc[n]),
         proc[n].pc \notin {"down", "locked"},
         UNCHANGED <<lines, durable, segments, acked, anchor>>
  PROVE  FaultInv'
<1>1. Known(n)
  BY FaultKnown
<1>2. OpenOk(proc[n], lines, segments, acked) /\ Entries(proc[n].buf, proc[n])
  BY <1>1, OpenKnown
<1>3. lines' = lines
  OBVIOUS
<1>4. /\ lines' \in Seq(Line) /\ DirOk(lines', durable, segments)
      /\ AckedOk(acked, lines', durable) /\ proc[n] \in Proc
      /\ OpenOk(proc[n], lines', segments, acked)
      /\ UNCHANGED <<durable, segments, acked, anchor>>
  BY <1>1, <1>2, <1>3 DEF Known
<1> QED
  BY <1>2, <1>4, AppendErrKeeps

-------------------------------------------------------------------------------
(* Going away *)

LEMMA CloseKeeps ==
  ASSUME FaultInv, NEW n \in Nodes, Close(n)
  PROVE  FaultInv'
<1>1. Known(n) /\ proc[n].pc = "idle"
  BY FaultKnown DEF Close
<1>2. /\ OpenOk(proc[n], lines, segments, acked)
      /\ Entries(proc[n].buf, proc[n]) /\ proc[n] \in Proc
  BY <1>1, OpenKnown DEF Known
<1> DEFINE B == proc[n].buf
<1>3. /\ Entries(B, proc[n]) /\ lines' = lines \o B
      /\ proc' = [proc EXCEPT ![n] = Down] /\ lock' \in Nodes \cup {NoNode}
      /\ UNCHANGED <<durable, segments, acked>>
  BY <1>2 DEF Close
<1>4. anchor' \in Anchor
  BY <1>1, DropAnchorType DEF Close, Known
<1> HIDE DEF B
<1>5. /\ lines \o B \in Seq(Line) /\ DirOk(lines \o B, durable, segments)
      /\ AckedOk(acked, lines \o B, durable)
  <2>1. /\ lines \in Seq(Line) /\ durable \in Nat /\ segments \in Nat
        /\ acked \in Seq(Events) /\ DirOk(lines, durable, segments)
        /\ AckedOk(acked, lines, durable)
    BY <1>1 DEF Known
  <2> QED
    BY <1>2, <1>3, <2>1, LinesGrow
<1>6. /\ lines' \in Seq(Line) /\ DirOk(lines', durable, segments)
      /\ AckedOk(acked, lines', durable)
  BY <1>3, <1>5
<1> QED
  BY <1>1, <1>3, <1>4, <1>6, FaultDown

LEMMA CrashKeeps ==
  ASSUME FaultInv, NEW n \in Nodes, Crash(n)
  PROVE  FaultInv'
<1>1. Known(n)
  BY FaultKnown
<1>2. /\ proc[n].pc # "down" /\ proc' = [proc EXCEPT ![n] = Down]
      /\ lines' = lines /\ UNCHANGED <<durable, segments, acked>>
  BY DEF Crash
<1>3. lock' \in Nodes \cup {NoNode} /\ anchor' \in Anchor
  BY <1>1, DropAnchorType DEF Crash, Known
<1>4. /\ lines' \in Seq(Line) /\ DirOk(lines', durable, segments)
      /\ AckedOk(acked, lines', durable)
  BY <1>1, <1>2 DEF Known
<1> QED
  BY <1>2, <1>3, <1>4, FaultDown

\* What a power loss leaves, K of the lines L: m of them, of which only the
\* last may be torn, and only if it had not reached the device.
Survives(K, L, m, d) ==
  /\ Len(K) = m /\ d <= m /\ m <= Len(L)
  /\ \A i \in 1 .. m :
       /\ K[i].seg = L[i].seg /\ K[i].sequence = L[i].sequence
       /\ K[i].hash = L[i].hash
       /\ i < m \/ i <= d => K[i].whole = L[i].whole /\ K[i].ended = L[i].ended

LEMMA SurvivorsInOrder ==
  ASSUME NEW L \in Seq(Line), NEW K \in Seq(Line), NEW m \in Nat,
         NEW d \in Nat, NEW sg, NEW a, Survives(K, L, m, d),
         DirOk(L, d, sg), AckedOk(a, L, d)
  PROVE  DirOk(K, m, sg) /\ AckedOk(a, K, m)
<1>1. /\ DOMAIN K = 1 .. m /\ Len(K) = m /\ DOMAIN L = 1 .. Len(L)
      /\ Len(L) \in Nat /\ d <= m /\ m <= Len(L)
  BY DEF Survives
<1>2. \A i \in 1 .. m : i \in DOMAIN L /\ \A j \in 1 .. i : j \in 1 .. m
  BY <1>1
<1>3. \A i \in 1 .. m :
        /\ K[i].seg = L[i].seg /\ K[i].sequence = L[i].sequence
        /\ K[i].hash = L[i].hash
        /\ i < m \/ i <= d => K[i].whole = L[i].whole /\ K[i].ended = L[i].ended
  BY DEF Survives
<1>4. ASSUME NEW i \in 1 .. m, NEW j \in 1 .. m, i < j
      PROVE  /\ K[i].whole
             /\ K[i].seg <= K[j].seg /\ K[i].sequence <= K[j].sequence
             /\ K[i].seg < K[j].seg => K[i].sequence < K[j].sequence
  <2>1. i < m
    BY <1>4
  <2>2. /\ L[i].whole
        /\ L[i].seg <= L[j].seg /\ L[i].sequence <= L[j].sequence
        /\ L[i].seg < L[j].seg => L[i].sequence < L[j].sequence
    BY <1>2, <1>4 DEF DirOk
  <2> QED
    BY <1>3, <2>1, <2>2
<1>5. ASSUME NEW i \in 1 .. m
      PROVE  /\ K[i].seg <= sg
             /\ \A k \in 1 .. Len(K[i].hash) :
                  \E j \in 1 .. i : K[j].hash = SubSeq(K[i].hash, 1, k)
  <2>1. /\ L[i].seg <= sg
        /\ \A k \in 1 .. Len(L[i].hash) :
             \E j \in 1 .. i : L[j].hash = SubSeq(L[i].hash, 1, k)
    BY <1>2 DEF DirOk
  <2>2. \A j \in 1 .. i : K[j].hash = L[j].hash
    BY <1>2, <1>3
  <2>3. K[i].hash = L[i].hash /\ K[i].seg = L[i].seg
    BY <1>3
  <2> QED
    BY <2>1, <2>2, <2>3
<1>6. DirOk(K, m, sg)
  <2>1. m <= Len(K)
    BY <1>1
  <2>2. \A i, j \in DOMAIN K : i < j =>
          /\ K[i].whole
          /\ K[i].seg <= K[j].seg /\ K[i].sequence <= K[j].sequence
          /\ K[i].seg < K[j].seg => K[i].sequence < K[j].sequence
    BY <1>1, <1>4
  <2>3. \A i \in DOMAIN K :
          /\ K[i].seg <= sg
          /\ \A k \in 1 .. Len(K[i].hash) :
               \E j \in 1 .. i : K[j].hash = SubSeq(K[i].hash, 1, k)
    BY <1>1, <1>5
  <2> QED
    BY <2>1, <2>2, <2>3 DEF DirOk
<1>7. AckedOk(a, K, m)
  <2> SUFFICES ASSUME a # Genesis
               PROVE  \E i \in 1 .. m :
                        /\ K[i].whole /\ K[i].ended /\ K[i].hash = a
                        /\ \A j \in i .. Len(K) : IsExtension(a, K[j].hash)
    BY DEF AckedOk
  <2>1. PICK i \in 1 .. d : /\ L[i].whole /\ L[i].ended /\ L[i].hash = a
                            /\ \A j \in i .. Len(L) : IsExtension(a, L[j].hash)
    BY DEF AckedOk
  <2>2. i \in 1 .. m /\ i <= d
    BY <1>1, d \in Nat
  <2>3. K[i].whole /\ K[i].ended /\ K[i].hash = a
    BY <1>3, <2>1, <2>2
  <2>4. ASSUME NEW j \in i .. Len(K)
        PROVE  IsExtension(a, K[j].hash)
    <3>1. j \in 1 .. m /\ j \in i .. Len(L)
      BY <1>1, <2>2
    <3> QED
      BY <1>3, <2>1, <3>1
  <2> QED
    BY <2>2, <2>3, <2>4
<1> QED
  BY <1>6, <1>7

LEMMA PowerLossSurvivors ==
  ASSUME FaultInv, PowerLoss
  PROVE  lines' \in Seq(Line) /\ durable' \in Nat
         /\ Survives(lines', lines, durable', durable)
<1>1. lines \in Seq(Line) /\ durable \in Nat /\ Len(lines) \in Nat
  BY DEF FaultInv, TypeOK
<1>2. PICK k \in durable .. Len(lines) :
       \/ /\ lines' = SubSeq(lines, 1, k)
          /\ durable' = k
       \/ /\ k < Len(lines)
          /\ \E w \in BOOLEAN :
               lines' = Append(SubSeq(lines, 1, k),
                          [lines[k + 1] EXCEPT !.whole = w, !.ended = FALSE])
          /\ durable' = k + 1
  BY DEF PowerLoss
<1> DEFINE S == SubSeq(lines, 1, k)
<1>3. /\ S \in Seq(Line) /\ Len(S) = k /\ k \in Nat /\ durable <= k
      /\ k <= Len(lines) /\ \A i \in 1 .. k : S[i] = lines[i]
  BY <1>1
<1> HIDE DEF S
<1>4. CASE lines' = SubSeq(lines, 1, k) /\ durable' = k
  BY <1>3, <1>4 DEF S, Survives
<1>5. ASSUME k < Len(lines), durable' = k + 1, NEW w \in BOOLEAN,
             lines' = Append(SubSeq(lines, 1, k),
                        [lines[k + 1] EXCEPT !.whole = w, !.ended = FALSE])
      PROVE  /\ lines' \in Seq(Line) /\ durable' \in Nat
             /\ Survives(lines', lines, durable', durable)
  <2> DEFINE y == lines[k + 1]
             x == [lines[k + 1] EXCEPT !.whole = w, !.ended = FALSE]
  <2>1. y \in Line
    BY <1>1, <1>3, <1>5
  <2>2. x \in Line /\ x.seg = y.seg /\ x.sequence = y.sequence /\ x.hash = y.hash
    <3> HIDE DEF y
    <3>1. [y EXCEPT !.whole = w, !.ended = FALSE] \in Line
          /\ [y EXCEPT !.whole = w, !.ended = FALSE].seg = y.seg
          /\ [y EXCEPT !.whole = w, !.ended = FALSE].sequence = y.sequence
          /\ [y EXCEPT !.whole = w, !.ended = FALSE].hash = y.hash
      BY <2>1 DEF Line
    <3> QED
      BY <3>1 DEF y
  <2>3. lines' = Append(S, x)
    BY <1>5 DEF S
  <2> HIDE DEF x
  <2>4. /\ Append(S, x) \in Seq(Line) /\ Len(Append(S, x)) = k + 1
        /\ \A i \in 1 .. k : Append(S, x)[i] = lines[i]
        /\ Append(S, x)[k + 1] = x
    BY <1>3, <2>2
  <2>5. \A i \in 1 .. k + 1 : i \in 1 .. k \/ i = k + 1
    BY <1>3
  <2>6. ASSUME NEW i \in 1 .. k + 1
        PROVE  /\ Append(S, x)[i].seg = lines[i].seg
               /\ Append(S, x)[i].sequence = lines[i].sequence
               /\ Append(S, x)[i].hash = lines[i].hash
               /\ i < k + 1 \/ i <= durable =>
                    /\ Append(S, x)[i].whole = lines[i].whole
                    /\ Append(S, x)[i].ended = lines[i].ended
    <3>1. CASE i \in 1 .. k
      BY <2>4, <3>1
    <3>2. CASE i = k + 1
      BY <1>1, <1>3, <2>2, <2>4, <3>2
    <3> QED
      BY <2>5, <3>1, <3>2
  <2>7. k + 1 \in Nat /\ durable <= k + 1 /\ k + 1 <= Len(lines)
    BY <1>1, <1>3, <1>5
  <2>8. Survives(Append(S, x), lines, k + 1, durable)
    BY <2>4, <2>6, <2>7 DEF Survives
  <2> QED
    BY <1>5, <2>3, <2>4, <2>7, <2>8
<1> QED
  BY <1>2, <1>4, <1>5

LEMMA PowerLossInOrder ==
  ASSUME FaultInv, PowerLoss
  PROVE  FaultInv'
<1>1. /\ lines \in Seq(Line) /\ durable \in Nat /\ segments \in Nat
      /\ acked \in Seq(Events) /\ anchor \in Anchor
      /\ DirOk(lines, durable, segments) /\ AckedOk(acked, lines, durable)
  BY DEF FaultInv, TypeOK
<1>2. /\ lines' \in Seq(Line) /\ durable' \in Nat
      /\ Survives(lines', lines, durable', durable)
  BY PowerLossSurvivors
<1>3. /\ proc' = [n \in Nodes |-> Down] /\ lock' = NoNode
      /\ segments' = segments /\ acked' = acked
  BY DEF PowerLoss
<1>4. anchor' \in Anchor
  BY <1>1, DropAnchorType DEF PowerLoss
<1> DEFINE K == lines'
           m == durable'
<1>5. K \in Seq(Line) /\ m \in Nat /\ Survives(K, lines, m, durable)
  BY <1>2
<1> HIDE DEF K, m
<1>6. DirOk(K, m, segments) /\ AckedOk(acked, K, m)
  BY <1>1, <1>5, SurvivorsInOrder
<1>7. DirOk(lines', durable', segments') /\ AckedOk(acked', lines', durable')
  BY <1>3, <1>6 DEF K, m
<1>8. Down.pc = "down" /\ Blank(Down)
  BY DEF Down, Blank
<1>9. ASSUME NEW n \in Nodes
      PROVE  WriterOk(n, proc'[n], lines', durable', segments', lock', acked')
  <2>1. proc'[n] = Down
    BY <1>3
  <2> QED
    BY <1>8, <2>1, DownWriter
<1>10. proc' \in [Nodes -> Proc]
  BY <1>3, DownType
<1>11. TypeOK'
  BY <1>1, <1>2, <1>3, <1>4, <1>10 DEF TypeOK
<1> QED
  BY <1>7, <1>9, <1>11 DEF FaultInv

-------------------------------------------------------------------------------
(* Anchors *)

LEMMA AnchorReadsKeep ==
  ASSUME FaultInv, NEW n \in Nodes,
         AnchorSequence(n) \/ AnchorHash(n) \/ AnchorSign(n)
  PROVE  FaultInv'
<1>1. Known(n)
  BY FaultKnown
<1>2. UNCHANGED <<lines, durable, segments, lock, proc, acked>>
  BY DEF AnchorSequence, AnchorHash, AnchorSign
<1>3. /\ proc[n].sequence \in Nat /\ proc[n].last_hash \in Seq(Events)
      /\ anchor \in Anchor
  BY <1>1 DEF Known, Proc
<1>4. anchor' \in Anchor
  <2>1. CASE AnchorSequence(n)
    BY <1>3, <2>1 DEF AnchorSequence, Anchor, Genesis
  <2>2. CASE AnchorHash(n)
    BY <1>3, <2>2 DEF AnchorHash, Anchor
  <2>3. CASE AnchorSign(n)
    BY <1>3, <2>3 DEF AnchorSign, Anchor
  <2> QED
    BY <2>1, <2>2, <2>3
<1>5. TypeOK'
  BY <1>2, <1>4 DEF FaultInv, TypeOK
<1> QED
  BY <1>2, <1>5 DEF FaultInv

LEMMA AnchorRecordKeeps ==
  ASSUME FaultInv, NEW n \in Nodes, AnchorRecord(n)
  PROVE  FaultInv'
<1>1. /\ WriteAll(n, LogAccess)
      /\ UNCHANGED <<lines, durable, segments, lock, acked>>
  BY DEF AnchorRecord
<1>2. anchor' \in Anchor
  BY DEF FaultInv, TypeOK, AnchorRecord, Anchor
<1> QED
  BY <1>1, <1>2, WriteAllKeeps, ConstantsAssumption

-------------------------------------------------------------------------------
LEMMA FaultInvInit == Init => FaultInv
<1> SUFFICES ASSUME Init PROVE FaultInv
  OBVIOUS
<1>1. TypeOK
  BY DownType DEF Init, TypeOK, NoAnchor, Anchor, Genesis
<1>2. DirOk(lines, durable, segments)
  BY DEF Init, DirOk
<1>3. AckedOk(acked, lines, durable)
  BY DEF Init, AckedOk
<1>4. Down.pc = "down" /\ Blank(Down)
  BY DEF Down, Blank
<1>5. \A n \in Nodes : WriterOk(n, proc[n], lines, durable, segments, lock, acked)
  BY <1>4, DownWriter DEF Init
<1> QED
  BY <1>1, <1>2, <1>3, <1>5 DEF FaultInv

LEMMA FaultInvNext == FaultInv /\ [Next]_vars => FaultInv'
<1> SUFFICES ASSUME FaultInv, [Next]_vars PROVE FaultInv'
  OBVIOUS
<1>1. CASE UNCHANGED vars
  BY <1>1 DEF vars, FaultInv, TypeOK
<1>2. CASE PowerLoss
  BY <1>2, PowerLossInOrder
<1>3. ASSUME NEW n \in Nodes,
             \/ Acquire(n) \/ Resume(n) \/ Create(n) \/ OpenFails(n)
             \/ \E e \in Events : BeginAppend(n, e)
             \/ Flush(n) \/ SyncData(n) \/ Commit(n) \/ Rotate(n)
             \/ FlushFails(n) \/ SyncFails(n) \/ RotateFails(n)
             \/ Close(n) \/ Crash(n)
             \/ AnchorSequence(n) \/ AnchorHash(n) \/ AnchorRecord(n)
             \/ AnchorSign(n)
      PROVE  FaultInv'
  <2>1. CASE Acquire(n) \/ Resume(n) \/ Create(n) \/ OpenFails(n)
    BY <2>1, AcquireKeeps, ResumeKeeps, CreateKeeps, OpenFailsKeeps
  <2>2. CASE \E e \in Events : BeginAppend(n, e)
    BY <2>2, BeginAppendKeeps
  <2>3. CASE Flush(n) \/ SyncData(n) \/ Commit(n) \/ Rotate(n)
    BY <2>3, FlushKeeps, SyncDataKeeps, CommitKeeps, RotateKeeps
  <2>4. CASE FlushFails(n)
    BY <2>4, FlushFailsKeeps
  <2>5. CASE SyncFails(n) \/ RotateFails(n)
    <3>1. /\ AppendErr(n, proc[n]) /\ proc[n].pc \notin {"down", "locked"}
          /\ UNCHANGED <<lines, durable, segments, acked, anchor>>
      BY <2>5 DEF SyncFails, RotateFails
    <3> QED
      BY <3>1, AppendErrHere
  <2>6. CASE Close(n) \/ Crash(n)
    BY <2>6, CloseKeeps, CrashKeeps
  <2>7. CASE AnchorSequence(n) \/ AnchorHash(n) \/ AnchorSign(n)
    BY <2>7, AnchorReadsKeep
  <2>8. CASE AnchorRecord(n)
    BY <2>8, AnchorRecordKeeps
  <2> QED
    BY <1>3, <2>1, <2>2, <2>3, <2>4, <2>5, <2>6, <2>7, <2>8
<1> QED
  BY <1>1, <1>2, <1>3 DEF Next

\* The invariant behind the three results below.
THEOREM FaultInvariant == Spec => []FaultInv
<1> QED
  BY FaultInvInit, FaultInvNext, PTL DEF Spec

\* Type correctness of the log's state (log.rs, LogState), whatever fails.
THEOREM TypeCorrect == Spec => []TypeOK
<1>1. FaultInv => TypeOK
  BY DEF FaultInv
<1> QED
  BY <1>1, FaultInvariant, PTL

LEMMA AckedFromFaultInv == FaultInv => AckedSurvives
<1> SUFFICES ASSUME FaultInv, NEW k \in 1 .. Len(acked)
             PROVE  \E i \in DOMAIN lines :
                      /\ lines[i].whole /\ lines[i].hash = SubSeq(acked, 1, k)
                      /\ (k = Len(acked)) => lines[i].ended
                      /\ \/ Parses(i) \/ ~lines[i].ended
                         \/ i > 1 /\ ~lines[i - 1].ended
  BY DEF AckedSurvives
<1>1. /\ lines \in Seq(Line) /\ durable \in Nat /\ acked \in Seq(Events)
      /\ DirOk(lines, durable, segments) /\ AckedOk(acked, lines, durable)
  BY DEF FaultInv, TypeOK
<1>2. acked # Genesis
  BY <1>1 DEF Genesis
<1>3. PICK i \in 1 .. durable :
        lines[i].whole /\ lines[i].ended /\ lines[i].hash = acked
  BY <1>1, <1>2 DEF AckedOk
<1>4. i \in DOMAIN lines
  BY <1>1 DEF DirOk
<1>5. PICK j \in 1 .. i : lines[j].hash = SubSeq(acked, 1, k)
  BY <1>1, <1>3, <1>4 DEF DirOk
<1>6. j \in DOMAIN lines /\ (j = i \/ j < i)
  BY <1>1, <1>4
<1>7. lines[j].whole
  BY <1>1, <1>3, <1>4, <1>6 DEF DirOk
<1>8. ASSUME NEW x \in DOMAIN lines, lines[x].whole
      PROVE  Parses(x) \/ ~lines[x].ended \/ (x > 1 /\ ~lines[x - 1].ended)
  <2>1. x \in Nat /\ (x + 1) - 1 = x /\ DOMAIN lines = 1 .. Len(lines)
    BY <1>1
  <2>2. Glued(x + 1) => ~lines[x].ended
    BY <2>1 DEF Glued
  <2>3. Glued(x) => x > 1 /\ ~lines[x - 1].ended
    BY <2>1 DEF Glued
  <2> QED
    BY <1>8, <2>2, <2>3 DEF Parses
<1>9. CASE k = Len(acked)
  <2>1. SubSeq(acked, 1, k) = acked
    BY <1>1, <1>9
  <2> QED
    BY <1>3, <1>4, <1>8, <2>1
<1> QED
  BY <1>5, <1>6, <1>7, <1>8, <1>9

\* No acknowledged entry is ever lost from the files, newline included (log.rs,
\* append with fsync_on_write), even when writes fail, buffers are retried and
\* power loss tears a line; readers miss only one glued to a torn line.
THEOREM AcknowledgedIsKept == Spec => []AckedSurvives
BY FaultInvariant, AckedFromFaultInv, PTL

\* An acknowledgement never rewrites an earlier one (log.rs, append), whatever
\* failed in between.
THEOREM AcknowledgementsExtend == Spec => AckedExtends
<1>1. FaultInv /\ [Next]_vars => [IsExtension(acked, acked')]_acked
  <2> SUFFICES ASSUME FaultInv, [Next]_vars, acked' # acked
               PROVE  IsExtension(acked, acked')
    OBVIOUS
  <2>1. PICK n \in Nodes : Commit(n) \/ Rotate(n)
    <3>1. Next /\ ~PowerLoss
      BY DEF vars, PowerLoss
    <3>2. PICK n \in Nodes :
             \/ Acquire(n) \/ Resume(n) \/ Create(n) \/ OpenFails(n)
             \/ \E e \in Events : BeginAppend(n, e)
             \/ Flush(n) \/ SyncData(n) \/ Commit(n) \/ Rotate(n)
             \/ FlushFails(n) \/ SyncFails(n) \/ RotateFails(n)
             \/ Close(n) \/ Crash(n)
             \/ AnchorSequence(n) \/ AnchorHash(n) \/ AnchorRecord(n)
             \/ AnchorSign(n)
      BY <3>1 DEF Next
    <3> QED
      BY <3>2 DEF Acquire, Resume, Create, OpenFails, BeginAppend, Flush,
         SyncData, FlushFails, SyncFails, RotateFails, Close, Crash,
         AnchorSequence, AnchorHash, AnchorRecord, AnchorSign
  <2>2. Known(n) /\ proc[n].pc \notin {"down", "locked"}
    BY <2>1, FaultKnown DEF Commit, Rotate
  <2>3. /\ IsExtension(acked, proc[n].last_hash) /\ acked \in Seq(Events)
        /\ proc[n].last_hash \in Seq(Events) /\ proc[n].event \in Events
    BY <2>2, OpenKnown DEF Known, OpenOk, Proc
  <2>4. IsExtension(acked, Append(proc[n].last_hash, proc[n].event))
    BY <2>3, ExtensionFacts
  <2>5. \/ acked' = Append(proc[n].last_hash, proc[n].event)
        \/ acked' = proc[n].last_hash
    BY <2>1 DEF Commit, Rotate
  <2> QED
    BY <2>3, <2>4, <2>5
<1> QED
  BY <1>1, FaultInvariant, PTL DEF Spec, AckedExtends

===============================================================================
