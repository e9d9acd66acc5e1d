---------------------------- MODULE AppendOnlyLog ----------------------------
(***************************************************************************)
(* What the audit log promises: entries are added at the tail, a caller    *)
(* may be told that everything up to some point is recorded, and only what *)
(* nobody was told about can disappear.                                    *)
(***************************************************************************)
EXTENDS Naturals, Sequences

VARIABLES
  log,    \* the recorded events, oldest first
  acked   \* how many of them some caller was told are recorded

Init == log = << >> /\ acked = 0

\* New events reach the log; several at once when a buffer is flushed.
Extend ==
  /\ Len(log) < Len(log')
  /\ SubSeq(log', 1, Len(log)) = log
  /\ UNCHANGED acked

\* A caller is told.
Acknowledge ==
  /\ acked' \in acked .. Len(log)
  /\ UNCHANGED log

\* A failure discards a tail nobody was told about.
Lose ==
  /\ \E k \in acked .. Len(log) : log' = SubSeq(log, 1, k)
  /\ UNCHANGED acked

Next == Extend \/ Acknowledge \/ Lose

Spec == Init /\ [][Next]_<<log, acked>>

=============================================================================
