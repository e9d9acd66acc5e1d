----------------------------- MODULE MCAuditLog -----------------------------
(* Small instances of AuditLog for TLC. *)
EXTENDS AuditLog, TLC

\* The nodes are interchangeable.
NodeSymmetry == Permutations(Nodes)

=============================================================================
