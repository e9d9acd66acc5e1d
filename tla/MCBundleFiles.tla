---------------------------- MODULE MCBundleFiles ----------------------------
(* Small instances of BundleFiles for TLC. *)
EXTENDS BundleFiles, TLC

=============================================================================
