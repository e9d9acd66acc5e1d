--------------------------- MODULE MCAttestation ---------------------------
(* Attestation for TLC: one client or two, every source of measurements.   *)
EXTENDS Attestation
=============================================================================
