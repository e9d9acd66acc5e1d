----------------------------- MODULE MCAdmission -----------------------------
(* Small instances of Admission for TLC. *)
EXTENDS Admission, TLC

CONSTANTS good, stray, root, alice, eve, admin, m1, m2

\* A connection of alice with her pinned certificate, one of eve, who probes
\* for a model she may not use, one of the administrator, and one with only
\* alice's name in a header.
MCPeer ==
  "k1" :> [client |-> alice, cert |-> good, verified |-> TRUE]
    @@ "k2" :> [client |-> eve, cert |-> stray, verified |-> TRUE]
    @@ "k3" :> [client |-> admin, cert |-> root, verified |-> TRUE]
    @@ "k4" :> [client |-> alice, cert |-> stray, verified |-> FALSE]

MCConns == DOMAIN MCPeer

MCPolicy ==
  alice :> [active |-> TRUE, models |-> {m1}, pins |-> {good},
            admin |-> FALSE]
    @@ eve :> [active |-> TRUE, models |-> {m1}, pins |-> {}, admin |-> FALSE]
    @@ admin :> [active |-> TRUE, models |-> {}, pins |-> {}, admin |-> TRUE]

MCAsks == "k1" :> {m1} @@ "k2" :> {m2} @@ "k3" :> {} @@ "k4" :> {m1}

\* Prose, and one long base64 run.
MCTexts ==
  {[entropy |-> 4200, run |-> 60, hex |-> 20, digits |-> 10, delims |-> 20,
    odd |-> 0],
   [entropy |-> 6000, run |-> 1000, hex |-> 40, digits |-> 150, delims |-> 0,
    odd |-> 0]}
=============================================================================
