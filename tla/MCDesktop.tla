----------------------------- MODULE MCDesktop -----------------------------
(* A small instance of Desktop for TLC. *)
EXTENDS Desktop, TLC

CONSTANTS c1, c2, c3, c4

(* Open to other machines, on this machine only, and hardened. *)
MCChoices ==
  LET r == [DefaultSettings EXCEPT !.model = "plain", !.remote = TRUE]
      v == [r EXCEPT !.model = "bundle", !.remote = FALSE, !.mode = "vault",
                     !.source = "tpm2", !.ak = TRUE, !.pcrs = TRUE]
      l == [DefaultSettings EXCEPT !.model = "bundle",
                                   !.start_on_launch = FALSE]
  IN  {r, l, v}

(* Two certificates of one client, one that would name the console, and    *)
(* one of another client, whose issue may overlap a revocation.            *)
MCClientOf ==
  c1 :> "client" @@ c2 :> "client" @@ c3 :> "console" @@ c4 :> "other"
=============================================================================
