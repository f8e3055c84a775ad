----------------------------- MODULE MCListener -----------------------------
(* The instances of Listener that TLC checks. *)
EXTENDS Listener
=============================================================================
