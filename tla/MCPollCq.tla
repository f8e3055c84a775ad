------------------------------ MODULE MCPollCq ------------------------------
(* The instances of PollCq that TLC checks. *)
EXTENDS PollCq, TLC

\* Operations are interchangeable.
Symmetry == Permutations(Ops)
=============================================================================
