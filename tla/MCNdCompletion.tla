--------------------------- MODULE MCNdCompletion ---------------------------
(* The instances of NdCompletion that TLC checks. *)
EXTENDS NdCompletion, TLC

\* Operations are interchangeable.
Symmetry == Permutations(Ops)
=============================================================================
