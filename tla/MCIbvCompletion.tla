-------------------------- MODULE MCIbvCompletion ---------------------------
(* The instances of IbvCompletion that TLC checks. *)
EXTENDS IbvCompletion, TLC

\* Operations are interchangeable, and so are queue pairs.
Symmetry == Permutations(Ops) \cup Permutations(QPs)
=============================================================================
