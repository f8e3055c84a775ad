---------------------------- MODULE MCNdConnector ---------------------------
(* The instances of NdConnector that TLC checks. *)
EXTENDS NdConnector, TLC

\* Threads are interchangeable, and so are operations of one kind.
Symmetry == Permutations(Threads) \cup Permutations(ConnOps)
              \cup Permutations(Watchers)
=============================================================================
