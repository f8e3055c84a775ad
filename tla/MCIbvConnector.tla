--------------------------- MODULE MCIbvConnector ---------------------------
(* The instances of IbvConnector that TLC checks. *)
EXTENDS IbvConnectorRefinement, TLC

\* Threads are interchangeable, and so are connect/accept operations.
Symmetry == Permutations(Threads) \cup Permutations(ConnOps)
=============================================================================
