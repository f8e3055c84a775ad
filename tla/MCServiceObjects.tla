-------------------------- MODULE MCServiceObjects --------------------------
(* The instances of ServiceObjects that TLC checks. *)
EXTENDS ServiceObjects, TLC

\* Addresses, io_contexts and handles are interchangeable.
Symmetry == Permutations(Impls) \cup Permutations(Services) \cup Permutations(Natives)
=============================================================================
