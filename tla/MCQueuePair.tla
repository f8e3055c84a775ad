---------------------------- MODULE MCQueuePair -----------------------------
(* The instances of QueuePair that TLC checks. *)
EXTENDS QueuePair, TLC

\* Variables, connectors, operations and native queue pairs are
\* interchangeable.
Symmetry == Permutations(Qps) \cup Permutations(Conns)
              \cup Permutations(Ops) \cup Permutations(Natives)
=============================================================================
