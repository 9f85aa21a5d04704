------------------------------- MODULE MCWorker -------------------------------
(* Symmetry for the instances of Worker: sessions, workers and io threads  *)
(* are interchangeable.                                                    *)
EXTENDS Worker, TLC

Symmetry ==
  Permutations(Sessions) \cup Permutations(Workers) \cup Permutations(IoThreads)

=============================================================================
