---------------------------- MODULE MCBusinessSave ----------------------------
(* Symmetry for BusinessSave: sessions differ by what Init chooses only.   *)
EXTENDS BusinessSave, TLC

Symmetry == Permutations(Sessions)

=============================================================================
