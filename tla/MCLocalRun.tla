----------------------------- MODULE MCLocalRun -----------------------------
(***************************************************************************)
(* Local runs for TLC: examples, uploads and finish requests are each      *)
(* interchangeable.  The symmetry is used only for invariants.             *)
(***************************************************************************)
EXTENDS LocalRun, TLC

RequestSymmetry ==
  Permutations(Examples) \cup Permutations(Uploads) \cup Permutations(Finishes)
=============================================================================
