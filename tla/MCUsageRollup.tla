---------------------------- MODULE MCUsageRollup ---------------------------
(* UsageRollup for TLC: runs are interchangeable. *)
EXTENDS UsageRollup, TLC

Symmetry == Permutations(Run)
=============================================================================
