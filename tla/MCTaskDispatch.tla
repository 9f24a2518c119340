--------------------------- MODULE MCTaskDispatch ---------------------------
(* TLC's instance of TaskDispatch: threads and requests are interchangeable. *)
EXTENDS TaskDispatch, TLC

Symmetry == Permutations(Thread) \cup Permutations(User)
=============================================================================
