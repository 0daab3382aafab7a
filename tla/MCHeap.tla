-------------------------------- MODULE MCHeap --------------------------------
(* Two tasks on a small runMem; header, context and slack are scaled down. *)
EXTENDS ARSHeap, TLC

CONSTANTS t1, t2
MCTask == {t1, t2}
MCTraced == Addr
Symmetry == Permutations(MCTask)
=============================================================================
