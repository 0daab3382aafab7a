------------------------------ MODULE Iteration ------------------------------
(***************************************************************************)
(* Repeated application of a function, as a recursive function: the form   *)
(* in which every pointer walk of the allocator is written, so that it can *)
(* be evaluated and reasoned about alike.                                  *)
(***************************************************************************)
EXTENDS Naturals

\* Iterate(F, x)[n] is F applied n times to x.
Iterate(F, x) ==
  LET walk[n \in Nat] == IF n = 0 THEN x ELSE F[walk[n - 1]] IN walk
=============================================================================
