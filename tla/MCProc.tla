------------------------------- MODULE MCProc -------------------------------
(* Proc on small instances. *)
EXTENDS Proc, TLC

Symmetry == Permutations(Slots \ {InitProc}) \cup Permutations(CPUs)
=============================================================================
