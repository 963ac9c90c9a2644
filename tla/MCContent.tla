------------------------------ MODULE MCContent ------------------------------
(* Content on a small instance. *)
EXTENDS Content, TLC

Symmetry == Permutations(Procs) \cup Permutations(Files)

\* Bytes that differ from their neighbours, from each other's, and from 0.
MCWrites == {<<1>>, <<2, 1, 2>>}
=============================================================================
