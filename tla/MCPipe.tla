------------------------------- MODULE MCPipe -------------------------------
(* Pipe on small instances. *)
EXTENDS Pipe, TLC

Symmetry ==
  Permutations(Readers) \cup Permutations(Writers) \cup Permutations(Bytes)
=============================================================================
