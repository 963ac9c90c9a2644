-------------------------------- MODULE MCBio --------------------------------
(* Bio on small instances. *)
EXTENDS Bio

Symmetry ==
  Permutations(Procs) \cup Permutations(Blocks) \cup Permutations(Bufs)
    \cup Permutations(Data)
=============================================================================
