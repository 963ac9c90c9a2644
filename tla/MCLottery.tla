------------------------------ MODULE MCLottery ------------------------------
(* Lottery on small instances. *)
EXTENDS Lottery, TLC

\* priority() of a negative number
MCPriorities == {-1}

Symmetry == Permutations(CPUs)
=============================================================================
