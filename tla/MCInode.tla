------------------------------ MODULE MCInode -------------------------------
(* Inode on small instances. *)
EXTENDS Inode, TLC

CONSTANTS a, b  \* names

A == [abs |-> FALSE, elems |-> <<a>>]     \* a
Up == [abs |-> FALSE, elems |-> <<"..">>]  \* ..
AB == [abs |-> TRUE, elems |-> <<a, b>>]   \* /a/b

Slash == [abs |-> TRUE, elems |-> <<>>]    \* /

ShortPaths == {A, Up, AB, Slash}

ShortCalls ==
  {"open", "link", "mkdir"} \X {A} \cup {"chdir", "unlink", "creat"} \X {A, Up}
    \cup {"unlink", "mknod"} \X {AB} \cup {<<"unlink", Slash>>}

Symmetry == Permutations(Procs) \cup Permutations(Inums \ {Root})
=============================================================================
