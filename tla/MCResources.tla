----------------------------- MODULE MCResources -----------------------------
(* Resources on a small instance. *)
EXTENDS Resources

Segment(va, m, fs) == [vaddr |-> va, memsz |-> m, filesz |-> fs]
Program(segs, n) == [segs |-> segs, args |-> n]

\* A program that fits, and programs that exec() refuses after more and more
\* of its work: a segment that wraps, one that is not aligned, one that leaves
\* no room below KERNBASE, and arguments that do not fit on the stack.
MCPrograms ==
  {Program(<<Segment(0, 1, 1)>>, 1),
   Program(<<Segment(0, 1, 1), Segment(2, 2, 1)>>, 3),
   Program(<<Segment(0, 1, 1), Segment(1, 2, 1)>>, 1),
   Program(<<Segment(62, 3, 1)>>, 1),
   Program(<<Segment(0, 9, 1)>>, 1)}
MCIncrements == {3, -2, -3}
=============================================================================
