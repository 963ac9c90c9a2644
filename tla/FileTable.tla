------------------------------ MODULE FileTable ------------------------------
(***************************************************************************)
(* The table of open files of file.c, and the ends of pipes of pipe.c as   *)
(* the files refer to them.  The operators give the table after a section  *)
(* under ftable.lock.                                                      *)
(***************************************************************************)
EXTENDS Naturals, FiniteSets

CONSTANTS NFILE, None

VARIABLES
  ftable,  \* file -> [ref, type, pipe, writable]
  pipes    \* page of a struct pipe -> its open ends, a set of BOOLEAN: TRUE is
           \* writeopen, FALSE readopen

FileIds == 1 .. NFILE

NoFile == [ref |-> 0, type |-> "NONE", pipe |-> 0, writable |-> FALSE]

\* filealloc(): the first file without references, None when there is none.
filealloc(t) ==
  IF \A f \in FileIds : t[f].ref > 0 THEN None
  ELSE CHOOSE f \in FileIds : /\ t[f].ref = 0
                              /\ \A g \in FileIds : t[g].ref = 0 => f <= g

Allocated(t) == [t EXCEPT ![filealloc(t)].ref = 1]

filedup(t, f) == [t EXCEPT ![f].ref = @ + 1]

\* Mutant of Dropped: the type stays.
DroppedTyped(t, f) == [t EXCEPT ![f].ref = @ - 1]

\* The section of fileclose().
Dropped(t, f) ==
  [t EXCEPT ![f].ref = @ - 1,
            ![f].type = IF t[f].ref = 1 THEN "NONE" ELSE @]
=============================================================================
