------------------------------ MODULE FileArray ------------------------------
(***************************************************************************)
(* What inodes and open files promise: a file is an array of bytes, a      *)
(* struct file is a position in one, and a call reads or overwrites the    *)
(* bytes at the position, or appends, at one moment.                       *)
(***************************************************************************)
EXTENDS Naturals, Sequences

CONSTANTS
  Inodes, Files, Procs,
  Mkfs,      \* the program that makes the file system
  MaxBytes,  \* MAXFILE*BSIZE
  None

VARIABLES
  bytes,   \* inode -> its contents, None when it is free
  pos,     \* struct file -> [ip, off], None when it is closed
  todo,    \* process or mkfs -> the bytes it still has to write
  result,  \* process -> what its last read() or fstat() returned
  booted   \* mkfs is done

vars == <<bytes, pos, todo, result, booted>>

Init ==
  /\ bytes = [i \in Inodes |-> None]
  /\ pos = [f \in Files |-> None]
  /\ todo = [p \in Procs \cup {Mkfs} |-> <<>>]
  /\ result = [p \in Procs |-> <<>>]
  /\ booted = FALSE

-----------------------------------------------------------------------------
(* mkfs makes files, appends to them, and fills the root's last block.     *)

Make(i) ==
  /\ bytes[i] = None
  /\ bytes' = [bytes EXCEPT ![i] = <<>>]
  /\ UNCHANGED <<pos, todo, result, booted>>

\* k bytes of what mkfs was given go to the end of a file.
AppendTo(i, k) ==
  /\ ~booted
  /\ bytes[i] # None
  /\ bytes' = [bytes EXCEPT ![i] = @ \o SubSeq(todo[Mkfs], 1, k)]
  /\ todo' = [todo EXCEPT ![Mkfs] = SubSeq(@, k + 1, Len(@))]
  /\ UNCHANGED <<pos, result, booted>>

\* The last block of the root directory is filled with empty entries.
Boot(i, k) ==
  /\ ~booted /\ booted' = TRUE /\ bytes[i] # None
  /\ bytes' = [bytes EXCEPT ![i] = @ \o [j \in 1 .. k |-> 0]]
  /\ UNCHANGED <<pos, todo, result>>

-----------------------------------------------------------------------------
(* System calls.                                                           *)

Open(f, i) ==
  /\ pos[f] = None
  /\ bytes[i] # None
  /\ pos' = [pos EXCEPT ![f] = [ip |-> i, off |-> 0]]
  /\ UNCHANGED <<bytes, todo, result, booted>>

Close(f) ==
  /\ pos' = [pos EXCEPT ![f] = None]
  /\ UNCHANGED <<bytes, todo, result, booted>>

\* An inode without names and files is free again.
Remove(i) ==
  /\ \A f \in Files : pos[f] # None => pos[f].ip # i
  /\ bytes' = [bytes EXCEPT ![i] = None]
  /\ UNCHANGED <<pos, todo, result, booted>>

StartWrite(p) ==
  /\ todo[p] = <<>>
  /\ todo' = [todo EXCEPT ![p] = todo'[p]]
  /\ UNCHANGED <<bytes, pos, result, booted>>

\* The bytes of a file after s is written at offset o.
Overwritten(file, o, s) ==
  SubSeq(file, 1, o) \o s \o SubSeq(file, o + Len(s) + 1, Len(file))

\* k bytes of the write go where the struct file stands, and it moves on.
Write(p, f, k) ==
  LET i == pos[f].ip
      o == pos[f].off IN
  /\ pos[f] # None
  /\ o + k <= MaxBytes
  /\ bytes' = [bytes EXCEPT ![i] = Overwritten(@, o, SubSeq(todo[p], 1, k))]
  /\ pos' = [pos EXCEPT ![f].off = o + k]
  /\ todo' = [todo EXCEPT ![p] = SubSeq(@, k + 1, Len(@))]
  /\ UNCHANGED <<result, booted>>

\* A write past the largest file fails and leaves the rest unwritten.
GiveUp(p, f) ==
  /\ pos[f] # None
  /\ pos[f].off + Len(todo[p]) > MaxBytes
  /\ todo' = [todo EXCEPT ![p] = <<>>]
  /\ UNCHANGED <<bytes, pos, result, booted>>

\* A read of at most n bytes gets all there are up to n.
Read(p, f, n) ==
  LET file == bytes[pos[f].ip]
      o == pos[f].off
      e == IF o + n > Len(file) THEN Len(file) ELSE o + n IN
  /\ pos[f] # None
  /\ o <= Len(file)
  /\ result' = [result EXCEPT ![p] = SubSeq(file, o + 1, e)]
  /\ pos' = [pos EXCEPT ![f].off = e]
  /\ UNCHANGED <<bytes, todo, booted>>

Stat(p, f) ==
  /\ pos[f] # None
  /\ result' = [result EXCEPT ![p] = <<Len(bytes[pos[f].ip])>>]
  /\ UNCHANGED <<bytes, pos, todo, booted>>

\* A crash closes all files; their bytes are on the disk.
Crash ==
  /\ pos' = [f \in Files |-> None]
  /\ todo' = [p \in Procs \cup {Mkfs} |-> <<>>]
  /\ UNCHANGED <<bytes, result, booted>>

Next ==
  \/ \E i \in Inodes : Make(i) \/ Remove(i)
  \/ \E i \in Inodes, k \in 0 .. Len(todo[Mkfs]) : AppendTo(i, k)
  \/ \E i \in Inodes, k \in 0 .. MaxBytes : Boot(i, k)
  \/ \E f \in Files : Close(f) \/ \E i \in Inodes : Open(f, i)
  \/ \E p \in Procs \cup {Mkfs} : StartWrite(p)
  \/ \E p \in Procs :
       \E f \in Files :
            \/ GiveUp(p, f) \/ Stat(p, f)
            \/ \E k \in 1 .. Len(todo[p]) : Write(p, f, k)
            \/ \E n \in 0 .. MaxBytes : Read(p, f, n)
  \/ Crash

Spec == Init /\ [][Next]_vars
=============================================================================
