------------------------------- MODULE Content -------------------------------
(***************************************************************************)
(* The contents of inodes: mkfs.c, which lays out the first files, then    *)
(* balloc(), bfree(), bmap(), itrunc(), readi() and writei() of fs.c under *)
(* fileread(), filewrite() and filestat() of file.c.                       *)
(*                                                                         *)
(* A block is BSIZE cells.  A cell holds a byte or, in an indirect block,  *)
(* a block number, so that NINDIRECT = BSIZE; 0 is "no block".  A step     *)
(* works on one buffer (bread() to brelse()).  A crash is modelled between *)
(* transactions: Log shows that a crash inside one is as if it had come    *)
(* before it.  iput() frees an inode without its lock and in two writes;   *)
(* a create() that takes the inode between them ends the behaviour.        *)
(***************************************************************************)
EXTENDS Integers, Sequences, FiniteSets, FiniteSetsExt

CONSTANTS
  Procs,
  Inodes,     \* inode numbers, 1 is ROOTINO
  MkfsInodes, \* those that mkfs makes: 1 .. MkfsInodes
  Files,      \* struct files
  Nmeta,      \* blocks before the data blocks
  FSSIZE,     \* blocks of the disk
  BSIZE, NDIRECT,
  MaxChunk,   \* most bytes filewrite() writes in a transaction
  Writes,     \* what processes and mkfs write: sequences of bytes
  Reads,      \* numbers of bytes read
  MkfsCalls,  \* bound on the calls of iappend()
  Calls,      \* bound on the system calls
  Mkfs, None

ASSUME ContentAssumption ==
  /\ 1 \in Inodes /\ 1 .. MkfsInodes \subseteq Inodes
  /\ BSIZE \in Nat \ {0} /\ NDIRECT \in Nat \ {0} /\ MaxChunk \in Nat \ {0}
  /\ Nmeta \in 1 .. FSSIZE
  /\ None \notin Inodes /\ Mkfs \notin Procs

VARIABLES
  disk,     \* data block -> cells
  bitmap,   \* blocks marked in use
  dinode,   \* inode -> [size, addrs] on the disk, None: its type is 0
  named,    \* inodes with nlink > 0
  mem,      \* inode -> [size, addrs] in the cache with I_VALID, or None
  ilocked,  \* inode -> the process that has it locked, or None
  file,     \* struct file -> [ip, off], or None
  mk,       \* mkfs: [pc, inum, given, left, off, addrs, freeblock, freeinode]
  pr,       \* process -> its variables, see Idle
  calls, panicked,
  overtaken \* create() has taken an inode that an iput() is still freeing

diskVars == <<disk, bitmap, dinode, named>>
vars == <<diskVars, mem, ilocked, file, mk, pr, calls, panicked, overtaken>>

\* The variables of a process.
Idle ==
  [pc |-> "out",     \* chunk: in the loop of filewrite(); copy, read: in the
                     \* loop of writei(), readi(); trunc: in itrunc(),
                     \* free, put: behind it in iput()
   fd |-> None,      \* the struct file in use
   ip |-> None,      \* the inode in use
   n |-> 0,          \* bytes this writei() or readi() is to copy
   tot |-> 0,        \* those copied; in itrunc() the loop counter
   new |-> 0,        \* the block balloc() has just marked
   todo |-> <<>>,    \* what write() has left to write
   buf |-> <<>>,     \* what readi() has copied
   result |-> <<>>,  \* what the last read() or fstat() returned
   shown |-> None]   \* history: the contents of ip when this call locked it

\* The process returns, with the result r.
Returned(r) == [Idle EXCEPT !.result = r]

NINDIRECT == BSIZE
MAXFILE == NDIRECT + NINDIRECT
DataBlocks == Nmeta .. FSSIZE - 1
Cells == 1 .. BSIZE
Zeroes == [c \in Cells |-> 0]
NoAddrs == [k \in 0 .. NDIRECT |-> 0]
Empty == [size |-> 0, addrs |-> NoAddrs]

\* The bytes s from cell c on replace those of block b.
CellsCopied(cells, c, s) ==
  [k \in Cells |-> IF k > c /\ k <= c + Len(s) THEN s[k - c] ELSE cells[k]]

\* The block that holds the bn-th block of an inode, 0 when there is none.
BlockAt(ino, bn) ==
  IF bn < NDIRECT THEN ino.addrs[bn]
  ELSE IF ino.addrs[NDIRECT] = 0 THEN 0
  ELSE disk[ino.addrs[NDIRECT]][bn - NDIRECT + 1]

-----------------------------------------------------------------------------
(***************************************************************************)
(* mkfs: main() makes inodes and appends to them in some order, fixes the  *)
(* size of the root, and writes the bitmap last.                           *)
(***************************************************************************)

\* ialloc(type)
MkfsIalloc ==
  LET i == mk.freeinode IN
  /\ mk.pc = "main"
  /\ i <= MkfsInodes
  /\ dinode' = [dinode EXCEPT ![i] = Empty]
  /\ named' = named \cup {i}
  /\ mk' = [mk EXCEPT !.freeinode = i + 1]
  /\ UNCHANGED <<disk, bitmap, mem, ilocked, file, pr, calls, panicked>>

\* iappend(i, s, Len(s)) starts with rinode().
MkfsIappend(i, s) ==
  /\ mk.pc = "main"
  /\ calls < MkfsCalls /\ calls' = calls + 1
  /\ dinode[i] # None
  /\ mk' = [mk EXCEPT !.pc = "append", !.inum = i, !.given = s, !.left = s,
                      !.off = dinode[i].size, !.addrs = dinode[i].addrs]
  /\ UNCHANGED <<diskVars, mem, ilocked, file, pr, panicked>>

\* One round of its loop; new blocks come from freeblock++, the one of the
\* indirect block first.
MkfsAppendBlock ==
  LET fbn == mk.off \div BSIZE
      n1 == Min({Len(mk.left), (fbn + 1) * BSIZE - mk.off})
      slot == Min({fbn, NDIRECT})
      addr == IF mk.addrs[slot] = 0 THEN mk.freeblock ELSE mk.addrs[slot]
      fb == Max({mk.freeblock, addr + 1})
      e == fbn - NDIRECT + 1
      x == IF fbn < NDIRECT THEN addr
           ELSE IF disk[addr][e] = 0 THEN fb ELSE disk[addr][e]
      linked == IF fbn < NDIRECT THEN disk ELSE [disk EXCEPT ![addr][e] = x]
  IN
  /\ mk.pc = "append" /\ mk.left # <<>>
  /\ fbn < MAXFILE
  /\ disk' = [linked EXCEPT ![x] = CellsCopied(@, mk.off - fbn * BSIZE,
                                               SubSeq(mk.left, 1, n1))]
  /\ mk' = [mk EXCEPT !.left = SubSeq(@, n1 + 1, Len(@)), !.off = @ + n1,
                      !.addrs[slot] = addr, !.freeblock = Max({fb, x + 1})]
  /\ UNCHANGED <<bitmap, dinode, named, mem, ilocked, file, pr, calls, panicked>>

\* winode() at its end.
MkfsWinode ==
  /\ mk.pc = "append" /\ mk.left = <<>>
  /\ dinode' = [dinode EXCEPT ![mk.inum] = [size |-> mk.off, addrs |-> mk.addrs]]
  /\ mk' = [mk EXCEPT !.pc = "main", !.given = <<>>, !.off = 0,
                      !.addrs = NoAddrs]
  /\ UNCHANGED <<disk, bitmap, named, mem, ilocked, file, pr, calls, panicked>>

\* balloc(used): the first blocks are marked.
MkfsBalloc(used) == 0 .. used - 1

\* The size of the root is rounded up to the next block, and
\* balloc(freeblock) writes the bitmap.  The root has entries, and as many as
\* the Makefile gives it do not fill a block: rounding a full block up would
\* leave a hole.
MkfsFinish ==
  /\ mk.pc = "main" /\ mk.freeinode > MkfsInodes
  /\ dinode[1].size % BSIZE # 0
  /\ dinode' = [dinode EXCEPT ![1].size = ((@ \div BSIZE) + 1) * BSIZE]
  /\ bitmap' = MkfsBalloc(mk.freeblock)
  /\ mk' = [mk EXCEPT !.pc = "done"]
  /\ calls' = 0
  /\ UNCHANGED <<disk, named, mem, ilocked, file, pr, panicked>>

-----------------------------------------------------------------------------
(***************************************************************************)
(* Opening, closing and removing, as far as they touch the contents.       *)
(* Inode and FileTable model these calls.                                  *)
(***************************************************************************)

Running == mk.pc = "done" /\ ~panicked /\ ~overtaken

Call == calls < Calls /\ calls' = calls + 1

\* The inode after ilock(): read from the disk unless I_VALID.
Locked(i) == IF mem[i] = None THEN dinode[i] ELSE mem[i]

\* The contents of inode i.
Contents(i) ==
  LET ino == Locked(i)
      cell(k) == LET b == BlockAt(ino, k \div BSIZE)
                 IN  IF b = 0 THEN 0 ELSE disk[b][(k % BSIZE) + 1]
  IN  IF ino = None THEN None ELSE [k \in 1 .. ino.size |-> cell(k - 1)]

\* Struct files of inode i.
FilesOf(i) == {f \in Files : file[f] # None /\ file[f].ip = i}

\* sys_open() of an inode, with ilock() and iunlock().
Open(f, i) ==
  /\ Call
  /\ file[f] = None
  /\ i \in named /\ ilocked[i] = None
  /\ mem' = [mem EXCEPT ![i] = Locked(i)]
  /\ file' = [file EXCEPT ![f] = [ip |-> i, off |-> 0]]
  /\ UNCHANGED <<diskVars, ilocked, mk, pr, panicked>>

\* create(): ialloc() takes the first inode with type 0.  When an iput() has
\* written that type but not yet dropped the cache entry, iget() finds the old
\* entry: create() then writes type 0 back and makes a name for a free inode.
\* Inode shows this (LockedIsAllocated); here the run ends.
Create(i) ==
  /\ Call
  /\ dinode[i] = None
  /\ \A j \in Inodes : dinode[j] = None => i <= j
  /\ IF mem[i] = None
     THEN /\ dinode' = [dinode EXCEPT ![i] = Empty]
          /\ named' = named \cup {i}
          /\ UNCHANGED overtaken
     ELSE overtaken' = TRUE /\ UNCHANGED <<dinode, named>>
  /\ UNCHANGED <<disk, bitmap, mem, ilocked, file, mk, pr, panicked>>

\* Process p starts to work on inode i.
Enter(p, i, next) ==
  /\ ilocked[i] = None
  /\ ilocked' = [ilocked EXCEPT ![i] = p]
  /\ mem' = [mem EXCEPT ![i] = Locked(i)]
  /\ pr' = [pr EXCEPT ![p] = [next EXCEPT !.ip = i, !.tot = 0,
                                          !.shown = Contents(i)]]

\* iput() of the last reference, when there is no name, starts itrunc(); it
\* does not lock the inode.
StartTrunc(p, i) ==
  /\ mem' = [mem EXCEPT ![i] = Locked(i)]
  /\ pr' = [pr EXCEPT ![p].pc = "trunc", ![p].ip = i, ![p].tot = 0,
                      ![p].shown = Contents(i)]
  /\ UNCHANGED ilocked

\* The last fileclose() of a struct file nobody works with, and iput().
Close(p, f) ==
  LET i == file[f].ip
      last == FilesOf(i) = {f} IN
  /\ Call
  /\ pr[p].pc = "out" /\ file[f] # None
  /\ \A q \in Procs : pr[q].pc # "out" => pr[q].fd # f
  /\ file' = [file EXCEPT ![f] = None]
  /\ IF last /\ i \notin named THEN StartTrunc(p, i)
     ELSE /\ mem' = IF last THEN [mem EXCEPT ![i] = None] ELSE mem
          /\ UNCHANGED <<ilocked, pr>>
  /\ UNCHANGED <<diskVars, mk, panicked>>

\* sys_unlink() of the last name: ilock(), nlink--, iupdate(), iput().
Unlink(p, i) ==
  /\ Call
  /\ pr[p].pc = "out" /\ i \in named \ {1} /\ ilocked[i] = None
  /\ named' = named \ {i}
  /\ dinode' = [dinode EXCEPT ![i] = Locked(i)]
  /\ IF FilesOf(i) = {} THEN StartTrunc(p, i) ELSE UNCHANGED <<mem, ilocked, pr>>
  /\ UNCHANGED <<disk, bitmap, file, mk, panicked>>

-----------------------------------------------------------------------------
(***************************************************************************)
(* write(): filewrite() cuts it into transactions.                         *)
(***************************************************************************)

\* write() of s; directories are not opened for writing.
StartWrite(p, f, s) ==
  /\ Call
  /\ pr[p].pc = "out" /\ file[f] # None /\ file[f].ip # 1
  /\ pr' = [pr EXCEPT ![p].pc = "chunk", ![p].fd = f, ![p].todo = s]
  /\ UNCHANGED <<diskVars, mem, ilocked, file, mk, panicked>>

\* The bytes of the next transaction.
ChunkLength(p) == Min({Len(pr[p].todo), MaxChunk})

\* The tests of writei().  off + len cannot wrap: len is an int.
WriteFits(ino, off, len) == off <= ino.size /\ off + len <= MAXFILE * BSIZE

\* begin_op(), ilock() and the head of writei().
StartChunk(p) ==
  LET f == pr[p].fd IN
  /\ pr[p].pc = "chunk" /\ pr[p].todo # <<>>
  /\ WriteFits(Locked(file[f].ip), file[f].off, ChunkLength(p))
  /\ Enter(p, file[f].ip, [pr[p] EXCEPT !.pc = "copy", !.n = ChunkLength(p)])
  /\ UNCHANGED <<diskVars, file, mk, calls, panicked>>

\* writei() returns -1 and filewrite() breaks off.
WriteFails(p) ==
  LET f == pr[p].fd IN
  /\ pr[p].pc = "chunk" /\ pr[p].todo # <<>> /\ ilocked[file[f].ip] = None
  /\ ~WriteFits(Locked(file[f].ip), file[f].off, ChunkLength(p))
  /\ pr' = [pr EXCEPT ![p] = Returned(pr[p].result)]
  /\ UNCHANGED <<diskVars, mem, ilocked, file, mk, calls, panicked>>

-----------------------------------------------------------------------------
(***************************************************************************)
(* bmap() and balloc(), in the loops of writei() and readi().              *)
(***************************************************************************)

Offset(p) == file[pr[p].fd].off + pr[p].tot
Bn(p) == Offset(p) \div BSIZE

\* The block number bmap() finds 0: an element of addrs[], or of the indirect
\* block.
Missing(p) ==
  LET ino == mem[pr[p].ip] IN
  IF ino.addrs[Min({Bn(p), NDIRECT})] = 0 THEN "addr"
  ELSE IF BlockAt(ino, Bn(p)) = 0 THEN "entry"
  ELSE "nothing"

InLoop(p) == pr[p].pc \in {"copy", "read"} /\ pr[p].tot < pr[p].n

\* balloc() marks the first free block, under the bitmap's buffer.
Balloc(p) ==
  LET free == DataBlocks \ bitmap IN
  /\ InLoop(p) /\ Missing(p) # "nothing" /\ pr[p].new = 0
  /\ IF free = {} THEN panicked' = TRUE /\ UNCHANGED <<bitmap, pr>>
     ELSE /\ bitmap' = bitmap \cup {Min(free)}
          /\ pr' = [pr EXCEPT ![p].new = Min(free)]
          /\ UNCHANGED panicked
  /\ UNCHANGED <<disk, dinode, named, mem, ilocked, file, mk, calls>>

\* bmap() notes the block balloc() returned.
NoteBlock(p, cleared) ==
  LET i == pr[p].ip
      b == pr[p].new IN
  /\ InLoop(p) /\ b # 0
  /\ IF Missing(p) = "entry"
     THEN /\ disk' = [cleared EXCEPT
                        ![mem[i].addrs[NDIRECT]][Bn(p) - NDIRECT + 1] = b]
          /\ UNCHANGED mem
     ELSE /\ disk' = cleared
          /\ mem' = [mem EXCEPT ![i].addrs[Min({Bn(p), NDIRECT})] = b]
  /\ pr' = [pr EXCEPT ![p].new = 0]
  /\ UNCHANGED <<bitmap, dinode, named, ilocked, file, mk, calls, panicked>>

\* Mutant of BmapAllocated: balloc() does not clear the block.
BmapAllocatedDirty(p) == NoteBlock(p, disk)

\* bzero() at the end of balloc(), and the rest of bmap().
BmapAllocated(p) == NoteBlock(p, [disk EXCEPT ![pr[p].new] = Zeroes])

\* The block under way, its first cell, and the bytes to copy:
\* min(n - tot, BSIZE - off%BSIZE)
Current(p) == BlockAt(mem[pr[p].ip], Bn(p))
Cell(p) == Offset(p) % BSIZE
Piece(p) == Min({pr[p].n - pr[p].tot, BSIZE - Cell(p)})

\* writei() copies into the block.
CopyIn(p) ==
  LET t == pr[p].tot IN
  /\ pr[p].pc = "copy" /\ InLoop(p) /\ Missing(p) = "nothing"
  /\ disk' = [disk EXCEPT ![Current(p)] =
                CellsCopied(@, Cell(p), SubSeq(pr[p].todo, t + 1, t + Piece(p)))]
  /\ pr' = [pr EXCEPT ![p].tot = t + Piece(p)]
  /\ UNCHANGED <<bitmap, dinode, named, mem, ilocked, file, mk, calls, panicked>>

\* readi() copies out of it.
CopyOut(p) ==
  LET c == Cell(p) IN
  /\ pr[p].pc = "read" /\ InLoop(p) /\ Missing(p) = "nothing"
  /\ pr' = [pr EXCEPT
       ![p].buf = @ \o SubSeq(disk[Current(p)], c + 1, c + Piece(p)),
       ![p].tot = @ + Piece(p)]
  /\ UNCHANGED <<diskVars, mem, ilocked, file, mk, calls, panicked>>

\* f->off += r; iunlock()
Leave(p, next) ==
  /\ file' = [file EXCEPT ![pr[p].fd].off = @ + pr[p].n]
  /\ ilocked' = [ilocked EXCEPT ![pr[p].ip] = None]
  /\ pr' = [pr EXCEPT ![p] = next]

\* Mutant of Grown: the size is set after every write.
GrownAlways(p) == pr[p].n > 0

\* n > 0 && off > ip->size
Grown(p) == pr[p].n > 0 /\ Offset(p) > mem[pr[p].ip].size

\* The rest of writei(), with iupdate() when the file has grown, and end_op().
ChunkDone(p) ==
  LET i == pr[p].ip
      ino == [mem[i] EXCEPT !.size = Offset(p)]
      rest == SubSeq(pr[p].todo, pr[p].n + 1, Len(pr[p].todo)) IN
  /\ pr[p].pc = "copy" /\ pr[p].tot = pr[p].n
  /\ IF Grown(p)
     THEN mem' = [mem EXCEPT ![i] = ino] /\ dinode' = [dinode EXCEPT ![i] = ino]
     ELSE UNCHANGED <<mem, dinode>>
  /\ Leave(p, IF rest = <<>> THEN Returned(pr[p].result)
              ELSE [Returned(pr[p].result) EXCEPT
                      !.pc = "chunk", !.fd = pr[p].fd, !.todo = rest])
  /\ UNCHANGED <<disk, bitmap, named, mk, calls, panicked>>

-----------------------------------------------------------------------------
(***************************************************************************)
(* read() and fstat(), which are not in a transaction.                     *)
(***************************************************************************)

\* fileread(): ilock() and the head of readi().
StartRead(p, f, len) ==
  LET i == file[f].ip
      off == file[f].off
      size == Locked(i).size IN
  /\ Call
  /\ pr[p].pc = "out" /\ file[f] # None
  /\ off <= size
  /\ Enter(p, i, [pr[p] EXCEPT !.pc = "read", !.fd = f, !.buf = <<>>,
                               !.n = Min({len, size - off})])
  /\ UNCHANGED <<diskVars, file, mk, panicked>>

ReadDone(p) ==
  /\ pr[p].pc = "read" /\ pr[p].tot = pr[p].n
  /\ Leave(p, Returned(pr[p].buf))
  /\ UNCHANGED <<diskVars, mem, mk, calls, panicked>>

\* filestat() and stati()
Filestat(p, f) ==
  /\ Call
  /\ pr[p].pc = "out" /\ file[f] # None /\ ilocked[file[f].ip] = None
  /\ pr' = [pr EXCEPT ![p].result = <<Locked(file[f].ip).size>>]
  /\ UNCHANGED <<diskVars, mem, ilocked, file, mk, panicked>>

-----------------------------------------------------------------------------
(***************************************************************************)
(* itrunc() and the end of iput().  The loop counter runs through the      *)
(* direct blocks, the entries of the indirect block, and that block.       *)
(***************************************************************************)

\* The block the k-th round looks at.
TruncBlock(ino, k) ==
  IF k = MAXFILE THEN ino.addrs[NDIRECT] ELSE BlockAt(ino, k)

\* bfree() in one round, with its panic.
TruncStep(p) ==
  LET i == pr[p].ip
      k == pr[p].tot
      b == TruncBlock(mem[i], k) IN
  /\ pr[p].pc = "trunc" /\ k <= MAXFILE
  /\ panicked' = (b # 0 /\ b \notin bitmap)
  /\ bitmap' = bitmap \ ({b} \cap DataBlocks)
  /\ mem' = IF k < NDIRECT \/ k = MAXFILE
            THEN [mem EXCEPT ![i].addrs[Min({k, NDIRECT})] = 0] ELSE mem
  /\ pr' = [pr EXCEPT ![p].tot = k + 1]
  /\ UNCHANGED <<disk, dinode, named, ilocked, file, mk, calls>>

\* size = 0 and iupdate(), the end of itrunc().
TruncDone(p) ==
  LET i == pr[p].ip
      ino == [mem[i] EXCEPT !.size = 0] IN
  /\ pr[p].pc = "trunc" /\ pr[p].tot > MAXFILE
  /\ mem' = [mem EXCEPT ![i] = ino]
  /\ dinode' = [dinode EXCEPT ![i] = ino]
  /\ pr' = [pr EXCEPT ![p].pc = "free"]
  /\ UNCHANGED <<disk, bitmap, named, ilocked, file, mk, calls, panicked>>

\* iput(): type = 0 and iupdate().
FreeInode(p) ==
  /\ pr[p].pc = "free"
  /\ dinode' = [dinode EXCEPT ![pr[p].ip] = None]
  /\ pr' = [pr EXCEPT ![p].pc = "put"]
  /\ UNCHANGED <<disk, bitmap, named, mem, ilocked, file, mk, calls, panicked>>

\* iput(): flags = 0 and ref--, under icache.lock.
DropEntry(p) ==
  /\ pr[p].pc = "put"
  /\ mem' = [mem EXCEPT ![pr[p].ip] = None]
  /\ pr' = [pr EXCEPT ![p] = Returned(pr[p].result)]
  /\ UNCHANGED <<diskVars, ilocked, file, mk, calls, panicked>>

\* The machine stops between transactions; memory is lost.
Crash ==
  /\ Call
  /\ \A p \in Procs : pr[p].pc \notin {"copy", "trunc", "free", "put"}
  /\ mem' = [i \in Inodes |-> None]
  /\ ilocked' = [i \in Inodes |-> None]
  /\ file' = [f \in Files |-> None]
  /\ pr' = [p \in Procs |-> Returned(pr[p].result)]
  /\ UNCHANGED <<diskVars, mk, panicked>>

-----------------------------------------------------------------------------
\* mkfs starts on an empty image.
Init ==
  /\ disk = [b \in DataBlocks |-> Zeroes]
  /\ bitmap = {}
  /\ dinode = [i \in Inodes |-> None]
  /\ named = {}
  /\ mem = [i \in Inodes |-> None]
  /\ ilocked = [i \in Inodes |-> None]
  /\ file = [f \in Files |-> None]
  /\ mk = [pc |-> "main", inum |-> 1, given |-> <<>>, left |-> <<>>, off |-> 0,
           addrs |-> NoAddrs, freeblock |-> Nmeta, freeinode |-> 1]
  /\ pr = [p \in Procs |-> Idle]
  /\ calls = 0 /\ panicked = FALSE /\ overtaken = FALSE

MkfsStep ==
  \/ MkfsIalloc \/ MkfsAppendBlock \/ MkfsWinode \/ MkfsFinish
  \/ \E i \in Inodes, s \in Writes : MkfsIappend(i, s)

ProcStep(p) ==
  \/ StartChunk(p) \/ WriteFails(p)
  \/ Balloc(p) \/ BmapAllocated(p) \/ CopyIn(p) \/ CopyOut(p)
  \/ ChunkDone(p) \/ ReadDone(p)
  \/ TruncStep(p) \/ TruncDone(p) \/ FreeInode(p) \/ DropEntry(p)
  \/ \E i \in Inodes : Unlink(p, i)
  \/ \E f \in Files :
       \/ Close(p, f) \/ Filestat(p, f)
       \/ \E s \in Writes : StartWrite(p, f, s)
       \/ \E k \in Reads : StartRead(p, f, k)

Next ==
  \/ MkfsStep /\ UNCHANGED overtaken
  \/ /\ Running
     /\ \/ \E i \in Inodes : Create(i)
        \/ /\ \/ \E p \in Procs : ProcStep(p)
              \/ \E i \in Inodes, f \in Files : Open(f, i)
              \/ Crash
           /\ UNCHANGED overtaken

Spec == Init /\ [][Next]_vars
-----------------------------------------------------------------------------
(***************************************************************************)
(* Properties.                                                             *)
(***************************************************************************)

\* The processes that iput() inode i for the last time.
Freeing(i) == {p \in Procs : pr[p].pc \in {"trunc", "free", "put"} /\ pr[p].ip = i}

\* The contents others can see: a write takes effect when the inode is
\* unlocked, a removal when its type is 0.
Bytes ==
  [i \in Inodes |->
     LET busy == {p \in Procs : ilocked[i] = p /\ pr[p].pc = "copy"}
                   \cup Freeing(i)
     IN  IF dinode[i] = None THEN None
         ELSE IF busy # {} THEN pr[CHOOSE p \in busy : TRUE].shown
         ELSE Contents(i)]

Abstract ==
  INSTANCE FileArray WITH
    bytes <- Bytes, pos <- file, MaxBytes <- MAXFILE * BSIZE,
    todo <- [p \in Procs \cup {Mkfs} |->
               IF p = Mkfs THEN mk.given ELSE pr[p].todo],
    result <- [p \in Procs |-> pr[p].result],
    booted <- (mk.pc = "done")

\* The inodes implement an array of bytes per file: a read returns, and a
\* write or a removal changes, exactly the bytes at the position, across
\* block boundaries, the indirect block, writes cut into transactions, struct
\* files that are shared, inodes dropped from the cache, and a crash, up to a
\* create() that overtakes an iput(); and the files mkfs made read back as
\* they were put.
ImplementsFiles == Abstract!Spec

\* Who refers to data block b: a slot of an inode, or an allocation on its way.
Owners(b) ==
  LET slots(i) ==
        LET freed == {k \in 0 .. MAXFILE :
                        \E p \in Freeing(i) : k < pr[p].tot}
        IN  IF Locked(i) = None THEN {}
            ELSE {k \in (0 .. MAXFILE) \ freed : TruncBlock(Locked(i), k) = b}
  IN  {p \in Procs : pr[p].new = b} \cup UNION {{i} \X slots(i) : i \in Inodes}

\* A data block is marked in the bitmap when exactly one slot refers to it and
\* free when none does: concurrent calls of balloc() and bfree(), reuse of
\* blocks with old contents, and a write that fails never share or lose one.
\* What is in memory is on the disk whenever no call is at work on the inode.
\* All this up to a create() that overtakes an iput() (overtaken).
BlocksAreAccounted ==
  Running =>
    /\ \A b \in DataBlocks :
         Cardinality(Owners(b)) = (IF b \in bitmap THEN 1 ELSE 0)
    /\ \A i \in Inodes :
         mem[i] # None /\ ilocked[i] = None /\ Freeing(i) = {}
           => mem[i] = dinode[i]
=============================================================================
