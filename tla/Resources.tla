------------------------------ MODULE Resources ------------------------------
(***************************************************************************)
(* The system calls that take and give back pages and open files: fork(),  *)
(* exec(), sbrk(), exit() and wait() of proc.c and exec.c, and open(),     *)
(* dup(), close() and pipe() of sysfile.c, on the allocators of Memory and *)
(* FileTable.                                                              *)
(*                                                                         *)
(* A step takes one page (with the page table it needs) or one section of  *)
(* ftable.lock; giving back a whole address space is one step.             *)
(***************************************************************************)
EXTENDS Memory, FileTable, Sequences

CONSTANTS
  NPROC, NOFILE,
  Programs,   \* what exec() is called with: [segs, args], where segs are
              \* [vaddr, memsz, filesz] and args bytes of arguments
              \* (fewer than the 32 MB of the device space, see CanCopyout)
  PseudoLen,  \* bytes of pseudo_main()
  Increments, \* arguments of sbrk()
  Calls       \* bound on the calls of a behaviour

Uints == 0 .. UintRange - 1

ASSUME ResourcesAssumption ==
  /\ NPROC \in Nat \ {0} /\ NOFILE \in Nat /\ NFILE \in Nat
  /\ None \notin FileIds
  /\ Programs \subseteq
       [segs : Seq([vaddr : Uints, memsz : Uints, filesz : Uints]), args : Nat]
  /\ PseudoLen \in Nat /\ Increments \subseteq Int /\ Calls \in Nat

VARIABLES
  pr,       \* process slot -> its struct proc and variables, see NoProc
  calls,
  panicked

vars == <<mm, ftable, pipes, pr, calls, panicked>>

Procs == 1 .. NPROC
Init1 == 1
Fds == 0 .. NOFILE - 1

NoProc ==
  [state |-> "UNUSED", parent |-> 0, pgdir |-> NoPage, sz |-> 0,
   kstack |-> NoPage,
   cr3 |-> NoPage,   \* the directory its CPU uses, NoPage: kpgdir
   ofile |-> [fd \in Fds |-> None],
   pc |-> "user",    \* the next step of the call under way
   call |-> "none",
   np |-> 0,         \* fork(): the child
   nd |-> NoPage,    \* the directory under construction, or to be freed
   old |-> 0, a |-> 0, to |-> 0,  \* allocuvm(): oldsz, a, newsz
   segs |-> <<>>,    \* exec(): segments to load
   image |-> 0,      \* exec(): the size of the program, 0 while it is loaded
   args |-> 0,
   files |-> <<>>,   \* files to be closed, or taken by pipe()
   ff |-> NoFile]    \* fileclose(): the copy of the file

\* A process between calls.
CanCall(p) == pr[p].state = "RUNNING" /\ pr[p].pc = "user"

\* A process without the first page of its space: sbrk(-sz) has freed all it
\* had.  The TLB may keep the freed pages, and the process then runs on in
\* them; otherwise it faults (Exit).
Emptied(p) ==
  pr[p].state = "RUNNING" /\ 0 \notin DOMAIN mm.dirs[pr[p].pgdir].ptes

Call == calls < Calls /\ calls' = calls + 1

\* The call of p is over.
Back(r) ==
  [r EXCEPT !.pc = "user", !.call = "none", !.np = 0, !.nd = NoPage, !.old = 0,
            !.a = 0, !.to = 0, !.segs = <<>>, !.image = 0, !.args = 0,
            !.files = <<>>, !.ff = NoFile]

fileVars == <<ftable, pipes>>

-----------------------------------------------------------------------------
(***************************************************************************)
(* setupkvm(), for fork() and exec().                                      *)
(***************************************************************************)

\* Mutant of ForkFailed: the kernel stack is kept.
ForkFailedKeeping(p, m) ==
  /\ mm' = m
  /\ pr' = [pr EXCEPT ![p] = Back(@), ![pr[p].np] = NoProc]

\* fork() returns -1: the kernel stack and the slot are given back.
ForkFailed(p, m) ==
  /\ mm' = kfree(m, {pr[pr[p].np].kstack})
  /\ pr' = [pr EXCEPT ![p] = Back(@), ![pr[p].np] = NoProc]

\* setupkvm() has failed; memory is m.
SetupFailed(p, m) ==
  IF pr[p].call = "fork" THEN ForkFailed(p, m)
  ELSE mm' = m /\ pr' = [pr EXCEPT ![p] = Back(@)]

SetupDir(p) ==
  /\ pr[p].pc = "dir"
  /\ IF mm.free = {} THEN SetupFailed(p, mm)
     ELSE /\ mm' = DirTaken(mm)
          /\ pr' = [pr EXCEPT ![p].nd = kalloc(mm), ![p].pc = "table"]
  /\ UNCHANGED <<fileVars, calls, panicked>>

\* mappages() of the kernel's mappings needs the next page table.
SetupTable(p) ==
  LET i == Cardinality(DOMAIN mm.dirs[pr[p].nd].tables) + 1
      next == IF pr[p].call = "fork" THEN "copy" ELSE "load" IN
  /\ pr[p].pc = "table"
  /\ IF mm.free = {} THEN SetupFailed(p, SetupLost(mm, pr[p].nd))
     ELSE /\ mm' = TableTaken(mm, pr[p].nd, -i)
          /\ pr' = [pr EXCEPT ![p].pc = IF i = KernTables THEN next ELSE "table"]
  /\ UNCHANGED <<fileVars, calls, panicked>>

-----------------------------------------------------------------------------
(***************************************************************************)
(* fork()                                                                  *)
(***************************************************************************)

\* allocproc() takes a slot.
Fork(p) ==
  LET unused == {q \in Procs : pr[q].state = "UNUSED"} IN
  /\ Call /\ CanCall(p)
  /\ unused # {}
  /\ pr' = [pr EXCEPT ![p].pc = "stack", ![p].call = "fork",
                      ![p].np = Min(unused), ![Min(unused)].state = "EMBRYO"]
  /\ UNCHANGED <<mm, fileVars, panicked>>

\* allocproc() allocates the kernel stack.
ForkStack(p) ==
  /\ pr[p].pc = "stack"
  /\ IF mm.free = {}
     THEN /\ pr' = [pr EXCEPT ![p] = Back(@), ![pr[p].np] = NoProc]
          /\ UNCHANGED mm
     ELSE /\ pr' = [pr EXCEPT ![pr[p].np].kstack = kalloc(mm), ![p].pc = "dir"]
          /\ mm' = Taken(mm)
  /\ UNCHANGED <<fileVars, calls, panicked>>

\* One round of copyuvm(), which panics when the parent lacks the page.  When
\* there is no page for a page table, the page that was to be mapped is lost.
CopyPage(p) ==
  LET d == pr[p].nd
      page == kalloc(mm)
      m == Taken(mm)
      v == Vpn(pr[p].a) IN
  /\ pr[p].pc = "copy" /\ pr[p].a < pr[p].sz
  /\ panicked' = (v \notin DOMAIN mm.dirs[pr[p].pgdir].ptes)
  /\ IF panicked' THEN UNCHANGED <<mm, pr>>
     ELSE IF page = NoPage THEN ForkFailed(p, freevm(mm, d))
     ELSE IF ~CanWalk(m, d, v)
     THEN ForkFailed(p, [freevm(m, d) EXCEPT !.lost = @ \cup {page}])
     ELSE /\ mm' = IF v \in mm.dirs[pr[p].pgdir].guard
                   THEN clearpteu(mappages(m, d, v, page), d, v)
                   ELSE mappages(m, d, v, page)
          /\ pr' = [pr EXCEPT ![p].a = @ + PGSIZE]
  /\ UNCHANGED <<fileVars, calls>>

\* The child gets the directory and the size.
CopyDone(p) ==
  /\ pr[p].pc = "copy" /\ pr[p].a >= pr[p].sz
  /\ pr' = [pr EXCEPT ![pr[p].np].pgdir = pr[p].nd, ![pr[p].np].cr3 = pr[p].nd,
                      ![pr[p].np].sz = pr[p].sz, ![pr[p].np].parent = p,
                      ![p].nd = NoPage, ![p].pc = "dup"]
  /\ UNCHANGED <<mm, fileVars, calls, panicked>>

\* Descriptors the child does not have yet.
ToDup(p) ==
  {fd \in Fds : pr[p].ofile[fd] # None /\ pr[pr[p].np].ofile[fd] = None}

\* np->ofile[i] = filedup(proc->ofile[i])
DupFile(p) ==
  LET fd == Min(ToDup(p)) IN
  /\ pr[p].pc = "dup" /\ ToDup(p) # {}
  /\ ftable' = filedup(ftable, pr[p].ofile[fd])
  /\ pr' = [pr EXCEPT ![pr[p].np].ofile[fd] = pr[p].ofile[fd]]
  /\ UNCHANGED <<mm, pipes, calls, panicked>>

ForkDone(p) ==
  /\ pr[p].pc = "dup" /\ ToDup(p) = {}
  /\ pr' = [pr EXCEPT ![pr[p].np].state = "RUNNING", ![p] = Back(@)]
  /\ UNCHANGED <<mm, fileVars, calls, panicked>>

-----------------------------------------------------------------------------
(***************************************************************************)
(* allocuvm(), for exec() and sbrk().                                      *)
(***************************************************************************)

\* The directory that grows.
Growing(p) == IF pr[p].call = "exec" THEN pr[p].nd ELSE pr[p].pgdir

\* The call returns -1 with memory m; exec() frees what it has built.
Bad(p, m) ==
  /\ mm' = IF pr[p].call = "exec" THEN freevm(m, pr[p].nd) ELSE m
  /\ pr' = [pr EXCEPT ![p] = Back(@)]

\* allocuvm(pgdir, old, new) is called, by a process with the variables r.
GrowFrom(p, r, old, new) ==
  IF new >= KERNBASE THEN Bad(p, mm)
  ELSE /\ pr' = [pr EXCEPT ![p] =
                   [r EXCEPT !.pc = "grow", !.old = old, !.a = PGROUNDUP(old),
                             !.to = Max({old, new})]]
       /\ UNCHANGED mm

\* Mutant of GrowUndone: the pages taken so far stay.
GrowUndoneNot(p, m) == m

\* deallocuvm(pgdir, newsz, oldsz)
GrowUndone(p, m) == deallocuvm(m, Growing(p), pr[p].to, pr[p].old)

\* One round of allocuvm().
GrowPage(p) ==
  LET d == Growing(p)
      page == kalloc(mm)
      m == Taken(mm)
      v == Vpn(pr[p].a) IN
  /\ pr[p].pc = "grow" /\ pr[p].a < pr[p].to
  /\ IF page = NoPage THEN Bad(p, GrowUndone(p, mm))
     ELSE IF ~CanWalk(m, d, v) THEN Bad(p, kfree(GrowUndone(p, m), {page}))
     ELSE /\ mm' = mappages(m, d, v, page)
          /\ pr' = [pr EXCEPT ![p].a = @ + PGSIZE]
  /\ UNCHANGED <<fileVars, calls, panicked>>

\* allocuvm() has returned to growproc(), which sets sz and calls switchuvm().
SbrkGrown(p) ==
  /\ pr[p].pc = "grow" /\ pr[p].a >= pr[p].to /\ pr[p].call = "sbrk"
  /\ pr' = [pr EXCEPT ![p] = Back([@ EXCEPT !.sz = pr[p].to,
                                            !.cr3 = pr[p].pgdir])]
  /\ UNCHANGED <<mm, fileVars, calls, panicked>>

\* sbrk(n) and growproc(): n > 0.  sz + n is a uint.
SbrkGrow(p, k) ==
  /\ Call /\ CanCall(p) /\ k > 0
  /\ GrowFrom(p, [pr[p] EXCEPT !.call = "sbrk"], pr[p].sz,
              (pr[p].sz + k) % UintRange)
  /\ UNCHANGED <<fileVars, panicked>>

\* n < 0: below 0 sz + n wraps, and deallocuvm() changes nothing.  When the
\* new size is 0, growproc() takes it for an error: the pages are gone, and
\* sz stays.
SbrkShrink(p, k) ==
  LET new == (pr[p].sz + k) % UintRange IN
  /\ Call /\ CanCall(p) /\ k < 0
  /\ mm' = deallocuvm(mm, pr[p].pgdir, pr[p].sz, new)
  /\ pr' = IF new = 0 THEN pr
           ELSE [pr EXCEPT ![p].sz = Min({@, new}), ![p].cr3 = pr[p].pgdir]
  /\ UNCHANGED <<fileVars, panicked>>

\* sys_sbrk()
Sbrk(p, k) == SbrkGrow(p, k) \/ SbrkShrink(p, k)

-----------------------------------------------------------------------------
(***************************************************************************)
(* exec()                                                                  *)
(***************************************************************************)

\* The header has been read.
Exec(p, prog) ==
  /\ Call /\ CanCall(p)
  /\ pr' = [pr EXCEPT ![p].pc = "dir", ![p].call = "exec", ![p].segs = prog.segs,
                      ![p].args = prog.args]
  /\ UNCHANGED <<mm, fileVars, panicked>>

\* allocuvm() for the next segment, after the tests of its header.  The header
\* may be cut off.
LoadSegment(p) ==
  LET s == Head(pr[p].segs)
      new == (s.vaddr + s.memsz) % UintRange IN
  /\ pr[p].pc = "load" /\ pr[p].segs # <<>>
  /\ \/ Bad(p, mm)
     \/ /\ s.memsz >= s.filesz /\ new >= s.vaddr
        /\ GrowFrom(p, pr[p], pr[p].to, new)
  /\ UNCHANGED <<fileVars, calls, panicked>>

\* The segment has pages: the alignment is tested and loaduvm() reads it, or
\* as much of it as the file has.
SegmentLoaded(p) ==
  LET s == Head(pr[p].segs) IN
  /\ pr[p].pc = "grow" /\ pr[p].a >= pr[p].to /\ pr[p].call = "exec"
  /\ pr[p].segs # <<>>
  /\ \/ Bad(p, mm) /\ UNCHANGED panicked
     \/ /\ pr[p].to # 0 /\ s.vaddr % PGSIZE = 0
        /\ panicked' = ~CanLoad(mm, pr[p].nd, s.vaddr, s.filesz)
        /\ pr' = [pr EXCEPT ![p].pc = "load", ![p].segs = Tail(@)]
        /\ UNCHANGED mm
  /\ UNCHANGED <<fileVars, calls>>

\* All segments are loaded: three pages more.
LoadDone(p) ==
  LET sz == PGROUNDUP(pr[p].to) IN
  /\ pr[p].pc = "load" /\ pr[p].segs = <<>>
  /\ GrowFrom(p, [pr[p] EXCEPT !.image = pr[p].to], sz, sz + 3 * PGSIZE)
  /\ UNCHANGED <<fileVars, calls, panicked>>

\* The guard page, pseudo_main() behind the program, the arguments on the
\* stack; then the process has its new directory.
ExecCommit(p) ==
  LET r == pr[p]
      m == clearpteu(mm, r.nd, Vpn(r.to - 2 * PGSIZE)) IN
  /\ r.pc = "grow" /\ r.a >= r.to /\ r.call = "exec" /\ r.segs = <<>>
  /\ IF /\ CanCopyout(m, r.nd, r.image, PseudoLen)
        /\ CanCopyout(m, r.nd, r.to - r.args, r.args)
     THEN /\ mm' = m
          /\ pr' = [pr EXCEPT ![p].pgdir = r.nd, ![p].nd = r.pgdir,
                              ![p].sz = r.to, ![p].pc = "switch"]
     ELSE Bad(p, m)
  /\ UNCHANGED <<fileVars, calls, panicked>>

switchuvm(p) ==
  /\ pr[p].pc = "switch"
  /\ pr' = [pr EXCEPT ![p].cr3 = pr[p].pgdir, ![p].pc = "drop"]
  /\ UNCHANGED <<mm, fileVars, calls, panicked>>

\* freevm(oldpgdir)
ExecDone(p) ==
  /\ pr[p].pc = "drop"
  /\ mm' = freevm(mm, pr[p].nd)
  /\ pr' = [pr EXCEPT ![p] = Back(@)]
  /\ UNCHANGED <<fileVars, calls, panicked>>

-----------------------------------------------------------------------------
(***************************************************************************)
(* Descriptors.                                                            *)
(***************************************************************************)

\* fdalloc() gives the lowest descriptors that are not in use.
FreeFds(p) == {fd \in Fds : pr[p].ofile[fd] = None}

\* The call goes on with fileclose() of the files.
Closing(r, files) == [r EXCEPT !.pc = "close", !.files = files]

\* sys_open() of an inode, from filealloc() on.
Open(p) ==
  LET f == filealloc(ftable) IN
  /\ Call /\ CanCall(p)
  /\ f # None
  /\ IF FreeFds(p) = {}
     THEN /\ ftable' = Allocated(ftable)
          /\ pr' = [pr EXCEPT ![p] = Closing(@, <<f>>)]
     ELSE /\ ftable' = [Allocated(ftable) EXCEPT ![f].type = "INODE"]
          /\ pr' = [pr EXCEPT ![p].ofile[Min(FreeFds(p))] = f]
  /\ UNCHANGED <<mm, pipes, panicked>>

Dup(p, fd) ==
  /\ Call /\ CanCall(p)
  /\ pr[p].ofile[fd] # None /\ FreeFds(p) # {}
  /\ pr' = [pr EXCEPT ![p].ofile[Min(FreeFds(p))] = pr[p].ofile[fd]]
  /\ ftable' = filedup(ftable, pr[p].ofile[fd])
  /\ UNCHANGED <<mm, pipes, panicked>>

Close(p, fd) ==
  /\ Call /\ CanCall(p)
  /\ pr[p].ofile[fd] # None
  /\ pr' = [pr EXCEPT ![p] = Closing([@ EXCEPT !.ofile[fd] = None],
                                     <<pr[p].ofile[fd]>>)]
  /\ UNCHANGED <<mm, fileVars, panicked>>

\* fileclose(), under ftable.lock.
FileClose(p) ==
  LET f == Head(pr[p].files) IN
  /\ pr[p].pc = "close" /\ pr[p].files # <<>>
  /\ ftable' = Dropped(ftable, f)
  /\ pr' = [pr EXCEPT ![p].files = Tail(@), ![p].pc = "ff",
                      ![p].ff = IF ftable[f].ref = 1 THEN ftable[f] ELSE NoFile]
  /\ UNCHANGED <<mm, pipes, calls, panicked>>

\* Its rest, on the copy: pipeclose(), or iput().  The last end frees the pipe.
FileCloseRest(p) ==
  LET page == pr[p].ff.pipe
      left == pipes[page] \ {pr[p].ff.writable} IN
  /\ pr[p].pc = "ff"
  /\ pr' = [pr EXCEPT ![p].pc = "close", ![p].ff = NoFile]
  /\ IF pr[p].ff.type # "PIPE" THEN UNCHANGED <<mm, pipes>>
     ELSE IF left = {}
     THEN /\ pipes' = Restrict(pipes, DOMAIN pipes \ {page})
          /\ mm' = kfree(mm, {page})
     ELSE pipes' = [pipes EXCEPT ![page] = left] /\ UNCHANGED mm
  /\ UNCHANGED <<ftable, calls, panicked>>

CloseDone(p) ==
  /\ pr[p].pc = "close" /\ pr[p].files = <<>> /\ pr[p].call # "exit"
  /\ pr' = [pr EXCEPT ![p] = Back(@)]
  /\ UNCHANGED <<mm, fileVars, calls, panicked>>

\* sys_pipe(): pipealloc() takes a file,
Pipe(p) ==
  /\ Call /\ CanCall(p)
  /\ filealloc(ftable) # None
  /\ ftable' = Allocated(ftable)
  /\ pr' = [pr EXCEPT ![p].pc = "file", ![p].files = <<filealloc(ftable)>>]
  /\ UNCHANGED <<mm, pipes, panicked>>

\* another one,
PipeFile(p) ==
  LET f == filealloc(ftable) IN
  /\ pr[p].pc = "file"
  /\ IF f = None
     THEN pr' = [pr EXCEPT ![p].pc = "close"] /\ UNCHANGED ftable
     ELSE /\ ftable' = Allocated(ftable)
          /\ pr' = [pr EXCEPT ![p].pc = "page", ![p].files = Append(@, f)]
  /\ UNCHANGED <<mm, pipes, calls, panicked>>

\* and a page; then come the descriptors.
PipePage(p) ==
  LET page == kalloc(mm)
      f == pr[p].files
      fd0 == Min(FreeFds(p))
      fd1 == Min(FreeFds(p) \ {fd0})
      end(g, w) == [ftable[g] EXCEPT !.type = "PIPE", !.pipe = page, !.writable = w] IN
  /\ pr[p].pc = "page"
  /\ IF page = NoPage
     THEN pr' = [pr EXCEPT ![p].pc = "close"] /\ UNCHANGED <<mm, fileVars>>
     ELSE /\ mm' = Taken(mm)
          /\ pipes' = With(pipes, page, BOOLEAN)
          /\ ftable' = [ftable EXCEPT ![f[1]] = end(f[1], FALSE),
                                      ![f[2]] = end(f[2], TRUE)]
          /\ pr' = IF Cardinality(FreeFds(p)) < 2
                   THEN [pr EXCEPT ![p].pc = "close"]
                   ELSE [pr EXCEPT ![p] = Back([@ EXCEPT !.ofile[fd0] = f[1],
                                                         !.ofile[fd1] = f[2]])]
  /\ UNCHANGED <<calls, panicked>>

-----------------------------------------------------------------------------
(***************************************************************************)
(* exit() and wait()                                                       *)
(***************************************************************************)

\* A call whose arguments are on a page that is gone: the kernel faults.
ArgumentFault(p) ==
  /\ CanCall(p) /\ Emptied(p)
  /\ panicked' = TRUE
  /\ UNCHANGED <<mm, fileVars, pr, calls>>

\* exit(), by itself or after a fault.
Exit(p) ==
  /\ p # Init1 /\ CanCall(p)
  /\ pr' = [pr EXCEPT ![p].pc = "close", ![p].call = "exit"]
  /\ UNCHANGED <<mm, fileVars, calls, panicked>>

\* It closes the next file; the reference is the call's until fileclose() drops
\* it, and nobody looks at the descriptor meanwhile.
ExitFile(p) ==
  LET fd == Min(Fds \ FreeFds(p)) IN
  /\ pr[p].pc = "close" /\ pr[p].files = <<>> /\ pr[p].call = "exit"
  /\ FreeFds(p) # Fds
  /\ pr' = [pr EXCEPT ![p].ofile[fd] = None, ![p].files = <<pr[p].ofile[fd]>>]
  /\ UNCHANGED <<mm, fileVars, calls, panicked>>

\* The rest of exit(): children go to init, and the CPU to kpgdir.
ExitDone(p) ==
  /\ pr[p].pc = "close" /\ pr[p].files = <<>> /\ pr[p].call = "exit"
  /\ FreeFds(p) = Fds
  /\ pr' = [q \in Procs |->
              IF q = p THEN [Back(pr[p]) EXCEPT !.state = "ZOMBIE", !.cr3 = NoPage]
              ELSE IF pr[q].parent = p THEN [pr[q] EXCEPT !.parent = Init1]
              ELSE pr[q]]
  /\ UNCHANGED <<mm, fileVars, calls, panicked>>

\* wait() frees a child that is a zombie.
Wait(p, c) ==
  /\ CanCall(p)
  /\ pr[c].state = "ZOMBIE" /\ pr[c].parent = p
  /\ mm' = freevm(kfree(mm, {pr[c].kstack}), pr[c].pgdir)
  /\ pr' = [pr EXCEPT ![c] = NoProc]
  /\ UNCHANGED <<fileVars, calls, panicked>>

-----------------------------------------------------------------------------
\* userinit() has made the first process: its kernel stack, its directory, the
\* kernel's tables, and initcode on one page.
FirstSpace ==
  [tables |-> [i \in -KernTables .. 0 |-> IF i = 0 THEN KernTables + 3 ELSE 2 - i],
   ptes |-> [v \in {0} |-> KernTables + 4], guard |-> {}]
FirstMem ==
  [free |-> Pages \ (1 .. KernTables + 4), lost |-> {}, twice |-> {},
   dirs |-> [d \in {2} |-> FirstSpace]]
FirstProc ==
  [NoProc EXCEPT !.state = "RUNNING", !.kstack = 1, !.pgdir = 2, !.cr3 = 2, !.sz = PGSIZE]

Init ==
  /\ mm = FirstMem
  /\ ftable = [f \in FileIds |-> NoFile]
  /\ pipes = [page \in {} |-> BOOLEAN]
  /\ pr = [p \in Procs |-> IF p = Init1 THEN FirstProc ELSE NoProc]
  /\ calls = 0 /\ panicked = FALSE

CallStep(p) ==
  \/ Fork(p) \/ Open(p) \/ Pipe(p) \/ Exit(p) \/ ArgumentFault(p)
  \/ \E fd \in Fds : Dup(p, fd) \/ Close(p, fd)
  \/ \E k \in Increments : Sbrk(p, k)
  \/ \E prog \in Programs : Exec(p, prog)
  \/ \E c \in Procs : Wait(p, c)

InnerStep(p) ==
  \/ SetupDir(p) \/ SetupTable(p)
  \/ ForkStack(p) \/ CopyPage(p) \/ CopyDone(p) \/ DupFile(p) \/ ForkDone(p)
  \/ GrowPage(p) \/ SbrkGrown(p)
  \/ LoadSegment(p) \/ SegmentLoaded(p) \/ LoadDone(p) \/ ExecCommit(p)
  \/ switchuvm(p) \/ ExecDone(p)
  \/ FileClose(p) \/ FileCloseRest(p) \/ CloseDone(p) \/ PipeFile(p) \/ PipePage(p)
  \/ ExitFile(p) \/ ExitDone(p)

Next == ~panicked /\ \E p \in Procs : CallStep(p) \/ InnerStep(p)

Spec == Init /\ [][Next]_vars
-----------------------------------------------------------------------------
(***************************************************************************)
(* Properties.                                                             *)
(***************************************************************************)

\* What refers to a page.
Uses(page) ==
  {<<"free">> : x \in {page} \cap mm.free} \cup {<<"lost">> : x \in {page} \cap mm.lost}
    \cup {<<"pipe">> : x \in {page} \cap DOMAIN pipes}
    \cup {<<"stack", p>> : p \in {q \in Procs : pr[q].kstack = page}}
    \cup {<<"dir", d>> : d \in DOMAIN mm.dirs \cap {page}}
    \cup (UNION {{<<"table", d, i>> : i \in {j \in DOMAIN mm.dirs[d].tables :
                                              mm.dirs[d].tables[j] = page}}
                   : d \in DOMAIN mm.dirs})
    \cup (UNION {{<<"pte", d, v>> : v \in {w \in DOMAIN mm.dirs[d].ptes :
                                            mm.dirs[d].ptes[w] = page}}
                   : d \in DOMAIN mm.dirs})

\* Every page is free or in use, and in use once: as a kernel stack, a pipe, a
\* directory of one process, a page table or a page of one address space.  No
\* call that fails half way, and no exit, frees a page twice or keeps one,
\* but for the two places where setupkvm() and copyuvm() lose pages.
PagesAreAccounted ==
  /\ mm.twice = {}
  /\ \A page \in Pages : Cardinality(Uses(page)) = 1
  /\ \A d \in DOMAIN mm.dirs :
       Cardinality({p \in Procs : pr[p].pgdir = d}
                   \cup {p + NPROC : p \in {q \in Procs : pr[q].nd = d}}) = 1

\* A process between calls has exactly the pages below its size, also after a
\* fork(), exec() or sbrk() that failed half way, and copyuvm() and loaduvm()
\* find the pages they panic without.  The one exception is a process that
\* sbrk(-sz) has emptied: it has no page above its size, and it alone can make
\* the kernel panic.  The CPU never uses a directory that has been freed.
SpacesAreWhole ==
  /\ panicked => \E p \in Procs : Emptied(p)
  /\ \A p \in Procs : CanCall(p) =>
       LET mapped == DOMAIN mm.dirs[pr[p].pgdir].ptes
           below == 0 .. Vpn(PGROUNDUP(pr[p].sz)) - 1
       IN  mapped \subseteq below /\ (mapped = below \/ Emptied(p))
  /\ \A p \in Procs : pr[p].state = "RUNNING" => pr[p].cr3 \in DOMAIN mm.dirs

\* Where a process keeps references to files: its descriptors, and the two
\* places of the call under way.
Places == 0 .. NOFILE + 1

Kept(p, x) ==
  IF x < NOFILE THEN pr[p].ofile[x]
  ELSE IF x - NOFILE < Len(pr[p].files) THEN pr[p].files[x - NOFILE + 1]
  ELSE None

References(f) == Cardinality({e \in Procs \X Places : Kept(e[1], e[2]) = f})

\* The reference count of a file is the number of its descriptors and of the
\* calls that have it; an end of a pipe is open exactly while a file stands
\* for it, so that the other end learns in time, and never too early, that
\* nobody is left.
FilesAreCounted ==
  /\ \A f \in FileIds : ftable[f].ref = References(f)
  /\ \A page \in DOMAIN pipes, w \in BOOLEAN :
       w \in pipes[page] <=>
         LET stands(x) == x.type = "PIPE" /\ x.pipe = page /\ x.writable = w
         IN  \/ \E f \in FileIds : stands(ftable[f])
             \/ \E p \in Procs : stands(pr[p].ff)

=============================================================================
