--------------------------------- MODULE Bio ---------------------------------
(***************************************************************************)
(* The buffer cache of bio.c on the disk driver of ide.c, with the sleep   *)
(* locks of sleeplock.c that protect the buffers.                          *)
(*                                                                         *)
(* A critical section under bcache.lock, idelock or a sleep lock's         *)
(* spinlock is one step; the steps of bget(), acquiresleep(), iderw() and  *)
(* brelse() interleave.  The disk carries out the request at the head of   *)
(* the queue and then interrupts.                                          *)
(***************************************************************************)
EXTENDS Naturals, Sequences, FiniteSets, SequencesExt

CONSTANTS
  Procs,   \* processes in the file system
  Blocks,  \* block numbers
  Bufs,    \* bcache.buf[]
  Data,    \* contents of a block
  None

ASSUME BioAssumption ==
  /\ IsFiniteSet(Procs) /\ IsFiniteSet(Bufs)
  /\ None \notin Procs \cup Blocks \cup Bufs \cup Data

VARIABLES
  disk,       \* block -> contents on the disk
  \* struct buf
  blockno, valid, dirty, refcnt, data,
  locked,     \* b->lock.locked
  lru,        \* the list from head.next, most recently used first
  idequeue,   \* requests, the active one first
  panicked,
  \* Processes.
  pc,         \* out; lock: referenced, not locked; locksleep: asleep on the
              \* lock; have: locked; io: asleep in iderw(); woken: behind that
              \* sleep; held: bread() or bwrite() has returned; relse: unlocked
  want,       \* the block asked for
  buf,        \* the buffer bget() found
  current     \* history: block -> what was put into it last

bufVars == <<blockno, valid, dirty, refcnt, data, locked, lru>>
vars == <<disk, bufVars, idequeue, panicked, pc, want, buf, current>>

Goto(p, l) == [pc EXCEPT ![p] = l]

-----------------------------------------------------------------------------
(***************************************************************************)
(* bget() and the sleep lock.                                              *)
(***************************************************************************)

\* The block is cached: the buffer is referenced.
BgetCached(p, k) ==
  /\ pc[p] = "out"
  /\ \E b \in Bufs :
       /\ blockno[b] = k
       /\ refcnt' = [refcnt EXCEPT ![b] = @ + 1]
       /\ buf' = [buf EXCEPT ![p] = b]
  /\ want' = [want EXCEPT ![p] = k]
  /\ pc' = Goto(p, "lock")
  /\ UNCHANGED <<disk, blockno, valid, dirty, data, locked, lru, idequeue,
                 panicked, current>>

\* Mutant of Recyclable: the flags are not looked at.
RecyclableAny == {b \in Bufs : refcnt[b] = 0}

\* Buffers nobody refers to and whose contents log.c has committed.
Recyclable == {b \in Bufs : refcnt[b] = 0 /\ ~dirty[b]}

\* The block is not cached: the least recently used of them is taken.
BgetRecycled(p, k) ==
  /\ pc[p] = "out"
  /\ \A b \in Bufs : blockno[b] # k
  /\ Recyclable # {}
  /\ LET b == lru[CHOOSE i \in DOMAIN lru :
                    /\ lru[i] \in Recyclable
                    /\ \A j \in DOMAIN lru : lru[j] \in Recyclable => j <= i]
     IN  /\ blockno' = [blockno EXCEPT ![b] = k]
         /\ valid' = [valid EXCEPT ![b] = FALSE]
         /\ dirty' = [dirty EXCEPT ![b] = FALSE]
         /\ refcnt' = [refcnt EXCEPT ![b] = 1]
         /\ buf' = [buf EXCEPT ![p] = b]
  /\ want' = [want EXCEPT ![p] = k]
  /\ pc' = Goto(p, "lock")
  /\ UNCHANGED <<disk, data, locked, lru, idequeue, panicked, current>>

\* panic("bget: no buffers")
BgetPanics(p, k) ==
  /\ pc[p] = "out"
  /\ \A b \in Bufs : blockno[b] # k
  /\ Recyclable = {}
  /\ panicked' = TRUE
  /\ UNCHANGED <<disk, bufVars, idequeue, pc, want, buf, current>>

\* Mutant of AcquireSleep: lk->locked is not tested.
AcquireSleepAnyway(p) ==
  /\ pc[p] = "lock"
  /\ locked' = [locked EXCEPT ![buf[p]] = TRUE]
  /\ pc' = Goto(p, "have")
  /\ UNCHANGED <<disk, blockno, valid, dirty, refcnt, data, lru, idequeue,
                 panicked, want, buf, current>>

\* acquiresleep(&b->lock)
AcquireSleep(p) ==
  /\ pc[p] = "lock"
  /\ ~locked[buf[p]]
  /\ locked' = [locked EXCEPT ![buf[p]] = TRUE]
  /\ pc' = Goto(p, "have")
  /\ UNCHANGED <<disk, blockno, valid, dirty, refcnt, data, lru, idequeue,
                 panicked, want, buf, current>>

AcquireWaits(p) ==
  /\ pc[p] = "lock"
  /\ locked[buf[p]]
  /\ pc' = Goto(p, "locksleep")
  /\ UNCHANGED <<disk, bufVars, idequeue, panicked, want, buf, current>>

-----------------------------------------------------------------------------
(***************************************************************************)
(* bread(), bwrite() and the driver.                                       *)
(***************************************************************************)

\* bread() of a buffer with B_VALID returns at once.
BreadValid(p) ==
  /\ pc[p] = "have"
  /\ valid[buf[p]]
  /\ pc' = Goto(p, "held")
  /\ UNCHANGED <<disk, bufVars, idequeue, panicked, want, buf, current>>

\* iderw(b) queues the request and sleeps; the driver starts it when it is the
\* first.
iderw(p) ==
  /\ idequeue' = Append(idequeue, buf[p])
  /\ pc' = Goto(p, "io")

BreadInvalid(p) ==
  /\ pc[p] = "have"
  /\ ~valid[buf[p]]
  /\ iderw(p)
  /\ UNCHANGED <<disk, bufVars, panicked, want, buf, current>>

\* The holder modifies b->data; log_write() marks it B_DIRTY to pin it.
LogWrite(p, v) ==
  /\ pc[p] = "held"
  /\ data' = [data EXCEPT ![buf[p]] = v]
  /\ dirty' = [dirty EXCEPT ![buf[p]] = TRUE]
  /\ current' = [current EXCEPT ![want[p]] = v]
  /\ UNCHANGED <<disk, blockno, valid, refcnt, locked, lru, idequeue, panicked,
                 pc, want, buf>>

\* bwrite() of what the buffer holds.
Bwrite(p) ==
  /\ pc[p] = "held"
  /\ dirty' = [dirty EXCEPT ![buf[p]] = TRUE]
  /\ iderw(p)
  /\ UNCHANGED <<disk, blockno, valid, refcnt, data, locked, lru, panicked,
                 want, buf, current>>

\* wakeup(b): the process asleep in iderw().
Woken(b) ==
  [p \in Procs |-> IF pc[p] = "io" /\ buf[p] = b THEN "woken" ELSE pc[p]]

\* The disk has carried out the active request; ideintr().
Ideintr ==
  LET b == Head(idequeue) IN
  /\ idequeue # <<>>
  /\ idequeue' = Tail(idequeue)
  /\ IF dirty[b]
     THEN disk' = [disk EXCEPT ![blockno[b]] = data[b]] /\ UNCHANGED data
     ELSE data' = [data EXCEPT ![b] = disk[blockno[b]]] /\ UNCHANGED disk
  /\ valid' = [valid EXCEPT ![b] = TRUE]
  /\ dirty' = [dirty EXCEPT ![b] = FALSE]
  /\ pc' = Woken(b)
  /\ UNCHANGED <<blockno, refcnt, locked, lru, panicked, want, buf, current>>

\* The loop of iderw() looks at the flags again.
IderwReturns(p) ==
  LET b == buf[p] IN
  /\ pc[p] = "woken"
  /\ pc' = Goto(p, IF valid[b] /\ ~dirty[b] THEN "held" ELSE "io")
  /\ UNCHANGED <<disk, bufVars, idequeue, panicked, want, buf, current>>

-----------------------------------------------------------------------------
(***************************************************************************)
(* brelse()                                                                *)
(***************************************************************************)

\* Mutant of ReleaseSleep: nobody is woken.
ReleaseSleepQuietly(p) ==
  /\ pc[p] = "held"
  /\ locked' = [locked EXCEPT ![buf[p]] = FALSE]
  /\ pc' = Goto(p, "relse")
  /\ UNCHANGED <<disk, blockno, valid, dirty, refcnt, data, lru, idequeue,
                 panicked, want, buf, current>>

\* releasesleep(&b->lock) wakes those that wait for the lock.
ReleaseSleep(p) ==
  /\ pc[p] = "held"
  /\ locked' = [locked EXCEPT ![buf[p]] = FALSE]
  /\ pc' = [q \in Procs |->
              IF q = p THEN "relse"
              ELSE IF pc[q] = "locksleep" /\ buf[q] = buf[p] THEN "lock"
              ELSE pc[q]]
  /\ UNCHANGED <<disk, blockno, valid, dirty, refcnt, data, lru, idequeue,
                 panicked, want, buf, current>>

\* b is unlinked and put behind the head of the list.
MoveToFront(b) ==
  LET i == CHOOSE i \in DOMAIN lru : lru[i] = b
  IN  [j \in DOMAIN lru |->
         IF j = 1 THEN b ELSE IF j <= i THEN lru[j - 1] ELSE lru[j]]

\* Mutant of Brelse: the reference is dropped for all.
BrelseAll(p) ==
  LET b == buf[p] IN
  /\ pc[p] = "relse"
  /\ refcnt' = [refcnt EXCEPT ![b] = 0]
  /\ lru' = MoveToFront(b)
  /\ pc' = Goto(p, "out")
  /\ buf' = [buf EXCEPT ![p] = None]
  /\ want' = [want EXCEPT ![p] = None]
  /\ UNCHANGED <<disk, blockno, valid, dirty, data, locked, idequeue, panicked,
                 current>>

\* The rest of brelse(), under bcache.lock.
Brelse(p) ==
  LET b == buf[p] IN
  /\ pc[p] = "relse"
  /\ refcnt' = [refcnt EXCEPT ![b] = @ - 1]
  /\ lru' = IF refcnt[b] = 1 THEN MoveToFront(b) ELSE lru
  /\ pc' = Goto(p, "out")
  /\ buf' = [buf EXCEPT ![p] = None]
  /\ want' = [want EXCEPT ![p] = None]
  /\ UNCHANGED <<disk, blockno, valid, dirty, data, locked, idequeue, panicked,
                 current>>

Frozen == panicked /\ UNCHANGED vars

-----------------------------------------------------------------------------
\* After binit(): the buffers are empty, of no block.
Init ==
  /\ disk \in [Blocks -> Data]
  /\ blockno = [b \in Bufs |-> None]
  /\ valid = [b \in Bufs |-> FALSE]
  /\ dirty = [b \in Bufs |-> FALSE]
  /\ refcnt = [b \in Bufs |-> 0]
  /\ data = [b \in Bufs |-> None]
  /\ locked = [b \in Bufs |-> FALSE]
  /\ lru \in SetToSeqs(Bufs)
  /\ idequeue = <<>>
  /\ panicked = FALSE
  /\ pc = [p \in Procs |-> "out"]
  /\ want = [p \in Procs |-> None]
  /\ buf = [p \in Procs |-> None]
  /\ current = disk

BgetStep(p, k) == BgetCached(p, k) \/ BgetRecycled(p, k) \/ BgetPanics(p, k)

ProcStep(p) ==
  \/ AcquireSleep(p) \/ AcquireWaits(p)
  \/ BreadValid(p) \/ BreadInvalid(p) \/ Bwrite(p) \/ IderwReturns(p)
  \/ ReleaseSleep(p) \/ Brelse(p)

Next ==
  \/ /\ ~panicked
     /\ \/ \E p \in Procs, k \in Blocks : BgetStep(p, k)
        \/ \E p \in Procs : ProcStep(p)
        \/ \E p \in Procs, v \in Data : LogWrite(p, v)
        \/ Ideintr
  \/ Frozen

Spec == Init /\ [][Next]_vars
-----------------------------------------------------------------------------
(***************************************************************************)
(* Properties.                                                             *)
(***************************************************************************)

\* Processes that own the sleep lock of their buffer.
Holds(p) == pc[p] \in {"have", "io", "woken", "held"}

\* bread() returns the newest contents of the block asked for, also after the
\* buffer was recycled for another block and back, and whoever else waited
\* for it: a block has one buffer, and bget() recycles none with B_DIRTY.
BreadReturnsNewest ==
  \A p \in Procs : pc[p] = "held" =>
    /\ blockno[buf[p]] = want[p]
    /\ data[buf[p]] = current[want[p]]

\* One process at a time uses a buffer, the driver only works on buffers that
\* are locked, and no buffer is queued twice.
BuffersAreExclusive ==
  /\ \A p, q \in Procs : Holds(p) /\ Holds(q) /\ buf[p] = buf[q] => p = q
  /\ \A i \in DOMAIN idequeue :
       /\ \E p \in Procs : pc[p] = "io" /\ buf[p] = idequeue[i]
       /\ \A j \in DOMAIN idequeue : idequeue[i] = idequeue[j] => i = j

\* A buffer that somebody uses or waits for is referenced, and stays on its
\* block until the last of them is gone.
ReferencedIsKept ==
  \A b \in Bufs :
    /\ refcnt[b] = Cardinality({p \in Procs : buf[p] = b})
    /\ \A p \in Procs : buf[p] = b => blockno[b] = want[p]

\* A process asleep in iderw() has a request in the queue, one asleep on a
\* sleep lock waits for a process that has it: nobody sleeps on nothing.
SleepersAreServed ==
  \A p \in Procs :
    /\ pc[p] = "io" => \E i \in DOMAIN idequeue : idequeue[i] = buf[p]
    /\ pc[p] = "locksleep" =>
         \E q \in Procs : Holds(q) /\ buf[q] = buf[p]
=============================================================================
