-------------------------------- MODULE Log ---------------------------------
(***************************************************************************)
(* The write-ahead log of log.c: begin_op/end_op group transactions,       *)
(* log_write with absorption, commit in four disk phases, and recovery.    *)
(*                                                                         *)
(* A critical section under log.lock is one step, because nothing in it    *)
(* waits.  commit() and recovery run without locks: each of their disk     *)
(* writes is a step, so a crash or another process may come between any    *)
(* two.  A block write is atomic (one 512-byte sector).  The log's own     *)
(* blocks are written through the cache, so only home blocks have a cached *)
(* copy of their own.                                                      *)
(***************************************************************************)
EXTENDS Naturals, FiniteSets

CONSTANTS
  Procs,        \* processes that make file system calls
  Blocks,       \* home block numbers
  Data,         \* contents of a block
  MAXOPBLOCKS,  \* log space begin_op() sets aside for one call
  LOGSIZE,      \* entries of struct logheader
  NLOG,         \* blocks of the on-disk log, its header included (sb.nlog)
  OpBlocks,     \* distinct blocks one call really writes, at most
  None          \* block number 0, "not cached", "no buffer"

ASSUME ConstantsAssumption ==
  /\ MAXOPBLOCKS \in Nat \ {0}
  /\ LOGSIZE \in Nat
  /\ LOGSIZE >= MAXOPBLOCKS
  /\ NLOG \in Nat \ {0}
  /\ OpBlocks \in Nat \ {0}
  /\ None \notin Blocks \cup Data \cup Procs

VARIABLES
  \* On the disk; survives a crash.
  disk,         \* home locations
  dlog,         \* data blocks of the log
  dhead,        \* header block of the log: n and block[]
  \* In memory.
  cache,        \* buffer contents, None if the block is not cached
  dirty,        \* blocks whose buffer has B_DIRTY, which pins it
  lh,           \* log.lh
  outstanding,  \* log.outstanding
  committing,   \* log.committing
  panicked,     \* a CPU called panic(); all of them are frozen
  \* Per process.
  pc,           \* where it is in its system call
  tail,         \* the loop variable of write_log() and install_trans()
  buf,          \* the block whose buffer it holds locked
  wrote         \* blocks it has logged in this call

diskVars == <<disk, dlog, dhead>>
logVars  == <<lh, outstanding, committing>>
procVars == <<pc, tail, buf, wrote>>
vars == <<disk, dlog, dhead, cache, dirty, lh, outstanding, committing,
          panicked, pc, tail, buf, wrote>>

Slots == 1 .. LOGSIZE

Header == [n : 0 .. LOGSIZE, block : [Slots -> Blocks \cup {None}]]

PCs == {"off", "read_head", "recover", "recover_erase",          \* booting
        "user", "sleep", "woken",                                \* outside
        "op", "buf", "checked",                                  \* in a call
        "commit", "write_log", "write_head", "install", "erase", \* in commit()
        "committed"}

\* Contents that bread(b) returns.
bread(b) == IF cache[b] = None THEN disk[b] ELSE cache[b]

Locked(b) == \E p \in Procs : buf[p] = b

Logged(h) == {h.block[i] : i \in 1 .. h.n}

\* A header with the first n entries of block[].  Nobody reads the entries
\* behind n, on the disk or in memory: what they are is left out.
Entered(n, block) ==
  [n |-> n, block |-> [i \in Slots |-> IF i <= n THEN block[i] ELSE None]]

Goto(p, l) == pc' = [pc EXCEPT ![p] = l]

\* wakeup(&log), with the caller moving on to l.
WakeupAndGoto(p, l) ==
  pc' = [q \in Procs |-> IF q = p THEN l
                         ELSE IF pc[q] = "sleep" THEN "woken" ELSE pc[q]]

\* The loops "for (tail = 0; tail < log.lh.n; tail++)", counting from 1.
NextTail(p) ==
  tail' = [tail EXCEPT ![p] = IF tail[p] < lh.n THEN @ + 1 ELSE 1]

Panic ==
  /\ panicked' = TRUE
  /\ UNCHANGED <<diskVars, cache, dirty, logVars, procVars>>

-----------------------------------------------------------------------------
(***************************************************************************)
(* System calls.                                                           *)
(***************************************************************************)

\* Mutant of BeginOp: the call is not counted in log.outstanding.
BeginOpUncounted(p) ==
  /\ pc[p] \in {"user", "woken"}
  /\ ~committing
  /\ lh.n + (outstanding + 1) * MAXOPBLOCKS <= LOGSIZE
  /\ Goto(p, "op")
  /\ UNCHANGED <<diskVars, cache, dirty, logVars, panicked, tail, buf, wrote>>

\* Mutant of BeginOp: a running commit does not hold back new calls.
BeginOpDuringCommit(p) ==
  /\ pc[p] \in {"user", "woken"}
  /\ lh.n + (outstanding + 1) * MAXOPBLOCKS <= LOGSIZE
  /\ outstanding' = outstanding + 1
  /\ Goto(p, "op")
  /\ UNCHANGED <<diskVars, cache, dirty, lh, committing, panicked, tail, buf,
                 wrote>>

\* begin_op() finds no commit running and room for one more call.
BeginOp(p) ==
  /\ pc[p] \in {"user", "woken"}
  /\ ~committing
  /\ lh.n + (outstanding + 1) * MAXOPBLOCKS <= LOGSIZE
  /\ outstanding' = outstanding + 1
  /\ Goto(p, "op")
  /\ UNCHANGED <<diskVars, cache, dirty, lh, committing, panicked, tail, buf,
                 wrote>>

\* begin_op() sleeps on &log otherwise; sleep() gives up log.lock atomically.
BeginSleep(p) ==
  /\ pc[p] \in {"user", "woken"}
  /\ \/ committing
     \/ lh.n + (outstanding + 1) * MAXOPBLOCKS > LOGSIZE
  /\ Goto(p, "sleep")
  /\ UNCHANGED <<diskVars, cache, dirty, logVars, panicked, tail, buf, wrote>>

\* The call locks a buffer with bread() and modifies b->data, as every caller
\* of log_write() does (bzero, balloc, bfree, ialloc, iupdate, bmap, writei).
Modify(p, b, v) ==
  /\ pc[p] = "op"
  /\ ~Locked(b)
  /\ Cardinality(wrote[p] \cup {b}) <= OpBlocks
  /\ cache' = [cache EXCEPT ![b] = v]
  /\ buf' = [buf EXCEPT ![p] = b]
  /\ Goto(p, "buf")
  /\ UNCHANGED <<diskVars, dirty, logVars, panicked, tail, wrote>>

\* The checks at the head of log_write(), made before log.lock is taken.
LogWriteFull == lh.n >= LOGSIZE \/ lh.n >= NLOG - 1

LogWriteCheck(p) ==
  /\ pc[p] = "buf"
  /\ IF LogWriteFull \/ outstanding < 1
     THEN Panic
     ELSE /\ Goto(p, "checked")
          /\ UNCHANGED <<diskVars, cache, dirty, logVars, panicked, tail, buf,
                         wrote>>

\* log.lh after b is recorded: absorbed when it is there, else appended.
Recorded(b) ==
  IF b \in Logged(lh) THEN lh
  ELSE [n |-> lh.n + 1, block |-> [lh.block EXCEPT ![lh.n + 1] = b]]

\* Mutant of LogWriteRecord: B_DIRTY is not set.
LogWriteUnpinned(p) ==
  /\ pc[p] = "checked"
  /\ lh' = Recorded(buf[p])
  /\ wrote' = [wrote EXCEPT ![p] = @ \cup {buf[p]}]
  /\ buf' = [buf EXCEPT ![p] = None]
  /\ Goto(p, "op")
  /\ UNCHANGED <<diskVars, cache, dirty, outstanding, committing, panicked,
                 tail>>

\* The rest of log_write(), under log.lock, and the caller's brelse().
LogWriteRecord(p) ==
  /\ pc[p] = "checked"
  /\ lh' = Recorded(buf[p])
  /\ dirty' = dirty \cup {buf[p]}
  /\ wrote' = [wrote EXCEPT ![p] = @ \cup {buf[p]}]
  /\ buf' = [buf EXCEPT ![p] = None]
  /\ Goto(p, "op")
  /\ UNCHANGED <<diskVars, cache, outstanding, committing, panicked, tail>>

\* end_op() with other calls still running: it only wakes the waiters.
EndOp(p) ==
  /\ pc[p] = "op"
  /\ outstanding # 1
  /\ IF committing
     THEN Panic
     ELSE /\ outstanding' = outstanding - 1
          /\ wrote' = [wrote EXCEPT ![p] = {}]
          /\ WakeupAndGoto(p, "user")
          /\ UNCHANGED <<diskVars, cache, dirty, lh, committing, panicked,
                         tail, buf>>

\* end_op() of the last call running: this process commits.
EndOpLast(p) ==
  /\ pc[p] = "op"
  /\ outstanding = 1
  /\ IF committing
     THEN Panic
     ELSE /\ outstanding' = 0
          /\ committing' = TRUE
          /\ wrote' = [wrote EXCEPT ![p] = {}]
          /\ Goto(p, "commit")
          /\ UNCHANGED <<diskVars, cache, dirty, lh, panicked, tail, buf>>

-----------------------------------------------------------------------------
(***************************************************************************)
(* commit(), run by the process whose end_op() was the last.               *)
(***************************************************************************)

Commit(p) ==
  /\ pc[p] = "commit"
  /\ Goto(p, IF lh.n > 0 THEN "write_log" ELSE "committed")
  /\ UNCHANGED <<diskVars, cache, dirty, logVars, panicked, tail, buf, wrote>>

\* One iteration of write_log(): cached block to its slot in the log.
WriteLog(p) ==
  LET b == lh.block[tail[p]] IN
  /\ pc[p] = "write_log"
  /\ ~Locked(b)
  /\ dlog' = [dlog EXCEPT ![tail[p]] = bread(b)]
  /\ cache' = [cache EXCEPT ![b] = bread(b)]
  /\ NextTail(p)
  /\ Goto(p, IF tail[p] < lh.n THEN "write_log" ELSE "write_head")
  /\ UNCHANGED <<disk, dhead, dirty, logVars, panicked, buf, wrote>>

\* write_head(): the true point at which the transaction commits.
WriteHead(p) ==
  /\ pc[p] = "write_head"
  /\ dhead' = Entered(lh.n, lh.block)
  /\ Goto(p, "install")
  /\ UNCHANGED <<disk, dlog, cache, dirty, logVars, panicked, tail, buf, wrote>>

\* One iteration of install_trans(): log slot i to its home location.  The
\* write completes in ideintr(), which clears B_DIRTY.
InstallBlock(i) ==
  LET b == lh.block[i] IN
  /\ ~Locked(b)
  /\ disk' = [disk EXCEPT ![b] = dlog[i]]
  /\ cache' = [cache EXCEPT ![b] = dlog[i]]
  /\ dirty' = dirty \ {b}

InstallTrans(p) ==
  /\ pc[p] = "install"
  /\ InstallBlock(tail[p])
  /\ NextTail(p)
  /\ Goto(p, IF tail[p] < lh.n THEN "install" ELSE "erase")
  /\ UNCHANGED <<dlog, dhead, logVars, panicked, buf, wrote>>

\* log.lh.n = 0 and write_head(): erase the transaction from the log.
EraseHead ==
  /\ lh' = Entered(0, lh.block)
  /\ dhead' = lh'

Erase(p) ==
  /\ pc[p] = "erase"
  /\ EraseHead
  /\ Goto(p, "committed")
  /\ UNCHANGED <<disk, dlog, cache, dirty, outstanding, committing, panicked,
                 tail, buf, wrote>>

\* Mutant of CommitDone: the processes asleep in begin_op() are not woken.
CommitDoneQuietly(p) ==
  /\ pc[p] = "committed"
  /\ committing' = FALSE
  /\ Goto(p, "user")
  /\ UNCHANGED <<diskVars, cache, dirty, lh, outstanding, panicked, tail, buf,
                 wrote>>

\* Mutant of CommitDone: log.committing is not reset.
CommitDoneNoReset(p) ==
  /\ pc[p] = "committed"
  /\ WakeupAndGoto(p, "user")
  /\ UNCHANGED <<diskVars, cache, dirty, logVars, panicked, tail, buf, wrote>>

\* The end of end_op(), after commit() has returned.
CommitDone(p) ==
  /\ pc[p] = "committed"
  /\ committing' = FALSE
  /\ WakeupAndGoto(p, "user")
  /\ UNCHANGED <<diskVars, cache, dirty, lh, outstanding, panicked, tail, buf,
                 wrote>>

-----------------------------------------------------------------------------
(***************************************************************************)
(* The buffer cache underneath: fileread() brings blocks in outside any    *)
(* transaction, bget() recycles an unreferenced buffer without B_DIRTY.    *)
(***************************************************************************)

Bread(b) ==
  /\ \E p \in Procs : pc[p] = "user"
  /\ cache[b] = None
  /\ cache' = [cache EXCEPT ![b] = disk[b]]
  /\ UNCHANGED <<diskVars, dirty, logVars, panicked, procVars>>

\* Mutant of Evict: bget() recycles any unreferenced buffer.
EvictDirty(b) ==
  /\ cache[b] # None
  /\ ~Locked(b)
  /\ cache' = [cache EXCEPT ![b] = None]
  /\ dirty' = dirty \ {b}
  /\ UNCHANGED <<diskVars, logVars, panicked, procVars>>

Evict(b) ==
  /\ cache[b] # None
  /\ ~Locked(b)
  /\ b \notin dirty
  /\ cache' = [cache EXCEPT ![b] = None]
  /\ UNCHANGED <<diskVars, dirty, logVars, panicked, procVars>>

-----------------------------------------------------------------------------
(***************************************************************************)
(* Crash and recovery.  The first process runs initlog() in forkret(),     *)
(* before any other process exists.                                        *)
(***************************************************************************)

Booting(p) ==
  /\ cache = [b \in Blocks |-> None]
  /\ dirty = {}
  /\ lh = [n |-> 0, block |-> [i \in Slots |-> None]]
  /\ outstanding = 0
  /\ committing = FALSE
  /\ panicked = FALSE
  /\ pc = [q \in Procs |-> IF q = p THEN "read_head" ELSE "off"]
  /\ tail = [q \in Procs |-> 1]
  /\ buf = [q \in Procs |-> None]
  /\ wrote = [q \in Procs |-> {}]

\* The machine stops and restarts at Booting(p) with the disk it had.
Crash(p) ==
  /\ cache' = [b \in Blocks |-> None]
  /\ dirty' = {}
  /\ lh' = [n |-> 0, block |-> [i \in Slots |-> None]]
  /\ outstanding' = 0
  /\ committing' = FALSE
  /\ panicked' = FALSE
  /\ pc' = [q \in Procs |-> IF q = p THEN "read_head" ELSE "off"]
  /\ tail' = [q \in Procs |-> 1]
  /\ buf' = [q \in Procs |-> None]
  /\ wrote' = [q \in Procs |-> {}]
  /\ UNCHANGED diskVars

ReadHead(p) ==
  /\ pc[p] = "read_head"
  /\ lh' = Entered(dhead.n, dhead.block)
  /\ Goto(p, IF dhead.n > 0 THEN "recover" ELSE "recover_erase")
  /\ UNCHANGED <<diskVars, cache, dirty, outstanding, committing, panicked,
                 tail, buf, wrote>>

Recover(p) ==
  /\ pc[p] = "recover"
  /\ InstallBlock(tail[p])
  /\ NextTail(p)
  /\ Goto(p, IF tail[p] < lh.n THEN "recover" ELSE "recover_erase")
  /\ UNCHANGED <<dlog, dhead, logVars, panicked, buf, wrote>>

RecoverErase(p) ==
  /\ pc[p] = "recover_erase"
  /\ EraseHead
  /\ pc' = [q \in Procs |-> "user"]
  /\ UNCHANGED <<disk, dlog, cache, dirty, outstanding, committing, panicked,
                 tail, buf, wrote>>

-----------------------------------------------------------------------------
\* write_log() stays inside the on-disk log: entry n goes to block
\* log.start + n, and log.start + NLOG is the first inode block.
LogInBounds == lh.n <= NLOG - 1

\* Two calls that pass the check of log_write() together can leave a
\* transaction longer than the on-disk log.  write_log() would go on into the
\* inode blocks; the model follows such a transaction only to the next crash.
Running == ~panicked /\ LogInBounds

\* Power-on with a disk made by mkfs: the log is zeroed.
Init ==
  /\ disk \in [Blocks -> Data]
  /\ dlog \in {[i \in Slots |-> v] : v \in Data}
  /\ dhead = [n |-> 0, block |-> [i \in Slots |-> None]]
  /\ \E p \in Procs : Booting(p)

CallStep(p) ==
  \/ BeginOp(p) \/ BeginSleep(p)
  \/ \E b \in Blocks, v \in Data : Modify(p, b, v)
  \/ LogWriteCheck(p) \/ LogWriteRecord(p)
  \/ EndOp(p) \/ EndOpLast(p)

CommitStep(p) ==
  \/ Commit(p) \/ WriteLog(p) \/ WriteHead(p) \/ InstallTrans(p)
  \/ Erase(p) \/ CommitDone(p)

RecoveryStep(p) == ReadHead(p) \/ Recover(p) \/ RecoverErase(p)

Next ==
  \/ /\ Running
     /\ \/ \E p \in Procs : CallStep(p) \/ CommitStep(p) \/ RecoveryStep(p)
        \/ \E b \in Blocks : Bread(b) \/ Evict(b)
  \/ \E p \in Procs : Crash(p)

Spec == Init /\ [][Next]_vars
-----------------------------------------------------------------------------
(***************************************************************************)
(* Properties.                                                             *)
(***************************************************************************)

\* Types of the variables: struct log, the buffers' flags and the disk areas
\* of log.c stay in range; log.lh.n never passes the end of block[].
TypeOK ==
  /\ disk \in [Blocks -> Data]
  /\ dlog \in [Slots -> Data]
  /\ dhead \in Header
  /\ cache \in [Blocks -> Data \cup {None}]
  /\ dirty \in SUBSET Blocks
  /\ lh \in Header
  /\ outstanding \in Nat
  /\ committing \in BOOLEAN
  /\ panicked \in BOOLEAN
  /\ pc \in [Procs -> PCs]
  /\ tail \in [Procs -> 1 .. LOGSIZE]
  /\ buf \in [Procs -> Blocks \cup {None}]
  /\ wrote \in [Procs -> SUBSET Blocks]

InCall(p) == pc[p] \in {"op", "buf", "checked"}

InCommit(p) == pc[p] \in {"commit", "write_log", "write_head", "install",
                          "erase", "committed"}

InRecovery(p) == pc[p] \in {"read_head", "recover", "recover_erase"}

\* The entry of block[] that install_trans() applies last to b.
SlotOf(h, b) ==
  CHOOSE i \in 1 .. h.n :
    /\ h.block[i] = b
    /\ \A j \in 1 .. h.n : h.block[j] = b => j <= i

\* The home blocks recovery would leave behind if the machine stopped now.
Recovered ==
  [b \in Blocks |-> IF b \in Logged(dhead) THEN dlog[SlotOf(dhead, b)]
                    ELSE disk[b]]

\* The home blocks as running system calls see them.
Current ==
  IF \E p \in Procs : InRecovery(p) THEN Recovered
  ELSE [b \in Blocks |-> bread(b)]

Active == {p \in Procs : InCall(p)}

\* log.c:9-15: whatever the interleaving of calls, commits and crashes, the
\* disk behaves like one on which system calls are atomic: recovery yields
\* the contents of a moment at which no call was between begin_op() and
\* end_op().
AD == INSTANCE AtomicDisk
      WITH durable <- Recovered, current <- Current, active <- Active

CallsAreAtomic == AD!Spec

\* bget() may recycle a buffer without B_DIRTY only because the disk has its
\* contents: an unlocked, cached, clean block equals its home location.
CleanIsOnDisk ==
  \A b \in Blocks :
    cache[b] # None /\ b \notin dirty /\ ~Locked(b) => cache[b] = disk[b]

\* commit() runs without log.lock: its process is alone, no call is in
\* progress and nobody else is in commit() (log.c:11-15).
CommitIsExclusive ==
  \A p \in Procs : InCommit(p) =>
    \A q \in Procs \ {p} : ~InCall(q) /\ ~InCommit(q)

\* A process asleep in begin_op() has somebody to wake it: a call in progress
\* or a commit.  Without one it would sleep for ever.
SleeperHasWaker ==
  (\E p \in Procs : pc[p] = "sleep")
    => \E q \in Procs : InCall(q) \/ InCommit(q)

-----------------------------------------------------------------------------
(***************************************************************************)
(* A system call writes finitely often and then ends (strong fairness: it  *)
(* returns to "op" after every write), and a process in the kernel is      *)
(* scheduled again.  Nothing makes a call begin, or a crash happen.        *)
(***************************************************************************)
Fairness ==
  \A p \in Procs :
    /\ SF_vars(Running /\ (EndOp(p) \/ EndOpLast(p)))
    /\ WF_vars(Running /\ (LogWriteCheck(p) \/ LogWriteRecord(p)))
    /\ WF_vars(Running /\ (CommitStep(p) \/ RecoveryStep(p)))

FairSpec == Spec /\ Fairness

\* A process asleep in begin_op() is woken to look again, unless the machine
\* panics or the log overflows: end_op() loses no wakeup(&log).
SleeperIsWoken ==
  \A p \in Procs : pc[p] = "sleep" ~> pc[p] # "sleep" \/ ~Running

\* A commit, once begun, finishes or is cut short by a crash, a panic or a
\* transaction that has outgrown the log.
CommitFinishes ==
  committing ~> ~committing \/ ~Running
=============================================================================
