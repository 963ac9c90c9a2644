-------------------------------- MODULE Pipe --------------------------------
(***************************************************************************)
(* pipe.c: a ring buffer between the processes that hold its write end and *)
(* those that hold its read end.                                           *)
(*                                                                         *)
(* A step is what a process does between acquiring p->lock and releasing   *)
(* it or testing proc->killed before it sleeps; from that test to the      *)
(* sleep the lock stays held, and kill(), which does not take it, may come *)
(* in between.  sleep() and wakeup() are those of Proc.                    *)
(***************************************************************************)
EXTENDS Naturals, Sequences

CONSTANTS
  Readers, Writers,  \* processes that hold an end of the pipe
  Bytes,             \* contents of a byte
  PIPESIZE,
  UintRange,         \* number of values of a uint: 2^32
  MaxCount,          \* bound on the n of read() and write()
  Kills,             \* whether processes are killed
  None

ASSUME PipeAssumption ==
  /\ PIPESIZE \in Nat \ {0}
  /\ UintRange \in Nat \ {0}
  /\ UintRange % PIPESIZE = 0
  /\ UintRange > PIPESIZE
  /\ MaxCount \in Nat
  /\ Kills \in BOOLEAN
  /\ Readers \cap Writers = {}
  /\ None \notin Readers \cup Writers

Procs == Readers \cup Writers

VARIABLES
  \* struct pipe
  data, nread, nwrite, readopen, writeopen,
  lock,      \* who holds p->lock between two steps
  \* The processes.
  open,      \* those that have not closed their end
  pc,        \* out: outside; call: in read() or write(); doze: about to
             \* sleep, lock held; sleep: in sleep()
  buf,       \* writer -> the bytes write() has not copied yet
  count,     \* reader -> the n of read(), 0 outside
  killed,
  got        \* what the last read() that did not fail returned

ring == <<data, nread, nwrite>>
ends == <<readopen, writeopen, open>>
vars == <<ring, ends, lock, pc, buf, count, killed, got>>

empty == nread = nwrite

full == nwrite = (nread + PIPESIZE) % UintRange

used == (nwrite + UintRange - nread) % UintRange

\* The bytes in the ring, oldest first.
Contents ==
  [i \in 1 .. used |-> data[((nread + i - 1) % UintRange) % PIPESIZE]]

\* wakeup(&p->nread) and wakeup(&p->nwrite): the sleepers among ps go back to
\* the loop they sleep in.
Wakeup(f, ps) ==
  [p \in Procs |-> IF p \in ps /\ f[p] = "sleep" THEN "call" ELSE f[p]]

Goto(p, l) == [pc EXCEPT ![p] = l]

Least(a, b) == IF a < b THEN a ELSE b

-----------------------------------------------------------------------------
(***************************************************************************)
(* pipewrite()                                                             *)
(***************************************************************************)

\* Mutant of CopyIn: nwrite is advanced before it is used as an index.
CopyInShifted(b, k) ==
  /\ data' = [x \in 0 .. PIPESIZE - 1 |->
       IF \E i \in 1 .. k : ((nwrite + i) % UintRange) % PIPESIZE = x
       THEN b[CHOOSE i \in 1 .. k :
                ((nwrite + i) % UintRange) % PIPESIZE = x]
       ELSE data[x]]
  /\ nwrite' = (nwrite + k) % UintRange

\* The first k bytes of b are copied into the ring.
CopyIn(b, k) ==
  /\ data' = [x \in 0 .. PIPESIZE - 1 |->
       IF \E i \in 1 .. k : ((nwrite + i - 1) % UintRange) % PIPESIZE = x
       THEN b[CHOOSE i \in 1 .. k :
                ((nwrite + i - 1) % UintRange) % PIPESIZE = x]
       ELSE data[x]]
  /\ nwrite' = (nwrite + k) % UintRange

\* write(b): a killed process does not get past trap().
Write(p, b) ==
  /\ p \in open
  /\ pc[p] = "out"
  /\ ~killed[p]
  /\ pc' = Goto(p, "call")
  /\ buf' = [buf EXCEPT ![p] = b]
  /\ UNCHANGED <<ring, ends, lock, count, killed, got>>

\* The pipe has room for all of it.
WriteAll(p) ==
  LET k == Len(buf[p]) IN
  /\ pc[p] = "call"
  /\ lock = None
  /\ k <= PIPESIZE - used
  /\ CopyIn(buf[p], k)
  /\ buf' = [buf EXCEPT ![p] = <<>>]
  /\ pc' = Wakeup(Goto(p, "out"), Readers)
  /\ UNCHANGED <<nread, ends, lock, count, killed, got>>

\* The pipe is filled, and nobody will read, or the writer was killed.
WriteFails(p) ==
  LET k == PIPESIZE - used IN
  /\ pc[p] = "call"
  /\ lock = None
  /\ Len(buf[p]) > k
  /\ ~readopen \/ killed[p]
  /\ CopyIn(buf[p], k)
  /\ buf' = [buf EXCEPT ![p] = <<>>]
  /\ pc' = Goto(p, "out")
  /\ UNCHANGED <<nread, ends, lock, count, killed, got>>

\* Mutant of WriteWaits: the readers are not woken.
WriteWaitsQuietly(p) ==
  LET k == PIPESIZE - used IN
  /\ pc[p] = "call"
  /\ lock = None
  /\ Len(buf[p]) > k
  /\ readopen /\ ~killed[p]
  /\ CopyIn(buf[p], k)
  /\ buf' = [buf EXCEPT ![p] = SubSeq(@, k + 1, Len(@))]
  /\ pc' = Goto(p, "doze")
  /\ lock' = p
  /\ UNCHANGED <<nread, ends, count, killed, got>>

\* The pipe is filled: the writer wakes the readers and goes to sleep.
WriteWaits(p) ==
  LET k == PIPESIZE - used IN
  /\ pc[p] = "call"
  /\ lock = None
  /\ Len(buf[p]) > k
  /\ readopen /\ ~killed[p]
  /\ CopyIn(buf[p], k)
  /\ buf' = [buf EXCEPT ![p] = SubSeq(@, k + 1, Len(@))]
  /\ pc' = Wakeup(Goto(p, "doze"), Readers)
  /\ lock' = p
  /\ UNCHANGED <<nread, ends, count, killed, got>>

\* sleep() gives up p->lock and the CPU in one step.
Sleep(p) ==
  /\ pc[p] = "doze"
  /\ pc' = Goto(p, "sleep")
  /\ lock' = None
  /\ UNCHANGED <<ring, ends, buf, count, killed, got>>

-----------------------------------------------------------------------------
(***************************************************************************)
(* piperead()                                                              *)
(***************************************************************************)

Read(p, n) ==
  /\ p \in open
  /\ pc[p] = "out"
  /\ ~killed[p]
  /\ pc' = Goto(p, "call")
  /\ count' = [count EXCEPT ![p] = n]
  /\ UNCHANGED <<ring, ends, lock, buf, killed, got>>

\* There are bytes, or the last writer is gone.
ReadSome(p) ==
  LET k == Least(count[p], used) IN
  /\ pc[p] = "call"
  /\ lock = None
  /\ ~empty \/ ~writeopen
  /\ got' = SubSeq(Contents, 1, k)
  /\ nread' = (nread + k) % UintRange
  /\ pc' = Wakeup(Goto(p, "out"), Writers)
  /\ count' = [count EXCEPT ![p] = 0]
  /\ UNCHANGED <<data, nwrite, ends, lock, buf, killed>>

ReadFails(p) ==
  /\ pc[p] = "call"
  /\ lock = None
  /\ empty /\ writeopen
  /\ killed[p]
  /\ pc' = Goto(p, "out")
  /\ count' = [count EXCEPT ![p] = 0]
  /\ UNCHANGED <<ring, ends, lock, buf, killed, got>>

ReadWaits(p) ==
  /\ pc[p] = "call"
  /\ lock = None
  /\ empty /\ writeopen
  /\ ~killed[p]
  /\ pc' = Goto(p, "doze")
  /\ lock' = p
  /\ UNCHANGED <<ring, ends, buf, count, killed, got>>

-----------------------------------------------------------------------------
(***************************************************************************)
(* pipeclose() and kill()                                                  *)
(***************************************************************************)

\* A process closes its end; the last one of that end calls pipeclose().
Close(p) ==
  LET rest == open \ {p} IN
  /\ p \in open
  /\ pc[p] = "out"
  /\ lock = None
  /\ open' = rest
  /\ writeopen' = (writeopen /\ rest \cap Writers # {})
  /\ readopen' = (readopen /\ rest \cap Readers # {})
  /\ pc' = IF writeopen # writeopen' THEN Wakeup(pc, Readers)
           ELSE IF readopen # readopen' THEN Wakeup(pc, Writers)
           ELSE pc
  /\ UNCHANGED <<ring, lock, buf, count, killed, got>>

\* kill() takes ptable.lock only.  Outside of read() and write() it only makes
\* the process exit, which is a Close.
Kill(p) ==
  /\ Kills
  /\ pc[p] # "out"
  /\ killed' = [killed EXCEPT ![p] = TRUE]
  /\ pc' = Wakeup(pc, {p})
  /\ UNCHANGED <<ring, ends, lock, buf, count, got>>

\* The last pipeclose() has freed the pipe.
Freed == ~readopen /\ ~writeopen /\ UNCHANGED vars

-----------------------------------------------------------------------------
\* After pipealloc() and the forks that spread its ends.
Init ==
  /\ data \in [0 .. PIPESIZE - 1 -> Bytes]
  /\ nread = 0 /\ nwrite = 0
  /\ readopen = TRUE /\ writeopen = TRUE
  /\ lock = None
  /\ open = Procs
  /\ pc = [p \in Procs |-> "out"]
  /\ buf = [p \in Writers |-> <<>>]
  /\ count = [p \in Readers |-> 0]
  /\ killed = [p \in Procs |-> FALSE]
  /\ got = <<>>

Buffers == UNION {[1 .. n -> Bytes] : n \in 0 .. MaxCount}

WriterStep(p) ==
  \/ \E b \in Buffers : Write(p, b)
  \/ WriteAll(p) \/ WriteFails(p) \/ WriteWaits(p)

ReaderStep(p) ==
  \/ \E n \in 0 .. MaxCount : Read(p, n)
  \/ ReadSome(p) \/ ReadFails(p) \/ ReadWaits(p)

Next ==
  \/ \E p \in Writers : WriterStep(p)
  \/ \E p \in Readers : ReaderStep(p)
  \/ \E p \in Procs : Sleep(p) \/ Close(p) \/ Kill(p)
  \/ Freed

Spec == Init /\ [][Next]_vars
-----------------------------------------------------------------------------
(***************************************************************************)
(* Properties.                                                             *)
(***************************************************************************)

Stream == INSTANCE ByteStream WITH
  Capacity <- PIPESIZE, stream <- Contents, pending <- buf, asked <- count,
  closed <- ~writeopen, out <- got

\* The ring implements a byte stream: across the wrap of the indices and of
\* nread and nwrite no byte is lost, repeated, reordered or overwritten, and
\* read() reports the end only after the last write end was closed.
ImplementsByteStream == Stream!Spec

\* A writer sleeps only while the pipe is full and may still be read, and a
\* reader, while nobody was killed, only while it is empty and may still be
\* written: no wakeup() is missing or too early, whoever sleeps and closes.
SleepersMustWait ==
  /\ \A w \in Writers : pc[w] = "sleep" => full /\ readopen
  /\ (\A p \in Procs : ~killed[p]) =>
       \A r \in Readers : pc[r] = "sleep" => empty /\ writeopen
=============================================================================
