-------------------------------- MODULE Proc --------------------------------
(***************************************************************************)
(* The process table of proc.c on several CPUs: fork, exit, wait, kill,    *)
(* sleep, wakeup, yield and the scheduler's context switches.              *)
(*                                                                         *)
(* ptable.lock is a variable, because it is handed over: a process calls   *)
(* sched() with the lock held, the scheduler releases it on its own stack, *)
(* and the process picked next releases the lock the scheduler took.  A    *)
(* critical section that does not cross a switch is one step.  What fork() *)
(* does to an EMBRYO without the lock is done in steps of its own.  A scan *)
(* of the table for "some" slot picks any slot that qualifies.             *)
(***************************************************************************)
EXTENDS Naturals, FiniteSets

CONSTANTS
  Slots,      \* ptable.proc[]
  InitProc,   \* the slot of initproc
  CPUs,       \* the processors
  Statuses,   \* arguments of exit(); 0 is one of them
  Chans,      \* channels other than a process's own
  Devices,    \* those of them that somebody is sure to wake
  Calls,      \* system calls the processes make
  MaxPid,     \* bound on nextpid
  None        \* null pointer, nobody

ASSUME ProcAssumption ==
  /\ InitProc \in Slots
  /\ 0 \in Statuses
  /\ Calls \subseteq {"fork", "wait", "kill",
                     "block",  \* one that waits for what may never come
                     "io"}     \* one that waits for a device or a lock
  /\ Devices \subseteq Chans
  /\ MaxPid \in Nat \ {0}
  /\ None \notin Slots \cup CPUs \cup Chans \cup Statuses
  /\ Slots \cap Chans = {}

VARIABLES
  \* struct proc
  state, pid, parent, chan, killed, kstack, exit_status,
  context,    \* where the saved context resumes the process
  nextpid,
  \* The kernel thread of a process.
  pc,         \* where it is in the kernel
  np,         \* fork()'s new process
  arg,        \* exit()'s argument
  \* Processors and ptable.lock.
  proc,       \* cpu->proc
  mode,       \* what the CPU executes
  lock,       \* the CPU that holds ptable.lock
  panicked,
  \* History.
  ended,      \* pid -> status it passed to exit()
  ret         \* pid and status of the last wait() that returned a child

procVars == <<state, pid, parent, chan, killed, kstack, exit_status, context,
              nextpid>>
threadVars == <<pc, np, arg>>
cpuVars == <<proc, mode, lock, panicked>>
histVars == <<ended, ret>>
vars == <<procVars, threadVars, cpuVars, histVars>>

\* mode: idle: in the scheduler's loop.  enter: on the stack of the process just
\* picked, lock held.  run: the process runs.  leave: the process is inside
\* sched(), lock held.  back: on the scheduler's stack again, lock held.

\* The process on whose kernel stack CPU c executes.
Stack(c) == IF mode[c] \in {"enter", "run", "leave"} THEN proc[c] ELSE None

Runs(c, l) == mode[c] = "run" /\ pc[proc[c]] = l

\* Mutant of Sched: the lock is released before the switch.
SchedUnlocked(c) ==
  /\ lock' = None
  /\ mode' = [mode EXCEPT ![c] = "leave"]
  /\ UNCHANGED <<proc, panicked>>

\* The part of sched() before the switch; the lock stays held.
Sched(c) ==
  /\ lock' = c
  /\ mode' = [mode EXCEPT ![c] = "leave"]
  /\ UNCHANGED <<proc, panicked>>

\* wakeup1(ch) on a table of states s.
wakeup1(s, ch) ==
  [p \in Slots |-> IF s[p] = "SLEEPING" /\ chan[p] = ch THEN "RUNNABLE"
                   ELSE s[p]]

-----------------------------------------------------------------------------
(***************************************************************************)
(* The scheduler and the switches.                                         *)
(***************************************************************************)

\* scheduler() picks a RUNNABLE process and switches to it.
Pick(c, p) ==
  /\ mode[c] = "idle"
  /\ lock = None
  /\ state[p] = "RUNNABLE"
  /\ lock' = c
  /\ proc' = [proc EXCEPT ![c] = p]
  /\ state' = [state EXCEPT ![p] = "RUNNING"]
  /\ mode' = [mode EXCEPT ![c] = "enter"]
  /\ UNCHANGED <<pid, parent, chan, killed, kstack, exit_status, context,
                 nextpid, threadVars, panicked, histVars>>

\* A round of scheduler() that finds nothing to run.
Idle(c) ==
  /\ mode[c] = "idle"
  /\ lock = None
  /\ \A p \in Slots : state[p] # "RUNNABLE"
  /\ UNCHANGED vars

\* The process continues behind its sched(), or in forkret(): it releases
\* ptable.lock, unless it sleeps in wait(), which goes on scanning.
Resume(c) ==
  LET p == proc[c] IN
  /\ mode[c] = "enter"
  /\ mode' = [mode EXCEPT ![c] = "run"]
  /\ lock' = IF context[p] = "wait" THEN lock ELSE None
  /\ chan' = IF context[p] \in {"wait", "sleep"} THEN [chan EXCEPT ![p] = None]
             ELSE chan
  /\ UNCHANGED <<state, pid, parent, killed, kstack, exit_status, context,
                 nextpid, threadVars, proc, panicked, histVars>>

\* swtch() inside sched(): the CPU leaves the process's stack.
Swtch(c) ==
  /\ mode[c] = "leave"
  /\ mode' = [mode EXCEPT ![c] = "back"]
  /\ UNCHANGED <<procVars, threadVars, proc, lock, panicked, histVars>>

\* The scheduler forgets the process and releases ptable.lock.
SchedulerRelease(c) ==
  /\ mode[c] = "back"
  /\ mode' = [mode EXCEPT ![c] = "idle"]
  /\ proc' = [proc EXCEPT ![c] = None]
  /\ lock' = None
  /\ UNCHANGED <<procVars, threadVars, panicked, histVars>>

\* yield() on a timer interrupt, anywhere but under ptable.lock.  In user
\* space trap() lets a killed process exit instead.
Yield(c) ==
  LET p == proc[c] IN
  /\ mode[c] = "run"
  /\ ~(pc[p] = "user" /\ killed[p])
  /\ lock = None
  /\ state' = [state EXCEPT ![p] = "RUNNABLE"]
  /\ context' = [context EXCEPT ![p] = "yield"]
  /\ Sched(c)
  /\ UNCHANGED <<pid, parent, chan, killed, kstack, exit_status, nextpid,
                 threadVars, histVars>>

\* piperead(), pipewrite(), consoleread() and sys_sleep() find nothing to do,
\* and themselves not killed.  ptable.lock is free from this test to the sleep.
TestKilled(c) ==
  /\ Runs(c, "block")
  /\ ~killed[proc[c]]
  /\ pc' = [pc EXCEPT ![proc[c]] = "tested"]
  /\ UNCHANGED <<procVars, np, arg, cpuVars, histVars>>

\* sleep() anywhere but in wait().  Who waits for a device, a sleep lock or the
\* log, in a call or in exit(), does not look at killed.  The others do, and
\* will again when they are woken.
Sleep(c, ch) ==
  LET p == proc[c] IN
  /\ \/ Runs(c, "tested")
     \/ /\ Runs(c, "io") \/ Runs(c, "exiting")
        /\ ch \in Devices
  /\ lock = None
  /\ chan' = [chan EXCEPT ![p] = ch]
  /\ state' = [state EXCEPT ![p] = "SLEEPING"]
  /\ context' = [context EXCEPT ![p] = "sleep"]
  /\ pc' = [pc EXCEPT ![p] = IF @ = "tested" THEN "block" ELSE @]
  /\ Sched(c)
  /\ UNCHANGED <<pid, parent, killed, kstack, exit_status, nextpid, np, arg,
                 histVars>>

\* wakeup() by an interrupt or by another process.
Wakeup(ch) ==
  /\ lock = None
  /\ state' = wakeup1(state, ch)
  /\ UNCHANGED <<pid, parent, chan, killed, kstack, exit_status, context,
                 nextpid, threadVars, cpuVars, histVars>>

-----------------------------------------------------------------------------
(***************************************************************************)
(* System calls.                                                           *)
(***************************************************************************)

\* trap() enters system call l, unless the process has been killed.  A kill
\* from here on is seen by wait(), TestKilled, or when the call returns.
Syscall(c, l) ==
  /\ Runs(c, "user")
  /\ ~killed[proc[c]]
  /\ pc' = [pc EXCEPT ![proc[c]] = l]
  /\ UNCHANGED <<procVars, np, arg, cpuVars, histVars>>

\* A system call returns without having changed the table: one that waited and
\* has what it waited for, or was killed, fork() without a free slot (or, in the model, at the bound on
\* nextpid), kill() without such a process.
Return(c) ==
  LET p == proc[c] IN
  /\ \/ Runs(c, "block") \/ Runs(c, "io")
     \/ Runs(c, "fork") /\ lock = None
        /\ (nextpid > MaxPid \/ \A q \in Slots : state[q] # "UNUSED")
     \/ Runs(c, "kill") /\ lock = None
        /\ \E k \in 0 .. MaxPid : \A q \in Slots : pid[q] # k
  /\ pc' = [pc EXCEPT ![p] = "user"]
  /\ UNCHANGED <<procVars, np, arg, cpuVars, histVars>>

-----------------------------------------------------------------------------
(***************************************************************************)
(* fork()                                                                  *)
(***************************************************************************)

\* allocproc() under the lock: an UNUSED slot becomes an EMBRYO.
ForkAlloc(c, q) ==
  LET p == proc[c] IN
  /\ Runs(c, "fork")
  /\ lock = None
  /\ nextpid <= MaxPid
  /\ state[q] = "UNUSED"
  /\ state' = [state EXCEPT ![q] = "EMBRYO"]
  /\ pid' = [pid EXCEPT ![q] = nextpid]
  /\ nextpid' = nextpid + 1
  /\ np' = [np EXCEPT ![p] = q]
  /\ pc' = [pc EXCEPT ![p] = "fork_kalloc"]
  /\ UNCHANGED <<parent, chan, killed, kstack, exit_status, context, arg,
                 cpuVars, histVars>>

\* The rest of allocproc(), without the lock: a kernel stack and a context.
ForkKalloc(c) ==
  LET p == proc[c]
      q == np[p] IN
  /\ Runs(c, "fork_kalloc")
  /\ kstack' = [kstack EXCEPT ![q] = TRUE]
  /\ context' = [context EXCEPT ![q] = "forkret"]
  /\ pc' = [pc EXCEPT ![p] = "fork_copy"]
  /\ UNCHANGED <<state, pid, parent, chan, killed, exit_status, nextpid, np,
                 arg, cpuVars, histVars>>

\* allocproc() or copyuvm() finds no memory: the slot is given back, without
\* the lock.
ForkFail(c) ==
  LET p == proc[c]
      q == np[p] IN
  /\ Runs(c, "fork_kalloc") \/ Runs(c, "fork_copy")
  /\ kstack' = [kstack EXCEPT ![q] = FALSE]
  /\ state' = [state EXCEPT ![q] = "UNUSED"]
  /\ np' = [np EXCEPT ![p] = None]
  /\ pc' = [pc EXCEPT ![p] = "user"]
  /\ UNCHANGED <<pid, parent, chan, killed, exit_status, context, nextpid,
                 arg, cpuVars, histVars>>

\* fork() fills in the child, without the lock.
ForkCopy(c) ==
  LET p == proc[c]
      q == np[p] IN
  /\ Runs(c, "fork_copy")
  /\ parent' = [parent EXCEPT ![q] = p]
  /\ pc' = [pc EXCEPT ![p] = "fork_run"]
  /\ UNCHANGED <<state, pid, chan, killed, kstack, exit_status, context,
                 nextpid, np, arg, cpuVars, histVars>>

\* The child may run.
ForkRun(c) ==
  LET p == proc[c] IN
  /\ Runs(c, "fork_run")
  /\ lock = None
  /\ state' = [state EXCEPT ![np[p]] = "RUNNABLE"]
  /\ np' = [np EXCEPT ![p] = None]
  /\ pc' = [pc EXCEPT ![p] = "user"]
  /\ UNCHANGED <<pid, parent, chan, killed, kstack, exit_status, context,
                 nextpid, arg, cpuVars, histVars>>

-----------------------------------------------------------------------------
(***************************************************************************)
(* exit(), wait() and kill()                                               *)
(***************************************************************************)

\* exit(s) begins: init may not, the others close their files.
BeginExit(p, s) ==
  /\ IF p = InitProc
     THEN panicked' = TRUE /\ UNCHANGED <<pc, arg, ended>>
     ELSE /\ pc' = [pc EXCEPT ![p] = "exiting"]
          /\ arg' = [arg EXCEPT ![p] = s]
          /\ ended' = [ended EXCEPT ![pid[p]] = s]
          /\ UNCHANGED panicked
  /\ UNCHANGED <<state, pid, parent, chan, kstack, exit_status, context,
                 nextpid, np, proc, mode, lock, ret>>

\* The system call exit(s).
Exit(c, s) ==
  /\ Runs(c, "user")
  /\ ~killed[proc[c]]
  /\ BeginExit(proc[c], s)
  /\ UNCHANGED killed

\* trap() finds on its way in or out that the process has been killed.
ExitKilled(c) ==
  /\ Runs(c, "user")
  /\ killed[proc[c]]
  /\ BeginExit(proc[c], 0)
  /\ UNCHANGED killed

\* A trap in user space that is nobody's interrupt kills the process.
Fault(c) ==
  /\ Runs(c, "user")
  /\ killed' = [killed EXCEPT ![proc[c]] = TRUE]
  /\ BeginExit(proc[c], 0)

\* Mutant of ExitStates: init is not told of the zombies it adopts.
ExitStatesQuiet(p) == wakeup1(state, parent[p])

\* Mutant of ExitStates: the parent, init for an orphan, is not told.
ExitStatesNoParent(p) ==
  IF \E q \in Slots : parent[q] = p /\ state[q] = "ZOMBIE"
  THEN wakeup1(state, InitProc) ELSE state

\* wakeup1(parent), adoption by init with wakeup1(initproc) for zombies.
ExitStates(p) ==
  LET s == wakeup1(state, parent[p]) IN
  IF \E q \in Slots : parent[q] = p /\ state[q] = "ZOMBIE"
  THEN wakeup1(s, InitProc) ELSE s

\* Mutant of Adopted: the children keep the exiting process as their parent.
AdoptedByNobody(p) == parent

Adopted(p) ==
  [q \in Slots |-> IF parent[q] = p THEN InitProc ELSE parent[q]]

\* Mutant of ExitFinish: the status is not stored.
ExitNoStatus(c) ==
  LET p == proc[c] IN
  /\ Runs(c, "exiting")
  /\ lock = None
  /\ state' = [ExitStates(p) EXCEPT ![p] = "ZOMBIE"]
  /\ parent' = Adopted(p)
  /\ arg' = [arg EXCEPT ![p] = 0]
  /\ pc' = [pc EXCEPT ![p] = "user"]
  /\ Sched(c)
  /\ UNCHANGED <<pid, chan, killed, kstack, exit_status, context, nextpid, np,
                 histVars>>

\* The critical section of exit(), up to the switch it never returns from;
\* the thread's own variables are dead from here on.
ExitFinish(c) ==
  LET p == proc[c] IN
  /\ Runs(c, "exiting")
  /\ lock = None
  /\ state' = [ExitStates(p) EXCEPT ![p] = "ZOMBIE"]
  /\ parent' = Adopted(p)
  /\ exit_status' = [exit_status EXCEPT ![p] = arg[p]]
  /\ arg' = [arg EXCEPT ![p] = 0]
  /\ pc' = [pc EXCEPT ![p] = "user"]
  /\ Sched(c)
  /\ UNCHANGED <<pid, chan, killed, kstack, context, nextpid, np, histVars>>

\* wait() holds ptable.lock: it has just called it, or it woke up in it.
WaitScans(c) == Runs(c, "wait") /\ lock \in {None, c}

\* wait() finds a zombie child.
Reap(c, q) ==
  LET p == proc[c] IN
  /\ WaitScans(c)
  /\ parent[q] = p
  /\ state[q] = "ZOMBIE"
  /\ kstack' = [kstack EXCEPT ![q] = FALSE]
  /\ pid' = [pid EXCEPT ![q] = 0]
  /\ parent' = [parent EXCEPT ![q] = None]
  /\ killed' = [killed EXCEPT ![q] = FALSE]
  /\ state' = [state EXCEPT ![q] = "UNUSED"]
  /\ ret' = [pid |-> pid[q], status |-> exit_status[q]]
  /\ lock' = None
  /\ pc' = [pc EXCEPT ![p] = "user"]
  /\ UNCHANGED <<chan, exit_status, context, nextpid, np, arg, proc, mode,
                 panicked, ended>>

\* wait() returns -1: no children, or killed.
WaitFails(c) ==
  LET p == proc[c] IN
  /\ WaitScans(c)
  /\ \A q \in Slots : ~(parent[q] = p /\ state[q] = "ZOMBIE")
  /\ killed[p] \/ \A q \in Slots : parent[q] # p
  /\ lock' = None
  /\ pc' = [pc EXCEPT ![p] = "user"]
  /\ UNCHANGED <<procVars, np, arg, proc, mode, panicked, histVars>>

\* wait() sleeps on the process itself, with ptable.lock held throughout.
WaitSleep(c) ==
  LET p == proc[c] IN
  /\ WaitScans(c)
  /\ \A q \in Slots : ~(parent[q] = p /\ state[q] = "ZOMBIE")
  /\ ~killed[p]
  /\ \E q \in Slots : parent[q] = p
  /\ chan' = [chan EXCEPT ![p] = p]
  /\ state' = [state EXCEPT ![p] = "SLEEPING"]
  /\ context' = [context EXCEPT ![p] = "wait"]
  /\ Sched(c)
  /\ UNCHANGED <<pid, parent, killed, kstack, exit_status, nextpid,
                 threadVars, histVars>>

\* Mutant of Kill: a sleeping process is not woken.
KillQuiet(c, q) ==
  /\ Runs(c, "kill")
  /\ lock = None
  /\ killed' = [killed EXCEPT ![q] = TRUE]
  /\ pc' = [pc EXCEPT ![proc[c]] = "user"]
  /\ UNCHANGED <<state, pid, parent, chan, kstack, exit_status, context,
                 nextpid, np, arg, cpuVars, histVars>>

\* kill(pid[q]), whatever state the slot with that pid is in.
Kill(c, q) ==
  /\ Runs(c, "kill")
  /\ lock = None
  /\ killed' = [killed EXCEPT ![q] = TRUE]
  /\ state' = [state EXCEPT ![q] = IF @ = "SLEEPING" THEN "RUNNABLE" ELSE @]
  /\ pc' = [pc EXCEPT ![proc[c]] = "user"]
  /\ UNCHANGED <<pid, parent, chan, kstack, exit_status, context, nextpid, np,
                 arg, cpuVars, histVars>>

-----------------------------------------------------------------------------
\* After userinit(): the first process is RUNNABLE, every CPU is in its
\* scheduler.
Init ==
  /\ state = [p \in Slots |-> IF p = InitProc THEN "RUNNABLE" ELSE "UNUSED"]
  /\ pid = [p \in Slots |-> IF p = InitProc THEN 1 ELSE 0]
  /\ parent = [p \in Slots |-> None]
  /\ chan = [p \in Slots |-> None]
  /\ killed = [p \in Slots |-> FALSE]
  /\ kstack = [p \in Slots |-> p = InitProc]
  /\ exit_status = [p \in Slots |-> 0]
  /\ context = [p \in Slots |-> "forkret"]
  /\ nextpid = 2
  /\ pc = [p \in Slots |-> "user"]
  /\ np = [p \in Slots |-> None]
  /\ arg = [p \in Slots |-> 0]
  /\ proc = [c \in CPUs |-> None]
  /\ mode = [c \in CPUs |-> "idle"]
  /\ lock = None
  /\ panicked = FALSE
  /\ ended = [k \in 1 .. MaxPid |-> None]
  /\ ret = [pid |-> 0, status |-> 0]

SwitchStep(c) ==
  \/ \E p \in Slots : Pick(c, p)
  \/ Idle(c) \/ Resume(c) \/ Swtch(c) \/ SchedulerRelease(c)

ForkStep(c) ==
  \/ \E q \in Slots : ForkAlloc(c, q)
  \/ ForkKalloc(c) \/ ForkFail(c) \/ ForkCopy(c) \/ ForkRun(c)

ExitStep(c) ==
  \/ \E s \in Statuses : Exit(c, s)
  \/ ExitKilled(c) \/ Fault(c) \/ ExitFinish(c)

CallStep(c) == (\E l \in Calls : Syscall(c, l)) \/ TestKilled(c) \/ Return(c)

WaitStep(c) == (\E q \in Slots : Reap(c, q)) \/ WaitFails(c) \/ WaitSleep(c)

\* panic() never returns, and freezes the other CPUs.
Frozen == panicked /\ UNCHANGED vars

Next ==
  \/ /\ ~panicked
     /\ \/ \E c \in CPUs : \/ SwitchStep(c) \/ CallStep(c) \/ ForkStep(c)
                           \/ ExitStep(c) \/ WaitStep(c) \/ Yield(c)
        \/ \E c \in CPUs, q \in Slots : Kill(c, q)
        \/ \E c \in CPUs, ch \in Chans : Sleep(c, ch)
        \/ \E ch \in Chans : Wakeup(ch)
  \/ Frozen

Spec == Init /\ [][Next]_vars
-----------------------------------------------------------------------------
(***************************************************************************)
(* Properties.                                                             *)
(***************************************************************************)

\* Two CPUs never execute on one kernel stack, nor one on a stack that was
\* freed: sleep(), yield() and exit() keep ptable.lock until scheduler() is
\* back on its own stack, and wait() cannot reap a process inside its exit().
OneCPUPerStack ==
  \A c \in CPUs : Stack(c) # None =>
    /\ \A d \in CPUs : Stack(c) = Stack(d) => c = d
    /\ kstack[Stack(c)]
    /\ state[Stack(c)] \notin {"UNUSED", "EMBRYO"}

\* Every process that runs or has exited has a parent that can still call
\* wait(): exit() hands its children to init.
ParentIsAlive ==
  \A q \in Slots \ {InitProc} :
    state[q] \notin {"UNUSED", "EMBRYO"} =>
      parent[q] # None /\ state[parent[q]] \notin {"UNUSED", "EMBRYO", "ZOMBIE"}

\* No parent sleeps in wait() while one of its children is a zombie: the
\* wakeup1() calls of exit() miss neither the parent nor the adopting init.
NoSleepOverZombie ==
  lock = None =>
    \A p, q \in Slots :
      ~(state[p] = "SLEEPING" /\ chan[p] = p
        /\ parent[q] = p /\ state[q] = "ZOMBIE")

\* wait() returns the status its child passed to exit().
StatusIsDelivered == ret.pid # 0 => ret.status = ended[ret.pid]

-----------------------------------------------------------------------------
(***************************************************************************)
(* Fairness.  The lottery leaves no ticket out for ever and the spinlock   *)
(* admits every CPU that keeps trying (strong fairness, because the lock   *)
(* is taken in between); timer interrupts keep coming (the process yields, *)
(* or exits if it was killed); devices answer, and the holders of sleep    *)
(* locks and the log release them; a thread inside the kernel moves on;    *)
(* init calls wait() again and again, which is all init.c does once its    *)
(* shell runs.  Nobody is sure to fill or empty a pipe or to type a line:  *)
(* a call that waits for that may go to sleep for ever.                    *)
(***************************************************************************)
\* A process moves on inside the kernel.
KernelStep(c) ==
  \/ ForkStep(c) \/ TestKilled(c) \/ Return(c) \/ WaitStep(c) \/ ExitFinish(c)
  \/ \E q \in Slots : Kill(c, q)
  \/ Runs(c, "tested") /\ \E ch \in Chans : Sleep(c, ch)

InitWaits(c) ==
  proc[c] = InitProc /\ (Syscall(c, "wait") \/ WaitStep(c))

Fairness ==
  /\ \A p \in Slots : SF_vars(~panicked /\ \E c \in CPUs : Pick(c, p))
  /\ SF_vars(~panicked /\ \E c \in CPUs : InitWaits(c))
  /\ \A ch \in Devices : SF_vars(~panicked /\ Wakeup(ch))
  /\ \A c \in CPUs :
       /\ WF_vars(~panicked /\ (Resume(c) \/ Swtch(c) \/ SchedulerRelease(c)))
       /\ SF_vars(~panicked /\ (Yield(c) \/ ExitKilled(c)))
  /\ \A p \in Slots :
       SF_vars(~panicked /\ \E c \in CPUs : proc[c] = p /\ KernelStep(c))

FairSpec == Spec /\ Fairness

\* A zombie child of init does not stay for ever, whichever of the exit(), the
\* scan of wait() and its sleep came first, unless init stays in another call
\* for ever (init.c makes none that may) or dies, which panics.
ZombiesAreReaped ==
  []<>(pc[InitProc] \notin {"block", "tested"}) =>
    \A q \in Slots \ {InitProc} :
      state[q] = "ZOMBIE" /\ parent[q] = InitProc
        ~> state[q] # "ZOMBIE" \/ panicked

\* The kill came between the test of killed and the sleep, in piperead(),
\* pipewrite(), consoleread() or sys_sleep().
KilledTooLate(q) ==
  /\ killed[q]
  /\ pc[q] = "tested" \/ (pc[q] = "block" /\ state[q] = "SLEEPING")

\* A process that was killed exits, wherever kill() finds it but in that
\* window: in user space, runnable, asleep in wait(), on a pipe or on a
\* device, or about to sleep in wait().
KilledExit ==
  \A q \in Slots :
    (/\ killed[q]
     /\ ~KilledTooLate(q)
     /\ state[q] \in {"SLEEPING", "RUNNABLE", "RUNNING"})
      ~> state[q] \in {"ZOMBIE", "UNUSED"} \/ panicked
=============================================================================
