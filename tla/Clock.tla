-------------------------------- MODULE Clock --------------------------------
(***************************************************************************)
(* The clock: the timer interrupt of trap.c, sys_sleep(), the times of a   *)
(* process, and the interrupt flag under the spinlocks of spinlock.c and   *)
(* the context switches of proc.c.                                         *)
(*                                                                         *)
(* A CPU is at a label of the code it runs: a system call, the interrupt   *)
(* handler on top of it (then "ret" is where it came from), or the         *)
(* scheduler.  It takes an interrupt at any label where its IF is set.     *)
(* pushcli() and the xchg of acquire() are one step: waiting for a lock    *)
(* before pushcli() is as good as spinning.  A section of ptable.lock that *)
(* neither switches nor takes a lock is one step; ticks++ goes with the    *)
(* acquire() before it, and the release() of tickslock with the wakeup().  *)
(***************************************************************************)
EXTENDS Integers, FiniteSets

CONSTANTS
  CPUs,       \* the first, 0, advances ticks
  Procs,
  UintRange,  \* ticks is modulo this
  Naps,       \* arguments of sleep(), as the uint they are compared as
  None

ASSUME ClockAssumption ==
  /\ 0 \in CPUs
  /\ None \notin CPUs \cup Procs /\ None \notin {"ticks", "ptable"}
  /\ UintRange \in Nat \ {0} /\ Naps \subseteq 0 .. UintRange - 1

VARIABLES
  ticks,
  lock,  \* "ticks", "ptable" -> the CPU that holds it, or None
  cpu,   \* [iff, ncli, intena, proc, at, ret]
  pr     \* [state, killed, at, ret, intena (saved by sched()), child, n, ticks0,
         \* ctime, ttime, counted (rutime + retime + stime and, as history,
         \* the ticks for which it was EMBRYO), seen (history: the value of
         \* ticks it found too early to go on)]; what no code reads again
         \* is reset

vars == <<ticks, lock, cpu, pr>>

-----------------------------------------------------------------------------
(* spinlock.c: the CPU's record after the call.                            *)

pushcli(k) ==
  [k EXCEPT !.iff = FALSE, !.ncli = @ + 1,
            !.intena = IF k.ncli = 0 THEN k.iff ELSE @]

\* intena has no meaning while ncli is 0.
popcli(k) == [k EXCEPT !.ncli = @ - 1, !.iff = k.ncli = 1 /\ k.intena,
                       !.intena = k.ncli > 1 /\ @]

\* acquire(l) on CPU c, which goes on at the label.
acquire(c, l, label) ==
  /\ lock[l] = None
  /\ lock' = [lock EXCEPT ![l] = c]
  /\ cpu' = [cpu EXCEPT ![c] = [pushcli(@) EXCEPT !.at = label]]

release(c, l, label) ==
  /\ lock' = [lock EXCEPT ![l] = None]
  /\ cpu' = [cpu EXCEPT ![c] = [popcli(@) EXCEPT !.at = label]]

At(c, label) == cpu[c].at = label
Goto(c, label) == cpu' = [cpu EXCEPT ![c].at = label]

-----------------------------------------------------------------------------
(***************************************************************************)
(* Context switches.                                                       *)
(***************************************************************************)

\* swtch() in sched(), which has saved intena: the process goes on at the
\* label another time, the CPU in its scheduler; ptable.lock is held.
Away(c, k, state, label) ==
  LET p == k.proc IN
  /\ pr' = [pr EXCEPT ![p].state = state, ![p].at = label, ![p].ret = k.ret,
                      ![p].intena = k.intena]
  /\ cpu' = [cpu EXCEPT ![c] = [k EXCEPT !.proc = None, !.at = "back",
                                         !.ret = "none"]]

\* scheduler(): sti() at the top of the loop
Sti(c) ==
  /\ At(c, "sti")
  /\ cpu' = [cpu EXCEPT ![c].iff = TRUE, ![c].at = "look"]
  /\ UNCHANGED <<ticks, lock, pr>>

Look(c) ==
  /\ At(c, "look")
  /\ acquire(c, "ptable", "pick")
  /\ UNCHANGED <<ticks, pr>>

\* Mutant of Resumed: intena stays as the scheduler left it.
ResumedAsIs(k, r) == k.intena

\* sched() sets intena again behind swtch(); a new process starts in forkret().
Resumed(k, r) == IF r.at = "forkret" THEN k.intena ELSE r.intena

\* The process with the winning ticket, swtch() to it.
Pick(c, p) ==
  /\ At(c, "pick")
  /\ pr[p].state = "RUNNABLE"
  /\ pr' = [pr EXCEPT ![p].state = "RUNNING", ![p].at = "forkret",
                      ![p].ret = "none", ![p].intena = FALSE]
  /\ cpu' = [cpu EXCEPT ![c] =
               [@ EXCEPT !.proc = p, !.at = pr[p].at, !.ret = pr[p].ret,
                         !.intena = Resumed(cpu[c], pr[p])]]
  /\ UNCHANGED <<ticks, lock>>

\* Nothing to run, or back from a process: release() at the end of the loop.
SchedulerReleases(c) ==
  /\ \/ At(c, "pick") /\ \A p \in Procs : pr[p].state # "RUNNABLE"
     \/ At(c, "back")
  /\ release(c, "ptable", "sti")
  /\ UNCHANGED <<ticks, pr>>

\* forkret() and trapret, which sets IF.
Forkret(c) ==
  /\ At(c, "forkret")
  /\ lock' = [lock EXCEPT !["ptable"] = None]
  /\ cpu' = [cpu EXCEPT ![c] = [popcli(@) EXCEPT !.at = "user", !.iff = TRUE]]
  /\ UNCHANGED <<ticks, pr>>

-----------------------------------------------------------------------------
(***************************************************************************)
(* sys_sleep() and sleep()                                                 *)
(***************************************************************************)

StartNap(c, n) ==
  /\ At(c, "user") /\ ~pr[cpu[c].proc].killed
  /\ pr' = [pr EXCEPT ![cpu[c].proc].n = n]
  /\ Goto(c, "nap")
  /\ UNCHANGED <<ticks, lock>>

\* acquire(&tickslock); ticks0 = ticks
NapLocks(c) ==
  /\ At(c, "nap")
  /\ acquire(c, "ticks", "test")
  /\ pr' = [pr EXCEPT ![cpu[c].proc].ticks0 = ticks]
  /\ UNCHANGED ticks

\* ticks - ticks0 < n, in uint
Early(p) == (ticks - pr[p].ticks0) % UintRange < pr[p].n

\* The process looks at ticks and goes to sleep: acquire(&ptable.lock)
NapTests(c) ==
  LET p == cpu[c].proc IN
  /\ At(c, "test") /\ Early(p) /\ ~pr[p].killed
  /\ acquire(c, "ptable", "block")
  /\ pr' = [pr EXCEPT ![p].seen = ticks]
  /\ UNCHANGED ticks

\* release(lk), SLEEPING and sched().
NapBlocks(c) ==
  /\ At(c, "block")
  /\ lock' = [lock EXCEPT !["ticks"] = None]
  /\ Away(c, popcli(cpu[c]), "SLEEPING", "slept")
  /\ UNCHANGED ticks

\* Mutant of Sleeps: tickslock is released before ptable.lock is asked for.
NapTestsUnlocked(c) ==
  LET p == cpu[c].proc IN
  /\ At(c, "test") /\ Early(p) /\ ~pr[p].killed
  /\ release(c, "ticks", "block")
  /\ pr' = [pr EXCEPT ![p].seen = ticks]
  /\ UNCHANGED ticks

NapBlocksLate(c) ==
  /\ At(c, "block") /\ lock["ptable"] = None
  /\ lock' = [lock EXCEPT !["ptable"] = c]
  /\ Away(c, pushcli(cpu[c]), "SLEEPING", "slept")
  /\ UNCHANGED ticks

SleepsUnlocked(c) == NapTestsUnlocked(c) \/ NapBlocksLate(c)

\* sleep(&ticks, &tickslock) up to its sched().
Sleeps(c) == NapTests(c) \/ NapBlocks(c)

\* sleep() again: release(&ptable.lock), and then acquire(lk)
NapUnblocks(c) ==
  /\ At(c, "slept")
  /\ release(c, "ptable", "again")
  /\ UNCHANGED <<ticks, pr>>

NapRelocks(c) ==
  /\ At(c, "again")
  /\ acquire(c, "ticks", "test")
  /\ UNCHANGED <<ticks, pr>>

\* The time is over, or the process was killed.
NapOver(c) ==
  LET p == cpu[c].proc IN
  /\ At(c, "test") /\ (~Early(p) \/ pr[p].killed)
  /\ release(c, "ticks", IF pr[p].killed THEN "exit" ELSE "user")
  /\ pr' = [pr EXCEPT ![p].n = 0, ![p].ticks0 = 0, ![p].seen = 0]
  /\ UNCHANGED ticks

-----------------------------------------------------------------------------
(***************************************************************************)
(* The life of a process, as far as its times go.                          *)
(***************************************************************************)

NoProc ==
  [state |-> "UNUSED", killed |-> FALSE, at |-> "forkret", ret |-> "none",
   intena |-> FALSE, child |-> None, n |-> 0, ticks0 |-> 0, ctime |-> 0,
   ttime |-> 0, counted |-> 0, seen |-> 0]

\* fork(): allocproc() under ptable.lock,
Fork(c, q) ==
  /\ At(c, "user") /\ ~pr[cpu[c].proc].killed
  /\ lock["ptable"] = None
  /\ pr[q].state = "UNUSED"
  /\ pr' = [pr EXCEPT ![q] = [NoProc EXCEPT !.state = "EMBRYO"],
                      ![cpu[c].proc].child = q]
  /\ Goto(c, "ctime")
  /\ UNCHANGED <<ticks, lock>>

\* then, without a lock, ctime = get_ticks(); the times are 0,
ForkCtime(c) ==
  LET q == pr[cpu[c].proc].child IN
  /\ At(c, "ctime")
  /\ pr' = [pr EXCEPT ![q].ctime = ticks, ![q].counted = 0]
  /\ Goto(c, "ready")
  /\ UNCHANGED <<ticks, lock>>

\* and RUNNABLE under ptable.lock.
ForkReady(c) ==
  /\ At(c, "ready")
  /\ lock["ptable"] = None
  /\ pr' = [pr EXCEPT ![pr[cpu[c].proc].child].state = "RUNNABLE",
                      ![cpu[c].proc].child = None]
  /\ Goto(c, "user")
  /\ UNCHANGED <<ticks, lock>>

\* The end of exit(), with sched().
Exit(c) ==
  LET p == cpu[c].proc IN
  /\ \/ At(c, "exit")
     \/ At(c, "user") /\ p # 1
  /\ lock["ptable"] = None
  /\ lock' = [lock EXCEPT !["ptable"] = c]
  /\ cpu' = [cpu EXCEPT ![c] = [pushcli(@) EXCEPT !.proc = None, !.at = "back"]]
  /\ pr' = [pr EXCEPT ![p].state = "ZOMBIE", ![p].ttime = ticks]
  /\ UNCHANGED ticks

\* wait_stat() of the parent reports the times.
Wait(q) ==
  /\ lock["ptable"] = None
  /\ pr[q].state = "ZOMBIE"
  /\ pr' = [pr EXCEPT ![q] = NoProc]
  /\ UNCHANGED <<ticks, lock, cpu>>

Woken(r) == [r EXCEPT !.state = "RUNNABLE", !.seen = 0]

\* kill() wakes a sleeper.
Kill(q) ==
  /\ q # 1 /\ lock["ptable"] = None
  /\ pr[q].state \in {"SLEEPING", "RUNNABLE", "RUNNING"}
  /\ pr' = [pr EXCEPT ![q] =
       [(IF pr[q].state = "SLEEPING" THEN Woken(@) ELSE @) EXCEPT !.killed = TRUE]]
  /\ UNCHANGED <<ticks, lock, cpu>>

-----------------------------------------------------------------------------
(***************************************************************************)
(* trap() of the timer interrupt.                                          *)
(***************************************************************************)

\* The gate clears IF.
Interrupt(c) ==
  /\ cpu[c].iff
  /\ cpu' = [cpu EXCEPT ![c].iff = FALSE, ![c].ret = cpu[c].at,
                        ![c].at = IF c = 0 THEN "tick" ELSE "yield"]
  /\ UNCHANGED <<ticks, lock, pr>>

\* acquire(&tickslock); ticks++
TickCounts(c) ==
  /\ At(c, "tick")
  /\ acquire(c, "ticks", "times")
  /\ ticks' = (ticks + 1) % UintRange
  /\ UNCHANGED pr

\* Mutant of Timed: SLEEPING is forgotten.
TimedAwake == {"RUNNING", "RUNNABLE"}

\* The states update_times() counts.
Timed == {"RUNNING", "RUNNABLE", "SLEEPING"}

\* Nobody asks for the times of process 1: it never exits.
update_times(c) ==
  /\ At(c, "times")
  /\ lock["ptable"] = None
  /\ pr' = [p \in Procs |->
              IF p # 1 /\ pr[p].state \in Timed \cup {"EMBRYO"}
              THEN [pr[p] EXCEPT !.counted = (@ + 1) % UintRange]
              ELSE pr[p]]
  /\ Goto(c, "wake")
  /\ UNCHANGED <<ticks, lock>>

\* wakeup(&ticks); release(&tickslock)
TickWakes(c) ==
  /\ At(c, "wake")
  /\ lock["ptable"] = None
  /\ pr' = [p \in Procs |->
              IF pr[p].state = "SLEEPING" THEN Woken(pr[p])
              ELSE pr[p]]
  /\ release(c, "ticks", "yield")
  /\ UNCHANGED ticks

\* A process that was killed and is not in the kernel exits.
Doomed(c) == cpu[c].ret = "user" /\ pr[cpu[c].proc].killed

\* yield() of a process, with sched().
Yield(c) ==
  /\ At(c, "yield") /\ cpu[c].proc # None /\ ~Doomed(c)
  /\ lock["ptable"] = None
  /\ lock' = [lock EXCEPT !["ptable"] = c]
  /\ Away(c, pushcli(cpu[c]), "RUNNABLE", "yielded")
  /\ UNCHANGED ticks

Yielded(c) ==
  /\ At(c, "yielded")
  /\ release(c, "ptable", "iret")
  /\ UNCHANGED <<ticks, pr>>

\* trap() returns, to the scheduler or to a process; killed is tested before
\* and after yield().
Iret(c) ==
  /\ \/ At(c, "iret")
     \/ At(c, "yield") /\ (cpu[c].proc = None \/ Doomed(c))
  /\ cpu' = [cpu EXCEPT ![c].ret = "none", ![c].iff = ~Doomed(c),
                        ![c].at = IF Doomed(c) THEN "exit" ELSE cpu[c].ret]
  /\ UNCHANGED <<ticks, lock, pr>>

-----------------------------------------------------------------------------
\* Process 1 is about to run for the first time.
Init ==
  /\ ticks = 0
  /\ lock = [l \in {"ticks", "ptable"} |-> None]
  /\ cpu = [c \in CPUs |-> [iff |-> FALSE, ncli |-> 0, intena |-> FALSE,
                            proc |-> None, at |-> "sti", ret |-> "none"]]
  /\ pr = [p \in Procs |-> IF p = 1 THEN [NoProc EXCEPT !.state = "RUNNABLE"]
                           ELSE NoProc]

CPUStep(c) ==
  \/ Sti(c) \/ Look(c) \/ SchedulerReleases(c) \/ Forkret(c)
  \/ NapLocks(c) \/ Sleeps(c) \/ NapUnblocks(c) \/ NapRelocks(c) \/ NapOver(c)
  \/ ForkCtime(c) \/ ForkReady(c) \/ Exit(c)
  \/ Interrupt(c) \/ TickCounts(c) \/ update_times(c)
  \/ TickWakes(c) \/ Yield(c) \/ Yielded(c) \/ Iret(c)
  \/ \E n \in Naps : StartNap(c, n)
  \/ \E p \in Procs : Pick(c, p) \/ Fork(c, p)

Next == (\E c \in CPUs : CPUStep(c)) \/ (\E p \in Procs : Wait(p) \/ Kill(p))

Spec == Init /\ [][Next]_vars
-----------------------------------------------------------------------------
(***************************************************************************)
(* Properties.                                                             *)
(***************************************************************************)

\* The lock a CPU is about to acquire.
Wanted(c) ==
  CASE cpu[c].at \in {"tick", "nap", "again"} -> "ticks"
    [] cpu[c].at \in {"test", "look", "yield", "times", "wake", "exit"} -> "ptable"
    [] OTHER -> None

\* Interrupts are off on a CPU that holds a lock or handles an interrupt, for
\* as long as it does so, and on again when a system call is out of its locks,
\* on whatever CPU it goes on after a switch: pushcli() and popcli() match and
\* intena goes with the thread.  So no handler finds its own CPU in the way
\* (panic "acquire"), and sched() finds ncli = 1.
InterruptsMatch ==
  \A c \in CPUs :
    LET held == {l \in DOMAIN lock : lock[l] = c} IN
    /\ cpu[c].ncli = Cardinality(held)
    /\ held # {} \/ cpu[c].ret # "none" => ~cpu[c].iff
    /\ cpu[c].at \in {"user", "nap", "again", "ctime", "ready", "look"} =>
         cpu[c].iff
    /\ Wanted(c) \notin held

\* A process that sleeps in sys_sleep() has looked at the present tick: it
\* misses no wakeup, whenever the interrupt comes between its test and its
\* sleep; only the handler between ticks++ and wakeup() is ahead of it.
SleepersSawTheTick ==
  \A p \in Procs :
    pr[p].state = "SLEEPING" =>
      \/ pr[p].seen = ticks
      \/ \E c \in CPUs : cpu[c].at \in {"times", "wake"}

\* No tick is counted twice or forgotten: rutime, retime and stime, together
\* with the ticks before the process was RUNNABLE, which the code counts nowhere
\* and wait_stat() does not report, are ttime - ctime but for one tick, since
\* ticks is advanced before update_times() counts and is read without
\* tickslock; also when ticks wraps.
TimesAddUp ==
  \A p \in Procs : pr[p].state = "ZOMBIE" =>
    (pr[p].counted + pr[p].ctime - pr[p].ttime) % UintRange
      \in {0, 1, UintRange - 1}
=============================================================================
