----------------------------- MODULE ProcProofs -----------------------------
(***************************************************************************)
(* The safety of the process table, for tables of any size and any number  *)
(* of CPUs: no two CPUs on one stack, no process without a parent that can *)
(* reap it, no lost wakeup of wait(), no status lost between exit() and    *)
(* wait().                                                                 *)
(***************************************************************************)
EXTENDS Proc, TLAPS

States == {"UNUSED", "EMBRYO", "SLEEPING", "RUNNABLE", "RUNNING", "ZOMBIE"}

\* States of a process that can still run.
Alive == {"SLEEPING", "RUNNABLE", "RUNNING"}

Forking == {"fork_kalloc", "fork_copy", "fork_run"}

Labels ==
  {"user", "fork", "wait", "kill", "block", "tested", "io", "exiting"}
    \cup Forking

TypeOK ==
  /\ state \in [Slots -> States]
  /\ pid \in [Slots -> Nat]
  /\ parent \in [Slots -> Slots \cup {None}]
  /\ chan \in [Slots -> Slots \cup Chans \cup {None}]
  /\ killed \in [Slots -> BOOLEAN]
  /\ kstack \in [Slots -> BOOLEAN]
  /\ exit_status \in [Slots -> Statuses]
  /\ context \in [Slots -> {"forkret", "yield", "sleep", "wait"}]
  /\ nextpid \in Nat
  /\ pc \in [Slots -> Labels]
  /\ np \in [Slots -> Slots \cup {None}]
  /\ arg \in [Slots -> Statuses]
  /\ proc \in [CPUs -> Slots \cup {None}]
  /\ mode \in [CPUs -> {"idle", "enter", "run", "leave", "back"}]
  /\ lock \in CPUs \cup {None}
  /\ panicked \in BOOLEAN
  /\ ended \in [1 .. MaxPid -> Statuses \cup {None}]
  /\ ret \in [pid : Nat, status : Statuses]

\* Around a switch the CPU has ptable.lock; between switches a process holds
\* it only inside wait(), which is the one call that sched() returns to with
\* the lock still needed.
LockInv ==
  /\ \A c \in CPUs : mode[c] \in {"enter", "leave", "back"} => lock = c
  /\ \A c \in CPUs : lock = c =>
       mode[c] # "idle" /\ (mode[c] = "run" => pc[proc[c]] = "wait")
  /\ \A c \in CPUs :
       mode[c] = "enter" /\ context[proc[c]] = "wait" => pc[proc[c]] = "wait"
  /\ \A p \in Slots :
       state[p] \in {"RUNNABLE", "SLEEPING"} /\ context[p] = "wait"
         => pc[p] = "wait"

\* RUNNING is the state of the processes on a CPU, each on one; a process that
\* is leaving its stack is in another state already, under the lock.
StackInv ==
  /\ \A c \in CPUs : mode[c] \in {"enter", "run", "leave"} => proc[c] \in Slots
  /\ \A c \in CPUs :
       mode[c] \in {"enter", "run"} => state[proc[c]] = "RUNNING"
  /\ \A c \in CPUs :
       mode[c] = "leave" => state[proc[c]] \in {"RUNNABLE", "SLEEPING", "ZOMBIE"}
  /\ \A c, d \in CPUs :
       /\ mode[c] \in {"enter", "run"}
       /\ mode[d] \in {"enter", "run"}
       /\ proc[c] = proc[d]
       => c = d
  /\ \A p \in Slots : state[p] \notin {"UNUSED", "EMBRYO"} => kstack[p]

\* An EMBRYO that is being filled in without the lock belongs to one fork().
ForkInv ==
  /\ \A p \in Slots : pc[p] \in Forking =>
       /\ np[p] \in Slots
       /\ state[p] \in {"RUNNABLE", "RUNNING"}
       /\ state[np[p]] = "EMBRYO"
  /\ \A p, r \in Slots :
       pc[p] \in Forking /\ pc[r] \in Forking /\ np[p] = np[r] => p = r
  /\ \A p \in Slots : pc[p] \in {"fork_copy", "fork_run"} =>
       kstack[np[p]] /\ context[np[p]] = "forkret"
  /\ \A p \in Slots : pc[p] = "fork_run" => parent[np[p]] = p

\* Init lives for ever and is nobody's child; the parent of a process that
\* exists is another process, one that can still call wait().
FamilyInv ==
  /\ state[InitProc] \in Alive
  /\ pc[InitProc] # "exiting"
  /\ parent[InitProc] = None
  /\ \A p \in Slots : pc[p] = "exiting" => state[p] \in Alive
  /\ \A q \in Slots \ {InitProc} : state[q] \notin {"UNUSED", "EMBRYO"} =>
       parent[q] \in Slots /\ parent[q] # q /\ state[parent[q]] \in Alive

\* NoSleepOverZombie, whoever holds the lock.
ZombieInv ==
  \A p, q \in Slots :
    ~(/\ state[p] = "SLEEPING"
      /\ chan[p] = p
      /\ parent[q] = p
      /\ state[q] = "ZOMBIE")

\* A pid names one slot for ever; what exit() was called with travels through
\* arg and exit_status to the wait() that clears the pid.
PidInv ==
  /\ \A p \in Slots : pid[p] < nextpid /\ pid[p] <= MaxPid
  /\ \A p \in Slots : state[p] # "UNUSED" => pid[p] # 0
  /\ \A p, q \in Slots : pid[p] = pid[q] /\ pid[p] # 0 => p = q
  /\ \A p \in Slots : pc[p] = "exiting" => ended[pid[p]] = arg[p]
  /\ \A p \in Slots : state[p] = "ZOMBIE" => ended[pid[p]] = exit_status[p]
  /\ ret.pid # 0 => ret.status = ended[ret.pid]
  /\ ret.pid < nextpid
  /\ ret.pid <= MaxPid
  /\ \A p \in Slots : pid[p] # 0 => pid[p] # ret.pid

ProcInv ==
  /\ TypeOK
  /\ LockInv
  /\ StackInv
  /\ ForkInv
  /\ FamilyInv
  /\ ZombieInv
  /\ PidInv

\* After userinit() one process exists and every CPU is in its scheduler.
LEMMA ProcInit == Init => ProcInv
<1> SUFFICES ASSUME Init PROVE ProcInv
  OBVIOUS
<1> USE ProcAssumption DEF Init
<1>1. TypeOK  BY DEF TypeOK, States, Labels
<1>2. LockInv /\ StackInv  BY DEF LockInv, StackInv
<1>3. ForkInv /\ FamilyInv  BY DEF ForkInv, Forking, FamilyInv, Alive
<1>4. ZombieInv /\ PidInv  BY DEF ZombieInv, PidInv
<1>5. QED  BY <1>1, <1>2, <1>3, <1>4 DEF ProcInv

\* wakeup1() makes sleepers runnable and changes no other state.
LEMMA Wakeup1 ==
  ASSUME NEW t \in [Slots -> States], NEW w
  PROVE  /\ wakeup1(t, w) \in [Slots -> States]
         /\ \A q \in Slots : wakeup1(t, w)[q] = t[q]
              \/ (t[q] = "SLEEPING" /\ wakeup1(t, w)[q] = "RUNNABLE")
BY DEF wakeup1, States

\* Picking a process: it was RUNNABLE, hence on no CPU and behind its own
\* switch.
LEMMA PickKeeps ==
  ASSUME ProcInv, NEW c \in CPUs, NEW p \in Slots, Pick(c, p)
  PROVE  ProcInv'
<1> USE ProcAssumption DEF ProcInv, TypeOK, Pick, procVars, threadVars,
    histVars
<1>1. TypeOK'  BY DEF States, Labels, Forking
<1>2. LockInv'  BY DEF LockInv
<1>3. StackInv'  BY DEF StackInv, LockInv
<1>4. ForkInv'  BY DEF ForkInv, Forking
<1>5. FamilyInv'  BY DEF FamilyInv, Alive
<1>6. ZombieInv'  BY DEF ZombieInv
<1>7. PidInv'  BY DEF PidInv
<1>8. QED  BY <1>1, <1>2, <1>3, <1>4, <1>5, <1>6, <1>7

\* The picked process continues with the lock only inside wait().
LEMMA ResumeKeeps ==
  ASSUME ProcInv, NEW c \in CPUs, Resume(c)
  PROVE  ProcInv'
<1> USE ProcAssumption DEF ProcInv, TypeOK, Resume, threadVars, histVars
<1>1. TypeOK'  BY DEF StackInv, States, Labels, Forking
<1>2. LockInv'  BY DEF LockInv, StackInv
<1>3. StackInv'  BY DEF StackInv
<1>4. ZombieInv'  BY DEF ZombieInv, StackInv
<1>5. ForkInv' /\ FamilyInv' /\ PidInv'  BY DEF ForkInv, FamilyInv, PidInv,
    Forking, Alive
<1>6. QED  BY <1>1, <1>2, <1>3, <1>4, <1>5

\* The switch back to the scheduler's stack happens under the lock.
LEMMA SwtchKeeps ==
  ASSUME ProcInv, NEW c \in CPUs, Swtch(c)
  PROVE  ProcInv'
<1> USE ProcAssumption DEF ProcInv, TypeOK, Swtch, procVars, threadVars,
    histVars
<1>1. TypeOK'  BY DEF States, Labels, Forking
<1>2. LockInv'  BY DEF LockInv
<1>3. StackInv'  BY DEF StackInv
<1>4. ForkInv' /\ FamilyInv' /\ ZombieInv' /\ PidInv'  BY DEF ForkInv,
    FamilyInv, ZombieInv, PidInv, Forking, Alive
<1>5. QED  BY <1>1, <1>2, <1>3, <1>4

\* The scheduler gives the lock back when no process's stack is in use here.
LEMMA SchedulerReleaseKeeps ==
  ASSUME ProcInv, NEW c \in CPUs, SchedulerRelease(c)
  PROVE  ProcInv'
<1> USE ProcAssumption DEF ProcInv, TypeOK, SchedulerRelease, procVars,
    threadVars, histVars
<1>1. TypeOK'  BY DEF States, Labels, Forking
<1>2. LockInv'  BY DEF LockInv
<1>3. StackInv'  BY DEF StackInv
<1>4. ForkInv' /\ FamilyInv' /\ ZombieInv' /\ PidInv'  BY DEF ForkInv,
    FamilyInv, ZombieInv, PidInv, Forking, Alive
<1>5. QED  BY <1>1, <1>2, <1>3, <1>4

\* yield() makes the process RUNNABLE on a stack that is still in use: the
\* lock keeps the others away.
LEMMA YieldKeeps ==
  ASSUME ProcInv, NEW c \in CPUs, Yield(c)
  PROVE  ProcInv'
<1> USE ProcAssumption DEF ProcInv, TypeOK, Yield, Sched, threadVars, histVars
<1>1. TypeOK'  BY DEF StackInv, States, Labels, Forking
<1>2. LockInv'  BY DEF LockInv, StackInv
<1>3. StackInv'  BY DEF StackInv, LockInv
<1>4. ForkInv'  BY DEF ForkInv, StackInv, Forking
<1>5. FamilyInv'  BY DEF FamilyInv, StackInv, Alive
<1>6. ZombieInv'  BY DEF ZombieInv, StackInv
<1>7. PidInv'  BY DEF PidInv, StackInv
<1>8. QED  BY <1>1, <1>2, <1>3, <1>4, <1>5, <1>6, <1>7

\* sleep() on a channel that is no process.
LEMMA SleepKeeps ==
  ASSUME ProcInv, NEW c \in CPUs, NEW ch \in Chans, Sleep(c, ch)
  PROVE  ProcInv'
<1> USE ProcAssumption DEF ProcInv, TypeOK, Sleep, Runs, Sched, histVars
<1>1. TypeOK'  BY DEF StackInv, States, Labels, Forking
<1>2. LockInv'  BY DEF LockInv, StackInv
<1>3. StackInv'  BY DEF StackInv, LockInv
<1>4. ForkInv'  BY DEF ForkInv, StackInv, Forking
<1>5. FamilyInv'  BY DEF FamilyInv, StackInv, Alive
<1>6. ZombieInv'  BY DEF ZombieInv, StackInv
<1>7. PidInv'  BY DEF PidInv, StackInv
<1>8. QED  BY <1>1, <1>2, <1>3, <1>4, <1>5, <1>6, <1>7

\* wakeup() turns sleepers into runnable processes.
LEMMA WakeupKeeps ==
  ASSUME ProcInv, NEW ch \in Chans, Wakeup(ch)
  PROVE  ProcInv'
<1> USE ProcAssumption DEF ProcInv, TypeOK, Wakeup, wakeup1, threadVars,
    cpuVars, histVars
<1>1. TypeOK'  BY DEF States, Labels, Forking
<1>2. LockInv'  BY DEF LockInv
<1>3. StackInv'  BY DEF StackInv
<1>4. ForkInv'  BY DEF ForkInv, Forking
<1>5. FamilyInv'  BY DEF FamilyInv, Alive
<1>6. ZombieInv'  BY DEF ZombieInv
<1>7. PidInv'  BY DEF PidInv
<1>8. QED  BY <1>1, <1>2, <1>3, <1>4, <1>5, <1>6, <1>7

\* A system call begins, looks at killed or returns.
LEMMA CallKeeps ==
  ASSUME ProcInv, NEW c \in CPUs,
         (\E l \in Calls : Syscall(c, l)) \/ TestKilled(c) \/ Return(c)
  PROVE  ProcInv'
<1> DEFINE p == proc[c]
<1>1. PICK l \in {"user", "fork", "wait", "kill", "block", "tested", "io"} :
        pc' = [pc EXCEPT ![p] = l]
  <2>1. CASE \E l \in Calls : Syscall(c, l)
    BY <2>1, ProcAssumption DEF Syscall
  <2>2. CASE Return(c)
    BY <2>2 DEF Return
  <2>3. CASE TestKilled(c)
    BY <2>3 DEF TestKilled
  <2>4. QED  BY <2>1, <2>2, <2>3
<1>2. /\ mode[c] = "run"
      /\ pc[p] \in {"user", "fork", "kill", "block", "io"}
      /\ UNCHANGED <<procVars, np, arg, cpuVars, histVars>>
  BY DEF Syscall, TestKilled, Return, Runs
<1> USE <1>1, <1>2 DEF ProcInv, TypeOK, StackInv, procVars, cpuVars, histVars
<1>3. TypeOK'  BY DEF Labels
<1>4. LockInv'  BY DEF LockInv
<1>5. ForkInv'  BY DEF ForkInv, Forking
<1>6. FamilyInv' /\ StackInv' /\ ZombieInv'  BY DEF FamilyInv, ZombieInv
<1>7. PidInv'  BY DEF PidInv
<1>8. QED  BY <1>3, <1>4, <1>5, <1>6, <1>7

\* allocproc() takes a slot that is nobody's, under a pid that nobody had.
LEMMA ForkAllocKeeps ==
  ASSUME ProcInv, NEW c \in CPUs, NEW q \in Slots, ForkAlloc(c, q)
  PROVE  ProcInv'
<1> USE ProcAssumption DEF ProcInv, TypeOK, ForkAlloc, Runs, cpuVars, histVars
<1>1. TypeOK'  BY DEF StackInv, States, Labels, Forking
<1>2. LockInv'  BY DEF LockInv, StackInv
<1>3. StackInv'  BY DEF StackInv
<1>4. ForkInv'  BY DEF ForkInv, StackInv, Forking
<1>5. FamilyInv'  BY DEF FamilyInv, Alive
<1>6. ZombieInv'  BY DEF ZombieInv
<1>7. PidInv'
  <2>1. /\ pid' = [pid EXCEPT ![q] = nextpid]
        /\ nextpid' = nextpid + 1
        /\ nextpid \in Nat \ {0}
        /\ nextpid <= MaxPid
        /\ proc[c] \in Slots
    BY DEF StackInv, PidInv, Runs
  <2>2. \A r \in Slots : pid'[r] = IF r = q THEN nextpid ELSE pid[r]
    BY <2>1
  <2>3. \A r \in Slots : pc'[r] = "exiting" => pc[r] = "exiting" /\ r # q
    <3>1. pc[q] # "exiting"  BY DEF FamilyInv, Alive
    <3>2. QED  BY <2>1, <3>1
  <2>4. \A r \in Slots : state'[r] = IF r = q THEN "EMBRYO" ELSE state[r]
    OBVIOUS
  <2>5. QED  BY <2>1, <2>2, <2>3, <2>4 DEF PidInv
<1>8. QED  BY <1>1, <1>2, <1>3, <1>4, <1>5, <1>6, <1>7

\* The EMBRYO gets its stack and context.
LEMMA ForkKallocKeeps ==
  ASSUME ProcInv, NEW c \in CPUs, ForkKalloc(c)
  PROVE  ProcInv'
<1> USE ProcAssumption DEF ProcInv, TypeOK, ForkKalloc, Runs, cpuVars,
    histVars
<1>1. TypeOK'  BY DEF StackInv, ForkInv, States, Labels, Forking
<1>2. LockInv'  BY DEF LockInv, StackInv, ForkInv, Forking
<1>3. StackInv'  BY DEF StackInv, ForkInv, Forking
<1>4. ForkInv'  BY DEF ForkInv, StackInv, Forking
<1>5. FamilyInv'  BY DEF FamilyInv, StackInv, Alive
<1>6. PidInv'  BY DEF PidInv, StackInv
<1>7. ZombieInv'  BY DEF ZombieInv
<1>8. QED  BY <1>1, <1>2, <1>3, <1>4, <1>5, <1>6, <1>7

\* A failed fork() gives back a slot on which nobody runs and that has no
\* children.
LEMMA ForkFailKeeps ==
  ASSUME ProcInv, NEW c \in CPUs, ForkFail(c)
  PROVE  ProcInv'
<1> USE ProcAssumption DEF ProcInv, TypeOK, ForkFail, Runs, cpuVars, histVars
<1>1. TypeOK'  BY DEF StackInv, ForkInv, States, Labels, Forking
<1>2. LockInv'  BY DEF LockInv, StackInv, ForkInv, Forking
<1>3. StackInv'  BY DEF StackInv, ForkInv, Forking
<1>4. ForkInv'  BY DEF ForkInv, StackInv, Forking
<1>5. FamilyInv'  BY DEF FamilyInv, StackInv, ForkInv, Forking, Alive
<1>6. ZombieInv'  BY DEF ZombieInv, StackInv, ForkInv, Forking
<1>7. PidInv'  BY DEF PidInv, StackInv, ForkInv, Forking
<1>8. QED  BY <1>1, <1>2, <1>3, <1>4, <1>5, <1>6, <1>7

\* fork() becomes the parent of the EMBRYO.
LEMMA ForkCopyKeeps ==
  ASSUME ProcInv, NEW c \in CPUs, ForkCopy(c)
  PROVE  ProcInv'
<1> USE ProcAssumption DEF ProcInv, TypeOK, ForkCopy, Runs, cpuVars, histVars
<1>1. TypeOK'  BY DEF StackInv, ForkInv, States, Labels, Forking
<1>2. LockInv'  BY DEF LockInv, StackInv, ForkInv, Forking
<1>3. StackInv'  BY DEF StackInv, ForkInv, Forking
<1>4. ForkInv'  BY DEF ForkInv, StackInv, Forking
<1>5. FamilyInv'  BY DEF FamilyInv, StackInv, ForkInv, Forking, Alive
<1>6. ZombieInv'  BY DEF ZombieInv, StackInv, ForkInv, Forking
<1>7. PidInv'  BY DEF PidInv, StackInv, ForkInv, Forking
<1>8. QED  BY <1>1, <1>2, <1>3, <1>4, <1>5, <1>6, <1>7

\* The child starts with a stack, a context and a living parent.
LEMMA ForkRunKeeps ==
  ASSUME ProcInv, NEW c \in CPUs, ForkRun(c)
  PROVE  ProcInv'
<1> USE ProcAssumption DEF ProcInv, TypeOK, ForkRun, Runs, cpuVars, histVars
<1>1. TypeOK'  BY DEF StackInv, ForkInv, States, Labels, Forking
<1>2. LockInv'  BY DEF LockInv, StackInv, ForkInv, Forking
<1>3. StackInv'  BY DEF StackInv, ForkInv, Forking
<1>4. ForkInv'  BY DEF ForkInv, StackInv, Forking
<1>5. FamilyInv'  BY DEF FamilyInv, StackInv, ForkInv, Forking, Alive
<1>6. ZombieInv'  BY DEF ZombieInv, StackInv, ForkInv, Forking
<1>7. PidInv'  BY DEF PidInv, StackInv, ForkInv, Forking
<1>8. QED  BY <1>1, <1>2, <1>3, <1>4, <1>5, <1>6, <1>7

\* exit() begins.
LEMMA BeginExitKeeps ==
  ASSUME ProcInv, NEW c \in CPUs,
         (\E s \in Statuses : Exit(c, s)) \/ ExitKilled(c) \/ Fault(c)
  PROVE  ProcInv'
<1> DEFINE p == proc[c]
<1>1. PICK s \in Statuses : BeginExit(p, s)
  BY ProcAssumption DEF Exit, ExitKilled, Fault
<1>2. /\ mode[c] = "run"
      /\ pc[p] = "user"
      /\ p \in Slots
      /\ state[p] = "RUNNING"
      /\ pid[p] \in 1 .. MaxPid
  BY DEF ProcInv, TypeOK, StackInv, PidInv, Exit, ExitKilled, Fault, Runs
<1>3. killed' \in [Slots -> BOOLEAN]
  BY DEF ProcInv, TypeOK, Exit, ExitKilled, Fault
<1>4. CASE p = InitProc
  BY <1>1, <1>3, <1>4
  DEF BeginExit, ProcInv, TypeOK, LockInv, StackInv, ForkInv, FamilyInv,
      ZombieInv, PidInv
<1>5. CASE p # InitProc
  <2>1. /\ pc' = [pc EXCEPT ![p] = "exiting"]
        /\ arg' = [arg EXCEPT ![p] = s]
        /\ ended' = [ended EXCEPT ![pid[p]] = s]
        /\ UNCHANGED <<state, pid, parent, chan, kstack, exit_status, context,
                       nextpid, np, proc, mode, lock, ret, panicked>>
    BY <1>1, <1>5 DEF BeginExit
  <2> USE <1>2, <2>1 DEF ProcInv, TypeOK
  <2>2. TypeOK'
    BY <1>3 DEF Labels
  <2>3. LockInv'  BY DEF LockInv, StackInv
  <2>4. ForkInv'  BY DEF ForkInv, Forking
  <2>5. FamilyInv'  BY <1>5 DEF FamilyInv, Alive
  <2>6. PidInv'
    <3>1. \A q \in Slots : ended'[pid[q]] = IF q = p THEN s ELSE ended[pid[q]]
      BY DEF PidInv
    <3>2. ret.pid # 0 => ended'[ret.pid] = ended[ret.pid]
      BY DEF PidInv
    <3>3. QED  BY <3>1, <3>2 DEF PidInv
  <2>7. StackInv' /\ ZombieInv'  BY DEF StackInv, ZombieInv
  <2>8. QED  BY <2>2, <2>3, <2>4, <2>5, <2>6, <2>7
<1>6. QED  BY <1>4, <1>5

\* exit()'s critical section: children adopted, parent and init woken.
LEMMA ExitFinishKeeps ==
  ASSUME ProcInv, NEW c \in CPUs, ExitFinish(c)
  PROVE  ProcInv'
<1> DEFINE p == proc[c]
           s == ExitStates(p)
<1>1. /\ mode[c] = "run"
      /\ pc[p] = "exiting"
      /\ lock = None
      /\ p \in Slots \ {InitProc}
      /\ state[p] = "RUNNING"
      /\ parent[p] \in Slots \ {p}
  BY DEF ProcInv, StackInv, FamilyInv, ExitFinish, Runs
<1>2. /\ s \in [Slots -> States]
      /\ \A q \in Slots : s[q] = state[q]
                          \/ (state[q] = "SLEEPING" /\ s[q] = "RUNNABLE")
  <2>1. state \in [Slots -> States]  BY DEF ProcInv, TypeOK
  <2>2. /\ wakeup1(state, parent[p]) \in [Slots -> States]
        /\ \A q \in Slots : wakeup1(state, parent[p])[q] = state[q]
             \/ (state[q] = "SLEEPING"
                /\ wakeup1(state, parent[p])[q] = "RUNNABLE")
    BY <2>1, Wakeup1
  <2>3. DEFINE t == wakeup1(state, parent[p])
  <2>4. /\ wakeup1(t, InitProc) \in [Slots -> States]
        /\ \A q \in Slots : wakeup1(t, InitProc)[q] = t[q]
             \/ (t[q] = "SLEEPING" /\ wakeup1(t, InitProc)[q] = "RUNNABLE")
    BY <2>2, Wakeup1
  <2>5. s = t \/ s = wakeup1(t, InitProc)  BY DEF ExitStates
  <2> HIDE DEF t
  <2>6. CASE s = t  BY <2>2, <2>6 DEF t
  <2>7. CASE s = wakeup1(t, InitProc)
    <3> HIDE DEF s
    <3>1. \A q \in Slots : t[q] = state[q]
                           \/ (state[q] = "SLEEPING" /\ t[q] = "RUNNABLE")
      BY <2>2 DEF t
    <3>2. QED  BY <2>4, <2>7, <3>1
  <2>8. QED  BY <2>5, <2>6, <2>7
<1>3. /\ ~(s[parent[p]] = "SLEEPING" /\ chan[parent[p]] = parent[p])
      /\ (\E q \in Slots : parent[q] = p /\ state[q] = "ZOMBIE")
           => ~(s[InitProc] = "SLEEPING" /\ chan[InitProc] = InitProc)
  BY <1>1, ProcAssumption DEF ProcInv, TypeOK, ExitStates, wakeup1
<1>4. /\ state' = [s EXCEPT ![p] = "ZOMBIE"]
      /\ parent' = [q \in Slots |-> IF parent[q] = p THEN InitProc
                                    ELSE parent[q]]
      /\ exit_status' = [exit_status EXCEPT ![p] = arg[p]]
      /\ arg' = [arg EXCEPT ![p] = 0]
      /\ pc' = [pc EXCEPT ![p] = "user"]
      /\ lock' = c
      /\ mode' = [mode EXCEPT ![c] = "leave"]
      /\ UNCHANGED <<proc, panicked, pid, chan, killed, kstack, context,
                     nextpid, np, ended, ret>>
  BY DEF ExitFinish, Adopted, Sched, histVars
<1>5. /\ state'[p] = "ZOMBIE"
      /\ \A q \in Slots \ {p} :
           state'[q] = state[q]
           \/ (state[q] = "SLEEPING" /\ state'[q] = "RUNNABLE")
  BY <1>1, <1>2, <1>4
<1> HIDE DEF p, s
<1> USE <1>1, <1>4, ProcAssumption DEF ProcInv, TypeOK
<1>6. TypeOK'  BY <1>2 DEF States, Labels
<1>7. LockInv'  BY <1>5 DEF LockInv, StackInv, p
<1>8. StackInv'
  <2>1. \A d \in CPUs \ {c} :
          mode[d] \in {"enter", "run"} => proc[d] \in Slots \ {p}
    BY DEF StackInv, p
  <2>2. \A d \in CPUs \ {c} : mode[d] # "leave"
    BY DEF LockInv
  <2>3. \A q \in Slots : state'[q] \notin {"UNUSED", "EMBRYO"} =>
          state[q] \notin {"UNUSED", "EMBRYO"}
    BY <1>5
  <2>4. \A d \in CPUs \ {c} : mode[d] \in {"enter", "run"} =>
          state'[proc[d]] = "RUNNING"
    BY <1>5, <2>1 DEF StackInv
  <2>5. QED  BY <1>5, <2>1, <2>2, <2>3, <2>4 DEF StackInv, p
<1>9. ForkInv'  BY <1>5 DEF ForkInv, Forking
<1>10. FamilyInv'
  <2>1. /\ state'[InitProc] \in Alive
        /\ pc'[InitProc] # "exiting"
        /\ parent'[InitProc] = None
    BY <1>5 DEF FamilyInv, Alive
  <2>2. \A r \in Slots : pc'[r] = "exiting" => state'[r] \in Alive
    BY <1>5 DEF FamilyInv, Alive
  <2>3. ASSUME NEW q \in Slots \ {InitProc},
               state'[q] \notin {"UNUSED", "EMBRYO"}
        PROVE  /\ parent'[q] \in Slots
               /\ parent'[q] # q
               /\ state'[parent'[q]] \in Alive
    <3>1. state[q] \notin {"UNUSED", "EMBRYO"}  BY <1>5, <2>3
    <3>2. /\ parent[q] \in Slots
          /\ parent[q] # q
          /\ state[parent[q]] \in Alive
      BY <3>1 DEF FamilyInv
    <3>3. CASE parent[q] = p  BY <2>1, <3>3
    <3>4. CASE parent[q] # p  BY <1>5, <3>2, <3>4 DEF Alive
    <3>5. QED  BY <3>3, <3>4
  <2>4. QED  BY <2>1, <2>2, <2>3 DEF FamilyInv
<1>11. ZombieInv'
  <2> SUFFICES ASSUME NEW r \in Slots, NEW q \in Slots,
                      state'[r] = "SLEEPING", chan[r] = r,
                      parent'[q] = r, state'[q] = "ZOMBIE"
               PROVE  FALSE
    BY DEF ZombieInv
  <2>1. r # p /\ s[r] = "SLEEPING" /\ state[r] = "SLEEPING"
    BY <1>2, <1>5
  <2>2. CASE q = p
    BY <1>3, <2>1, <2>2
  <2>3. CASE q # p
    <3>1. state[q] = "ZOMBIE"  BY <1>5, <2>3
    <3>2. QED  BY <1>3, <2>1, <3>1 DEF ZombieInv
  <2>4. QED  BY <2>2, <2>3
<1>12. PidInv'  BY <1>5 DEF PidInv
<1>13. QED  BY <1>6, <1>7, <1>8, <1>9, <1>10, <1>11, <1>12

\* wait() frees a zombie, off its stack because the lock is free or here.
LEMMA ReapKeeps ==
  ASSUME ProcInv, NEW c \in CPUs, NEW q \in Slots, Reap(c, q)
  PROVE  ProcInv'
<1> USE ProcAssumption DEF ProcInv, TypeOK, Reap, WaitScans, Runs
<1>1. TypeOK'  BY DEF StackInv, States, Labels, Forking
<1>2. LockInv'  BY DEF LockInv, StackInv
<1>3. StackInv'  BY DEF StackInv, LockInv
<1>4. ForkInv'  BY DEF ForkInv, StackInv, Forking
<1>5. FamilyInv'  BY DEF FamilyInv, StackInv, Alive
<1>6. ZombieInv'  BY DEF ZombieInv
<1>7. PidInv'
  <2>1. /\ \A r \in Slots : pid'[r] = IF r = q THEN 0 ELSE pid[r]
        /\ \A r \in Slots : state'[r] = IF r = q THEN "UNUSED" ELSE state[r]
        /\ \A r \in Slots : pc'[r] = "exiting" => pc[r] = "exiting" /\ r # q
    <3>1. pc[q] # "exiting" /\ proc[c] \in Slots
      BY DEF StackInv, FamilyInv, Alive
    <3>2. QED  BY <3>1
  <2>2. /\ ret'.pid = pid[q]
        /\ ret'.status = exit_status[q]
        /\ pid[q] # 0
        /\ ended[pid[q]] = exit_status[q]
    BY DEF PidInv
  <2>3. UNCHANGED <<nextpid, ended, arg, exit_status>>
    OBVIOUS
  <2>4. QED  BY <2>1, <2>2, <2>3 DEF PidInv
<1>8. QED  BY <1>1, <1>2, <1>3, <1>4, <1>5, <1>6, <1>7

\* wait() gives up.
LEMMA WaitFailsKeeps ==
  ASSUME ProcInv, NEW c \in CPUs, WaitFails(c)
  PROVE  ProcInv'
<1> USE ProcAssumption DEF ProcInv, TypeOK, WaitFails, WaitScans, Runs,
    procVars, histVars
<1>1. TypeOK'  BY DEF StackInv, States, Labels, Forking
<1>2. LockInv'  BY DEF LockInv, StackInv
<1>3. ForkInv'  BY DEF ForkInv, StackInv, Forking
<1>4. FamilyInv'  BY DEF FamilyInv, Alive
<1>5. PidInv'  BY DEF PidInv
<1>6. StackInv' /\ ZombieInv'  BY DEF StackInv, ZombieInv
<1>7. QED  BY <1>1, <1>2, <1>3, <1>4, <1>5, <1>6

\* wait() sleeps after a scan under the same lock.
LEMMA WaitSleepKeeps ==
  ASSUME ProcInv, NEW c \in CPUs, WaitSleep(c)
  PROVE  ProcInv'
<1> USE ProcAssumption DEF ProcInv, TypeOK, WaitSleep, WaitScans, Runs, Sched,
    threadVars, histVars
<1>1. TypeOK'  BY DEF StackInv, States, Labels, Forking
<1>2. LockInv'  BY DEF LockInv, StackInv
<1>3. StackInv'  BY DEF StackInv, LockInv
<1>4. ForkInv'  BY DEF ForkInv, StackInv, Forking
<1>5. FamilyInv'  BY DEF FamilyInv, StackInv, Alive
<1>6. ZombieInv'  BY DEF ZombieInv, StackInv
<1>7. PidInv'  BY DEF PidInv, StackInv
<1>8. QED  BY <1>1, <1>2, <1>3, <1>4, <1>5, <1>6, <1>7

\* kill() makes a sleeper runnable.
LEMMA KillKeeps ==
  ASSUME ProcInv, NEW c \in CPUs, NEW q \in Slots, Kill(c, q)
  PROVE  ProcInv'
<1> USE ProcAssumption DEF ProcInv, TypeOK, Kill, Runs, cpuVars, histVars
<1>1. TypeOK'  BY DEF StackInv, States, Labels, Forking
<1>2. LockInv'  BY DEF LockInv, StackInv
<1>3. StackInv'  BY DEF StackInv, LockInv
<1>4. ForkInv'  BY DEF ForkInv, StackInv, Forking
<1>5. FamilyInv'  BY DEF FamilyInv, StackInv, Alive
<1>6. ZombieInv'  BY DEF ZombieInv, StackInv
<1>7. PidInv'  BY DEF PidInv, StackInv
<1>8. QED  BY <1>1, <1>2, <1>3, <1>4, <1>5, <1>6, <1>7

\* Every step of every CPU and device preserves the invariant.
LEMMA ProcStep == ProcInv /\ [Next]_vars => ProcInv'
<1> SUFFICES ASSUME ProcInv, [Next]_vars PROVE ProcInv'
  OBVIOUS
<1>1. ASSUME NEW c \in CPUs, SwitchStep(c) PROVE ProcInv'
  <2>1. CASE \E p \in Slots : Pick(c, p)  BY <2>1, PickKeeps
  <2>2. CASE Idle(c)
    BY <2>2
    DEF Idle, vars, procVars, threadVars, cpuVars, histVars, ProcInv, TypeOK,
        LockInv, StackInv, ForkInv, FamilyInv, ZombieInv, PidInv
  <2>3. QED
    BY <1>1, <2>1, <2>2, ResumeKeeps, SwtchKeeps, SchedulerReleaseKeeps
    DEF SwitchStep
<1>2. ASSUME NEW c \in CPUs, CallStep(c) PROVE ProcInv'
  BY <1>2, CallKeeps DEF CallStep
<1>3. ASSUME NEW c \in CPUs, ForkStep(c) PROVE ProcInv'
  BY <1>3, ForkAllocKeeps, ForkKallocKeeps, ForkFailKeeps, ForkCopyKeeps,
     ForkRunKeeps DEF ForkStep
<1>4. ASSUME NEW c \in CPUs, ExitStep(c) PROVE ProcInv'
  BY <1>4, BeginExitKeeps, ExitFinishKeeps DEF ExitStep
<1>5. ASSUME NEW c \in CPUs, WaitStep(c) PROVE ProcInv'
  BY <1>5, ReapKeeps, WaitFailsKeeps, WaitSleepKeeps DEF WaitStep
<1>6. ASSUME NEW c \in CPUs, Yield(c) PROVE ProcInv'
  BY <1>6, YieldKeeps
<1>7. ASSUME NEW c \in CPUs, NEW q \in Slots, Kill(c, q) PROVE ProcInv'
  BY <1>7, KillKeeps
<1>8. ASSUME NEW c \in CPUs, NEW ch \in Chans, Sleep(c, ch) PROVE ProcInv'
  BY <1>8, SleepKeeps
<1>9. ASSUME NEW ch \in Chans, Wakeup(ch) PROVE ProcInv'
  BY <1>9, WakeupKeeps
<1>10. CASE UNCHANGED vars
  BY <1>10
  DEF vars, procVars, threadVars, cpuVars, histVars, ProcInv, TypeOK,
      LockInv, StackInv, ForkInv, FamilyInv, ZombieInv, PidInv
<1>11. QED
  BY <1>1, <1>2, <1>3, <1>4, <1>5, <1>6, <1>7, <1>8, <1>9, <1>10
  DEF Next, Frozen

\* The invariant holds in every reachable state.
THEOREM Invariance == Spec => []ProcInv
BY ProcInit, ProcStep, PTL DEF Spec

\* Two CPUs never execute on one kernel stack, and never on a stack that
\* wait() freed or on the slot of a failed fork(): sched() is entered and left
\* with ptable.lock held, and RUNNING is the state of one CPU's process.
THEOREM StacksAreExclusive == Spec => []OneCPUPerStack
<1>1. ASSUME ProcInv PROVE OneCPUPerStack
  <2> USE <1>1 DEF ProcInv, StackInv
  <2> SUFFICES ASSUME NEW c \in CPUs, Stack(c) # None
               PROVE  /\ \A d \in CPUs : Stack(c) = Stack(d) => c = d
                      /\ kstack[Stack(c)]
                      /\ state[Stack(c)] \notin {"UNUSED", "EMBRYO"}
    BY DEF OneCPUPerStack
  <2>1. mode[c] \in {"enter", "run", "leave"} /\ Stack(c) = proc[c]
    BY DEF Stack
  <2>2. ASSUME NEW d \in CPUs, Stack(c) = Stack(d) PROVE c = d
    <3>1. mode[d] \in {"enter", "run", "leave"} /\ proc[c] = proc[d]
      BY <2>1, <2>2 DEF Stack
    <3>2. CASE mode[c] = "leave" /\ mode[d] = "leave"
      BY <3>2 DEF LockInv
    <3>3. CASE ~(mode[c] = "leave" /\ mode[d] = "leave")
      BY <2>1, <3>1, <3>3
    <3>4. QED  BY <3>2, <3>3
  <2>3. kstack[Stack(c)] /\ state[Stack(c)] \notin {"UNUSED", "EMBRYO"}
    BY <2>1
  <2>4. QED  BY <2>2, <2>3
<1>2. QED  BY <1>1, Invariance, PTL

\* Every process that exists has a living parent: exit() hands its children,
\* zombies and EMBRYOs included, to an init that never exits.
THEOREM ParentsAreAlive == Spec => []ParentIsAlive
<1>1. ProcInv => ParentIsAlive
  BY ProcAssumption DEF ProcInv, FamilyInv, Alive, ParentIsAlive
<1>2. QED  BY <1>1, Invariance, PTL

\* No wakeup of wait() is lost: whatever the order of exits and scans, no
\* parent sleeps over a zombie child.
THEOREM NoWakeupIsLost == Spec => []NoSleepOverZombie
<1>1. ProcInv => NoSleepOverZombie
  BY DEF ProcInv, ZombieInv, NoSleepOverZombie
<1>2. QED  BY <1>1, Invariance, PTL

\* wait() returns the status of the process whose pid it returns, across
\* kills, adoptions and reuse of the slot.
THEOREM StatusReachesParent == Spec => []StatusIsDelivered
<1>1. ProcInv => StatusIsDelivered
  BY DEF ProcInv, PidInv, StatusIsDelivered
<1>2. QED  BY <1>1, Invariance, PTL
=============================================================================
