----------------------------- MODULE ClockProofs -----------------------------
(***************************************************************************)
(* The interrupt flag, the two spinlocks and sys_sleep(), for any number   *)
(* of CPUs and processes and any width of ticks: pushcli() and popcli()    *)
(* match across interrupts and context switches, no sleeper misses a tick, *)
(* and the times of a process add up.                                      *)
(***************************************************************************)
EXTENDS Clock, FiniteSetTheorems, TLAPS

\* The labels at which a CPU holds tickslock, and ptable.lock.
WithTicks == {"test", "block", "times", "wake"}
WithTable == {"pick", "back", "forkret", "block", "slept", "yielded"}

\* The labels of the interrupt handler, and the ones it returns to: two of the
\* scheduler and those of a process outside its locks.
Handler == {"tick", "times", "wake", "yield", "yielded", "iret"}
SchedulerLabels == {"sti", "look"}
ProcessLabels == {"user", "nap", "again", "ctime", "ready", "exit"}

Labels == WithTicks \cup WithTable \cup Handler \cup SchedulerLabels
          \cup ProcessLabels
Returns == SchedulerLabels \cup ProcessLabels \cup {"none"}

CPURecord ==
  [iff : BOOLEAN, ncli : Nat, intena : BOOLEAN, proc : Procs \cup {None},
   at : Labels, ret : Returns]

States == {"UNUSED", "EMBRYO", "SLEEPING", "RUNNABLE", "RUNNING", "ZOMBIE"}
Saved == {"forkret", "slept", "yielded"}

ProcRecord ==
  [state : States, killed : BOOLEAN, at : Saved, ret : Returns,
   intena : BOOLEAN, child : Procs \cup {None}, n : Nat, ticks0 : Nat,
   ctime : Nat, ttime : Nat, counted : Nat, seen : Nat]

TypeOK ==
  /\ ticks \in Nat
  /\ lock \in [{"ticks", "ptable"} -> CPUs \cup {None}]
  /\ cpu \in [CPUs -> CPURecord]
  /\ pr \in [Procs -> ProcRecord]

\* What a CPU's record says at each label: how deep it is in pushcli(), the
\* flag, the flag popcli() will restore, and what the handler returns to.
CPUOK(k) ==
  /\ k.ncli = IF k.at = "block" THEN 2
              ELSE IF k.at \in WithTicks \cup WithTable THEN 1 ELSE 0
  /\ k.at \in {"user", "nap", "again", "ctime", "ready", "look"} => k.iff
  /\ k.at \in WithTicks \cup WithTable \cup Handler => ~k.iff
  /\ k.at \in {"test", "block", "slept"} => k.intena
  /\ k.at \in {"times", "wake", "yielded"} => ~k.intena
  /\ k.at \in Handler =>
       \/ k.ret \in SchedulerLabels /\ k.proc = None
       \/ k.ret \in ProcessLabels /\ k.proc \in Procs
  /\ k.at \notin Handler => k.ret = "none"
  /\ k.at \in ProcessLabels \cup {"forkret", "test", "block", "slept",
                                  "yielded"} => k.proc \in Procs
  /\ k.at \in SchedulerLabels \cup {"pick", "back"} => k.proc = None

\* What sched() saved for a process: the flag its popcli() is to restore.
SavedOK(r) ==
  /\ r.at = "slept" => r.intena /\ r.ret = "none"
  /\ r.at = "yielded" => ~r.intena /\ r.ret \in ProcessLabels
  /\ r.at = "forkret" => r.ret = "none"

ContextInv ==
  /\ \A c \in CPUs : CPUOK(cpu[c])
  /\ \A p \in Procs : SavedOK(pr[p])

\* A lock is held by the CPU whose label says so.
LockInv ==
  \A c \in CPUs :
    /\ lock["ticks"] = c <=> cpu[c].at \in WithTicks
    /\ lock["ptable"] = c <=> cpu[c].at \in WithTable

\* A process is on one CPU, and RUNNING there; what a fork() fills in is an
\* EMBRYO and nobody else's.
RunInv ==
  /\ \A c \in CPUs : cpu[c].proc # None => pr[cpu[c].proc].state = "RUNNING"
  /\ \A c, d \in CPUs : cpu[c].proc = cpu[d].proc /\ cpu[c].proc # None => c = d
  /\ \A p \in Procs :
       pr[p].child # None => pr[pr[p].child].state = "EMBRYO"
  /\ \A p, q \in Procs : pr[p].child = pr[q].child /\ pr[p].child # None => p = q

\* A process has looked at the present tick from its test in sys_sleep() on.
SeenInv ==
  /\ SleepersSawTheTick
  /\ \A c \in CPUs : cpu[c].at = "block" => pr[cpu[c].proc].seen = ticks

ClockInv == TypeOK /\ ContextInv /\ LockInv /\ RunInv /\ SeenInv

\* A CPU's record stays one when a field is assigned.
LEMMA CPUField ==
  ASSUME NEW k \in CPURecord
  PROVE  /\ \A v \in BOOLEAN : [k EXCEPT !.iff = v] \in CPURecord
         /\ \A v \in Nat : [k EXCEPT !.ncli = v] \in CPURecord
         /\ \A v \in BOOLEAN : [k EXCEPT !.intena = v] \in CPURecord
         /\ \A v \in Procs \cup {None} : [k EXCEPT !.proc = v] \in CPURecord
         /\ \A v \in Labels : [k EXCEPT !.at = v] \in CPURecord
         /\ \A v \in Returns : [k EXCEPT !.ret = v] \in CPURecord
BY DEF CPURecord

\* A CPU's record: IF, ncli, intena, the process, the label, the return label.
Is(k, f, n, i, p, l, r) ==
  /\ k.iff = f /\ k.ncli = n /\ k.intena = i
  /\ k.proc = p /\ k.at = l /\ k.ret = r

\* pushcli() and popcli() field by field.
LEMMA Cli ==
  ASSUME NEW k \in CPURecord
  PROVE  /\ pushcli(k) \in CPURecord
         /\ k.ncli # 0 => popcli(k) \in CPURecord
         /\ Is(pushcli(k), FALSE, k.ncli + 1,
               IF k.ncli = 0 THEN k.iff ELSE k.intena, k.proc, k.at, k.ret)
         /\ Is(popcli(k), k.ncli = 1 /\ k.intena, k.ncli - 1,
               k.ncli > 1 /\ k.intena, k.proc, k.at, k.ret)
         /\ k.ncli = 0 =>
              Is(pushcli(k), FALSE, 1, k.iff, k.proc, k.at, k.ret)
         /\ k.ncli = 2 =>
              Is(popcli(k), FALSE, 1, k.intena, k.proc, k.at, k.ret)
<1>1. /\ k.ncli + 1 \in Nat
      /\ k.ncli # 0 => k.ncli - 1 \in Nat
      /\ (IF k.ncli = 0 THEN k.iff ELSE k.intena) \in BOOLEAN
  BY DEF CPURecord
<1>2. pushcli(k) \in CPURecord  BY <1>1, CPUField DEF pushcli
<1>3. k.ncli # 0 => popcli(k) \in CPURecord  BY <1>1, CPUField DEF popcli
<1>4. Is(pushcli(k), FALSE, k.ncli + 1,
         IF k.ncli = 0 THEN k.iff ELSE k.intena, k.proc, k.at, k.ret)
  BY DEF pushcli, CPURecord, Is
<1>5. Is(popcli(k), k.ncli = 1 /\ k.intena, k.ncli - 1,
         k.ncli > 1 /\ k.intena, k.proc, k.at, k.ret)
  BY DEF popcli, CPURecord, Is
<1>6. k.ncli = 0 => Is(pushcli(k), FALSE, 1, k.iff, k.proc, k.at, k.ret)
  BY DEF pushcli, CPURecord, Is
<1>7. ASSUME k.ncli = 2
      PROVE  Is(popcli(k), FALSE, 1, k.intena, k.proc, k.at, k.ret)
  <2>1. k.intena \in BOOLEAN  BY DEF CPURecord
  <2>2. (k.ncli = 1 /\ k.intena) = FALSE  BY <1>7
  <2>3. (k.ncli > 1 /\ k.intena) = k.intena  BY <1>7, <2>1
  <2>4. k.ncli - 1 = 1  BY <1>7
  <2>5. QED  BY <1>5, <2>2, <2>3, <2>4, Zenon DEF Is
<1>8. QED  BY <1>2, <1>3, <1>4, <1>5, <1>6, <1>7

\* Moving to a label changes nothing else in the record.
LEMMA AtLabel ==
  ASSUME NEW k \in CPURecord, NEW label \in Labels
  PROVE  /\ [k EXCEPT !.at = label] \in CPURecord
         /\ Is([k EXCEPT !.at = label], k.iff, k.ncli, k.intena, k.proc,
               label, k.ret)
BY DEF CPURecord, Is

\* acquire() turns the CPU's interrupts off and remembers whether they were on.
LEMMA Acquires ==
  ASSUME TypeOK, NEW c \in CPUs, NEW l \in {"ticks", "ptable"},
         NEW label \in Labels, acquire(c, l, label)
  PROVE  /\ lock' \in [{"ticks", "ptable"} -> CPUs \cup {None}]
         /\ cpu' \in [CPUs -> CPURecord]
         /\ \A d \in CPUs \ {c} : cpu'[d] = cpu[d]
         /\ Is(cpu'[c], FALSE, cpu[c].ncli + 1,
               IF cpu[c].ncli = 0 THEN cpu[c].iff ELSE cpu[c].intena,
               cpu[c].proc, label, cpu[c].ret)
<1> DEFINE k == pushcli(cpu[c])
           m == [k EXCEPT !.at = label]
<1>1. cpu[c] \in CPURecord  BY DEF TypeOK
<1>2. /\ k \in CPURecord
      /\ Is(k, FALSE, cpu[c].ncli + 1,
            IF cpu[c].ncli = 0 THEN cpu[c].iff ELSE cpu[c].intena,
            cpu[c].proc, cpu[c].at, cpu[c].ret)
  BY <1>1, Cli
<1>3. cpu' = [cpu EXCEPT ![c] = m]  BY DEF acquire
<1> HIDE DEF k
<1>4. /\ m \in CPURecord
      /\ Is(m, FALSE, cpu[c].ncli + 1,
            IF cpu[c].ncli = 0 THEN cpu[c].iff ELSE cpu[c].intena,
            cpu[c].proc, label, cpu[c].ret)
  BY <1>2, AtLabel DEF Is
<1> HIDE DEF m
<1>5. QED  BY <1>3, <1>4 DEF TypeOK, acquire

\* release() lets interrupts in again when it is the last one out and they
\* were on when the first one came.
LEMMA Releases ==
  ASSUME TypeOK, NEW c \in CPUs, NEW l \in {"ticks", "ptable"},
         NEW label \in Labels, cpu[c].ncli = 1, release(c, l, label)
  PROVE  /\ lock' \in [{"ticks", "ptable"} -> CPUs \cup {None}]
         /\ lock' = [lock EXCEPT ![l] = None]
         /\ cpu' \in [CPUs -> CPURecord]
         /\ \A d \in CPUs \ {c} : cpu'[d] = cpu[d]
         /\ Is(cpu'[c], cpu[c].intena, 0, FALSE, cpu[c].proc, label,
               cpu[c].ret)
<1> DEFINE k == popcli(cpu[c])
           m == [k EXCEPT !.at = label]
<1>1. cpu[c] \in CPURecord /\ cpu[c].intena \in BOOLEAN
  BY DEF TypeOK, CPURecord
<1>2. /\ k \in CPURecord
      /\ Is(k, cpu[c].ncli = 1 /\ cpu[c].intena, cpu[c].ncli - 1,
            cpu[c].ncli > 1 /\ cpu[c].intena,
            cpu[c].proc, cpu[c].at, cpu[c].ret)
  <2>1. cpu[c].ncli # 0  OBVIOUS
  <2>2. QED  BY <1>1, <2>1, Cli, Zenon
<1>3. cpu' = [cpu EXCEPT ![c] = m]  BY DEF release
<1> HIDE DEF k
<1>4. /\ m \in CPURecord
      /\ Is(m, cpu[c].intena, 0, FALSE, cpu[c].proc, label, cpu[c].ret)
  <2>1. /\ k.iff = cpu[c].intena
        /\ k.ncli = 0
        /\ k.intena = FALSE
    <3>1. (cpu[c].ncli = 1 /\ cpu[c].intena) = cpu[c].intena
      BY <1>1
    <3>2. (cpu[c].ncli > 1 /\ cpu[c].intena) = FALSE
      BY <1>1
    <3>3. k.iff = (cpu[c].ncli = 1 /\ cpu[c].intena)
      BY <1>2, Zenon DEF Is
    <3>4. k.intena = (cpu[c].ncli > 1 /\ cpu[c].intena)
      BY <1>2, Zenon DEF Is
    <3>5. k.ncli = cpu[c].ncli - 1  BY <1>2, Zenon DEF Is
    <3>6. k.iff = cpu[c].intena  BY <3>1, <3>3, Zenon
    <3>7. k.intena = FALSE  BY <3>2, <3>4, Zenon
    <3>8. k.ncli = 0  BY <3>5
    <3>9. QED  BY <3>6, <3>7, <3>8
  <2>2. QED  BY <1>2, <2>1, AtLabel DEF Is
<1> HIDE DEF m
<1>5. QED  BY <1>3, <1>4 DEF TypeOK, release

\* A process's record stays one when a field is assigned.
LEMMA ProcField ==
  ASSUME NEW r \in ProcRecord
  PROVE  /\ \A v \in States : [r EXCEPT !.state = v] \in ProcRecord
         /\ \A v \in BOOLEAN : [r EXCEPT !.killed = v] \in ProcRecord
         /\ \A v \in Saved : [r EXCEPT !.at = v] \in ProcRecord
         /\ \A v \in Returns : [r EXCEPT !.ret = v] \in ProcRecord
         /\ \A v \in BOOLEAN : [r EXCEPT !.intena = v] \in ProcRecord
         /\ \A v \in Procs \cup {None} : [r EXCEPT !.child = v] \in ProcRecord
         /\ \A v \in Nat : /\ [r EXCEPT !.n = v] \in ProcRecord
                           /\ [r EXCEPT !.ticks0 = v] \in ProcRecord
                           /\ [r EXCEPT !.ctime = v] \in ProcRecord
                           /\ [r EXCEPT !.ttime = v] \in ProcRecord
                           /\ [r EXCEPT !.counted = v] \in ProcRecord
                           /\ [r EXCEPT !.seen = v] \in ProcRecord
BY DEF ProcRecord

\* Two process records that the invariant cannot tell apart.
Alike(r, s) ==
  /\ r.state = s.state /\ r.child = s.child /\ r.seen = s.seen
  /\ r.at = s.at /\ r.ret = s.ret /\ r.intena = s.intena

\* Switching away from a process: the scheduler inherits the flags, the
\* process saves intena.
LEMMA AwayLeaves ==
  ASSUME TypeOK, NEW c \in CPUs, NEW k \in CPURecord, k.proc \in Procs,
         NEW s \in States, NEW label \in Saved, Away(c, k, s, label)
  PROVE  /\ cpu' \in [CPUs -> CPURecord]
         /\ pr' \in [Procs -> ProcRecord]
         /\ \A d \in CPUs \ {c} : cpu'[d] = cpu[d]
         /\ Is(cpu'[c], k.iff, k.ncli, k.intena, None, "back", "none")
         /\ \A q \in Procs \ {k.proc} : pr'[q] = pr[q]
         /\ pr'[k.proc].state = s
         /\ pr'[k.proc].at = label
         /\ pr'[k.proc].ret = k.ret
         /\ pr'[k.proc].intena = k.intena
         /\ pr'[k.proc].child = pr[k.proc].child
         /\ pr'[k.proc].seen = pr[k.proc].seen
         /\ pr'[k.proc].killed = pr[k.proc].killed
         /\ pr'[k.proc].ctime = pr[k.proc].ctime
         /\ pr'[k.proc].counted = pr[k.proc].counted
<1> DEFINE p == k.proc
           n == [k EXCEPT !.proc = None, !.at = "back", !.ret = "none"]
           m == [pr[p] EXCEPT !.state = s, !.at = label, !.ret = k.ret,
                              !.intena = k.intena]
<1>1. n \in CPURecord
  <2>1. "back" \in Labels /\ "none" \in Returns
    BY DEF Labels, WithTable, Returns
  <2>2. QED  BY <2>1, CPUField
<1>2. m \in ProcRecord
  <2>1. pr[p] \in ProcRecord /\ k.ret \in Returns /\ k.intena \in BOOLEAN
    BY DEF TypeOK, CPURecord
  <2>2. QED  BY <2>1, ProcField
<1>3. Is(n, k.iff, k.ncli, k.intena, None, "back", "none")
  BY DEF Is, CPURecord
<1>4. /\ m.state = s /\ m.at = label /\ m.ret = k.ret /\ m.intena = k.intena
      /\ m.child = pr[p].child /\ m.seen = pr[p].seen
      /\ m.killed = pr[p].killed /\ m.ctime = pr[p].ctime
      /\ m.counted = pr[p].counted
  BY DEF TypeOK, ProcRecord
<1>5. cpu' = [cpu EXCEPT ![c] = n] /\ pr' = [pr EXCEPT ![p] = m]
  BY DEF Away, TypeOK
<1> HIDE DEF m, n
<1>6. cpu'[c] = n /\ pr'[p] = m  BY <1>5 DEF TypeOK
<1>7. QED  BY <1>1, <1>2, <1>3, <1>4, <1>5, <1>6 DEF TypeOK

\* Processes and children are slots or nobody.
LEMMA References ==
  ASSUME ClockInv
  PROVE  /\ \A c \in CPUs : cpu[c].proc \in Procs \cup {None}
         /\ \A c \in CPUs : cpu[c].at = "block" => cpu[c].proc \in Procs
         /\ \A p \in Procs : pr[p].child \in Procs \cup {None}
         /\ \A p \in Procs : pr[p].state \in States
BY DEF ClockInv, ContextInv, CPUOK, TypeOK, CPURecord, ProcRecord

\* The contexts are in order when the one of the CPU that moved is, and those
\* it saved.
LEMMA ContextStep ==
  ASSUME ContextInv, NEW c \in CPUs, \A d \in CPUs \ {c} : cpu'[d] = cpu[d],
         CPUOK(cpu'[c]), \A q \in Procs : SavedOK(pr'[q])
  PROVE  ContextInv'
BY DEF ContextInv

\* sti() in the scheduler, which holds no lock.
LEMMA StiKeeps ==
  ASSUME ClockInv, NEW c \in CPUs, Sti(c)
  PROVE  ClockInv'
<1> USE ClockAssumption DEF ClockInv, ContextInv, CPUOK, SavedOK, WithTicks,
    WithTable, Handler, SchedulerLabels, ProcessLabels, At
<1>1. TypeOK'  BY DEF Sti, TypeOK, CPURecord, ProcRecord, States, Saved,
    Labels, Returns, RunInv
<1> USE DEF TypeOK, CPURecord, ProcRecord, Sti
<1>2. ContextInv'  BY DEF RunInv
<1>3. LockInv'  BY DEF LockInv
<1>4. RunInv'  BY DEF RunInv
<1>5. SeenInv'  BY DEF SeenInv, SleepersSawTheTick, RunInv, LockInv
<1>6. QED  BY <1>1, <1>2, <1>3, <1>4, <1>5

\* The scheduler takes ptable.lock with its interrupts on.
LEMMA LookKeeps ==
  ASSUME ClockInv, NEW c \in CPUs, Look(c)
  PROVE  ClockInv'
<1> USE ClockAssumption DEF ClockInv, ContextInv, CPUOK, SavedOK, WithTicks,
    WithTable, Handler, SchedulerLabels, ProcessLabels, At
<1>1. TypeOK'
  <2>1. acquire(c, "ptable", "pick") /\ "pick" \in Labels
    BY DEF Look, Labels
  <2>2. /\ lock' \in [{"ticks", "ptable"} -> CPUs \cup {None}]
        /\ cpu' \in [CPUs -> CPURecord]
    BY <2>1, Acquires
  <2>3. ticks' \in Nat /\ pr' \in [Procs -> ProcRecord]
    BY DEF Look, TypeOK
  <2>4. QED  BY <2>2, <2>3 DEF TypeOK
<1> USE DEF TypeOK, CPURecord, ProcRecord, Look, acquire, pushcli
<1>2. ContextInv'  BY DEF RunInv
<1>3. LockInv'  BY DEF LockInv
<1>4. RunInv'  BY DEF RunInv
<1>5. SeenInv'  BY DEF SeenInv, SleepersSawTheTick, RunInv, LockInv
<1>6. QED  BY <1>1, <1>2, <1>3, <1>4, <1>5

\* A switch to a process: intena becomes the one it saved.
LEMMA PickKeeps ==
  ASSUME ClockInv, NEW c \in CPUs, NEW p \in Procs, Pick(c, p)
  PROVE  ClockInv'
<1> USE ClockAssumption DEF ClockInv, ContextInv, CPUOK, SavedOK, WithTicks,
    WithTable, Handler, SchedulerLabels, ProcessLabels, At
<1>1. TypeOK'
  <2>1. /\ cpu[c] \in CPURecord
        /\ pr[p] \in ProcRecord
        /\ pr[p].at \in Labels
        /\ pr[p].ret \in Returns
        /\ Resumed(cpu[c], pr[p]) \in BOOLEAN
    BY DEF TypeOK, CPURecord, ProcRecord, Saved, Labels, Resumed
  <2>2. [cpu[c] EXCEPT !.proc = p, !.at = pr[p].at, !.ret = pr[p].ret,
                       !.intena = Resumed(cpu[c], pr[p])] \in CPURecord
    BY <2>1, CPUField
  <2>3. [pr[p] EXCEPT !.state = "RUNNING", !.at = "forkret", !.ret = "none",
                      !.intena = FALSE] \in ProcRecord
    <3>1. "RUNNING" \in States /\ "forkret" \in Saved /\ "none" \in Returns
      BY DEF States, Saved, Returns
    <3>2. QED  BY <2>1, <3>1, ProcField
  <2>4. pr' = [pr EXCEPT ![p] =
                 [pr[p] EXCEPT !.state = "RUNNING", !.at = "forkret",
                               !.ret = "none", !.intena = FALSE]]
    BY DEF Pick, TypeOK
  <2>5. QED  BY <2>2, <2>3, <2>4 DEF Pick, TypeOK
<1> USE DEF TypeOK, CPURecord, ProcRecord, Pick, Resumed
<1>2. ContextInv'  BY DEF RunInv
<1>3. LockInv'  BY DEF LockInv
<1>4. RunInv'  BY DEF RunInv
<1>5. SeenInv'  BY DEF SeenInv, SleepersSawTheTick, RunInv, LockInv
<1>6. QED  BY <1>1, <1>2, <1>3, <1>4, <1>5

\* The scheduler releases ptable.lock, whatever intena it was left with.
LEMMA SchedulerReleasesKeeps ==
  ASSUME ClockInv, NEW c \in CPUs, SchedulerReleases(c)
  PROVE  ClockInv'
<1> USE ClockAssumption DEF ClockInv, ContextInv, CPUOK, SavedOK, WithTicks,
    WithTable, Handler, SchedulerLabels, ProcessLabels, At
<1>1. TypeOK'
  <2>1. /\ release(c, "ptable", "sti")
        /\ "sti" \in Labels
        /\ cpu[c].ncli = 1
    BY DEF SchedulerReleases, Labels
  <2>2. /\ lock' \in [{"ticks", "ptable"} -> CPUs \cup {None}]
        /\ cpu' \in [CPUs -> CPURecord]
    BY <2>1, Releases
  <2>3. ticks' \in Nat /\ pr' \in [Procs -> ProcRecord]
    BY DEF SchedulerReleases, TypeOK
  <2>4. QED  BY <2>2, <2>3 DEF TypeOK
<1> USE DEF TypeOK, CPURecord, ProcRecord, SchedulerReleases, release, popcli
<1>2. ContextInv'  BY DEF RunInv
<1>3. LockInv'  BY DEF LockInv
<1>4. RunInv'  BY DEF RunInv
<1>5. SeenInv'  BY DEF SeenInv, SleepersSawTheTick, RunInv, LockInv
<1>6. QED  BY <1>1, <1>2, <1>3, <1>4, <1>5

\* A new process goes to user space, where interrupts are on.
LEMMA ForkretKeeps ==
  ASSUME ClockInv, NEW c \in CPUs, Forkret(c)
  PROVE  ClockInv'
<1> USE ClockAssumption DEF ClockInv, ContextInv, CPUOK, SavedOK, WithTicks,
    WithTable, Handler, SchedulerLabels, ProcessLabels, At
<1>1. TypeOK'
  <2>1. cpu[c] \in CPURecord /\ cpu[c].ncli # 0 /\ "user" \in Labels
    BY DEF Forkret, TypeOK, Labels
  <2>2. [popcli(cpu[c]) EXCEPT !.at = "user", !.iff = TRUE] \in CPURecord
    BY <2>1, Cli, CPUField
  <2>3. QED  BY <2>2 DEF Forkret, TypeOK
<1> USE DEF TypeOK, CPURecord, ProcRecord, Forkret, popcli
<1>2. ContextInv'  BY DEF RunInv
<1>3. LockInv'  BY DEF LockInv
<1>4. RunInv'  BY DEF RunInv
<1>5. SeenInv'  BY DEF SeenInv, SleepersSawTheTick, RunInv, LockInv
<1>6. QED  BY <1>1, <1>2, <1>3, <1>4, <1>5

\* sys_sleep() begins.
LEMMA StartNapKeeps ==
  ASSUME ClockInv, NEW c \in CPUs, NEW n \in Naps, StartNap(c, n)
  PROVE  ClockInv'
<1> USE ClockAssumption DEF ClockInv, ContextInv, CPUOK, SavedOK, WithTicks,
    WithTable, Handler, SchedulerLabels, ProcessLabels, At
<1>1. TypeOK'  BY DEF StartNap, Goto, TypeOK, CPURecord, ProcRecord, States,
    Saved, Labels, Returns, RunInv
<1> USE DEF TypeOK, CPURecord, ProcRecord, StartNap, Goto
<1>2. ContextInv'  BY DEF RunInv
<1>3. LockInv'  BY DEF LockInv
<1>4. RunInv'  BY DEF RunInv
<1>5. SeenInv'  BY DEF SeenInv, SleepersSawTheTick, RunInv, LockInv
<1>6. QED  BY <1>1, <1>2, <1>3, <1>4, <1>5

\* sys_sleep() takes tickslock.
LEMMA NapLocksKeeps ==
  ASSUME ClockInv, NEW c \in CPUs, NapLocks(c)
  PROVE  ClockInv'
<1> USE ClockAssumption DEF ClockInv, ContextInv, CPUOK, SavedOK, WithTicks,
    WithTable, Handler, SchedulerLabels, ProcessLabels, At
<1>1. TypeOK'
  <2>1. acquire(c, "ticks", "test") /\ "test" \in Labels
    BY DEF NapLocks, Labels
  <2>2. /\ lock' \in [{"ticks", "ptable"} -> CPUs \cup {None}]
        /\ cpu' \in [CPUs -> CPURecord]
    BY <2>1, Acquires
  <2>3. ticks' \in Nat /\ pr' \in [Procs -> ProcRecord]
    BY DEF NapLocks, ProcRecord, TypeOK
  <2>4. QED  BY <2>2, <2>3 DEF TypeOK
<1> USE DEF TypeOK, CPURecord, ProcRecord, NapLocks, acquire, pushcli
<1>2. ContextInv'  BY DEF RunInv
<1>3. LockInv'  BY DEF LockInv
<1>4. RunInv'  BY DEF RunInv
<1>5. SeenInv'  BY DEF SeenInv, SleepersSawTheTick, RunInv, LockInv
<1>6. QED  BY <1>1, <1>2, <1>3, <1>4, <1>5

\* sleep() takes ptable.lock inside tickslock.
LEMMA NapTestsKeeps ==
  ASSUME ClockInv, NEW c \in CPUs, NapTests(c)
  PROVE  ClockInv'
<1> USE ClockAssumption DEF ClockInv, ContextInv, CPUOK, SavedOK, WithTicks,
    WithTable, Handler, SchedulerLabels, ProcessLabels, At
<1>1. TypeOK'
  <2>1. acquire(c, "ptable", "block") /\ "block" \in Labels
    BY DEF NapTests, Labels
  <2>2. /\ lock' \in [{"ticks", "ptable"} -> CPUs \cup {None}]
        /\ cpu' \in [CPUs -> CPURecord]
    BY <2>1, Acquires
  <2>3. ticks' \in Nat /\ pr' \in [Procs -> ProcRecord]
    BY DEF NapTests, ProcRecord, TypeOK
  <2>4. QED  BY <2>2, <2>3 DEF TypeOK
<1> USE DEF TypeOK, CPURecord, ProcRecord, NapTests, acquire, pushcli
<1>2. ContextInv'  BY DEF RunInv
<1>3. LockInv'  BY DEF LockInv
<1>4. RunInv'  BY DEF RunInv
<1>5. SeenInv'  BY DEF SeenInv, SleepersSawTheTick, RunInv, LockInv
<1>6. QED  BY <1>1, <1>2, <1>3, <1>4, <1>5

\* sleep() gives up tickslock only under ptable.lock: what the process has
\* seen of ticks is still true.
LEMMA NapBlocksKeeps ==
  ASSUME ClockInv, NEW c \in CPUs, NapBlocks(c)
  PROVE  ClockInv'
<1> DEFINE p == cpu[c].proc
           k == popcli(cpu[c])
<1>1. /\ cpu[c].at = "block" /\ cpu[c].ret = "none"
      /\ p \in Procs
      /\ cpu[c] \in CPURecord
      /\ cpu[c].iff = FALSE
      /\ cpu[c].ncli = 2
      /\ cpu[c].intena = TRUE
  BY DEF NapBlocks, At, ClockInv, TypeOK, CPURecord, ContextInv, CPUOK,
      WithTicks, WithTable, Handler, SchedulerLabels, ProcessLabels
<1>2. k \in CPURecord /\ Is(k, FALSE, 1, TRUE, p, cpu[c].at, cpu[c].ret)
  <2>1. cpu[c].ncli # 0  BY <1>1
  <2>2. k \in CPURecord  BY <1>1, <2>1, Cli, Zenon
  <2>3. Is(k, FALSE, 1, cpu[c].intena, p, cpu[c].at, cpu[c].ret)
    BY <1>1, Cli, Zenon
  <2>4. QED  BY <1>1, <2>2, <2>3, Zenon
<1>3. /\ "SLEEPING" \in States /\ "slept" \in Saved
      /\ Away(c, k, "SLEEPING", "slept")
      /\ lock' = [lock EXCEPT !["ticks"] = None]
      /\ ticks' = ticks
  BY DEF NapBlocks, States, Saved
<1> HIDE DEF k
<1>4. /\ cpu' \in [CPUs -> CPURecord]
      /\ pr' \in [Procs -> ProcRecord]
      /\ \A d \in CPUs \ {c} : cpu'[d] = cpu[d]
      /\ Is(cpu'[c], FALSE, 1, TRUE, None, "back", "none")
      /\ \A q \in Procs \ {p} : pr'[q] = pr[q]
      /\ pr'[p].state = "SLEEPING"
      /\ pr'[p].at = "slept"
      /\ pr'[p].ret = cpu[c].ret
      /\ pr'[p].intena = TRUE
      /\ pr'[p].child = pr[p].child
      /\ pr'[p].seen = pr[p].seen
  BY <1>1, <1>2, <1>3, AwayLeaves DEF ClockInv, Is
<1>5. TypeOK'  BY <1>1, <1>3, <1>4 DEF ClockInv, TypeOK
<1> USE <1>1, <1>3, <1>4, <1>5 DEF Is, Alike
<1>6. ContextInv'
  <2>1. CPUOK(cpu'[c])
    BY DEF ClockInv, ContextInv, CPUOK, WithTicks, WithTable, Handler,
       SchedulerLabels, ProcessLabels
  <2>2. ASSUME NEW r \in Procs PROVE SavedOK(pr'[r])
    BY DEF ClockInv, ContextInv, SavedOK
  <2>3. QED  BY <2>1, <2>2, ContextStep DEF ClockInv
<1>7. LockInv'
  BY ClockAssumption DEF ClockInv, TypeOK, LockInv, WithTicks, WithTable,
     SchedulerLabels, ProcessLabels
<1>8. RunInv'
  BY References, ClockAssumption DEF ClockInv, RunInv
<1>9. SeenInv'
  BY References, ClockAssumption
  DEF ClockInv, SeenInv, SleepersSawTheTick, RunInv, LockInv, WithTicks
<1>10. QED  BY <1>6, <1>7, <1>8, <1>9 DEF ClockInv

\* The sleeper releases ptable.lock, perhaps on another CPU.
LEMMA NapUnblocksKeeps ==
  ASSUME ClockInv, NEW c \in CPUs, NapUnblocks(c)
  PROVE  ClockInv'
<1> USE ClockAssumption DEF ClockInv, ContextInv, CPUOK, SavedOK, WithTicks,
    WithTable, Handler, SchedulerLabels, ProcessLabels, At
<1>1. TypeOK'
  <2>1. /\ release(c, "ptable", "again")
        /\ "again" \in Labels
        /\ cpu[c].ncli = 1
    BY DEF NapUnblocks, Labels
  <2>2. /\ lock' \in [{"ticks", "ptable"} -> CPUs \cup {None}]
        /\ cpu' \in [CPUs -> CPURecord]
    BY <2>1, Releases
  <2>3. ticks' \in Nat /\ pr' \in [Procs -> ProcRecord]
    BY DEF NapUnblocks, TypeOK
  <2>4. QED  BY <2>2, <2>3 DEF TypeOK
<1> USE DEF TypeOK, CPURecord, ProcRecord, NapUnblocks, release, popcli
<1>2. ContextInv'  BY DEF RunInv
<1>3. LockInv'  BY DEF LockInv
<1>4. RunInv'  BY DEF RunInv
<1>5. SeenInv'  BY DEF SeenInv, SleepersSawTheTick, RunInv, LockInv
<1>6. QED  BY <1>1, <1>2, <1>3, <1>4, <1>5

\* The sleeper takes tickslock again.
LEMMA NapRelocksKeeps ==
  ASSUME ClockInv, NEW c \in CPUs, NapRelocks(c)
  PROVE  ClockInv'
<1> USE ClockAssumption DEF ClockInv, ContextInv, CPUOK, SavedOK, WithTicks,
    WithTable, Handler, SchedulerLabels, ProcessLabels, At
<1>1. TypeOK'
  <2>1. acquire(c, "ticks", "test") /\ "test" \in Labels
    BY DEF NapRelocks, Labels
  <2>2. /\ lock' \in [{"ticks", "ptable"} -> CPUs \cup {None}]
        /\ cpu' \in [CPUs -> CPURecord]
    BY <2>1, Acquires
  <2>3. ticks' \in Nat /\ pr' \in [Procs -> ProcRecord]
    BY DEF NapRelocks, TypeOK
  <2>4. QED  BY <2>2, <2>3 DEF TypeOK
<1> USE DEF TypeOK, CPURecord, ProcRecord, NapRelocks, acquire, pushcli
<1>2. ContextInv'  BY DEF RunInv
<1>3. LockInv'  BY DEF LockInv
<1>4. RunInv'  BY DEF RunInv
<1>5. SeenInv'  BY DEF SeenInv, SleepersSawTheTick, RunInv, LockInv
<1>6. QED  BY <1>1, <1>2, <1>3, <1>4, <1>5

\* sys_sleep() releases tickslock and is outside all locks.
LEMMA NapOverKeeps ==
  ASSUME ClockInv, NEW c \in CPUs, NapOver(c)
  PROVE  ClockInv'
<1> DEFINE p == cpu[c].proc
           label == IF pr[p].killed THEN "exit" ELSE "user"
           m == [pr[p] EXCEPT !.n = 0, !.ticks0 = 0, !.seen = 0]
<1>1. /\ cpu[c].at = "test" /\ cpu[c].ret = "none" /\ p \in Procs
      /\ cpu[c].ncli = 1 /\ cpu[c].intena = TRUE
      /\ label \in {"exit", "user"}
  BY DEF NapOver, At, ClockInv, TypeOK, CPURecord, ContextInv, CPUOK,
      WithTicks, WithTable, Handler, SchedulerLabels, ProcessLabels
<1>2. release(c, "ticks", label) /\ ticks' = ticks  BY DEF NapOver
<1> HIDE DEF label
<1>3. /\ lock' = [lock EXCEPT !["ticks"] = None]
      /\ cpu' \in [CPUs -> CPURecord]
      /\ \A d \in CPUs \ {c} : cpu'[d] = cpu[d]
      /\ Is(cpu'[c], TRUE, 0, FALSE, p, label, "none")
  <2>1. label \in Labels  BY <1>1 DEF Labels, ProcessLabels
  <2>2. QED  BY <1>1, <1>2, <2>1, Releases DEF ClockInv
<1>4. /\ m \in ProcRecord
      /\ m.state = pr[p].state /\ m.child = pr[p].child
      /\ SavedOK(m)
  <2>1. pr[p] \in ProcRecord /\ SavedOK(pr[p]) /\ 0 \in Nat
    BY <1>1 DEF ClockInv, ContextInv, TypeOK
  <2>2. m \in ProcRecord  BY <2>1, ProcField
  <2>3. QED  BY <2>1, <2>2 DEF ProcRecord, SavedOK
<1>5. pr' = [pr EXCEPT ![p] = m]
  BY DEF NapOver, ClockInv, TypeOK
<1> HIDE DEF m
<1>6. /\ pr' \in [Procs -> ProcRecord]
      /\ pr'[p] = m
      /\ \A q \in Procs \ {p} : pr'[q] = pr[q]
  BY <1>1, <1>4, <1>5 DEF ClockInv, TypeOK
<1>7. TypeOK'  BY <1>2, <1>3, <1>6 DEF ClockInv, TypeOK
<1> USE <1>1, <1>2, <1>3, <1>4, <1>6, <1>7 DEF Is, Alike
<1>8. ContextInv'
  <2>1. CPUOK(cpu'[c])
    BY DEF ClockInv, ContextInv, CPUOK, WithTicks, WithTable, Handler,
       SchedulerLabels, ProcessLabels
  <2>2. ASSUME NEW r \in Procs PROVE SavedOK(pr'[r])
    BY DEF ClockInv, ContextInv, SavedOK
  <2>3. QED  BY <2>1, <2>2, ContextStep DEF ClockInv
<1>9. LockInv'
  BY ClockAssumption DEF ClockInv, TypeOK, LockInv, WithTicks, WithTable,
     SchedulerLabels, ProcessLabels
<1>10. RunInv'
  <2> USE References, ClockAssumption DEF ClockInv, RunInv
  <2>1. \A d \in CPUs :
          cpu'[d].proc # None => pr'[cpu'[d].proc].state = "RUNNING"
    OBVIOUS
  <2>2. \A d, e \in CPUs :
          cpu'[d].proc = cpu'[e].proc /\ cpu'[d].proc # None => d = e
    OBVIOUS
  <2>3. \A r \in Procs :
          pr'[r].child # None => pr'[pr'[r].child].state = "EMBRYO"
    <3>1. \A r \in Procs :
            pr'[r].child = pr[r].child /\ pr'[r].state = pr[r].state
      OBVIOUS
    <3>2. QED  BY <3>1
  <2>4. \A r, t \in Procs :
          pr'[r].child = pr'[t].child /\ pr'[r].child # None => r = t
    OBVIOUS
  <2>5. QED  BY <2>1, <2>2, <2>3, <2>4
<1>11. SeenInv'
  <2> USE References, ClockAssumption
      DEF ClockInv, SeenInv, RunInv, LockInv, WithTicks
  <2>1. SleepersSawTheTick'  BY DEF SleepersSawTheTick
  <2>2. \A d \in CPUs :
          cpu'[d].at = "block" => pr'[cpu'[d].proc].seen = ticks'
    OBVIOUS
  <2>3. QED  BY <2>1, <2>2
<1>12. QED  BY <1>8, <1>9, <1>10, <1>11 DEF ClockInv

\* allocproc() takes a slot that is neither running nor somebody's child.
LEMMA ForkKeeps ==
  ASSUME ClockInv, NEW c \in CPUs, NEW q \in Procs, Fork(c, q)
  PROVE  ClockInv'
<1> DEFINE p == cpu[c].proc
           new == [NoProc EXCEPT !.state = "EMBRYO"]
           old == [pr[p] EXCEPT !.child = q]
<1>1. /\ cpu[c].at = "user" /\ cpu[c].ret = "none" /\ p \in Procs
      /\ pr[p].state = "RUNNING" /\ pr[q].state = "UNUSED" /\ p # q
  BY ClockAssumption DEF Fork, RunInv, At, ClockInv, TypeOK, CPURecord,
      ContextInv, CPUOK, WithTicks, WithTable, Handler, SchedulerLabels,
      ProcessLabels
<1>2. /\ UNCHANGED <<ticks, lock>>
      /\ cpu' = [cpu EXCEPT ![c].at = "ctime"]
      /\ pr' = [pr EXCEPT ![q] = new, ![p].child = q]
  BY DEF Fork, Goto
<1>3. /\ cpu' \in [CPUs -> CPURecord]
      /\ \A d \in CPUs \ {c} : cpu'[d] = cpu[d]
      /\ Is(cpu'[c], cpu[c].iff, cpu[c].ncli, cpu[c].intena, p, "ctime", "none")
  BY <1>1, <1>2 DEF ClockInv, TypeOK, CPURecord, Labels, ProcessLabels, Is
<1>4. /\ new \in ProcRecord
      /\ new.state = "EMBRYO" /\ new.child = None
      /\ SavedOK(new)
  BY DEF NoProc, ProcRecord, States, Saved, Returns, SavedOK
<1>5. /\ old \in ProcRecord
      /\ old.state = "RUNNING" /\ old.child = q /\ old.seen = pr[p].seen
      /\ SavedOK(old)
  BY <1>1 DEF ClockInv, ContextInv, SavedOK, TypeOK, ProcRecord
<1>6. pr' = [pr EXCEPT ![q] = new, ![p] = old]
  BY <1>1, <1>2 DEF ClockInv, TypeOK
<1> HIDE DEF new, old
<1>7. /\ pr' \in [Procs -> ProcRecord]
      /\ pr'[q] = new /\ pr'[p] = old
      /\ \A r \in Procs \ {p, q} : pr'[r] = pr[r]
  BY <1>1, <1>4, <1>5, <1>6 DEF ClockInv, TypeOK
<1>8. TypeOK'  BY <1>2, <1>3, <1>7 DEF ClockInv, TypeOK
<1> USE <1>1, <1>2, <1>3, <1>4, <1>5, <1>7, <1>8 DEF Is, Alike
<1>9. ContextInv'
  <2>1. CPUOK(cpu'[c])
    BY DEF ClockInv, ContextInv, CPUOK, WithTicks, WithTable, Handler,
       SchedulerLabels, ProcessLabels
  <2>2. ASSUME NEW r \in Procs PROVE SavedOK(pr'[r])
    BY DEF ClockInv, ContextInv, SavedOK
  <2>3. QED  BY <2>1, <2>2, ContextStep DEF ClockInv
<1>10. LockInv'
  BY ClockAssumption DEF ClockInv, TypeOK, LockInv, WithTicks, WithTable,
     SchedulerLabels, ProcessLabels
<1>11. RunInv'
  BY References, ClockAssumption DEF ClockInv, RunInv
<1>12. SeenInv'
  BY References, ClockAssumption
  DEF ClockInv, SeenInv, SleepersSawTheTick, RunInv, LockInv, WithTicks
<1>13. QED  BY <1>9, <1>10, <1>11, <1>12 DEF ClockInv

\* fork() stamps its EMBRYO without a lock.
LEMMA ForkCtimeKeeps ==
  ASSUME ClockInv, NEW c \in CPUs, ForkCtime(c)
  PROVE  ClockInv'
<1> DEFINE q == pr[cpu[c].proc].child
           m == [pr[q] EXCEPT !.ctime = ticks, !.counted = 0]
<1>1. cpu[c].at = "ctime" /\ cpu[c].ret = "none" /\ cpu[c].proc \in Procs
  BY DEF ForkCtime, At, ClockInv, TypeOK, CPURecord, ContextInv, CPUOK,
      WithTicks, WithTable, Handler, SchedulerLabels, ProcessLabels
<1>2. /\ UNCHANGED <<ticks, lock>>
      /\ cpu' = [cpu EXCEPT ![c].at = "ready"]
      /\ pr' = [pr EXCEPT ![q].ctime = ticks, ![q].counted = 0]
  BY DEF ForkCtime, Goto
<1>3. /\ cpu' \in [CPUs -> CPURecord]
      /\ \A d \in CPUs \ {c} : cpu'[d] = cpu[d]
      /\ Is(cpu'[c], cpu[c].iff, cpu[c].ncli, cpu[c].intena, cpu[c].proc,
            "ready", "none")
  BY <1>1, <1>2 DEF ClockInv, TypeOK, CPURecord, Labels, ProcessLabels, Is
<1> HIDE DEF q
<1>4. ASSUME q \in Procs
      PROVE  m \in ProcRecord /\ Alike(m, pr[q])
  <2>1. pr[q] \in ProcRecord /\ ticks \in Nat /\ 0 \in Nat
    BY <1>4 DEF ClockInv, TypeOK
  <2>2. m \in ProcRecord  BY <2>1, ProcField
  <2>3. QED  BY <2>1, <2>2 DEF ProcRecord, Alike
<1>5. pr' = [pr EXCEPT ![q] = m]
  BY <1>2 DEF ClockInv, TypeOK
<1> HIDE DEF m
<1>6. /\ pr' \in [Procs -> ProcRecord]
      /\ \A r \in Procs : Alike(pr'[r], pr[r])
  <2>1. CASE q \in Procs
    BY <1>4, <1>5, <2>1 DEF ClockInv, TypeOK, Alike
  <2>2. CASE q \notin Procs
    <3>1. pr' = pr  BY <1>5, <2>2 DEF ClockInv, TypeOK
    <3>2. QED  BY <3>1 DEF ClockInv, TypeOK, Alike
  <2>3. QED  BY <2>1, <2>2
<1>7. TypeOK'  BY <1>2, <1>3, <1>6 DEF ClockInv, TypeOK
<1> USE <1>1, <1>2, <1>3, <1>6, <1>7 DEF Is, Alike
<1>8. ContextInv'
  <2>1. CPUOK(cpu'[c])
    BY DEF ClockInv, ContextInv, CPUOK, WithTicks, WithTable, Handler,
       SchedulerLabels, ProcessLabels
  <2>2. ASSUME NEW r \in Procs PROVE SavedOK(pr'[r])
    BY DEF ClockInv, ContextInv, SavedOK
  <2>3. QED  BY <2>1, <2>2, ContextStep DEF ClockInv
<1>9. LockInv'
  BY ClockAssumption DEF ClockInv, TypeOK, LockInv, WithTicks, WithTable,
     SchedulerLabels, ProcessLabels
<1>10. RunInv'
  BY References, ClockAssumption DEF ClockInv, RunInv
<1>11. SeenInv'
  BY References, ClockAssumption
  DEF ClockInv, SeenInv, SleepersSawTheTick, RunInv, LockInv, WithTicks
<1>12. QED  BY <1>8, <1>9, <1>10, <1>11 DEF ClockInv

\* The EMBRYO becomes RUNNABLE; it is on no CPU.
LEMMA ForkReadyKeeps ==
  ASSUME ClockInv, NEW c \in CPUs, ForkReady(c)
  PROVE  ClockInv'
<1> DEFINE p == cpu[c].proc
           q == pr[p].child
           new == [pr[q] EXCEPT !.state = "RUNNABLE"]
           old == [pr[p] EXCEPT !.child = None]
<1>1. /\ cpu[c].at = "ready" /\ cpu[c].ret = "none" /\ p \in Procs
      /\ pr[p].state = "RUNNING"
  BY ClockAssumption DEF ForkReady, RunInv, At, ClockInv, TypeOK, CPURecord,
      ContextInv, CPUOK, WithTicks, WithTable, Handler, SchedulerLabels,
      ProcessLabels
<1>2. /\ UNCHANGED <<ticks, lock>>
      /\ cpu' = [cpu EXCEPT ![c].at = "user"]
      /\ pr' = [pr EXCEPT ![q].state = "RUNNABLE", ![p].child = None]
  BY DEF ForkReady, Goto
<1>3. /\ cpu' \in [CPUs -> CPURecord]
      /\ \A d \in CPUs \ {c} : cpu'[d] = cpu[d]
      /\ Is(cpu'[c], cpu[c].iff, cpu[c].ncli, cpu[c].intena, p, "user", "none")
  BY <1>1, <1>2 DEF ClockInv, TypeOK, CPURecord, Labels, ProcessLabels, Is
<1>4. /\ q \in Procs \cup {None}
      /\ q # p
      /\ q \in Procs => pr[q].state = "EMBRYO"
  BY <1>1, References, ClockAssumption DEF ClockInv, RunInv
<1>5. /\ old \in ProcRecord
      /\ old.state = "RUNNING" /\ old.child = None /\ old.seen = pr[p].seen
      /\ SavedOK(old)
  BY <1>1 DEF ClockInv, ContextInv, SavedOK, TypeOK, ProcRecord
<1> HIDE DEF q
<1>6. ASSUME q \in Procs
      PROVE  /\ new \in ProcRecord
             /\ new.state = "RUNNABLE" /\ new.child = pr[q].child
             /\ SavedOK(new)
  BY <1>6 DEF ClockInv, ContextInv, SavedOK, TypeOK, ProcRecord, States
<1>7. pr' = [pr EXCEPT ![q] = new, ![p] = old]
  BY <1>1, <1>2, <1>4 DEF ClockInv, TypeOK
<1> HIDE DEF new, old
<1>8. /\ pr' \in [Procs -> ProcRecord]
      /\ pr'[p] = old
      /\ q \in Procs => pr'[q] = new
      /\ \A r \in Procs \ {p, q} : pr'[r] = pr[r]
  BY <1>1, <1>4, <1>5, <1>6, <1>7 DEF ClockInv, TypeOK
<1>9. TypeOK'  BY <1>2, <1>3, <1>8 DEF ClockInv, TypeOK
<1> USE <1>1, <1>2, <1>3, <1>4, <1>5, <1>6, <1>8, <1>9 DEF Is, Alike
<1>10. ContextInv'
  <2>1. CPUOK(cpu'[c])
    BY DEF ClockInv, ContextInv, CPUOK, WithTicks, WithTable, Handler,
       SchedulerLabels, ProcessLabels
  <2>2. ASSUME NEW r \in Procs PROVE SavedOK(pr'[r])
    BY DEF ClockInv, ContextInv, SavedOK
  <2>3. QED  BY <2>1, <2>2, ContextStep DEF ClockInv
<1>11. LockInv'
  BY ClockAssumption DEF ClockInv, TypeOK, LockInv, WithTicks, WithTable,
     SchedulerLabels, ProcessLabels
<1>12. RunInv'
  <2> USE References, ClockAssumption DEF ClockInv, RunInv
  <2>1. \A d \in CPUs :
          cpu'[d].proc # None => pr'[cpu'[d].proc].state = "RUNNING"
    OBVIOUS
  <2>2. \A d, e \in CPUs :
          cpu'[d].proc = cpu'[e].proc /\ cpu'[d].proc # None => d = e
    OBVIOUS
  <2>3. \A r \in Procs :
          pr'[r].child # None => pr'[pr'[r].child].state = "EMBRYO"
    <3>1. SUFFICES ASSUME NEW r \in Procs, pr'[r].child # None
                   PROVE  pr'[pr'[r].child].state = "EMBRYO"
      OBVIOUS
    <3>2. r # p /\ pr'[r].child = pr[r].child /\ pr[r].child \in Procs
      BY <3>1
    <3>3. pr[pr[r].child].state = "EMBRYO" /\ pr[r].child # p
      BY <3>2
    <3>4. pr[r].child # q
      <4>1. pr[p].child = q  BY Zenon DEF q
      <4>2. \A x, y \in Procs :
              pr[x].child = pr[y].child /\ pr[x].child # None => x = y
        OBVIOUS
      <4>3. QED  BY <3>2, <4>1, <4>2
    <3>5. QED  BY <3>2, <3>3, <3>4
  <2>4. \A r, t \in Procs :
          pr'[r].child = pr'[t].child /\ pr'[r].child # None => r = t
    OBVIOUS
  <2>5. QED  BY <2>1, <2>2, <2>3, <2>4
<1>13. SeenInv'
  BY References, ClockAssumption, SMTT(30)
  DEF ClockInv, SeenInv, SleepersSawTheTick, RunInv, LockInv, WithTicks
<1>14. QED  BY <1>10, <1>11, <1>12, <1>13 DEF ClockInv

\* exit() leaves the CPU under ptable.lock.
LEMMA ExitKeeps ==
  ASSUME ClockInv, NEW c \in CPUs, Exit(c)
  PROVE  ClockInv'
<1> DEFINE p == cpu[c].proc
<1>1. p \in Procs /\ pr[p].state = "RUNNING"
  BY ClockAssumption
  DEF Exit, At, ClockInv, ContextInv, CPUOK, ProcessLabels, RunInv
<1>2. (\A d \in CPUs \ {c} : cpu'[d] = cpu[d]) /\ cpu'[c].proc = None
  BY DEF Exit, pushcli, ClockInv, TypeOK, CPURecord
<1>3. /\ \A q \in Procs \ {p} : pr'[q] = pr[q]
      /\ pr'[p].state = "ZOMBIE" /\ pr'[p].child = pr[p].child
  BY <1>1 DEF Exit, ClockInv, TypeOK, ProcRecord
<1>4. RunInv'
  BY <1>1, <1>2, <1>3, References, ClockAssumption DEF ClockInv, RunInv
<1> HIDE DEF p
<1> USE ClockAssumption DEF ClockInv, ContextInv, CPUOK, SavedOK, WithTicks,
    WithTable, Handler, SchedulerLabels, ProcessLabels, At
<1>5. TypeOK'
  <2>1. cpu[c] \in CPURecord /\ "back" \in Labels
    BY DEF TypeOK, Labels
  <2>2. [pushcli(cpu[c]) EXCEPT !.proc = None, !.at = "back"] \in CPURecord
    BY <2>1, Cli, CPUField
  <2>3. pr' \in [Procs -> ProcRecord]  BY DEF Exit, TypeOK, ProcRecord, States
  <2>4. QED  BY <2>2, <2>3 DEF Exit, TypeOK
<1> USE DEF TypeOK, CPURecord, ProcRecord, Exit, pushcli
<1>6. ContextInv'  BY SMTT(30) DEF RunInv
<1>7. LockInv'  BY DEF LockInv
<1>8. SeenInv'  BY DEF SeenInv, SleepersSawTheTick, RunInv, LockInv
<1>9. QED  BY <1>5, <1>6, <1>7, <1>8, <1>4

\* The slot of a zombie, which is on no CPU, is cleared.
LEMMA WaitKeeps ==
  ASSUME ClockInv, NEW q \in Procs, Wait(q)
  PROVE  ClockInv'
<1> USE ClockAssumption DEF ClockInv, ContextInv, CPUOK, SavedOK, WithTicks,
    WithTable, Handler, SchedulerLabels, ProcessLabels, At
<1>1. TypeOK'  BY DEF Wait, NoProc, TypeOK, CPURecord, ProcRecord, States,
    Saved, Labels, Returns, RunInv
<1> USE DEF TypeOK, CPURecord, ProcRecord, Wait, NoProc
<1>2. ContextInv'  BY DEF RunInv
<1>3. LockInv'  BY DEF LockInv
<1>4. RunInv'  BY DEF RunInv
<1>5. SeenInv'  BY DEF SeenInv, SleepersSawTheTick, RunInv, LockInv
<1>6. QED  BY <1>1, <1>2, <1>3, <1>4, <1>5

\* kill() wakes a sleeper and leaves a running process where it is.
LEMMA KillKeeps ==
  ASSUME ClockInv, NEW q \in Procs, Kill(q)
  PROVE  ClockInv'
<1> USE ClockAssumption DEF ClockInv, ContextInv, CPUOK, SavedOK, WithTicks,
    WithTable, Handler, SchedulerLabels, ProcessLabels, At
<1>1. TypeOK'
  <2>1. "RUNNABLE" \in States /\ 0 \in Nat /\ pr[q] \in ProcRecord
    BY DEF States, TypeOK
  <2>2. Woken(pr[q]) \in ProcRecord  BY <2>1, ProcField DEF Woken
  <2>3. [(IF pr[q].state = "SLEEPING" THEN Woken(pr[q]) ELSE pr[q])
           EXCEPT !.killed = TRUE] \in ProcRecord
    BY <2>1, <2>2, ProcField
  <2>4. QED  BY <2>3 DEF Kill, TypeOK
<1> USE DEF TypeOK, CPURecord, ProcRecord, Kill, Woken
<1>2. ContextInv'  BY DEF RunInv
<1>3. LockInv'  BY DEF LockInv
<1>4. RunInv'  BY DEF RunInv
<1>5. SeenInv'  BY DEF SeenInv, SleepersSawTheTick, RunInv, LockInv
<1>6. QED  BY <1>1, <1>2, <1>3, <1>4, <1>5

\* An interrupt comes only where the CPU holds no lock.
LEMMA InterruptKeeps ==
  ASSUME ClockInv, NEW c \in CPUs, Interrupt(c)
  PROVE  ClockInv'
<1> USE ClockAssumption DEF ClockInv, ContextInv, CPUOK, SavedOK, WithTicks,
    WithTable, Handler, SchedulerLabels, ProcessLabels, At
<1>1. TypeOK'  BY DEF Interrupt, TypeOK, CPURecord, ProcRecord, States, Saved,
    Labels, Returns, RunInv
<1> USE DEF TypeOK, CPURecord, ProcRecord, Interrupt
<1>2. ContextInv'  BY SMTT(30) DEF RunInv
<1>3. LockInv'  BY DEF LockInv
<1>4. RunInv'  BY DEF RunInv
<1>5. SeenInv'  BY DEF SeenInv, SleepersSawTheTick, RunInv, LockInv
<1>6. QED  BY <1>1, <1>2, <1>3, <1>4, <1>5

\* The handler takes tickslock: nobody is between test and sleep.
LEMMA TickCountsKeeps ==
  ASSUME ClockInv, NEW c \in CPUs, TickCounts(c)
  PROVE  ClockInv'
<1> USE ClockAssumption DEF ClockInv, ContextInv, CPUOK, SavedOK, WithTicks,
    WithTable, Handler, SchedulerLabels, ProcessLabels, At
<1>1. TypeOK'
  <2>1. acquire(c, "ticks", "times") /\ "times" \in Labels
    BY DEF TickCounts, Labels
  <2>2. /\ lock' \in [{"ticks", "ptable"} -> CPUs \cup {None}]
        /\ cpu' \in [CPUs -> CPURecord]
    BY <2>1, Acquires
  <2>3. ticks' \in Nat /\ pr' \in [Procs -> ProcRecord]
    BY DEF TickCounts, TypeOK
  <2>4. QED  BY <2>2, <2>3 DEF TypeOK
<1> USE DEF TypeOK, CPURecord, ProcRecord, TickCounts, acquire, pushcli
<1>2. ContextInv'  BY DEF RunInv
<1>3. LockInv'  BY DEF LockInv
<1>4. RunInv'  BY DEF RunInv
<1>5. SeenInv'  BY DEF SeenInv, SleepersSawTheTick, RunInv, LockInv
<1>6. QED  BY <1>1, <1>2, <1>3, <1>4, <1>5

\* update_times() changes nothing but the times.
LEMMA update_timesKeeps ==
  ASSUME ClockInv, NEW c \in CPUs, update_times(c)
  PROVE  ClockInv'
<1> USE ClockAssumption DEF ClockInv, ContextInv, CPUOK, SavedOK, WithTicks,
    WithTable, Handler, SchedulerLabels, ProcessLabels, At
<1>1. TypeOK'  BY SMTT(30) DEF update_times, Timed, Goto, TypeOK, CPURecord,
    ProcRecord, States, Saved, Labels, Returns, RunInv
<1> USE DEF TypeOK, CPURecord, ProcRecord, update_times, Timed, Goto
<1>2. ContextInv'  BY DEF RunInv
<1>3. LockInv'  BY DEF LockInv
<1>4. RunInv'  BY DEF RunInv
<1>5. SeenInv'  BY DEF SeenInv, SleepersSawTheTick, RunInv, LockInv
<1>6. QED  BY <1>1, <1>2, <1>3, <1>4, <1>5

\* The handler wakes every sleeper and releases tickslock; interrupts stay
\* off until iret.
LEMMA TickWakesKeeps ==
  ASSUME ClockInv, NEW c \in CPUs, TickWakes(c)
  PROVE  ClockInv'
<1>1. /\ cpu[c].at = "wake"
      /\ cpu[c].ncli = 1
      /\ cpu[c].intena = FALSE
  BY DEF TickWakes, At, ClockInv, TypeOK, CPURecord, ContextInv, CPUOK,
      WithTicks, WithTable, Handler, SchedulerLabels, ProcessLabels
<1>2. /\ lock' = [lock EXCEPT !["ticks"] = None]
      /\ cpu' \in [CPUs -> CPURecord]
      /\ \A d \in CPUs \ {c} : cpu'[d] = cpu[d]
      /\ Is(cpu'[c], FALSE, 0, FALSE, cpu[c].proc, "yield", cpu[c].ret)
      /\ ticks' = ticks
  <2>1. release(c, "ticks", "yield") /\ "yield" \in Labels /\ ticks' = ticks
    BY DEF TickWakes, Labels, Handler
  <2>2. QED  BY <1>1, <2>1, Releases DEF ClockInv
<1>3. ASSUME NEW p \in Procs
      PROVE  /\ Woken(pr[p]) \in ProcRecord
             /\ Woken(pr[p]).state = "RUNNABLE"
             /\ Woken(pr[p]).at = pr[p].at
             /\ Woken(pr[p]).ret = pr[p].ret
             /\ Woken(pr[p]).intena = pr[p].intena
             /\ Woken(pr[p]).child = pr[p].child
  BY DEF ClockInv, TypeOK, ProcRecord, Woken, States
<1>4. \A p \in Procs :
        pr'[p] = IF pr[p].state = "SLEEPING" THEN Woken(pr[p]) ELSE pr[p]
  BY DEF TickWakes
<1>5. pr' \in [Procs -> ProcRecord]
  BY <1>3 DEF TickWakes, ClockInv, TypeOK
<1>6. /\ \A p \in Procs : pr[p].state # "SLEEPING" => pr'[p] = pr[p]
      /\ \A p \in Procs : pr[p].state = "SLEEPING" =>
           /\ pr'[p].state = "RUNNABLE"
           /\ pr'[p].at = pr[p].at
           /\ pr'[p].ret = pr[p].ret
           /\ pr'[p].intena = pr[p].intena
           /\ pr'[p].child = pr[p].child
  BY <1>3, <1>4
<1>7. TypeOK'  BY <1>2, <1>5 DEF ClockInv, TypeOK
<1> USE <1>1, <1>2, <1>6, <1>7 DEF Is, Alike
<1>8. ContextInv'
  <2>1. CPUOK(cpu'[c])
    BY DEF ClockInv, ContextInv, CPUOK, WithTicks, WithTable, Handler,
       SchedulerLabels, ProcessLabels
  <2>2. ASSUME NEW r \in Procs PROVE SavedOK(pr'[r])
    BY DEF ClockInv, ContextInv, SavedOK
  <2>3. QED  BY <2>1, <2>2, ContextStep DEF ClockInv
<1>9. LockInv'
  BY ClockAssumption DEF ClockInv, TypeOK, LockInv, WithTicks, WithTable,
     SchedulerLabels, ProcessLabels
<1>10. RunInv'
  BY References, ClockAssumption DEF ClockInv, RunInv
<1>11. SeenInv'
  BY References, ClockAssumption
  DEF ClockInv, SeenInv, SleepersSawTheTick, RunInv, LockInv, WithTicks
<1>12. QED  BY <1>8, <1>9, <1>10, <1>11 DEF ClockInv

\* yield() saves that interrupts were off in the handler.
LEMMA YieldKeeps ==
  ASSUME ClockInv, NEW c \in CPUs, Yield(c)
  PROVE  ClockInv'
<1> DEFINE p == cpu[c].proc
           k == pushcli(cpu[c])
<1>1. /\ cpu[c].at = "yield" /\ cpu[c].ret \in ProcessLabels
      /\ p \in Procs
      /\ cpu[c] \in CPURecord
      /\ cpu[c].iff = FALSE
      /\ cpu[c].ncli = 0
      /\ cpu[c].intena \in BOOLEAN
  BY DEF Yield, At, ClockInv, TypeOK, CPURecord, ContextInv, CPUOK, WithTicks,
      WithTable, Handler, SchedulerLabels, ProcessLabels
<1>2. k \in CPURecord /\ Is(k, FALSE, 1, FALSE, p, cpu[c].at, cpu[c].ret)
  BY <1>1, Cli
<1>3. /\ "RUNNABLE" \in States /\ "yielded" \in Saved
      /\ Away(c, k, "RUNNABLE", "yielded")
      /\ lock' = [lock EXCEPT !["ptable"] = c]
      /\ ticks' = ticks
      /\ lock["ptable"] = None
  BY DEF Yield, States, Saved
<1> HIDE DEF k
<1>4. /\ cpu' \in [CPUs -> CPURecord]
      /\ pr' \in [Procs -> ProcRecord]
      /\ \A d \in CPUs \ {c} : cpu'[d] = cpu[d]
      /\ Is(cpu'[c], FALSE, 1, FALSE, None, "back", "none")
      /\ \A q \in Procs \ {p} : pr'[q] = pr[q]
      /\ pr'[p].state = "RUNNABLE"
      /\ pr'[p].at = "yielded"
      /\ pr'[p].ret = cpu[c].ret
      /\ pr'[p].intena = FALSE
      /\ pr'[p].child = pr[p].child
      /\ pr'[p].seen = pr[p].seen
  BY <1>1, <1>2, <1>3, AwayLeaves DEF ClockInv, Is
<1>5. TypeOK'  BY <1>1, <1>3, <1>4 DEF ClockInv, TypeOK
<1> USE <1>1, <1>3, <1>4, <1>5 DEF Is, Alike
<1>6. ContextInv'
  <2>1. CPUOK(cpu'[c])
    BY DEF ClockInv, ContextInv, CPUOK, WithTicks, WithTable, Handler,
       SchedulerLabels, ProcessLabels
  <2>2. ASSUME NEW r \in Procs PROVE SavedOK(pr'[r])
    BY DEF ClockInv, ContextInv, SavedOK
  <2>3. QED  BY <2>1, <2>2, ContextStep DEF ClockInv
<1>7. LockInv'
  BY ClockAssumption DEF ClockInv, TypeOK, LockInv, WithTicks, WithTable,
     SchedulerLabels, ProcessLabels
<1>8. RunInv'
  BY References, ClockAssumption DEF ClockInv, RunInv
<1>9. SeenInv'
  BY References, ClockAssumption
  DEF ClockInv, SeenInv, SleepersSawTheTick, RunInv, LockInv, WithTicks
<1>10. QED  BY <1>6, <1>7, <1>8, <1>9 DEF ClockInv

\* The process is back in the handler with interrupts off.
LEMMA YieldedKeeps ==
  ASSUME ClockInv, NEW c \in CPUs, Yielded(c)
  PROVE  ClockInv'
<1> USE ClockAssumption DEF ClockInv, ContextInv, CPUOK, SavedOK, WithTicks,
    WithTable, Handler, SchedulerLabels, ProcessLabels, At
<1>1. TypeOK'
  <2>1. /\ release(c, "ptable", "iret")
        /\ "iret" \in Labels
        /\ cpu[c].ncli = 1
    BY DEF Yielded, Labels
  <2>2. /\ lock' \in [{"ticks", "ptable"} -> CPUs \cup {None}]
        /\ cpu' \in [CPUs -> CPURecord]
    BY <2>1, Releases
  <2>3. ticks' \in Nat /\ pr' \in [Procs -> ProcRecord]
    BY DEF Yielded, TypeOK
  <2>4. QED  BY <2>2, <2>3 DEF TypeOK
<1> USE DEF TypeOK, CPURecord, ProcRecord, Yielded, release, popcli
<1>2. ContextInv'  BY DEF RunInv
<1>3. LockInv'  BY DEF LockInv
<1>4. RunInv'  BY DEF RunInv
<1>5. SeenInv'  BY DEF SeenInv, SleepersSawTheTick, RunInv, LockInv
<1>6. QED  BY <1>1, <1>2, <1>3, <1>4, <1>5

\* trap() returns to where it came from.
LEMMA IretKeeps ==
  ASSUME ClockInv, NEW c \in CPUs, Iret(c)
  PROVE  ClockInv'
<1>1. /\ cpu[c].at \in {"iret", "yield"}
      /\ UNCHANGED <<ticks, lock, pr>>
      /\ cpu' = [cpu EXCEPT ![c].ret = "none", ![c].iff = ~Doomed(c),
                            ![c].at = IF Doomed(c) THEN "exit"
                                      ELSE cpu[c].ret]
  BY DEF Iret, At
<1>2. /\ cpu[c].ret \in Labels /\ cpu[c].ncli = 0
      /\ \/ cpu[c].ret \in SchedulerLabels /\ cpu[c].proc = None
         \/ cpu[c].ret \in ProcessLabels /\ cpu[c].proc \in Procs
  BY <1>1 DEF Labels, ClockInv, TypeOK, CPURecord, ContextInv, CPUOK,
      WithTicks, WithTable, Handler, SchedulerLabels, ProcessLabels
<1>3. /\ cpu' \in [CPUs -> CPURecord]
      /\ \A d \in CPUs \ {c} : cpu'[d] = cpu[d]
      /\ \/ /\ cpu[c].ret = "user"
            /\ Is(cpu'[c], FALSE, 0, cpu[c].intena, cpu[c].proc, "exit", "none")
         \/ Is(cpu'[c], TRUE, 0, cpu[c].intena, cpu[c].proc, cpu[c].ret, "none")
  <2>1. CASE Doomed(c)
    <3>1. cpu' = [cpu EXCEPT ![c].ret = "none", ![c].iff = FALSE,
                             ![c].at = "exit"]
      BY <1>1, <2>1
    <3>2. cpu[c].ret = "user"  BY <2>1 DEF Doomed
    <3>3. QED
      BY <1>2, <3>1, <3>2
      DEF ClockInv, TypeOK, CPURecord, Labels, ProcessLabels, Returns, Is
  <2>2. CASE ~Doomed(c)
    <3>1. cpu' = [cpu EXCEPT ![c].ret = "none", ![c].iff = TRUE,
                             ![c].at = cpu[c].ret]
      BY <1>1, <2>2
    <3> DEFINE m == [cpu[c] EXCEPT !.ret = "none", !.iff = TRUE,
                                   !.at = cpu[c].ret]
    <3>2. cpu[c] \in CPURecord  BY DEF ClockInv, TypeOK
    <3>3. m \in CPURecord  BY <1>2, <3>2 DEF CPURecord, Returns
    <3>4. Is(m, TRUE, 0, cpu[c].intena, cpu[c].proc, cpu[c].ret, "none")
      BY <1>2, <3>2 DEF CPURecord, Is
    <3>5. cpu' = [cpu EXCEPT ![c] = m]  BY <3>1 DEF ClockInv, TypeOK
    <3> HIDE DEF m
    <3>6. QED  BY <3>3, <3>4, <3>5 DEF ClockInv, TypeOK
  <2>3. QED  BY <2>1, <2>2
<1>4. TypeOK'  BY <1>1, <1>3 DEF ClockInv, TypeOK
<1> USE <1>1, <1>2, <1>3, <1>4 DEF Is, Alike
<1>5. ContextInv'
  <2>1. CPUOK(cpu'[c])
    BY DEF ClockInv, ContextInv, CPUOK, WithTicks, WithTable, Handler,
       SchedulerLabels, ProcessLabels
  <2>2. ASSUME NEW r \in Procs PROVE SavedOK(pr'[r])
    BY DEF ClockInv, ContextInv, SavedOK
  <2>3. QED  BY <2>1, <2>2, ContextStep DEF ClockInv
<1>6. LockInv'
  BY ClockAssumption DEF ClockInv, TypeOK, LockInv, WithTicks, WithTable,
     SchedulerLabels, ProcessLabels
<1>7. RunInv'
  BY References, ClockAssumption DEF ClockInv, RunInv
<1>8. SeenInv'
  <2> USE References, ClockAssumption
      DEF ClockInv, SeenInv, RunInv, LockInv, WithTicks
  <2>1. SleepersSawTheTick'  BY DEF SleepersSawTheTick
  <2>2. \A d \in CPUs :
          cpu'[d].at = "block" => pr'[cpu'[d].proc].seen = ticks'
    BY DEF SchedulerLabels, ProcessLabels
  <2>3. QED  BY <2>1, <2>2
<1>9. QED  BY <1>5, <1>6, <1>7, <1>8 DEF ClockInv

\* Process 1 is about to run and no CPU holds a lock.
LEMMA ClockInit == Init => ClockInv
<1> SUFFICES ASSUME Init PROVE ClockInv
  OBVIOUS
<1> USE ClockAssumption DEF Init
<1>1. TypeOK
  <2>1. \A p \in Procs :
          /\ NoProc \in ProcRecord
          /\ [NoProc EXCEPT !.state = "RUNNABLE"] \in ProcRecord
    BY DEF NoProc, ProcRecord, States, Saved, Returns
  <2>2. pr \in [Procs -> ProcRecord]  BY <2>1
  <2>3. QED
    BY <2>2 DEF TypeOK, CPURecord, Labels, SchedulerLabels, Returns
<1>2. ContextInv
  BY DEF ContextInv, CPUOK, SavedOK, NoProc, WithTicks, WithTable, Handler,
     SchedulerLabels, ProcessLabels
<1>3. LockInv  BY DEF LockInv, WithTicks, WithTable
<1>4. RunInv  BY DEF RunInv, NoProc
<1>5. SeenInv  BY DEF SeenInv, SleepersSawTheTick, NoProc
<1>6. QED  BY <1>1, <1>2, <1>3, <1>4, <1>5 DEF ClockInv

\* Every step of a CPU, every interrupt and every kill preserves the
\* invariant.
LEMMA ClockStep == ClockInv /\ [Next]_vars => ClockInv'
<1> SUFFICES ASSUME ClockInv, [Next]_vars PROVE ClockInv'
  OBVIOUS
<1>1. ASSUME NEW c \in CPUs, CPUStep(c) PROVE ClockInv'
  <2>1. CASE \/ Sti(c) \/ Look(c) \/ SchedulerReleases(c) \/ Forkret(c)
             \/ \E p \in Procs : Pick(c, p)
    BY <2>1, StiKeeps, LookKeeps, SchedulerReleasesKeeps, ForkretKeeps,
       PickKeeps
  <2>2. CASE \/ NapLocks(c) \/ Sleeps(c) \/ NapUnblocks(c) \/ NapRelocks(c)
             \/ NapOver(c) \/ \E n \in Naps : StartNap(c, n)
    BY <2>2, NapLocksKeeps, NapTestsKeeps, NapBlocksKeeps, NapUnblocksKeeps,
       NapRelocksKeeps, NapOverKeeps, StartNapKeeps DEF Sleeps
  <2>3. CASE \/ ForkCtime(c) \/ ForkReady(c) \/ Exit(c)
             \/ \E p \in Procs : Fork(c, p)
    BY <2>3, ForkCtimeKeeps, ForkReadyKeeps, ExitKeeps, ForkKeeps
  <2>4. CASE \/ Interrupt(c) \/ TickCounts(c) \/ update_times(c)
             \/ TickWakes(c) \/ Yield(c) \/ Yielded(c) \/ Iret(c)
    BY <2>4, InterruptKeeps, TickCountsKeeps, update_timesKeeps,
       TickWakesKeeps, YieldKeeps, YieldedKeeps, IretKeeps
  <2>5. QED  BY <1>1, <2>1, <2>2, <2>3, <2>4 DEF CPUStep
<1>2. ASSUME NEW p \in Procs, Wait(p) \/ Kill(p) PROVE ClockInv'
  BY <1>2, WaitKeeps, KillKeeps
<1>3. CASE UNCHANGED vars
  BY <1>3
  DEF vars, ClockInv, TypeOK, ContextInv, LockInv, RunInv, SeenInv,
      SleepersSawTheTick
<1>4. QED  BY <1>1, <1>2, <1>3 DEF Next

\* The invariant holds in every reachable state.
THEOREM Invariance == Spec => []ClockInv
BY ClockInit, ClockStep, PTL DEF Spec

\* The locks a CPU holds, by its label, and how many they are.
LEMMA HeldLocks ==
  ASSUME ClockInv, NEW c \in CPUs
  PROVE  LET held == {l \in DOMAIN lock : lock[l] = c}
             at == cpu[c].at IN
         /\ at = "block" => held = {"ticks", "ptable"}
         /\ at \in WithTicks \ {"block"} => held = {"ticks"}
         /\ at \in WithTable \ {"block"} => held = {"ptable"}
         /\ at \notin WithTicks \cup WithTable => held = {}
         /\ cpu[c].ncli = Cardinality(held)
<1> DEFINE held == {l \in DOMAIN lock : lock[l] = c}
           at == cpu[c].at
<1>1. DOMAIN lock = {"ticks", "ptable"}  BY DEF ClockInv, TypeOK
<1>2. /\ "ticks" \in held <=> at \in WithTicks
      /\ "ptable" \in held <=> at \in WithTable
      /\ held \subseteq {"ticks", "ptable"}
  BY <1>1 DEF ClockInv, LockInv
<1>3. /\ at = "block" => held = {"ticks", "ptable"}
      /\ at \in WithTicks \ {"block"} => held = {"ticks"}
      /\ at \in WithTable \ {"block"} => held = {"ptable"}
      /\ at \notin WithTicks \cup WithTable => held = {}
  BY <1>2 DEF WithTicks, WithTable
<1>4. /\ Cardinality({}) = 0
      /\ Cardinality({"ticks"}) = 1
      /\ Cardinality({"ptable"}) = 1
      /\ Cardinality({"ticks", "ptable"}) = 2
  <2>1. /\ Cardinality({}) = 0
        /\ Cardinality({"ticks"}) = 1
        /\ Cardinality({"ptable"}) = 1
        /\ IsFiniteSet({"ticks"})
    BY FS_EmptySet, FS_Singleton
  <2>2. Cardinality({"ticks"} \cup {"ptable"}) = 2
    BY <2>1, FS_AddElement
  <2>3. {"ticks"} \cup {"ptable"} = {"ticks", "ptable"}  OBVIOUS
  <2>4. QED  BY <2>1, <2>2, <2>3
<1>5. cpu[c].ncli = IF at = "block" THEN 2
                    ELSE IF at \in WithTicks \cup WithTable THEN 1 ELSE 0
  BY DEF ClockInv, ContextInv, CPUOK
<1>6. cpu[c].ncli = Cardinality(held)
  <2>1. CASE at = "block"  BY <1>3, <1>4, <1>5, <2>1
  <2>2. CASE at \in WithTicks \ {"block"}  BY <1>3, <1>4, <1>5, <2>2
  <2>3. CASE at \in WithTable \ {"block"}  BY <1>3, <1>4, <1>5, <2>3
  <2>4. CASE at \notin WithTicks \cup WithTable
    <3>1. at # "block"  BY <2>4 DEF WithTicks
    <3>2. QED  BY <1>3, <1>4, <1>5, <2>4, <3>1
  <2>5. QED  BY <2>1, <2>2, <2>3, <2>4
<1>7. QED  BY <1>3, <1>6

\* ncli counts the spinlocks of the CPU, a holder cannot be interrupted, no
\* handler or system call asks for a lock its own CPU holds, and a thread has
\* its interrupts back when it is out of its locks, whichever CPU it is on.
THEOREM InterruptsAreMatched == Spec => []InterruptsMatch
<1>1. ASSUME ClockInv PROVE InterruptsMatch
  <2> SUFFICES ASSUME NEW c \in CPUs
               PROVE  LET held == {l \in DOMAIN lock : lock[l] = c} IN
                      /\ cpu[c].ncli = Cardinality(held)
                      /\ held # {} \/ cpu[c].ret # "none" => ~cpu[c].iff
                      /\ cpu[c].at \in {"user", "nap", "again", "ctime",
                                        "ready", "look"} => cpu[c].iff
                      /\ Wanted(c) \notin held
    BY DEF InterruptsMatch
  <2> DEFINE held == {l \in DOMAIN lock : lock[l] = c}
             at == cpu[c].at
  <2>1. /\ at = "block" => held = {"ticks", "ptable"}
        /\ at \in WithTicks \ {"block"} => held = {"ticks"}
        /\ at \in WithTable \ {"block"} => held = {"ptable"}
        /\ at \notin WithTicks \cup WithTable => held = {}
        /\ cpu[c].ncli = Cardinality(held)
    BY <1>1, HeldLocks
  <2>2. CPUOK(cpu[c])  BY <1>1 DEF ClockInv, ContextInv
  <2> HIDE DEF held
  <2>3. held # {} \/ cpu[c].ret # "none" => ~cpu[c].iff
    <3>1. held # {} => at \in WithTicks \cup WithTable
      BY <2>1
    <3>2. QED  BY <2>2, <3>1 DEF CPUOK
  <2>4. Wanted(c) \notin held
    <3>1. CASE at \in {"tick", "nap", "again"}
      <4>1. Wanted(c) = "ticks"  BY <3>1 DEF Wanted
      <4>2. held = {}  BY <2>1, <3>1 DEF WithTicks, WithTable
      <4>3. QED  BY <4>2
    <3>2. CASE at \in {"test", "look", "yield", "times", "wake", "exit"}
      <4>1. Wanted(c) = "ptable"  BY <3>2 DEF Wanted
      <4>2. held \subseteq {"ticks"}  BY <2>1, <3>2 DEF WithTicks, WithTable
      <4>3. QED  BY <4>1, <4>2
    <3>3. CASE at \notin {"tick", "nap", "again", "test", "look", "yield",
                          "times", "wake", "exit"}
      <4>1. Wanted(c) = None  BY <3>3 DEF Wanted
      <4>2. held \subseteq {"ticks", "ptable"}
        BY <1>1 DEF held, ClockInv, TypeOK
      <4>3. QED  BY <4>1, <4>2, ClockAssumption
    <3>4. QED  BY <3>1, <3>2, <3>3
  <2>5. QED  BY <2>1, <2>2, <2>3, <2>4 DEF CPUOK, held
<1>2. QED  BY <1>1, Invariance, PTL

\* No process sleeps through a tick: the test of ticks and the sleep are under
\* tickslock, which the handler holds from ticks++ to wakeup().
THEOREM NoTickIsMissed == Spec => []SleepersSawTheTick
<1>1. ClockInv => SleepersSawTheTick
  BY DEF ClockInv, SeenInv
<1>2. QED  BY <1>1, Invariance, PTL

-----------------------------------------------------------------------------
(***************************************************************************)
(* The times wait_stat() reports.                                          *)
(***************************************************************************)

\* Two numbers that a uint cannot tell apart.
Same(x, y) == \E i \in Int : x = y + i * UintRange

\* The label of the code a CPU runs under its handler.
Where(c) == IF cpu[c].at \in Handler THEN cpu[c].ret ELSE cpu[c].at

\* The ticks that update_times() has counted.
Counted == ticks - (IF cpu[0].at = "times" THEN 1 ELSE 0)

\* A process has been counted for each of them since its ctime, or for one more.
Timely(r) == \/ Same(r.counted + r.ctime, Counted)
             \/ Same(r.counted + r.ctime, Counted + 1)

\* Process 1 is never killed and stays.
FirstInv ==
  /\ \A p \in Procs :
       pr[p].killed \/ pr[p].state \in {"UNUSED", "EMBRYO", "ZOMBIE"} => p # 1
  /\ \A c \in CPUs : Where(c) = "exit" => pr[cpu[c].proc].killed
  /\ \A p \in Procs : pr[p].ret = "exit" => pr[p].killed

\* A fork() that was interrupted, and even one that was preempted, has its
\* child.
ForkInv ==
  /\ \A c \in CPUs :
       Where(c) \in {"ctime", "ready"} => pr[cpu[c].proc].child # None
  /\ \A p \in Procs : pr[p].ret \in {"ctime", "ready"} => pr[p].child # None
  /\ \A p \in Procs : pr[p].state = "RUNNING" => pr[p].ret = "none"

\* The counts of the processes and of the children that have their ctime.
CountInv ==
  /\ \A c \in CPUs : cpu[c].at \in {"tick", "times", "wake"} => c = 0
  /\ \A p \in Procs : p # 1 /\ pr[p].state \in Timed => Timely(pr[p])
  /\ \A c \in CPUs : Where(c) = "ready" => Timely(pr[pr[cpu[c].proc].child])
  /\ \A p \in Procs : pr[p].ret = "ready" => Timely(pr[pr[p].child])

TimeInv == FirstInv /\ ForkInv /\ CountInv /\ TimesAddUp

\* What \div and % compute.
LEMMA Division ==
  ASSUME NEW x \in Int
  PROVE  /\ x % UintRange \in 0 .. UintRange - 1
         /\ x \div UintRange \in Int
         /\ x = (x % UintRange) + (x \div UintRange) * UintRange
BY ClockAssumption, SMT

\* Being the same uint is an equivalence, kept by addition; a value is the same
\* as what is left of it in a uint.
LEMMA SameUint ==
  ASSUME NEW x \in Int, NEW y \in Int, NEW z \in Int
  PROVE  /\ Same(x, x)
         /\ Same(x, y) => Same(y, x)
         /\ Same(x, y) /\ Same(y, z) => Same(x, z)
         /\ Same(x, y) => Same(x + z, y + z)
         /\ Same(x % UintRange, x)
<1> USE ClockAssumption
<1>1. Same(x, x)
  <2>1. x = x + 0 * UintRange  OBVIOUS
  <2>2. QED  BY <2>1 DEF Same
<1>2. ASSUME Same(x, y) PROVE Same(y, x)
  <2>1. PICK i \in Int : x = y + i * UintRange  BY <1>2 DEF Same
  <2>2. -i \in Int /\ y = x + (-i) * UintRange  BY <2>1
  <2>3. QED  BY <2>2 DEF Same
<1>3. ASSUME Same(x, y), Same(y, z) PROVE Same(x, z)
  <2>1. PICK i \in Int : x = y + i * UintRange  BY <1>3 DEF Same
  <2>2. PICK j \in Int : y = z + j * UintRange  BY <1>3 DEF Same
  <2>3. i + j \in Int /\ x = z + (i + j) * UintRange  BY <2>1, <2>2
  <2>4. QED  BY <2>3 DEF Same
<1>4. ASSUME Same(x, y) PROVE Same(x + z, y + z)
  <2>1. PICK i \in Int : x = y + i * UintRange  BY <1>4 DEF Same
  <2>2. x + z = y + z + i * UintRange  BY <2>1
  <2>3. QED  BY <2>2 DEF Same
<1>5. Same(x % UintRange, x)
  <2>1. /\ x \div UintRange \in Int /\ x % UintRange \in Int
        /\ x = (x % UintRange) + (x \div UintRange) * UintRange
    BY Division
  <2> DEFINE d == x \div UintRange
             m == x % UintRange
  <2> HIDE DEF d, m
  <2>2. d \in Int /\ m \in Int /\ x = m + d * UintRange  BY <2>1 DEF d, m
  <2>3. -d \in Int /\ m = x + (-d) * UintRange  BY <2>2
  <2>4. Same(m, x)  BY <2>3 DEF Same
  <2>5. QED  BY <2>4 DEF m
<1>6. QED  BY <1>1, <1>2, <1>3, <1>4, <1>5

\* The remainder is the only uint that is the same.
LEMMA SameRest ==
  ASSUME NEW x \in Int, NEW r \in 0 .. UintRange - 1, Same(x, r)
  PROVE  x % UintRange = r
<1> USE ClockAssumption
<1>1. PICK i \in Int : x = r + i * UintRange  BY DEF Same
<1>2. /\ x \div UintRange \in Int /\ x % UintRange \in 0 .. UintRange - 1
      /\ x = (x % UintRange) + (x \div UintRange) * UintRange
  BY Division
<1> DEFINE d == x \div UintRange
           m == x % UintRange
<1> HIDE DEF d, m
<1>3. d \in Int /\ m \in 0 .. UintRange - 1 /\ x = m + d * UintRange
  BY <1>2 DEF d, m
<1>4. m - r = (i - d) * UintRange  BY <1>1, <1>3
<1>5. m - r < UintRange /\ r - m < UintRange  BY <1>3
<1>6. CASE i - d >= 1
  <2>1. (i - d) * UintRange >= UintRange  BY <1>3, <1>6
  <2>2. QED  BY <2>1, <1>4, <1>5, <1>3
<1>7. CASE d - i >= 1
  <2>1. (d - i) * UintRange >= UintRange  BY <1>3, <1>7
  <2>2. r - m = (d - i) * UintRange  BY <1>1, <1>3
  <2>3. QED  BY <2>1, <2>2, <1>5, <1>3
<1>8. CASE i = d
  BY <1>8, <1>1, <1>3 DEF m
<1>9. QED  BY <1>6, <1>7, <1>8, <1>3


\* The fields of a CPU and of a process, and what they range over.
LEMMA TimeTypes ==
  ASSUME ClockInv
  PROVE  /\ ticks \in Nat /\ Counted \in Int
         /\ \A c \in CPUs : cpu[c].proc \in Procs \cup {None}
         /\ \A c \in CPUs : Where(c) \in ProcessLabels => cpu[c].proc \in Procs
         /\ \A p \in Procs : /\ pr[p].child \in Procs \cup {None}
                             /\ pr[p].counted \in Nat /\ pr[p].ctime \in Nat
                             /\ pr[p].ttime \in Nat
         /\ 0 \in CPUs /\ None \notin Procs
<1>1. \A c \in CPUs : Where(c) \in ProcessLabels => cpu[c].proc \in Procs
  BY ClockAssumption
  DEF ClockInv, ContextInv, CPUOK, Where, Handler, ProcessLabels,
      SchedulerLabels
<1>2. QED
  BY <1>1, ClockAssumption
  DEF ClockInv, TypeOK, CPURecord, ProcRecord, Counted

\* Two process records whose times and whose part in a fork() are the same; the
\* second may have been woken up.
Still(r, s) ==
  /\ s.killed = r.killed /\ s.ret = r.ret /\ s.child = r.child
  /\ s.counted = r.counted /\ s.ctime = r.ctime /\ s.ttime = r.ttime
  /\ \/ s.state = r.state
     \/ r.state = "SLEEPING" /\ s.state = "RUNNABLE"

\* A CPU goes on with what it ran, or enters or leaves a handler: no time
\* changes.
LEMMA CPUMoves ==
  ASSUME ClockInv, TimeInv, NEW c \in CPUs, ticks' = ticks,
         \A d \in CPUs \ {c} : cpu'[d] = cpu[d],
         cpu'[c].proc = cpu[c].proc,
         \A p \in Procs : Still(pr[p], pr'[p]),
         cpu[c].at # "times", cpu'[c].at # "times",
         cpu'[c].at \in {"tick", "wake"} => c = 0,
         \/ Where(c)' = Where(c)
         \/ Where(c)' \notin {"exit", "ctime", "ready"}
         \/ Where(c)' = "exit" /\ pr[cpu[c].proc].killed /\ cpu[c].proc \in Procs
  PROVE  TimeInv'
<1> USE TimeTypes DEF Still, TimeInv
<1>1. Counted' = Counted
  BY DEF Counted
<1>2. ASSUME NEW p \in Procs PROVE Timely(pr[p])' <=> Timely(pr[p])
  BY <1>1, <1>2 DEF Timely
<1>3. \A d \in CPUs \ {c} : Where(d)' = Where(d) /\ cpu'[d].proc = cpu[d].proc
  BY DEF Where
<1>4. FirstInv'
  BY <1>3 DEF FirstInv, ProcessLabels
<1>5. ForkInv'
  BY <1>3 DEF ForkInv, ProcessLabels
<1>6. CountInv'
  <2> USE DEF CountInv, ProcessLabels
  <2>1. \A d \in CPUs : cpu'[d].at \in {"tick", "times", "wake"} => d = 0
    OBVIOUS
  <2>2. \A p \in Procs : p # 1 /\ pr'[p].state \in Timed => Timely(pr[p])'
    BY <1>2 DEF Timed
  <2>3. \A d \in CPUs : Where(d)' = "ready" =>
          Timely(pr[pr[cpu[d].proc].child])'
    <3>1. SUFFICES ASSUME NEW d \in CPUs, Where(d)' = "ready"
                   PROVE  Timely(pr[pr[cpu[d].proc].child])'
      OBVIOUS
    <3>2. Where(d) = "ready" /\ cpu'[d].proc = cpu[d].proc
      BY <1>3, <3>1
    <3>3. cpu[d].proc \in Procs /\ pr[cpu[d].proc].child \in Procs
      BY <3>2 DEF ForkInv
    <3>4. pr'[cpu[d].proc].child = pr[cpu[d].proc].child  BY <3>3
    <3>5. Timely(pr[pr[cpu[d].proc].child])  BY <3>2
    <3>6. QED  BY <1>2, <3>2, <3>3, <3>4, <3>5
  <2>4. \A p \in Procs : pr'[p].ret = "ready" => Timely(pr[pr[p].child])'
    <3>1. SUFFICES ASSUME NEW p \in Procs, pr'[p].ret = "ready"
                   PROVE  Timely(pr[pr[p].child])'
      OBVIOUS
    <3>2. pr[p].ret = "ready" /\ pr[p].child \in Procs
      BY <3>1 DEF ForkInv
    <3>3. QED  BY <1>2, <3>2
  <2>5. QED  BY <2>1, <2>2, <2>3, <2>4
<1>7. TimesAddUp'
  BY DEF TimesAddUp
<1>8. QED  BY <1>4, <1>5, <1>6, <1>7

\* sti() in the scheduler.
LEMMA StiTimes ==
  ASSUME ClockInv, TimeInv, NEW c \in CPUs, Sti(c)
  PROVE  TimeInv'
<1> USE DEF ClockInv, ContextInv, CPUOK, WithTicks, WithTable, Handler,
    SchedulerLabels, ProcessLabels, At, Is, Still, Where
<1>1. ticks' = ticks /\ \A p \in Procs : Still(pr[p], pr'[p])
  BY DEF Sti
<1>2. /\ \A d \in CPUs \ {c} : cpu'[d] = cpu[d]
      /\ cpu'[c].proc = cpu[c].proc
      /\ cpu'[c].at = "look" /\ cpu'[c].ret = cpu[c].ret
  BY DEF Sti, TypeOK, CPURecord
<1>3. QED  BY <1>1, <1>2, CPUMoves DEF Sti

\* The scheduler takes ptable.lock.
LEMMA LookTimes ==
  ASSUME ClockInv, TimeInv, NEW c \in CPUs, Look(c)
  PROVE  TimeInv'
<1>1. acquire(c, "ptable", "pick") /\ "pick" \in Labels
  BY DEF Look, Labels, WithTicks, WithTable
<1>2. /\ \A d \in CPUs \ {c} : cpu'[d] = cpu[d]
      /\ cpu'[c].proc = cpu[c].proc
      /\ cpu'[c].at = "pick" /\ cpu'[c].ret = cpu[c].ret
  BY <1>1, Acquires DEF Is, ClockInv
<1> USE DEF ClockInv, ContextInv, CPUOK, WithTicks, WithTable, Handler,
    SchedulerLabels, ProcessLabels, At, Is, Still, Where
<1>3. ticks' = ticks /\ \A p \in Procs : Still(pr[p], pr'[p])
  BY DEF Look
<1>4. QED  BY <1>2, <1>3, CPUMoves DEF Look

\* The scheduler releases ptable.lock.
LEMMA SchedulerReleasesTimes ==
  ASSUME ClockInv, TimeInv, NEW c \in CPUs, SchedulerReleases(c)
  PROVE  TimeInv'
<1> USE DEF ClockInv, ContextInv, CPUOK, WithTicks, WithTable, Handler,
    SchedulerLabels, ProcessLabels, At, Is, Still, Where
<1>1. ticks' = ticks /\ \A p \in Procs : Still(pr[p], pr'[p])
  BY DEF SchedulerReleases
<1>2. release(c, "ptable", "sti") /\ "sti" \in Labels
  BY DEF SchedulerReleases, Labels
<1>3. /\ \A d \in CPUs \ {c} : cpu'[d] = cpu[d]
      /\ cpu'[c].proc = cpu[c].proc
      /\ cpu'[c].at = "sti" /\ cpu'[c].ret = cpu[c].ret
  <2>1. cpu[c].ncli = 1  BY DEF SchedulerReleases
  <2>2. QED  BY <1>2, <2>1, Releases
<1>4. QED  BY <1>1, <1>3, CPUMoves DEF SchedulerReleases

\* A new process returns to user space.
LEMMA ForkretTimes ==
  ASSUME ClockInv, TimeInv, NEW c \in CPUs, Forkret(c)
  PROVE  TimeInv'
<1> USE DEF ClockInv, ContextInv, CPUOK, WithTicks, WithTable, Handler,
    SchedulerLabels, ProcessLabels, At, Is, Still, Where
<1>1. ticks' = ticks /\ \A p \in Procs : Still(pr[p], pr'[p])
  BY DEF Forkret
<1>2. /\ \A d \in CPUs \ {c} : cpu'[d] = cpu[d]
      /\ cpu'[c].proc = cpu[c].proc
      /\ cpu'[c].at = "user" /\ cpu'[c].ret = cpu[c].ret
  BY DEF Forkret, popcli, TypeOK, CPURecord
<1>3. QED  BY <1>1, <1>2, CPUMoves DEF Forkret

\* sys_sleep() starts.
LEMMA StartNapTimes ==
  ASSUME ClockInv, TimeInv, NEW c \in CPUs, NEW n \in Naps, StartNap(c, n)
  PROVE  TimeInv'
<1> USE DEF ClockInv, ContextInv, CPUOK, WithTicks, WithTable, Handler,
    SchedulerLabels, ProcessLabels, At, Is, Still, Where
<1>1. ticks' = ticks /\ \A p \in Procs : Still(pr[p], pr'[p])
  BY DEF StartNap, TypeOK, ProcRecord
<1>2. /\ \A d \in CPUs \ {c} : cpu'[d] = cpu[d]
      /\ cpu'[c].proc = cpu[c].proc
      /\ cpu'[c].at = "nap" /\ cpu'[c].ret = cpu[c].ret
  BY DEF StartNap, Goto, TypeOK, CPURecord
<1>3. QED  BY <1>1, <1>2, CPUMoves DEF StartNap

\* sys_sleep() takes tickslock.
LEMMA NapLocksTimes ==
  ASSUME ClockInv, TimeInv, NEW c \in CPUs, NapLocks(c)
  PROVE  TimeInv'
<1>1. acquire(c, "ticks", "test") /\ "test" \in Labels
  BY DEF NapLocks, Labels, WithTicks, WithTable
<1>2. /\ \A d \in CPUs \ {c} : cpu'[d] = cpu[d]
      /\ cpu'[c].proc = cpu[c].proc
      /\ cpu'[c].at = "test" /\ cpu'[c].ret = cpu[c].ret
  BY <1>1, Acquires DEF Is, ClockInv
<1> USE DEF ClockInv, ContextInv, CPUOK, WithTicks, WithTable, Handler,
    SchedulerLabels, ProcessLabels, At, Is, Still, Where
<1>3. ticks' = ticks /\ \A p \in Procs : Still(pr[p], pr'[p])
  BY DEF NapLocks, TypeOK, ProcRecord
<1>4. QED  BY <1>2, <1>3, CPUMoves DEF NapLocks

\* sleep() takes ptable.lock.
LEMMA NapTestsTimes ==
  ASSUME ClockInv, TimeInv, NEW c \in CPUs, NapTests(c)
  PROVE  TimeInv'
<1>1. acquire(c, "ptable", "block") /\ "block" \in Labels
  BY DEF NapTests, Labels, WithTicks, WithTable
<1>2. /\ \A d \in CPUs \ {c} : cpu'[d] = cpu[d]
      /\ cpu'[c].proc = cpu[c].proc
      /\ cpu'[c].at = "block" /\ cpu'[c].ret = cpu[c].ret
  BY <1>1, Acquires DEF Is, ClockInv
<1> USE DEF ClockInv, ContextInv, CPUOK, WithTicks, WithTable, Handler,
    SchedulerLabels, ProcessLabels, At, Is, Still, Where
<1>3. ticks' = ticks /\ \A p \in Procs : Still(pr[p], pr'[p])
  BY DEF NapTests, TypeOK, ProcRecord
<1>4. QED  BY <1>2, <1>3, CPUMoves DEF NapTests

\* sleep() releases ptable.lock.
LEMMA NapUnblocksTimes ==
  ASSUME ClockInv, TimeInv, NEW c \in CPUs, NapUnblocks(c)
  PROVE  TimeInv'
<1> USE DEF ClockInv, ContextInv, CPUOK, WithTicks, WithTable, Handler,
    SchedulerLabels, ProcessLabels, At, Is, Still, Where
<1>1. ticks' = ticks /\ \A p \in Procs : Still(pr[p], pr'[p])
  BY DEF NapUnblocks
<1>2. release(c, "ptable", "again") /\ "again" \in Labels
  BY DEF NapUnblocks, Labels
<1>3. /\ \A d \in CPUs \ {c} : cpu'[d] = cpu[d]
      /\ cpu'[c].proc = cpu[c].proc
      /\ cpu'[c].at = "again" /\ cpu'[c].ret = cpu[c].ret
  <2>1. cpu[c].ncli = 1  BY DEF NapUnblocks
  <2>2. QED  BY <1>2, <2>1, Releases
<1>4. QED  BY <1>1, <1>3, CPUMoves DEF NapUnblocks

\* sleep() takes tickslock again.
LEMMA NapRelocksTimes ==
  ASSUME ClockInv, TimeInv, NEW c \in CPUs, NapRelocks(c)
  PROVE  TimeInv'
<1>1. acquire(c, "ticks", "test") /\ "test" \in Labels
  BY DEF NapRelocks, Labels, WithTicks, WithTable
<1>2. /\ \A d \in CPUs \ {c} : cpu'[d] = cpu[d]
      /\ cpu'[c].proc = cpu[c].proc
      /\ cpu'[c].at = "test" /\ cpu'[c].ret = cpu[c].ret
  BY <1>1, Acquires DEF Is, ClockInv
<1> USE DEF ClockInv, ContextInv, CPUOK, WithTicks, WithTable, Handler,
    SchedulerLabels, ProcessLabels, At, Is, Still, Where
<1>3. ticks' = ticks /\ \A p \in Procs : Still(pr[p], pr'[p])
  BY DEF NapRelocks
<1>4. QED  BY <1>2, <1>3, CPUMoves DEF NapRelocks

\* sys_sleep() returns, to exit() if the process was killed.
LEMMA NapOverTimes ==
  ASSUME ClockInv, TimeInv, NEW c \in CPUs, NapOver(c)
  PROVE  TimeInv'
<1> USE DEF ClockInv, ContextInv, CPUOK, WithTicks, WithTable, Handler,
    SchedulerLabels, ProcessLabels, At, Is, Still, Where
<1> DEFINE label == IF pr[cpu[c].proc].killed THEN "exit" ELSE "user"
<1>1. ticks' = ticks /\ \A p \in Procs : Still(pr[p], pr'[p])
  <2> DEFINE q == cpu[c].proc
             m == [pr[q] EXCEPT !.n = 0, !.ticks0 = 0, !.seen = 0]
  <2>1. q \in Procs /\ pr[q] \in ProcRecord  BY DEF NapOver, TypeOK
  <2>2. Still(pr[q], m)  BY <2>1 DEF ProcRecord
  <2>3. pr' = [pr EXCEPT ![q] = m]  BY DEF NapOver, TypeOK
  <2> HIDE DEF m
  <2>4. QED  BY <2>1, <2>2, <2>3 DEF NapOver, TypeOK
<1>2. release(c, "ticks", label) /\ label \in Labels
  BY DEF NapOver, Labels
<1>3. /\ \A d \in CPUs \ {c} : cpu'[d] = cpu[d]
      /\ cpu'[c].proc = cpu[c].proc
      /\ cpu'[c].at = label /\ cpu'[c].ret = cpu[c].ret
  <2>1. cpu[c].ncli = 1  BY DEF NapOver
  <2> HIDE DEF label
  <2>2. QED  BY <1>2, <2>1, Releases
<1>4. QED  BY <1>1, <1>3, CPUMoves DEF NapOver

\* The handler is entered; only CPU 0 counts ticks.
LEMMA InterruptTimes ==
  ASSUME ClockInv, TimeInv, NEW c \in CPUs, Interrupt(c)
  PROVE  TimeInv'
<1> USE DEF ClockInv, ContextInv, CPUOK, WithTicks, WithTable, Handler,
    SchedulerLabels, ProcessLabels, At, Is, Still, Where
<1>1. ticks' = ticks /\ \A p \in Procs : Still(pr[p], pr'[p])
  BY DEF Interrupt
<1>2. /\ \A d \in CPUs \ {c} : cpu'[d] = cpu[d]
      /\ cpu'[c].proc = cpu[c].proc
      /\ cpu'[c].at = (IF c = 0 THEN "tick" ELSE "yield")
      /\ cpu'[c].ret = cpu[c].at
  BY DEF Interrupt, TypeOK, CPURecord
<1>3. cpu[c].at \notin Handler  BY DEF Interrupt
<1>4. QED  BY <1>1, <1>2, <1>3, CPUMoves

\* wakeup() makes sleepers RUNNABLE.
LEMMA TickWakesTimes ==
  ASSUME ClockInv, TimeInv, NEW c \in CPUs, TickWakes(c)
  PROVE  TimeInv'
<1> USE DEF ClockInv, ContextInv, CPUOK, WithTicks, WithTable, Handler,
    SchedulerLabels, ProcessLabels, At, Is, Still, Where
<1>1. ticks' = ticks /\ \A p \in Procs : Still(pr[p], pr'[p])
  <2>1. ASSUME NEW p \in Procs PROVE Still(pr[p], pr'[p])
    <3>1. pr[p] \in ProcRecord  BY DEF TypeOK
    <3>2. Still(pr[p], pr[p])  OBVIOUS
    <3>3. pr[p].state = "SLEEPING" => Still(pr[p], Woken(pr[p]))
      BY <3>1 DEF Woken, ProcRecord
    <3>4. pr'[p] = IF pr[p].state = "SLEEPING" THEN Woken(pr[p]) ELSE pr[p]
      BY DEF TickWakes
    <3>5. QED  BY <3>2, <3>3, <3>4, Zenon
  <2>2. QED  BY <2>1 DEF TickWakes
<1>2. release(c, "ticks", "yield") /\ "yield" \in Labels
  BY DEF TickWakes, Labels
<1>3. /\ \A d \in CPUs \ {c} : cpu'[d] = cpu[d]
      /\ cpu'[c].proc = cpu[c].proc
      /\ cpu'[c].at = "yield" /\ cpu'[c].ret = cpu[c].ret
  <2>1. cpu[c].ncli = 1  BY DEF TickWakes
  <2>2. QED  BY <1>2, <2>1, Releases
<1>4. QED  BY <1>1, <1>3, CPUMoves DEF TickWakes

\* yield() releases ptable.lock.
LEMMA YieldedTimes ==
  ASSUME ClockInv, TimeInv, NEW c \in CPUs, Yielded(c)
  PROVE  TimeInv'
<1> USE DEF ClockInv, ContextInv, CPUOK, WithTicks, WithTable, Handler,
    SchedulerLabels, ProcessLabels, At, Is, Still, Where
<1>1. ticks' = ticks /\ \A p \in Procs : Still(pr[p], pr'[p])
  BY DEF Yielded
<1>2. release(c, "ptable", "iret") /\ "iret" \in Labels
  BY DEF Yielded, Labels
<1>3. /\ \A d \in CPUs \ {c} : cpu'[d] = cpu[d]
      /\ cpu'[c].proc = cpu[c].proc
      /\ cpu'[c].at = "iret" /\ cpu'[c].ret = cpu[c].ret
  <2>1. cpu[c].ncli = 1  BY DEF Yielded
  <2>2. QED  BY <1>2, <2>1, Releases
<1>4. QED  BY <1>1, <1>3, CPUMoves DEF Yielded

\* The handler returns, to exit() if the process was killed.
LEMMA IretTimes ==
  ASSUME ClockInv, TimeInv, NEW c \in CPUs, Iret(c)
  PROVE  TimeInv'
<1> USE DEF ClockInv, ContextInv, CPUOK, WithTicks, WithTable, Handler,
    SchedulerLabels, ProcessLabels, At, Is, Still, Where
<1>1. ticks' = ticks /\ \A p \in Procs : Still(pr[p], pr'[p])
  BY DEF Iret
<1>2. /\ \A d \in CPUs \ {c} : cpu'[d] = cpu[d]
      /\ cpu'[c].proc = cpu[c].proc
      /\ cpu'[c].at = (IF Doomed(c) THEN "exit" ELSE cpu[c].ret)
      /\ cpu'[c].ret = "none"
  BY DEF Iret, TypeOK, CPURecord
<1>3. /\ cpu[c].at \in {"iret", "yield"}
      /\ cpu[c].ret \in SchedulerLabels \cup ProcessLabels
      /\ Doomed(c) => cpu[c].proc \in Procs /\ pr[cpu[c].proc].killed
  BY DEF Iret, Doomed
<1>4. cpu'[c].at \in SchedulerLabels \cup ProcessLabels
  BY <1>2, <1>3
<1>5. /\ Where(c)' = cpu'[c].at /\ Where(c) = cpu[c].ret
      /\ cpu'[c].at \notin {"tick", "times", "wake"}
      /\ cpu[c].at # "times"
  BY <1>3, <1>4
<1>6. \/ Where(c)' = Where(c)
      \/ Where(c)' = "exit" /\ pr[cpu[c].proc].killed /\ cpu[c].proc \in Procs
  BY <1>2, <1>3, <1>5
<1>7. QED  BY <1>1, <1>2, <1>5, <1>6, CPUMoves

\* A process that runs is in no other CPU's hands, and its own record has no
\* label.
LEMMA Runs ==
  ASSUME ClockInv, TimeInv, NEW c \in CPUs, cpu[c].proc \in Procs
  PROVE  /\ pr[cpu[c].proc].state = "RUNNING" /\ pr[cpu[c].proc].ret = "none"
         /\ \A d \in CPUs \ {c} : cpu[d].proc # cpu[c].proc
         /\ \A p \in Procs : pr[p].child # cpu[c].proc
<1>1. cpu[c].proc # None  BY ClockAssumption
<1>2. pr[cpu[c].proc].state = "RUNNING"  BY <1>1 DEF ClockInv, RunInv
<1>3. \A p \in Procs : pr[p].child # cpu[c].proc
  BY <1>1, <1>2 DEF ClockInv, RunInv
<1>4. QED  BY <1>1, <1>2, <1>3 DEF ClockInv, RunInv, TimeInv, ForkInv

\* A step under which the times of every process that matters stay.
LEMMA TimelyStays ==
  ASSUME ClockInv, ticks' = ticks,
         cpu'[0].at = "times" <=> cpu[0].at = "times",
         NEW p \in Procs, NEW q \in Procs,
         pr'[q].counted = pr[p].counted, pr'[q].ctime = pr[p].ctime
  PROVE  Timely(pr[q])' <=> Timely(pr[p])
<1>1. Counted' = Counted  BY DEF Counted
<1>2. QED  BY <1>1 DEF Timely

\* sched() leaves with the label of the interrupted code saved.
LEMMA AwayTimes ==
  ASSUME ClockInv, TimeInv, NEW c \in CPUs, NEW k \in CPURecord,
         cpu[c].proc \in Procs, k.proc = cpu[c].proc, cpu[c].at # "times",
         k.ret \in {"none", Where(c)},
         NEW s \in {"SLEEPING", "RUNNABLE"}, NEW label \in Saved,
         Away(c, k, s, label), ticks' = ticks
  PROVE  TimeInv'
<1> DEFINE p == cpu[c].proc
<1>1. /\ \A d \in CPUs \ {c} : cpu'[d] = cpu[d]
      /\ cpu'[c].proc = None /\ cpu'[c].at = "back" /\ cpu'[c].ret = "none"
      /\ \A q \in Procs \ {p} : pr'[q] = pr[q]
      /\ pr'[p].state = s /\ pr'[p].ret = k.ret
      /\ pr'[p].child = pr[p].child /\ pr'[p].killed = pr[p].killed
      /\ pr'[p].ctime = pr[p].ctime /\ pr'[p].counted = pr[p].counted
  <2>1. s \in States /\ TypeOK  BY DEF States, ClockInv
  <2>2. QED  BY <2>1, AwayLeaves DEF Is
<1>2. /\ \A d \in CPUs \ {c} : Where(d)' = Where(d)
      /\ Where(c)' = "back"
  BY <1>1 DEF Where, Handler
<1>3. /\ pr[p].state = "RUNNING" /\ pr[p].ret = "none"
      /\ \A d \in CPUs \ {c} : cpu[d].proc # p
      /\ \A q \in Procs : pr[q].child # p
  BY Runs
<1> HIDE DEF p
<1>4. p \in Procs /\ p = cpu[c].proc /\ k.ret \in {"none", Where(c)}
  BY DEF p
<1> USE <1>1, <1>2, <1>3, <1>4, TimeTypes DEF TimeInv, ProcessLabels
<1>5. FirstInv'  BY DEF FirstInv
<1>6. ForkInv'  BY DEF ForkInv
<1>7. ASSUME NEW q \in Procs PROVE Timely(pr[q])' <=> Timely(pr[q])
  BY <1>7, TimelyStays
<1>8. CountInv'
  <2> USE DEF CountInv
  <2>1. \A d \in CPUs : cpu'[d].at \in {"tick", "times", "wake"} => d = 0
    OBVIOUS
  <2>2. \A q \in Procs : q # 1 /\ pr'[q].state \in Timed => Timely(pr[q])'
    BY <1>7 DEF Timed
  <2>3. ASSUME NEW d \in CPUs, Where(d)' = "ready"
        PROVE  Timely(pr[pr[cpu[d].proc].child])'
    <3>1. d # c /\ Where(d) = "ready"  BY <2>3
    <3>2. cpu[d].proc \in Procs /\ pr[cpu[d].proc].child \in Procs
      BY <3>1 DEF ForkInv
    <3>3. cpu'[d].proc = cpu[d].proc
          /\ pr'[cpu[d].proc].child = pr[cpu[d].proc].child
      BY <3>1, <3>2
    <3>4. QED  BY <1>7, <3>1, <3>2, <3>3
  <2>4. ASSUME NEW q \in Procs, pr'[q].ret = "ready"
        PROVE  Timely(pr[pr[q].child])'
    <3>1. pr'[q].child = pr[q].child  BY <2>4
    <3>2. pr[q].child \in Procs /\ Timely(pr[pr[q].child])
      BY <2>4 DEF ForkInv
    <3>3. QED  BY <1>7, <3>1, <3>2
  <2>5. QED  BY <2>1, <2>2, <2>3, <2>4
<1>9. TimesAddUp'  BY DEF TimesAddUp
<1>10. QED  BY <1>5, <1>6, <1>8, <1>9

\* sleep() switches away; it was not interrupted.
LEMMA NapBlocksTimes ==
  ASSUME ClockInv, TimeInv, NEW c \in CPUs, NapBlocks(c)
  PROVE  TimeInv'
<1>1. /\ cpu[c] \in CPURecord /\ cpu[c].proc \in Procs
      /\ cpu[c].ret = "none" /\ cpu[c].ncli = 2 /\ cpu[c].at = "block"
  BY DEF NapBlocks, At, ClockInv, TypeOK, ContextInv, CPUOK, Handler
<1>2. /\ popcli(cpu[c]) \in CPURecord
      /\ popcli(cpu[c]).proc = cpu[c].proc /\ popcli(cpu[c]).ret = "none"
  <2>1. cpu[c].ncli # 0  BY <1>1
  <2>2. QED  BY <1>1, <2>1, Cli DEF Is
<1>3. Away(c, popcli(cpu[c]), "SLEEPING", "slept") /\ ticks' = ticks
  BY DEF NapBlocks
<1>4. "slept" \in Saved  BY DEF Saved
<1>5. QED  BY <1>1, <1>2, <1>3, <1>4, AwayTimes

\* yield() switches away from an interrupted process.
LEMMA YieldTimes ==
  ASSUME ClockInv, TimeInv, NEW c \in CPUs, Yield(c)
  PROVE  TimeInv'
<1>1. /\ cpu[c] \in CPURecord /\ cpu[c].proc \in Procs
      /\ cpu[c].ret = Where(c) /\ cpu[c].at = "yield"
  BY DEF Yield, At, ClockInv, TypeOK, CPURecord, Where, Handler
<1>2. /\ pushcli(cpu[c]) \in CPURecord
      /\ pushcli(cpu[c]).proc = cpu[c].proc
      /\ pushcli(cpu[c]).ret = Where(c)
  BY <1>1, Cli DEF Is
<1>3. Away(c, pushcli(cpu[c]), "RUNNABLE", "yielded") /\ ticks' = ticks
  BY DEF Yield
<1>4. "yielded" \in Saved  BY DEF Saved
<1>5. QED  BY <1>1, <1>2, <1>3, <1>4, AwayTimes

\* The scheduler goes on with a process where its record says.
LEMMA PickTimes ==
  ASSUME ClockInv, TimeInv, NEW c \in CPUs, NEW p \in Procs, Pick(c, p)
  PROVE  TimeInv'
<1>1. /\ cpu[c].at = "pick" /\ ticks' = ticks
      /\ pr[p].state = "RUNNABLE"
      /\ \A d \in CPUs \ {c} : cpu'[d] = cpu[d]
      /\ cpu'[c].proc = p /\ cpu'[c].at = pr[p].at /\ cpu'[c].ret = pr[p].ret
      /\ \A q \in Procs \ {p} : pr'[q] = pr[q]
      /\ pr'[p].state = "RUNNING" /\ pr'[p].ret = "none"
      /\ pr'[p].child = pr[p].child /\ pr'[p].killed = pr[p].killed
      /\ pr'[p].ctime = pr[p].ctime /\ pr'[p].counted = pr[p].counted
  BY DEF Pick, At, ClockInv, TypeOK, CPURecord, ProcRecord
<1>2. /\ \A d \in CPUs \ {c} : Where(d)' = Where(d)
      /\ Where(c)' \in {"forkret", "slept", pr[p].ret}
      /\ cpu'[c].at \notin {"tick", "times", "wake"}
  BY <1>1 DEF Where, Handler, ClockInv, ContextInv, SavedOK, TypeOK, ProcRecord,
     Saved
<1>3. /\ \A d \in CPUs \ {c} : cpu[d].proc # p
      /\ \A q \in Procs : pr[q].child # p
  BY <1>1, ClockAssumption DEF ClockInv, RunInv
<1> USE <1>1, <1>2, <1>3, TimeTypes DEF TimeInv, ProcessLabels
<1>5. FirstInv'  BY DEF FirstInv
<1>6. ForkInv'  BY DEF ForkInv
<1>7. ASSUME NEW q \in Procs PROVE Timely(pr[q])' <=> Timely(pr[q])
  BY <1>7, TimelyStays
<1>8. CountInv'
  <2> USE DEF CountInv
  <2>1. \A d \in CPUs : cpu'[d].at \in {"tick", "times", "wake"} => d = 0
    OBVIOUS
  <2>2. \A q \in Procs : q # 1 /\ pr'[q].state \in Timed => Timely(pr[q])'
    BY <1>7 DEF Timed
  <2>3. ASSUME NEW d \in CPUs, Where(d)' = "ready"
        PROVE  Timely(pr[pr[cpu[d].proc].child])'
    <3>1. CASE d # c
      <4>1. Where(d) = "ready"  BY <2>3, <3>1
      <4>2. cpu[d].proc \in Procs /\ pr[cpu[d].proc].child \in Procs
        BY <4>1 DEF ForkInv
      <4>3. cpu'[d].proc = cpu[d].proc
            /\ pr'[cpu[d].proc].child = pr[cpu[d].proc].child
        BY <3>1, <4>2
      <4>4. QED  BY <1>7, <4>1, <4>2, <4>3
    <3>2. CASE d = c
      <4>1. pr[p].ret = "ready"  BY <2>3, <3>2
      <4>2. pr[p].child \in Procs /\ Timely(pr[pr[p].child])
        BY <4>1 DEF ForkInv
      <4>3. QED  BY <1>7, <3>2, <4>2
    <3>3. QED  BY <3>1, <3>2
  <2>4. ASSUME NEW q \in Procs, pr'[q].ret = "ready"
        PROVE  Timely(pr[pr[q].child])'
    <3>1. q # p /\ pr'[q].child = pr[q].child  BY <2>4
    <3>2. pr[q].child \in Procs /\ Timely(pr[pr[q].child])
      BY <2>4, <3>1 DEF ForkInv
    <3>3. QED  BY <1>7, <3>1, <3>2
  <2>5. QED  BY <2>1, <2>2, <2>3, <2>4
<1>9. TimesAddUp'  BY DEF TimesAddUp
<1>10. QED  BY <1>5, <1>6, <1>8, <1>9

\* allocproc() takes a free slot: nobody's child, and not process 1.
LEMMA ForkTimes ==
  ASSUME ClockInv, TimeInv, NEW c \in CPUs, NEW q \in Procs, Fork(c, q)
  PROVE  TimeInv'
<1> DEFINE p == cpu[c].proc
<1>1. /\ cpu[c].at = "user" /\ p \in Procs
      /\ pr[q].state = "UNUSED" /\ ticks' = ticks
  BY DEF Fork, At, ClockInv, ContextInv, CPUOK, ProcessLabels
<1>2. /\ pr[p].state = "RUNNING" /\ pr[p].ret = "none"
      /\ \A d \in CPUs \ {c} : cpu[d].proc # p
      /\ \A r \in Procs : pr[r].child # p
  BY <1>1, Runs
<1>3. /\ q # p /\ q # 1
      /\ \A r \in Procs : pr[r].child # q
      /\ \A d \in CPUs : cpu[d].proc # q
  BY <1>1, <1>2, ClockAssumption DEF ClockInv, RunInv, TimeInv, FirstInv
<1>4. /\ \A d \in CPUs \ {c} : cpu'[d] = cpu[d]
      /\ cpu'[c].proc = p /\ cpu'[c].at = "ctime"
  BY <1>1 DEF Fork, Goto, ClockInv, TypeOK, CPURecord
<1>5. /\ \A r \in Procs \ {p, q} : pr'[r] = pr[r]
      /\ pr'[q].state = "EMBRYO" /\ pr'[q].ret = "none"
      /\ pr'[q].killed = FALSE
      /\ pr'[p].state = pr[p].state /\ pr'[p].ret = pr[p].ret
      /\ pr'[p].child = q /\ pr'[p].killed = pr[p].killed
      /\ pr'[p].ctime = pr[p].ctime /\ pr'[p].counted = pr[p].counted
  <2> DEFINE m == [pr[p] EXCEPT !.child = q]
             new == [NoProc EXCEPT !.state = "EMBRYO"]
  <2>1. /\ m.state = pr[p].state /\ m.ret = pr[p].ret
        /\ m.child = q /\ m.killed = pr[p].killed
        /\ m.ctime = pr[p].ctime /\ m.counted = pr[p].counted
    BY <1>1 DEF ClockInv, TypeOK, ProcRecord
  <2>2. new.state = "EMBRYO" /\ new.ret = "none" /\ new.killed = FALSE
    BY DEF NoProc
  <2>3. pr' = [pr EXCEPT ![q] = new, ![p] = m]
    BY <1>1, <1>3 DEF Fork, ClockInv, TypeOK
  <2> HIDE DEF m, new
  <2>4. QED  BY <1>1, <1>3, <2>1, <2>2, <2>3 DEF ClockInv, TypeOK
<1>6. /\ \A d \in CPUs \ {c} : Where(d)' = Where(d)
      /\ Where(c)' = "ctime"
  BY <1>4 DEF Where, Handler
<1> HIDE DEF p
<1>7. p = cpu[c].proc  BY DEF p
<1> USE <1>1, <1>2, <1>3, <1>4, <1>5, <1>6, <1>7, TimeTypes
    DEF TimeInv, ProcessLabels
<1>8. FirstInv'  BY DEF FirstInv
<1>9. ForkInv'  BY DEF ForkInv
<1>10. ASSUME NEW r \in Procs \ {q} PROVE Timely(pr[r])' <=> Timely(pr[r])
  BY <1>10, TimelyStays
<1>11. CountInv'
  <2> USE DEF CountInv
  <2>1. \A d \in CPUs : cpu'[d].at \in {"tick", "times", "wake"} => d = 0
    OBVIOUS
  <2>2. \A r \in Procs : r # 1 /\ pr'[r].state \in Timed => Timely(pr[r])'
    BY <1>10 DEF Timed
  <2>3. ASSUME NEW d \in CPUs, Where(d)' = "ready"
        PROVE  Timely(pr[pr[cpu[d].proc].child])'
    <3>1. d # c /\ Where(d) = "ready"  BY <2>3
    <3>2. cpu[d].proc \in Procs \ {p, q} /\ pr[cpu[d].proc].child \in Procs \ {q}
      BY <3>1 DEF ForkInv
    <3>3. cpu'[d].proc = cpu[d].proc
          /\ pr'[cpu[d].proc].child = pr[cpu[d].proc].child
      BY <3>1, <3>2
    <3>4. QED  BY <1>10, <3>1, <3>2, <3>3
  <2>4. ASSUME NEW r \in Procs, pr'[r].ret = "ready"
        PROVE  Timely(pr[pr[r].child])'
    <3>1. r \notin {p, q}  BY <2>4
    <3>2. pr[r].child \in Procs \ {q} /\ Timely(pr[pr[r].child])
      BY <2>4, <3>1 DEF ForkInv
    <3>3. QED  BY <1>10, <3>1, <3>2
  <2>5. QED  BY <2>1, <2>2, <2>3, <2>4
<1>12. TimesAddUp'  BY DEF TimesAddUp
<1>13. QED  BY <1>8, <1>9, <1>11, <1>12

\* The child of a fork() at one of its last two labels.
LEMMA ForkChild ==
  ASSUME ClockInv, TimeInv, NEW c \in CPUs, cpu[c].at \in {"ctime", "ready"}
  PROVE  LET p == cpu[c].proc
             q == pr[p].child IN
         /\ p \in Procs /\ q \in Procs /\ q # p /\ q # 1
         /\ pr[p].state = "RUNNING" /\ pr[p].ret = "none"
         /\ pr[q].state = "EMBRYO"
         /\ \A d \in CPUs \ {c} : cpu[d].proc # p
         /\ \A d \in CPUs : cpu[d].proc # q
         /\ \A r \in Procs \ {p} : pr[r].child # q
         /\ \A r \in Procs : pr[r].child # p
<1> DEFINE p == cpu[c].proc
           q == pr[p].child
<1>1. Where(c) = cpu[c].at  BY DEF Where, Handler
<1>2. p \in Procs /\ q # None
  BY <1>1, TimeTypes DEF ProcessLabels, TimeInv, ForkInv
<1>3. q \in Procs  BY <1>2, TimeTypes
<1>4. pr[q].state = "EMBRYO"  BY <1>2, <1>3 DEF ClockInv, RunInv
<1>5. /\ pr[p].state = "RUNNING" /\ pr[p].ret = "none"
      /\ \A d \in CPUs \ {c} : cpu[d].proc # p
      /\ \A r \in Procs : pr[r].child # p
  BY <1>2, Runs
<1>6. \A d \in CPUs : cpu[d].proc # q
  BY <1>3, <1>4, ClockAssumption DEF ClockInv, RunInv
<1>7. \A r \in Procs \ {p} : pr[r].child # q
  BY <1>2, <1>3 DEF ClockInv, RunInv
<1>8. q # p /\ q # 1  BY <1>3, <1>4, <1>5 DEF TimeInv, FirstInv
<1>9. QED  BY <1>2, <1>3, <1>4, <1>5, <1>6, <1>7, <1>8

\* The child gets its ctime, from a tick that may not have been counted yet.
LEMMA ForkCtimeTimes ==
  ASSUME ClockInv, TimeInv, NEW c \in CPUs, ForkCtime(c)
  PROVE  TimeInv'
<1> DEFINE p == cpu[c].proc
           q == pr[p].child
<1>1. cpu[c].at = "ctime" /\ ticks' = ticks  BY DEF ForkCtime, At
<1>2. /\ p \in Procs /\ q \in Procs /\ q # p /\ q # 1
      /\ pr[p].state = "RUNNING" /\ pr[p].ret = "none"
      /\ pr[q].state = "EMBRYO"
      /\ \A d \in CPUs \ {c} : cpu[d].proc # p
      /\ \A d \in CPUs : cpu[d].proc # q
      /\ \A r \in Procs \ {p} : pr[r].child # q
  BY <1>1, ForkChild
<1>3. /\ \A d \in CPUs \ {c} : cpu'[d] = cpu[d]
      /\ cpu'[c].proc = p /\ cpu'[c].at = "ready"
  BY <1>1 DEF ForkCtime, Goto, ClockInv, TypeOK, CPURecord
<1>4. /\ \A r \in Procs \ {q} : pr'[r] = pr[r]
      /\ pr'[q].state = "EMBRYO" /\ pr'[q].ret = pr[q].ret
      /\ pr'[q].child = pr[q].child /\ pr'[q].killed = pr[q].killed
      /\ pr'[q].ctime = ticks /\ pr'[q].counted = 0
  <2> DEFINE m == [pr[q] EXCEPT !.ctime = ticks, !.counted = 0]
  <2>1. /\ m.state = pr[q].state /\ m.ret = pr[q].ret
        /\ m.child = pr[q].child /\ m.killed = pr[q].killed
        /\ m.ctime = ticks /\ m.counted = 0
    BY <1>2 DEF ClockInv, TypeOK, ProcRecord
  <2>2. pr' = [pr EXCEPT ![q] = m]
    BY <1>2 DEF ForkCtime, ClockInv, TypeOK
  <2> HIDE DEF m
  <2>3. QED  BY <1>2, <2>1, <2>2 DEF ClockInv, TypeOK
<1>5. /\ \A d \in CPUs \ {c} : Where(d)' = Where(d)
      /\ Where(c)' = "ready"
  BY <1>3 DEF Where, Handler
<1>6. pr[p].child = q /\ p = cpu[c].proc  OBVIOUS
<1> HIDE DEF p, q
<1> USE <1>1, <1>2, <1>3, <1>4, <1>5, <1>6, TimeTypes
    DEF TimeInv, ProcessLabels
<1>7. FirstInv'  BY DEF FirstInv
<1>8. ForkInv'  BY DEF ForkInv
<1>9. ASSUME NEW r \in Procs \ {q} PROVE Timely(pr[r])' <=> Timely(pr[r])
  BY <1>9, TimelyStays
<1>10. ASSUME NEW r \in Procs, r = q PROVE Timely(pr[r])'
  <2>1. Counted' \in {ticks, ticks - 1}  BY DEF Counted
  <2>2. Same(ticks, ticks)  BY SameUint
  <2>3. pr'[r].counted + pr'[r].ctime = ticks
    BY <1>10
  <2>4. Counted' = ticks \/ Counted' + 1 = ticks  BY <2>1
  <2>5. \/ Same(pr'[r].counted + pr'[r].ctime, Counted')
        \/ Same(pr'[r].counted + pr'[r].ctime, Counted' + 1)
    BY <2>2, <2>3, <2>4, Zenon
  <2>6. QED  BY <2>5 DEF Timely, Same
<1>11. CountInv'
  <2> USE DEF CountInv
  <2>1. \A d \in CPUs : cpu'[d].at \in {"tick", "times", "wake"} => d = 0
    OBVIOUS
  <2>2. \A r \in Procs : r # 1 /\ pr'[r].state \in Timed => Timely(pr[r])'
    BY <1>9 DEF Timed
  <2>3. ASSUME NEW d \in CPUs, Where(d)' = "ready"
        PROVE  Timely(pr[pr[cpu[d].proc].child])'
    <3>1. CASE d = c
      <4>1. cpu'[d].proc = p /\ pr'[p].child = q  BY <3>1
      <4>2. QED  BY <1>10, <4>1
    <3>2. CASE d # c
      <4>1. Where(d) = "ready"  BY <2>3, <3>2
      <4>2. cpu[d].proc \in Procs \ {p, q}
            /\ pr[cpu[d].proc].child \in Procs \ {q}
        BY <3>2, <4>1 DEF ForkInv
      <4>3. cpu'[d].proc = cpu[d].proc
            /\ pr'[cpu[d].proc].child = pr[cpu[d].proc].child
        BY <3>2, <4>2
      <4>4. QED  BY <1>9, <4>1, <4>2, <4>3
    <3>3. QED  BY <3>1, <3>2
  <2>4. ASSUME NEW r \in Procs, pr'[r].ret = "ready"
        PROVE  Timely(pr[pr[r].child])'
    <3>1. r # p /\ pr[r].ret = "ready" /\ pr'[r].child = pr[r].child
      BY <2>4
    <3>2. pr[r].child \in Procs \ {q} /\ Timely(pr[pr[r].child])
      BY <3>1 DEF ForkInv
    <3>3. QED  BY <1>9, <3>1, <3>2
  <2>5. QED  BY <2>1, <2>2, <2>3, <2>4
<1>12. TimesAddUp'  BY DEF TimesAddUp
<1>13. QED  BY <1>7, <1>8, <1>11, <1>12

\* The child, which has its ctime, becomes RUNNABLE.
LEMMA ForkReadyTimes ==
  ASSUME ClockInv, TimeInv, NEW c \in CPUs, ForkReady(c)
  PROVE  TimeInv'
<1> DEFINE p == cpu[c].proc
           q == pr[p].child
<1>1. cpu[c].at = "ready" /\ ticks' = ticks  BY DEF ForkReady, At
<1>2. /\ p \in Procs /\ q \in Procs /\ q # p /\ q # 1
      /\ pr[p].state = "RUNNING" /\ pr[p].ret = "none"
      /\ pr[q].state = "EMBRYO"
      /\ \A d \in CPUs \ {c} : cpu[d].proc # p
      /\ \A d \in CPUs : cpu[d].proc # q
      /\ \A r \in Procs \ {p} : pr[r].child # q
  BY <1>1, ForkChild
<1>3. /\ \A d \in CPUs \ {c} : cpu'[d] = cpu[d]
      /\ cpu'[c].proc = p /\ cpu'[c].at = "user"
  BY <1>1 DEF ForkReady, Goto, ClockInv, TypeOK, CPURecord
<1>4. /\ \A r \in Procs \ {p, q} : pr'[r] = pr[r]
      /\ pr'[q].state = "RUNNABLE" /\ pr'[q].ret = pr[q].ret
      /\ pr'[q].child = pr[q].child /\ pr'[q].killed = pr[q].killed
      /\ pr'[q].ctime = pr[q].ctime /\ pr'[q].counted = pr[q].counted
      /\ pr'[p].state = "RUNNING" /\ pr'[p].ret = "none"
      /\ pr'[p].killed = pr[p].killed
      /\ pr'[p].ctime = pr[p].ctime /\ pr'[p].counted = pr[p].counted
  <2> DEFINE m == [pr[p] EXCEPT !.child = None]
             new == [pr[q] EXCEPT !.state = "RUNNABLE"]
  <2>1. /\ m.state = pr[p].state /\ m.ret = pr[p].ret
        /\ m.killed = pr[p].killed
        /\ m.ctime = pr[p].ctime /\ m.counted = pr[p].counted
    BY <1>2 DEF ClockInv, TypeOK, ProcRecord
  <2>2. /\ new.state = "RUNNABLE" /\ new.ret = pr[q].ret
        /\ new.child = pr[q].child /\ new.killed = pr[q].killed
        /\ new.ctime = pr[q].ctime /\ new.counted = pr[q].counted
    BY <1>2 DEF ClockInv, TypeOK, ProcRecord
  <2>3. pr' = [pr EXCEPT ![q] = new, ![p] = m]
    BY <1>2 DEF ForkReady, ClockInv, TypeOK
  <2> HIDE DEF m, new
  <2>4. QED  BY <1>2, <2>1, <2>2, <2>3 DEF ClockInv, TypeOK
<1>5. /\ \A d \in CPUs \ {c} : Where(d)' = Where(d)
      /\ Where(c)' = "user" /\ Where(c) = "ready"
  BY <1>1, <1>3 DEF Where, Handler
<1>6. pr[p].child = q /\ p = cpu[c].proc  OBVIOUS
<1> HIDE DEF p, q
<1> USE <1>1, <1>2, <1>3, <1>4, <1>5, <1>6, TimeTypes
    DEF TimeInv, ProcessLabels
<1>7. FirstInv'  BY DEF FirstInv
<1>8. ForkInv'  BY DEF ForkInv
<1>9. ASSUME NEW r \in Procs PROVE Timely(pr[r])' <=> Timely(pr[r])
  <2>1. pr'[r].counted = pr[r].counted /\ pr'[r].ctime = pr[r].ctime
    BY <1>9
  <2>2. QED  BY <1>9, <2>1, TimelyStays
<1>10. Timely(pr[q])  BY DEF CountInv
<1>11. CountInv'
  <2> USE DEF CountInv
  <2>1. \A d \in CPUs : cpu'[d].at \in {"tick", "times", "wake"} => d = 0
    OBVIOUS
  <2>2. \A r \in Procs : r # 1 /\ pr'[r].state \in Timed => Timely(pr[r])'
    BY <1>9, <1>10 DEF Timed
  <2>3. ASSUME NEW d \in CPUs, Where(d)' = "ready"
        PROVE  Timely(pr[pr[cpu[d].proc].child])'
    <3>1. d # c /\ Where(d) = "ready"  BY <2>3
    <3>2. cpu[d].proc \in Procs \ {p, q} /\ pr[cpu[d].proc].child \in Procs
      BY <3>1 DEF ForkInv
    <3>3. cpu'[d].proc = cpu[d].proc
          /\ pr'[cpu[d].proc].child = pr[cpu[d].proc].child
      BY <3>1, <3>2
    <3>4. QED  BY <1>9, <3>1, <3>2, <3>3
  <2>4. ASSUME NEW r \in Procs, pr'[r].ret = "ready"
        PROVE  Timely(pr[pr[r].child])'
    <3>1. r # p /\ pr[r].ret = "ready" /\ pr'[r].child = pr[r].child
      BY <2>4
    <3>2. pr[r].child \in Procs /\ Timely(pr[pr[r].child])
      BY <3>1 DEF ForkInv
    <3>3. QED  BY <1>9, <3>1, <3>2
  <2>5. QED  BY <2>1, <2>2, <2>3, <2>4
<1>12. TimesAddUp'  BY DEF TimesAddUp
<1>13. QED  BY <1>7, <1>8, <1>11, <1>12

\* exit() reads ticks, which may be one ahead of the counts.
LEMMA ExitTimes ==
  ASSUME ClockInv, TimeInv, NEW c \in CPUs, Exit(c)
  PROVE  TimeInv'
<1> DEFINE p == cpu[c].proc
<1>1. /\ cpu[c].at \in {"exit", "user"} /\ p \in Procs /\ ticks' = ticks
      /\ p # 1
  <2>1. cpu[c].at \in {"exit", "user"} /\ ticks' = ticks  BY DEF Exit, At
  <2>2. Where(c) = cpu[c].at  BY <2>1 DEF Where, Handler
  <2>3. p \in Procs  BY <2>1, <2>2, TimeTypes DEF ProcessLabels
  <2>4. p # 1  BY <2>1, <2>2, <2>3 DEF Exit, At, TimeInv, FirstInv
  <2>5. QED  BY <2>1, <2>3, <2>4
<1>2. /\ pr[p].state = "RUNNING" /\ pr[p].ret = "none"
      /\ \A d \in CPUs \ {c} : cpu[d].proc # p
      /\ \A r \in Procs : pr[r].child # p
  BY <1>1, Runs
<1>3. /\ \A d \in CPUs \ {c} : cpu'[d] = cpu[d]
      /\ cpu'[c].at = "back"
  BY <1>1 DEF Exit, pushcli, ClockInv, TypeOK, CPURecord
<1>4. /\ \A r \in Procs \ {p} : pr'[r] = pr[r]
      /\ pr'[p].state = "ZOMBIE" /\ pr'[p].ret = pr[p].ret
      /\ pr'[p].child = pr[p].child /\ pr'[p].killed = pr[p].killed
      /\ pr'[p].ctime = pr[p].ctime /\ pr'[p].counted = pr[p].counted
      /\ pr'[p].ttime = ticks
  BY <1>1 DEF Exit, ClockInv, TypeOK, ProcRecord
<1>5. /\ \A d \in CPUs \ {c} : Where(d)' = Where(d)
      /\ Where(c)' = "back"
  BY <1>3 DEF Where, Handler
<1>6. p = cpu[c].proc  OBVIOUS
<1> HIDE DEF p
<1> USE <1>1, <1>2, <1>3, <1>4, <1>5, <1>6, TimeTypes
    DEF TimeInv, ProcessLabels
<1>7. FirstInv'  BY DEF FirstInv
<1>8. ForkInv'  BY DEF ForkInv
<1>9. ASSUME NEW r \in Procs PROVE Timely(pr[r])' <=> Timely(pr[r])
  BY <1>9, TimelyStays
<1>10. CountInv'
  <2> USE DEF CountInv
  <2>1. \A d \in CPUs : cpu'[d].at \in {"tick", "times", "wake"} => d = 0
    OBVIOUS
  <2>2. \A r \in Procs : r # 1 /\ pr'[r].state \in Timed => Timely(pr[r])'
    BY <1>9 DEF Timed
  <2>3. ASSUME NEW d \in CPUs, Where(d)' = "ready"
        PROVE  Timely(pr[pr[cpu[d].proc].child])'
    <3>1. d # c /\ Where(d) = "ready"  BY <2>3
    <3>2. cpu[d].proc \in Procs \ {p} /\ pr[cpu[d].proc].child \in Procs
      BY <3>1 DEF ForkInv
    <3>3. cpu'[d].proc = cpu[d].proc
          /\ pr'[cpu[d].proc].child = pr[cpu[d].proc].child
      BY <3>1, <3>2
    <3>4. QED  BY <1>9, <3>1, <3>2, <3>3
  <2>4. ASSUME NEW r \in Procs, pr'[r].ret = "ready"
        PROVE  Timely(pr[pr[r].child])'
    <3>1. pr[r].ret = "ready" /\ pr'[r].child = pr[r].child
      BY <2>4
    <3>2. pr[r].child \in Procs /\ Timely(pr[pr[r].child])
      BY <3>1 DEF ForkInv
    <3>3. QED  BY <1>9, <3>1, <3>2
  <2>5. QED  BY <2>1, <2>2, <2>3, <2>4
<1>11. (pr[p].counted + pr[p].ctime - ticks) % UintRange
         \in {0, 1, UintRange - 1}
  <2> DEFINE x == pr[p].counted + pr[p].ctime
             y == x - ticks
  <2>1. x \in Int /\ y \in Int /\ y = x + (- ticks) /\ -ticks \in Int
    OBVIOUS
  <2>2. Timely(pr[p])  BY DEF CountInv, Timed
  <2>3. Counted \in {ticks, ticks - 1}  BY DEF Counted
  <2> HIDE DEF x
  <2>4. Same(x, ticks - 1) \/ Same(x, ticks) \/ Same(x, ticks + 1)
    <3>1. Same(x, Counted) \/ Same(x, Counted + 1)  BY <2>2 DEF Timely, x
    <3>2. CASE Counted = ticks  BY <3>1, <3>2
    <3>3. CASE Counted = ticks - 1
      <4>1. Counted + 1 = ticks  BY <3>3
      <4>2. QED  BY <3>1, <3>3, <4>1
    <3>4. QED  BY <2>3, <3>2, <3>3
  <2>5. \A z \in Int : Same(x, z) => Same(y, z + (- ticks))
    BY <2>1, SameUint
  <2>6. /\ ticks - 1 + (- ticks) = -1 /\ ticks + (- ticks) = 0
        /\ ticks + 1 + (- ticks) = 1
        /\ ticks - 1 \in Int /\ ticks \in Int /\ ticks + 1 \in Int
    OBVIOUS
  <2>7. Same(y, -1) \/ Same(y, 0) \/ Same(y, 1)
    <3>1. CASE Same(x, ticks - 1)
      BY <2>5, <2>6, <3>1, Zenon
    <3>2. CASE Same(x, ticks)
      BY <2>5, <2>6, <3>2, Zenon
    <3>3. CASE Same(x, ticks + 1)
      BY <2>5, <2>6, <3>3, Zenon
    <3>4. QED  BY <2>4, <3>1, <3>2, <3>3
  <2> HIDE DEF y
  <2>8. UintRange \in Nat \ {0}  BY ClockAssumption
  <2>9. CASE Same(y, 0)
    <3>1. 0 \in 0 .. UintRange - 1  BY <2>8
    <3>2. y % UintRange = 0  BY <2>1, <2>9, <3>1, SameRest
    <3>3. QED  BY <3>2 DEF x, y
  <2>10. CASE Same(y, -1)
    <3>1. -1 = (UintRange - 1) + (-1) * UintRange /\ -1 \in Int
          /\ UintRange - 1 \in Int
      BY <2>8
    <3>2. Same(-1, UintRange - 1)  BY <3>1 DEF Same
    <3>3. Same(y, UintRange - 1)  BY <2>1, <2>10, <3>1, <3>2, SameUint
    <3>4. UintRange - 1 \in 0 .. UintRange - 1  BY <2>8
    <3>5. y % UintRange = UintRange - 1  BY <2>1, <3>3, <3>4, SameRest
    <3>6. QED  BY <3>5 DEF x, y
  <2>11. CASE Same(y, 1)
    <3>1. CASE UintRange = 1
      <4>1. y % UintRange \in 0 .. UintRange - 1  BY <2>1, Division
      <4>2. QED  BY <3>1, <4>1 DEF x, y
    <3>2. CASE UintRange # 1
      <4>1. 1 \in 0 .. UintRange - 1  BY <2>8, <3>2
      <4>2. y % UintRange = 1  BY <2>1, <2>11, <4>1, SameRest
      <4>3. QED  BY <4>2 DEF x, y
    <3>3. QED  BY <3>1, <3>2
  <2>12. QED  BY <2>7, <2>9, <2>10, <2>11
<1>12. TimesAddUp'  BY <1>11 DEF TimesAddUp
<1>13. QED  BY <1>7, <1>8, <1>10, <1>12

\* wait_stat() clears a zombie: nobody's child, and not process 1; the UNUSED
\* slot is not process 1's either.
LEMMA WaitTimes ==
  ASSUME ClockInv, TimeInv, NEW q \in Procs, Wait(q)
  PROVE  TimeInv'
<1>1. /\ pr[q].state = "ZOMBIE" /\ ticks' = ticks /\ cpu' = cpu
      /\ \A r \in Procs \ {q} : pr'[r] = pr[r]
      /\ pr'[q].state = "UNUSED" /\ pr'[q].ret = "none"
      /\ pr'[q].killed = FALSE
  BY DEF Wait, NoProc, ClockInv, TypeOK
<1>2. /\ q # 1
      /\ \A r \in Procs : pr[r].child # q
      /\ \A d \in CPUs : cpu[d].proc # q
  BY <1>1, ClockAssumption DEF ClockInv, RunInv, TimeInv, FirstInv
<1>3. \A d \in CPUs : Where(d)' = Where(d)  BY <1>1 DEF Where
<1> USE <1>1, <1>2, <1>3, TimeTypes DEF TimeInv, ProcessLabels
<1>4. FirstInv'  BY DEF FirstInv
<1>5. ForkInv'  BY DEF ForkInv
<1>6. ASSUME NEW r \in Procs \ {q} PROVE Timely(pr[r])' <=> Timely(pr[r])
  BY <1>6, TimelyStays
<1>7. CountInv'
  <2> USE DEF CountInv
  <2>1. \A r \in Procs : r # 1 /\ pr'[r].state \in Timed => Timely(pr[r])'
    BY <1>6 DEF Timed
  <2>2. ASSUME NEW d \in CPUs, Where(d)' = "ready"
        PROVE  Timely(pr[pr[cpu[d].proc].child])'
    <3>1. cpu[d].proc \in Procs \ {q} /\ pr[cpu[d].proc].child \in Procs \ {q}
      BY <2>2 DEF ForkInv
    <3>2. QED  BY <1>6, <2>2, <3>1
  <2>3. ASSUME NEW r \in Procs, pr'[r].ret = "ready"
        PROVE  Timely(pr[pr[r].child])'
    <3>1. r # q  BY <2>3
    <3>2. pr[r].child \in Procs \ {q} /\ Timely(pr[pr[r].child])
      BY <2>3, <3>1 DEF ForkInv
    <3>3. QED  BY <1>6, <3>1, <3>2
  <2>4. QED  BY <2>1, <2>2, <2>3
<1>8. TimesAddUp'  BY DEF TimesAddUp
<1>9. QED  BY <1>4, <1>5, <1>7, <1>8

\* kill() marks a process that is not process 1.
LEMMA KillTimes ==
  ASSUME ClockInv, TimeInv, NEW q \in Procs, Kill(q)
  PROVE  TimeInv'
<1>1. /\ q # 1 /\ ticks' = ticks /\ cpu' = cpu
      /\ pr[q].state \in {"SLEEPING", "RUNNABLE", "RUNNING"}
      /\ pr' = [pr EXCEPT ![q] =
           [(IF pr[q].state = "SLEEPING" THEN Woken(pr[q]) ELSE pr[q])
              EXCEPT !.killed = TRUE]]
  BY DEF Kill
<1>2. /\ \A r \in Procs \ {q} : pr'[r] = pr[r]
      /\ pr'[q].killed = TRUE
      /\ pr'[q].state = IF pr[q].state = "SLEEPING" THEN "RUNNABLE"
                        ELSE pr[q].state
      /\ pr'[q].ret = pr[q].ret /\ pr'[q].child = pr[q].child
      /\ pr'[q].ctime = pr[q].ctime /\ pr'[q].counted = pr[q].counted
  BY <1>1 DEF Woken, ClockInv, TypeOK, ProcRecord
<1>3. \A d \in CPUs : Where(d)' = Where(d)  BY <1>1 DEF Where
<1> USE <1>1, <1>2, <1>3, TimeTypes DEF TimeInv, ProcessLabels
<1>4. FirstInv'  BY DEF FirstInv
<1>5. ForkInv'  BY DEF ForkInv
<1>6. ASSUME NEW r \in Procs PROVE Timely(pr[r])' <=> Timely(pr[r])
  BY <1>6, TimelyStays
<1>7. CountInv'
  <2> USE DEF CountInv
  <2>1. \A r \in Procs : r # 1 /\ pr'[r].state \in Timed => Timely(pr[r])'
    BY <1>6 DEF Timed
  <2>2. ASSUME NEW d \in CPUs, Where(d)' = "ready"
        PROVE  Timely(pr[pr[cpu[d].proc].child])'
    <3>1. cpu[d].proc \in Procs /\ pr[cpu[d].proc].child \in Procs
      BY <2>2 DEF ForkInv
    <3>2. pr'[cpu[d].proc].child = pr[cpu[d].proc].child /\ cpu'[d] = cpu[d]
      BY <3>1
    <3>3. Timely(pr[pr[cpu[d].proc].child])  BY <2>2
    <3>4. QED  BY <1>6, <3>1, <3>2, <3>3
  <2>3. ASSUME NEW r \in Procs, pr'[r].ret = "ready"
        PROVE  Timely(pr[pr[r].child])'
    <3>1. pr[r].ret = "ready" /\ pr'[r].child = pr[r].child  BY <2>3
    <3>2. pr[r].child \in Procs /\ Timely(pr[pr[r].child])
      BY <3>1 DEF ForkInv
    <3>3. QED  BY <1>6, <3>1, <3>2
  <2>4. QED  BY <2>1, <2>2, <2>3
<1>8. TimesAddUp'  BY DEF TimesAddUp
<1>9. QED  BY <1>4, <1>5, <1>7, <1>8

\* A tick that is not counted yet: ticks++, modulo its range.
LEMMA TickCountsTimes ==
  ASSUME ClockInv, TimeInv, NEW c \in CPUs, TickCounts(c)
  PROVE  TimeInv'
<1>1. /\ cpu[c].at = "tick" /\ ticks' = (ticks + 1) % UintRange /\ pr' = pr
      /\ acquire(c, "ticks", "times") /\ "times" \in Labels
      /\ c = 0
  BY DEF TickCounts, At, Labels, WithTicks, TimeInv, CountInv
<1>2. /\ \A d \in CPUs \ {c} : cpu'[d] = cpu[d]
      /\ cpu'[c].proc = cpu[c].proc
      /\ cpu'[c].at = "times" /\ cpu'[c].ret = cpu[c].ret
  BY <1>1, Acquires DEF Is, ClockInv
<1>3. \A d \in CPUs : Where(d)' = Where(d) /\ cpu'[d].proc = cpu[d].proc
  BY <1>1, <1>2 DEF Where, Handler
<1> USE <1>1, <1>2, <1>3, TimeTypes DEF TimeInv, ProcessLabels
<1>4. FirstInv'  BY DEF FirstInv
<1>5. ForkInv'  BY DEF ForkInv
<1>6. ticks' \in Int  BY Division
<1>7. Same(Counted, Counted') /\ Same(Counted + 1, Counted' + 1)
      /\ Counted' \in Int
  <2>1. Counted = ticks /\ Counted' = ticks' - 1  BY DEF Counted
  <2>2. ticks + 1 \in Int  OBVIOUS
  <2>3. Same(ticks', ticks + 1)  BY <2>2, SameUint
  <2>4. Same(ticks + 1, ticks')  BY <1>6, <2>2, <2>3, SameUint
  <2>5. PICK i \in Int : ticks + 1 = ticks' + i * UintRange
    BY <2>4 DEF Same
  <2>6. i * UintRange \in Int  BY ClockAssumption
  <2>7. ticks = ticks' - 1 + i * UintRange  BY <1>6, <2>5, <2>6
  <2>8. Same(ticks, ticks' - 1)  BY <2>7 DEF Same
  <2>9. ticks' - 1 + 1 = ticks'  BY <1>6
  <2>10. QED  BY <1>6, <2>1, <2>4, <2>8, <2>9
<1>8. ASSUME NEW r \in Procs, Timely(pr[r]) PROVE Timely(pr[r])'
  <2> DEFINE x == pr[r].counted + pr[r].ctime
  <2>1. x \in Int /\ Counted + 1 \in Int /\ Counted' + 1 \in Int
    BY <1>7
  <2> HIDE DEF x
  <2>2. CASE Same(x, Counted)
    <3>1. Same(x, Counted')  BY <1>7, <2>1, <2>2, SameUint
    <3>2. QED  BY <3>1 DEF Timely, Same, x
  <2>3. CASE Same(x, Counted + 1)
    <3>1. Same(x, Counted' + 1)  BY <1>7, <2>1, <2>3, SameUint
    <3>2. QED  BY <3>1 DEF Timely, Same, x
  <2>4. QED  BY <1>8, <2>2, <2>3 DEF Timely, x
<1>9. CountInv'
  <2> USE DEF CountInv
  <2>1. \A r \in Procs : r # 1 /\ pr'[r].state \in Timed => Timely(pr[r])'
    BY <1>8
  <2>2. ASSUME NEW d \in CPUs, Where(d)' = "ready"
        PROVE  Timely(pr[pr[cpu[d].proc].child])'
    <3>1. cpu[d].proc \in Procs /\ pr[cpu[d].proc].child \in Procs
      BY <2>2 DEF ForkInv
    <3>2. Timely(pr[pr[cpu[d].proc].child])  BY <2>2
    <3>3. QED  BY <1>8, <3>1, <3>2
  <2>3. ASSUME NEW r \in Procs, pr'[r].ret = "ready"
        PROVE  Timely(pr[pr[r].child])'
    <3>1. pr[r].child \in Procs /\ Timely(pr[pr[r].child])
      BY <2>3 DEF ForkInv
    <3>2. QED  BY <1>8, <3>1
  <2>4. QED  BY <2>1, <2>2, <2>3
<1>10. TimesAddUp'  BY DEF TimesAddUp
<1>11. QED  BY <1>4, <1>5, <1>9, <1>10

\* update_times() counts it for every process that has its ctime, and for
\* every EMBRYO.
LEMMA update_timesTimes ==
  ASSUME ClockInv, TimeInv, NEW c \in CPUs, update_times(c)
  PROVE  TimeInv'
<1>1. cpu[c].at = "times" /\ ticks' = ticks /\ c = 0
  BY DEF update_times, At, TimeInv, CountInv
<1>2. /\ \A d \in CPUs \ {c} : cpu'[d] = cpu[d]
      /\ cpu'[c].proc = cpu[c].proc
      /\ cpu'[c].at = "wake" /\ cpu'[c].ret = cpu[c].ret
  BY DEF update_times, Goto, ClockInv, TypeOK, CPURecord
<1>3. \A d \in CPUs : Where(d)' = Where(d) /\ cpu'[d].proc = cpu[d].proc
  BY <1>1, <1>2 DEF Where, Handler
<1>4. ASSUME NEW r \in Procs
      PROVE  /\ pr'[r].state = pr[r].state /\ pr'[r].killed = pr[r].killed
             /\ pr'[r].ret = pr[r].ret /\ pr'[r].child = pr[r].child
             /\ pr'[r].ctime = pr[r].ctime /\ pr'[r].ttime = pr[r].ttime
             /\ pr'[r].counted =
                  IF r # 1 /\ pr[r].state \in Timed \cup {"EMBRYO"}
                  THEN (pr[r].counted + 1) % UintRange ELSE pr[r].counted
  <2>1. pr'[r] = IF r # 1 /\ pr[r].state \in Timed \cup {"EMBRYO"}
                 THEN [pr[r] EXCEPT !.counted = (@ + 1) % UintRange]
                 ELSE pr[r]
    BY <1>4 DEF update_times
  <2>2. pr[r] \in ProcRecord  BY <1>4 DEF ClockInv, TypeOK
  <2>3. QED  BY <2>1, <2>2 DEF ProcRecord
<1> USE <1>1, <1>2, <1>3, <1>4, TimeTypes DEF TimeInv, ProcessLabels
<1>5. FirstInv'  BY DEF FirstInv
<1>6. ForkInv'  BY DEF ForkInv
<1>7. Counted' = Counted + 1  BY DEF Counted
<1>8. ASSUME NEW r \in Procs, r # 1, pr[r].state \in Timed \cup {"EMBRYO"},
             Timely(pr[r])
      PROVE  Timely(pr[r])'
  <2> DEFINE n == pr[r].counted
             t == pr[r].ctime
             m == (n + 1) % UintRange
  <2>1. n + 1 \in Int /\ m \in Int /\ t \in Int  BY Division
  <2>2. pr'[r].counted = m /\ pr'[r].ctime = t  BY <1>4, <1>8
  <2>3. Same(m, n + 1)  BY <2>1, SameUint
  <2>4. n \in Int  OBVIOUS
  <2> HIDE DEF n, t, m
  <2>5. ASSUME NEW y \in Int, Same(n + t, y) PROVE Same(m + t, y + 1)
    <3>1. PICK i \in Int : m = n + 1 + i * UintRange  BY <2>3 DEF Same
    <3>2. PICK j \in Int : n + t = y + j * UintRange  BY <2>5 DEF Same
    <3>3. i + j \in Int /\ m + t = y + 1 + (i + j) * UintRange
      BY <2>1, <2>4, <3>1, <3>2, ClockAssumption
    <3>4. QED  BY <3>3 DEF Same
  <2>6. CASE Same(n + t, Counted)
    <3>1. Same(m + t, Counted + 1)  BY <2>5, <2>6
    <3>2. QED  BY <1>7, <2>2, <3>1 DEF Timely, Same
  <2>7. CASE Same(n + t, Counted + 1)
    <3>1. Counted + 1 \in Int  OBVIOUS
    <3>2. Same(m + t, Counted + 1 + 1)  BY <2>5, <2>7, <3>1
    <3>3. QED  BY <1>7, <2>2, <3>2 DEF Timely, Same
  <2>8. QED  BY <1>8, <2>6, <2>7 DEF Timely, n, t
<1>9. CountInv'
  <2> USE DEF CountInv
  <2>1. \A d \in CPUs : cpu'[d].at \in {"tick", "times", "wake"} => d = 0
    OBVIOUS
  <2>2. \A r \in Procs : r # 1 /\ pr'[r].state \in Timed => Timely(pr[r])'
    BY <1>8
  <2>3. ASSUME NEW r \in Procs, pr[r].child # None, Timely(pr[pr[r].child])
        PROVE  Timely(pr[pr[r].child])'
    <3>1. /\ pr[r].child \in Procs /\ pr[pr[r].child].state = "EMBRYO"
          /\ pr[r].child # 1
      BY <2>3 DEF ClockInv, RunInv, FirstInv
    <3>2. pr'[r].child = pr[r].child  BY <2>3
    <3>3. QED  BY <1>8, <2>3, <3>1, <3>2
  <2>4. ASSUME NEW d \in CPUs, Where(d)' = "ready"
        PROVE  Timely(pr[pr[cpu[d].proc].child])'
    <3>1. cpu[d].proc \in Procs /\ pr[cpu[d].proc].child # None
      BY <2>4 DEF ForkInv
    <3>2. Timely(pr[pr[cpu[d].proc].child])  BY <2>4
    <3>3. QED  BY <2>3, <3>1, <3>2
  <2>5. ASSUME NEW r \in Procs, pr'[r].ret = "ready"
        PROVE  Timely(pr[pr[r].child])'
    <3>1. pr[r].child # None /\ Timely(pr[pr[r].child])
      BY <2>5 DEF ForkInv
    <3>2. QED  BY <2>3, <3>1
  <2>6. QED  BY <2>1, <2>2, <2>4, <2>5
<1>10. TimesAddUp'  BY DEF TimesAddUp, Timed
<1>11. QED  BY <1>5, <1>6, <1>9, <1>10

\* Only process 1 exists, and nobody asks for its times.
LEMMA TimeInit == Init => TimeInv
<1> SUFFICES ASSUME Init PROVE TimeInv
  OBVIOUS
<1>1. \A p \in Procs : /\ pr[p].state = IF p = 1 THEN "RUNNABLE" ELSE "UNUSED"
                       /\ pr[p].killed = FALSE /\ pr[p].ret = "none"
  BY DEF Init, NoProc
<1>2. \A c \in CPUs : Where(c) = "sti" /\ cpu[c].at = "sti"
  BY DEF Init, Where, Handler
<1>3. QED
  BY <1>1, <1>2 DEF TimeInv, FirstInv, ForkInv, CountInv, TimesAddUp, Timed

\* Every step keeps the times.
LEMMA TimeStep == ClockInv /\ TimeInv /\ [Next]_vars => TimeInv'
<1> SUFFICES ASSUME ClockInv, TimeInv, [Next]_vars
             PROVE  TimeInv'
  OBVIOUS
<1>1. ASSUME NEW c \in CPUs, CPUStep(c) PROVE TimeInv'
  <2>1. CASE \/ Sti(c) \/ Look(c) \/ SchedulerReleases(c) \/ Forkret(c)
             \/ \E p \in Procs : Pick(c, p)
    BY <2>1, StiTimes, LookTimes, SchedulerReleasesTimes, ForkretTimes,
       PickTimes
  <2>2. CASE \/ NapLocks(c) \/ Sleeps(c) \/ NapUnblocks(c) \/ NapRelocks(c)
             \/ NapOver(c) \/ \E n \in Naps : StartNap(c, n)
    BY <2>2, NapLocksTimes, NapTestsTimes, NapBlocksTimes, NapUnblocksTimes,
       NapRelocksTimes, NapOverTimes, StartNapTimes DEF Sleeps
  <2>3. CASE \/ ForkCtime(c) \/ ForkReady(c) \/ Exit(c)
             \/ \E p \in Procs : Fork(c, p)
    BY <2>3, ForkCtimeTimes, ForkReadyTimes, ExitTimes, ForkTimes
  <2>4. CASE \/ Interrupt(c) \/ TickCounts(c) \/ update_times(c)
             \/ TickWakes(c) \/ Yield(c) \/ Yielded(c) \/ Iret(c)
    BY <2>4, InterruptTimes, TickCountsTimes, update_timesTimes,
       TickWakesTimes, YieldTimes, YieldedTimes, IretTimes
  <2>5. QED  BY <1>1, <2>1, <2>2, <2>3, <2>4 DEF CPUStep
<1>2. ASSUME NEW p \in Procs, Wait(p) \/ Kill(p) PROVE TimeInv'
  BY <1>2, WaitTimes, KillTimes
<1>3. CASE UNCHANGED vars
  BY <1>3
  DEF vars, TimeInv, FirstInv, ForkInv, CountInv, TimesAddUp, Timely, Counted,
      Where
<1>4. QED  BY <1>1, <1>2, <1>3 DEF Next

\* The ticks from ctime to ttime are counted once each but for one, for any
\* number of CPUs and processes and any width of ticks, though ctime and ttime
\* are read without tickslock.  Those before the process was RUNNABLE, which no
\* field of struct proc has and wait_stat() does not report, count as well: the
\* three times it reports are less than the life by as many.
THEOREM TicksAreCounted == Spec => []TimesAddUp
<1>1. TimeInv => TimesAddUp  BY DEF TimeInv
<1>2. QED  BY <1>1, Invariance, TimeInit, TimeStep, PTL DEF Spec
==============================================================================
