------------------------------- MODULE Lottery -------------------------------
(***************************************************************************)
(* The lottery of scheduler(): the tickets of the processes under the      *)
(* three policies, the draw, and what yield(), sleep(), policy() and       *)
(* priority() do to the tickets.                                           *)
(*                                                                         *)
(* Process states are reduced to what the lottery sees: RUNNABLE, RUNNING, *)
(* or neither.  scheduler(), yield() and sleep() hold ptable.lock; policy() *)
(* holds none, and one step of it, or of a scan that it may disturb, is one *)
(* access to a field of a slot.                                            *)
(***************************************************************************)
EXTENDS Integers, FiniteSets, FiniteSetsExt

CONSTANTS
  NPROC,       \* slots of the table
  CPUs,
  Uniform,     \* tickets under policy 0 (10 in the code)
  Priority,    \* priority policy 1 gives to all (10)
  Dynamic,     \* tickets policy 2 starts with (20)
  Bonus,       \* tickets a sleeping process gains under policy 2 (10)
  Enough,      \* tickets from which on it gains none (100)
  Priorities,  \* arguments of priority(), of any sign
  Policies,    \* arguments of policy(), in and out of range
  None

Slots == 1 .. NPROC

\* At least two tickets: a policy() may come between yield()'s test and its --.
ASSUME LotteryAssumption ==
  /\ NPROC \in Nat \ {0}
  /\ {Uniform, Priority, Dynamic} \subseteq Nat \ {0, 1}
  /\ {Bonus, Enough} \subseteq Nat \ {0}
  /\ Priorities \cup Policies \subseteq Int
  /\ None \notin CPUs \cup Slots

VARIABLES
  state,      \* slot -> RUNNABLE, RUNNING or AWAY
  ntickets, priority,   \* fields of struct proc
  npolicy,    \* the policy asked for last
  \* The processors and ptable.lock.
  proc,       \* cpu->proc
  mode,       \* idle: in scheduler(), no lock held; uniform, count: scanning the
              \* table; draw: tickets counted; run: a process runs; decay, bonus:
              \* in yield() or sleep(), about to change the tickets
  none,       \* scheduler()'s local ntickets is 0 since the last round
  lock,
  total,      \* scheduler()'s ntickets within a round
  scan,       \* the slot that the holder of the lock visits next
  read,       \* the tickets that the holder of the lock has tested
  \* Processes inside policy(), and history.
  slot,       \* process -> the slot its policy() is at, 0 outside
  at,         \* process -> visit, test or give: what it does there next
  arg,        \* process -> the argument of its policy()
  lost,       \* policy() has called something that is no policy
  raced,      \* policy() has written tickets since the count began
  overtook    \* slots whose process called priority() inside policy()'s window

procVars == <<state, ntickets, priority, npolicy>>
policyVars == <<slot, at, arg, lost, overtook>>
vars == <<procVars, proc, mode, none, lock, total, scan, read, policyVars, raced>>

Runnable == {p \in Slots : state[p] = "RUNNABLE"}

\* The tickets of the processes in ps.
Tickets(ps) == MapThenSumSet(LAMBDA p : ntickets[p], ps)

\* The values PRNG(bound) may return: a remainder of a number that is not
\* negative, by a bound that may be.
PRNG(bound) ==
  IF bound = 0 THEN {0} ELSE 0 .. (IF bound > 0 THEN bound ELSE - bound) - 1

\* The tickets of the RUNNABLE processes up to slot p.
UpTo(p) == Tickets({q \in Runnable : q <= p})

\* Mutant of Winners: a process wins one ticket too many.
WinnersTooMany(t) ==
  {p \in Runnable : UpTo(p) >= t /\ \A q \in Runnable : q < p => UpTo(q) < t}

\* The scan of the table for ticket t: the first process at which the tickets
\* of those up to it exceed t, if there is one.
Winners(t) ==
  {p \in Runnable : UpTo(p) > t /\ \A q \in Runnable : q < p => UpTo(q) <= t}

-----------------------------------------------------------------------------
(***************************************************************************)
(* scheduler()                                                             *)
(***************************************************************************)

\* A round begins; a CPU whose last count was zero falls back on the uniform
\* policy.
Round(c) ==
  /\ mode[c] = "idle" /\ lock = None
  /\ lock' = c
  /\ mode' = [mode EXCEPT ![c] = IF none[c] THEN "uniform" ELSE "count"]
  /\ scan' = 1 /\ raced' = FALSE
  /\ UNCHANGED <<procVars, proc, none, total, read, policyVars>>

\* uniform_time_dist() and getTickets(): the next slot.  Only the first writes.
Count(c) ==
  LET tickets == IF mode[c] = "uniform" THEN Uniform ELSE ntickets[scan] IN
  /\ mode[c] \in {"uniform", "count"}
  /\ ntickets' = [ntickets EXCEPT ![scan] = tickets]
  /\ total' = IF scan \in Runnable THEN total + tickets ELSE total
  /\ mode' = IF scan = NPROC THEN [mode EXCEPT ![c] = "draw"] ELSE mode
  /\ scan' = IF scan = NPROC THEN 0 ELSE scan + 1
  /\ UNCHANGED <<state, priority, npolicy, proc, none, lock, read, policyVars, raced>>

\* The round is over: ptable.lock goes to the process, or is released.
RoundEnds(c, to) ==
  /\ mode' = [mode EXCEPT ![c] = to]
  /\ none' = [none EXCEPT ![c] = total = 0]
  /\ lock' = None /\ total' = 0
  /\ UNCHANGED <<ntickets, priority, npolicy, scan, read, policyVars, raced>>

\* The process that holds ticket t runs.
Draw(c, t) ==
  /\ mode[c] = "draw"
  /\ \E p \in Winners(t) :
       /\ state' = [state EXCEPT ![p] = "RUNNING"]
       /\ proc' = [proc EXCEPT ![c] = p]
  /\ RoundEnds(c, "run")

\* Nobody holds ticket t.
DrawNone(c, t) ==
  /\ mode[c] = "draw"
  /\ Winners(t) = {}
  /\ RoundEnds(c, "idle")
  /\ UNCHANGED <<state, proc>>

-----------------------------------------------------------------------------
(***************************************************************************)
(* What a running process does.                                            *)
(***************************************************************************)

\* acquire(&ptable.lock) and a new state; the tickets change next, if they do.
LeaveCPU(c, s, changes, to) ==
  LET p == proc[c] IN
  /\ mode[c] = "run" /\ lock = None
  /\ state' = [state EXCEPT ![p] = s]
  /\ IF changes
     THEN /\ mode' = [mode EXCEPT ![c] = to]
          /\ lock' = c /\ read' = ntickets[p]
          /\ UNCHANGED proc
     ELSE /\ mode' = [mode EXCEPT ![c] = "idle"]
          /\ proc' = [proc EXCEPT ![c] = None]
          /\ UNCHANGED <<lock, read>>
  /\ UNCHANGED <<ntickets, priority, npolicy, none, total, scan, policyVars, raced>>

\* Mutant of Yield: the last ticket goes too.
YieldLast(c) ==
  LeaveCPU(c, "RUNNABLE", npolicy = 2 /\ ntickets[proc[c]] > 0, "decay")

\* yield(), also in the middle of policy().
Yield(c) ==
  LeaveCPU(c, "RUNNABLE", npolicy = 2 /\ ntickets[proc[c]] > 1, "decay")

\* sleep()
Sleep(c) ==
  /\ LeaveCPU(c, "AWAY", npolicy = 2 /\ ntickets[proc[c]] < Enough, "bonus")
  /\ slot[proc[c]] = 0

\* exit()
Exit(c) == LeaveCPU(c, "AWAY", FALSE, "idle") /\ slot[proc[c]] = 0

\* ntickets-- and ntickets += 10, from the value that was tested or read again,
\* and sched(): a policy() in between is undone or comes first.
ChangeTickets(c) ==
  LET p == proc[c]
      by == IF mode[c] = "decay" THEN - 1 ELSE Bonus IN
  /\ mode[c] \in {"decay", "bonus"}
  /\ \E n \in {read, ntickets[p]} : ntickets' = [ntickets EXCEPT ![p] = n + by]
  /\ mode' = [mode EXCEPT ![c] = "idle"]
  /\ proc' = [proc EXCEPT ![c] = None]
  /\ lock' = None /\ read' = 0
  /\ UNCHANGED <<state, priority, npolicy, none, total, scan, policyVars, raced>>

\* wakeup(), or fork(), whose child takes the slot with the tickets it finds.
Wake(p) ==
  /\ lock = None
  /\ state[p] = "AWAY"
  /\ state' = [state EXCEPT ![p] = "RUNNABLE"]
  /\ UNCHANGED <<ntickets, priority, npolicy, proc, mode, none, lock, total, scan, read,
                 policyVars, raced>>

\* Some policy() has set the priority of slot q and may still read it.
Window(q) == \E r \in Slots : slot[r] = q /\ arg[r] = 1 /\ at[r] # "visit"

\* priority(pr).  What it sets is read by nobody but a policy() in its window,
\* which makes tickets of it; one ticket may still be lost to a decay.
SetPriority(c, pr) ==
  LET p == proc[c] IN
  /\ mode[c] = "run"
  /\ slot[p] = 0
  /\ npolicy = 1
  /\ priority' = [priority EXCEPT ![p] = pr]
  /\ overtook' = IF Window(p) /\ pr < 2 THEN overtook \cup {p} ELSE overtook
  /\ UNCHANGED <<state, ntickets, npolicy, proc, mode, none, lock, total, scan, read,
                 slot, at, arg, lost, raced>>

\* policy(pl) begins.  Nothing tests the range of pl: the null entry of policies[]
\* and what lies around the table are called like functions.
Policy(c, pl) ==
  LET p == proc[c] IN
  /\ mode[c] = "run"
  /\ slot[p] = 0
  /\ npolicy' = pl
  /\ IF pl \in 0 .. 2
     THEN /\ slot' = [slot EXCEPT ![p] = 1]
          /\ arg' = [arg EXCEPT ![p] = pl]
          /\ UNCHANGED lost
     ELSE lost' = TRUE /\ UNCHANGED <<slot, arg>>
  /\ UNCHANGED <<state, ntickets, priority, proc, mode, none, lock, total, scan, read,
                 at, raced, overtook>>

\* On to the next slot.
Advanced(p) ==
  LET q == slot[p] IN
  /\ slot' = [slot EXCEPT ![p] = IF q = NPROC THEN 0 ELSE q + 1]
  /\ at' = [at EXCEPT ![p] = "visit"]
  /\ arg' = IF q = NPROC THEN [arg EXCEPT ![p] = 0] ELSE arg

\* policy() writes tickets, without a lock.
Give(q, n) ==
  /\ ntickets' = [ntickets EXCEPT ![q] = n]
  /\ raced' = (lock # None)

PolicyRest == <<state, npolicy, proc, mode, none, lock, total, scan, read, lost, overtook>>

\* The first write to a slot: to the tickets, or by priority_scheduling() to the
\* priority.  dynamic_tickets_allc() is done with the slot.
PolicyVisit(c) ==
  LET p == proc[c]
      q == slot[p] IN
  /\ mode[c] = "run" /\ q # 0 /\ at[p] = "visit"
  /\ IF arg[p] = 1
     THEN priority' = [priority EXCEPT ![q] = Priority] /\ UNCHANGED <<ntickets, raced>>
     ELSE Give(q, IF arg[p] = 0 THEN Uniform ELSE Dynamic) /\ UNCHANGED priority
  /\ IF arg[p] = 2 THEN Advanced(p)
     ELSE at' = [at EXCEPT ![p] = "test"] /\ UNCHANGED <<slot, arg>>
  /\ UNCHANGED PolicyRest

\* if (p->state != RUNNABLE) continue
PolicyTest(c) ==
  LET p == proc[c] IN
  /\ mode[c] = "run" /\ slot[p] # 0 /\ at[p] = "test"
  /\ IF slot[p] \in Runnable
     THEN at' = [at EXCEPT ![p] = "give"] /\ UNCHANGED <<slot, arg>>
     ELSE Advanced(p)
  /\ UNCHANGED <<PolicyRest, ntickets, priority, raced>>

\* What the second write gives: p->priority as set before, if the compiler knows
\* it, or as it is in memory now.
Given(pl, q) == IF pl = 0 THEN {Uniform} ELSE {Priority, priority[q]}

\* The second write to a slot that was RUNNABLE.
PolicyGive(c) ==
  LET p == proc[c]
      q == slot[p] IN
  /\ mode[c] = "run" /\ q # 0 /\ at[p] = "give"
  /\ \E n \in Given(arg[p], q) : Give(q, n)
  /\ Advanced(p)
  /\ UNCHANGED <<PolicyRest, priority>>

-----------------------------------------------------------------------------
\* Static storage is zero; the first process is in slot 1.
Init ==
  /\ state = [p \in Slots |-> IF p = 1 THEN "RUNNABLE" ELSE "AWAY"]
  /\ ntickets = [p \in Slots |-> 0]
  /\ priority = [p \in Slots |-> 0]
  /\ npolicy = 0
  /\ proc = [c \in CPUs |-> None]
  /\ mode = [c \in CPUs |-> "idle"]
  /\ none = [c \in CPUs |-> TRUE]
  /\ lock = None /\ total = 0 /\ scan = 0 /\ read = 0
  /\ slot = [p \in Slots |-> 0]
  /\ at = [p \in Slots |-> "visit"]
  /\ arg = [p \in Slots |-> 0]
  /\ lost = FALSE /\ raced = FALSE /\ overtook = {}

SchedulerStep(c) ==
  \/ Round(c) \/ Count(c)
  \/ \E t \in PRNG(total) : Draw(c, t) \/ DrawNone(c, t)

PolicyStep(c) ==
  \/ PolicyVisit(c) \/ PolicyTest(c) \/ PolicyGive(c)
  \/ \E pl \in Policies : Policy(c, pl)

ProcessStep(c) ==
  \/ Yield(c) \/ Sleep(c) \/ Exit(c) \/ ChangeTickets(c) \/ PolicyStep(c)
  \/ \E pr \in Priorities : SetPriority(c, pr)

\* What runs after a call of no function is not modelled.
Lost == lost /\ UNCHANGED vars

Next ==
  \/ /\ ~lost
     /\ \/ \E c \in CPUs : SchedulerStep(c) \/ ProcessStep(c)
        \/ \E p \in Slots : Wake(p)
  \/ Lost

Spec == Init /\ [][Next]_vars
-----------------------------------------------------------------------------
(***************************************************************************)
(* Properties.                                                             *)
(***************************************************************************)

\* A draw is fair: whatever policies were set, reset and decayed before, every
\* RUNNABLE process wins exactly as many of the drawn numbers as it holds
\* tickets, and no number is without a winner, unless policy() has interfered
\* with the round or a process has set its own tickets (overtook).
DrawIsFair ==
  \A c \in CPUs : mode[c] = "draw" /\ ~raced /\ Runnable \cap overtook = {} =>
    /\ \A p \in Runnable :
         Cardinality({t \in PRNG(total) : p \in Winners(t)}) = ntickets[p]
    /\ Runnable # {} =>
         \A t \in PRNG(total) : Cardinality(Winners(t)) = 1

\* No RUNNABLE process is without a ticket when one is drawn: neither yield()'s
\* decay nor a policy() that interferes with it, with the count or with another
\* policy() can starve a process.  The one way to be without is a priority() of
\* less than two that the process itself, or one that had the slot before,
\* called while a policy(1) was between p->priority = 10 and its use.
NobodyStarves ==
  \A c \in CPUs : mode[c] = "draw" =>
    \A p \in Runnable : ntickets[p] > 0 \/ p \in overtook

=============================================================================
