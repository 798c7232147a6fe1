-------------------------------- MODULE Priority --------------------------------
(***************************************************************************)
(* The build with SCHEDULER=PRIORITY: the scheduler of proc.c that looks for *)
(* the highest priority, the clock tick, and the times that wait2 reports.   *)
(* A hold of ptable.lock is one step; that the scheduler takes tickslock     *)
(* inside it, which can deadlock with the tick, is in module LockOrder.      *)
(***************************************************************************)
EXTENDS Integers, FiniteSets, FiniteSetsExt

CONSTANTS NPROC,
          NCPU,         \* the CPUs that run processes, next to the one that counts ticks
          Priorities,   \* arguments of set_priority, positive
          SCALE,        \* 10000 in set_max_time
          UINT,         \* timeslice is a number modulo UINT
          MaxTicks      \* bound on the clock

Slots == 1 .. NPROC
cpus == 1 .. NCPU

VARIABLES
  ticks, ticking,    \* the clock; CPU 0 holds tickslock, before countprocs
  proc,              \* the fields of every slot
  cur, at,           \* c->proc, and where the scan of each CPU goes on
  embryo             \* history: ticks counted before a process was RUNNABLE

vars == <<ticks, ticking, proc, cur, at, embryo>>

Unused == [state |-> "UNUSED", pid |-> FALSE, priority |-> 0, init_time |-> 0, max_time |-> 0,
           timeslice |-> 0, ctime |-> 0, times |-> 0]

Init ==
  /\ ticks = 0 /\ ticking = FALSE
  /\ proc = [p \in Slots |-> IF p # 1 THEN Unused ELSE
               [Unused EXCEPT !.state = "RUNNABLE", !.pid = TRUE, !.priority = 1]]
  /\ cur = [c \in cpus |-> 0] /\ at = [c \in cpus |-> 0]
  /\ embryo = [p \in Slots |-> 0]
-----------------------------------------------------------------------------
Is(p, s) == proc[p].state = s
Live == {p \in Slots : proc[p].pid}
Sum(f) == MapThenSumSet(LAMBDA p : proc[p][f], Live)

\* set_max_time, at the start of a scan.
max_time(c, p) ==
  IF at[c] = 0 /\ p \in Live THEN (SCALE * proc[p].priority) \div Sum("priority")
  ELSE proc[p].max_time

Over(c, p) == (ticks - proc[p].init_time) * 10 >= max_time(c, p)

\* The slots where the scan of c would stop, and those it passes over as used up.
Eligible(c) == {p \in Slots : p > at[c] /\ Is(p, "RUNNABLE") /\ ~Over(c, p)}
Passed(c) == {p \in Slots : /\ p > at[c] /\ Over(c, p)
                            /\ Eligible(c) # {} => p < Min(Eligible(c))}

\* The first process of the highest priority, the one found if it ties.
HighP(c) ==
  LET f == Min(Eligible(c))
      higher == {p \in Slots : Is(p, "RUNNABLE") /\ proc[p].priority > proc[f].priority}
      best == {p \in higher : \A q \in higher : proc[q].priority <= proc[p].priority} IN
  IF higher = {} THEN f ELSE Min(best)

Scanned(c, p) ==
  [proc[p] EXCEPT !.max_time = max_time(c, p),
                  !.init_time = IF p \in Passed(c) THEN ticks ELSE @]

\* The scan with ptable.lock: to the swtch, or to the end of the table.
scan(c) ==
  /\ cur[c] = 0 /\ ~ticking
  /\ IF Eligible(c) = {}
     THEN /\ proc' = [p \in Slots |-> Scanned(c, p)]
          /\ at' = [at EXCEPT ![c] = 0]
          /\ UNCHANGED cur
     ELSE /\ proc' = [p \in Slots |-> IF p = HighP(c) THEN [Scanned(c, p) EXCEPT !.state = "RUNNING"]
                                      ELSE Scanned(c, p)]
          /\ cur' = [cur EXCEPT ![c] = HighP(c)]
          /\ at' = [at EXCEPT ![c] = HighP(c)]
  /\ UNCHANGED <<ticks, ticking, embryo>>

\* The process on CPU c goes into state s; the scan goes on behind it.
Leave(c, s) ==
  /\ proc' = [proc EXCEPT ![cur[c]].state = s]
  /\ cur' = [cur EXCEPT ![c] = 0]
  /\ UNCHANGED <<ticks, ticking, at, embryo>>

sleep(c) == cur[c] # 0 /\ Leave(c, "SLEEPING")
exit(c) == cur[c] > 1 /\ Leave(c, "ZOMBIE")

\* trap calls yield for the timer interrupt of every CPU.
yield(c) ==
  LET p == cur[c]   left == (proc[p].timeslice - 1) % UINT IN
  /\ p # 0
  /\ proc' = [proc EXCEPT ![p].timeslice = left, ![p].state = IF left = 0 THEN "RUNNABLE" ELSE @]
  /\ cur' = [cur EXCEPT ![c] = IF left = 0 THEN 0 ELSE @]
  /\ UNCHANGED <<ticks, ticking, at, embryo>>

wakeup(p) ==
  /\ Is(p, "SLEEPING")
  /\ proc' = [proc EXCEPT ![p].state = "RUNNABLE"]
  /\ UNCHANGED <<ticks, ticking, cur, at, embryo>>

\* The timer interrupt of CPU 0: ticks++ under tickslock ...
tick ==
  /\ ~ticking /\ ticks < MaxTicks
  /\ ticks' = ticks + 1 /\ ticking' = TRUE
  /\ UNCHANGED <<proc, cur, at, embryo>>

\* stime, retime and rutime are kept as their sum.
Counted(p) ==
  [proc[p] EXCEPT !.times =
     IF proc[p].state \in {"RUNNABLE", "RUNNING", "SLEEPING"} THEN @ + 1 ELSE @]

\* ... and countprocs.
countprocs ==
  /\ ticking /\ ticking' = FALSE
  /\ proc' = [p \in Slots |-> Counted(p)]
  /\ embryo' = [p \in Slots |-> IF Is(p, "EMBRYO") THEN embryo[p] + 1 ELSE embryo[p]]
  /\ UNCHANGED <<ticks, cur, at>>

\* fork: allocproc with the lock, which curr_time() makes wait for a tick; the
\* times, without it; and the child becomes RUNNABLE.
allocproc(c) ==
  LET free == {q \in Slots : Is(q, "UNUSED")} IN
  /\ cur[c] # 0 /\ free # {} /\ ~ticking
  /\ \A q \in Slots : ~Is(q, "EMBRYO")
  /\ proc' = [proc EXCEPT ![Min(free)] =
                [@ EXCEPT !.state = "EMBRYO", !.pid = TRUE, !.priority = 1, !.init_time = ticks,
                          !.ctime = -1]]
  /\ UNCHANGED <<ticks, ticking, cur, at, embryo>>

TimesReset(r) == [r EXCEPT !.ctime = ticks, !.times = 0]

setTimes(p) ==
  /\ Is(p, "EMBRYO") /\ proc[p].ctime = -1
  /\ proc' = [proc EXCEPT ![p] = TimesReset(@)]
  /\ embryo' = [embryo EXCEPT ![p] = 0]
  /\ UNCHANGED <<ticks, ticking, cur, at>>

forkDone(p) ==
  /\ Is(p, "EMBRYO") /\ proc[p].ctime # -1
  /\ proc' = [proc EXCEPT ![p].state = "RUNNABLE"]
  /\ UNCHANGED <<ticks, ticking, cur, at, embryo>>

\* The two ways to free a zombie: wait leaves the times, wait2 reports and
\* clears them.
wait(p) ==
  /\ Is(p, "ZOMBIE")
  /\ proc' = [proc EXCEPT ![p] = [@ EXCEPT !.state = "UNUSED", !.pid = FALSE, !.ctime = 0]]
  /\ embryo' = [embryo EXCEPT ![p] = 0]
  /\ UNCHANGED <<ticks, ticking, cur, at>>

wait2(p) ==
  /\ Is(p, "ZOMBIE")
  /\ proc' = [proc EXCEPT ![p] = [@ EXCEPT !.state = "UNUSED", !.pid = FALSE, !.ctime = 0, !.times = 0]]
  /\ embryo' = [embryo EXCEPT ![p] = 0]
  /\ UNCHANGED <<ticks, ticking, cur, at>>

set_priority(p) ==
  /\ proc[p].pid
  /\ \E n \in Priorities : proc' = [proc EXCEPT ![p].priority = n]
  /\ UNCHANGED <<ticks, ticking, cur, at, embryo>>

Next ==
  \/ tick \/ countprocs
  \/ \E c \in cpus : scan(c) \/ sleep(c) \/ exit(c) \/ yield(c) \/ allocproc(c)
  \/ \E p \in Slots : wakeup(p) \/ setTimes(p) \/ forkDone(p) \/ wait(p) \/ wait2(p) \/ set_priority(p)

Spec == Init /\ [][Next]_vars
-----------------------------------------------------------------------------
=============================================================================
