------------------------------ MODULE ProcTable ------------------------------
(***************************************************************************)
(* The process table of proc.c: creation (fork/allocproc), exit, wait,     *)
(* kill, sleep/wakeup, and the hand-off of ptable.lock between a process   *)
(* and the scheduler of its CPU across swtch.                              *)
(*                                                                         *)
(* A critical section of ptable.lock that does not context-switch is one   *)
(* step.  One that does is cut at every swtch: the lock is then held by    *)
(* the CPU between the steps, on which stack it runs is `on', and what     *)
(* another CPU may do meanwhile is explored.  Code outside the lock        *)
(* (kalloc, copyuvm, the unlocked stores of fork) is a step of its own.    *)
(*                                                                         *)
(* Pointers to a struct proc are slot numbers 1..NPROC and 0 is the null   *)
(* pointer.  Time slices, tickets and tick counters are in other modules.  *)
(***************************************************************************)
EXTENDS Integers

CONSTANTS NPROC,     \* entries of ptable.proc
          NCPU,      \* processors, numbered 1..NCPU
          NCHAN,     \* sleep channels that are not process addresses
          MaxPid,    \* bound: no call of fork once pid MaxPid is given out
          KillPids   \* the pids that user programs pass to kill()

ASSUME NPROCAssumption == NPROC \in Nat \ {0}
ASSUME NCPUAssumption == NCPU \in Nat \ {0}
ASSUME NCHANAssumption == NCHAN \in Nat
ASSUME MaxPidAssumption == MaxPid \in Nat
ASSUME KillPidsAssumption == KillPids \subseteq Int

VARIABLES
  state,      \* p->state
  pid,        \* p->pid
  parent,     \* p->parent
  chan,       \* p->chan
  killed,     \* p->killed
  kstack,     \* p->kstack is allocated (with the page table, freed with it)
  nextpid,
  lock,       \* ptable.lock: the CPU that holds it, 0 when free
  cur,        \* c->proc
  on,         \* whose kernel stack CPU c executes on, 0 the scheduler's
  pc,         \* where the kernel thread of p is
  np,         \* the local variable np of fork
  preempted   \* p is inside yield's call of sched

vars == <<state, pid, parent, chan, killed, kstack, nextpid, lock, cur, on,
          pc, np, preempted>>
forkVars == <<pid, kstack, nextpid, np>>
cpuVars == <<lock, cur, on>>
-----------------------------------------------------------------------------
Slots == 1..NPROC
Cpus == 1..NCPU
Chans == (NPROC+1)..(NPROC+NCHAN)    \* &ticks, a pipe, the console, ...
initproc == 1

procstate == {"UNUSED", "EMBRYO", "SLEEPING", "RUNNABLE", "RUNNING", "ZOMBIE"}

(* user: in user space.  fork, kalloc, copyuvm, runnable: in fork, about   *)
(* to find a slot, allocate the stack, copy the memory, publish the child. *)
(* exit: in exit before its acquire.  zombie: past it.  wait, kill:        *)
(* entering them.  waiting: asleep in wait.  check, presleep, sleeping: in *)
(* a blocking call, at the test of its loop, between that test and sleep's *)
(* acquire, asleep.  trapret: the system call returned, trap is about to   *)
(* test p->killed.                                                         *)
Locations == {"none", "forkret", "user", "fork", "kalloc", "copyuvm",
              "runnable", "exit", "zombie", "wait", "waiting", "kill",
              "check", "presleep", "sleeping", "trapret"}

\* Between check and presleep the caller holds its own spinlock: no timer.
Preemptible == Locations \ {"none", "forkret", "zombie", "waiting", "check",
                            "presleep", "sleeping"}

Live == {"SLEEPING", "RUNNABLE", "RUNNING"}

TypeOK ==
  /\ state \in [Slots -> procstate]
  /\ pid \in [Slots -> Nat]
  /\ parent \in [Slots -> 0..NPROC]
  /\ chan \in [Slots -> 0..(NPROC+NCHAN)]
  /\ killed \in [Slots -> BOOLEAN]
  /\ kstack \in [Slots -> BOOLEAN]
  /\ nextpid \in Nat \ {0}
  /\ lock \in 0..NCPU
  /\ cur \in [Cpus -> 0..NPROC]
  /\ on \in [Cpus -> 0..NPROC]
  /\ pc \in [Slots -> Locations]
  /\ np \in [Slots -> 0..NPROC]
  /\ preempted \in [Slots -> BOOLEAN]
-----------------------------------------------------------------------------
\* userinit has run: the first process is RUNNABLE and the CPUs are in
\* scheduler().
Init ==
  /\ state = [s \in Slots |-> IF s = initproc THEN "RUNNABLE" ELSE "UNUSED"]
  /\ pid = [s \in Slots |-> IF s = initproc THEN 1 ELSE 0]
  /\ parent = [s \in Slots |-> 0]
  /\ chan = [s \in Slots |-> 0]
  /\ killed = [s \in Slots |-> FALSE]
  /\ kstack = [s \in Slots |-> s = initproc]
  /\ nextpid = 2
  /\ lock = 0
  /\ cur = [c \in Cpus |-> 0]
  /\ on = [c \in Cpus |-> 0]
  /\ pc = [s \in Slots |-> IF s = initproc THEN "forkret" ELSE "none"]
  /\ np = [s \in Slots |-> 0]
  /\ preempted = [s \in Slots |-> FALSE]
-----------------------------------------------------------------------------
\* wakeup1(ch) on a table whose states are st.
wakeup1(st, ch) ==
  [s \in Slots |-> IF st[s] = "SLEEPING" /\ chan[s] = ch THEN "RUNNABLE"
                   ELSE st[s]]

\* The thread of p runs on CPU c at location l.
Exec(c, p, l) == on[c] = p /\ pc[p] = l /\ ~preempted[p]

\* The thread of p is inside sched, or has not run yet (forkret).
InSched(p) == preempted[p] \/ pc[p] \in {"forkret", "waiting", "sleeping", "zombie"}

\* The scheduler of c has just switched to p.
SwitchedIn(c, p) == on[c] = p /\ state[p] = "RUNNING" /\ InSched(p)

Goto(p, l) == pc' = [pc EXCEPT ![p] = l]
-----------------------------------------------------------------------------
(* The scheduler thread of CPU c, at the top of its loop while c->proc is  *)
(* 0.  The lottery decides which RUNNABLE process is picked (module        *)
(* Lottery); here any may be.                                              *)
scheduler(c, p) ==
  /\ on[c] = 0 /\ cur[c] = 0 /\ lock = 0
  /\ state[p] = "RUNNABLE"
  /\ lock' = c
  /\ cur' = [cur EXCEPT ![c] = p]
  /\ state' = [state EXCEPT ![p] = "RUNNING"]
  /\ on' = [on EXCEPT ![c] = p]
  /\ UNCHANGED <<parent, chan, killed, pc, preempted, forkVars>>

\* swtch from the process back to the scheduler's stack.
sched(c) ==
  /\ on[c] # 0 /\ InSched(on[c]) /\ state[on[c]] # "RUNNING"
  /\ on' = [on EXCEPT ![c] = 0]
  /\ UNCHANGED <<state, parent, chan, killed, lock, cur, pc, preempted, forkVars>>

\* Back in scheduler(): c->proc = 0 and release.
schedulerResume(c) ==
  /\ on[c] = 0 /\ cur[c] # 0
  /\ cur' = [cur EXCEPT ![c] = 0]
  /\ lock' = 0
  /\ UNCHANGED <<state, parent, chan, killed, on, pc, preempted, forkVars>>

forkretLocked(c, p) ==
  /\ SwitchedIn(c, p) /\ pc[p] = "forkret"
  /\ Goto(p, "user")
  /\ UNCHANGED <<state, parent, chan, killed, preempted, forkVars, cpuVars>>

forkret(c, p) ==
  /\ SwitchedIn(c, p) /\ pc[p] = "forkret"
  /\ lock' = 0
  /\ Goto(p, "user")
  /\ UNCHANGED <<state, parent, chan, killed, cur, on, preempted, forkVars>>

yieldUnlocked(c, p) ==
  /\ on[c] = p /\ ~preempted[p] /\ pc[p] \in Preemptible
  /\ lock = 0
  /\ state' = [state EXCEPT ![p] = "RUNNABLE"]
  /\ preempted' = [preempted EXCEPT ![p] = TRUE]
  /\ UNCHANGED <<parent, chan, killed, pc, forkVars, cpuVars>>

\* The timer interrupts p, its time slice is used up and trap calls yield;
\* or p calls sys_yield.
yield(c, p) ==
  /\ on[c] = p /\ ~preempted[p] /\ pc[p] \in Preemptible
  /\ lock = 0
  /\ lock' = c
  /\ state' = [state EXCEPT ![p] = "RUNNABLE"]
  /\ preempted' = [preempted EXCEPT ![p] = TRUE]
  /\ UNCHANGED <<parent, chan, killed, cur, on, pc, forkVars>>

\* yield returns; only a trap from user space then looks at p->killed.
yieldResume(c, p) ==
  /\ SwitchedIn(c, p) /\ preempted[p]
  /\ lock' = 0
  /\ preempted' = [preempted EXCEPT ![p] = FALSE]
  /\ pc' = [pc EXCEPT ![p] = IF @ = "user" THEN "trapret" ELSE @]
  /\ UNCHANGED <<state, parent, chan, killed, cur, on, forkVars>>
-----------------------------------------------------------------------------
(* trap: a killed process gets no further than exit, be it that it makes a *)
(* system call or that an interrupt finds it in user space.                *)
syscall(c, p) ==
  /\ Exec(c, p, "user")
  /\ \/ killed[p] /\ Goto(p, "exit")
     \/ /\ ~killed[p]
        /\ \E l \in {"exit", "wait", "kill", "check", "fork"} :
             (l = "fork" => nextpid <= MaxPid) /\ Goto(p, l)
  /\ UNCHANGED <<state, parent, chan, killed, preempted, forkVars, cpuVars>>

trapret(c, p) ==
  /\ Exec(c, p, "trapret")
  /\ Goto(p, IF killed[p] THEN "exit" ELSE "user")
  /\ UNCHANGED <<state, parent, chan, killed, preempted, forkVars, cpuVars>>

\* fork's call of allocproc, the part under ptable.lock.
allocproc(c, p) ==
  /\ Exec(c, p, "fork")
  /\ lock = 0
  /\ \/ /\ \E s \in Slots :
             /\ state[s] = "UNUSED"
             /\ \A t \in Slots : state[t] = "UNUSED" => s <= t
             /\ state' = [state EXCEPT ![s] = "EMBRYO"]
             /\ pid' = [pid EXCEPT ![s] = nextpid]
             /\ np' = [np EXCEPT ![p] = s]
        /\ nextpid' = nextpid + 1
        /\ Goto(p, "kalloc")
     \/ /\ \A s \in Slots : state[s] # "UNUSED"
        /\ Goto(p, "trapret")
        /\ UNCHANGED <<state, pid, np, nextpid>>
  /\ UNCHANGED <<parent, chan, killed, kstack, preempted, cpuVars>>

forkFailLeaky(p) ==
  /\ state' = [state EXCEPT ![np[p]] = "UNUSED"]
  /\ np' = [np EXCEPT ![p] = 0]
  /\ pc' = [pc EXCEPT ![p] = "trapret", ![np[p]] = "none"]
  /\ UNCHANGED kstack

\* A failing fork gives the slot back without ptable.lock, and leaves its
\* pid in it.
forkFail(p) ==
  /\ state' = [state EXCEPT ![np[p]] = "UNUSED"]
  /\ kstack' = [kstack EXCEPT ![np[p]] = FALSE]
  /\ np' = [np EXCEPT ![p] = 0]
  /\ pc' = [pc EXCEPT ![p] = "trapret", ![np[p]] = "none"]

\* The rest of allocproc: kalloc may fail.
allocprocStack(c, p) ==
  /\ Exec(c, p, "kalloc")
  /\ \/ /\ kstack' = [kstack EXCEPT ![np[p]] = TRUE]
        /\ pc' = [pc EXCEPT ![p] = "copyuvm", ![np[p]] = "forkret"]
        /\ UNCHANGED <<state, np>>
     \/ forkFail(p)
  /\ UNCHANGED <<pid, parent, chan, killed, nextpid, preempted, cpuVars>>

\* copyuvm may fail; otherwise np->parent is set, without the lock.
forkCopy(c, p) ==
  /\ Exec(c, p, "copyuvm")
  /\ \/ /\ parent' = [parent EXCEPT ![np[p]] = p]
        /\ Goto(p, "runnable")
        /\ UNCHANGED <<state, kstack, np>>
     \/ forkFail(p) /\ UNCHANGED parent
  /\ UNCHANGED <<pid, chan, killed, nextpid, preempted, cpuVars>>

forkRunnable(c, p) ==
  /\ Exec(c, p, "runnable")
  /\ lock = 0
  /\ state' = [state EXCEPT ![np[p]] = "RUNNABLE"]
  /\ np' = [np EXCEPT ![p] = 0]
  /\ Goto(p, "trapret")
  /\ UNCHANGED <<pid, parent, chan, killed, kstack, nextpid, preempted, cpuVars>>
-----------------------------------------------------------------------------
\* A fault in user space: trap kills the process and calls exit.
fault(c, p) ==
  /\ Exec(c, p, "user")
  /\ killed' = [killed EXCEPT ![p] = TRUE]
  /\ Goto(p, "exit")
  /\ UNCHANGED <<state, parent, chan, preempted, forkVars, cpuVars>>

exitWakeupsOrphans(p) ==
  IF \E s \in Slots : parent[s] = p /\ state[s] = "ZOMBIE"
  THEN wakeup1(state, initproc) ELSE state

\* The states after the two wakeup1 calls of exit.
exitWakeups(p) ==
  LET woken == wakeup1(state, parent[p])
  IN  IF \E s \in Slots : parent[s] = p /\ state[s] = "ZOMBIE"
      THEN wakeup1(woken, initproc) ELSE woken

\* Pass abandoned children to init.
reparent(p) == [s \in Slots |-> IF parent[s] = p THEN initproc ELSE parent[s]]

\* exit from its acquire to its call of sched, which keeps the lock.  In init
\* exit panics: its thread stops, and the model lets the other CPUs go on.
exit(c, p) ==
  /\ Exec(c, p, "exit") /\ p # initproc
  /\ lock = 0
  /\ lock' = c
  /\ state' = [exitWakeups(p) EXCEPT ![p] = "ZOMBIE"]
  /\ parent' = reparent(p)
  /\ Goto(p, "zombie")
  /\ UNCHANGED <<chan, killed, cur, on, preempted, forkVars>>

\* wait and wait2 at the top of their loop: they have just acquired the lock,
\* or sleep has returned to them with the lock still held.
WaitScan(c, p) ==
  \/ Exec(c, p, "wait") /\ lock = 0
  \/ SwitchedIn(c, p) /\ pc[p] = "waiting"

Children(p) == {s \in Slots : parent[s] = p}
ZombieChildren(p) == {s \in Children(p) : state[s] = "ZOMBIE"}

waitReap(c, p) ==
  /\ WaitScan(c, p)
  /\ \E z \in ZombieChildren(p) :
       /\ \A t \in ZombieChildren(p) : z <= t
       /\ kstack' = [kstack EXCEPT ![z] = FALSE]
       /\ pid' = [pid EXCEPT ![z] = 0]
       /\ parent' = [parent EXCEPT ![z] = 0]
       /\ killed' = [killed EXCEPT ![z] = FALSE]
       /\ state' = [state EXCEPT ![z] = "UNUSED"]
       /\ pc' = [pc EXCEPT ![z] = "none", ![p] = "trapret"]
  /\ lock' = 0
  /\ chan' = [chan EXCEPT ![p] = 0]
  /\ UNCHANGED <<nextpid, cur, on, np, preempted>>

waitNone(c, p) ==
  /\ WaitScan(c, p)
  /\ ZombieChildren(p) = {}
  /\ Children(p) = {} \/ killed[p]
  /\ lock' = 0
  /\ chan' = [chan EXCEPT ![p] = 0]
  /\ Goto(p, "trapret")
  /\ UNCHANGED <<state, parent, killed, cur, on, preempted, forkVars>>

\* sleep(curproc, &ptable.lock)
waitSleep(c, p) ==
  /\ WaitScan(c, p)
  /\ ZombieChildren(p) = {} /\ Children(p) # {} /\ ~killed[p]
  /\ lock' = c
  /\ chan' = [chan EXCEPT ![p] = p]
  /\ state' = [state EXCEPT ![p] = "SLEEPING"]
  /\ Goto(p, "waiting")
  /\ UNCHANGED <<parent, killed, cur, on, preempted, forkVars>>
-----------------------------------------------------------------------------
blockCheckDeaf(c, p) ==
  /\ Exec(c, p, "check")
  /\ Goto(p, "trapret") \/ Goto(p, "presleep")
  /\ UNCHANGED <<state, parent, chan, killed, preempted, forkVars, cpuVars>>

(* A blocking call (sys_sleep, piperead, pipewrite, consoleread): a loop   *)
(* that ends when its condition holds or the process is killed, and else   *)
(* sleeps.  The condition is the environment's choice.                     *)
blockCheck(c, p) ==
  /\ Exec(c, p, "check")
  /\ \/ Goto(p, "trapret")
     \/ ~killed[p] /\ Goto(p, "presleep")
  /\ UNCHANGED <<state, parent, chan, killed, preempted, forkVars, cpuVars>>

sleep(c, p, ch) ==
  /\ Exec(c, p, "presleep")
  /\ lock = 0
  /\ lock' = c
  /\ chan' = [chan EXCEPT ![p] = ch]
  /\ state' = [state EXCEPT ![p] = "SLEEPING"]
  /\ Goto(p, "sleeping")
  /\ UNCHANGED <<parent, killed, cur, on, preempted, forkVars>>

sleepResume(c, p) ==
  /\ SwitchedIn(c, p) /\ pc[p] = "sleeping"
  /\ chan' = [chan EXCEPT ![p] = 0]
  /\ lock' = 0
  /\ Goto(p, "check")
  /\ UNCHANGED <<state, parent, killed, cur, on, preempted, forkVars>>

\* wakeup(ch), by an interrupt handler or by another process.
wakeup(ch) ==
  /\ lock = 0
  /\ state' = wakeup1(state, ch)
  /\ UNCHANGED <<parent, chan, killed, pc, preempted, forkVars, cpuVars>>

\* The first slot that holds the pid is hit, in whatever state it is.
kill(c, p, k) ==
  /\ Exec(c, p, "kill")
  /\ lock = 0
  /\ LET hit == {s \in Slots : pid[s] = k}
     IN \/ \E s \in hit :
             /\ \A t \in hit : s <= t
             /\ killed' = [killed EXCEPT ![s] = TRUE]
             /\ state' = [state EXCEPT ![s] = IF @ = "SLEEPING" THEN "RUNNABLE"
                                              ELSE @]
        \/ hit = {} /\ UNCHANGED <<killed, state>>
  /\ Goto(p, "trapret")
  /\ UNCHANGED <<parent, chan, preempted, forkVars, cpuVars>>
-----------------------------------------------------------------------------
procStep(c, p) ==
  \/ scheduler(c, p) \/ forkret(c, p) \/ yield(c, p) \/ yieldResume(c, p)
  \/ syscall(c, p) \/ trapret(c, p) \/ fault(c, p)
  \/ allocproc(c, p) \/ allocprocStack(c, p) \/ forkCopy(c, p)
  \/ forkRunnable(c, p)
  \/ exit(c, p) \/ waitReap(c, p) \/ waitNone(c, p) \/ waitSleep(c, p)
  \/ blockCheck(c, p) \/ sleepResume(c, p)
  \/ \E ch \in Chans : sleep(c, p, ch)
  \/ \E k \in KillPids : kill(c, p, k)

cpuStep(c) == sched(c) \/ schedulerResume(c)

Next ==
  \/ \E c \in Cpus : cpuStep(c) \/ \E p \in Slots : procStep(c, p)
  \/ \E ch \in Chans : wakeup(ch)

Spec == Init /\ [][Next]_vars
-----------------------------------------------------------------------------
(* Safety.                                                                 *)

\* ptable.lock is held by a CPU exactly while that CPU is between a thread's
\* last store before swtch and the release on the other side: sched is never
\* called without it, and every thread switched to finds it held and releases
\* it ("Still holding ptable.lock from scheduler" in forkret).
LockHandoff ==
  \A c \in Cpus : lock = c <=> \/ on[c] = 0 /\ cur[c] # 0
                               \/ on[c] # 0 /\ InSched(on[c])

\* No two CPUs execute on one kernel stack: a process that has marked itself
\* RUNNABLE, SLEEPING or ZOMBIE is not run by, nor freed under, another CPU
\* before it has switched away.
OneCpuPerStack ==
  \A c, d \in Cpus : on[c] # 0 /\ on[c] = on[d] => c = d

\* The stack a CPU executes on has been allocated and not freed by the
\* parent's wait.
StackAllocated ==
  \A c \in Cpus : on[c] # 0 => kstack[on[c]] /\ state[on[c]] \in Live \cup {"ZOMBIE"}

\* myproc() names the process whose stack is in use, a process that runs code
\* outside sched is RUNNING, and RUNNING means some CPU runs it.
MyProc ==
  /\ \A c \in Cpus : on[c] # 0 => cur[c] = on[c]
  /\ \A c \in Cpus : on[c] # 0 /\ ~InSched(on[c]) => state[on[c]] = "RUNNING"
  /\ \A p \in Slots : state[p] = "RUNNING" => \E c \in Cpus : on[c] = p

\* exit hands its children to init in the same critical section in which it
\* becomes a zombie: every process but init has a parent that can still wait
\* for it.
NoOrphan ==
  \A s \in Slots \ {initproc} :
    state[s] \in Live \cup {"ZOMBIE"} => parent[s] # 0 /\ state[parent[s]] \in Live

\* A process asleep in wait has a child to wait for, none of its children is a
\* zombie (no exit was missed, not even of an adopted child) and it has not
\* been killed.
NoMissedExit ==
  \A p \in Slots :
    state[p] = "SLEEPING" /\ pc[p] = "waiting" =>
      Children(p) # {} /\ ZombieChildren(p) = {} /\ ~killed[p]

\* Slots in use have different pids, all given out by allocproc.
PidUnique ==
  \A s, t \in Slots :
    state[s] # "UNUSED" =>
      /\ pid[s] \in 1..(nextpid - 1)
      /\ state[t] # "UNUSED" /\ pid[s] = pid[t] => s = t

\* No slot and no kernel stack is lost: an EMBRYO belongs to exactly one
\* process that is still in fork, and a stack to a slot in use.
NothingLeaks ==
  /\ \A s \in Slots : state[s] = "EMBRYO" =>
       \E p \in Slots : /\ np[p] = s
                        /\ state[p] \in {"RUNNABLE", "RUNNING"}
                        /\ pc[p] \in {"kalloc", "copyuvm", "runnable"}
                        /\ \A q \in Slots : np[q] = s => q = p
  /\ \A s \in Slots : kstack[s] => state[s] # "UNUSED"

\* The life cycle of a slot: nothing revives a zombie or an unused slot, and
\* only the scheduler makes a process RUNNING.
Edges == {<<"UNUSED", "EMBRYO">>, <<"EMBRYO", "UNUSED">>,
          <<"EMBRYO", "RUNNABLE">>, <<"RUNNABLE", "RUNNING">>,
          <<"RUNNING", "RUNNABLE">>, <<"RUNNING", "SLEEPING">>,
          <<"RUNNING", "ZOMBIE">>, <<"SLEEPING", "RUNNABLE">>,
          <<"ZOMBIE", "UNUSED">>}
LifeCycle ==
  [][\A s \in Slots : state'[s] = state[s] \/ <<state[s], state'[s]>> \in Edges]_vars

(* Two statements that the code does not keep.                             *)

-----------------------------------------------------------------------------
(* Liveness.  A CPU that has switched stacks carries on, and a process     *)
(* that is in the kernel gets on with it in the end, although the timer    *)
(* may preempt it and acquire spins: strong fairness, as the chance comes  *)
(* again and again.  The timer keeps interrupting user code and waking     *)
(* the sleepers on ticks.  Every RUNNABLE process holds tickets, so every  *)
(* round of the lottery picks it with a positive probability.              *)
resumeStep(c, p) == forkret(c, p) \/ yieldResume(c, p) \/ sleepResume(c, p)

kernelStep(c, p) ==
  \/ trapret(c, p) \/ allocproc(c, p) \/ allocprocStack(c, p)
  \/ forkCopy(c, p) \/ forkRunnable(c, p) \/ exit(c, p)
  \/ waitReap(c, p) \/ waitNone(c, p) \/ waitSleep(c, p) \/ blockCheck(c, p)
  \/ \E k \in KillPids : kill(c, p, k)
  \/ \E ch \in Chans : sleep(c, p, ch)

Fairness ==
  /\ \A c \in Cpus : WF_vars(sched(c) \/ schedulerResume(c))
  /\ \A c \in Cpus : WF_vars(\E p \in Slots : resumeStep(c, p))
  /\ \A p \in Slots :
       /\ SF_vars(\E c \in Cpus : kernelStep(c, p))
       /\ SF_vars(\E c \in Cpus : yield(c, p) /\ pc[p] = "user")
       /\ SF_vars(\E c \in Cpus : killed[p] /\ syscall(c, p))
       /\ SF_vars(\E c \in Cpus : scheduler(c, p))
  /\ \A ch \in Chans : SF_vars(wakeup(ch))

FairSpec == Spec /\ Fairness

\* A parent in wait returns once one of its children has exited.
WaitReturns ==
  \A p \in Slots :
    (pc[p] = "waiting" /\ ZombieChildren(p) # {}) ~> pc[p] # "waiting"

\* A process that has been killed exits: blocked on ticks, in wait, in user
\* space or in the kernel.
KilledExits ==
  \A p \in Slots \ {initproc} :
    (killed[p] /\ state[p] \in Live) ~> state[p] \notin Live
=============================================================================
