------------------------------ MODULE SleepLock ------------------------------
(***************************************************************************)
(* sleeplock.c on top of sleep() and wakeup() of proc.c, cut at every      *)
(* acquire and release of the two spinlocks involved: the sleep-lock's own *)
(* lk->lk and ptable.lock.  What is at stake is the window of sleep()      *)
(* between the test of lk->locked and the moment the process is marked     *)
(* SLEEPING: a releasesleep that falls into it must still wake the process.*)
(*                                                                         *)
(* Spinlocks are mutual exclusion between the processes that hold them     *)
(* (module SpinLock).  Each process runs on a CPU of its own; sched and    *)
(* the scheduler pass ptable.lock on (module ProcTable), so going to sleep *)
(* frees it and being resumed takes it.                                    *)
(***************************************************************************)
EXTENDS Naturals

CONSTANTS Procs, NoProc

ASSUME NoProcAssumption == NoProc \notin Procs

VARIABLES
  locked,    \* lk->locked
  pid,       \* lk->pid: the process that holds the sleep-lock
  lk,        \* lk->lk: the process that holds the spinlock, or NoProc
  ptable,    \* ptable.lock: likewise
  state,     \* p->state
  chan,      \* p->chan is the address of the sleep-lock
  pc

vars == <<locked, pid, lk, ptable, state, chan, pc>>

(* idle, holding: outside, and between acquiresleep and releasesleep.      *)
(* acquire, test: in acquiresleep.  sleep1, sleep2, sleep3: in sleep,      *)
(* before acquire(&ptable.lock), before release(lk), before the stores to  *)
(* chan and state.  asleep: in sched.  woken, reacquire: after it.         *)
(* release, wakeup, done: in releasesleep, before acquire, before wakeup,  *)
(* before the final release.                                               *)
Locations == {"idle", "acquire", "test", "sleep1", "sleep2", "sleep3",
              "asleep", "woken", "reacquire", "holding", "release", "wakeup",
              "done"}

TypeOK ==
  /\ locked \in BOOLEAN
  /\ pid \in Procs \cup {NoProc}
  /\ lk \in Procs \cup {NoProc}
  /\ ptable \in Procs \cup {NoProc}
  /\ state \in [Procs -> {"RUNNING", "SLEEPING", "RUNNABLE"}]
  /\ chan \in [Procs -> BOOLEAN]
  /\ pc \in [Procs -> Locations]

\* initsleeplock
Init ==
  /\ locked = FALSE
  /\ pid = NoProc
  /\ lk = NoProc
  /\ ptable = NoProc
  /\ state = [p \in Procs |-> "RUNNING"]
  /\ chan = [p \in Procs |-> FALSE]
  /\ pc = [p \in Procs |-> "idle"]
-----------------------------------------------------------------------------
Step(p, from, to) == pc[p] = from /\ pc' = [pc EXCEPT ![p] = to]

\* The caller's choice to lock, and to unlock what it has locked.
call(p) ==
  /\ Step(p, "idle", "acquire") \/ Step(p, "holding", "release")
  /\ UNCHANGED <<locked, pid, lk, ptable, state, chan>>

\* acquire(&lk->lk), in acquiresleep and at the end of sleep.
acquire(p) ==
  /\ Step(p, "acquire", "test") \/ Step(p, "reacquire", "test")
  /\ lk = NoProc /\ lk' = p
  /\ UNCHANGED <<locked, pid, ptable, state, chan>>

\* while (lk->locked) fails: take the sleep-lock and release lk->lk.
acquiresleep(p) ==
  /\ Step(p, "test", "holding")
  /\ ~locked
  /\ locked' = TRUE /\ pid' = p
  /\ lk' = NoProc
  /\ UNCHANGED <<ptable, state, chan>>

\* while (lk->locked) sleep(lk, &lk->lk)
acquiresleepWait(p) ==
  /\ Step(p, "test", "sleep1")
  /\ locked
  /\ UNCHANGED <<locked, pid, lk, ptable, state, chan>>

sleepReleaseFirst(p) ==
  /\ Step(p, "sleep1", "sleep2")
  /\ ptable = NoProc /\ ptable' = NoProc
  /\ lk' = NoProc
  /\ UNCHANGED <<locked, pid, state, chan>>

\* acquire(&ptable.lock)
sleepLockTable(p) ==
  /\ Step(p, "sleep1", "sleep2")
  /\ ptable = NoProc /\ ptable' = p
  /\ UNCHANGED <<locked, pid, lk, state, chan>>

\* release(lk)
sleepUnlock(p) ==
  /\ Step(p, "sleep2", "sleep3")
  /\ lk' = NoProc
  /\ UNCHANGED <<locked, pid, ptable, state, chan>>

\* chan and state are set, and sched hands ptable.lock to the scheduler,
\* which releases it.
sleepSched(p) ==
  /\ Step(p, "sleep3", "asleep")
  /\ chan' = [chan EXCEPT ![p] = TRUE]
  /\ state' = [state EXCEPT ![p] = "SLEEPING"]
  /\ ptable' = NoProc
  /\ UNCHANGED <<locked, pid, lk>>

\* A scheduler acquires ptable.lock and switches to p.
schedule(p) ==
  /\ Step(p, "asleep", "woken")
  /\ state[p] = "RUNNABLE" /\ state' = [state EXCEPT ![p] = "RUNNING"]
  /\ ptable = NoProc /\ ptable' = p
  /\ UNCHANGED <<locked, pid, lk, chan>>

\* chan = 0; release(&ptable.lock)
sleepTidy(p) ==
  /\ Step(p, "woken", "reacquire")
  /\ chan' = [chan EXCEPT ![p] = FALSE]
  /\ ptable' = NoProc
  /\ UNCHANGED <<locked, pid, lk, state>>
-----------------------------------------------------------------------------
\* releasesleep up to its call of wakeup.
releasesleep(p) ==
  /\ Step(p, "release", "wakeup")
  /\ lk = NoProc /\ lk' = p
  /\ locked' = FALSE /\ pid' = NoProc
  /\ UNCHANGED <<ptable, state, chan>>

\* wakeup(lk): every sleeper on the channel, under ptable.lock.
wakeup(p) ==
  /\ Step(p, "wakeup", "done")
  /\ ptable = NoProc
  /\ state' = [q \in Procs |-> IF state[q] = "SLEEPING" /\ chan[q] THEN "RUNNABLE"
                               ELSE state[q]]
  /\ UNCHANGED <<locked, pid, lk, ptable, chan>>

releasesleepEnd(p) ==
  /\ Step(p, "done", "idle")
  /\ lk' = NoProc
  /\ UNCHANGED <<locked, pid, ptable, state, chan>>

\* Some process kills p: a wakeup that has nothing to do with the lock.
kill(p) ==
  /\ ptable = NoProc
  /\ state[p] = "SLEEPING" /\ state' = [state EXCEPT ![p] = "RUNNABLE"]
  /\ UNCHANGED <<locked, pid, lk, ptable, chan, pc>>

\* A step of the code of p, its choices to lock and unlock apart.
run(p) ==
  \/ acquire(p) \/ acquiresleep(p) \/ acquiresleepWait(p)
  \/ sleepLockTable(p) \/ sleepUnlock(p) \/ sleepSched(p) \/ schedule(p)
  \/ sleepTidy(p) \/ releasesleep(p) \/ wakeup(p) \/ releasesleepEnd(p)

Next == \E p \in Procs : run(p) \/ call(p) \/ kill(p)

Spec == Init /\ [][Next]_vars
-----------------------------------------------------------------------------
\* At most one process is between acquiresleep and releasesleep, it is the one
\* that holdingsleep reports, and the lock is marked taken exactly then.
MutualExclusion ==
  /\ \A p \in Procs : pc[p] \in {"holding", "release"} <=> locked /\ pid = p
  /\ locked <=> pid # NoProc

\* A process asleep on the lock, or committed to going to sleep, has a wakeup
\* to come: the lock is still taken, or the process that released it has not
\* called wakeup yet.
NoLostWakeup ==
  \A p \in Procs :
    state[p] = "SLEEPING" \/ pc[p] \in {"sleep1", "sleep2", "sleep3"} =>
      locked \/ \E q \in Procs : pc[q] = "wakeup"
-----------------------------------------------------------------------------
(* Each process executes its code, spinning acquires are served in the end *)
(* (strong fairness: the spinlocks come free again and again), and a       *)
(* process releases what it has locked.                                    *)
Fairness ==
  \A p \in Procs : SF_vars(run(p)) /\ WF_vars(call(p) /\ pc[p] = "holding")

FairSpec == Spec /\ Fairness

\* The abstract lock: a process waits from its call of acquiresleep on, and
\* has dropped the lock when lk->locked is cleared.
Standing ==
  [p \in Procs |-> IF pc[p] \in {"holding", "release"} THEN "holding"
                   ELSE IF pc[p] \in {"idle", "wakeup", "done"} THEN "idle"
                   ELSE "waiting"]

abstract == INSTANCE Mutex WITH at <- Standing

\* sleeplock.c implements the abstract lock, one acquiresleep granting it at a
\* time, each releasesleep dropping it.
ImplementsMutex == abstract!Spec

\* It also keeps its promise of progress: while the lock is free and processes
\* wait for it, one of them gets it (no wakeup is lost).
ImplementsFairMutex == abstract!FairSpec
=============================================================================
