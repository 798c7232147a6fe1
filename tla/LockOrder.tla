------------------------------- MODULE LockOrder -------------------------------
(***************************************************************************)
(* Which kernel spinlocks are taken while which others are held, and       *)
(* whether the CPUs can end up waiting for each other.  A path is what a   *)
(* piece of kernel code does to spinlocks, from holding none to holding    *)
(* none; a CPU runs one path after another, with interrupts off while it   *)
(* holds a lock (module SpinLock), so an interrupt is a path of its own.   *)
(* sleep keeps ptable.lock across swtch, and the same CPU's scheduler      *)
(* releases it.  Paths that take a single lock cannot block anybody for    *)
(* ever and are left out.                                                  *)
(***************************************************************************)
EXTENDS Naturals, Sequences

CONSTANTS Cpus, NoCpu,
          SCHEDULER     \* the build: "LOTTERY" or "PRIORITY"

VARIABLES
  owner,    \* the CPU that holds each lock
  rest      \* what is left of the path each CPU executes

vars == <<owner, rest>>
-----------------------------------------------------------------------------
A(l) == <<"acquire", l>>
R(l) == <<"release", l>>

\* The locks under which processes sleep and are woken: ide.c, log.c, pipe.c,
\* console.c, sleeplock.c, and tickslock.
SleepLocks == {"ide", "log", "pipe", "cons", "sleeplk", "ticks"}

SpinLocks == SleepLocks \cup {"ptable", "kmem"}

sleepTableFirst(l) == <<A("ptable"), A(l), R(l), R("ptable")>>

\* A caller that holds l calls sleep(chan, l).
sleep(l) == <<A(l), A("ptable"), R(l), R("ptable")>>

\* A caller that holds l calls wakeup.
wakeup(l) == <<A(l), A("ptable"), R("ptable"), R(l)>>

\* The timer interrupt on CPU 0: countprocs and wakeup under tickslock.
timer == <<A("ticks"), A("ptable"), R("ptable"), A("ptable"), R("ptable"), R("ticks")>>

\* wait and wait2 free the child's memory.
wait == <<A("ptable"), A("kmem"), R("kmem"), R("ptable")>>

\* curr_time(), called with ptable.lock held.
curr_time == <<A("ticks"), R("ticks")>>

\* One round of the scheduler: under PRIORITY it looks at the clock for every
\* slot of the table, for two of them here.
scheduler ==
  IF SCHEDULER = "PRIORITY"
  THEN <<A("ptable")>> \o curr_time \o curr_time \o <<R("ptable")>>
  ELSE <<A("ptable"), R("ptable")>>

allocproc ==
  IF SCHEDULER = "PRIORITY"
  THEN <<A("ptable")>> \o curr_time \o <<R("ptable")>>
  ELSE <<A("ptable"), R("ptable")>>

Paths == {sleep(l) : l \in SleepLocks} \cup {wakeup(l) : l \in SleepLocks}
           \cup {timer, wait, scheduler, allocproc}
-----------------------------------------------------------------------------
Init ==
  /\ owner = [l \in SpinLocks |-> NoCpu]
  /\ rest = [c \in Cpus |-> <<>>]

enter(c) ==
  /\ rest[c] = <<>>
  /\ \E path \in Paths : rest' = [rest EXCEPT ![c] = path]
  /\ UNCHANGED owner

Does(c, op, l) == rest[c] # <<>> /\ Head(rest[c]) = <<op, l>>

acquire(c, l) ==
  /\ Does(c, "acquire", l)
  /\ owner[l] = NoCpu /\ owner' = [owner EXCEPT ![l] = c]
  /\ rest' = [rest EXCEPT ![c] = Tail(@)]

release(c, l) ==
  /\ Does(c, "release", l)
  /\ owner' = [owner EXCEPT ![l] = NoCpu]
  /\ rest' = [rest EXCEPT ![c] = Tail(@)]

Next == \E c \in Cpus : enter(c) \/ \E l \in SpinLocks : acquire(c, l) \/ release(c, l)

Spec == Init /\ [][Next]_vars
-----------------------------------------------------------------------------
\* No CPUs wait for each other: in every group of CPUs one is not waiting for
\* a lock that another one of the group holds.
NoDeadlock ==
  \A S \in (SUBSET Cpus) \ {{}} :
    ~ \A c \in S : \E l \in SpinLocks : Does(c, "acquire", l) /\ owner[l] \in S
=============================================================================
