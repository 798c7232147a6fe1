------------------------------- MODULE SpinLock -------------------------------
(***************************************************************************)
(* spinlock.c: acquire, release, holding, pushcli and popcli on several    *)
(* CPUs with interrupts.  Each CPU runs a thread that takes spinlocks,     *)
(* several at a time if it likes, in the locks' order; whenever its        *)
(* interrupt flag is set a device may interrupt it, and the handler takes  *)
(* locks too.  The steps are the shared accesses: the exchange on          *)
(* lk->locked, the store to lk->cpu, and pushcli and popcli, which touch   *)
(* only their own CPU.  The memory barriers of the code make that order    *)
(* the order the other CPUs see.                                           *)
(***************************************************************************)
EXTENDS Integers, FiniteSets

CONSTANTS Cpus, NoCpu,
          Locks     \* the spinlocks, numbered in the order they are taken in

ASSUME NoCpuAssumption == NoCpu \notin Cpus
ASSUME LocksAssumption == Locks \subseteq Nat \ {0} /\ IsFiniteSet(Locks)

VARIABLES
  locked,     \* lk->locked
  lcpu,       \* lk->cpu
  IF_,        \* FL_IF of each CPU
  ncli,       \* cpu->ncli
  intena,     \* cpu->intena
  intr,       \* the CPU executes an interrupt handler
  pc,         \* where the thread and the handler of each CPU are
  lk,         \* the argument of the acquire or release they are in, or 0
  held        \* the locks they have taken

vars == <<locked, lcpu, IF_, ncli, intena, intr, pc, lk, held>>

Levels == {"thread", "handler"}
Level(c) == IF intr[c] THEN "handler" ELSE "thread"

\* check, xchg, setcpu: in acquire.  relcheck, clearcpu, unlock, popcli: in
\* release.
Locations == {"run", "check", "xchg", "setcpu", "relcheck", "clearcpu",
              "unlock", "popcli", "panic"}

TypeOK ==
  /\ locked \in [Locks -> BOOLEAN]
  /\ lcpu \in [Locks -> Cpus \cup {NoCpu}]
  /\ IF_ \in [Cpus -> BOOLEAN]
  /\ ncli \in [Cpus -> Nat]
  /\ intena \in [Cpus -> BOOLEAN]
  /\ intr \in [Cpus -> BOOLEAN]
  /\ pc \in [Cpus -> [Levels -> Locations]]
  /\ lk \in [Cpus -> [Levels -> Locks \cup {0}]]
  /\ held \in [Cpus -> [Levels -> SUBSET Locks]]

\* initlock, on CPUs that run with interrupts enabled.
Init ==
  /\ locked = [l \in Locks |-> FALSE]
  /\ lcpu = [l \in Locks |-> NoCpu]
  /\ IF_ = [c \in Cpus |-> TRUE]
  /\ ncli = [c \in Cpus |-> 0]
  /\ intena = [c \in Cpus |-> FALSE]
  /\ intr = [c \in Cpus |-> FALSE]
  /\ pc = [c \in Cpus |-> [v \in Levels |-> "run"]]
  /\ lk = [c \in Cpus |-> [v \in Levels |-> 0]]
  /\ held = [c \in Cpus |-> [v \in Levels |-> {}]]
-----------------------------------------------------------------------------
At(c, l) == pc[c][Level(c)] = l
Goto(c, l) == pc' = [pc EXCEPT ![c][Level(c)] = l]
Lk(c) == lk[c][Level(c)]
Held(c) == held[c][Level(c)]

holding(c, l) == locked[l] /\ lcpu[l] = c

pushcliForgetful(c) ==
  /\ IF_' = [IF_ EXCEPT ![c] = FALSE]
  /\ intena' = [intena EXCEPT ![c] = IF_[c]]
  /\ ncli' = [ncli EXCEPT ![c] = @ + 1]

pushcli(c) ==
  /\ IF_' = [IF_ EXCEPT ![c] = FALSE]
  /\ intena' = [intena EXCEPT ![c] = IF ncli[c] = 0 THEN IF_[c] ELSE @]
  /\ ncli' = [ncli EXCEPT ![c] = @ + 1]

\* acquire(l): the call of pushcli.  The caller takes its locks in order.
acquire(c, l) ==
  /\ At(c, "run")
  /\ \A m \in Held(c) : m < l
  /\ lk' = [lk EXCEPT ![c][Level(c)] = l]
  /\ pushcli(c)
  /\ Goto(c, "check")
  /\ UNCHANGED <<locked, lcpu, intr, held>>

\* if(holding(lk)) panic("acquire")
acquireCheck(c) ==
  /\ At(c, "check")
  /\ Goto(c, IF holding(c, Lk(c)) THEN "panic" ELSE "xchg")
  /\ UNCHANGED <<locked, lcpu, IF_, ncli, intena, intr, lk, held>>

xchgOnce(c) ==
  /\ At(c, "xchg")
  /\ locked' = [locked EXCEPT ![Lk(c)] = TRUE]
  /\ held' = [held EXCEPT ![c][Level(c)] = @ \cup {Lk(c)}]
  /\ Goto(c, "setcpu")
  /\ UNCHANGED <<lcpu, IF_, ncli, intena, intr, lk>>

\* The exchange that finds the lock free ends the loop.
xchg(c) ==
  /\ At(c, "xchg")
  /\ ~locked[Lk(c)]
  /\ locked' = [locked EXCEPT ![Lk(c)] = TRUE]
  /\ held' = [held EXCEPT ![c][Level(c)] = @ \cup {Lk(c)}]
  /\ Goto(c, "setcpu")
  /\ UNCHANGED <<lcpu, IF_, ncli, intena, intr, lk>>

\* lk->cpu = mycpu()
acquireSetCpu(c) ==
  /\ At(c, "setcpu")
  /\ lcpu' = [lcpu EXCEPT ![Lk(c)] = c]
  /\ lk' = [lk EXCEPT ![c][Level(c)] = 0]
  /\ Goto(c, "run")
  /\ UNCHANGED <<locked, IF_, ncli, intena, intr, held>>
-----------------------------------------------------------------------------
\* release(l), called on any lock that the caller holds.
release(c, l) ==
  /\ At(c, "run") /\ l \in Held(c)
  /\ lk' = [lk EXCEPT ![c][Level(c)] = l]
  /\ Goto(c, "relcheck")
  /\ UNCHANGED <<locked, lcpu, IF_, ncli, intena, intr, held>>

\* if(!holding(lk)) panic("release")
releaseCheck(c) ==
  /\ At(c, "relcheck")
  /\ Goto(c, IF holding(c, Lk(c)) THEN "clearcpu" ELSE "panic")
  /\ UNCHANGED <<locked, lcpu, IF_, ncli, intena, intr, lk, held>>

releaseClearCpu(c) ==
  /\ At(c, "clearcpu")
  /\ lcpu' = [lcpu EXCEPT ![Lk(c)] = NoCpu]
  /\ Goto(c, "unlock")
  /\ UNCHANGED <<locked, IF_, ncli, intena, intr, lk, held>>

releaseUnlock(c) ==
  /\ At(c, "unlock")
  /\ locked' = [locked EXCEPT ![Lk(c)] = FALSE]
  /\ held' = [held EXCEPT ![c][Level(c)] = @ \ {Lk(c)}]
  /\ Goto(c, "popcli")
  /\ UNCHANGED <<lcpu, IF_, ncli, intena, intr, lk>>

\* The popcli that ends release.
popcli(c) ==
  /\ At(c, "popcli")
  /\ IF IF_[c] \/ ncli[c] - 1 < 0
     THEN Goto(c, "panic") /\ UNCHANGED <<ncli, IF_, lk>>
     ELSE /\ ncli' = [ncli EXCEPT ![c] = @ - 1]
          /\ IF_' = [IF_ EXCEPT ![c] = @ \/ (ncli[c] = 1 /\ intena[c])]
          /\ lk' = [lk EXCEPT ![c][Level(c)] = 0]
          /\ Goto(c, "run")
  /\ UNCHANGED <<locked, lcpu, intena, intr, held>>
-----------------------------------------------------------------------------
\* The gate of an interrupt clears the flag; iret restores it.
interrupt(c) ==
  /\ ~intr[c] /\ IF_[c]
  /\ intr' = [intr EXCEPT ![c] = TRUE]
  /\ IF_' = [IF_ EXCEPT ![c] = FALSE]
  /\ UNCHANGED <<locked, lcpu, ncli, intena, pc, lk, held>>

iret(c) ==
  /\ intr[c] /\ At(c, "run") /\ Held(c) = {}
  /\ intr' = [intr EXCEPT ![c] = FALSE]
  /\ IF_' = [IF_ EXCEPT ![c] = TRUE]
  /\ UNCHANGED <<locked, lcpu, ncli, intena, pc, lk, held>>

inLock(c) ==
  \/ acquireCheck(c) \/ xchg(c) \/ acquireSetCpu(c)
  \/ releaseCheck(c) \/ releaseClearCpu(c) \/ releaseUnlock(c) \/ popcli(c)

Next ==
  \E c \in Cpus : \/ inLock(c) \/ interrupt(c) \/ iret(c)
                  \/ \E l \in Locks : acquire(c, l) \/ release(c, l)

Spec == Init /\ [][Next]_vars
-----------------------------------------------------------------------------
\* A lock is held by at most one thread or handler of all CPUs, and lk->locked
\* says whether there is one.
MutualExclusion ==
  \A l \in Locks :
    /\ locked[l] <=> \E c \in Cpus, v \in Levels : l \in held[c][v]
    /\ \A c, d \in Cpus : \A v, w \in Levels :
         l \in held[c][v] /\ l \in held[d][w] => c = d /\ v = w

\* None of the panics of spinlock.c is reached: a handler never asks for a
\* lock of the code it has interrupted, lk->cpu is never stale when holding()
\* reads it, popcli runs with interrupts off and as often as pushcli.
NoPanic == \A c \in Cpus, v \in Levels : pc[c][v] # "panic"

\* A CPU that holds a lock has interrupts disabled, so its handlers cannot
\* spin on a lock their own CPU holds.
InterruptsOff ==
  \A c \in Cpus : (\E v \in Levels : held[c][v] # {}) => ~IF_[c]

\* "if interrupts are off, then pushcli, popcli leaves them off"; and once the
\* last lock is released they are as they were before the first was taken.
FlagRestored ==
  \A c \in Cpus : /\ intr[c] => ~IF_[c]
                  /\ ~intr[c] /\ ncli[c] = 0 => IF_[c]
=============================================================================
