--------------------------------- MODULE Locks ---------------------------------
(***************************************************************************)
(* The spinlocks of the kernel (module SpinLock), and the order in which   *)
(* the code of the default build takes them (module LockOrder).            *)
(***************************************************************************)
EXTENDS SpinLock

CONSTANT OrderCpus      \* the CPUs of module LockOrder

ASSUME OrderCpusAssumption == NoCpu \notin OrderCpus

VARIABLES owner, rest

order == INSTANCE LockOrder WITH Cpus <- OrderCpus, SCHEDULER <- "LOTTERY"

\* LockOrder!NoDeadlock: no CPUs wait for each other's spinlocks.
NoDeadlock == order!NoDeadlock
=============================================================================
