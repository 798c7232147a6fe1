------------------------------- MODULE Blocking -------------------------------
(***************************************************************************)
(* Where processes sleep on a condition and are woken: at a pipe, for a     *)
(* sleep-lock, and for a line of the console.  The three share nothing but  *)
(* sleep and wakeup.                                                        *)
(***************************************************************************)
EXTENDS Pipe

CONSTANTS
  Lockers,                      \* the processes that compete for the sleep-lock
  LineReaders, KillableReaders, \* the processes that read the console
  INPUT_BUF, W, MaxRead, MaxTyped

ASSUME LockersAssumption == NoProc \notin Lockers

\* The ring of the code has 128 characters and its indices 2^32 values.
ASSUME ConsoleAssumption ==
  /\ INPUT_BUF \in Nat \ {0} /\ W \in Nat
  /\ W % INPUT_BUF = 0 /\ W > INPUT_BUF
  /\ MaxRead \in Nat

VARIABLES
  locked, pid, lk, ptable, state, chan, spc,
  input_buf, input_r, input_w, input_e, reads, ckilled, typed, line, unread

sleeplock == INSTANCE SleepLock WITH Procs <- Lockers, pc <- spc

console == INSTANCE Console WITH
  Procs <- LineReaders, Killable <- KillableReaders,
  buf <- input_buf, r <- input_r, w <- input_w, e <- input_e, k <- reads, killed <- ckilled

\* SleepLock!NoLostWakeup: a process asleep on a sleep-lock, or committed to
\* going to sleep, has a wakeup to come.
NoLostWakeup == sleeplock!NoLostWakeup

\* Console!InputExact: readers get the bytes of the finished lines, as they were
\* edited, each one once and in order.
InputExact == console!InputExact
=============================================================================
