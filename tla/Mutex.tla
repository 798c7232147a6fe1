-------------------------------- MODULE Mutex --------------------------------
(***************************************************************************)
(* What a sleep-lock promises ("Long-term locks for processes",            *)
(* sleeplock.h): processes that ask for it get it one at a time, and it    *)
(* does not stay free for ever while a process waits for it.               *)
(***************************************************************************)
CONSTANT Procs

VARIABLE at      \* where each process stands: idle, waiting or holding

Init == at = [p \in Procs |-> "idle"]

Ask(p) == at[p] = "idle" /\ at' = [at EXCEPT ![p] = "waiting"]

Grant(p) ==
  /\ at[p] = "waiting"
  /\ \A q \in Procs : at[q] # "holding"
  /\ at' = [at EXCEPT ![p] = "holding"]

Drop(p) == at[p] = "holding" /\ at' = [at EXCEPT ![p] = "idle"]

Next == \E p \in Procs : Ask(p) \/ Grant(p) \/ Drop(p)

Spec == Init /\ [][Next]_at

\* Some waiting process is served whenever the lock stays free; which one is
\* not promised.
FairSpec == Spec /\ WF_at(\E p \in Procs : Grant(p))
=============================================================================
