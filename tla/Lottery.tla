------------------------------- MODULE Lottery -------------------------------
(***************************************************************************)
(* The lottery scheduler of proc.c (the default build): a CPU adds up the  *)
(* tickets of the RUNNABLE processes slot by slot without a lock, draws a  *)
(* number, and then searches the table for the winner with ptable.lock     *)
(* held.  The winner runs for a time slice of INTERV calls of yield.       *)
(*                                                                         *)
(* A critical section of ptable.lock is one step; module ProcTable has the *)
(* hand-off of the lock.  Of fork, exit and wait only the slot and its     *)
(* tickets are kept.                                                       *)
(***************************************************************************)
EXTENDS Integers, FiniteSetsExt

CONSTANTS NPROC, NCPU,
          INTERV,       \* the time slice
          Tickets,      \* what programs pass to set_tickets
          Sleepers,     \* bound: the slots whose processes block
          TICKETS0,     \* the tickets of a new process (10 in allocproc)
          RAND_MAX,     \* genrand() returns 0..RAND_MAX
          ULONG         \* unsigned long counts modulo ULONG

VARIABLES
  state, tickets, timeslice,   \* of each slot
  counter,    \* p->counter modulo 2
  cur,        \* c->proc
  pc,         \* where scheduler() is on each CPU
  i,          \* its loop variable while it adds up
  total_tickets, winner,       \* its other locals
  moved,      \* history: the table has changed since this round began
  ran         \* history: calls of yield since p was dispatched

table == <<state, tickets>>
locals == <<pc, i, total_tickets, winner>>
vars == <<table, timeslice, counter, cur, locals, moved, ran>>

Slots == 1..NPROC
cpus == 1..NCPU
\* userinit has made the first process RUNNABLE.
Init ==
  /\ state = [p \in Slots |-> IF p = 1 THEN "RUNNABLE" ELSE "UNUSED"]
  /\ tickets = [p \in Slots |-> IF p = 1 THEN TICKETS0 ELSE 0]
  /\ timeslice = [p \in Slots |-> 0]
  /\ counter = [p \in Slots |-> 0]
  /\ cur = [c \in cpus |-> 0]
  /\ pc = [c \in cpus |-> "tally"]
  /\ i = [c \in cpus |-> 1]
  /\ total_tickets = [c \in cpus |-> 0]
  /\ winner = [c \in cpus |-> 0]
  /\ moved = [c \in cpus |-> FALSE]
  /\ ran = [p \in Slots |-> 0]
-----------------------------------------------------------------------------
\* History: every CPU but c that is in the middle of a round sees a change.
Moves(c) == moved' = [d \in cpus |-> d # c /\ pc[d] # "process"]

\* The results random_at_most(max) can have; none when it divides by zero.
num_binsOver(max) == (max + 2) % ULONG
num_bins(max) == (max + 1) % ULONG
bin_size(max) == (RAND_MAX + 1) \div num_bins(max)
defect(max) == (RAND_MAX + 1) % num_bins(max)
random_at_most(max) ==
  IF num_bins(max) = 0 \/ bin_size(max) = 0 THEN {}
  ELSE {x \div bin_size(max) : x \in 0..(RAND_MAX - defect(max))}

\* The first loop of scheduler(): one slot, without ptable.lock.
tally(c) ==
  /\ pc[c] = "tally"
  /\ total_tickets' =
       [total_tickets EXCEPT ![c] = @ + IF state[i[c]] = "RUNNABLE"
                                        THEN tickets[i[c]] ELSE 0]
  /\ i' = [i EXCEPT ![c] = @ + 1]
  /\ pc' = [pc EXCEPT ![c] = IF i[c] = NPROC THEN "draw" ELSE "tally"]
  /\ UNCHANGED <<table, timeslice, counter, cur, winner, moved, ran>>

\* winner = random_at_most(total_tickets).  A divide error stops the CPU here.
draw(c) ==
  /\ pc[c] = "draw"
  /\ \E w \in random_at_most(total_tickets[c]) :
       winner' = [winner EXCEPT ![c] = w]
  /\ pc' = [pc EXCEPT ![c] = "search"]
  /\ UNCHANGED <<table, timeslice, counter, cur, i, total_tickets, moved, ran>>

Runnable == {p \in Slots : state[p] = "RUNNABLE"}

\* tickets_passed once the second loop has come to p.
tickets_passed(p) == MapThenSumSet(LAMBDA q : tickets[q], {q \in Runnable : q <= p})

ReachedStrict(w) == {p \in Runnable : tickets_passed(p) > w}

\* The processes the second loop would stop at, of which it takes the first.
Reached(w) == {p \in Runnable : tickets_passed(p) >= w}

\* The locals of the loop body end with it.
ClearLocals(c, l) ==
  /\ pc' = [pc EXCEPT ![c] = l]
  /\ i' = [i EXCEPT ![c] = 1]
  /\ total_tickets' = [total_tickets EXCEPT ![c] = 0]
  /\ winner' = [winner EXCEPT ![c] = 0]

\* The second loop, with ptable.lock, up to the swtch to the winner.
search(c) ==
  /\ pc[c] = "search"
  /\ Reached(winner[c]) # {}
  /\ LET p == Min(Reached(winner[c]))
     IN /\ cur' = [cur EXCEPT ![c] = p]
        /\ state' = [state EXCEPT ![p] = "RUNNING"]
        /\ counter' = [counter EXCEPT ![p] = 1 - @]
        /\ timeslice' = [timeslice EXCEPT ![p] = INTERV]
  /\ ClearLocals(c, "process")
  /\ Moves(c)
  /\ UNCHANGED <<tickets, ran>>

\* Nobody holds the winning number: release and start again.
searchFails(c) ==
  /\ pc[c] = "search"
  /\ Reached(winner[c]) = {}
  /\ ClearLocals(c, "tally")
  /\ moved' = [moved EXCEPT ![c] = FALSE]
  /\ UNCHANGED <<table, timeslice, counter, cur, ran>>
-----------------------------------------------------------------------------
\* sched(), with the process in state st, and scheduler() after its swtch.
sched(c, p, st) ==
  /\ state' = [state EXCEPT ![p] = st]
  /\ counter' = [counter EXCEPT ![p] = 1 - @]
  /\ cur' = [cur EXCEPT ![c] = 0]
  /\ ran' = [ran EXCEPT ![p] = 0]
  /\ ClearLocals(c, "tally")
  /\ Moves(c)

Running(c, p) == cur[c] = p


\* A timer interrupt or sys_yield.
yield(c, p) ==
  /\ Running(c, p)
  /\ timeslice' = [timeslice EXCEPT ![p] = @ - 1]
  /\ IF timeslice[p] = 1
     THEN sched(c, p, "RUNNABLE") /\ UNCHANGED tickets
     ELSE /\ ran' = [ran EXCEPT ![p] = @ + 1]
          /\ UNCHANGED <<table, counter, cur, locals, moved>>

\* sleep, and exit followed by the parent's wait.
sleep(c, p) ==
  /\ Running(c, p) /\ p \in Sleepers
  /\ sched(c, p, "SLEEPING")
  /\ UNCHANGED <<tickets, timeslice>>

exit(c, p) ==
  /\ Running(c, p) /\ p # 1
  /\ sched(c, p, "UNUSED")
  /\ UNCHANGED <<tickets, timeslice>>

wakeup(p) ==
  /\ state[p] = "SLEEPING"
  /\ state' = [state EXCEPT ![p] = "RUNNABLE"]
  /\ Moves(0)
  /\ UNCHANGED <<tickets, timeslice, counter, cur, locals, ran>>

\* fork: the child takes the first UNUSED slot, and what it left there.
fork(c, p) ==
  /\ Running(c, p)
  /\ \E s \in Slots :
       /\ state[s] = "UNUSED" /\ \A t \in 1..(s - 1) : state[t] # "UNUSED"
       /\ state' = [state EXCEPT ![s] = "RUNNABLE"]
       /\ tickets' = [tickets EXCEPT ![s] = TICKETS0]
  /\ Moves(0)
  /\ UNCHANGED <<timeslice, counter, cur, locals, ran>>

\* The store of sys_set_tickets, without a lock.
set_tickets(c, p, n) ==
  /\ Running(c, p)
  /\ tickets' = [tickets EXCEPT ![p] = n]
  /\ UNCHANGED <<state, timeslice, counter, cur, locals, moved, ran>>

schedStep(c) == tally(c) \/ draw(c) \/ search(c) \/ searchFails(c)

Next ==
  \/ \E c \in cpus :
       \/ schedStep(c)
       \/ \E p \in Slots : \/ yield(c, p) \/ sleep(c, p) \/ exit(c, p) \/ fork(c, p)
                           \/ \E n \in Tickets : set_tickets(c, p, n)
  \/ \E p \in Slots : wakeup(p)

Spec == Init /\ [][Next]_vars
-----------------------------------------------------------------------------

\* A round in which the table did not change finds a process if one is
\* RUNNABLE: only a total that has become stale makes a CPU search in vain.
RoundPicks ==
  \A c \in cpus :
    pc[c] = "search" /\ Runnable # {} /\ ~moved[c] => Reached(winner[c]) # {}

Wins(p, w) == Reached(w) # {} /\ Min(Reached(w)) = p

\* How many of the values of genrand() that random_at_most accepts make p win.
Draws(p) ==
  LET total == tickets_passed(NPROC)
  IN {x \in 0..(RAND_MAX - defect(total)) : Wins(p, x \div bin_size(total))}

\* The chances of a RUNNABLE process are proportional to its tickets, except
\* that the first of the table has one ticket more: it also wins on 0.
Share ==
  \A p \in Runnable :
    Cardinality(Draws(p)) =
      bin_size(tickets_passed(NPROC)) * (tickets[p] + IF p = Min(Runnable) THEN 1 ELSE 0)
=============================================================================
