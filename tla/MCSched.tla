-------------------------------- MODULE MCSched --------------------------------
(***************************************************************************)
(* The spinlocks, the order in which they are taken, and the two           *)
(* schedulers.  A behaviour is one of a single part, and the other parts   *)
(* stay in their initial states.                                           *)
(***************************************************************************)
EXTENDS Locks

VARIABLES part,
  state, tickets, timeslice, counter, lcur, lpc, i, total_tickets, winner, moved, ran,
  ticks, ticking, proc, cur, at, embryo

orderVars == <<owner, rest>>
lotteryVars == <<state, tickets, timeslice, counter, lcur, lpc, i, total_tickets, winner,
                 moved, ran>>
priorityVars == <<ticks, ticking, proc, cur, at, embryo>>

\* Three processes on two CPUs; one of them blocks, each may give its tickets up.
lottery == INSTANCE Lottery WITH
  NPROC <- 3, NCPU <- 2, INTERV <- 2, Tickets <- {0}, Sleepers <- {2}, TICKETS0 <- 1,
  RAND_MAX <- 5, ULONG <- 16, cur <- lcur, pc <- lpc

\* Two slots, used again and again.
priority == INSTANCE Priority WITH
  NPROC <- 2, NCPU <- 1, Priorities <- {2}, SCALE <- 20, UINT <- 2, MaxTicks <- 2

SchedInit ==
  /\ part \in {"spinlock", "order", "lottery", "priority"}
  /\ Init /\ order!Init /\ lottery!Init /\ priority!Init

SchedNext ==
  \/ part = "spinlock" /\ Next /\ UNCHANGED <<part, orderVars, lotteryVars, priorityVars>>
  \/ part = "order" /\ order!Next /\ UNCHANGED <<part, vars, lotteryVars, priorityVars>>
  \/ part = "lottery" /\ lottery!Next /\ UNCHANGED <<part, vars, orderVars, priorityVars>>
  \/ part = "priority" /\ priority!Next /\ UNCHANGED <<part, vars, orderVars, lotteryVars>>

SchedSpec == SchedInit /\ [][SchedNext]_<<part, vars, orderVars, lotteryVars, priorityVars>>
-----------------------------------------------------------------------------

\* Lottery!RoundPicks: a round of scheduler() during which the table did not
\* change finds a process if one is RUNNABLE.
RoundPicks == part = "lottery" => lottery!RoundPicks

\* Lottery!Share: the chances of a process are proportional to its tickets, but
\* for one more ticket of the first of the table.
Share == part = "lottery" => lottery!Share

=============================================================================
