-------------------------------- MODULE MCSync --------------------------------
(***************************************************************************)
(* Processes that sleep and are woken: at a pipe, for a sleep-lock, and at  *)
(* the console.  A behaviour is one of a single part, and the other parts   *)
(* stay in their initial states.                                            *)
(***************************************************************************)
EXTENDS Blocking

VARIABLE part

lockVars == <<locked, pid, lk, ptable, state, chan, spc>>
consoleVars == <<input_buf, input_r, input_w, input_e, reads, ckilled, typed, line, unread>>

SyncInit ==
  /\ part \in {"pipe", "sleeplock", "console"}
  /\ Init /\ sleeplock!Init /\ console!Init

SyncNext ==
  \/ part = "pipe" /\ Next /\ UNCHANGED <<part, lockVars, consoleVars>>
  \/ part = "sleeplock" /\ sleeplock!Next /\ UNCHANGED <<part, vars, consoleVars>>
  \/ part = "console" /\ console!Next /\ UNCHANGED <<part, vars, lockVars>>

\* Fairness of module Pipe, and of the readers of module Console.
SyncSpec ==
  /\ SyncInit /\ [][SyncNext]_<<part, vars, lockVars, consoleVars>>
  /\ \A p \in Procs : SF_vars(part = "pipe" /\ run(p))
  /\ \A q \in Readers : SF_vars(part = "pipe" /\ (call(q) \/ pipeclose(q)))
  /\ \A p \in LineReaders :
       WF_consoleVars(part = "console" /\ (console!consoleread(p) \/ console!sleep(p)))
-----------------------------------------------------------------------------
\* Console!ReaderWoken: no reader sleeps on while there is a finished line.
ReaderWoken == console!ReaderWoken
=============================================================================
