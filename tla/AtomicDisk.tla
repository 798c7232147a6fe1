------------------------------ MODULE AtomicDisk ------------------------------
(***************************************************************************)
(* What the log promises its callers: file system operations read and      *)
(* write blocks of one disk, and a crash takes the disk back to a state    *)
(* in which every operation has happened completely or not at all.         *)
(***************************************************************************)
CONSTANTS Procs, Blocks, Vals, InitVal

VARIABLES
  stable,    \* the blocks as they are after a crash now
  current,   \* the blocks as the operations see them
  active     \* the processes inside an operation

vars == <<stable, current, active>>

Init ==
  /\ stable = [b \in Blocks |-> InitVal]
  /\ current = stable
  /\ active = {}

Begin(p) ==
  /\ p \notin active
  /\ active' = active \cup {p}
  /\ UNCHANGED <<stable, current>>

Write(p, b, v) ==
  /\ p \in active
  /\ current' = [current EXCEPT ![b] = v]
  /\ UNCHANGED <<stable, active>>

End(p) ==
  /\ p \in active
  /\ active' = active \ {p}
  /\ UNCHANGED <<stable, current>>

\* Only whole operations become stable.
Commit ==
  /\ active = {}
  /\ stable' = current
  /\ UNCHANGED <<current, active>>

Crash ==
  /\ current' = stable
  /\ active' = {}
  /\ UNCHANGED stable

Next ==
  \/ \E p \in Procs : \/ Begin(p) \/ End(p)
                      \/ \E b \in Blocks, v \in Vals : Write(p, b, v)
  \/ Commit
  \/ Crash

Spec == Init /\ [][Next]_vars
=============================================================================
