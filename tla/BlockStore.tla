------------------------------ MODULE BlockStore ------------------------------
(***************************************************************************)
(* What the buffer cache promises its callers (the interface comment of    *)
(* bio.c): bread gives a process a block for itself, with the contents     *)
(* that were last given to that block, until brelse.                       *)
(***************************************************************************)
CONSTANTS Procs, Blocks, Data, NoBlock, NoData

VARIABLES
  content,    \* what was last stored in each block
  want,       \* the block each process has asked for
  has,        \* the block each process holds
  seen        \* the data a process has in its hands

vars == <<content, want, has, seen>>

Init ==
  /\ content \in [Blocks -> Data]
  /\ want = [p \in Procs |-> NoBlock]
  /\ has = [p \in Procs |-> NoBlock]
  /\ seen = [p \in Procs |-> NoData]

Ask(p) ==
  /\ want[p] = NoBlock /\ has[p] = NoBlock
  /\ \E k \in Blocks : want' = [want EXCEPT ![p] = k]
  /\ UNCHANGED <<content, has, seen>>

Grant(p) ==
  /\ want[p] # NoBlock
  /\ \A q \in Procs : has[q] # want[p]
  /\ has' = [has EXCEPT ![p] = want[p]]
  /\ want' = [want EXCEPT ![p] = NoBlock]
  /\ seen' = [seen EXCEPT ![p] = content[want[p]]]
  /\ UNCHANGED content

Store(p) ==
  /\ has[p] # NoBlock
  /\ \E v \in Data :
       /\ content' = [content EXCEPT ![has[p]] = v]
       /\ seen' = [seen EXCEPT ![p] = v]
  /\ UNCHANGED <<want, has>>

Drop(p) ==
  /\ has[p] # NoBlock
  /\ has' = [has EXCEPT ![p] = NoBlock]
  /\ seen' = [seen EXCEPT ![p] = NoData]
  /\ UNCHANGED <<content, want>>

Next == \E p \in Procs : Ask(p) \/ Grant(p) \/ Store(p) \/ Drop(p)

Spec == Init /\ [][Next]_vars
=============================================================================
