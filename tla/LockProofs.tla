------------------------------ MODULE LockProofs ------------------------------
(***************************************************************************)
(* spinlock.c is correct on any number of CPUs and with any number of      *)
(* locks, with interrupts arriving whenever the interrupt flag lets them;  *)
(* and the order in which the kernel takes its spinlocks, sleep's          *)
(* included, lets no CPUs wait for each other.                             *)
(***************************************************************************)
EXTENDS Locks, Sequences, FiniteSetTheorems, TLAPS

\* The code that is not executing, the interrupted thread or the handler of a
\* CPU that is not interrupted, is not in acquire or release and holds nothing.
Suspended ==
  \A c \in Cpus, v \in Levels :
    v # Level(c) => pc[c][v] = "run" /\ held[c][v] = {}

\* Where the argument of acquire or release stands with respect to the locks
\* the caller holds.
Argument ==
  \A c \in Cpus, v \in Levels :
    /\ pc[c][v] # "run" => lk[c][v] \in Locks
    /\ pc[c][v] \in {"check", "xchg", "popcli"} => lk[c][v] \notin held[c][v]
    /\ pc[c][v] \in {"setcpu", "relcheck", "clearcpu", "unlock"}
         => lk[c][v] \in held[c][v]

\* lk->cpu names the holder except between its store and the exchange.
Owner ==
  \A l \in Locks, c \in Cpus :
    lcpu[l] = c <=>
      \E v \in Levels : /\ l \in held[c][v]
                        /\ ~(lk[c][v] = l /\ pc[c][v] \in {"setcpu", "unlock"})

\* cpu->ncli counts the locks held and the acquire or release on its way.
Pending(c) == IF pc[c][Level(c)] \in {"check", "xchg", "popcli"} THEN 1 ELSE 0
Nested(c) == ncli[c] = Cardinality(held[c][Level(c)]) + Pending(c)
Depth == \A c \in Cpus : Nested(c)

\* The interrupt flag is set exactly in a thread that holds no lock and is
\* taking none, and intena remembers whether to set it again.
Flag(c) == /\ IF_[c] <=> ~intr[c] /\ ncli[c] = 0
           /\ ncli[c] # 0 => (intena[c] <=> ~intr[c])
Flags == \A c \in Cpus : Flag(c)

Inv == /\ TypeOK /\ NoPanic /\ MutualExclusion
       /\ Suspended /\ Argument /\ Owner /\ Depth /\ Flags

\* Held sets are finite and their cardinality is a natural number.
LEMMA HeldFinite ==
  ASSUME NEW S \in SUBSET Locks
  PROVE  IsFiniteSet(S) /\ Cardinality(S) \in Nat /\ (Cardinality(S) = 0 <=> S = {})
BY LocksAssumption, FS_Subset, FS_CardinalityType, FS_EmptySet, ZenonT(30)

\* The invariant holds after initlock.
LEMMA InitInv == Init => Inv
<1> SUFFICES ASSUME Init PROVE Inv
  OBVIOUS
<1> USE NoCpuAssumption, LocksAssumption DEF Init, Levels, Level
<1>1. TypeOK /\ NoPanic
  BY DEF TypeOK, Locations, NoPanic
<1>2. MutualExclusion /\ Suspended /\ Argument /\ Owner
  BY DEF MutualExclusion, Suspended, Argument, Owner
<1>3. Depth /\ Flags
  BY FS_EmptySet DEF Depth, Nested, Pending, Flags, Flag
<1> QED BY <1>1, <1>2, <1>3 DEF Inv

\* What popcli does where it does not panic.
PopcliReturns(c) ==
  /\ ~IF_[c] /\ ncli[c] >= 1 /\ (intena[c] <=> ~intr[c])
  /\ At(c, "popcli")
  /\ ncli' = [ncli EXCEPT ![c] = @ - 1]
  /\ IF_' = [IF_ EXCEPT ![c] = ncli[c] = 1 /\ intena[c]]
  /\ lk' = [lk EXCEPT ![c][Level(c)] = 0]
  /\ Goto(c, "run")
  /\ UNCHANGED <<locked, lcpu, intena, intr, held>>

\* popcli finds interrupts off and an unmatched pushcli, so it returns.
LEMMA PopcliNested ==
  ASSUME Inv, NEW c \in Cpus, popcli(c)
  PROVE  PopcliReturns(c)
<1>1. held[c][Level(c)] \in SUBSET Locks
  BY DEF Inv, TypeOK, Levels, Level
<1>2. ncli[c] = Cardinality(held[c][Level(c)]) + 1
  BY DEF Inv, Depth, Nested, Pending, At, popcli
<1>3. ncli[c] >= 1
  BY <1>1, <1>2, HeldFinite
<1>4. ~IF_[c] /\ (intena[c] <=> ~intr[c])
  BY <1>3 DEF Inv, Flags, Flag, TypeOK
<1>5. IF_[c] = FALSE /\ ncli[c] \in Int
  BY <1>4 DEF Inv, TypeOK
<1> QED BY <1>3, <1>4, <1>5 DEF popcli, PopcliReturns

\* A CPU with interrupts enabled is in no acquire or release and holds nothing.
LEMMA Interruptible ==
  ASSUME Inv, NEW c \in Cpus, IF_[c]
  PROVE  /\ ~intr[c] /\ ncli[c] = 0
         /\ \A v \in Levels : pc[c][v] = "run" /\ held[c][v] = {}
<1>1. ~intr[c] /\ ncli[c] = 0
  BY DEF Inv, Flags, Flag
<1>2. held[c]["thread"] \in SUBSET Locks /\ pc[c]["thread"] \in Locations
  BY DEF Inv, TypeOK, Levels
<1>3. ncli[c] = Cardinality(held[c]["thread"]) + Pending(c) /\ Pending(c) \in {0, 1}
  BY <1>1 DEF Inv, Depth, Nested, Level, Pending
<1>4. held[c]["thread"] = {} /\ Pending(c) = 0
  BY <1>1, <1>2, <1>3, HeldFinite
<1>5. pc[c]["thread"] = "run"
  BY <1>1, <1>2, <1>4 DEF Inv, Argument, NoPanic, Pending, Level, Levels, Locations
<1> QED BY <1>1, <1>4, <1>5 DEF Inv, Suspended, Levels, Level

\* The caller of acquire passes its test.
LEMMA AcquirerFree ==
  ASSUME Inv, NEW c \in Cpus, At(c, "check")
  PROVE  ~holding(c, Lk(c))
<1> DEFINE w == Level(c)
<1>1. w \in Levels /\ pc[c][w] = "check" /\ lk[c][w] = Lk(c)
  BY DEF Level, Levels, At, Lk
<1>2. \A v \in Levels : v # w => held[c][v] = {}
  BY DEF Inv, Suspended
<1> HIDE DEF w
<1>3. Lk(c) \in Locks /\ Lk(c) \notin held[c][w]
  BY <1>1 DEF Inv, Argument
<1>4. lcpu[Lk(c)] # c
  BY <1>1, <1>2, <1>3 DEF Inv, Owner
<1> QED BY <1>4 DEF holding

\* The caller of release passes its test.
LEMMA ReleaserHolds ==
  ASSUME Inv, NEW c \in Cpus, At(c, "relcheck")
  PROVE  holding(c, Lk(c))
<1> DEFINE w == Level(c)
<1>1. w \in Levels /\ pc[c][w] = "relcheck" /\ lk[c][w] = Lk(c)
  BY DEF Level, Levels, At, Lk
<1> HIDE DEF w
<1>2. Lk(c) \in Locks /\ Lk(c) \in held[c][w]
  BY <1>1 DEF Inv, Argument
<1>3. locked[Lk(c)]
  BY <1>1, <1>2 DEF Inv, MutualExclusion
<1>4. lcpu[Lk(c)] = c
  BY <1>1, <1>2 DEF Inv, Owner
<1> QED BY <1>3, <1>4 DEF holding

\* Every step keeps the types, and none of them reaches a panic.
LEMMA TypeStep == Inv /\ [Next]_vars => TypeOK' /\ NoPanic'
<1> SUFFICES ASSUME Inv, [Next]_vars PROVE TypeOK' /\ NoPanic'
  OBVIOUS
<1>acq. \A c \in Cpus : acquireCheck(c) => ~holding(c, Lk(c))
  BY AcquirerFree DEF acquireCheck
<1>rel. \A c \in Cpus : releaseCheck(c) => holding(c, Lk(c))
  BY ReleaserHolds DEF releaseCheck
<1>pop. \A c \in Cpus : popcli(c) => PopcliReturns(c)
  BY PopcliNested, SMTT(30)
<1> USE NoCpuAssumption DEF Inv, TypeOK, NoPanic, Locations, Levels, Level, At, Goto, Lk, Held
<1>1. ASSUME NEW c \in Cpus, inLock(c) \/ interrupt(c) \/ iret(c)
                             \/ \E l \in Locks : acquire(c, l) \/ release(c, l)
      PROVE  TypeOK' /\ NoPanic'
  <2>1. CASE acquireCheck(c)
    <3>1. ~holding(c, Lk(c))
      BY <1>acq, <2>1
    <3> QED BY <2>1, <3>1 DEF acquireCheck
  <2>2. CASE xchg(c)
    <3>1. held' \in [Cpus -> [Levels -> SUBSET Locks]]
      BY <2>2 DEF xchg, Argument
    <3> QED BY <2>2, <3>1 DEF xchg
  <2>3. CASE acquireSetCpu(c)
    BY <2>3, ZenonT(30) DEF acquireSetCpu
  <2>4. CASE releaseCheck(c)
    <3>1. holding(c, Lk(c))
      BY <1>rel, <2>4
    <3> QED BY <2>4, <3>1 DEF releaseCheck
  <2>5. CASE releaseClearCpu(c)
    BY <2>5, ZenonT(30) DEF releaseClearCpu
  <2>6. CASE releaseUnlock(c)
    <3>1. held' \in [Cpus -> [Levels -> SUBSET Locks]]
      BY <2>6 DEF releaseUnlock
    <3> QED BY <2>6, <3>1, ZenonT(30) DEF releaseUnlock
  <2>7. CASE popcli(c)
    <3>1. PopcliReturns(c)
      BY <2>7, <1>pop
    <3>2. IF_' \in [Cpus -> BOOLEAN] /\ ncli' \in [Cpus -> Nat]
      BY <3>1 DEF PopcliReturns
    <3>3. lk' \in [Cpus -> [Levels -> Locks \cup {0}]]
      BY <3>1 DEF PopcliReturns
    <3>4. pc' \in [Cpus -> [Levels -> Locations]] /\ NoPanic'
      BY <3>1 DEF PopcliReturns
    <3> QED BY <3>1, <3>2, <3>3, <3>4 DEF PopcliReturns
  <2>8. CASE interrupt(c)
    BY <2>8 DEF interrupt
  <2>9. CASE iret(c)
    BY <2>9 DEF iret
  <2>10. ASSUME NEW l \in Locks, acquire(c, l)
        PROVE  TypeOK' /\ NoPanic'
    BY <2>10 DEF acquire, pushcli
  <2>11. ASSUME NEW l \in Locks, release(c, l)
        PROVE  TypeOK' /\ NoPanic'
    BY <2>11 DEF release
  <2> QED BY <1>1, <2>1, <2>2, <2>3, <2>4, <2>5, <2>6, <2>7, <2>8, <2>9, <2>10, <2>11 DEF inLock
<1>2. CASE UNCHANGED vars
  BY <1>2, SMTT(30) DEF vars
<1> QED BY <1>1, <1>2 DEF Next

\* Every step keeps what is said of the locks and of the arguments.
LEMMA LockStep ==
  Inv /\ [Next]_vars => MutualExclusion' /\ Suspended' /\ Argument' /\ Owner'
<1> SUFFICES ASSUME Inv, [Next]_vars
             PROVE  MutualExclusion' /\ Suspended' /\ Argument' /\ Owner'
  OBVIOUS
<1>pop. \A c \in Cpus : popcli(c) => PopcliReturns(c)
  BY PopcliNested
<1> USE NoCpuAssumption, LocksAssumption
    DEF Inv, TypeOK, Levels, Level, At, Goto, Lk, Held, MutualExclusion, Suspended, Argument, Owner
<1>1. ASSUME NEW c \in Cpus, inLock(c) \/ interrupt(c) \/ iret(c)
                             \/ \E l \in Locks : acquire(c, l) \/ release(c, l)
      PROVE  MutualExclusion' /\ Suspended' /\ Argument' /\ Owner'
  <2>1. CASE acquireCheck(c)
    <3>1. MutualExclusion'
      BY <2>1, SMTT(30) DEF acquireCheck, holding
    <3>2. Suspended'
      BY <2>1 DEF acquireCheck, holding
    <3>3. Argument'
      BY <2>1 DEF acquireCheck, holding
    <3>4. Owner'
      BY <2>1, SMTT(30) DEF acquireCheck, holding
    <3> QED BY <3>1, <3>2, <3>3, <3>4
  <2>2. CASE xchg(c)
    <3>1. MutualExclusion'
      BY <2>2 DEF xchg
    <3>2. Suspended'
      BY <2>2 DEF xchg
    <3>3. Argument'
      BY <2>2 DEF xchg
    <3>4. Owner'
      BY <2>2 DEF xchg
    <3> QED BY <3>1, <3>2, <3>3, <3>4
  <2>3. CASE acquireSetCpu(c)
    <3>1. MutualExclusion'
      BY <2>3 DEF acquireSetCpu
    <3>2. Suspended'
      BY <2>3 DEF acquireSetCpu
    <3>3. Argument'
      BY <2>3 DEF acquireSetCpu
    <3>4. Owner'
      BY <2>3 DEF acquireSetCpu
    <3> QED BY <3>1, <3>2, <3>3, <3>4
  <2>4. CASE releaseCheck(c)
    <3>1. MutualExclusion'
      BY <2>4 DEF releaseCheck, holding
    <3>2. Suspended'
      BY <2>4 DEF releaseCheck, holding
    <3>3. Argument'
      BY <2>4 DEF releaseCheck, holding
    <3>4. Owner'
      BY <2>4 DEF releaseCheck, holding
    <3> QED BY <3>1, <3>2, <3>3, <3>4
  <2>5. CASE releaseClearCpu(c)
    <3>1. MutualExclusion'
      BY <2>5 DEF releaseClearCpu
    <3>2. Suspended'
      BY <2>5 DEF releaseClearCpu
    <3>3. Argument'
      BY <2>5 DEF releaseClearCpu
    <3>4. Owner'
      BY <2>5, SMTT(30) DEF releaseClearCpu
    <3> QED BY <3>1, <3>2, <3>3, <3>4
  <2>6. CASE releaseUnlock(c)
    <3>1. MutualExclusion'
      BY <2>6, SMTT(30) DEF releaseUnlock
    <3>2. Suspended'
      BY <2>6 DEF releaseUnlock
    <3>3. Argument'
      BY <2>6 DEF releaseUnlock
    <3>4. Owner'
      BY <2>6 DEF releaseUnlock
    <3> QED BY <3>1, <3>2, <3>3, <3>4
  <2>7. CASE popcli(c)
    <3>0. PopcliReturns(c)
      BY <2>7, <1>pop
    <3>1. MutualExclusion'
      BY <3>0 DEF PopcliReturns
    <3>2. Suspended'
      BY <3>0 DEF PopcliReturns
    <3>3. Argument'
      BY <3>0 DEF PopcliReturns
    <3>4. Owner'
      BY <3>0, SMTT(30) DEF PopcliReturns
    <3> QED BY <3>1, <3>2, <3>3, <3>4
  <2>8. CASE interrupt(c)
    <3>1. MutualExclusion'
      BY <2>8, Interruptible, SMTT(30) DEF interrupt
    <3>2. Suspended'
      BY <2>8, Interruptible, SMTT(30) DEF interrupt
    <3>3. Argument'
      BY <2>8, Interruptible, SMTT(30) DEF interrupt
    <3>4. Owner'
      BY <2>8, Interruptible, SMTT(30) DEF interrupt
    <3> QED BY <3>1, <3>2, <3>3, <3>4
  <2>9. CASE iret(c)
    <3>1. MutualExclusion'
      BY <2>9, HeldFinite, SMTT(30) DEF Depth, Pending, Flags, NoPanic, iret
    <3>2. Suspended'
      BY <2>9, HeldFinite, SMTT(30) DEF Depth, Pending, Flags, NoPanic, iret
    <3>3. Argument'
      BY <2>9, HeldFinite DEF Depth, Pending, Flags, NoPanic, iret
    <3>4. Owner'
      BY <2>9, HeldFinite, SMTT(30) DEF Depth, Pending, Flags, NoPanic, iret
    <3> QED BY <3>1, <3>2, <3>3, <3>4
  <2>10. ASSUME NEW l \in Locks, acquire(c, l)
        PROVE  MutualExclusion' /\ Suspended' /\ Argument' /\ Owner'
    <3>1. MutualExclusion'
      BY <2>10 DEF acquire, pushcli
    <3>2. Suspended'
      BY <2>10, SMTT(30) DEF acquire, pushcli
    <3>3. Argument'
      BY <2>10, SMTT(30) DEF acquire, pushcli
    <3>4. Owner'
      BY <2>10, SMTT(30) DEF acquire, pushcli
    <3> QED BY <3>1, <3>2, <3>3, <3>4, SMTT(30)
  <2>11. ASSUME NEW l \in Locks, release(c, l)
        PROVE  MutualExclusion' /\ Suspended' /\ Argument' /\ Owner'
    <3>1. MutualExclusion'
      BY <2>11 DEF release
    <3>2. Suspended'
      BY <2>11, SMTT(30) DEF release
    <3>3. Argument'
      BY <2>11, SMTT(30) DEF release
    <3>4. Owner'
      BY <2>11, SMTT(30) DEF release
    <3> QED BY <3>1, <3>2, <3>3, <3>4
  <2> QED BY <1>1, <2>1, <2>2, <2>3, <2>4, <2>5, <2>6, <2>7, <2>8, <2>9, Zenon,
             <2>10, <2>11, ZenonT(30) DEF inLock
<1>2. CASE UNCHANGED vars
  BY <1>2 DEF vars
<1> QED BY <1>1, <1>2, SMTT(30) DEF Next

\* Every step keeps the count of pushcli calls and the flag in agreement.
LEMMA FlagStep == Inv /\ [Next]_vars => Depth' /\ Flags'
<1> SUFFICES ASSUME Inv, [Next]_vars PROVE Depth' /\ Flags'
  OBVIOUS
<1> USE DEF Levels, At, Goto, Lk, Held
<1>1. ASSUME NEW c \in Cpus, inLock(c) \/ interrupt(c) \/ iret(c)
                             \/ \E l \in Locks : acquire(c, l) \/ release(c, l)
      PROVE  Depth' /\ Flags'
  <2>1. /\ Nested(c) /\ Flag(c) /\ Pending(c) \in {0, 1} /\ ncli[c] \in Int
        /\ held[c][Level(c)] \in SUBSET Locks /\ Level(c) \in Levels
        /\ pc[c] \in [Levels -> Locations] /\ held[c] \in [Levels -> SUBSET Locks]
        /\ pc \in [Cpus -> [Levels -> Locations]]
        /\ held \in [Cpus -> [Levels -> SUBSET Locks]]
        /\ IF_ \in [Cpus -> BOOLEAN] /\ intena \in [Cpus -> BOOLEAN]
        /\ intr \in [Cpus -> BOOLEAN] /\ ncli \in [Cpus -> Nat]
    BY DEF Inv, TypeOK, Depth, Flags, Level, Pending
  <2>2. Cardinality(held[c][Level(c)]) \in Nat
    BY <2>1, HeldFinite
  <2>3. Nested(c)' /\ Flag(c)'
    <3>1. CASE acquireCheck(c)
      <4>1. pc'[c][Level(c)'] = "xchg"
        BY <2>1, <3>1, TypeStep DEF acquireCheck, NoPanic, Level
      <4> QED BY <2>1, <3>1, <4>1, SMTT(30) DEF acquireCheck, Nested, Flag, Pending, Level
    <3>2. CASE xchg(c)
      <4>1. Lk(c) \in Locks /\ Lk(c) \notin Held(c)
        BY <2>1, <3>2, SMTT(30) DEF xchg, Inv, Argument
      <4>2. Cardinality(Held(c) \cup {Lk(c)}) = Cardinality(Held(c)) + 1
        BY <2>1, <4>1, HeldFinite, FS_AddElement, SMTT(30)
      <4>3. Held(c)' = Held(c) \cup {Lk(c)} /\ Pending(c) = 1 /\ Pending(c)' = 0
        BY <2>1, <3>2 DEF xchg, Pending, Level
      <4>4. ncli' = ncli /\ IF_' = IF_ /\ intena' = intena /\ intr' = intr
        BY <3>2 DEF xchg
      <4>5. Nested(c)'
        BY <2>1, <2>2, <4>2, <4>3, <4>4 DEF Nested
      <4> QED BY <2>1, <4>4, <4>5, SMTT(30) DEF Flag
    <3>3. CASE acquireSetCpu(c)
      BY <2>1, <3>3, SMTT(30) DEF acquireSetCpu, Nested, Flag, Pending, Level
    <3>4. CASE releaseCheck(c)
      BY <2>1, <3>4, SMTT(30) DEF releaseCheck, Nested, Flag, Pending, Level
    <3>5. CASE releaseClearCpu(c)
      BY <2>1, <3>5, SMTT(30) DEF releaseClearCpu, Nested, Flag, Pending, Level
    <3>6. CASE releaseUnlock(c)
      <4>1. Lk(c) \in Held(c)
        BY <2>1, <3>6, SMTT(30) DEF releaseUnlock, Inv, Argument
      <4>2. Cardinality(Held(c) \ {Lk(c)}) = Cardinality(Held(c)) - 1
        BY <2>1, <4>1, HeldFinite, FS_RemoveElement, SMTT(30)
      <4>3. Held(c)' = Held(c) \ {Lk(c)} /\ Pending(c) = 0 /\ Pending(c)' = 1
        BY <2>1, <3>6 DEF releaseUnlock, Pending, Level
      <4>4. ncli' = ncli /\ IF_' = IF_ /\ intena' = intena /\ intr' = intr
        BY <3>6 DEF releaseUnlock
      <4>5. Nested(c)'
        BY <2>1, <2>2, <4>2, <4>3, <4>4, SMTT(30) DEF Nested
      <4> QED BY <2>1, <4>4, <4>5 DEF Flag
    <3>7. CASE popcli(c)
      <4>1. PopcliReturns(c)
        BY <3>7, PopcliNested
      <4>2. Held(c)' = Held(c) /\ Pending(c) = 1 /\ Pending(c)' = 0
        BY <2>1, <4>1 DEF PopcliReturns, Pending, Level
      <4>3. ncli'[c] = ncli[c] - 1 /\ (IF_'[c] <=> ncli[c] = 1 /\ intena[c])
        BY <2>1, <4>1 DEF PopcliReturns
      <4> QED BY <2>1, <2>2, <4>1, <4>2, <4>3 DEF PopcliReturns, Nested, Flag
    <3>8. CASE interrupt(c)
      <4>1. ncli[c] = 0 /\ pc[c]["handler"] = "run" /\ held[c]["handler"] = {}
        BY <3>8, Interruptible DEF interrupt
      <4>2. ncli'[c] = 0 /\ ~IF_'[c] /\ intr'[c] /\ pc' = pc /\ held' = held
        BY <2>1, <3>8, <4>1 DEF interrupt
      <4> QED BY <4>1, <4>2, FS_EmptySet DEF Nested, Flag, Pending, Level
    <3>9. CASE iret(c)
      <4>1. pc[c]["thread"] = "run" /\ held[c]["thread"] = {} /\ ncli[c] = 0
        BY <2>1, <3>9, FS_EmptySet DEF iret, Inv, Suspended, Nested, Pending, Level
      <4> QED BY <2>1, <3>9, <4>1, FS_EmptySet, ZenonT(30) DEF iret, Nested, Flag, Pending, Level
    <3>10. ASSUME NEW l \in Locks, acquire(c, l)
           PROVE  Nested(c)' /\ Flag(c)'
      <4>1. Held(c)' = Held(c) /\ Pending(c) = 0 /\ Pending(c)' = 1
        BY <2>1, <3>10 DEF acquire, pushcli, Pending, Level
      <4> QED BY <2>1, <2>2, <3>10, <4>1 DEF acquire, pushcli, Nested, Flag
    <3>11. ASSUME NEW l \in Locks, release(c, l)
           PROVE  Nested(c)' /\ Flag(c)'
      BY <2>1, <3>11, SMTT(30) DEF release, Nested, Flag, Pending, Level
    <3> QED BY <1>1, <3>1, <3>2, <3>3, <3>4, <3>5, <3>6, <3>7, <3>8, <3>9, <3>10, <3>11, SMTT(30)
            DEF inLock
  <2>4. \A d \in Cpus \ {c} :
          /\ held'[d] = held[d] /\ pc'[d] = pc[d] /\ ncli'[d] = ncli[d]
          /\ IF_'[d] = IF_[d] /\ intena'[d] = intena[d] /\ intr'[d] = intr[d]
    BY <1>1, <2>1, ZenonT(30) DEF inLock, acquireCheck, xchg, acquireSetCpu, releaseCheck,
       releaseClearCpu, releaseUnlock, popcli, interrupt, iret, acquire, pushcli, release
  <2>5. \A d \in Cpus \ {c} : Nested(d)' /\ Flag(d)'
    BY <2>4 DEF Inv, Depth, Flags, Nested, Flag, Pending, Level
  <2> QED BY <2>3, <2>5 DEF Depth, Flags
<1>2. CASE UNCHANGED vars
  BY <1>2 DEF vars, Inv, Depth, Flags, Nested, Flag, Pending, Level
<1> QED BY <1>1, <1>2 DEF Next

\* Every step keeps the invariant.
LEMMA InvStep == Inv /\ [Next]_vars => Inv'
BY TypeStep, LockStep, FlagStep DEF Inv
-----------------------------------------------------------------------------
\* The invariant holds in every reachable state.
THEOREM Invariance == Spec => []Inv
BY InitInv, InvStep, PTL DEF Spec

\* The variables of spinlock.c keep their types.
THEOREM TypeCorrect == Spec => []TypeOK
<1>1. Inv => TypeOK
  BY DEF Inv
<1> QED BY <1>1, Invariance, PTL

\* A spinlock has at most one holder among all threads and handlers of all
\* CPUs, and lk->locked says whether it has one.
THEOREM MutexSafe == Spec => []MutualExclusion
<1>1. Inv => MutualExclusion
  BY DEF Inv
<1> QED BY <1>1, Invariance, PTL

\* The panics of acquire, release and popcli are unreachable for a caller that
\* takes its locks in order and releases only what it holds.
THEOREM PanicFree == Spec => []NoPanic
<1>1. Inv => NoPanic
  BY DEF Inv
<1> QED BY <1>1, Invariance, PTL

\* A CPU that holds a spinlock has interrupts disabled.
THEOREM InterruptsSafe == Spec => []InterruptsOff
<1>1. Inv => InterruptsOff
  BY Interruptible DEF InterruptsOff
<1> QED BY <1>1, Invariance, PTL

\* Nested acquire and release leave the interrupt flag as they found it.
THEOREM FlagSafe == Spec => []FlagRestored
<1>1. Inv => FlagRestored
  BY DEF Inv, Flags, Flag, FlagRestored
<1> QED BY <1>1, Invariance, PTL
-----------------------------------------------------------------------------
(* The order of the kernel's spinlocks.                                    *)

A(l) == order!A(l)
R(l) == order!R(l)

\* A lock is only taken under locks of a lower rank.
Rank(l) == IF l = "kmem" THEN 2 ELSE IF l = "ptable" THEN 1 ELSE 0

\* A CPU that holds the locks H may have s left of its path.
Underway(H, s) ==
  \/ H = {} /\ (s = <<>> \/ s \in order!Paths)
  \/ \E l \in order!SleepLocks :
       \/ H = {l} /\ s \in {<<A("ptable"), R(l), R("ptable")>>,
                            <<A("ptable"), R("ptable"), R(l)>>, <<R(l)>>}
       \/ H = {l, "ptable"} /\ s \in {<<R(l), R("ptable")>>, <<R("ptable"), R(l)>>}
  \/ H = {"ticks"} /\ s = <<A("ptable"), R("ptable"), A("ptable"), R("ptable"), R("ticks")>>
  \/ H = {"ticks", "ptable"} /\ s = <<R("ptable"), A("ptable"), R("ptable"), R("ticks")>>
  \/ H = {"ptable"} /\ s \in {<<R("ptable")>>, <<A("kmem"), R("kmem"), R("ptable")>>}
  \/ H = {"ptable", "kmem"} /\ s = <<R("kmem"), R("ptable")>>

Owned(c) == {l \in order!SpinLocks : owner[l] = c}

OrderInv ==
  /\ owner \in [order!SpinLocks -> OrderCpus \cup {NoCpu}]
  /\ rest = [c \in OrderCpus |-> rest[c]]
  /\ \A c \in OrderCpus : Underway(Owned(c), rest[c])

\* The first step of a path, with the locks that are held before and after it.
Advances(H, s) ==
  \E l \in order!SpinLocks :
    \/ /\ Head(s) = A(l) /\ l \notin H /\ \A m \in H : Rank(m) < Rank(l)
       /\ Underway(H \cup {l}, Tail(s))
    \/ Head(s) = R(l) /\ l \in H /\ Underway(H \ {l}, Tail(s))

\* Every path takes locks in the order of their ranks and gives back what it took.
LEMMA PathAdvances ==
  ASSUME NEW H, NEW s, Underway(H, s), s # <<>>
  PROVE  Advances(H, s)
<1> USE DEF A, R, order!A, order!R
<1>l. \A l \in order!SleepLocks : l \in order!SpinLocks /\ l # "ptable" /\ l # "kmem" /\ Rank(l) = 0
  BY DEF order!SleepLocks, order!SpinLocks, Rank
<1>k. /\ "ptable" \in order!SpinLocks /\ "kmem" \in order!SpinLocks /\ "ticks" \in order!SleepLocks
      /\ Rank("ptable") = 1 /\ Rank("kmem") = 2
  BY DEF order!SleepLocks, order!SpinLocks, Rank
<1>1. ASSUME NEW l \in order!SleepLocks, H = {}, s \in {order!sleep(l), order!wakeup(l)}
      PROVE  Advances(H, s)
  <2>1. Head(s) = A(l) /\ Tail(s) \in {<<A("ptable"), R(l), R("ptable")>>,
                                       <<A("ptable"), R("ptable"), R(l)>>}
    <3>1. CASE s = order!sleep(l)  BY <3>1 DEF order!sleep
    <3>2. CASE s = order!wakeup(l)  BY <3>2 DEF order!wakeup
    <3> QED  BY <1>1, <3>1, <3>2
  <2>2. Underway(H \cup {l}, Tail(s))  BY <1>1, <2>1 DEF Underway
  <2> QED  BY <1>1, <1>l, <2>1, <2>2, Zenon DEF Advances
<1>2. CASE H = {} /\ s = order!timer
  <2>1. Head(s) = A("ticks") /\ Tail(s) = <<A("ptable"), R("ptable"), A("ptable"), R("ptable"), R("ticks")>>
    BY <1>2 DEF order!timer
  <2>2. Underway(H \cup {"ticks"}, Tail(s))  BY <1>2, <2>1 DEF Underway
  <2> QED  BY <1>2, <1>l, <1>k, <2>1, <2>2, Zenon DEF Advances
<1>3. CASE H = {} /\ s \in {order!wait, order!scheduler, order!allocproc}
  <2>1. Head(s) = A("ptable") /\ Tail(s) \in {<<R("ptable")>>, <<A("kmem"), R("kmem"), R("ptable")>>}
    <3>1. CASE s = order!wait  BY <3>1 DEF order!wait
    <3>2. order!scheduler = <<A("ptable"), R("ptable")>> /\ order!allocproc = <<A("ptable"), R("ptable")>>
      BY Zenon DEF order!scheduler, order!allocproc
    <3>3. CASE s = <<A("ptable"), R("ptable")>>  BY <3>3
    <3> QED  BY <1>3, <3>1, <3>2, <3>3
  <2>2. Underway(H \cup {"ptable"}, Tail(s))  BY <1>3, <2>1 DEF Underway
  <2> QED  BY <1>3, <1>k, <2>1, <2>2, Zenon DEF Advances
<1>4. ASSUME NEW l \in order!SleepLocks, H = {l},
             s \in {<<A("ptable"), R(l), R("ptable")>>, <<A("ptable"), R("ptable"), R(l)>>}
      PROVE  Advances(H, s)
  <2>1. Head(s) = A("ptable") /\ Tail(s) \in {<<R(l), R("ptable")>>, <<R("ptable"), R(l)>>}
    <3>1. CASE s = <<A("ptable"), R(l), R("ptable")>>  BY <3>1
    <3>2. CASE s = <<A("ptable"), R("ptable"), R(l)>>  BY <3>2
    <3> QED  BY <1>4, <3>1, <3>2
  <2>2. Underway({l, "ptable"}, Tail(s))  BY <2>1 DEF Underway
  <2>3. H \cup {"ptable"} = {l, "ptable"}  BY <1>4
  <2>4. "ptable" \notin H /\ \A m \in H : Rank(m) < Rank("ptable")  BY <1>4, <1>l, <1>k
  <2> QED  BY <1>k, <2>1, <2>2, <2>3, <2>4, Zenon DEF Advances
<1>5. ASSUME NEW l \in order!SleepLocks, H = {l}, s = <<R(l)>> PROVE Advances(H, s)
  <2>1. Head(s) = R(l) /\ Tail(s) = <<>>  BY <1>5
  <2>2. Underway(H \ {l}, Tail(s))  BY <1>5, <2>1 DEF Underway
  <2> QED  BY <1>5, <1>l, <2>1, <2>2, Zenon DEF Advances
<1>6. ASSUME NEW l \in order!SleepLocks, H = {l, "ptable"}, s = <<R(l), R("ptable")>>
      PROVE  Advances(H, s)
  <2>1. Head(s) = R(l) /\ Tail(s) = <<R("ptable")>>  BY <1>6
  <2>2. Underway({"ptable"}, Tail(s))  BY <2>1 DEF Underway
  <2>3. H \ {l} = {"ptable"} /\ l \in H /\ l \in order!SpinLocks  BY <1>6, <1>l
  <2> QED  BY <2>1, <2>2, <2>3, Zenon DEF Advances
<1>7. ASSUME NEW l \in order!SleepLocks, H = {l, "ptable"}, s = <<R("ptable"), R(l)>>
      PROVE  Advances(H, s)
  <2>1. Head(s) = R("ptable") /\ Tail(s) = <<R(l)>>  BY <1>7
  <2>2. Underway({l}, Tail(s))  BY <2>1 DEF Underway
  <2>3. H \ {"ptable"} = {l}  BY <1>7, <1>l
  <2> QED  BY <1>7, <1>k, <2>1, <2>2, <2>3, Zenon DEF Advances
<1>8. CASE H = {"ticks"} /\ s = <<A("ptable"), R("ptable"), A("ptable"), R("ptable"), R("ticks")>>
  <2>1. Head(s) = A("ptable") /\ Tail(s) = <<R("ptable"), A("ptable"), R("ptable"), R("ticks")>>
    BY <1>8
  <2>2. Underway({"ticks", "ptable"}, Tail(s))  BY <2>1 DEF Underway
  <2>3. H \cup {"ptable"} = {"ticks", "ptable"}  BY <1>8
  <2>4. "ptable" \notin H /\ \A m \in H : Rank(m) < Rank("ptable")  BY <1>8, <1>l, <1>k
  <2> QED  BY <1>k, <2>1, <2>2, <2>3, <2>4, Zenon DEF Advances
<1>9. CASE H = {"ticks", "ptable"} /\ s = <<R("ptable"), A("ptable"), R("ptable"), R("ticks")>>
  <2>1. Head(s) = R("ptable") /\ Tail(s) = <<A("ptable"), R("ptable"), R("ticks")>>  BY <1>9
  <2>2. Underway({"ticks"}, Tail(s))  BY <1>k, <2>1 DEF Underway
  <2>3. H \ {"ptable"} = {"ticks"} /\ "ptable" \in H  BY <1>9
  <2> QED  BY <1>k, <2>1, <2>2, <2>3, Zenon DEF Advances
<1>10. CASE H = {"ptable"} /\ s = <<R("ptable")>>
  <2>1. Head(s) = R("ptable") /\ Tail(s) = <<>>  BY <1>10
  <2>2. Underway(H \ {"ptable"}, Tail(s))  BY <1>10, <2>1 DEF Underway
  <2> QED  BY <1>10, <1>k, <2>1, <2>2, Zenon DEF Advances
<1>11. CASE H = {"ptable"} /\ s = <<A("kmem"), R("kmem"), R("ptable")>>
  <2>1. Head(s) = A("kmem") /\ Tail(s) = <<R("kmem"), R("ptable")>>  BY <1>11
  <2>2. Underway({"ptable", "kmem"}, Tail(s))  BY <2>1 DEF Underway
  <2>3. H \cup {"kmem"} = {"ptable", "kmem"}  BY <1>11
  <2>4. "kmem" \notin H /\ \A m \in H : Rank(m) < Rank("kmem")  BY <1>11, <1>k
  <2> QED  BY <1>k, <2>1, <2>2, <2>3, <2>4, Zenon DEF Advances
<1>12. CASE H = {"ptable", "kmem"} /\ s = <<R("kmem"), R("ptable")>>
  <2>1. Head(s) = R("kmem") /\ Tail(s) = <<R("ptable")>>  BY <1>12
  <2>2. Underway({"ptable"}, Tail(s))  BY <2>1 DEF Underway
  <2>3. H \ {"kmem"} = {"ptable"}  BY <1>12
  <2> QED  BY <1>12, <1>k, <2>1, <2>2, <2>3, Zenon DEF Advances
<1> HIDE DEF A, R, order!A, order!R
<1>13. CASE H = {} /\ s \in order!Paths
  BY <1>13, <1>1, <1>2, <1>3, Zenon DEF order!Paths
<1> QED
  BY <1>4, <1>5, <1>6, <1>7, <1>8, <1>9, <1>10, <1>11, <1>12, <1>13 DEF Underway

\* Every step of the CPUs keeps the invariant.
LEMMA OrderStep ==
  ASSUME OrderInv, [order!Next]_(order!vars)
  PROVE  OrderInv'
<1> USE OrderCpusAssumption
<1>1. CASE UNCHANGED order!vars
  BY <1>1 DEF order!vars, OrderInv, Owned
<1>2. ASSUME NEW c \in OrderCpus, order!enter(c) PROVE OrderInv'
  <2>1. PICK path \in order!Paths : rest[c] = <<>> /\ rest' = [rest EXCEPT ![c] = path] /\ owner' = owner
    BY <1>2, Zenon DEF order!enter
  <2>2. Underway(Owned(c), <<>>)  BY <2>1 DEF OrderInv
  <2>3. Owned(c) = {}  BY <2>2 DEF Underway, order!Paths
  <2> QED  BY <2>1, <2>3 DEF OrderInv, Underway, Owned
<1>3. ASSUME NEW c \in OrderCpus, NEW l \in order!SpinLocks, order!acquire(c, l) \/ order!release(c, l)
      PROVE  OrderInv'
  <2>1. /\ rest[c] # <<>> /\ rest' = [rest EXCEPT ![c] = Tail(rest[c])]
        /\ rest = [d \in OrderCpus |-> rest[d]]
    BY <1>3 DEF order!acquire, order!release, order!Does, OrderInv
  <2>2. Advances(Owned(c), rest[c])  BY <2>1, PathAdvances DEF OrderInv
  <2>3. CASE order!acquire(c, l)
    <3>1. Head(rest[c]) = A(l) /\ owner[l] = NoCpu /\ owner' = [owner EXCEPT ![l] = c]
      BY <2>3 DEF order!acquire, order!Does, A, order!A
    <3>2. Underway(Owned(c) \cup {l}, Tail(rest[c]))
      BY <2>2, <3>1 DEF Advances, A, R, order!A, order!R
    <3>3. Owned(c)' = Owned(c) \cup {l}  BY <3>1 DEF Owned, OrderInv
    <3>4. \A d \in OrderCpus : d # c => Owned(d)' = Owned(d)
      BY <3>1 DEF Owned, OrderInv
    <3>5. owner' \in [order!SpinLocks -> OrderCpus \cup {NoCpu}]  BY <3>1 DEF OrderInv
    <3> QED  BY <2>1, <3>2, <3>3, <3>4, <3>5, Zenon DEF OrderInv
  <2>4. CASE order!release(c, l)
    <3>1. Head(rest[c]) = R(l) /\ owner' = [owner EXCEPT ![l] = NoCpu]
      BY <2>4 DEF order!release, order!Does, R, order!R
    <3>2. l \in Owned(c) /\ Underway(Owned(c) \ {l}, Tail(rest[c]))
      BY <2>2, <3>1 DEF Advances, A, R, order!A, order!R
    <3>3. Owned(c)' = Owned(c) \ {l}  BY <3>1 DEF Owned, OrderInv
    <3>4. \A d \in OrderCpus : d # c => Owned(d)' = Owned(d)
      BY <3>1, <3>2 DEF Owned, OrderInv
    <3>5. owner' \in [order!SpinLocks -> OrderCpus \cup {NoCpu}]  BY <3>1 DEF OrderInv
    <3> QED  BY <2>1, <3>2, <3>3, <3>4, <3>5, Zenon DEF OrderInv
  <2> QED  BY <1>3, <2>3, <2>4
<1> QED  BY <1>1, <1>2, <1>3 DEF order!Next

\* In the default build no group of CPUs waits for each other's spinlocks, however
\* many CPUs there are: whoever waits for a lock holds only locks of lower ranks.
THEOREM NoDeadlockSafe == order!Spec => []NoDeadlock
<1>1. ASSUME order!Init PROVE OrderInv
  <2>1. /\ owner = [l \in order!SpinLocks |-> NoCpu] /\ rest = [c \in OrderCpus |-> <<>>]
    BY <1>1 DEF order!Init
  <2>2. \A c \in OrderCpus : Owned(c) = {}  BY <2>1, OrderCpusAssumption DEF Owned
  <2>3. Underway({}, <<>>)  BY DEF Underway
  <2> QED  BY <2>1, <2>2, <2>3, Zenon DEF OrderInv
<1>2. OrderInv /\ [order!Next]_(order!vars) => OrderInv'  BY OrderStep
<1>3. OrderInv => NoDeadlock
  <2> SUFFICES ASSUME OrderInv, NEW S \in (SUBSET OrderCpus) \ {{}},
                      \A c \in S : \E l \in order!SpinLocks :
                        order!Does(c, "acquire", l) /\ owner[l] \in S
               PROVE  FALSE
    BY Zenon DEF NoDeadlock, order!NoDeadlock
  <2> DEFINE Waits(c, l) == order!Does(c, "acquire", l) /\ owner[l] \in S
  <2>1. ASSUME NEW c \in S, NEW l \in order!SpinLocks, Waits(c, l)
        PROVE  \E d \in S, m \in order!SpinLocks : Waits(d, m) /\ Rank(l) < Rank(m)
    <3>1. PICK d \in S : owner[l] = d  BY <2>1
    <3>2. PICK m \in order!SpinLocks : Waits(d, m)  OBVIOUS
    <3>3. rest[d] # <<>> /\ Head(rest[d]) = A(m)  BY <3>2 DEF order!Does, A, order!A
    <3>4. Advances(Owned(d), rest[d])  BY <3>3, PathAdvances DEF OrderInv
    <3>5. \A k \in Owned(d) : Rank(k) < Rank(m)
      BY <3>3, <3>4 DEF Advances, A, R, order!A, order!R
    <3>6. l \in Owned(d)  BY <3>1 DEF Owned
    <3> QED  BY <3>2, <3>5, <3>6
  <2>2. PICK c1 \in S, l1 \in order!SpinLocks : Waits(c1, l1)  OBVIOUS
  <2> HIDE DEF Waits
  <2>3. PICK c2 \in S, l2 \in order!SpinLocks : Waits(c2, l2) /\ Rank(l1) < Rank(l2)  BY <2>1, <2>2
  <2>4. PICK c3 \in S, l3 \in order!SpinLocks : Waits(c3, l3) /\ Rank(l2) < Rank(l3)  BY <2>1, <2>3
  <2>5. PICK c4 \in S, l4 \in order!SpinLocks : Waits(c4, l4) /\ Rank(l3) < Rank(l4)  BY <2>1, <2>4
  <2> QED  BY <2>3, <2>4, <2>5 DEF Rank
<1> QED  BY <1>1, <1>2, <1>3, PTL DEF order!Spec
===============================================================================
