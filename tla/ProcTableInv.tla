---------------------------- MODULE ProcTableInv ----------------------------
(***************************************************************************)
(* The inductive invariant of the process table, and that every step of a  *)
(* process keeps the part of it that is about threads, stacks and the      *)
(* context switch.  It holds for any number of slots, CPUs and channels,   *)
(* and for any pids passed to kill().  It says where each thread is, by    *)
(* the state of its slot, and which stack each CPU is on.                  *)
(***************************************************************************)
EXTENDS ProcTable, TLAPS

InFork == {"kalloc", "copyuvm", "runnable"}

\* Where the thread of a slot can be, by the state of the slot.
Threads ==
  \A p \in Slots :
    /\ state[p] = "UNUSED" => pc[p] = "none"
    /\ state[p] = "EMBRYO" => pc[p] \in {"none", "forkret"}
    /\ state[p] = "RUNNABLE" =>
         preempted[p] \/ pc[p] \in {"forkret", "waiting", "sleeping"}
    /\ state[p] = "RUNNING" => pc[p] \notin {"none", "zombie"}
    /\ state[p] = "SLEEPING" => pc[p] \in {"waiting", "sleeping"}
    /\ state[p] = "ZOMBIE" => pc[p] = "zombie"
    /\ preempted[p] => /\ state[p] \in {"RUNNABLE", "RUNNING"}
                       /\ pc[p] \in Preemptible

\* A process in fork owns an EMBRYO, in the condition its place in fork says.
Embryos ==
  /\ \A p \in Slots : pc[p] \in InFork <=> np[p] # 0
  /\ \A p \in Slots : np[p] # 0 =>
       /\ state[np[p]] = "EMBRYO"
       /\ pc[np[p]] = IF pc[p] = "kalloc" THEN "none" ELSE "forkret"
       /\ kstack[np[p]] <=> pc[p] # "kalloc"
       /\ parent[np[p]] = IF pc[p] = "runnable" THEN p ELSE 0
  /\ \A p, q \in Slots : np[p] # 0 /\ np[p] = np[q] => p = q
  /\ \A s \in Slots : state[s] = "EMBRYO" => \E p \in Slots : np[p] = s

\* Stacks and parents, by the state of the slot.
Stacks ==
  \A s \in Slots :
    /\ state[s] = "UNUSED" => ~kstack[s]
    /\ state[s] \in Live \cup {"ZOMBIE"} => kstack[s]

Parents ==
  /\ state[initproc] \in Live /\ parent[initproc] = 0
  /\ \A s \in Slots :
       /\ parent[s] # s
       /\ parent[s] # 0 => state[parent[s]] \in Live
       /\ state[s] = "UNUSED" => parent[s] = 0
       /\ s # initproc /\ state[s] \in Live \cup {"ZOMBIE"} => parent[s] # 0

\* What a sleeping process sleeps on.
Channels ==
  \A p \in Slots : state[p] = "SLEEPING" =>
    /\ pc[p] = "waiting" => chan[p] = p
    /\ pc[p] = "sleeping" => chan[p] \in Chans

Inv == /\ TypeOK /\ Threads /\ Embryos /\ Stacks /\ Parents /\ Channels
       /\ LockHandoff /\ OneCpuPerStack /\ StackAllocated /\ MyProc
       /\ NoMissedExit /\ PidUnique

\* The sets of pointers, apart from how they are numbered.
PointerSets ==
  /\ 0..NPROC = Slots \cup {0} /\ 0 \notin Slots /\ initproc \in Slots
  /\ 0..NCPU = Cpus \cup {0} /\ 0 \notin Cpus
  /\ Chans \cap Slots = {} /\ 0 \notin Chans
  /\ 0..(NPROC+NCHAN) = Slots \cup Chans \cup {0}

\* What the numbering of slots, CPUs and channels makes of them.
LEMMA Pointers == PointerSets
BY NPROCAssumption, NCPUAssumption, NCHANAssumption DEF PointerSets, Slots, Cpus, Chans, initproc

\* The slot that a process in fork is filling.
LEMMA InForkOwns ==
  ASSUME TypeOK, Threads, Embryos, NEW p \in Slots, pc[p] \in InFork
  PROVE  np[p] \in Slots /\ np[p] # p /\ state[np[p]] = "EMBRYO"
BY Pointers DEF PointerSets, TypeOK, Threads, Embryos, InFork, Preemptible

\* waitReap of the child z.
Reaps(c, p, z) ==
  /\ parent[z] = p /\ state[z] = "ZOMBIE" /\ z # p
  /\ on[c] = p /\ state[p] = "RUNNING" /\ ~preempted[p]
  /\ (pc[p] = "wait" /\ lock = 0) \/ pc[p] = "waiting"
  /\ kstack' = [kstack EXCEPT ![z] = FALSE]
  /\ pid' = [pid EXCEPT ![z] = 0]
  /\ parent' = [parent EXCEPT ![z] = 0]
  /\ killed' = [killed EXCEPT ![z] = FALSE]
  /\ state' = [state EXCEPT ![z] = "UNUSED"]
  /\ pc' = [pc EXCEPT ![z] = "none", ![p] = "trapret"]
  /\ lock' = 0
  /\ chan' = [chan EXCEPT ![p] = 0]
  /\ UNCHANGED <<nextpid, cur, on, np, preempted>>

\* wait and wait2 reap a zombie child of the caller, which is not the caller.
LEMMA ReapsChild ==
  ASSUME TypeOK, Threads, MyProc,
         NEW c \in Cpus, NEW p \in Slots, waitReap(c, p)
  PROVE  \E z \in Slots : Reaps(c, p, z)
<1>1. on[c] = p /\ state[p] = "RUNNING" /\ ~preempted[p]
  BY Pointers DEF PointerSets, waitReap, WaitScan, SwitchedIn, Exec, InSched, Threads, MyProc, Preemptible
<1>2. (pc[p] = "wait" /\ lock = 0) \/ pc[p] = "waiting"
  BY DEF waitReap, WaitScan, SwitchedIn, Exec
<1> QED BY <1>1, <1>2, ZenonT(30) DEF waitReap, Reaps, ZombieChildren, Children

\* Every step of a process keeps the types.
LEMMA TypeOKStep ==
  ASSUME Inv, NEW c \in Cpus, NEW p \in Slots, procStep(c, p)
  PROVE  TypeOK'
<1> SUFFICES ASSUME PointerSets, TypeOK, Threads, Embryos, MyProc
             PROVE  TypeOK'
  BY Pointers DEF Inv
<1> USE DEF PointerSets, TypeOK, Threads, Embryos, MyProc,
        Locations, procstate, Live, InFork, InSched, Exec, Goto, Preemptible
<1>1. CASE scheduler(c, p)
  BY <1>1 DEF scheduler, forkVars
<1>2. CASE forkret(c, p)
  BY <1>2 DEF forkret, SwitchedIn, forkVars
<1>3. CASE yield(c, p)
  BY <1>3 DEF yield, forkVars
<1>4. CASE yieldResume(c, p)
  BY <1>4 DEF yieldResume, SwitchedIn, forkVars
<1>5. CASE syscall(c, p)
  BY <1>5 DEF syscall, forkVars, cpuVars
<1>6. CASE trapret(c, p)
  BY <1>6 DEF trapret, forkVars, cpuVars
<1>7. CASE fault(c, p)
  BY <1>7 DEF fault, forkVars, cpuVars
<1>8. CASE allocproc(c, p)
  <2>1. pc' \in [Slots -> Locations] /\ nextpid' \in Nat \ {0}
    <3>1. pc' = [pc EXCEPT ![p] = "kalloc"] \/ pc' = [pc EXCEPT ![p] = "trapret"]
      BY <1>8 DEF allocproc
    <3>2. nextpid' = nextpid + 1 \/ nextpid' = nextpid
      BY <1>8 DEF allocproc
    <3> QED BY <3>1, <3>2
  <2>2. state' \in [Slots -> procstate] /\ pid' \in [Slots -> Nat]
    <3>1. PICK t \in Slots : \/ /\ state' = [state EXCEPT ![t] = "EMBRYO"]
                                /\ pid' = [pid EXCEPT ![t] = nextpid]
                             \/ UNCHANGED <<state, pid>>
      BY <1>8 DEF allocproc
    <3> QED BY <3>1, SMTT(30)
  <2>3. np' \in [Slots -> 0..NPROC]
    BY <1>8 DEF allocproc
  <2> QED BY <1>8, <2>1, <2>2, <2>3 DEF allocproc, cpuVars
<1>9. CASE allocprocStack(c, p)
  <2>1. np[p] \in Slots /\ np[p] # p /\ state[np[p]] = "EMBRYO"
    BY <1>9, InForkOwns DEF allocprocStack
  <2>2. CASE forkFail(p)
    BY <1>9, <2>1, <2>2 DEF allocprocStack, forkFail, cpuVars
  <2>3. CASE /\ kstack' = [kstack EXCEPT ![np[p]] = TRUE]
             /\ pc' = [pc EXCEPT ![p] = "copyuvm", ![np[p]] = "forkret"]
             /\ UNCHANGED <<state, np>>
    BY <1>9, <2>1, <2>3, SMTT(30) DEF allocprocStack, cpuVars
  <2> QED BY <1>9, <2>2, <2>3 DEF allocprocStack
<1>10. CASE forkCopy(c, p)
  <2>1. np[p] \in Slots /\ np[p] # p /\ state[np[p]] = "EMBRYO"
    BY <1>10, InForkOwns DEF forkCopy
  <2>2. CASE forkFail(p) /\ UNCHANGED parent
    BY <1>10, <2>1, <2>2 DEF forkCopy, forkFail, cpuVars
  <2>3. CASE /\ parent' = [parent EXCEPT ![np[p]] = p]
             /\ Goto(p, "runnable")
             /\ UNCHANGED <<state, kstack, np>>
    BY <1>10, <2>1, <2>3 DEF forkCopy, cpuVars
  <2> QED BY <1>10, <2>2, <2>3 DEF forkCopy
<1>11. CASE forkRunnable(c, p)
  BY <1>11 DEF forkRunnable, cpuVars
<1>12. CASE exit(c, p)
  BY <1>12 DEF exit, exitWakeups, wakeup1, reparent, forkVars
<1>13. CASE waitReap(c, p)
  <2>1. PICK z \in Slots : Reaps(c, p, z)
    BY <1>13, ReapsChild
  <2> QED BY <2>1 DEF Reaps
<1>14. CASE waitNone(c, p)
  BY <1>14 DEF waitNone, WaitScan, SwitchedIn, forkVars
<1>15. CASE waitSleep(c, p)
  BY <1>15 DEF waitSleep, WaitScan, SwitchedIn, forkVars
<1>16. CASE blockCheck(c, p)
  BY <1>16, SMTT(30) DEF blockCheck, forkVars, cpuVars
<1>17. CASE sleepResume(c, p)
  BY <1>17 DEF sleepResume, SwitchedIn, forkVars
<1>18. ASSUME NEW ch \in Chans, sleep(c, p, ch) PROVE TypeOK'
  BY <1>18 DEF sleep, forkVars
<1>19. ASSUME NEW k \in KillPids, kill(c, p, k) PROVE TypeOK'
  <2>1. PICK s \in Slots, st \in procstate :
          \/ killed' = [killed EXCEPT ![s] = TRUE] /\ state' = [state EXCEPT ![s] = st]
          \/ UNCHANGED <<killed, state>>
    BY <1>19, SMTT(30) DEF kill
  <2>2. /\ pc' \in [Slots -> Locations]
        /\ UNCHANGED <<parent, chan, preempted, pid, kstack, nextpid, np, lock, cur, on>>
    BY <1>19 DEF kill, forkVars, cpuVars
  <2>3. killed' \in [Slots -> BOOLEAN]
    <3>1. CASE killed' = [killed EXCEPT ![s] = TRUE]
      BY <3>1
    <3>2. CASE killed' = killed
      BY <3>2
    <3> QED BY <2>1, <3>1, <3>2
  <2>4. state' \in [Slots -> procstate]
    BY <2>1, SMTT(30)
  <2> QED BY <2>2, <2>3, <2>4
<1> HIDE DEF TypeOK, Threads, Embryos, MyProc, Locations, procstate, Live, InFork,
            InSched, Exec, Goto, Preemptible
<1> QED BY <1>1, <1>2, <1>3, <1>4, <1>5, <1>6, <1>7, <1>8, <1>9, <1>10, <1>11,
           <1>12, <1>13, <1>14, <1>15, <1>16, <1>17, <1>18, <1>19 DEF procStep

\* Every step of a process keeps every thread where its state says it is.
LEMMA ThreadsStep ==
  ASSUME Inv, NEW c \in Cpus, NEW p \in Slots, procStep(c, p)
  PROVE  Threads'
<1> SUFFICES ASSUME PointerSets, TypeOK, Threads, Embryos, MyProc
             PROVE  Threads'
  BY Pointers DEF Inv
<1> USE DEF PointerSets, TypeOK, Threads, Embryos, MyProc,
        Locations, procstate, Live, InFork, InSched, Exec, Goto, Preemptible
<1>1. CASE scheduler(c, p)
  BY <1>1 DEF scheduler, forkVars
<1>2. CASE forkret(c, p)
  BY <1>2 DEF forkret, SwitchedIn, forkVars
<1>3. CASE yield(c, p)
  BY <1>3 DEF yield, forkVars
<1>4. CASE yieldResume(c, p)
  BY <1>4 DEF yieldResume, SwitchedIn, forkVars
<1>5. CASE syscall(c, p)
  BY <1>5 DEF syscall, forkVars, cpuVars
<1>6. CASE trapret(c, p)
  BY <1>6 DEF trapret, forkVars, cpuVars
<1>7. CASE fault(c, p)
  BY <1>7 DEF fault, forkVars, cpuVars
<1>8. CASE allocproc(c, p)
  BY <1>8 DEF allocproc, cpuVars
<1>9. CASE allocprocStack(c, p)
  <2>1. np[p] \in Slots /\ np[p] # p /\ state[np[p]] = "EMBRYO"
    BY <1>9, InForkOwns DEF allocprocStack
  <2>2. CASE forkFail(p)
    BY <1>9, <2>1, <2>2 DEF allocprocStack, forkFail, cpuVars
  <2>3. CASE /\ kstack' = [kstack EXCEPT ![np[p]] = TRUE]
             /\ pc' = [pc EXCEPT ![p] = "copyuvm", ![np[p]] = "forkret"]
             /\ UNCHANGED <<state, np>>
    BY <1>9, <2>1, <2>3 DEF allocprocStack, cpuVars
  <2> QED BY <1>9, <2>2, <2>3 DEF allocprocStack
<1>10. CASE forkCopy(c, p)
  BY <1>10 DEF forkCopy, forkFail, cpuVars
<1>11. CASE forkRunnable(c, p)
  BY <1>11 DEF forkRunnable, cpuVars
<1>12. CASE exit(c, p)
  BY <1>12 DEF exit, exitWakeups, wakeup1, reparent, forkVars
<1>13. CASE waitReap(c, p)
  <2>1. PICK z \in Slots : Reaps(c, p, z)
    BY <1>13, ReapsChild
  <2> QED BY <2>1 DEF Reaps
<1>14. CASE waitNone(c, p)
  BY <1>14 DEF waitNone, WaitScan, SwitchedIn, forkVars
<1>15. CASE waitSleep(c, p)
  BY <1>15 DEF waitSleep, WaitScan, SwitchedIn, forkVars
<1>16. CASE blockCheck(c, p)
  BY <1>16 DEF blockCheck, forkVars, cpuVars
<1>17. CASE sleepResume(c, p)
  BY <1>17 DEF sleepResume, SwitchedIn, forkVars
<1>18. ASSUME NEW ch \in Chans, sleep(c, p, ch) PROVE Threads'
  BY <1>18 DEF sleep, forkVars
<1>19. ASSUME NEW k \in KillPids, kill(c, p, k) PROVE Threads'
  BY <1>19, SMTT(30) DEF kill, forkVars, cpuVars
<1> HIDE DEF TypeOK, Threads, Embryos, MyProc, Locations, procstate, Live, InFork,
            InSched, Exec, Goto, Preemptible
<1> QED BY <1>1, <1>2, <1>3, <1>4, <1>5, <1>6, <1>7, <1>8, <1>9, <1>10, <1>11,
           <1>12, <1>13, <1>14, <1>15, <1>16, <1>17, <1>18, <1>19 DEF procStep

\* Every step of a process leaves every EMBRYO with the one fork that made it.
LEMMA EmbryosStep ==
  ASSUME Inv, NEW c \in Cpus, NEW p \in Slots, procStep(c, p)
  PROVE  Embryos'
<1> SUFFICES ASSUME PointerSets, TypeOK, Threads, Embryos, Parents, Stacks, MyProc
             PROVE  Embryos'
  BY Pointers DEF Inv
<1> USE DEF PointerSets, TypeOK, Threads, Embryos, Parents, Stacks, MyProc,
        Locations, procstate, Live, InFork, InSched, Exec, Goto, Preemptible
<1>1. CASE scheduler(c, p)
  BY <1>1 DEF scheduler, forkVars
<1>2. CASE forkret(c, p)
  BY <1>2 DEF forkret, SwitchedIn, forkVars
<1>3. CASE yield(c, p)
  BY <1>3 DEF yield, forkVars
<1>4. CASE yieldResume(c, p)
  BY <1>4 DEF yieldResume, SwitchedIn, forkVars
<1>5. CASE syscall(c, p)
  BY <1>5 DEF syscall, forkVars, cpuVars
<1>6. CASE trapret(c, p)
  BY <1>6 DEF trapret, forkVars, cpuVars
<1>7. CASE fault(c, p)
  BY <1>7 DEF fault, forkVars, cpuVars
<1>8. CASE allocproc(c, p)
  <2>1. CASE \A s \in Slots : state[s] # "UNUSED"
    BY <1>8, <2>1 DEF allocproc, cpuVars
  <2>2. ASSUME NEW s \in Slots, state[s] = "UNUSED" PROVE Embryos'
    <3>1. PICK t \in Slots : /\ state[t] = "UNUSED"
                             /\ state' = [state EXCEPT ![t] = "EMBRYO"]
                             /\ pid' = [pid EXCEPT ![t] = nextpid]
                             /\ np' = [np EXCEPT ![p] = t]
      BY <1>8, <2>2 DEF allocproc
    <3> QED BY <1>8, <2>2, <3>1, SMTT(30) DEF allocproc, cpuVars
  <2> QED BY <2>1, <2>2
<1>9. CASE allocprocStack(c, p)
  <2>1. np[p] \in Slots /\ np[p] # p /\ state[np[p]] = "EMBRYO"
    BY <1>9, InForkOwns DEF allocprocStack
  <2>2. CASE forkFail(p)
    BY <1>9, <2>1, <2>2 DEF allocprocStack, forkFail, cpuVars
  <2>3. CASE /\ kstack' = [kstack EXCEPT ![np[p]] = TRUE]
             /\ pc' = [pc EXCEPT ![p] = "copyuvm", ![np[p]] = "forkret"]
             /\ UNCHANGED <<state, np>>
    BY <1>9, <2>1, <2>3 DEF allocprocStack, cpuVars
  <2> QED BY <1>9, <2>2, <2>3 DEF allocprocStack
<1>10. CASE forkCopy(c, p)
  <2>1. np[p] \in Slots /\ np[p] # p /\ state[np[p]] = "EMBRYO"
    BY <1>10, InForkOwns, SMTT(30) DEF forkCopy
  <2>2. CASE forkFail(p) /\ UNCHANGED parent
    BY <1>10, <2>1, <2>2 DEF forkCopy, forkFail, cpuVars
  <2>3. CASE /\ parent' = [parent EXCEPT ![np[p]] = p]
             /\ Goto(p, "runnable")
             /\ UNCHANGED <<state, kstack, np>>
    BY <1>10, <2>1, <2>3 DEF forkCopy, cpuVars
  <2> QED BY <1>10, <2>2, <2>3 DEF forkCopy
<1>11. CASE forkRunnable(c, p)
  BY <1>11 DEF forkRunnable, cpuVars
<1>12. CASE exit(c, p)
  BY <1>12 DEF exit, exitWakeups, wakeup1, reparent, forkVars
<1>13. CASE waitReap(c, p)
  <2>1. PICK z \in Slots : Reaps(c, p, z)
    BY <1>13, ReapsChild
  <2> QED BY <2>1 DEF Reaps
<1>14. CASE waitNone(c, p)
  BY <1>14 DEF waitNone, WaitScan, SwitchedIn, forkVars
<1>15. CASE waitSleep(c, p)
  BY <1>15 DEF waitSleep, WaitScan, SwitchedIn, forkVars
<1>16. CASE blockCheck(c, p)
  BY <1>16 DEF blockCheck, forkVars, cpuVars
<1>17. CASE sleepResume(c, p)
  BY <1>17 DEF sleepResume, SwitchedIn, forkVars
<1>18. ASSUME NEW ch \in Chans, sleep(c, p, ch) PROVE Embryos'
  BY <1>18 DEF sleep, forkVars
<1>19. ASSUME NEW k \in KillPids, kill(c, p, k) PROVE Embryos'
  BY <1>19, SMTT(30) DEF kill, forkVars, cpuVars
<1> HIDE DEF TypeOK, Threads, Embryos, Parents, Stacks, MyProc, Locations, procstate,
            Live, InFork, InSched, Exec, Goto, Preemptible
<1> QED BY <1>1, <1>2, <1>3, <1>4, <1>5, <1>6, <1>7, <1>8, <1>9, <1>10, <1>11,
           <1>12, <1>13, <1>14, <1>15, <1>16, <1>17, <1>18, <1>19 DEF procStep

\* Every step of a process leaves stacks with the slots in use.
LEMMA StacksStep ==
  ASSUME Inv, NEW c \in Cpus, NEW p \in Slots, procStep(c, p)
  PROVE  Stacks'
<1> SUFFICES ASSUME PointerSets, TypeOK, Threads, Embryos, Stacks, MyProc
             PROVE  Stacks'
  BY Pointers DEF Inv
<1> USE DEF PointerSets, TypeOK, Threads, Embryos, Stacks, MyProc,
        Locations, procstate, Live, InFork, InSched, Exec, Goto, Preemptible
<1>1. CASE scheduler(c, p)
  BY <1>1 DEF scheduler, forkVars
<1>2. CASE forkret(c, p)
  BY <1>2 DEF forkret, SwitchedIn, forkVars
<1>3. CASE yield(c, p)
  BY <1>3 DEF yield, forkVars
<1>4. CASE yieldResume(c, p)
  BY <1>4 DEF yieldResume, SwitchedIn, forkVars
<1>5. CASE syscall(c, p)
  BY <1>5 DEF syscall, forkVars, cpuVars
<1>6. CASE trapret(c, p)
  BY <1>6 DEF trapret, forkVars, cpuVars
<1>7. CASE fault(c, p)
  BY <1>7 DEF fault, forkVars, cpuVars
<1>8. CASE allocproc(c, p)
  BY <1>8 DEF allocproc, cpuVars
<1>9. CASE allocprocStack(c, p)
  BY <1>9, SMTT(30) DEF allocprocStack, forkFail, cpuVars
<1>10. CASE forkCopy(c, p)
  BY <1>10 DEF forkCopy, forkFail, cpuVars
<1>11. CASE forkRunnable(c, p)
  BY <1>11, SMTT(30) DEF forkRunnable, cpuVars
<1>12. CASE exit(c, p)
  BY <1>12 DEF exit, exitWakeups, wakeup1, reparent, forkVars
<1>13. CASE waitReap(c, p)
  <2>1. PICK z \in Slots : Reaps(c, p, z)
    BY <1>13, ReapsChild
  <2> QED BY <2>1 DEF Reaps
<1>14. CASE waitNone(c, p)
  BY <1>14 DEF waitNone, WaitScan, SwitchedIn, forkVars
<1>15. CASE waitSleep(c, p)
  BY <1>15 DEF waitSleep, WaitScan, SwitchedIn, forkVars
<1>16. CASE blockCheck(c, p)
  BY <1>16 DEF blockCheck, forkVars, cpuVars
<1>17. CASE sleepResume(c, p)
  BY <1>17 DEF sleepResume, SwitchedIn, forkVars
<1>18. ASSUME NEW ch \in Chans, sleep(c, p, ch) PROVE Stacks'
  BY <1>18 DEF sleep, forkVars
<1>19. ASSUME NEW k \in KillPids, kill(c, p, k) PROVE Stacks'
  BY <1>19 DEF kill, forkVars, cpuVars
<1> HIDE DEF TypeOK, Threads, Embryos, Stacks, MyProc, Locations, procstate, Live,
            InFork, InSched, Exec, Goto, Preemptible
<1> QED BY <1>1, <1>2, <1>3, <1>4, <1>5, <1>6, <1>7, <1>8, <1>9, <1>10, <1>11,
           <1>12, <1>13, <1>14, <1>15, <1>16, <1>17, <1>18, <1>19 DEF procStep
-----------------------------------------------------------------------------
(* The steps of a process keep what the invariant says of the CPUs: who    *)
(* holds ptable.lock, which stack each CPU is on, and c->proc.             *)

\* Every step of a process passes ptable.lock on across swtch.
LEMMA LockHandoffStep ==
  ASSUME Inv, NEW c \in Cpus, NEW p \in Slots, procStep(c, p)
  PROVE  LockHandoff'
<1> SUFFICES ASSUME PointerSets, TypeOK, Threads, Embryos, LockHandoff, MyProc, OneCpuPerStack, StackAllocated
             PROVE  LockHandoff'
  BY Pointers DEF Inv
<1> USE DEF PointerSets, TypeOK, Threads, Embryos, LockHandoff, MyProc, OneCpuPerStack, StackAllocated,
        Locations, procstate, Live, InFork, InSched, Exec, Goto, Preemptible
<1>1. CASE scheduler(c, p)
  BY <1>1 DEF scheduler, forkVars
<1>2. CASE forkret(c, p)
  BY <1>2 DEF forkret, SwitchedIn, forkVars
<1>3. CASE yield(c, p)
  BY <1>3 DEF yield, forkVars
<1>4. CASE yieldResume(c, p)
  BY <1>4 DEF yieldResume, SwitchedIn, forkVars
<1>5. CASE syscall(c, p)
  BY <1>5 DEF syscall, forkVars, cpuVars
<1>6. CASE trapret(c, p)
  BY <1>6 DEF trapret, forkVars, cpuVars
<1>7. CASE fault(c, p)
  BY <1>7 DEF fault, forkVars, cpuVars
<1>8. CASE allocproc(c, p)
  BY <1>8 DEF allocproc, cpuVars
<1>9. CASE allocprocStack(c, p)
  <2>1. np[p] \in Slots /\ np[p] # p /\ state[np[p]] = "EMBRYO"
    BY <1>9, InForkOwns DEF allocprocStack
  <2>2. CASE forkFail(p)
    BY <1>9, <2>1, <2>2 DEF allocprocStack, forkFail, cpuVars
  <2>3. CASE /\ kstack' = [kstack EXCEPT ![np[p]] = TRUE]
             /\ pc' = [pc EXCEPT ![p] = "copyuvm", ![np[p]] = "forkret"]
             /\ UNCHANGED <<state, np>>
    BY <1>9, <2>1, <2>3 DEF allocprocStack, cpuVars
  <2> QED BY <1>9, <2>2, <2>3 DEF allocprocStack
<1>10. CASE forkCopy(c, p)
  BY <1>10 DEF forkCopy, forkFail, cpuVars
<1>11. CASE forkRunnable(c, p)
  BY <1>11 DEF forkRunnable, cpuVars
<1>12. CASE exit(c, p)
  BY <1>12 DEF exit, exitWakeups, wakeup1, reparent, forkVars
<1>13. CASE waitReap(c, p)
  <2>1. PICK z \in Slots : Reaps(c, p, z)
    BY <1>13, ReapsChild
  <2> QED BY <2>1 DEF Reaps
<1>14. CASE waitNone(c, p)
  BY <1>14 DEF waitNone, WaitScan, SwitchedIn, forkVars
<1>15. CASE waitSleep(c, p)
  BY <1>15 DEF waitSleep, WaitScan, SwitchedIn, forkVars
<1>16. CASE blockCheck(c, p)
  BY <1>16 DEF blockCheck, forkVars, cpuVars
<1>17. CASE sleepResume(c, p)
  BY <1>17 DEF sleepResume, SwitchedIn, forkVars
<1>18. ASSUME NEW ch \in Chans, sleep(c, p, ch) PROVE LockHandoff'
  BY <1>18 DEF sleep, forkVars
<1>19. ASSUME NEW k \in KillPids, kill(c, p, k) PROVE LockHandoff'
  BY <1>19 DEF kill, forkVars, cpuVars
<1> HIDE DEF TypeOK, Threads, Embryos, LockHandoff, MyProc, OneCpuPerStack,
            StackAllocated, Locations, procstate, Live, InFork, InSched, Exec, Goto,
            Preemptible
<1> QED BY <1>1, <1>2, <1>3, <1>4, <1>5, <1>6, <1>7, <1>8, <1>9, <1>10, <1>11,
           <1>12, <1>13, <1>14, <1>15, <1>16, <1>17, <1>18, <1>19 DEF procStep

\* Every step of a process lets no second CPU onto a stack.
LEMMA OneCpuPerStackStep ==
  ASSUME Inv, NEW c \in Cpus, NEW p \in Slots, procStep(c, p)
  PROVE  OneCpuPerStack'
<1> SUFFICES ASSUME PointerSets, TypeOK, Threads, LockHandoff, MyProc, OneCpuPerStack, StackAllocated
             PROVE  OneCpuPerStack'
  BY Pointers DEF Inv
<1> USE DEF PointerSets, TypeOK, Threads, LockHandoff, MyProc, OneCpuPerStack, StackAllocated,
        Locations, procstate, Live, InFork, InSched, Exec, Goto, Preemptible
<1>1. CASE scheduler(c, p)
  BY <1>1 DEF scheduler, forkVars
<1>2. CASE forkret(c, p)
  BY <1>2 DEF forkret, SwitchedIn, forkVars
<1>3. CASE yield(c, p)
  BY <1>3 DEF yield, forkVars
<1>4. CASE yieldResume(c, p)
  BY <1>4 DEF yieldResume, SwitchedIn, forkVars
<1>5. CASE syscall(c, p)
  BY <1>5 DEF syscall, forkVars, cpuVars
<1>6. CASE trapret(c, p)
  BY <1>6 DEF trapret, forkVars, cpuVars
<1>7. CASE fault(c, p)
  BY <1>7 DEF fault, forkVars, cpuVars
<1>8. CASE allocproc(c, p)
  BY <1>8 DEF allocproc, cpuVars
<1>9. CASE allocprocStack(c, p)
  BY <1>9 DEF allocprocStack, forkFail, cpuVars
<1>10. CASE forkCopy(c, p)
  BY <1>10 DEF forkCopy, forkFail, cpuVars
<1>11. CASE forkRunnable(c, p)
  BY <1>11 DEF forkRunnable, cpuVars
<1>12. CASE exit(c, p)
  BY <1>12 DEF exit, exitWakeups, wakeup1, reparent, forkVars
<1>13. CASE waitReap(c, p)
  <2>1. PICK z \in Slots : Reaps(c, p, z)
    BY <1>13, ReapsChild
  <2> QED BY <2>1 DEF Reaps
<1>14. CASE waitNone(c, p)
  BY <1>14 DEF waitNone, WaitScan, SwitchedIn, forkVars
<1>15. CASE waitSleep(c, p)
  BY <1>15 DEF waitSleep, WaitScan, SwitchedIn, forkVars
<1>16. CASE blockCheck(c, p)
  BY <1>16 DEF blockCheck, forkVars, cpuVars
<1>17. CASE sleepResume(c, p)
  BY <1>17 DEF sleepResume, SwitchedIn, forkVars
<1>18. ASSUME NEW ch \in Chans, sleep(c, p, ch) PROVE OneCpuPerStack'
  BY <1>18 DEF sleep, forkVars
<1>19. ASSUME NEW k \in KillPids, kill(c, p, k) PROVE OneCpuPerStack'
  BY <1>19, SMTT(30) DEF kill, forkVars, cpuVars
<1> HIDE DEF TypeOK, Threads, LockHandoff, MyProc, OneCpuPerStack, StackAllocated,
            Locations, procstate, Live, InFork, InSched, Exec, Goto, Preemptible
<1> QED BY <1>1, <1>2, <1>3, <1>4, <1>5, <1>6, <1>7, <1>8, <1>9, <1>10, <1>11,
           <1>12, <1>13, <1>14, <1>15, <1>16, <1>17, <1>18, <1>19 DEF procStep

\* Every step of a process frees no stack that is in use.
LEMMA StackAllocatedStep ==
  ASSUME Inv, NEW c \in Cpus, NEW p \in Slots, procStep(c, p)
  PROVE  StackAllocated'
<1> SUFFICES ASSUME PointerSets, TypeOK, Threads, Embryos, LockHandoff, MyProc, OneCpuPerStack, StackAllocated, Stacks
             PROVE  StackAllocated'
  BY Pointers DEF Inv
<1> USE DEF PointerSets, TypeOK, Threads, Embryos, LockHandoff, MyProc, OneCpuPerStack, StackAllocated, Stacks,
        Locations, procstate, Live, InFork, InSched, Exec, Goto, Preemptible
<1>1. CASE scheduler(c, p)
  BY <1>1 DEF scheduler, forkVars
<1>2. CASE forkret(c, p)
  BY <1>2 DEF forkret, SwitchedIn, forkVars
<1>3. CASE yield(c, p)
  BY <1>3 DEF yield, forkVars
<1>4. CASE yieldResume(c, p)
  BY <1>4 DEF yieldResume, SwitchedIn, forkVars
<1>5. CASE syscall(c, p)
  BY <1>5 DEF syscall, forkVars, cpuVars
<1>6. CASE trapret(c, p)
  BY <1>6 DEF trapret, forkVars, cpuVars
<1>7. CASE fault(c, p)
  BY <1>7 DEF fault, forkVars, cpuVars
<1>8. CASE allocproc(c, p)
  BY <1>8 DEF allocproc, cpuVars
<1>9. CASE allocprocStack(c, p)
  <2>1. np[p] \in Slots /\ np[p] # p /\ state[np[p]] = "EMBRYO"
    BY <1>9, InForkOwns DEF allocprocStack
  <2>2. CASE forkFail(p)
    BY <1>9, <2>1, <2>2 DEF allocprocStack, forkFail, cpuVars
  <2>3. CASE /\ kstack' = [kstack EXCEPT ![np[p]] = TRUE]
             /\ pc' = [pc EXCEPT ![p] = "copyuvm", ![np[p]] = "forkret"]
             /\ UNCHANGED <<state, np>>
    BY <1>9, <2>1, <2>3 DEF allocprocStack, cpuVars
  <2> QED BY <1>9, <2>2, <2>3 DEF allocprocStack
<1>10. CASE forkCopy(c, p)
  <2>1. np[p] \in Slots /\ np[p] # p /\ state[np[p]] = "EMBRYO"
    BY <1>10, InForkOwns DEF forkCopy
  <2>2. CASE forkFail(p) /\ UNCHANGED parent
    BY <1>10, <2>1, <2>2 DEF forkCopy, forkFail, cpuVars
  <2>3. CASE /\ parent' = [parent EXCEPT ![np[p]] = p]
             /\ Goto(p, "runnable")
             /\ UNCHANGED <<state, kstack, np>>
    BY <1>10, <2>1, <2>3 DEF forkCopy, cpuVars
  <2> QED BY <1>10, <2>2, <2>3, SMTT(30) DEF forkCopy
<1>11. CASE forkRunnable(c, p)
  BY <1>11 DEF forkRunnable, cpuVars
<1>12. CASE exit(c, p)
  BY <1>12 DEF exit, exitWakeups, wakeup1, reparent, forkVars
<1>13. CASE waitReap(c, p)
  <2>1. PICK z \in Slots : Reaps(c, p, z)
    BY <1>13, ReapsChild
  <2> QED BY <2>1 DEF Reaps
<1>14. CASE waitNone(c, p)
  BY <1>14 DEF waitNone, WaitScan, SwitchedIn, forkVars
<1>15. CASE waitSleep(c, p)
  BY <1>15 DEF waitSleep, WaitScan, SwitchedIn, forkVars
<1>16. CASE blockCheck(c, p)
  BY <1>16 DEF blockCheck, forkVars, cpuVars
<1>17. CASE sleepResume(c, p)
  BY <1>17 DEF sleepResume, SwitchedIn, forkVars
<1>18. ASSUME NEW ch \in Chans, sleep(c, p, ch) PROVE StackAllocated'
  BY <1>18 DEF sleep, forkVars
<1>19. ASSUME NEW k \in KillPids, kill(c, p, k) PROVE StackAllocated'
  BY <1>19, SMTT(30) DEF kill, forkVars, cpuVars
<1> HIDE DEF TypeOK, Threads, Embryos, LockHandoff, MyProc, OneCpuPerStack,
            StackAllocated, Stacks, Locations, procstate, Live, InFork, InSched, Exec,
            Goto, Preemptible
<1> QED BY <1>1, <1>2, <1>3, <1>4, <1>5, <1>6, <1>7, <1>8, <1>9, <1>10, <1>11,
           <1>12, <1>13, <1>14, <1>15, <1>16, <1>17, <1>18, <1>19 DEF procStep

\* Every step of a process keeps c->proc and p->state in agreement with the stacks.
LEMMA MyProcStep ==
  ASSUME Inv, NEW c \in Cpus, NEW p \in Slots, procStep(c, p)
  PROVE  MyProc'
<1> SUFFICES ASSUME PointerSets, TypeOK, Threads, Embryos, LockHandoff, MyProc, OneCpuPerStack, StackAllocated
             PROVE  MyProc'
  BY Pointers DEF Inv
<1> USE DEF PointerSets, TypeOK, Threads, Embryos, LockHandoff, MyProc, OneCpuPerStack, StackAllocated,
        Locations, procstate, Live, InFork, InSched, Exec, Goto, Preemptible
<1>1. CASE scheduler(c, p)
  BY <1>1 DEF scheduler, forkVars
<1>2. CASE forkret(c, p)
  BY <1>2 DEF forkret, SwitchedIn, forkVars
<1>3. CASE yield(c, p)
  BY <1>3 DEF yield, forkVars
<1>4. CASE yieldResume(c, p)
  BY <1>4 DEF yieldResume, SwitchedIn, forkVars
<1>5. CASE syscall(c, p)
  BY <1>5 DEF syscall, forkVars, cpuVars
<1>6. CASE trapret(c, p)
  BY <1>6 DEF trapret, forkVars, cpuVars
<1>7. CASE fault(c, p)
  BY <1>7 DEF fault, forkVars, cpuVars
<1>8. CASE allocproc(c, p)
  <2>1. PICK s \in Slots : \/ state[s] = "UNUSED" /\ state' = [state EXCEPT ![s] = "EMBRYO"]
                           \/ UNCHANGED state
    BY <1>8 DEF allocproc
  <2>2. pc' \in {[pc EXCEPT ![p] = "kalloc"], [pc EXCEPT ![p] = "trapret"]}
    BY <1>8 DEF allocproc
  <2>3. \A q \in Slots : state'[q] = "RUNNING" <=> state[q] = "RUNNING"
    BY <2>1
  <2>4. \A q \in Slots : InSched(q)' <=> InSched(q)
    BY <1>8, <2>2 DEF allocproc
  <2>5. UNCHANGED <<cur, on>>
    BY <1>8 DEF allocproc, cpuVars
  <2> HIDE DEF InSched
  <2> QED BY <2>3, <2>4, <2>5
<1>9. CASE allocprocStack(c, p)
  BY <1>9, SMTT(30) DEF allocprocStack, forkFail, cpuVars
<1>10. CASE forkCopy(c, p)
  <2>1. np[p] \in Slots /\ np[p] # p /\ state[np[p]] = "EMBRYO"
    BY <1>10, InForkOwns DEF forkCopy
  <2>2. CASE forkFail(p) /\ UNCHANGED parent
    BY <1>10, <2>1, <2>2, SMTT(30) DEF forkCopy, forkFail, cpuVars
  <2>3. CASE /\ parent' = [parent EXCEPT ![np[p]] = p]
             /\ Goto(p, "runnable")
             /\ UNCHANGED <<state, kstack, np>>
    BY <1>10, <2>1, <2>3 DEF forkCopy, cpuVars
  <2> QED BY <1>10, <2>2, <2>3 DEF forkCopy
<1>11. CASE forkRunnable(c, p)
  BY <1>11 DEF forkRunnable, cpuVars
<1>12. CASE exit(c, p)
  BY <1>12 DEF exit, exitWakeups, wakeup1, reparent, forkVars
<1>13. CASE waitReap(c, p)
  <2>1. PICK z \in Slots : Reaps(c, p, z)
    BY <1>13, ReapsChild
  <2> QED BY <2>1 DEF Reaps
<1>14. CASE waitNone(c, p)
  BY <1>14 DEF waitNone, WaitScan, SwitchedIn, forkVars
<1>15. CASE waitSleep(c, p)
  BY <1>15 DEF waitSleep, WaitScan, SwitchedIn, forkVars
<1>16. CASE blockCheck(c, p)
  BY <1>16, SMTT(30) DEF blockCheck, forkVars, cpuVars
<1>17. CASE sleepResume(c, p)
  BY <1>17 DEF sleepResume, SwitchedIn, forkVars
<1>18. ASSUME NEW ch \in Chans, sleep(c, p, ch) PROVE MyProc'
  BY <1>18 DEF sleep, forkVars
<1>19. ASSUME NEW k \in KillPids, kill(c, p, k) PROVE MyProc'
  BY <1>19 DEF kill, forkVars, cpuVars
<1> HIDE DEF TypeOK, Threads, Embryos, LockHandoff, MyProc, OneCpuPerStack,
            StackAllocated, Locations, procstate, Live, InFork, InSched, Exec, Goto,
            Preemptible
<1> QED BY <1>1, <1>2, <1>3, <1>4, <1>5, <1>6, <1>7, <1>8, <1>9, <1>10, <1>11,
           <1>12, <1>13, <1>14, <1>15, <1>16, <1>17, <1>18, <1>19 DEF procStep
=============================================================================
