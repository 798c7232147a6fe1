-------------------------- MODULE ProcTableProofs --------------------------
(***************************************************************************)
(* Parents, children and pids: the rest of the inductive invariant, and    *)
(* the safety properties of the process table that follow from it.         *)
(***************************************************************************)
EXTENDS ProcTableInv

(* The steps of a process keep what the invariant says of parents and      *)
(* children, of the sleepers and of the pids.                              *)

\* Every step of a process leaves no process without a living parent.
LEMMA ParentsStep ==
  ASSUME Inv, NEW c \in Cpus, NEW p \in Slots, procStep(c, p)
  PROVE  Parents'
<1> SUFFICES ASSUME PointerSets, TypeOK, Threads, Embryos, Parents, MyProc
             PROVE  Parents'
  BY Pointers DEF Inv
<1> USE DEF PointerSets, TypeOK, Threads, Embryos, Parents, MyProc,
        Locations, procstate, Live, InFork, InSched, Exec, Goto, Preemptible
<1>1. CASE scheduler(c, p)
  BY <1>1 DEF scheduler, forkVars
<1>2. CASE forkret(c, p)
  BY <1>2 DEF forkret, SwitchedIn, forkVars
<1>3. CASE yield(c, p)
  BY <1>3 DEF yield, forkVars
<1>4. CASE yieldResume(c, p)
  BY <1>4 DEF yieldResume, SwitchedIn, forkVars
<1>5. CASE syscall(c, p)
  BY <1>5 DEF syscall, forkVars, cpuVars
<1>6. CASE trapret(c, p)
  BY <1>6 DEF trapret, forkVars, cpuVars
<1>7. CASE fault(c, p)
  BY <1>7 DEF fault, forkVars, cpuVars
<1>8. CASE allocproc(c, p)
  BY <1>8, SMTT(30) DEF allocproc, cpuVars
<1>9. CASE allocprocStack(c, p)
  <2>1. np[p] \in Slots /\ np[p] # p /\ state[np[p]] = "EMBRYO"
    BY <1>9, InForkOwns DEF allocprocStack
  <2>2. CASE forkFail(p)
    BY <1>9, <2>1, <2>2 DEF allocprocStack, forkFail, cpuVars
  <2>3. CASE /\ kstack' = [kstack EXCEPT ![np[p]] = TRUE]
             /\ pc' = [pc EXCEPT ![p] = "copyuvm", ![np[p]] = "forkret"]
             /\ UNCHANGED <<state, np>>
    BY <1>9, <2>1, <2>3 DEF allocprocStack, cpuVars
  <2> QED BY <1>9, <2>2, <2>3 DEF allocprocStack
<1>10. CASE forkCopy(c, p)
  <2>1. np[p] \in Slots /\ np[p] # p /\ state[np[p]] = "EMBRYO"
    BY <1>10, InForkOwns DEF forkCopy
  <2>2. CASE forkFail(p) /\ UNCHANGED parent
    BY <1>10, <2>1, <2>2 DEF forkCopy, forkFail, cpuVars
  <2>3. CASE /\ parent' = [parent EXCEPT ![np[p]] = p]
             /\ Goto(p, "runnable")
             /\ UNCHANGED <<state, kstack, np>>
    BY <1>10, <2>1, <2>3 DEF forkCopy, cpuVars
  <2> QED BY <1>10, <2>2, <2>3 DEF forkCopy
<1>11. CASE forkRunnable(c, p)
  BY <1>11, SMTT(30) DEF forkRunnable, cpuVars
<1>12. CASE exit(c, p)
  BY <1>12 DEF exit, exitWakeups, wakeup1, reparent, forkVars
<1>13. CASE waitReap(c, p)
  <2>1. PICK z \in Slots : Reaps(c, p, z)
    BY <1>13, ReapsChild
  <2> QED BY <2>1 DEF Reaps
<1>14. CASE waitNone(c, p)
  BY <1>14 DEF waitNone, WaitScan, SwitchedIn, forkVars
<1>15. CASE waitSleep(c, p)
  BY <1>15 DEF waitSleep, WaitScan, SwitchedIn, forkVars
<1>16. CASE blockCheck(c, p)
  BY <1>16 DEF blockCheck, forkVars, cpuVars
<1>17. CASE sleepResume(c, p)
  BY <1>17 DEF sleepResume, SwitchedIn, forkVars
<1>18. ASSUME NEW ch \in Chans, sleep(c, p, ch) PROVE Parents'
  BY <1>18 DEF sleep, forkVars
<1>19. ASSUME NEW k \in KillPids, kill(c, p, k) PROVE Parents'
  BY <1>19, SMTT(30) DEF kill, forkVars, cpuVars
<1> HIDE DEF TypeOK, Threads, Embryos, Parents, MyProc, Locations, procstate, Live,
            InFork, InSched, Exec, Goto, Preemptible
<1> QED BY <1>1, <1>2, <1>3, <1>4, <1>5, <1>6, <1>7, <1>8, <1>9, <1>10, <1>11,
           <1>12, <1>13, <1>14, <1>15, <1>16, <1>17, <1>18, <1>19 DEF procStep

\* Every step of a process keeps wait's sleepers apart from the others.
LEMMA ChannelsStep ==
  ASSUME Inv, NEW c \in Cpus, NEW p \in Slots, procStep(c, p)
  PROVE  Channels'
<1> SUFFICES ASSUME PointerSets, TypeOK, Threads, Embryos, Channels, MyProc
             PROVE  Channels'
  BY Pointers DEF Inv
<1> USE DEF PointerSets, TypeOK, Threads, Embryos, Channels, MyProc,
        Locations, procstate, Live, InFork, InSched, Exec, Goto, Preemptible
<1>1. CASE scheduler(c, p)
  BY <1>1 DEF scheduler, forkVars
<1>2. CASE forkret(c, p)
  BY <1>2 DEF forkret, SwitchedIn, forkVars
<1>3. CASE yield(c, p)
  BY <1>3 DEF yield, forkVars
<1>4. CASE yieldResume(c, p)
  BY <1>4 DEF yieldResume, SwitchedIn, forkVars
<1>5. CASE syscall(c, p)
  BY <1>5 DEF syscall, forkVars, cpuVars
<1>6. CASE trapret(c, p)
  BY <1>6 DEF trapret, forkVars, cpuVars
<1>7. CASE fault(c, p)
  BY <1>7 DEF fault, forkVars, cpuVars
<1>8. CASE allocproc(c, p)
  BY <1>8 DEF allocproc, cpuVars
<1>9. CASE allocprocStack(c, p)
  BY <1>9 DEF allocprocStack, forkFail, cpuVars
<1>10. CASE forkCopy(c, p)
  BY <1>10 DEF forkCopy, forkFail, cpuVars
<1>11. CASE forkRunnable(c, p)
  BY <1>11 DEF forkRunnable, cpuVars
<1>12. CASE exit(c, p)
  BY <1>12 DEF exit, exitWakeups, wakeup1, reparent, forkVars
<1>13. CASE waitReap(c, p)
  <2>1. PICK z \in Slots : Reaps(c, p, z)
    BY <1>13, ReapsChild
  <2> QED BY <2>1 DEF Reaps
<1>14. CASE waitNone(c, p)
  BY <1>14 DEF waitNone, WaitScan, SwitchedIn, forkVars
<1>15. CASE waitSleep(c, p)
  BY <1>15 DEF waitSleep, WaitScan, SwitchedIn, forkVars
<1>16. CASE blockCheck(c, p)
  BY <1>16 DEF blockCheck, forkVars, cpuVars
<1>17. CASE sleepResume(c, p)
  BY <1>17 DEF sleepResume, SwitchedIn, forkVars
<1>18. ASSUME NEW ch \in Chans, sleep(c, p, ch) PROVE Channels'
  BY <1>18 DEF sleep, forkVars
<1>19. ASSUME NEW k \in KillPids, kill(c, p, k) PROVE Channels'
  BY <1>19, SMTT(30) DEF kill, forkVars, cpuVars
<1> HIDE DEF TypeOK, Threads, Embryos, Channels, MyProc, Locations, procstate, Live,
            InFork, InSched, Exec, Goto, Preemptible
<1> QED BY <1>1, <1>2, <1>3, <1>4, <1>5, <1>6, <1>7, <1>8, <1>9, <1>10, <1>11,
           <1>12, <1>13, <1>14, <1>15, <1>16, <1>17, <1>18, <1>19 DEF procStep

\* Every step of a process leaves no parent asleep on a zombie.
LEMMA NoMissedExitStep ==
  ASSUME Inv, NEW c \in Cpus, NEW p \in Slots, procStep(c, p)
  PROVE  NoMissedExit'
<1> SUFFICES ASSUME PointerSets, TypeOK, Threads, Embryos, Parents, Channels, MyProc, NoMissedExit
             PROVE  NoMissedExit'
  BY Pointers DEF Inv
<1> USE DEF PointerSets, TypeOK, Threads, Embryos, Parents, Channels, MyProc, NoMissedExit, Children, ZombieChildren,
        Locations, procstate, Live, InFork, InSched, Exec, Goto, Preemptible
<1>1. CASE scheduler(c, p)
  BY <1>1 DEF scheduler, forkVars
<1>2. CASE forkret(c, p)
  BY <1>2 DEF forkret, SwitchedIn, forkVars
<1>3. CASE yield(c, p)
  BY <1>3 DEF yield, forkVars
<1>4. CASE yieldResume(c, p)
  BY <1>4 DEF yieldResume, SwitchedIn, forkVars
<1>5. CASE syscall(c, p)
  BY <1>5 DEF syscall, forkVars, cpuVars
<1>6. CASE trapret(c, p)
  BY <1>6 DEF trapret, forkVars, cpuVars
<1>7. CASE fault(c, p)
  BY <1>7 DEF fault, forkVars, cpuVars
<1>8. CASE allocproc(c, p)
  BY <1>8 DEF allocproc, cpuVars
<1>9. CASE allocprocStack(c, p)
  <2>1. np[p] \in Slots /\ np[p] # p /\ state[np[p]] = "EMBRYO"
    BY <1>9, InForkOwns DEF allocprocStack
  <2>2. CASE forkFail(p)
    BY <1>9, <2>1, <2>2 DEF allocprocStack, forkFail, cpuVars
  <2>3. CASE /\ kstack' = [kstack EXCEPT ![np[p]] = TRUE]
             /\ pc' = [pc EXCEPT ![p] = "copyuvm", ![np[p]] = "forkret"]
             /\ UNCHANGED <<state, np>>
    BY <1>9, <2>1, <2>3 DEF allocprocStack, cpuVars
  <2> QED BY <1>9, <2>2, <2>3, SMTT(30) DEF allocprocStack
<1>10. CASE forkCopy(c, p)
  <2>1. np[p] \in Slots /\ np[p] # p /\ state[np[p]] = "EMBRYO"
    BY <1>10, InForkOwns DEF forkCopy
  <2>2. CASE forkFail(p) /\ UNCHANGED parent
    BY <1>10, <2>1, <2>2 DEF forkCopy, forkFail, cpuVars
  <2>3. CASE /\ parent' = [parent EXCEPT ![np[p]] = p]
             /\ Goto(p, "runnable")
             /\ UNCHANGED <<state, kstack, np>>
    BY <1>10, <2>1, <2>3 DEF forkCopy, cpuVars
  <2> QED BY <1>10, <2>2, <2>3 DEF forkCopy
<1>11. CASE forkRunnable(c, p)
  BY <1>11 DEF forkRunnable, cpuVars
<1>12. CASE exit(c, p)
  <2> SUFFICES ASSUME NEW q \in Slots, state'[q] = "SLEEPING", pc'[q] = "waiting"
               PROVE  Children(q)' # {} /\ ZombieChildren(q)' = {} /\ ~killed'[q]
    OBVIOUS
  <2>1. q # p /\ state[q] = "SLEEPING" /\ pc[q] = "waiting" /\ chan[q] = q
    BY <1>12 DEF exit, exitWakeups, wakeup1
  <2>2. q # parent[p] /\ (q = initproc => \A s \in Slots : parent[s] = p => state[s] # "ZOMBIE")
    BY <1>12, <2>1 DEF exit, exitWakeups, wakeup1
  <2>3. \A s \in Slots : parent'[s] = IF parent[s] = p THEN initproc ELSE parent[s]
    BY <1>12 DEF exit, reparent
  <2>4. \A s \in Slots \ {p} : state'[s] = "ZOMBIE" => state[s] = "ZOMBIE"
    BY <1>12 DEF exit, exitWakeups, wakeup1
  <2>5. Children(q)' # {}
    BY <2>1, <2>3
  <2>6. ZombieChildren(q)' = {}
    BY <2>1, <2>2, <2>3, <2>4, SMTT(30)
  <2> QED BY <1>12, <2>1, <2>5, <2>6 DEF exit, forkVars
<1>13. CASE waitReap(c, p)
  <2>1. PICK z \in Slots : Reaps(c, p, z)
    BY <1>13, ReapsChild
  <2> QED BY <2>1 DEF Reaps
<1>14. CASE waitNone(c, p)
  BY <1>14 DEF waitNone, WaitScan, SwitchedIn, forkVars
<1>15. CASE waitSleep(c, p)
  BY <1>15 DEF waitSleep, WaitScan, SwitchedIn, forkVars
<1>16. CASE blockCheck(c, p)
  BY <1>16 DEF blockCheck, forkVars, cpuVars
<1>17. CASE sleepResume(c, p)
  BY <1>17 DEF sleepResume, SwitchedIn, forkVars
<1>18. ASSUME NEW ch \in Chans, sleep(c, p, ch) PROVE NoMissedExit'
  BY <1>18 DEF sleep, forkVars
<1>19. ASSUME NEW k \in KillPids, kill(c, p, k) PROVE NoMissedExit'
  BY <1>19, SMTT(30) DEF kill, forkVars, cpuVars
<1> HIDE DEF TypeOK, Threads, Embryos, Parents, Channels, MyProc, NoMissedExit, Children,
            ZombieChildren, Locations, procstate, Live, InFork, InSched, Exec, Goto,
            Preemptible
<1> QED BY <1>1, <1>2, <1>3, <1>4, <1>5, <1>6, <1>7, <1>8, <1>9, <1>10, <1>11,
           <1>12, <1>13, <1>14, <1>15, <1>16, <1>17, <1>18, <1>19 DEF procStep

\* Every step of a process keeps pids different.
LEMMA PidUniqueStep ==
  ASSUME Inv, NEW c \in Cpus, NEW p \in Slots, procStep(c, p)
  PROVE  PidUnique'
<1> SUFFICES ASSUME PointerSets, TypeOK, Threads, Embryos, MyProc, PidUnique
             PROVE  PidUnique'
  BY Pointers DEF Inv
<1> USE DEF PointerSets, TypeOK, Threads, Embryos, MyProc, PidUnique,
        Locations, procstate, Live, InFork, InSched, Exec, Goto, Preemptible
<1>1. CASE scheduler(c, p)
  BY <1>1 DEF scheduler, forkVars
<1>2. CASE forkret(c, p)
  BY <1>2 DEF forkret, SwitchedIn, forkVars
<1>3. CASE yield(c, p)
  BY <1>3 DEF yield, forkVars
<1>4. CASE yieldResume(c, p)
  BY <1>4 DEF yieldResume, SwitchedIn, forkVars
<1>5. CASE syscall(c, p)
  BY <1>5 DEF syscall, forkVars, cpuVars
<1>6. CASE trapret(c, p)
  BY <1>6 DEF trapret, forkVars, cpuVars
<1>7. CASE fault(c, p)
  BY <1>7 DEF fault, forkVars, cpuVars
<1>8. CASE allocproc(c, p)
  BY <1>8 DEF allocproc, cpuVars
<1>9. CASE allocprocStack(c, p)
  BY <1>9 DEF allocprocStack, forkFail, cpuVars
<1>10. CASE forkCopy(c, p)
  BY <1>10 DEF forkCopy, forkFail, cpuVars
<1>11. CASE forkRunnable(c, p)
  BY <1>11 DEF forkRunnable, cpuVars
<1>12. CASE exit(c, p)
  BY <1>12 DEF exit, exitWakeups, wakeup1, reparent, forkVars
<1>13. CASE waitReap(c, p)
  <2>1. PICK z \in Slots : Reaps(c, p, z)
    BY <1>13, ReapsChild
  <2> QED BY <2>1 DEF Reaps
<1>14. CASE waitNone(c, p)
  BY <1>14 DEF waitNone, WaitScan, SwitchedIn, forkVars
<1>15. CASE waitSleep(c, p)
  BY <1>15 DEF waitSleep, WaitScan, SwitchedIn, forkVars
<1>16. CASE blockCheck(c, p)
  BY <1>16 DEF blockCheck, forkVars, cpuVars
<1>17. CASE sleepResume(c, p)
  BY <1>17 DEF sleepResume, SwitchedIn, forkVars
<1>18. ASSUME NEW ch \in Chans, sleep(c, p, ch) PROVE PidUnique'
  BY <1>18 DEF sleep, forkVars
<1>19. ASSUME NEW k \in KillPids, kill(c, p, k) PROVE PidUnique'
  BY <1>19 DEF kill, forkVars, cpuVars
<1> HIDE DEF TypeOK, Threads, Embryos, MyProc, PidUnique, Locations, procstate, Live,
            InFork, InSched, Exec, Goto, Preemptible
<1> QED BY <1>1, <1>2, <1>3, <1>4, <1>5, <1>6, <1>7, <1>8, <1>9, <1>10, <1>11,
           <1>12, <1>13, <1>14, <1>15, <1>16, <1>17, <1>18, <1>19 DEF procStep
-----------------------------------------------------------------------------
(* The whole invariant, and what follows from it.                          *)

\* The invariant speaks of the variables only.
LEMMA StutterStep == ASSUME Inv, UNCHANGED vars PROVE Inv'
<1> SUFFICES ASSUME PointerSets, TypeOK, Threads, Embryos, Stacks, Parents, Channels,
                    LockHandoff, OneCpuPerStack, StackAllocated, MyProc, NoMissedExit, PidUnique
             PROVE  /\ TypeOK' /\ Threads' /\ Embryos' /\ Stacks' /\ Parents' /\ Channels'
                    /\ LockHandoff' /\ OneCpuPerStack' /\ StackAllocated' /\ MyProc'
                    /\ NoMissedExit' /\ PidUnique'
  BY Pointers DEF Inv
<1>1. TypeOK' /\ Threads' /\ Embryos' /\ Stacks' /\ Parents' /\ Channels'
  BY SMTT(30) DEF vars, TypeOK, Threads, Embryos, Stacks, Parents, Channels
<1>2. LockHandoff' /\ OneCpuPerStack' /\ StackAllocated' /\ MyProc'
  BY SMTT(30) DEF vars, LockHandoff, OneCpuPerStack, StackAllocated, MyProc, InSched
<1>3. NoMissedExit' /\ PidUnique'
  BY SMTT(30) DEF vars, NoMissedExit, PidUnique, Children, ZombieChildren
<1> QED BY <1>1, <1>2, <1>3

\* The scheduler's half of a context switch.
LEMMA CpuStep == ASSUME Inv, NEW c \in Cpus, cpuStep(c) PROVE Inv'
<1> SUFFICES ASSUME PointerSets, TypeOK, Threads, Embryos, Stacks, Parents, Channels,
                    LockHandoff, OneCpuPerStack, StackAllocated, MyProc, NoMissedExit, PidUnique
             PROVE  /\ TypeOK' /\ Threads' /\ Embryos' /\ Stacks' /\ Parents' /\ Channels'
                    /\ LockHandoff' /\ OneCpuPerStack' /\ StackAllocated' /\ MyProc'
                    /\ NoMissedExit' /\ PidUnique'
  BY Pointers DEF Inv
<1> USE DEF PointerSets, Live, InSched
<1>1. CASE sched(c)
  <2>1. TypeOK' /\ Threads' /\ Embryos' /\ Stacks' /\ Parents' /\ Channels'
    BY <1>1 DEF sched, forkVars, TypeOK, Threads, Embryos, Stacks, Parents, Channels
  <2>2. LockHandoff' /\ OneCpuPerStack' /\ StackAllocated' /\ MyProc'
    BY <1>1 DEF sched, forkVars, TypeOK, LockHandoff, OneCpuPerStack, StackAllocated, MyProc
  <2>3. NoMissedExit' /\ PidUnique'
    BY <1>1, SMTT(30) DEF sched, forkVars, NoMissedExit, PidUnique, Children, ZombieChildren
  <2> QED BY <2>1, <2>2, <2>3, SMTT(30)
<1>2. CASE schedulerResume(c)
  <2>1. TypeOK' /\ Threads' /\ Embryos' /\ Stacks' /\ Parents' /\ Channels'
    BY <1>2 DEF schedulerResume, forkVars, TypeOK, Threads, Embryos, Stacks, Parents, Channels
  <2>2. LockHandoff' /\ OneCpuPerStack' /\ StackAllocated' /\ MyProc'
    BY <1>2 DEF schedulerResume, forkVars, TypeOK, LockHandoff, OneCpuPerStack, StackAllocated,
                MyProc
  <2>3. NoMissedExit' /\ PidUnique'
    BY <1>2 DEF schedulerResume, forkVars, NoMissedExit, PidUnique, Children, ZombieChildren
  <2> QED BY <2>1, <2>2, <2>3
<1> QED BY <1>1, <1>2 DEF cpuStep

\* A wakeup by an interrupt handler.
LEMMA WakeupStep == ASSUME Inv, NEW ch \in Chans, wakeup(ch) PROVE Inv'
<1> SUFFICES ASSUME PointerSets, TypeOK, Threads, Embryos, Stacks, Parents, Channels,
                    LockHandoff, OneCpuPerStack, StackAllocated, MyProc, NoMissedExit, PidUnique
             PROVE  /\ TypeOK' /\ Threads' /\ Embryos' /\ Stacks' /\ Parents' /\ Channels'
                    /\ LockHandoff' /\ OneCpuPerStack' /\ StackAllocated' /\ MyProc'
                    /\ NoMissedExit' /\ PidUnique'
  BY Pointers DEF Inv
<1> USE DEF PointerSets, Live, InSched, wakeup, wakeup1, forkVars, cpuVars
<1>1. TypeOK' /\ Threads'
  BY SMTT(30) DEF TypeOK, Threads, procstate
<1>2. Embryos' /\ Stacks' /\ Parents' /\ Channels'
  BY DEF TypeOK, Threads, Embryos, Stacks, Parents, Channels
<1>3. LockHandoff' /\ OneCpuPerStack' /\ StackAllocated' /\ MyProc'
  BY DEF TypeOK, LockHandoff, OneCpuPerStack, StackAllocated, MyProc
<1>4. NoMissedExit' /\ PidUnique'
  BY DEF NoMissedExit, PidUnique, Children, ZombieChildren
<1> QED BY <1>1, <1>2, <1>3, <1>4

\* userinit establishes the invariant.
LEMMA InitInv == Init => Inv
<1> SUFFICES ASSUME Init PROVE Inv
  OBVIOUS
<1> USE Pointers DEF PointerSets, Init, Live, InSched, InFork, Preemptible, Locations, procstate
<1>1. TypeOK
  BY DEF TypeOK
<1>2. Threads /\ Embryos /\ Stacks /\ Parents /\ Channels
  BY ZenonT(30) DEF Threads, Embryos, Stacks, Parents, Channels
<1>3. LockHandoff /\ OneCpuPerStack /\ StackAllocated /\ MyProc
  BY DEF LockHandoff, OneCpuPerStack, StackAllocated, MyProc
<1>4. NoMissedExit /\ PidUnique
  BY DEF NoMissedExit, PidUnique
<1> QED BY <1>1, <1>2, <1>3, <1>4 DEF Inv

\* Every step keeps the invariant.
LEMMA InvStep == Inv /\ [Next]_vars => Inv'
<1> SUFFICES ASSUME Inv, [Next]_vars PROVE Inv'
  OBVIOUS
<1>1. ASSUME NEW c \in Cpus, NEW p \in Slots, procStep(c, p) PROVE Inv'
  <2>1. TypeOK' /\ Threads' /\ Embryos' /\ Stacks'
    BY <1>1, TypeOKStep, ThreadsStep, EmbryosStep, StacksStep, SMTT(30) DEF Inv
  <2>2. Parents' /\ Channels' /\ NoMissedExit' /\ PidUnique'
    BY <1>1, ParentsStep, ChannelsStep, NoMissedExitStep, PidUniqueStep, SMTT(30) DEF Inv
  <2>3. LockHandoff' /\ OneCpuPerStack' /\ StackAllocated' /\ MyProc'
    BY <1>1, LockHandoffStep, OneCpuPerStackStep, StackAllocatedStep, MyProcStep, SMTT(30)
       DEF Inv
  <2> QED BY <2>1, <2>2, <2>3, SMTT(30) DEF Inv
<1> QED BY <1>1, StutterStep, CpuStep, WakeupStep, SMTT(30) DEF Next
-----------------------------------------------------------------------------

\* The invariant holds in every reachable state.
THEOREM Invariance == Spec => []Inv
BY InitInv, InvStep, PTL DEF Spec

\* The process table keeps its types.
THEOREM TypeCorrect == Spec => []TypeOK
<1>1. Inv => TypeOK
  BY DEF Inv
<1> QED BY <1>1, Invariance, PTL

\* ptable.lock is handed over across every context switch.
THEOREM LockSafe == Spec => []LockHandoff
<1>1. Inv => LockHandoff
  BY DEF Inv
<1> QED BY <1>1, Invariance, PTL

\* No two CPUs execute on one kernel stack.
THEOREM StackExclusive == Spec => []OneCpuPerStack
<1>1. Inv => OneCpuPerStack
  BY DEF Inv
<1> QED BY <1>1, Invariance, PTL

\* No CPU executes on a stack that wait has freed.
THEOREM StackSafe == Spec => []StackAllocated
<1>1. Inv => StackAllocated
  BY DEF Inv
<1> QED BY <1>1, Invariance, PTL

\* c->proc, p->state and the stacks in use agree.
THEOREM MyProcSafe == Spec => []MyProc
<1>1. Inv => MyProc
  BY DEF Inv
<1> QED BY <1>1, Invariance, PTL

\* Every process but init has a parent that can still wait for it.
THEOREM OrphanSafe == Spec => []NoOrphan
<1>1. Inv => NoOrphan
  BY DEF Inv, Parents, NoOrphan
<1> QED BY <1>1, Invariance, PTL

\* No parent sleeps in wait while it has a zombie child or has been killed.
THEOREM ExitNotMissed == Spec => []NoMissedExit
<1>1. Inv => NoMissedExit
  BY DEF Inv
<1> QED BY <1>1, Invariance, PTL

\* Slots in use have different pids.
THEOREM PidsDiffer == Spec => []PidUnique
<1>1. Inv => PidUnique
  BY DEF Inv
<1> QED BY <1>1, Invariance, PTL

\* A failed fork loses neither a slot nor a stack.
THEOREM LeakSafe == Spec => []NothingLeaks
<1>1. ASSUME Inv PROVE NothingLeaks
  <2>1. ASSUME NEW s \in Slots, state[s] = "EMBRYO"
        PROVE  \E p \in Slots : /\ np[p] = s
                                /\ state[p] \in {"RUNNABLE", "RUNNING"}
                                /\ pc[p] \in {"kalloc", "copyuvm", "runnable"}
                                /\ \A q \in Slots : np[q] = s => q = p
    <3>1. PICK p \in Slots : np[p] = s
      BY <1>1, <2>1 DEF Inv, Embryos
    <3>2. pc[p] \in InFork /\ \A q \in Slots : np[q] = s => q = p
      BY <1>1, <3>1, Pointers DEF PointerSets, Inv, Embryos
    <3>3. state[p] \in {"RUNNABLE", "RUNNING"}
      BY <1>1, <3>2 DEF Inv, TypeOK, Threads, InFork, procstate
    <3> QED BY <3>1, <3>2, <3>3 DEF InFork
  <2>2. \A s \in Slots : kstack[s] => state[s] # "UNUSED"
    BY <1>1, SMTT(30) DEF Inv, Stacks
  <2> QED BY <2>1, <2>2 DEF NothingLeaks
<1> QED BY <1>1, Invariance, PTL

\* A step takes a slot along an edge of its life cycle.
Lives == \A s \in Slots : state'[s] = state[s] \/ <<state[s], state'[s]>> \in Edges

\* Every step takes each slot along an edge or leaves it alone.
LEMMA LivesStep ==
  ASSUME Inv, NEW c \in Cpus, NEW p \in Slots, procStep(c, p) PROVE Lives
<1> SUFFICES ASSUME PointerSets, TypeOK, Threads, Embryos, MyProc PROVE Lives
  BY Pointers DEF Inv
<1> USE DEF PointerSets, TypeOK, Lives, Edges, Exec, InSched
<1>1. CASE scheduler(c, p)
  BY <1>1 DEF scheduler
<1>2. CASE yield(c, p)
  BY <1>2 DEF yield, MyProc, Preemptible
<1>3. CASE allocproc(c, p)
  BY <1>3 DEF allocproc
<1>4. CASE allocprocStack(c, p)
  <2>1. np[p] \in Slots /\ state[np[p]] = "EMBRYO"
    BY <1>4, InForkOwns DEF allocprocStack, InFork
  <2> QED BY <1>4, <2>1 DEF allocprocStack, forkFail
<1>5. CASE forkCopy(c, p)
  <2>1. np[p] \in Slots /\ state[np[p]] = "EMBRYO"
    BY <1>5, InForkOwns DEF forkCopy, InFork
  <2> QED BY <1>5, <2>1 DEF forkCopy, forkFail
<1>6. CASE forkRunnable(c, p)
  <2>1. np[p] \in Slots /\ state[np[p]] = "EMBRYO"
    BY <1>6, InForkOwns, SMTT(30) DEF forkRunnable, InFork
  <2> QED BY <1>6, <2>1 DEF forkRunnable
<1>7. CASE exit(c, p)
  <2>1. state[p] = "RUNNING"
    BY <1>7 DEF exit, MyProc
  <2> QED BY <1>7, <2>1 DEF exit, exitWakeups, wakeup1
<1>8. CASE waitReap(c, p)
  <2>1. PICK z \in Slots : Reaps(c, p, z)
    BY <1>8, ReapsChild
  <2> QED BY <2>1 DEF Reaps
<1>9. CASE waitSleep(c, p)
  BY <1>9 DEF waitSleep, WaitScan, SwitchedIn, MyProc
<1>10. ASSUME NEW ch \in Chans, sleep(c, p, ch) PROVE Lives
  BY <1>10 DEF sleep, MyProc
<1>11. ASSUME NEW k \in KillPids, kill(c, p, k) PROVE Lives
  BY <1>11, SMTT(30) DEF kill
<1>12. CASE \/ forkret(c, p) \/ yieldResume(c, p) \/ syscall(c, p) \/ trapret(c, p)
            \/ fault(c, p) \/ waitNone(c, p) \/ blockCheck(c, p) \/ sleepResume(c, p)
  BY <1>12, ZenonT(30) DEF forkret, yieldResume, syscall, trapret, fault, waitNone, blockCheck,
               sleepResume
<1> QED BY <1>1, <1>2, <1>3, <1>4, <1>5, <1>6, <1>7, <1>8, <1>9, <1>10, <1>11, <1>12
        DEF procStep

\* Nothing revives a zombie or an unused slot, and only the scheduler makes a

\* process RUNNING.
THEOREM LifeCycleSafe == Spec => LifeCycle
<1>1. Inv /\ [Next]_vars => [Lives]_vars
  <2> SUFFICES ASSUME Inv, Next PROVE Lives
    OBVIOUS
  <2>1. ASSUME NEW c \in Cpus, cpuStep(c) PROVE Lives
    BY <2>1 DEF cpuStep, sched, schedulerResume, Lives
  <2>2. ASSUME NEW ch \in Chans, wakeup(ch) PROVE Lives
    BY <2>2 DEF Inv, TypeOK, wakeup, wakeup1, Lives, Edges
  <2> QED BY <2>1, <2>2, LivesStep DEF Next
<1> QED BY <1>1, Invariance, PTL DEF Spec, LifeCycle, Lives
=============================================================================
