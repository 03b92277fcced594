----------------------------- MODULE ProcProofs -----------------------------
(***************************************************************************)
(* Proofs about the process table: ProcInv is an inductive invariant of     *)
(* Proc, for every number of slots, CPUs, channels and pids and every set   *)
(* of arguments.                                                            *)
(***************************************************************************)
EXTENDS ProcLemmas

\* Giving back the slot of a zombie.  Nobody asleep in wait() counts on it, or
\* it would have been woken.
LEMMA ReapInv ==
  ASSUME ProcInv, NEW p \in Slot, state[p] = "RUNNING", pc[p] # "none",
         NEW z \in Slot, state[z] = "ZOMBIE", Reap(z), Goto(p, "user"), lock' = NoCpu,
         arg' \in [Slot -> Int], \A s \in Slot \ {p} : arg'[s] = arg[s],
         UNCHANGED <<schedAlg, RRLastProc, ctr, reg, panicked>>
  PROVE  ProcInv'
  <1> USE DEF Reap, Goto
  <1>0. z # p /\ z # InitProc /\ pc[z] = "none"
    BY Zenon DEF ProcInv, ThreadsLive, ParentsOlder, Live
  <1>1. TypeOK'
    <2>1. /\ state' \in [Slot -> States] /\ pc' \in [Slot -> PCs]
          /\ pid' \in [Slot -> Nat] /\ first_pid' \in [Slot -> Nat]
      BY Zenon DEF ProcInv, TypeOK, States, PCs
    <2>2. /\ parent' \in [Slot -> Slot \cup {NoProc}]
          /\ killed' \in [Slot -> BOOLEAN] /\ priority' \in [Slot -> 0..6]
          /\ ticketCount' \in [Slot -> Nat]
      BY DEF ProcInv, TypeOK
    <2> QED BY <2>1, <2>2, Zenon DEF ProcInv, TypeOK
  <1>2. (RunningOnOneCpu /\ SliceInRange)'
    BY Zenon, <1>0 DEF ProcInv, TypeOK, RunningOnOneCpu, SliceInRange
  <1>3. (LocalsInRange /\ ThreadsLive)'
    BY <1>0, Zenon DEF ProcInv, TypeOK, LocalsInRange, ThreadsLive, Live
  <1>4. (PidsBounded /\ PidsUnique)'
    BY <1>0 DEF ProcInv, TypeOK, PidsBounded, PidsUnique
  <1>5. EmbryosOwned'
    BY Zenon, <1>0 DEF ProcInv, TypeOK, EmbryosOwned
  <1>6. ParentAlive'
    BY Zenon, <1>0 DEF ProcInv, TypeOK, ParentAlive, Live
  <1>7. ParentsOlder'
    BY Zenon, <1>0, InitProcIsSlot DEF ProcInv, TypeOK, ParentsOlder, ParentAlive, Live
  <1>8. WaitersOnSelf'
    BY <1>0, Zenon DEF ProcInv, TypeOK, WaitersOnSelf
  <1>9. WaiterNotStranded'
    <2> SUFFICES ASSUME NEW s \in Slot, state'[s] = "SLEEPING", pc'[s] = "wait"
                 PROVE  Kids(s)' # {} /\ Zombies(Kids(s))' = {} /\ ~killed'[s]
      BY Zenon DEF WaiterNotStranded
    <2>1. s # p /\ s # z /\ state[s] = "SLEEPING" /\ pc[s] = "wait"
      BY Zenon DEF ProcInv, TypeOK
    <2>2. Kids(s) # {} /\ Zombies(Kids(s)) = {} /\ ~killed[s]
      BY <2>1, Zenon DEF ProcInv, WaiterNotStranded
    <2>3. z \notin Kids(s)
      BY <2>2, Zenon DEF Zombies
    <2>4. Kids(s)' = Kids(s)
      BY Zenon, <2>3, SlotsAreNat DEF Kids, ProcInv, TypeOK
    <2>5. Zombies(Kids(s))' = {}
      BY <2>2, <2>3, <2>4, Zenon DEF Zombies, Kids, ProcInv, TypeOK
    <2>6. ~killed'[s]
      BY <2>1, <2>2, Zenon DEF ProcInv, TypeOK
    <2> QED BY <2>2, <2>4, <2>5, <2>6, Zenon
  <1> QED
    BY Zenon, <1>1, <1>2, <1>3, <1>4, <1>5, <1>6, <1>7, <1>8, <1>9 DEF ProcInv

\* p goes to sleep on itself, having found children but no zombie among them.
LEMMA SleepOnSelfInv ==
  ASSUME ProcInv, NEW c \in CPU, NEW p \in Slot, cproc[c] = p,
         NEW l \in {"wait", "join"}, GoToSleep(c, p, p), Goto(p, l),
         l = "wait" => Kids(p) # {} /\ Zombies(Kids(p)) = {} /\ ~killed[p],
         arg' \in [Slot -> Int], \A s \in Slot \ {p} : arg'[s] = arg[s],
         UNCHANGED <<pid, first_pid, parent, killed, priority, ticketCount,
                     nextpid, schedAlg, RRLastProc, ctr, reg, panicked>>
  PROVE  ProcInv'
  <1> USE DEF Goto, GoToSleep, Leave
  <1>0. state[p] = "RUNNING" /\ pc[p] # "none"
    BY Zenon, CurrentRuns
  <1>1. TypeOK'
    BY Zenon DEF ProcInv, TypeOK, States, PCs
  <1>2. RunningOnOneCpu'
    BY <1>0, SlotsAreNat DEF ProcInv, TypeOK, RunningOnOneCpu
  <1>3. (SliceInRange /\ LocalsInRange)'
    BY Zenon DEF ProcInv, TypeOK, SliceInRange, LocalsInRange
  <1>4. Quiet
    BY Zenon, <1>0 DEF ProcInv, TypeOK, Quiet, Creating, PidsBounded, Live
  <1>5. WaitersOnSelf'
    BY Zenon, <1>0 DEF ProcInv, TypeOK, WaitersOnSelf
  <1>6. WaiterNotStranded'
    <2>1. ASSUME NEW s \in Slot
          PROVE  Kids(s)' = Kids(s) /\ Zombies(Kids(s))' = Zombies(Kids(s))
      BY <1>0, Zenon DEF ProcInv, TypeOK, Kids, Zombies
    <2> QED BY Zenon, <2>1 DEF ProcInv, TypeOK, WaiterNotStranded
  <1> QED BY <1>1, <1>2, <1>3, <1>4, <1>5, <1>6, QuietInv, Zenon DEF ProcInv

\* diagwait(): reap, fail or sleep.
LEMMA WaitInv ==
  ASSUME ProcInv, NEW c \in CPU, NEW p \in Slot, Wait(c, p)
  PROVE  ProcInv'
  <1>0. /\ cproc[c] = p /\ state[p] = "RUNNING" /\ pc[p] # "none"
        /\ UNCHANGED <<schedAlg, RRLastProc, ctr, reg, panicked>>
    BY CurrentRuns, Zenon DEF Wait, Scanning, At, In
  <1>1. ASSUME NEW s \in Zombies(Kids(p)), Reap(s), lock' = NoCpu, Goto(p, "user"),
               arg' = [arg EXCEPT ![p] = IF pid[s] = @ THEN 0 ELSE @]
        PROVE  ProcInv'
    <2>1. s \in Slot /\ state[s] = "ZOMBIE"
      BY Zenon DEF Zombies, Kids
    <2>2. arg' \in [Slot -> Int] /\ \A t \in Slot \ {p} : arg'[t] = arg[t]
      BY <1>1 DEF ProcInv, TypeOK
    <2> QED BY Zenon, <1>0, <1>1, <2>1, <2>2, ReapInv
  <1>2. CASE /\ arg' = [arg EXCEPT ![p] = 0] /\ lock' = NoCpu /\ Goto(p, "user")
             /\ UNCHANGED <<tableVars, totalTicketCount, cproc>>
    <2>1. arg' \in [Slot -> Int] /\ \A t \in Slot \ {p} : arg'[t] = arg[t]
      BY <1>2 DEF ProcInv, TypeOK
    <2> QED BY <1>0, <1>2, <2>1, MoveInv, ZenonT(60) DEF cpuVars
  <1>3. CASE /\ Zombies(Kids(p)) = {} /\ Kids(p) # {} /\ ~killed[p]
             /\ GoToSleep(c, p, p) /\ Goto(p, "wait")
             /\ UNCHANGED <<pid, first_pid, parent, killed, priority, ticketCount,
                            nextpid, arg>>
    BY <1>0, <1>3, SleepOnSelfInv, Zenon DEF ProcInv, TypeOK
  <1> QED BY Zenon, <1>1, <1>2, <1>3 DEF Wait, First

\* thread_join(): reap, fail, sleep or return with the lock held.
LEMMA ThreadJoinInv ==
  ASSUME ProcInv, NEW c \in CPU, NEW p \in Slot, NEW t \in Int, ThreadJoin(c, p, t)
  PROVE  ProcInv'
  <1>0. /\ cproc[c] = p /\ state[p] = "RUNNING" /\ pc[p] # "none"
        /\ UNCHANGED <<schedAlg, RRLastProc, ctr, reg, panicked>>
    BY CurrentRuns, ZenonT(60) DEF ThreadJoin, Scanning, At, In
  <1>1. arg' \in [Slot -> Int] /\ \A s \in Slot \ {p} : arg'[s] = arg[s]
    <2>1. arg' = [arg EXCEPT ![p] = 0] \/ arg' = [arg EXCEPT ![p] = t]
      <3>1. JoinLeader(c, p, t) => arg' = [arg EXCEPT ![p] = 0]
        BY Zenon DEF JoinLeader
      <3>2. JoinThread(c, p, t) =>
              arg' = [arg EXCEPT ![p] = 0] \/ arg' = [arg EXCEPT ![p] = t]
        BY Zenon DEF JoinThread
      <3> QED BY Zenon, <3>1, <3>2 DEF ThreadJoin
    <2> QED BY <2>1 DEF ProcInv, TypeOK
  <1>2. CASE JoinLeader(c, p, t)
    BY <1>0, <1>1, <1>2, MoveInv, ZenonT(60) DEF JoinLeader, cpuVars
  <1>3. ASSUME NEW s \in Zombies(Targets(p, t)), Reap(s), lock' = NoCpu, Goto(p, "user"),
               arg' = [arg EXCEPT ![p] = 0]
        PROVE  ProcInv'
    <2>1. s \in Slot /\ state[s] = "ZOMBIE"
      BY Zenon DEF Zombies, Targets
    <2> QED BY <1>0, <1>1, <1>3, <2>1, ReapInv, Zenon
  <1>4. CASE /\ lock' = NoCpu /\ Goto(p, "user") /\ arg' = [arg EXCEPT ![p] = 0]
             /\ UNCHANGED <<tableVars, totalTicketCount, cproc>>
    BY <1>0, <1>1, <1>4, MoveInv, Zenon DEF cpuVars
  <1>5. CASE /\ GoToSleep(c, p, p) /\ Goto(p, "join") /\ arg' = [arg EXCEPT ![p] = t]
             /\ UNCHANGED <<pid, first_pid, parent, killed, priority, ticketCount,
                            nextpid>>
    BY <1>0, <1>1, <1>5, SleepOnSelfInv, Zenon
  <1> QED BY <1>2, <1>3, <1>4, <1>5, ZenonT(60) DEF ThreadJoin, JoinThread, First

-----------------------------------------------------------------------------
\* kill, set_priority, set_ticketCount and change_policy.

\* kill(): mark the slot and wake it if it sleeps.
LEMMA KillInv ==
  ASSUME ProcInv, NEW c \in CPU, NEW p \in Slot, NEW d \in Int, Kill(c, p, d)
  PROVE  ProcInv' /\ Quiet /\ SameSleepers
  <1>0. /\ state[p] = "RUNNING" /\ pc[p] # "none"
        /\ UNCHANGED <<pid, first_pid, parent, chan, priority, ticketCount, nextpid,
                       lock, cproc, schedAlg, RRLastProc, ctr, arg, reg, panicked>>
    BY Zenon, CurrentRuns DEF Kill, At, In, cpuVars
  <1>1. CASE Goto(p, "user") /\ UNCHANGED <<killed, state, totalTicketCount>>
    BY <1>0, <1>1, MoveInv, Zenon DEF ProcInv, TypeOK, tableVars, cpuVars
  <1>2. ASSUME NEW s \in Slot, killed' = [killed EXCEPT ![s] = TRUE],
               state' = Wake(KillWakes(s)),
               Goto(p, IF KillWakes(s) = {} THEN "user" ELSE "resched")
        PROVE  ProcInv' /\ Quiet /\ SameSleepers
    <2>1. \E l \in {"user", "resched"} : pc' = [pc EXCEPT ![p] = l]
      BY <1>2, Zenon DEF Goto
    <2>2. state' = [t \in Slot |-> IF t = s /\ state[s] = "SLEEPING" THEN "RUNNABLE"
                                                                 ELSE state[t]]
      BY Zenon, <1>2 DEF Wake, KillWakes
    <2>3. TypeOK'
      BY <1>0, <1>2, <2>1, <2>2 DEF ProcInv, TypeOK, States, PCs
    <2>4. (RunningOnOneCpu /\ SliceInRange /\ LocalsInRange)'
      BY Zenon, <1>0, <2>1, <2>2
      DEF ProcInv, TypeOK, RunningOnOneCpu, SliceInRange, LocalsInRange
    <2>5. Quiet
      BY Zenon, <1>0, <2>1, <2>2 DEF ProcInv, TypeOK, Quiet, Creating, PidsBounded, Live
    <2>6. SameSleepers
      BY <1>0, <1>2, <2>1, <2>2, Zenon DEF ProcInv, TypeOK, SameSleepers
    <2> QED BY Zenon, <2>3, <2>4, <2>5, <2>6, QuietInv, QuietWaiters DEF ProcInv
  <1> QED BY Zenon, <1>1, <1>2 DEF Kill, KillSlot, First

\* set_priority() keeps priorities within 1..6.
LEMMA SetPriorityInv ==
  ASSUME ProcInv, NEW c \in CPU, NEW p \in Slot, NEW prio \in Int, SetPriority(c, p, prio)
  PROVE  ProcInv' /\ Quiet /\ SameSleepers
  <1> USE DEF cpuVars, SetPriority, Goto, At, In
  <1>1. TypeOK'
    BY DEF ProcInv, TypeOK, PCs
  <1>2. (RunningOnOneCpu /\ SliceInRange /\ LocalsInRange)'
    BY Zenon DEF ProcInv, TypeOK, RunningOnOneCpu, SliceInRange, LocalsInRange
  <1>3. Quiet
    BY DEF ProcInv, TypeOK, Quiet, Creating, PidsBounded
  <1>4. SameSleepers
    BY Zenon DEF ProcInv, TypeOK, SameSleepers
  <1> QED BY Zenon, <1>1, <1>2, <1>3, <1>4, QuietInv, QuietWaiters DEF ProcInv

\* set_ticketCount(), the load.
LEMMA LoadTicketsInv ==
  ASSUME ProcInv, NEW c \in CPU, NEW p \in Slot, NEW n \in Nat, LoadTickets(c, p, n)
  PROVE  ProcInv' /\ Quiet /\ SameSleepers
  <1> USE DEF tableVars, cpuVars, LoadTickets, Goto, At, In
  <1>1. TypeOK'
    BY DEF ProcInv, TypeOK, PCs
  <1>2. (RunningOnOneCpu /\ SliceInRange /\ LocalsInRange)'
    BY Zenon DEF ProcInv, TypeOK, RunningOnOneCpu, SliceInRange, LocalsInRange
  <1>3. Quiet
    BY Zenon DEF ProcInv, TypeOK, Quiet, Creating, PidsBounded
  <1>4. SameSleepers
    BY Zenon DEF ProcInv, TypeOK, SameSleepers
  <1> QED BY <1>1, <1>2, <1>3, <1>4, QuietInv, QuietWaiters, Zenon DEF ProcInv

\* set_ticketCount(), the stores.
LEMMA StoreTicketsInv ==
  ASSUME ProcInv, NEW c \in CPU, NEW p \in Slot, StoreTickets(c, p)
  PROVE  ProcInv' /\ Quiet /\ SameSleepers
  <1> USE DEF cpuVars, StoreTickets, Goto, At, In
  <1>1. TypeOK'
    BY DEF ProcInv, TypeOK, PCs, LocalsInRange
  <1>2. (RunningOnOneCpu /\ SliceInRange /\ LocalsInRange)'
    BY Zenon DEF ProcInv, TypeOK, RunningOnOneCpu, SliceInRange, LocalsInRange
  <1>3. Quiet
    BY Zenon DEF ProcInv, TypeOK, Quiet, Creating, PidsBounded
  <1>4. SameSleepers
    BY Zenon DEF ProcInv, TypeOK, SameSleepers
  <1> QED BY <1>1, <1>2, <1>3, <1>4, QuietInv, QuietWaiters, Zenon DEF ProcInv

\* change_policy() enters its loop with a valid policy.
LEMMA ChangePolicyInv ==
  ASSUME ProcInv, NEW c \in CPU, NEW p \in Slot, NEW policy \in 0..4,
         ChangePolicy(c, p, policy)
  PROVE  ProcInv' /\ Quiet /\ SameSleepers
  <1> USE DEF tableVars, cpuVars, ChangePolicy, Goto, At, In
  <1>1. TypeOK'
    BY DEF ProcInv, TypeOK, PCs
  <1>2. (RunningOnOneCpu /\ SliceInRange)'
    BY ZenonT(60) DEF ProcInv, RunningOnOneCpu, SliceInRange
  <1>3. LocalsInRange'
    BY ConstantsAssumption DEF ProcInv, TypeOK, LocalsInRange, CPU
  <1>4. Quiet
    BY Zenon DEF ProcInv, TypeOK, Quiet, Creating, PidsBounded
  <1>5. SameSleepers
    BY Zenon DEF ProcInv, TypeOK, SameSleepers
  <1> QED BY <1>1, <1>2, <1>3, <1>4, <1>5, QuietInv, QuietWaiters, Zenon DEF ProcInv

\* One iteration of change_policy()'s loop stays within the CPUs.
LEMMA StorePolicyInv ==
  ASSUME ProcInv, NEW c \in CPU, NEW p \in Slot, StorePolicy(c, p)
  PROVE  ProcInv' /\ Quiet /\ SameSleepers
  <1> USE DEF tableVars, StorePolicy, Goto, At, In
  <1>0. reg[p] \in CPU /\ reg[p] \in Nat /\ arg[p] \in 0..4 /\ pc[p] = "policy"
    BY Zenon DEF ProcInv, TypeOK, LocalsInRange
  <1>a. \/ /\ reg' = [reg EXCEPT ![p] = reg[p] + 1] /\ reg[p] + 1 < NCPU
           /\ UNCHANGED <<pc, arg>>
        \/ /\ reg' = [reg EXCEPT ![p] = 0] /\ arg' = [arg EXCEPT ![p] = 0]
           /\ pc' = [pc EXCEPT ![p] = "user"]
    BY Zenon
  <1>1. TypeOK'
    <2>1. schedAlg' \in [CPU -> 0..4]
      BY <1>0, Zenon DEF ProcInv, TypeOK
    <2>2. pc' \in [Slot -> PCs] /\ arg' \in [Slot -> Int] /\ reg' \in [Slot -> Nat]
      BY <1>0 DEF ProcInv, TypeOK, PCs
    <2> QED BY <2>1, <2>2, Zenon DEF ProcInv, TypeOK
  <1>2. (RunningOnOneCpu /\ SliceInRange)'
    BY ZenonT(60) DEF ProcInv, RunningOnOneCpu, SliceInRange
  <1>3. LocalsInRange'
    <2> SUFFICES ASSUME NEW q \in Slot
                 PROVE  /\ pc'[q] = "tickets" => arg'[q] \in Nat
                        /\ pc'[q] = "policy" => reg'[q] \in CPU /\ arg'[q] \in 0..4
      BY Zenon DEF LocalsInRange
    <2> HIDE DEF StorePolicy
    <2>1. CASE q = p
      <3>1. NCPU \in Nat
        BY ConstantsAssumption, Zenon
      <3>2. CASE reg' = [reg EXCEPT ![p] = reg[p] + 1] /\ reg[p] + 1 < NCPU
                 /\ UNCHANGED <<pc, arg>>
        <4>1. reg'[p] = reg[p] + 1
          BY <3>2, Zenon DEF ProcInv, TypeOK
        <4> QED BY <1>0, <2>1, <3>1, <3>2, <4>1 DEF CPU
      <3>3. CASE pc' = [pc EXCEPT ![p] = "user"]
        BY <2>1, <3>3, Zenon DEF ProcInv, TypeOK
      <3> QED BY <1>a, <3>2, <3>3, Zenon
    <2>2. CASE q # p
      BY Zenon, <1>a, <2>2 DEF ProcInv, TypeOK, LocalsInRange
    <2> QED BY <2>1, <2>2, Zenon
  <1>4. Quiet
    BY Zenon, <1>0 DEF ProcInv, TypeOK, Quiet, Creating, PidsBounded
  <1>5. SameSleepers
    BY <1>0, Zenon DEF ProcInv, TypeOK, SameSleepers
  <1> QED BY Zenon, <1>1, <1>2, <1>3, <1>4, <1>5, QuietInv, QuietWaiters DEF ProcInv

\* A panic changes nothing but the flag.
LEMMA PanicInv ==
  ASSUME ProcInv, panicked' = TRUE,
         UNCHANGED <<tableVars, totalTicketCount, lock, cpuVars, localVars>>
  PROVE  ProcInv' /\ Quiet /\ SameSleepers
  <1>1. /\ UNCHANGED <<state, pid, first_pid, parent, chan, killed, priority,
                       ticketCount, nextpid, lock, cproc, schedAlg, RRLastProc,
                       ctr, pc, arg, reg>>
        /\ panicked' \in BOOLEAN
    BY Zenon DEF tableVars, cpuVars, localVars
  <1>2. TypeOK'
    BY Zenon, <1>1 DEF ProcInv, TypeOK
  <1>3. (RunningOnOneCpu /\ SliceInRange /\ PidsUnique /\ PidsBounded)'
    BY <1>1, ZenonT(60) DEF ProcInv, RunningOnOneCpu, SliceInRange, PidsUnique, PidsBounded, Live
  <1>4. (ThreadsLive /\ EmbryosOwned /\ LocalsInRange)'
    BY Zenon, <1>1 DEF ProcInv, ThreadsLive, EmbryosOwned, LocalsInRange, Live
  <1>5. (ParentAlive /\ ParentsOlder)'
    BY <1>1, Zenon DEF ProcInv, ParentAlive, ParentsOlder, Live
  <1>6. (WaitersOnSelf /\ WaiterNotStranded)'
    BY <1>1, ZenonT(60) DEF ProcInv, WaitersOnSelf, WaiterNotStranded, Kids, Zombies, Live
  <1>7. Quiet /\ SameSleepers
    BY Zenon, <1>1 DEF ProcInv, Quiet, SameSleepers, PidsBounded
  <1> QED BY Zenon, <1>2, <1>3, <1>4, <1>5, <1>6, <1>7 DEF ProcInv

-----------------------------------------------------------------------------
\* Every step of a system call.
LEMMA SysStepInv ==
  ASSUME ProcInv, NEW c \in CPU, NEW p \in Slot, SysStep(c, p)
  PROVE  ProcInv'
  <1>1. CASE SysReturn(c, p) \/ SysExit(c, p) \/ Resched(c, p)
    <2>1. pc[p] # "none"
      BY <1>1, Zenon DEF SysReturn, SysExit, Resched, At, In
    <2>2. /\ \E l \in {"user", "exit", "yield"} : Goto(p, l)
          /\ UNCHANGED <<tableVars, lock, cpuVars, arg, reg, panicked>>
      BY Zenon, <1>1 DEF SysReturn, SysExit, Resched, Goto
    <2> QED BY <2>1, <2>2, MoveInv, Zenon DEF ProcInv, TypeOK
  <1>2. ASSUME NEW ch \in Chans, Sleep(c, p, ch) PROVE ProcInv'
    BY Zenon, <1>2, SleepInv
  <1>3. ASSUME NEW l \in {"fork", "thread"}, AllocProc(c, p, l) PROVE ProcInv'
    BY Zenon, <1>3, AllocProcInv
  <1>4. CASE AllocFails(c, p) \/ FillFork(c, p) \/ FillThread(c, p) \/ Publish(c, p)
    BY Zenon, <1>4, AllocFailsInv, FillInv, PublishInv
  <1>5. CASE Yield(c, p) \/ Exit(c, p) \/ Wait(c, p)
    BY Zenon, <1>5, YieldInv, ExitInv, WaitInv
  <1>6. ASSUME NEW t \in JoinArgs, ThreadJoin(c, p, t) PROVE ProcInv'
    BY <1>6, ThreadJoinInv, ConstantsAssumption, Zenon
  <1>7. ASSUME NEW d \in KillArgs, Kill(c, p, d) PROVE ProcInv'
    BY Zenon, <1>7, KillInv, ConstantsAssumption
  <1>8. ASSUME NEW prio \in Priorities, SetPriority(c, p, prio) PROVE ProcInv'
    BY Zenon, <1>8, SetPriorityInv, ConstantsAssumption
  <1>9. ASSUME NEW n \in TicketArgs, LoadTickets(c, p, n) PROVE ProcInv'
    BY Zenon, <1>9, LoadTicketsInv, ConstantsAssumption
  <1>10. ASSUME NEW policy \in Policies, ChangePolicy(c, p, policy) PROVE ProcInv'
    BY Zenon, <1>10, ChangePolicyInv, ConstantsAssumption
  <1>11. CASE StoreTickets(c, p) \/ StorePolicy(c, p)
    BY Zenon, <1>11, StoreTicketsInv, StorePolicyInv
  <1> QED
    BY <1>1, <1>2, <1>3, <1>4, <1>5, <1>6, <1>7, <1>8, <1>9, <1>10, <1>11, Zenon DEF SysStep

\* The invariant does not depend on totalTicketCount and load.
LEMMA StutterInv ==
  ASSUME ProcInv, UNCHANGED vars
  PROVE  ProcInv' /\ Quiet /\ SameSleepers
  <1>1. /\ UNCHANGED <<state, pid, first_pid, parent, chan, killed, priority,
                       ticketCount, nextpid, lock, cproc, schedAlg, RRLastProc,
                       ctr, pc, arg, reg>>
        /\ panicked' \in BOOLEAN
    BY Zenon DEF vars, tableVars, cpuVars, localVars, ProcInv, TypeOK
  <1>2. TypeOK'
    BY <1>1, Zenon DEF ProcInv, TypeOK
  <1>3. (RunningOnOneCpu /\ SliceInRange /\ PidsUnique /\ PidsBounded)'
    BY <1>1, ZenonT(60) DEF ProcInv, RunningOnOneCpu, SliceInRange, PidsUnique, PidsBounded, Live
  <1>4. (ThreadsLive /\ EmbryosOwned /\ LocalsInRange)'
    BY Zenon, <1>1 DEF ProcInv, ThreadsLive, EmbryosOwned, LocalsInRange, Live
  <1>5. (ParentAlive /\ ParentsOlder)'
    BY <1>1, Zenon DEF ProcInv, ParentAlive, ParentsOlder, Live
  <1>6. (WaitersOnSelf /\ WaiterNotStranded)'
    BY <1>1, ZenonT(60) DEF ProcInv, WaitersOnSelf, WaiterNotStranded, Kids, Zombies, Live
  <1>7. Quiet /\ SameSleepers
    BY Zenon, <1>1 DEF ProcInv, Quiet, SameSleepers, PidsBounded
  <1> QED BY Zenon, <1>2, <1>3, <1>4, <1>5, <1>6, <1>7 DEF ProcInv

\* Every step preserves the invariant.
LEMMA NextInv == ProcInv /\ [Next]_vars => ProcInv'
  <1> SUFFICES ASSUME ProcInv, [Next]_vars PROVE ProcInv' OBVIOUS
  <1>1. ASSUME NEW c \in CPU, Scheduler(c) \/ Timer(c) PROVE ProcInv'
    BY Zenon, <1>1, SchedulerInv, TimerInv
  <1>2. ASSUME NEW c \in CPU, AcquirePanic(c) \/ InitExit(c) PROVE ProcInv'
    BY <1>2, PanicInv, Zenon DEF AcquirePanic, InitExit
  <1>3. ASSUME NEW c \in CPU, NEW p \in Slot, Enter(c, p) \/ KilledExit(c, p) PROVE ProcInv'
    <2>1. /\ pc[p] # "none"
          /\ Goto(p, "sys") \/ Goto(p, "exit")
          /\ UNCHANGED <<tableVars, lock, cpuVars, arg, reg, panicked>>
      BY <1>3, Zenon DEF Enter, KilledExit, At, In
    <2> QED BY <1>3, <2>1, MoveInv, Zenon DEF ProcInv, TypeOK, Enter, KilledExit, At, In
  <1>4. ASSUME NEW c \in CPU, NEW p \in Slot, Fault(c, p) PROVE ProcInv'
    BY Zenon, <1>4, FaultInv
  <1>5. ASSUME NEW c \in CPU, NEW p \in Slot, SysStep(c, p) PROVE ProcInv'
    BY Zenon, <1>5, SysStepInv
  <1>6. ASSUME NEW ch \in Chans, Wakeup(ch) PROVE ProcInv'
    BY Zenon, <1>6, WakeupInv
  <1>7. CASE UNCHANGED vars
    BY Zenon, <1>7, StutterInv
  <1> QED BY Zenon, <1>1, <1>2, <1>3, <1>4, <1>5, <1>6, <1>7 DEF Next

\* ProcInv holds in every reachable state, for every table size, number of CPUs
\* and channels, and every interleaving of the critical sections of proc.c.
THEOREM ProcInvariant == Spec => []ProcInv
  <1> QED BY InitInv, NextInv, PTL DEF Spec

\* proc.c never lets a process run on two CPUs, and RUNNING always means that
\* some c->proc points to the slot.
THEOREM OneCpuPerProcess == Spec => []RunningOnOneCpu
  <1>1. ProcInv => RunningOnOneCpu
    BY Zenon DEF ProcInv
  <1> QED BY <1>1, ProcInvariant, PTL

\* allocproc() never gives two slots in use the same pid.
THEOREM PidsAreUnique == Spec => []PidsUnique
  <1>1. ProcInv => PidsUnique
    BY Zenon DEF ProcInv
  <1> QED BY <1>1, ProcInvariant, PTL

\* exit() leaves no process without a live parent.
THEOREM ParentsAreAlive == Spec => []ParentAlive
  <1>1. ProcInv => ParentAlive
    BY Zenon DEF ProcInv
  <1> QED BY <1>1, ProcInvariant, PTL

\* wait() misses no exit and no kill: the caller never sleeps on a child that is
\* a zombie, without children, or killed.
THEOREM NoLostWakeupInWait == Spec => []WaiterNotStranded
  <1>1. ProcInv => WaiterNotStranded
    BY Zenon DEF ProcInv
  <1> QED BY <1>1, ProcInvariant, PTL

\* The unsigned countdown of trap() does not wrap while a process runs.
THEOREM SliceNeverWraps == Spec => []SliceInRange
  <1>1. ProcInv => SliceInRange
    BY Zenon DEF ProcInv
  <1> QED BY <1>1, ProcInvariant, PTL

-----------------------------------------------------------------------------
\* thread_join(): JoinInv is inductive.

\* A process asleep in thread_join() is not the first one, so it has a group.
LEMMA JoinerHasGroup ==
  ASSUME JoinInv, NEW s \in Slot, state[s] = "SLEEPING", pc[s] = "join"
  PROVE  s # InitProc /\ first_pid[s] # 0 /\ pid[s] # 0 /\ chan[s] = s
  BY DEF JoinInv, GroupsSet, ProcInv, PidsBounded, WaitersOnSelf, Live

\* A step that puts nobody to sleep keeps what a joiner relies on if it takes
\* away none of its targets and makes none of them a zombie.
LEMMA KeptJoiners ==
  ASSUME JoinInv, SameSleepers,
         \A s \in Slot : state[s] = "SLEEPING" /\ pc[s] = "join" /\ arg'[s] = arg[s] =>
           /\ parent'[s] = parent[s]
           /\ Targets(s, arg[s]) \subseteq Targets(s, arg[s])'
           /\ Zombies(Targets(s, arg[s]))' \subseteq Zombies(Targets(s, arg[s]))
  PROVE  JoinerNotStrandedElsewhere'
  <1> SUFFICES ASSUME NEW s \in Slot, state'[s] = "SLEEPING", pc'[s] = "join",
                      parent'[s] # InitProc
               PROVE  /\ Targets(s, arg[s])' # {}
                      /\ Zombies(Targets(s, arg[s]))' = {}
                      /\ ~killed'[s]
    BY Zenon DEF JoinerNotStrandedElsewhere
  <1>1. /\ state[s] = "SLEEPING" /\ pc[s] = "join"
        /\ killed'[s] = killed[s] /\ arg'[s] = arg[s] /\ parent'[s] = parent[s]
    BY Zenon DEF SameSleepers
  <1>2. Targets(s, arg[s]) # {} /\ Zombies(Targets(s, arg[s])) = {} /\ ~killed[s]
    BY <1>1, Zenon DEF JoinInv, JoinerNotStrandedElsewhere
  <1> QED BY Zenon, <1>1, <1>2

\* A step that creates, publishes, ends and reaps no process, and puts nobody to
\* sleep, matters to no joiner.
LEMMA QuietJoiners ==
  ASSUME JoinInv, Quiet, SameSleepers
  PROVE  (GroupsSet /\ JoinerNotStrandedElsewhere)'
  <1>0. GroupsSet /\ first_pid' = first_pid /\ pid' = pid
    BY Zenon DEF JoinInv, Quiet
  <1>1. GroupsSet'
    <2>1. pc'[InitProc] \notin {"thread", "join"}
      BY <1>0, InitProcIsSlot, Zenon DEF GroupsSet, Quiet, SameSleepers, Creating
    <2>2. ASSUME NEW s \in Slot \ {InitProc}
          PROVE  /\ Live(s)' \/ state'[s] = "ZOMBIE" => first_pid'[s] # 0
                 /\ state'[s] = "UNUSED" => first_pid'[s] = 0
      <3>1. state'[s] = state[s] \/ (Live(s) /\ Live(s)')
        BY Zenon DEF Quiet
      <3> QED BY <1>0, <3>1, Zenon DEF GroupsSet, Live
    <2>3. ASSUME NEW p \in Slot, pc'[p] \in Creating
          PROVE  pc[p] = pc'[p] /\ reg'[p] = reg[p]
      BY <2>3, Zenon DEF Quiet
    <2>4. ASSUME NEW p \in Slot
          PROVE  /\ pc'[p] \in {"fork", "thread"} => first_pid'[reg'[p]] = 0
                 /\ pc'[p] = "publish" => first_pid'[reg'[p]] # 0
      BY <1>0, <2>3, Zenon DEF GroupsSet, Creating
    <2> QED BY <2>1, <2>2, <2>4, Zenon DEF GroupsSet
  <1>2. \A t \in Slot : state'[t] = "ZOMBIE" <=> state[t] = "ZOMBIE"
    BY Zenon DEF Quiet, Live
  <1>3. ASSUME NEW s \in Slot, state[s] = "SLEEPING", pc[s] = "join", arg'[s] = arg[s]
        PROVE  /\ Targets(s, arg[s])' = Targets(s, arg[s])
               /\ Zombies(Targets(s, arg[s]))' = Zombies(Targets(s, arg[s]))
    <2>1. Targets(s, arg[s])' = Targets(s, arg[s])
      BY <1>0, <1>3, Zenon DEF Targets
    <2>2. \A t \in Targets(s, arg[s]) : state'[t] = "ZOMBIE" <=> state[t] = "ZOMBIE"
      BY <1>2, Zenon DEF Targets
    <2> QED BY Zenon, <2>1, <2>2 DEF Zombies
  <1>4. parent' = parent
    BY Zenon DEF Quiet
  <1> QED BY Zenon, <1>1, <1>3, <1>4, KeptJoiners

\* allocproc(): the slot it takes belongs to no group.
LEMMA AllocProcJoin ==
  ASSUME JoinInv, NEW c \in CPU, NEW p \in Slot, NEW l \in {"fork", "thread"},
         AllocProc(c, p, l)
  PROVE  (GroupsSet /\ JoinerNotStrandedElsewhere)'
  <1>0. /\ state[p] = "RUNNING" /\ pc[p] = "sys" /\ (p = InitProc => l = "fork")
        /\ UNCHANGED <<first_pid, parent, chan, arg, cpuVars, lock, panicked>>
    BY Zenon, CurrentRuns DEF JoinInv, AllocProc, At, In
  <1>1. CASE UnusedSlots = {} /\ Goto(p, Failed(p))
             /\ UNCHANGED <<state, pid, killed, priority, ticketCount, nextpid, reg>>
    <2>1. Quiet /\ SameSleepers
      BY <1>0, <1>1, MoveInv, Zenon DEF JoinInv, ProcInv, TypeOK, Failed, tableVars, cpuVars
    <2> QED BY Zenon, <2>1, QuietJoiners
  <1>2. ASSUME NEW e \in UnusedSlots, Embryo(e), reg' = [reg EXCEPT ![p] = e], Goto(p, l)
        PROVE  (GroupsSet /\ JoinerNotStrandedElsewhere)'
    <2>0. e \in Slot /\ state[e] = "UNUSED" /\ e # p /\ e # InitProc /\ first_pid[e] = 0
      BY <1>0, Zenon DEF UnusedSlots, JoinInv, ProcInv, GroupsSet, ParentsOlder, Live
    <2>a. /\ state' = [state EXCEPT ![e] = "EMBRYO"]
          /\ pid' = [pid EXCEPT ![e] = nextpid]
          /\ reg' = [reg EXCEPT ![p] = e]
          /\ pc' = [pc EXCEPT ![p] = l]
          /\ killed' = killed
      BY <1>2, Zenon DEF Embryo, Goto
    <2>1. GroupsSet'
      BY <1>0, <2>0, <2>a DEF JoinInv, ProcInv, TypeOK, GroupsSet, Live
    <2>2. SameSleepers
      BY Zenon, <1>0, <2>0, <2>a DEF JoinInv, ProcInv, TypeOK, SameSleepers
    <2>3. ASSUME NEW s \in Slot, state[s] = "SLEEPING", pc[s] = "join"
          PROVE  /\ Targets(s, arg[s])' = Targets(s, arg[s])
                 /\ Zombies(Targets(s, arg[s]))' = Zombies(Targets(s, arg[s]))
      <3>1. first_pid[s] # 0
        BY Zenon, <2>3, JoinerHasGroup
      <3>2. Targets(s, arg[s])' = Targets(s, arg[s])
        BY Zenon, <1>0, <2>0, <2>a, <3>1 DEF Targets, JoinInv, ProcInv, TypeOK
      <3>3. e \notin Targets(s, arg[s])
        BY Zenon, <2>0, <3>1 DEF Targets
      <3>4. \A t \in Slot \ {e} : state'[t] = state[t]
        BY Zenon, <2>a DEF JoinInv, ProcInv, TypeOK
      <3> QED BY Zenon, <3>2, <3>3, <3>4 DEF Zombies, Targets
    <2> QED BY Zenon, <1>0, <2>1, <2>2, <2>3, KeptJoiners
  <1> QED BY Zenon, <1>1, <1>2 DEF First, AllocProc

\* The slot a failed creation gives back belongs to no group.
LEMMA AllocFailsJoin ==
  ASSUME JoinInv, NEW c \in CPU, NEW p \in Slot, AllocFails(c, p)
  PROVE  (GroupsSet /\ JoinerNotStrandedElsewhere)'
  <1>0. /\ state[p] = "RUNNING" /\ pc[p] \in {"fork", "thread"}
        /\ reg[p] \in Slot /\ state[reg[p]] = "EMBRYO" /\ reg[p] # p
        /\ first_pid[reg[p]] = 0
    BY Zenon, CurrentRuns DEF AllocFails, In, JoinInv, ProcInv, TypeOK, EmbryosOwned, GroupsSet
  <1>a. /\ state' = [state EXCEPT ![reg[p]] = "UNUSED"]
        /\ pc' = [pc EXCEPT ![p] = IF p = InitProc THEN "exit" ELSE "user"]
        /\ reg' = [reg EXCEPT ![p] = 0]
        /\ UNCHANGED <<pid, first_pid, parent, chan, killed, arg>>
    BY Zenon DEF AllocFails, Goto, Failed
  <1>1. GroupsSet'
    BY <1>0, <1>a DEF JoinInv, ProcInv, TypeOK, GroupsSet, Live
  <1>2. SameSleepers
    BY Zenon, <1>0, <1>a DEF JoinInv, ProcInv, TypeOK, SameSleepers
  <1>3. \A s \in Slot : /\ Targets(s, arg[s])' = Targets(s, arg[s])
                        /\ Zombies(Targets(s, arg[s]))' = Zombies(Targets(s, arg[s]))
    BY Zenon, <1>0, <1>a DEF Targets, Zombies, JoinInv, ProcInv, TypeOK
  <1> QED BY Zenon, <1>a, <1>1, <1>2, <1>3, KeptJoiners

\* A thread gets the group of its creator, a child its own pid: neither is 0.
LEMMA FillJoin ==
  ASSUME JoinInv, NEW c \in CPU, NEW p \in Slot, FillFork(c, p) \/ FillThread(c, p)
  PROVE  (GroupsSet /\ JoinerNotStrandedElsewhere)'
  <1>0. /\ state[p] = "RUNNING" /\ pc[p] \in {"fork", "thread"}
        /\ reg[p] \in Slot /\ state[reg[p]] = "EMBRYO" /\ reg[p] # p
        /\ first_pid[reg[p]] = 0 /\ pid[reg[p]] # 0
        /\ \A q \in Slot \ {p} : pc[q] \in Creating => reg[q] # reg[p]
    <2>1. cproc[c] = p /\ pc[p] \in {"fork", "thread"}
      BY Zenon DEF FillFork, FillThread, At, In
    <2>2. ProcInv /\ EmbryosOwned /\ PidsBounded /\ GroupsSet
      BY Zenon DEF JoinInv, ProcInv
    <2>3. state[p] = "RUNNING"
      BY Zenon, <2>1, <2>2, CurrentRuns
    <2>4. /\ reg[p] \in Slot /\ state[reg[p]] = "EMBRYO"
          /\ \A q \in Slot \ {p} : pc[q] \in Creating => reg[q] # reg[p]
      BY <2>1, <2>2, Zenon DEF EmbryosOwned, Creating
    <2>5. first_pid[reg[p]] = 0
      BY <2>1, <2>2, Zenon DEF GroupsSet
    <2>6. pid[reg[p]] # 0
      BY <2>2, <2>4 DEF PidsBounded
    <2> QED BY Zenon, <2>1, <2>3, <2>4, <2>5, <2>6
  <1>a. PICK group \in Nat \ {0} : FillSlot(p, group)
    <2>1. CASE FillFork(c, p)
      BY <1>0, <2>1, Zenon DEF FillFork, JoinInv, ProcInv, TypeOK
    <2>2. CASE FillThread(c, p)
      BY Zenon, <1>0, <2>2 DEF FillThread, At, In, JoinInv, ProcInv, TypeOK, GroupsSet, Live
    <2> QED BY Zenon, <2>1, <2>2
  <1>b. /\ first_pid' = [first_pid EXCEPT ![reg[p]] = group]
        /\ parent' = [parent EXCEPT ![reg[p]] = p]
        /\ pc' = [pc EXCEPT ![p] = "publish"]
        /\ UNCHANGED <<state, pid, chan, killed, arg, reg>>
    BY <1>a, Zenon DEF FillSlot, Goto
  <1>1. GroupsSet'
    BY <1>0, <1>b DEF JoinInv, ProcInv, TypeOK, GroupsSet, Creating, Live
  <1>2. SameSleepers
    BY Zenon, <1>0, <1>b DEF JoinInv, ProcInv, TypeOK, SameSleepers
  <1>3. ASSUME NEW s \in Slot, state[s] = "SLEEPING", pc[s] = "join"
        PROVE  /\ parent'[s] = parent[s]
               /\ Targets(s, arg[s]) \subseteq Targets(s, arg[s])'
               /\ Zombies(Targets(s, arg[s]))' \subseteq Zombies(Targets(s, arg[s]))
    <2>1. first_pid[s] # 0 /\ s # reg[p]
      BY Zenon, <1>0, <1>3, JoinerHasGroup
    <2> QED BY Zenon, <1>0, <1>b, <2>1 DEF Targets, Zombies, JoinInv, ProcInv, TypeOK
  <1> QED BY Zenon, <1>1, <1>2, <1>3, KeptJoiners

\* The published process is in its group.
LEMMA PublishJoin ==
  ASSUME JoinInv, NEW c \in CPU, NEW p \in Slot, Publish(c, p)
  PROVE  (GroupsSet /\ JoinerNotStrandedElsewhere)'
  <1>0. /\ state[p] = "RUNNING" /\ pc[p] = "publish"
        /\ reg[p] \in Slot /\ state[reg[p]] = "EMBRYO" /\ reg[p] # p
        /\ first_pid[reg[p]] # 0 /\ pc[reg[p]] = "none"
    BY Zenon, CurrentRuns DEF Publish, At, In, JoinInv, ProcInv, TypeOK, EmbryosOwned,
                       ThreadsLive, GroupsSet, Live
  <1>a. /\ state' = [state EXCEPT ![reg[p]] = "RUNNABLE"]
        /\ pc' = [pc EXCEPT ![p] = "resched", ![reg[p]] = "user"]
        /\ reg' = [reg EXCEPT ![p] = 0]
        /\ \A s \in Slot \ {p} : arg'[s] = arg[s]
        /\ UNCHANGED <<pid, first_pid, parent, chan, killed>>
    BY Zenon DEF Publish, JoinInv, ProcInv, TypeOK
  <1>1. GroupsSet'
    BY Zenon, <1>0, <1>a, InitProcIsSlot DEF JoinInv, ProcInv, TypeOK, GroupsSet, Live
  <1>2. SameSleepers
    BY Zenon, <1>0, <1>a DEF JoinInv, ProcInv, TypeOK, SameSleepers
  <1>3. ASSUME NEW s \in Slot, arg'[s] = arg[s]
        PROVE  /\ Targets(s, arg[s])' = Targets(s, arg[s])
               /\ Zombies(Targets(s, arg[s]))' = Zombies(Targets(s, arg[s]))
    BY Zenon, <1>0, <1>a, <1>3 DEF Targets, Zombies, JoinInv, ProcInv, TypeOK
  <1> QED BY Zenon, <1>a, <1>1, <1>2, <1>3, KeptJoiners

\* exit() wakes every thread of the group that is not its child: no joiner that
\* keeps its parent is left waiting for the zombie.
LEMMA ExitJoin ==
  ASSUME JoinInv, NEW c \in CPU, NEW p \in Slot, Exit(c, p)
  PROVE  (GroupsSet /\ JoinerNotStrandedElsewhere)'
  <1> DEFINE W == Asleep(ExitWakes(p))
             K == Children(p)
  <1>0. state[p] = "RUNNING" /\ pc[p] = "exit" /\ p # InitProc
    BY Zenon, ExitFacts DEF JoinInv
  <1>1. W \subseteq {s \in Slot : state[s] = "SLEEPING"} /\ InitProc \notin K
    BY Zenon, ExitFacts DEF Asleep, Children, JoinInv
  <1>2. ASSUME NEW s \in Slot, state[s] = "SLEEPING", pc[s] = "join", s \notin W, s \notin K
        PROVE  first_pid[s] # first_pid[p]
    <2>1. s # p /\ pid[s] # 0 /\ chan[s] = s
      BY Zenon, <1>0, <1>2, JoinerHasGroup
    <2>2. s \in Others(p) \ Children(p)
      BY Zenon, <1>2, <2>1 DEF Others
    <2>3. s \notin ExitWakes(p)
      BY Zenon, <1>2, <2>1 DEF Asleep
    <2> QED BY Zenon, <2>2, <2>3 DEF ExitWakes
  <1>a. /\ state' = [s \in Slot |-> IF s = p THEN "ZOMBIE" ELSE
                                   IF s \in W THEN "RUNNABLE" ELSE state[s]]
        /\ parent' = [s \in Slot |-> IF s \in K THEN InitProc ELSE parent[s]]
        /\ pc' = [pc EXCEPT ![p] = "none"]
        /\ UNCHANGED <<pid, first_pid, killed, arg, reg>>
    BY Zenon DEF Exit, Wake, Goto, JoinInv, ProcInv, TypeOK
  <1> HIDE DEF W, K
  <1>b. TypeOK /\ GroupsSet
    BY Zenon DEF JoinInv, ProcInv
  <1>3. GroupsSet'
    <2>1. pc'[InitProc] \notin {"thread", "join"}
      BY <1>a, <1>b DEF GroupsSet, TypeOK
    <2>2. ASSUME NEW s \in Slot \ {InitProc}
          PROVE  /\ Live(s)' \/ state'[s] = "ZOMBIE" => first_pid[s] # 0
                 /\ state'[s] = "UNUSED" => first_pid[s] = 0
      <3>1. state'[s] = state[s] \/ (Live(s) /\ state'[s] \in {"ZOMBIE", "RUNNABLE"})
        BY <1>0, <1>1, <1>a DEF Live
      <3> QED BY <1>b, <3>1, Zenon DEF GroupsSet, Live
    <2>3. ASSUME NEW q \in Slot
          PROVE  /\ pc'[q] \in {"fork", "thread"} => first_pid[reg[q]] = 0
                 /\ pc'[q] = "publish" => first_pid[reg[q]] # 0
      BY <1>a, <1>b DEF GroupsSet, TypeOK
    <2> QED BY <1>a, <2>1, <2>2, <2>3, Zenon DEF GroupsSet
  <1>4. JoinerNotStrandedElsewhere'
    <2> SUFFICES ASSUME NEW s \in Slot, state'[s] = "SLEEPING", pc'[s] = "join",
                        parent'[s] # InitProc
                 PROVE  /\ Targets(s, arg[s])' # {}
                        /\ Zombies(Targets(s, arg[s]))' = {}
                        /\ ~killed'[s]
      BY Zenon DEF JoinerNotStrandedElsewhere
    <2>1. /\ s # p /\ s \notin W /\ s \notin K /\ parent'[s] = parent[s]
          /\ state[s] = "SLEEPING" /\ pc[s] = "join"
      BY Zenon, <1>a DEF JoinInv, ProcInv, TypeOK
    <2>2. Targets(s, arg[s]) # {} /\ Zombies(Targets(s, arg[s])) = {} /\ ~killed[s]
      BY <2>1, Zenon DEF JoinInv, JoinerNotStrandedElsewhere
    <2>3. Targets(s, arg[s])' = Targets(s, arg[s]) /\ p \notin Targets(s, arg[s])
      BY Zenon, <1>2, <1>a, <2>1 DEF Targets
    <2>4. \A t \in Targets(s, arg[s]) : state'[t] = "ZOMBIE" => state[t] = "ZOMBIE"
      BY Zenon, <1>a, <2>3 DEF Targets
    <2> QED BY Zenon, <1>a, <2>2, <2>3, <2>4 DEF Zombies
  <1> QED BY Zenon, <1>3, <1>4

\* Nobody asleep in thread_join() counts on the zombie that is reaped.
LEMMA ReapJoin ==
  ASSUME JoinInv, NEW p \in Slot, state[p] = "RUNNING", NEW z \in Slot,
         state[z] = "ZOMBIE", Reap(z), Goto(p, "user"), UNCHANGED reg,
         \A s \in Slot \ {p} : arg'[s] = arg[s]
  PROVE  (GroupsSet /\ JoinerNotStrandedElsewhere)'
  <1>0. z # p /\ z # InitProc /\ pc[z] = "none"
    BY Zenon DEF JoinInv, ProcInv, ThreadsLive, ParentsOlder, Live
  <1>a. /\ state' = [state EXCEPT ![z] = "UNUSED"] /\ pid' = [pid EXCEPT ![z] = 0]
        /\ first_pid' = [first_pid EXCEPT ![z] = 0]
        /\ parent' = [parent EXCEPT ![z] = NoProc]
        /\ killed' = [killed EXCEPT ![z] = FALSE]
        /\ pc' = [pc EXCEPT ![p] = "user"] /\ chan' = chan
    BY Zenon DEF Reap, Goto
  <1>b. TypeOK /\ EmbryosOwned /\ GroupsSet
    BY Zenon DEF JoinInv, ProcInv
  <1>1. GroupsSet'
    <2>1. pc'[InitProc] \notin {"thread", "join"}
      BY <1>a, <1>b DEF GroupsSet, TypeOK
    <2>2. ASSUME NEW s \in Slot \ {InitProc}
          PROVE  /\ Live(s)' \/ state'[s] = "ZOMBIE" => first_pid'[s] # 0
                 /\ state'[s] = "UNUSED" => first_pid'[s] = 0
      BY Zenon, <1>0, <1>a, <1>b DEF GroupsSet, TypeOK, Live
    <2>3. ASSUME NEW q \in Slot
          PROVE  /\ pc'[q] \in {"fork", "thread"} => first_pid'[reg[q]] = 0
                 /\ pc'[q] = "publish" => first_pid'[reg[q]] # 0
      BY Zenon, <1>a, <1>b DEF GroupsSet, EmbryosOwned, TypeOK
    <2> QED BY <2>1, <2>2, <2>3, Zenon DEF GroupsSet
  <1>3. JoinerNotStrandedElsewhere'
    <2> SUFFICES ASSUME NEW s \in Slot, state'[s] = "SLEEPING", pc'[s] = "join",
                        parent'[s] # InitProc
                 PROVE  /\ Targets(s, arg[s])' # {}
                        /\ Zombies(Targets(s, arg[s]))' = {}
                        /\ ~killed'[s]
      BY Zenon DEF JoinerNotStrandedElsewhere
    <2>1. /\ s # p /\ s # z /\ state[s] = "SLEEPING" /\ pc[s] = "join"
          /\ parent'[s] = parent[s] /\ killed'[s] = killed[s] /\ arg'[s] = arg[s]
      BY Zenon, <1>a DEF JoinInv, ProcInv, TypeOK
    <2>2. Targets(s, arg[s]) # {} /\ Zombies(Targets(s, arg[s])) = {} /\ ~killed[s]
      BY <2>1, Zenon DEF JoinInv, JoinerNotStrandedElsewhere
    <2>3. z \notin Targets(s, arg[s]) /\ first_pid[s] # 0
      BY Zenon, <2>1, <2>2, JoinerHasGroup DEF Zombies
    <2>4. Targets(s, arg[s])' = Targets(s, arg[s])
      BY Zenon, <1>a, <2>1, <2>3 DEF Targets, JoinInv, ProcInv, TypeOK
    <2>5. \A t \in Targets(s, arg[s]) : state'[t] = state[t]
      BY Zenon, <1>a, <2>3 DEF Targets, JoinInv, ProcInv, TypeOK
    <2> QED BY Zenon, <2>1, <2>2, <2>4, <2>5 DEF Zombies
  <1> QED BY Zenon, <1>1, <1>3

\* p goes to sleep in wait(), or in thread_join() having found its target alive.
LEMMA SleepOnSelfJoin ==
  ASSUME JoinInv, NEW c \in CPU, NEW p \in Slot, cproc[c] = p,
         NEW l \in {"wait", "join"}, GoToSleep(c, p, p), Goto(p, l),
         l = "join" => /\ p # InitProc /\ ~killed[p]
                       /\ Targets(p, arg'[p]) # {}
                       /\ Zombies(Targets(p, arg'[p])) = {},
         \A s \in Slot \ {p} : arg'[s] = arg[s],
         UNCHANGED <<pid, first_pid, parent, killed, reg>>
  PROVE  (GroupsSet /\ JoinerNotStrandedElsewhere)'
  <1>0. state[p] = "RUNNING"
    BY Zenon, CurrentRuns DEF JoinInv
  <1>a. state' = [state EXCEPT ![p] = "SLEEPING"] /\ pc' = [pc EXCEPT ![p] = l]
    BY Zenon DEF GoToSleep, Goto
  <1>1. GroupsSet'
    BY <1>0, <1>a DEF JoinInv, ProcInv, TypeOK, GroupsSet, Live
  <1>2. ASSUME NEW s \in Slot
        PROVE  /\ Targets(s, arg[s])' = Targets(s, arg'[s])
               /\ Zombies(Targets(s, arg[s]))' = Zombies(Targets(s, arg'[s]))
    BY Zenon, <1>0, <1>a DEF Targets, Zombies, JoinInv, ProcInv, TypeOK
  <1>3. JoinerNotStrandedElsewhere'
    <2> SUFFICES ASSUME NEW s \in Slot, state'[s] = "SLEEPING", pc'[s] = "join",
                        parent'[s] # InitProc
                 PROVE  /\ Targets(s, arg'[s]) # {}
                        /\ Zombies(Targets(s, arg'[s])) = {}
                        /\ ~killed'[s]
      BY Zenon, <1>2 DEF JoinerNotStrandedElsewhere
    <2>1. CASE s = p
      BY Zenon, <1>a, <2>1 DEF JoinInv, ProcInv, TypeOK
    <2>2. CASE s # p
      <3>1. state[s] = "SLEEPING" /\ pc[s] = "join" /\ arg'[s] = arg[s]
        BY Zenon, <1>a, <2>2 DEF JoinInv, ProcInv, TypeOK
      <3> QED BY Zenon, <3>1 DEF JoinInv, JoinerNotStrandedElsewhere
    <2> QED BY Zenon, <2>1, <2>2
  <1> QED BY Zenon, <1>1, <1>3

\* diagwait() and thread_join(): reap, fail, sleep or return with the lock held.
LEMMA WaitJoin ==
  ASSUME JoinInv, NEW c \in CPU, NEW p \in Slot, Wait(c, p)
  PROVE  (GroupsSet /\ JoinerNotStrandedElsewhere)'
  <1>0. /\ ProcInv /\ cproc[c] = p /\ state[p] = "RUNNING" /\ pc[p] # "none"
        /\ UNCHANGED <<schedAlg, RRLastProc, ctr, reg, panicked>>
    BY CurrentRuns, Zenon DEF JoinInv, Wait, Scanning, At, In
  <1>1. arg' \in [Slot -> Int] /\ \A t \in Slot \ {p} : arg'[t] = arg[t]
    <2>1. \/ arg' = arg
          \/ arg' = [arg EXCEPT ![p] = 0]
          \/ \E s \in Slot : arg' = [arg EXCEPT ![p] = IF pid[s] = @ THEN 0 ELSE @]
      BY Zenon DEF Wait, First, Zombies, Kids
    <2> QED BY <1>0, <2>1 DEF ProcInv, TypeOK
  <1>2. ASSUME NEW s \in Zombies(Kids(p)), Reap(s), Goto(p, "user")
        PROVE  (GroupsSet /\ JoinerNotStrandedElsewhere)'
    BY Zenon, <1>0, <1>1, <1>2, ReapJoin DEF Zombies, Kids
  <1>3. CASE /\ lock' = NoCpu /\ Goto(p, "user")
             /\ UNCHANGED <<tableVars, totalTicketCount, cproc>>
    <2>1. Quiet /\ SameSleepers
      BY <1>0, <1>1, <1>3, MoveInv, ZenonT(60) DEF cpuVars
    <2> QED BY Zenon, <2>1, QuietJoiners
  <1>4. CASE /\ GoToSleep(c, p, p) /\ Goto(p, "wait")
             /\ UNCHANGED <<pid, first_pid, parent, killed, priority, ticketCount,
                            nextpid, arg>>
    BY Zenon, <1>0, <1>1, <1>4, SleepOnSelfJoin
  <1> QED BY Zenon, <1>2, <1>3, <1>4 DEF Wait, First

LEMMA ThreadJoinJoin ==
  ASSUME JoinInv, NEW c \in CPU, NEW p \in Slot, NEW t \in Int, ThreadJoin(c, p, t)
  PROVE  (GroupsSet /\ JoinerNotStrandedElsewhere)'
  <1>0. /\ ProcInv /\ cproc[c] = p /\ state[p] = "RUNNING" /\ pc[p] # "none"
        /\ p # InitProc /\ UNCHANGED <<schedAlg, RRLastProc, ctr, reg, panicked>>
    BY CurrentRuns, ZenonT(60) DEF JoinInv, ThreadJoin, Scanning, At, In
  <1>1. arg' \in [Slot -> Int] /\ \A s \in Slot \ {p} : arg'[s] = arg[s]
    <2>1. \E v \in {0, t} : arg' = [arg EXCEPT ![p] = v]
      BY Zenon DEF ThreadJoin, JoinLeader, JoinThread
    <2> QED BY <1>0, <2>1 DEF ProcInv, TypeOK
  <1>2. CASE JoinLeader(c, p, t)
    <2>1. Quiet /\ SameSleepers
      BY <1>0, <1>1, <1>2, MoveInv, ZenonT(60) DEF JoinLeader, cpuVars
    <2> QED BY Zenon, <2>1, QuietJoiners
  <1>3. ASSUME NEW s \in Zombies(Targets(p, t)), Reap(s), Goto(p, "user")
        PROVE  (GroupsSet /\ JoinerNotStrandedElsewhere)'
    BY Zenon, <1>0, <1>1, <1>3, ReapJoin DEF Zombies, Targets
  <1>4. CASE /\ lock' = NoCpu /\ Goto(p, "user")
             /\ UNCHANGED <<tableVars, totalTicketCount, cproc>>
    <2>1. Quiet /\ SameSleepers
      BY <1>0, <1>1, <1>4, MoveInv, ZenonT(60) DEF cpuVars
    <2> QED BY Zenon, <2>1, QuietJoiners
  <1>5. CASE /\ Zombies(Targets(p, t)) = {} /\ Targets(p, t) # {} /\ ~killed[p]
             /\ GoToSleep(c, p, p) /\ Goto(p, "join") /\ arg' = [arg EXCEPT ![p] = t]
             /\ UNCHANGED <<pid, first_pid, parent, killed, priority, ticketCount,
                            nextpid>>
    <2>1. arg'[p] = t
      BY Zenon, <1>0, <1>5 DEF ProcInv, TypeOK
    <2> QED BY Zenon, <1>0, <1>1, <1>5, <2>1, SleepOnSelfJoin
  <1> QED BY <1>2, <1>3, <1>4, <1>5, ZenonT(60) DEF ThreadJoin, JoinThread, First

\* Every step of a system call.
LEMMA SysStepJoin ==
  ASSUME JoinInv, NEW c \in CPU, NEW p \in Slot, SysStep(c, p)
  PROVE  (GroupsSet /\ JoinerNotStrandedElsewhere)'
  <1>0. ProcInv
    BY Zenon DEF JoinInv
  <1>1. CASE SysReturn(c, p) \/ SysExit(c, p) \/ Resched(c, p)
    <2>1. pc[p] # "none"
      BY <1>1, Zenon DEF SysReturn, SysExit, Resched, At, In
    <2>2. /\ \E l \in {"user", "exit", "yield"} : Goto(p, l)
          /\ UNCHANGED <<tableVars, lock, cpuVars, arg, reg, panicked>>
      BY Zenon, <1>1 DEF SysReturn, SysExit, Resched, Goto
    <2>3. Quiet /\ SameSleepers
      BY <1>0, <2>1, <2>2, MoveInv, Zenon DEF ProcInv, TypeOK
    <2> QED BY Zenon, <2>3, QuietJoiners
  <1>2. CASE \E l \in {"fork", "thread"} : AllocProc(c, p, l)
    BY Zenon, <1>2, AllocProcJoin
  <1>3. CASE AllocFails(c, p) \/ FillFork(c, p) \/ FillThread(c, p) \/ Publish(c, p)
    BY Zenon, <1>3, AllocFailsJoin, FillJoin, PublishJoin
  <1>4. CASE Exit(c, p) \/ Wait(c, p)
    BY Zenon, <1>4, ExitJoin, WaitJoin
  <1>5. ASSUME NEW t \in JoinArgs, ThreadJoin(c, p, t)
        PROVE  (GroupsSet /\ JoinerNotStrandedElsewhere)'
    BY <1>5, ThreadJoinJoin, ConstantsAssumption, Zenon
  <1>6. CASE \/ \E ch \in Chans : Sleep(c, p, ch)
             \/ Yield(c, p) \/ StoreTickets(c, p) \/ StorePolicy(c, p)
    BY Zenon, <1>0, <1>6, SleepInv, YieldInv, StoreTicketsInv, StorePolicyInv, QuietJoiners
  <1>7. ASSUME NEW d \in KillArgs, Kill(c, p, d) PROVE Quiet /\ SameSleepers
    BY Zenon, <1>0, <1>7, KillInv, ConstantsAssumption
  <1>8. ASSUME NEW prio \in Priorities, SetPriority(c, p, prio) PROVE Quiet /\ SameSleepers
    BY Zenon, <1>0, <1>8, SetPriorityInv, ConstantsAssumption
  <1>9. ASSUME NEW n \in TicketArgs, LoadTickets(c, p, n) PROVE Quiet /\ SameSleepers
    BY Zenon, <1>0, <1>9, LoadTicketsInv, ConstantsAssumption
  <1>10. ASSUME NEW policy \in Policies, ChangePolicy(c, p, policy)
         PROVE  Quiet /\ SameSleepers
    BY Zenon, <1>0, <1>10, ChangePolicyInv, ConstantsAssumption
  <1> QED BY Zenon, <1>1, <1>2, <1>3, <1>4, <1>5, <1>6, <1>7, <1>8, <1>9, <1>10, QuietJoiners
          DEF SysStep

LEMMA NextJoin == JoinInv /\ [Next]_vars => JoinInv'
  <1> SUFFICES ASSUME JoinInv, [Next]_vars PROVE JoinInv' OBVIOUS
  <1>0. ProcInv /\ ProcInv'
    BY Zenon, NextInv DEF JoinInv
  <1>1. ASSUME NEW c \in CPU, Scheduler(c) \/ Timer(c) \/ AcquirePanic(c) \/ InitExit(c)
        PROVE  Quiet /\ SameSleepers
    BY Zenon, <1>0, <1>1, SchedulerInv, TimerInv, PanicInv DEF AcquirePanic, InitExit
  <1>2. ASSUME NEW c \in CPU, NEW p \in Slot, Enter(c, p) \/ KilledExit(c, p)
        PROVE  Quiet /\ SameSleepers
    <2>1. /\ pc[p] # "none"
          /\ Goto(p, "sys") \/ Goto(p, "exit")
          /\ UNCHANGED <<tableVars, lock, cpuVars, arg, reg, panicked>>
      BY <1>2, Zenon DEF Enter, KilledExit, At, In
    <2> QED BY <1>0, <1>2, <2>1, MoveInv, Zenon DEF ProcInv, TypeOK
  <1>3. ASSUME NEW c \in CPU, NEW p \in Slot, Fault(c, p) PROVE Quiet /\ SameSleepers
    BY Zenon, <1>0, <1>3, FaultInv
  <1>4. ASSUME NEW ch \in Chans, Wakeup(ch) PROVE Quiet /\ SameSleepers
    BY Zenon, <1>0, <1>4, WakeupInv
  <1>5. CASE UNCHANGED vars
    BY Zenon, <1>0, <1>5, StutterInv, QuietJoiners DEF JoinInv
  <1>6. CASE Next
    <2>1. (GroupsSet /\ JoinerNotStrandedElsewhere)'
      BY Zenon, <1>1, <1>2, <1>3, <1>4, <1>6, SysStepJoin, QuietJoiners DEF Next
    <2> QED BY Zenon, <1>0, <2>1 DEF JoinInv
  <1> QED BY Zenon, <1>5, <1>6

\* JoinInv holds in every reachable state: thread_join() meets threads of its
\* own group only, never a slot that is free or being filled in.
THEOREM JoinInvariant == Spec => []JoinInv
  <1>1. Init => JoinInv
    <2> SUFFICES ASSUME Init PROVE JoinInv OBVIOUS
    <2>1. GroupsSet
      BY Zenon, InitProcIsSlot DEF Init, GroupsSet, Live
    <2>2. JoinerNotStrandedElsewhere
      BY Zenon DEF Init, JoinerNotStrandedElsewhere
    <2> QED BY Zenon, <2>1, <2>2, InitInv DEF JoinInv
  <1> QED BY <1>1, NextJoin, PTL DEF Spec

\* thread_join() misses no exit and no kill, unless the creator of the joining
\* thread has exited (the else-if of exit(), which join_lost_wakeup violates).
THEOREM NoLostWakeupInJoin == Spec => []JoinerNotStrandedElsewhere
  <1>1. JoinInv => JoinerNotStrandedElsewhere
    BY Zenon DEF JoinInv
  <1> QED BY <1>1, JoinInvariant, PTL
-----------------------------------------------------------------------------
(***************************************************************************)
(* Policies 2 and 3                                                         *)
(***************************************************************************)

\* A CPU that has no process keeps having none: c->proc is set by scheduler() only.
Released == \A c \in CPU : cproc[c] = NoProc => cproc'[c] = NoProc

\* Leave() and steps that do not touch c->proc give no CPU a process.
LEMMA LeaveReleases ==
  ASSUME TypeOK, NEW c \in CPU, Leave(c) \/ cproc' = cproc
  PROVE  Released
  BY Zenon DEF TypeOK, Leave, Released

\* No step but scheduler()'s gives a CPU a process.
LEMMA OthersRelease ==
  ASSUME TypeOK, [Next]_vars, \A c \in CPU : ~Scheduler(c)
  PROVE  Released
  <1>1. ASSUME NEW c \in CPU, Timer(c) \/ AcquirePanic(c) \/ InitExit(c)
        PROVE  Leave(c) \/ cproc' = cproc
    BY <1>1, Zenon DEF Timer, AcquirePanic, InitExit, cpuVars
  <1>2. ASSUME NEW c \in CPU, NEW p \in Slot, Enter(c, p) \/ KilledExit(c, p) \/ Fault(c, p)
        PROVE  cproc' = cproc
    BY <1>2, Zenon DEF Enter, KilledExit, Fault, cpuVars
  <1>3. ASSUME NEW c \in CPU, NEW p \in Slot, SysStep(c, p)
        PROVE  Leave(c) \/ cproc' = cproc
    <2>1. ASSUME NEW ch \in Chans, Sleep(c, p, ch) PROVE Leave(c)
      BY <2>1, Zenon DEF Sleep, GoToSleep
    <2>2. ASSUME NEW l \in {"fork", "thread"}, AllocProc(c, p, l) PROVE cproc' = cproc
      BY <2>2, Zenon DEF AllocProc, cpuVars
    <2>3. CASE SysReturn(c, p) \/ SysExit(c, p) \/ Resched(c, p) \/ AllocFails(c, p)
               \/ FillFork(c, p) \/ FillThread(c, p) \/ Publish(c, p)
      <3>1. CASE SysReturn(c, p) \/ SysExit(c, p) \/ Resched(c, p)
        BY <3>1, Zenon DEF SysReturn, SysExit, Resched, cpuVars
      <3>2. CASE AllocFails(c, p) \/ FillFork(c, p) \/ FillThread(c, p)
        BY <3>2, Zenon DEF AllocFails, FillFork, FillThread, FillSlot, cpuVars
      <3>3. CASE Publish(c, p)
        BY Zenon, <3>3 DEF Publish, cpuVars
      <3> QED BY Zenon, <2>3, <3>1, <3>2, <3>3
    <2>4. CASE Yield(c, p) \/ Exit(c, p)
      <3>1. CASE Yield(c, p)
        BY <3>1, Zenon DEF Yield
      <3>2. CASE Exit(c, p)
        BY Zenon, <3>2 DEF Exit
      <3> QED BY Zenon, <2>4, <3>1, <3>2
    <2>5. CASE Wait(c, p)
      BY <2>5, Zenon DEF Wait, Reap, GoToSleep
    <2>6. ASSUME NEW t \in JoinArgs, ThreadJoin(c, p, t) PROVE Leave(c) \/ cproc' = cproc
      BY <2>6, Zenon DEF ThreadJoin, JoinLeader, JoinThread, Reap, GoToSleep
    <2>7. ASSUME NEW d \in KillArgs, Kill(c, p, d) PROVE cproc' = cproc
      BY <2>7, Zenon DEF Kill, cpuVars
    <2>8. ASSUME NEW prio \in Priorities, SetPriority(c, p, prio) PROVE cproc' = cproc
      BY <2>8, Zenon DEF SetPriority, cpuVars
    <2>9. ASSUME NEW n \in TicketArgs, LoadTickets(c, p, n) PROVE cproc' = cproc
      BY <2>9, Zenon DEF LoadTickets, cpuVars
    <2>10. ASSUME NEW policy \in Policies, ChangePolicy(c, p, policy) PROVE cproc' = cproc
      BY <2>10, Zenon DEF ChangePolicy, cpuVars
    <2>11. CASE StoreTickets(c, p) \/ StorePolicy(c, p)
      BY <2>11, Zenon DEF StoreTickets, StorePolicy, cpuVars
    <2> QED
      BY <1>3, <2>1, <2>2, <2>3, <2>4, <2>5, <2>6, <2>7, <2>8, <2>9, <2>10, <2>11, Zenon
         DEF SysStep
  <1>4. ASSUME NEW ch \in Chans, Wakeup(ch) PROVE cproc' = cproc
    BY <1>4, Zenon DEF Wakeup, cpuVars
  <1>5. CASE UNCHANGED vars
    BY <1>5, Zenon DEF vars, cpuVars, Released
  <1>6. CASE Next
    BY <1>1, <1>2, <1>3, <1>4, <1>6, LeaveReleases, Zenon DEF Next, Released
  <1> QED BY Zenon, <1>5, <1>6

\* Unless it starts past the end of the table, the scan of policies 2 and 3 gets
\* to every slot: what it picks has the least priority value of all.
LEMMA PriorityPickIsBest ==
  ASSUME NEW R \in SUBSET Slot, NEW prio \in [Slot -> Nat], NEW start \in Slot,
         NEW s \in PriorityPick(R, prio, start), NEW t \in R
  PROVE  prio[s] <= prio[t]
  <1>1. ScanIndex(start, t) < NPROC
    BY NPROCAssumption DEF ScanIndex, Slot
  <1>2. s \in R
    BY Zenon DEF PriorityPick
  <1>3. prio[s] < prio[t] \/ prio[s] = prio[t]
    BY Zenon, <1>1 DEF PriorityPick
  <1> QED BY <1>2, <1>3

\* The scan starts inside the table unless the last slot ran last.
LEMMA StartInTable ==
  ASSUME NEW last, last # NPROC-1
  PROVE  RRStart(last) \in Slot
  <1>1. CASE last \in Slot
    <2>1. last \in Nat /\ last + 1 \in Slot
      BY <1>1, NPROCAssumption DEF Slot
    <2> QED BY Zenon, <1>1, <2>1 DEF RRStart
  <1>2. CASE last \notin Slot
    <2>1. 0 \in Slot /\ ~(0 > 0)
      BY NPROCAssumption DEF Slot
    <2> QED BY Zenon, <1>2, <2>1 DEF RRStart
  <1> QED BY Zenon, <1>1, <1>2

\* Policies 2 and 3 switch to a process of the best priority there is, whenever
\* the process that ran last was not in the last slot.
THEOREM PriorityTheorem == Spec => PriorityRespectedElsewhere
  <1> DEFINE Respected ==
        \A c \in CPU :
          /\ cproc[c] = NoProc /\ cproc'[c] # NoProc /\ schedAlg[c] \in {2, 3}
          /\ RRLastProc[c] # NPROC-1
          => \A s \in Runnable : priority[cproc'[c]] <= priority[s]
  <1>1. ProcInv /\ [Next]_vars => Respected
    <2> SUFFICES ASSUME ProcInv, [Next]_vars,
                        NEW c \in CPU, cproc[c] = NoProc, cproc'[c] # NoProc,
                        schedAlg[c] \in {2, 3}, RRLastProc[c] # NPROC-1, NEW t \in Runnable
                 PROVE  priority[cproc'[c]] <= priority[t]
      OBVIOUS
    <2>1. TypeOK
      BY Zenon DEF ProcInv
    <2>2. PICK d \in CPU : Scheduler(d)
      BY Zenon, <2>1, OthersRelease DEF Released
    <2>3. d = c /\ \E S \in Picks(c) : \E s \in S : cproc'[c] = s
      BY <2>1, <2>2 DEF Scheduler, Idle, Dispatch, TypeOK
    <2>4. PICK s \in PriorityPick(Runnable, priority, Start(c)) : cproc'[c] = s
      BY <2>3 DEF Picks
    <2>5. Start(c) \in Slot
      BY Zenon, StartInTable DEF Start
    <2>6. Runnable \in SUBSET Slot /\ priority \in [Slot -> Nat]
      BY <2>1 DEF Runnable, TypeOK
    <2> QED BY Zenon, <2>4, <2>5, <2>6, PriorityPickIsBest
  <1>2. ProcInv /\ [Next]_vars => [Respected]_vars
    BY Zenon, <1>1
  <1> QED BY <1>2, ProcInvariant, PTL DEF Spec, PriorityRespectedElsewhere
=============================================================================
