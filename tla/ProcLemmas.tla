----------------------------- MODULE ProcLemmas -----------------------------
(***************************************************************************)
(* The steps of ProcProofs that concern scheduling, sleeping, creation and  *)
(* exit: each of these actions preserves ProcInv.                           *)
(***************************************************************************)
EXTENDS Proc, TLAPS

\* The table has room for the first process.
LEMMA InitProcIsSlot == InitProc \in Slot
  BY NPROCAssumption DEF InitProc, Slot

\* Slots, the absent process and the channels are told apart.
LEMMA SlotsAreNat == Slot \subseteq Nat /\ NoProc \notin Slot
  BY NPROCAssumption DEF Slot, NoProc

\* A round of scheduler() selects RUNNABLE slots only.
LEMMA PicksAreRunnable ==
  ASSUME NEW c \in CPU, NEW S \in Picks(c), NEW s \in S
  PROVE  s \in Slot /\ state[s] = "RUNNABLE"
  <1>1. CASE schedAlg[c] \in {0, 1}
    BY <1>1 DEF Picks, RRPick, First, Runnable
  <1>2. CASE schedAlg[c] \in {2, 3}
    BY <1>2 DEF Picks, PriorityPick, Runnable
  <1>3. CASE schedAlg[c] \notin {0, 1, 2, 3}
    BY <1>3, Zenon DEF Picks, LotteryPick, Runnable
  <1> QED BY Zenon, <1>1, <1>2, <1>3

\* The start of the search stays in the table or one past it.
LEMMA RRStartInRange ==
  ASSUME NEW last PROVE RRStart(last) \in Slot \cup {NPROC}
  BY NPROCAssumption DEF RRStart, Slot

\* The initial state satisfies the invariant.
LEMMA InitInv == Init => ProcInv
  <1> SUFFICES ASSUME Init PROVE ProcInv OBVIOUS
  <1> USE InitProcIsSlot, SlotsAreNat, ConstantsAssumption, NPROCAssumption DEF Init
  <1>1. TypeOK
    <2>1. /\ state \in [Slot -> States] /\ pc \in [Slot -> PCs]
          /\ pid \in [Slot -> Nat] /\ first_pid \in [Slot -> Nat]
      BY Zenon DEF States, PCs
    <2>2. /\ parent \in [Slot -> Slot \cup {NoProc}]
          /\ chan \in [Slot -> Slot \cup Chans \cup {NoChan}]
          /\ killed \in [Slot -> BOOLEAN] /\ priority \in [Slot -> 0..6]
      OBVIOUS
    <2>3. /\ ticketCount \in [Slot -> Nat] /\ nextpid \in Nat
          /\ arg \in [Slot -> Int] /\ reg \in [Slot -> Nat]
      OBVIOUS
    <2>4. /\ lock \in CPU \cup {NoCpu} /\ panicked \in BOOLEAN
          /\ cproc \in [CPU -> Slot \cup {NoProc}]
          /\ RRLastProc \in [CPU -> (Slot \cup {NoProc, NPROC})]
      BY Zenon
    <2>5. schedAlg \in [CPU -> 0..4] /\ ctr \in [CPU -> 0..CTRMOD-1]
      OBVIOUS
    <2> QED BY <2>1, <2>2, <2>3, <2>4, <2>5, Zenon DEF TypeOK
  <1>2. RunningOnOneCpu /\ SliceInRange /\ PidsUnique
    BY Zenon DEF RunningOnOneCpu, SliceInRange, PidsUnique
  <1>3. ThreadsLive /\ EmbryosOwned /\ LocalsInRange /\ PidsBounded
    BY DEF ThreadsLive, EmbryosOwned, LocalsInRange, PidsBounded, Live
  <1>4. ParentAlive /\ ParentsOlder /\ WaitersOnSelf /\ WaiterNotStranded
    BY Zenon DEF ParentAlive, ParentsOlder, WaitersOnSelf, WaiterNotStranded, Live
  <1> QED BY <1>1, <1>2, <1>3, <1>4, Zenon DEF ProcInv

-----------------------------------------------------------------------------
Creating == {"fork", "thread", "publish"}

\* A step that creates, publishes, ends and reaps no process.
Quiet ==
  /\ UNCHANGED <<pid, first_pid, parent, nextpid>>
  /\ \A s \in Slot :
       /\ state'[s] = state[s] \/ (Live(s) /\ Live(s)')
       /\ state[s] # "UNUSED" => priority'[s] > 0
       /\ pc'[s] = "none" <=> pc[s] = "none"
       /\ pc'[s] \in Creating => pc'[s] = pc[s] /\ reg'[s] = reg[s]

\* Such a step keeps everything that is about creation and parenthood.
LEMMA QuietInv ==
  ASSUME ProcInv, Quiet
  PROVE  (PidsUnique /\ ThreadsLive /\ EmbryosOwned /\ PidsBounded
          /\ ParentAlive /\ ParentsOlder)'
  <1>1. (PidsUnique /\ PidsBounded)'
    BY DEF ProcInv, Quiet, PidsUnique, PidsBounded, Live
  <1>2. ThreadsLive'
    BY Zenon DEF ProcInv, Quiet, ThreadsLive, Live
  <1>3. EmbryosOwned'
    BY DEF ProcInv, Quiet, EmbryosOwned, Creating, Live
  <1>4. ParentAlive'
    BY Zenon DEF ProcInv, Quiet, ParentAlive, Live
  <1>5. ParentsOlder'
    BY Zenon, InitProcIsSlot DEF ProcInv, Quiet, ParentsOlder, Live
  <1> QED BY Zenon, <1>1, <1>2, <1>3, <1>4, <1>5

\* A step in which nobody enters thread_join() or goes to sleep in wait() or
\* thread_join(), and which does not touch those asleep there.
SameSleepers ==
  \A s \in Slot :
    /\ pc'[s] = "join" => pc[s] = "join"
    /\ state'[s] = "SLEEPING" /\ pc'[s] \in {"wait", "join"} =>
         /\ state[s] = "SLEEPING" /\ pc'[s] = pc[s]
         /\ chan'[s] = chan[s] /\ killed'[s] = killed[s] /\ arg'[s] = arg[s]

\* What a process asleep in wait() relies on stays if its children and its
\* killed flag stay: the step reaps and ends nobody.
LEMMA QuietWaiters ==
  ASSUME ProcInv, Quiet, SameSleepers
  PROVE  (WaitersOnSelf /\ WaiterNotStranded)'
  <1>1. WaitersOnSelf'
    BY Zenon DEF ProcInv, WaitersOnSelf, SameSleepers
  <1>2. ASSUME NEW s \in Slot PROVE Kids(s)' = Kids(s) /\ Zombies(Kids(s))' = Zombies(Kids(s))
    <2>1. \A t \in Slot : state'[t] = "ZOMBIE" <=> state[t] = "ZOMBIE"
      BY Zenon DEF Quiet, Live
    <2> QED BY Zenon, <2>1 DEF Quiet, Kids, Zombies
  <1>3. WaiterNotStranded'
    BY Zenon, <1>2 DEF ProcInv, WaiterNotStranded, SameSleepers
  <1> QED BY Zenon, <1>1, <1>3

\* The process a CPU executes is RUNNING and has a thread.
LEMMA CurrentRuns ==
  ASSUME ProcInv, NEW c \in CPU, NEW p \in Slot, cproc[c] = p
  PROVE  state[p] = "RUNNING" /\ pc[p] # "none" /\ pid[p] > 0
  BY Zenon DEF ProcInv, RunningOnOneCpu, ThreadsLive, PidsBounded, Live

-----------------------------------------------------------------------------
\* The running process p moves between two control points at which it holds no
\* slot, no argument and does not sleep; the table does not change.
LEMMA MoveInv ==
  ASSUME ProcInv, NEW p \in Slot, pc[p] # "none",
         NEW l \in {"user", "sys", "exit", "resched", "yield"},
         Goto(p, l),
         lock' \in CPU \cup {NoCpu},
         arg' \in [Slot -> Int], \A s \in Slot \ {p} : arg'[s] = arg[s],
         UNCHANGED <<tableVars, cpuVars, reg, panicked>>
  PROVE  ProcInv' /\ Quiet /\ SameSleepers
  <1> USE DEF tableVars, cpuVars, Goto
  <1>1. TypeOK'
    BY Zenon DEF ProcInv, TypeOK, PCs
  <1>2. (RunningOnOneCpu /\ SliceInRange)'
    BY Zenon DEF ProcInv, RunningOnOneCpu, SliceInRange
  <1>3. LocalsInRange'
    BY Zenon DEF ProcInv, TypeOK, LocalsInRange
  <1>4. Quiet
    BY Zenon DEF ProcInv, TypeOK, Quiet, Creating, PidsBounded
  <1>5. SameSleepers
    BY Zenon DEF ProcInv, TypeOK, SameSleepers
  <1> QED BY <1>1, <1>2, <1>3, <1>4, <1>5, QuietInv, QuietWaiters, Zenon DEF ProcInv

\* A fault in user mode kills the running process (trap.c, default case).
LEMMA FaultInv ==
  ASSUME ProcInv, NEW c \in CPU, NEW p \in Slot, Fault(c, p)
  PROVE  ProcInv' /\ Quiet /\ SameSleepers
  <1> USE DEF cpuVars, Goto, Fault, At, In
  <1>0. state[p] = "RUNNING" /\ pc[p] # "none"
    BY CurrentRuns, Zenon
  <1>1. TypeOK'
    BY Zenon DEF ProcInv, TypeOK, PCs
  <1>2. (RunningOnOneCpu /\ SliceInRange)'
    BY Zenon DEF ProcInv, RunningOnOneCpu, SliceInRange
  <1>3. LocalsInRange'
    BY Zenon DEF ProcInv, TypeOK, LocalsInRange
  <1>4. Quiet
    BY Zenon DEF ProcInv, TypeOK, Quiet, Creating, PidsBounded
  <1>5. SameSleepers
    BY <1>0, Zenon DEF ProcInv, TypeOK, SameSleepers
  <1> QED BY <1>1, <1>2, <1>3, <1>4, <1>5, QuietInv, QuietWaiters, Zenon DEF ProcInv

\* sleep() on a channel that is not a process.
LEMMA SleepInv ==
  ASSUME ProcInv, NEW c \in CPU, NEW p \in Slot, NEW ch \in Chans, Sleep(c, p, ch)
  PROVE  ProcInv' /\ Quiet /\ SameSleepers
  <1> USE DEF localVars, Goto, Sleep, GoToSleep, Leave, In
  <1>0. state[p] = "RUNNING" /\ pc[p] \in {"sys", "exit"}
    BY CurrentRuns, Zenon
  <1>1. TypeOK'
    BY Zenon DEF ProcInv, TypeOK, States
  <1>2. RunningOnOneCpu'
    BY <1>0, SlotsAreNat DEF ProcInv, TypeOK, RunningOnOneCpu
  <1>3. (SliceInRange /\ LocalsInRange)'
    BY Zenon DEF ProcInv, TypeOK, SliceInRange, LocalsInRange
  <1>4. Quiet
    BY <1>0, Zenon DEF ProcInv, TypeOK, Quiet, Creating, PidsBounded, Live
  <1>5. SameSleepers
    BY <1>0, Zenon DEF ProcInv, TypeOK, SameSleepers
  <1> QED BY <1>1, <1>2, <1>3, <1>4, <1>5, QuietInv, QuietWaiters, Zenon DEF ProcInv

\* wakeup(): sleepers become RUNNABLE.
LEMMA WakeupInv ==
  ASSUME ProcInv, NEW ch \in Chans, Wakeup(ch)
  PROVE  ProcInv' /\ Quiet /\ SameSleepers
  <1> USE DEF localVars, cpuVars, Wakeup, Wake, Asleep
  <1>1. TypeOK'
    BY Zenon DEF ProcInv, TypeOK, States
  <1>2. (RunningOnOneCpu /\ SliceInRange /\ LocalsInRange)'
    BY Zenon DEF ProcInv, RunningOnOneCpu, SliceInRange, LocalsInRange
  <1>4. Quiet
    BY Zenon DEF ProcInv, TypeOK, Quiet, Creating, PidsBounded, Live
  <1>5. SameSleepers
    BY Zenon DEF ProcInv, TypeOK, SameSleepers
  <1> QED BY <1>1, <1>2, <1>4, <1>5, QuietInv, QuietWaiters, Zenon DEF ProcInv

\* The slices of every policy are positive and fit c->ctr.
LEMMA TimeQInRange ==
  ASSUME ProcInv, NEW c \in CPU, NEW s \in Slot, state[s] = "RUNNABLE"
  PROVE  TimeQ(c, s) \in 1 .. CTRMOD-1
  <1>1. priority[s] \in 1..6
    BY DEF ProcInv, TypeOK, PidsBounded
  <1> QED BY <1>1, ConstantsAssumption DEF TimeQ

\* scheduler() switches to a RUNNABLE process.
LEMMA DispatchInv ==
  ASSUME ProcInv, NEW c \in CPU, NEW s \in Slot, state[s] = "RUNNABLE",
         cproc[c] = NoProc, Dispatch(c, s),
         UNCHANGED <<pid, first_pid, parent, killed, priority, nextpid,
                     ticketCount, schedAlg, pc, arg, reg, panicked>>
  PROVE  ProcInv' /\ Quiet /\ SameSleepers
  <1> USE DEF Dispatch
  <1>0. Start(c) \in Slot \cup {NPROC} /\ TimeQ(c, s) \in 1 .. CTRMOD-1
    BY Zenon, TimeQInRange, RRStartInRange DEF Start
  <1>1. TypeOK'
    BY <1>0 DEF ProcInv, TypeOK, States
  <1>2. RunningOnOneCpu'
    BY SlotsAreNat DEF ProcInv, TypeOK, RunningOnOneCpu
  <1>3. (SliceInRange /\ LocalsInRange)'
    BY <1>0 DEF ProcInv, TypeOK, SliceInRange, LocalsInRange
  <1>4. Quiet
    BY Zenon DEF ProcInv, TypeOK, Quiet, Creating, PidsBounded, Live
  <1>5. SameSleepers
    BY Zenon DEF ProcInv, TypeOK, SameSleepers
  <1> QED BY <1>1, <1>2, <1>3, <1>4, <1>5, QuietInv, QuietWaiters, Zenon DEF ProcInv

\* A round of scheduler() that finds nobody.
LEMMA IdleInv ==
  ASSUME ProcInv, NEW c \in CPU, Idle(c),
         UNCHANGED <<pid, first_pid, parent, killed, priority, nextpid,
                     ticketCount, schedAlg, pc, arg, reg, panicked>>
  PROVE  ProcInv' /\ Quiet /\ SameSleepers
  <1> USE DEF Idle
  <1>0. Start(c) \in Slot \cup {NPROC} /\ 0 \in Slot
    BY Zenon, InitProcIsSlot, RRStartInRange DEF Start, InitProc
  <1>1. TypeOK'
    BY <1>0, Zenon DEF ProcInv, TypeOK
  <1>2. (RunningOnOneCpu /\ SliceInRange /\ LocalsInRange)'
    BY Zenon DEF ProcInv, RunningOnOneCpu, SliceInRange, LocalsInRange
  <1>3. Quiet /\ SameSleepers
    BY Zenon DEF ProcInv, Quiet, SameSleepers, PidsBounded
  <1> QED BY <1>1, <1>2, <1>3, QuietInv, QuietWaiters, Zenon DEF ProcInv

\* A round of scheduler().
LEMMA SchedulerInv ==
  ASSUME ProcInv, NEW c \in CPU, Scheduler(c)
  PROVE  ProcInv' /\ Quiet /\ SameSleepers
  <1>1. CASE Idle(c)
    BY Zenon, <1>1, IdleInv DEF Scheduler, localVars
  <1>2. ASSUME NEW S \in Picks(c), NEW s \in S, Dispatch(c, s) PROVE ProcInv' /\ Quiet /\ SameSleepers
    BY Zenon, <1>2, PicksAreRunnable, DispatchInv DEF Scheduler, localVars
  <1> QED BY Zenon, <1>1, <1>2 DEF Scheduler

\* While a process runs, the decrement of c->ctr does not wrap.
LEMMA CtrDoesNotWrap ==
  ASSUME ProcInv, NEW c \in CPU, cproc[c] # NoProc
  PROVE  (ctr[c] - 1) % CTRMOD \in 0 .. CTRMOD-1
  BY ConstantsAssumption DEF ProcInv, TypeOK, SliceInRange

\* The timer interrupt of trap().
LEMMA TimerInv ==
  ASSUME ProcInv, NEW c \in CPU, Timer(c)
  PROVE  ProcInv' /\ Quiet /\ SameSleepers
  <1> DEFINE p == cproc[c]
             W == TickWoken(c)
             left == (ctr[c] - 1) % CTRMOD
  <1>0. /\ W \subseteq {s \in Slot : state[s] = "SLEEPING"}
        /\ p # NoProc => p \in Slot /\ state[p] = "RUNNING" /\ pc[p] # "none"
        /\ p # NoProc => left \in 0 .. CTRMOD-1
    BY CtrDoesNotWrap, CurrentRuns, Zenon DEF ProcInv, TypeOK, TickWoken, Asleep
  <1> HIDE DEF W, left
  <1>a. /\ UNCHANGED <<pid, first_pid, parent, chan, killed, priority, ticketCount,
                       nextpid, schedAlg, RRLastProc, arg, reg, panicked>>
        /\ \/ state' = Wake(W) /\ UNCHANGED <<pc, cproc, lock, ctr>>
           \/ /\ p # NoProc /\ pc[p] = "user" /\ state' = Wake(W)
              /\ pc' = [pc EXCEPT ![p] = "exit"] /\ UNCHANGED <<cproc, lock, ctr>>
           \/ /\ p # NoProc /\ left # 0 /\ state' = Wake(W)
              /\ ctr' = [ctr EXCEPT ![c] = left] /\ UNCHANGED <<pc, cproc, lock>>
           \/ /\ p # NoProc /\ left = 0 /\ state' = Wake(W \cup {p})
              /\ ctr' = [ctr EXCEPT ![c] = left] /\ Leave(c) /\ UNCHANGED pc
    BY Zenon DEF Timer, W, left
  <1> USE DEF Wake, Leave
  <1>1. TypeOK'
    BY <1>0, <1>a DEF ProcInv, TypeOK, States, PCs
  <1>2. RunningOnOneCpu'
    BY <1>0, <1>a, SlotsAreNat DEF ProcInv, TypeOK, RunningOnOneCpu
  <1>3. (SliceInRange /\ LocalsInRange)'
    BY Zenon, <1>0, <1>a DEF ProcInv, TypeOK, SliceInRange, LocalsInRange
  <1>4. Quiet
    BY <1>0, <1>a DEF ProcInv, TypeOK, Quiet, Creating, PidsBounded, Live
  <1>5. SameSleepers
    BY Zenon, <1>0, <1>a DEF ProcInv, TypeOK, SameSleepers
  <1> QED BY Zenon, <1>1, <1>2, <1>3, <1>4, <1>5, QuietInv, QuietWaiters DEF ProcInv

\* yield() at the end of fork, thread_create and kill.
LEMMA YieldInv ==
  ASSUME ProcInv, NEW c \in CPU, NEW p \in Slot, Yield(c, p)
  PROVE  ProcInv' /\ Quiet /\ SameSleepers
  <1> USE DEF Goto, Yield, Leave, At, In
  <1>0. state[p] = "RUNNING" /\ pc[p] # "none"
    BY Zenon, CurrentRuns
  <1>1. TypeOK'
    BY Zenon DEF ProcInv, TypeOK, States, PCs
  <1>2. RunningOnOneCpu'
    BY <1>0, SlotsAreNat DEF ProcInv, TypeOK, RunningOnOneCpu
  <1>3. (SliceInRange /\ LocalsInRange)'
    BY Zenon DEF ProcInv, TypeOK, SliceInRange, LocalsInRange
  <1>4. Quiet
    BY Zenon, <1>0 DEF ProcInv, TypeOK, Quiet, Creating, PidsBounded, Live
  <1>5. SameSleepers
    BY <1>0, Zenon DEF ProcInv, TypeOK, SameSleepers
  <1> QED BY <1>1, <1>2, <1>3, <1>4, <1>5, QuietInv, QuietWaiters, Zenon DEF ProcInv

-----------------------------------------------------------------------------
\* The steps of a creation.  The new slot belongs to nobody's children until
\* it is filled in, and then to those of its creator, which is not waiting.

\* A step that leaves alone the children of those asleep in wait().
LEMMA OtherWaiters ==
  ASSUME ProcInv, SameSleepers,
         \A s \in Slot : state[s] = "SLEEPING" => Kids(s)' = Kids(s),
         \A s \in Slot : state'[s] = "ZOMBIE" <=> state[s] = "ZOMBIE"
  PROVE  (WaitersOnSelf /\ WaiterNotStranded)'
  <1>1. WaitersOnSelf'
    BY Zenon DEF ProcInv, WaitersOnSelf, SameSleepers
  <1>2. ASSUME NEW s \in Slot, state[s] = "SLEEPING"
        PROVE Zombies(Kids(s))' = Zombies(Kids(s))
    BY Zenon, <1>2 DEF Zombies, Kids
  <1>3. WaiterNotStranded'
    BY Zenon, <1>2 DEF ProcInv, WaiterNotStranded, SameSleepers
  <1> QED BY Zenon, <1>1, <1>3

\* allocproc(): a free slot becomes an EMBRYO with a fresh pid, or none is left.
LEMMA AllocProcInv ==
  ASSUME ProcInv, NEW c \in CPU, NEW p \in Slot, NEW l \in {"fork", "thread"},
         AllocProc(c, p, l)
  PROVE  ProcInv'
  <1>0. /\ state[p] = "RUNNING" /\ pc[p] = "sys"
        /\ UNCHANGED <<first_pid, parent, chan, lock, cproc, schedAlg, RRLastProc,
                       ctr, arg, panicked>>
    BY Zenon, CurrentRuns DEF AllocProc, At, In, cpuVars
  <1>1. CASE UnusedSlots = {} /\ Goto(p, Failed(p))
             /\ UNCHANGED <<state, pid, killed, priority, ticketCount, nextpid, reg>>
    BY <1>0, <1>1, MoveInv, Zenon DEF ProcInv, TypeOK, Failed, tableVars, cpuVars
  <1>2. ASSUME NEW s \in UnusedSlots, Embryo(s), reg' = [reg EXCEPT ![p] = s], Goto(p, l)
        PROVE  ProcInv'
    <2>0. s \in Slot /\ state[s] = "UNUSED" /\ s # p /\ pc[s] = "none" /\ s # InitProc
      BY <1>0, Zenon DEF UnusedSlots, ProcInv, ThreadsLive, ParentsOlder, Live
    <2>a. /\ state' = [state EXCEPT ![s] = "EMBRYO"]
          /\ pid' = [pid EXCEPT ![s] = nextpid]
          /\ nextpid' = nextpid + 1
          /\ ticketCount' = [ticketCount EXCEPT ![s] = 10]
          /\ reg' = [reg EXCEPT ![p] = s]
          /\ pc' = [pc EXCEPT ![p] = l]
          /\ killed' = killed
          /\ \E prio \in {1, 3} : priority' = [priority EXCEPT ![s] = prio]
      BY <1>2, Zenon DEF Embryo, Goto
    <2> USE <1>0, <2>a
    <2>1. TypeOK'
      BY <2>0, SlotsAreNat DEF ProcInv, TypeOK, States, PCs
    <2>2. (RunningOnOneCpu /\ SliceInRange)'
      BY <2>0 DEF ProcInv, TypeOK, RunningOnOneCpu, SliceInRange
    <2>3. LocalsInRange'
      BY Zenon DEF ProcInv, TypeOK, LocalsInRange
    <2>4. (PidsBounded /\ PidsUnique)'
      BY <2>0 DEF ProcInv, TypeOK, PidsBounded, PidsUnique
    <2>5. ThreadsLive'
      BY <1>0, <2>0, Zenon DEF ProcInv, TypeOK, ThreadsLive, Live
    <2>6. EmbryosOwned'
      BY <1>0, <2>0 DEF ProcInv, TypeOK, EmbryosOwned, ParentsOlder, PidsBounded
    <2>7. ParentAlive'
      BY <2>0, SlotsAreNat, Zenon DEF ProcInv, TypeOK, ParentAlive, Live
    <2>8. ParentsOlder'
      BY Zenon, <2>0, InitProcIsSlot, SlotsAreNat
      DEF ProcInv, TypeOK, ParentsOlder, ParentAlive, PidsBounded, Live
    <2>9. (WaitersOnSelf /\ WaiterNotStranded)'
      <3>1. SameSleepers
        BY Zenon, <1>0, <2>0 DEF ProcInv, TypeOK, SameSleepers
      <3>2. \A t \in Slot : Kids(t)' = Kids(t)
        BY <2>0, SlotsAreNat DEF ProcInv, TypeOK, ParentsOlder, Kids
      <3>3. \A t \in Slot : state'[t] = "ZOMBIE" <=> state[t] = "ZOMBIE"
        BY <2>0, Zenon DEF ProcInv, TypeOK
      <3> QED BY <3>1, <3>2, <3>3, OtherWaiters, Zenon
    <2> QED BY <2>1, <2>2, <2>3, <2>4, <2>5, <2>6, <2>7, <2>8, <2>9, Zenon DEF ProcInv
  <1> QED BY Zenon, <1>1, <1>2 DEF First, AllocProc

\* The failure paths of fork and thread_create give the slot back.
LEMMA AllocFailsInv ==
  ASSUME ProcInv, NEW c \in CPU, NEW p \in Slot, AllocFails(c, p)
  PROVE  ProcInv'
  <1> USE DEF cpuVars, AllocFails, Failed, Goto, In
  <1>0. /\ state[p] = "RUNNING" /\ pc[p] \in {"fork", "thread"}
        /\ reg[p] \in Slot /\ state[reg[p]] = "EMBRYO" /\ reg[p] # p
        /\ pc[reg[p]] = "none" /\ parent[reg[p]] = NoProc /\ reg[p] # InitProc
    BY Zenon, CurrentRuns DEF ProcInv, TypeOK, EmbryosOwned, ThreadsLive, ParentsOlder, Live
  <1>1. TypeOK'
    BY <1>0, Zenon DEF ProcInv, TypeOK, States, PCs
  <1>2. (RunningOnOneCpu /\ SliceInRange)'
    BY Zenon, <1>0 DEF ProcInv, TypeOK, RunningOnOneCpu, SliceInRange
  <1>3. LocalsInRange'
    BY Zenon DEF ProcInv, TypeOK, LocalsInRange
  <1>4. (PidsBounded /\ PidsUnique)'
    BY Zenon, <1>0 DEF ProcInv, TypeOK, PidsBounded, PidsUnique
  <1>5. ThreadsLive'
    BY Zenon, <1>0 DEF ProcInv, TypeOK, ThreadsLive, Live
  <1>6. EmbryosOwned'
    BY <1>0 DEF ProcInv, TypeOK, EmbryosOwned
  <1>7. ParentAlive'
    BY Zenon, <1>0 DEF ProcInv, TypeOK, ParentAlive, Live
  <1>8. ParentsOlder'
    BY Zenon, <1>0, InitProcIsSlot DEF ProcInv, TypeOK, ParentsOlder, Live
  <1>9. SameSleepers /\ (\A t \in Slot : Kids(t)' = Kids(t))
    BY Zenon, <1>0 DEF ProcInv, TypeOK, SameSleepers, Kids
  <1>10. \A t \in Slot : state'[t] = "ZOMBIE" <=> state[t] = "ZOMBIE"
    BY <1>0, Zenon DEF ProcInv, TypeOK
  <1>11. (WaitersOnSelf /\ WaiterNotStranded)'
    BY <1>9, <1>10, OtherWaiters, Zenon
  <1> QED
    BY Zenon, <1>1, <1>2, <1>3, <1>4, <1>5, <1>6, <1>7, <1>8, <1>11 DEF ProcInv

\* fork and thread_create fill in the EMBRYO.
LEMMA FillInv ==
  ASSUME ProcInv, NEW c \in CPU, NEW p \in Slot,
         FillFork(c, p) \/ FillThread(c, p)
  PROVE  ProcInv'
  <1> USE DEF cpuVars, Goto
  <1>0. /\ state[p] = "RUNNING" /\ pc[p] \in {"fork", "thread"}
        /\ reg[p] \in Slot /\ state[reg[p]] = "EMBRYO" /\ reg[p] # p
        /\ parent[reg[p]] = NoProc /\ reg[p] # InitProc
    BY CurrentRuns DEF FillFork, FillThread, At, In, ProcInv, TypeOK, EmbryosOwned,
                       ParentsOlder, Live
  <1>a. \E group \in Nat : FillSlot(p, group)
    BY <1>0, Zenon DEF FillFork, FillThread, ProcInv, TypeOK
  <1> USE <1>a DEF FillSlot
  <1>1. TypeOK'
    BY <1>0 DEF ProcInv, TypeOK, PCs
  <1>2. (RunningOnOneCpu /\ SliceInRange)'
    BY ZenonT(60) DEF ProcInv, RunningOnOneCpu, SliceInRange
  <1>3. (LocalsInRange /\ ThreadsLive)'
    BY <1>0 DEF ProcInv, TypeOK, LocalsInRange, ThreadsLive, Live
  <1>4. (PidsBounded /\ PidsUnique)'
    BY ZenonT(60) DEF ProcInv, PidsBounded, PidsUnique
  <1>6. EmbryosOwned'
    BY <1>0 DEF ProcInv, TypeOK, EmbryosOwned
  <1>7. (ParentAlive /\ ParentsOlder)'
    BY <1>0, InitProcIsSlot DEF ProcInv, TypeOK, ParentAlive, ParentsOlder, Live
  <1>9. SameSleepers
    BY Zenon, <1>0 DEF ProcInv, TypeOK, SameSleepers
  <1>10. \A t \in Slot : state[t] = "SLEEPING" => Kids(t)' = Kids(t)
    BY <1>0, SlotsAreNat DEF ProcInv, TypeOK, Kids
  <1>11. (WaitersOnSelf /\ WaiterNotStranded)'
    BY <1>9, <1>10, OtherWaiters, Zenon
  <1> QED BY <1>1, <1>2, <1>3, <1>4, <1>6, <1>7, <1>11, Zenon DEF ProcInv

\* fork and thread_create make the new process RUNNABLE.
LEMMA PublishInv ==
  ASSUME ProcInv, NEW c \in CPU, NEW p \in Slot, Publish(c, p)
  PROVE  ProcInv'
  <1> USE DEF cpuVars, Publish, At, In
  <1>0. /\ state[p] = "RUNNING" /\ pc[p] = "publish"
        /\ reg[p] \in Slot /\ state[reg[p]] = "EMBRYO" /\ reg[p] # p
        /\ pc[reg[p]] = "none" /\ parent[reg[p]] = p /\ reg[p] # InitProc
    BY CurrentRuns, Zenon DEF ProcInv, TypeOK, EmbryosOwned, ThreadsLive, ParentsOlder, Live
  <1>1. TypeOK'
    BY <1>0 DEF ProcInv, TypeOK, States, PCs
  <1>2. (RunningOnOneCpu /\ SliceInRange)'
    BY Zenon, <1>0 DEF ProcInv, TypeOK, RunningOnOneCpu, SliceInRange
  <1>3. (LocalsInRange /\ ThreadsLive)'
    BY Zenon, <1>0 DEF ProcInv, TypeOK, LocalsInRange, ThreadsLive, Live
  <1>4. (PidsBounded /\ PidsUnique)'
    BY Zenon, <1>0 DEF ProcInv, TypeOK, PidsBounded, PidsUnique
  <1>6. EmbryosOwned'
    BY <1>0 DEF ProcInv, TypeOK, EmbryosOwned
  <1>7. ParentAlive'
    BY Zenon, <1>0 DEF ProcInv, TypeOK, ParentAlive, Live
  <1>8. ParentsOlder'
    BY Zenon, <1>0, InitProcIsSlot
    DEF ProcInv, TypeOK, ParentsOlder, EmbryosOwned, PidsBounded, Live
  <1>9. SameSleepers /\ (\A t \in Slot : Kids(t)' = Kids(t))
    BY Zenon, <1>0 DEF ProcInv, TypeOK, SameSleepers, Kids
  <1>10. \A t \in Slot : state'[t] = "ZOMBIE" <=> state[t] = "ZOMBIE"
    BY <1>0, Zenon DEF ProcInv, TypeOK
  <1>11. (WaitersOnSelf /\ WaiterNotStranded)'
    BY <1>9, <1>10, OtherWaiters, Zenon
  <1> QED BY <1>1, <1>2, <1>3, <1>4, <1>6, <1>7, <1>8, <1>11, Zenon DEF ProcInv

-----------------------------------------------------------------------------
\* exit(): the children change hands and whoever waits for p is woken.

\* The woken processes were asleep; p and its parent do not wait for each other.
LEMMA ExitFacts ==
  ASSUME ProcInv, NEW c \in CPU, NEW p \in Slot, Exit(c, p)
  PROVE  /\ state[p] = "RUNNING" /\ pc[p] = "exit" /\ p # InitProc
         /\ parent[p] \in Slot /\ parent[p] # p /\ Live(parent[p])
         /\ parent[parent[p]] # p /\ parent[InitProc] # p
         /\ \A s \in Slot : state[s] # "UNUSED" => pid[s] # 0
  <1>1. state[p] = "RUNNING" /\ pc[p] = "exit" /\ p # InitProc
    BY CurrentRuns, ZenonT(60) DEF Exit, At, In
  <1>2. parent[p] \in Slot /\ Live(parent[p]) /\ pid[parent[p]] < pid[p]
    BY Zenon, <1>1 DEF ProcInv, ParentAlive, ParentsOlder, Live
  <1>3. parent[InitProc] # p
    BY Zenon, SlotsAreNat DEF ProcInv, ParentsOlder
  <1>4. parent[parent[p]] # p
    <2>1. CASE parent[p] = InitProc
      BY Zenon, <2>1, <1>3
    <2>2. CASE parent[p] # InitProc
      <3>1. pid[parent[parent[p]]] < pid[parent[p]]
        BY <1>2, <2>2, Zenon DEF ProcInv, ParentsOlder
      <3> QED BY <1>2, <3>1 DEF ProcInv, TypeOK
    <2> QED BY Zenon, <2>1, <2>2
  <1>5. \A s \in Slot : state[s] # "UNUSED" => pid[s] # 0
    BY DEF ProcInv, TypeOK, PidsBounded
  <1> QED BY Zenon, <1>1, <1>2, <1>3, <1>4, <1>5 DEF ProcInv, TypeOK

\* exit() preserves the invariant.
LEMMA ExitInv ==
  ASSUME ProcInv, NEW c \in CPU, NEW p \in Slot, Exit(c, p)
  PROVE  ProcInv'
  <1> DEFINE W == Asleep(ExitWakes(p))
             K == Children(p)
  <1>0. /\ state[p] = "RUNNING" /\ pc[p] = "exit" /\ p # InitProc
        /\ parent[p] \in Slot /\ parent[p] # p /\ Live(parent[p])
        /\ parent[parent[p]] # p /\ parent[InitProc] # p
        /\ \A s \in Slot : state[s] # "UNUSED" => pid[s] # 0
    BY Zenon, ExitFacts
  <1>1. /\ W \subseteq {s \in Slot : state[s] = "SLEEPING"}
        /\ K = {s \in Slot \ {p} : pid[s] # 0 /\ parent[s] = p}
        /\ InitProc \notin K
    BY Zenon, <1>0 DEF Asleep, Children, Others
  <1>2. ASSUME NEW s \in Slot, state[s] = "SLEEPING", chan[s] = s, s \notin W
        PROVE  /\ parent[p] # s
               /\ s = InitProc => \A t \in K : state[t] # "ZOMBIE"
    <2>1. s \notin ExitWakes(p)
      BY Zenon, <1>2 DEF Asleep
    <2>2. s # parent[p]
      <3> SUFFICES ASSUME s = parent[p] PROVE FALSE OBVIOUS
      <3>1. s \in Others(p) \ Children(p)
        BY Zenon, <1>0, <1>1, <1>2 DEF Others
      <3> QED BY Zenon, <2>1, <3>1 DEF ExitWakes
    <2>3. s = InitProc => \A t \in K : state[t] # "ZOMBIE"
      BY Zenon, <2>1 DEF ExitWakes
    <2> QED BY Zenon, <2>2, <2>3
  <1>a. /\ state' = [s \in Slot |-> IF s = p THEN "ZOMBIE" ELSE
                                   IF s \in W THEN "RUNNABLE" ELSE state[s]]
        /\ parent' = [s \in Slot |-> IF s \in K THEN InitProc ELSE parent[s]]
        /\ pc' = [pc EXCEPT ![p] = "none"]
        /\ cproc' = [cproc EXCEPT ![c] = NoProc] /\ lock' = NoCpu
        /\ UNCHANGED <<pid, first_pid, chan, killed, priority, ticketCount,
                       nextpid, schedAlg, RRLastProc, ctr, arg, reg, panicked>>
        /\ cproc[c] = p
    BY Zenon DEF Exit, Wake, Goto, Leave, At, In
  <1> HIDE DEF W, K
  <1>3. TypeOK'
    BY <1>a, InitProcIsSlot, Zenon DEF ProcInv, TypeOK, States, PCs
  <1>4. RunningOnOneCpu'
    BY <1>0, <1>1, <1>a, SlotsAreNat DEF ProcInv, TypeOK, RunningOnOneCpu
  <1>5. (SliceInRange /\ LocalsInRange)'
    BY <1>0, <1>a, Zenon DEF ProcInv, TypeOK, SliceInRange, LocalsInRange
  <1>6. (PidsUnique /\ PidsBounded)'
    BY Zenon, <1>0, <1>1, <1>a DEF ProcInv, TypeOK, PidsUnique, PidsBounded
  <1>7. ThreadsLive'
    BY Zenon, <1>0, <1>1, <1>a DEF ProcInv, TypeOK, ThreadsLive, Live
  <1>8. EmbryosOwned'
    BY <1>0, <1>1, <1>a, SlotsAreNat DEF ProcInv, TypeOK, EmbryosOwned
  <1>9. ParentAlive'
    BY Zenon, <1>0, <1>1, <1>a, InitProcIsSlot DEF ProcInv, TypeOK, ParentAlive, ParentsOlder, Live
  <1>10. ParentsOlder'
    BY Zenon, <1>0, <1>1, <1>a, InitProcIsSlot, SlotsAreNat
    DEF ProcInv, TypeOK, ParentsOlder, ParentAlive, Live
  <1>11. WaitersOnSelf'
    BY <1>0, <1>1, <1>a, Zenon DEF ProcInv, TypeOK, WaitersOnSelf
  <1>12. WaiterNotStranded'
    <2> SUFFICES ASSUME NEW s \in Slot, state'[s] = "SLEEPING", pc'[s] = "wait"
                 PROVE  /\ Kids(s)' # {}
                        /\ Zombies(Kids(s))' = {}
                        /\ ~killed'[s]
      BY Zenon DEF WaiterNotStranded
    <2>1. s # p /\ s \notin W /\ state[s] = "SLEEPING" /\ pc[s] = "wait" /\ chan[s] = s
      BY <1>0, <1>a, Zenon DEF ProcInv, TypeOK, WaitersOnSelf
    <2>2. Kids(s) # {} /\ Zombies(Kids(s)) = {} /\ ~killed[s]
      BY <2>1, Zenon DEF ProcInv, WaiterNotStranded
    <2>3. Kids(s)' # {}
      BY <1>1, <1>a, <2>1, <2>2, Zenon DEF Kids
    <2>4. ASSUME NEW t \in Kids(s)', state'[t] = "ZOMBIE" PROVE FALSE
      <3>1. t \in Slot /\ pid[t] = first_pid[t] /\ parent'[t] = s
        BY <1>a, Zenon DEF Kids
      <3>2. t # p
        BY <1>1, <1>2, <1>a, <2>1, <3>1, Zenon
      <3>3. state[t] = "ZOMBIE"
        BY <1>1, <1>a, <2>4, <3>1, <3>2, Zenon
      <3>4. t \notin K
        BY <1>2, <1>a, <2>1, <3>1, <3>3, Zenon
      <3>5. t \in Zombies(Kids(s))
        BY <1>a, <3>1, <3>3, <3>4, Zenon DEF Zombies, Kids
      <3> QED BY <2>2, <3>5, Zenon
    <2> QED BY <1>a, <2>2, <2>3, <2>4, Zenon DEF Zombies
  <1> QED
    BY Zenon, <1>3, <1>4, <1>5, <1>6, <1>7, <1>8, <1>9, <1>10, <1>11, <1>12 DEF ProcInv

-----------------------------------------------------------------------------
\* wait and thread_join.

=============================================================================
