-------------------------------- MODULE Proc --------------------------------
(***************************************************************************)
(* The process table of proc.c: creation (fork, thread_create), death      *)
(* (exit, kill), reaping (wait, thread_join), sleep/wakeup, the per-CPU     *)
(* scheduler with its five policies, and the timer interrupt of trap.c.    *)
(*                                                                         *)
(* Grain of atomicity.  A critical section of ptable.lock is one step,     *)
(* because everything it touches is touched by others only under the lock. *)
(* What the code does without the lock is a step of its own: the failure    *)
(* paths of fork that set UNUSED, the read and the write of                 *)
(* totalTicketCount in set_ticketCount, the loop of change_policy.  `lock'  *)
(* is held between steps only where a section spans a context switch (a     *)
(* process resumed inside wait or thread_join) or where it is never         *)
(* released (thread_join of a group leader).                                *)
(***************************************************************************)
EXTENDS SchedPick

CONSTANTS
  NCPU,         \* number of CPUs; CPU 0 is the one whose timer advances ticks
  NCHAN,        \* number of sleep channels other than processes, &ticks first
  MaxPid,       \* bound: no process is created once nextpid exceeds it
  KillArgs,     \* arguments given to kill()
  JoinArgs,     \* arguments given to thread_join()
  Policies,     \* arguments given to change_policy()
  Priorities,   \* arguments given to set_priority()
  TicketArgs,   \* arguments given to set_ticketCount()
  Faults,       \* TRUE: memory may run out in fork, user code may fault
  QUANTUM,      \* time slice of policy 1, in ticks
  PRIORITY_Q,   \* time slice of each priority under policy 3
  CTRMOD        \* 2^w, the width of the unsigned c->ctr

CPU    == 0 .. NCPU-1
Chans  == NPROC .. NPROC+NCHAN-1
InitProc  == 0
NoProc == -1
NoCpu  == -1
NoChan == -1
TicksChan == NPROC

ASSUME ConstantsAssumption ==
  /\ NCPU \in Nat \ {0} /\ NCHAN \in Nat
  /\ MaxPid \in Nat
  /\ KillArgs \subseteq Int /\ JoinArgs \subseteq Int
  /\ Policies \subseteq 0..4
  /\ Priorities \subseteq Int
  /\ TicketArgs \subseteq Nat \ {0}
  /\ Faults \in BOOLEAN
  /\ QUANTUM \in Nat \ {0}
  /\ PRIORITY_Q \in [1..6 -> Nat \ {0}]
  /\ CTRMOD \in Nat
  /\ CTRMOD > QUANTUM /\ \A i \in 1..6 : CTRMOD > PRIORITY_Q[i]

VARIABLES
  state, pid, first_pid, parent, chan, killed, priority, ticketCount,
  nextpid, totalTicketCount,
  lock,         \* the CPU holding ptable.lock, or NoCpu
  cproc,        \* c->proc
  schedAlg, RRLastProc, ctr,
  pc,           \* where the kernel thread of a slot is
  arg, reg,     \* its local variables
  load,         \* the register holding totalTicketCount in set_ticketCount
  panicked

tableVars == <<state, pid, first_pid, parent, chan, killed, priority,
               ticketCount, nextpid>>
cpuVars   == <<cproc, schedAlg, RRLastProc, ctr>>
localVars == <<pc, arg, reg, load>>
vars == <<tableVars, totalTicketCount, lock, cpuVars, localVars, panicked>>

States == {"UNUSED", "EMBRYO", "SLEEPING", "RUNNABLE", "RUNNING", "ZOMBIE"}

\* "none": no thread; "user": user mode; "sys": past the entry test of trap();
\* the others are inside the call they name.
PCs == {"none", "user", "sys", "fork", "thread", "publish", "resched",
        "yield", "wait", "join", "tickets", "policy", "exit"}

TypeOK ==
  /\ state \in [Slot -> States]
  /\ pid \in [Slot -> Nat]
  /\ first_pid \in [Slot -> Nat]
  /\ parent \in [Slot -> Slot \cup {NoProc}]
  /\ chan \in [Slot -> Slot \cup Chans \cup {NoChan}]
  /\ killed \in [Slot -> BOOLEAN]
  /\ priority \in [Slot -> 0..6]
  /\ ticketCount \in [Slot -> Nat]
  /\ nextpid \in Nat
  /\ lock \in CPU \cup {NoCpu}
  /\ cproc \in [CPU -> Slot \cup {NoProc}]
  /\ schedAlg \in [CPU -> 0..4]
  /\ RRLastProc \in [CPU -> (Slot \cup {NoProc, NPROC})]
  /\ ctr \in [CPU -> 0..CTRMOD-1]
  /\ pc \in [Slot -> PCs]
  /\ arg \in [Slot -> Int]
  /\ reg \in [Slot -> Nat]
  /\ panicked \in BOOLEAN

-----------------------------------------------------------------------------
(* userinit() has run on an otherwise empty table.  It never sets first_pid *)
(* or parent of the first process: they keep the zeroes of the static table.*)
Init ==
  /\ state = [s \in Slot |-> IF s = InitProc THEN "RUNNABLE" ELSE "UNUSED"]
  /\ pid = [s \in Slot |-> IF s = InitProc THEN 1 ELSE 0]
  /\ first_pid = [s \in Slot |-> 0]
  /\ parent = [s \in Slot |-> NoProc]
  /\ chan = [s \in Slot |-> NoChan]
  /\ killed = [s \in Slot |-> FALSE]
  /\ priority = [s \in Slot |-> IF s = InitProc THEN 1 ELSE 0]
  /\ ticketCount = [s \in Slot |-> IF s = InitProc THEN 10 ELSE 0]
  /\ nextpid = 2
  /\ totalTicketCount = 10
  /\ lock = NoCpu
  /\ cproc = [c \in CPU |-> NoProc]
  /\ schedAlg = [c \in CPU |-> 0]
  /\ RRLastProc = [c \in CPU |-> NoProc]
  /\ ctr = [c \in CPU |-> 0]
  /\ pc = [s \in Slot |-> IF s = InitProc THEN "user" ELSE "none"]
  /\ arg = [s \in Slot |-> 0]
  /\ reg = [s \in Slot |-> 0]
  /\ load = [s \in Slot |-> 0]
  /\ panicked = FALSE

Free == lock = NoCpu
Runnable == {s \in Slot : state[s] = "RUNNABLE"}
SumTickets(S) == TicketSum(ticketCount, S)

\* CPU c executes process p, which is at one of the control points L.
In(c, p, L) == ~panicked /\ cproc[c] = p /\ pc[p] \in L
At(c, p, l) == In(c, p, {l})

\* Interrupts are off on c while it holds ptable.lock and in change_policy.
Interruptible(c) ==
  /\ lock # c
  /\ cproc[c] # NoProc => pc[cproc[c]] # "policy"

-----------------------------------------------------------------------------
(* sleep() and wakeup1().                                                   *)
Asleep(W) == {s \in Slot : state[s] = "SLEEPING" /\ chan[s] \in W}

\* The processes of S become RUNNABLE.
Wake(S) == [s \in Slot |-> IF s \in S THEN "RUNNABLE" ELSE state[s]]

\* p gives up c: sched() returns to the scheduler, which clears c->proc and
\* releases ptable.lock.
Leave(c) == cproc' = [cproc EXCEPT ![c] = NoProc] /\ lock' = NoCpu

\* p sleeps on ch; ptable.lock is held.
GoToSleep(c, p, ch) ==
  /\ state' = [state EXCEPT ![p] = "SLEEPING"]
  /\ chan' = [chan EXCEPT ![p] = ch]
  /\ totalTicketCount' = totalTicketCount - ticketCount[p]
  /\ Leave(c)

\* A call that blocks on something that is not a process (pipe, disk, lock,
\* clock): the caller loops on its condition, so it returns to where it was.
Sleep(c, p, ch) ==
  /\ In(c, p, {"sys", "exit"})
  /\ Free
  /\ GoToSleep(c, p, ch)
  /\ UNCHANGED <<pid, first_pid, parent, killed, priority, ticketCount,
                 nextpid, schedAlg, RRLastProc, ctr, localVars, panicked>>

\* Mutant: the tickets of the woken processes are not added again.
WakeupKeepingTickets(ch) ==
  /\ ~panicked /\ Free
  /\ Asleep({ch}) # {}
  /\ state' = Wake(Asleep({ch}))
  /\ UNCHANGED <<pid, first_pid, parent, chan, killed, priority, ticketCount,
                 nextpid, totalTicketCount, lock, cpuVars, localVars, panicked>>

\* wakeup(ch) by a device interrupt or another process.
Wakeup(ch) ==
  /\ ~panicked /\ Free
  /\ Asleep({ch}) # {}
  /\ state' = Wake(Asleep({ch}))
  /\ totalTicketCount' = totalTicketCount + SumTickets(Asleep({ch}))
  /\ UNCHANGED <<pid, first_pid, parent, chan, killed, priority, ticketCount,
                 nextpid, lock, cpuVars, localVars, panicked>>

-----------------------------------------------------------------------------
(* scheduler().                                                             *)

Start(c) == RRStart(RRLastProc[c])

\* What one round may select: sets with at most one slot.
Picks(c) ==
  CASE schedAlg[c] \in {0, 1} -> {RRPick(Runnable, Start(c))}
    [] schedAlg[c] \in {2, 3} -> {PriorityPick(Runnable, priority, Start(c))}
    [] OTHER -> {LotteryPick(Runnable, ticketCount, w) :
                   w \in IF totalTicketCount > 0
                         THEN 0 .. totalTicketCount-1 ELSE {0}}

TimeQ(c, s) ==
  CASE schedAlg[c] = 1 -> QUANTUM
    [] schedAlg[c] = 3 -> PRIORITY_Q[priority[s]]
    [] OTHER -> 1

\* Mutant: the state is left RUNNABLE.
DispatchRunnable(c, s) ==
  /\ chan' = [chan EXCEPT ![s] = NoChan]
  /\ cproc' = [cproc EXCEPT ![c] = s]
  /\ ctr' = [ctr EXCEPT ![c] = TimeQ(c, s)]
  /\ RRLastProc' = [RRLastProc EXCEPT ![c] = s]
  /\ lock' = IF pc[s] \in {"wait", "join"} THEN c ELSE NoCpu
  /\ UNCHANGED state

\* c switches to s, which finishes sleep(), yield() or forkret(): it clears
\* chan and releases ptable.lock, except inside wait and thread_join, whose
\* loops go on with the lock held.
Dispatch(c, s) ==
  /\ state' = [state EXCEPT ![s] = "RUNNING"]
  /\ chan' = [chan EXCEPT ![s] = NoChan]
  /\ cproc' = [cproc EXCEPT ![c] = s]
  /\ ctr' = [ctr EXCEPT ![c] = TimeQ(c, s)]
  /\ RRLastProc' = [RRLastProc EXCEPT ![c] =
                      IF schedAlg[c] = 4 THEN Start(c) ELSE s]
  /\ lock' = IF pc[s] \in {"wait", "join"} THEN c ELSE NoCpu

Idle(c) ==
  /\ RRLastProc' = [RRLastProc EXCEPT ![c] =
                      IF schedAlg[c] = 4 THEN Start(c) ELSE 0]
  /\ UNCHANGED <<state, chan, cproc, ctr, lock>>

Scheduler(c) ==
  /\ ~panicked /\ cproc[c] = NoProc /\ Free
  /\ \E S \in Picks(c) : \/ S = {} /\ Idle(c)
                         \/ \E s \in S : Dispatch(c, s)
  /\ UNCHANGED <<pid, first_pid, parent, killed, priority, ticketCount,
                 nextpid, totalTicketCount, schedAlg, localVars, panicked>>

\* The part of the timer interrupt that only CPU 0 runs: wakeup(&ticks).
TickWoken(c) == IF c = 0 THEN Asleep({TicksChan}) ELSE {}

\* Timer interrupt: wake the sleepers on &ticks, then end a killed process in
\* user mode, or count down its slice and yield at zero.  ctr is unsigned.
Timer(c) ==
  LET p    == cproc[c]
      W    == TickWoken(c)
      left == (ctr[c] - 1) % CTRMOD
  IN
  /\ ~panicked /\ Interruptible(c)
  /\ c = 0 => Free
  /\ totalTicketCount' = totalTicketCount + SumTickets(W)
  /\ \/ /\ p = NoProc
        /\ state' = Wake(W)
        /\ UNCHANGED <<pc, cproc, lock, ctr>>
     \/ /\ p # NoProc /\ killed[p] /\ pc[p] = "user"
        /\ state' = Wake(W)
        /\ pc' = [pc EXCEPT ![p] = "exit"]
        /\ UNCHANGED <<cproc, lock, ctr>>
     \/ /\ p # NoProc /\ ~(killed[p] /\ pc[p] = "user") /\ left # 0
        /\ state' = Wake(W)
        /\ ctr' = [ctr EXCEPT ![c] = left]
        /\ UNCHANGED <<pc, cproc, lock>>
     \/ /\ p # NoProc /\ ~(killed[p] /\ pc[p] = "user") /\ left = 0
        /\ Free
        /\ ctr' = [ctr EXCEPT ![c] = left]
        /\ state' = Wake(W \cup {p})
        /\ Leave(c)
        /\ UNCHANGED pc
  /\ UNCHANGED <<pid, first_pid, parent, chan, killed, priority, ticketCount,
                 nextpid, schedAlg, RRLastProc, arg, reg, load, panicked>>

\* The lock was never released: the next acquire() on this CPU, at the latest
\* the one of the timer interrupt, panics.
AcquirePanic(c) ==
  /\ ~panicked /\ lock = c
  /\ cproc[c] # NoProc /\ pc[cproc[c]] \notin {"wait", "join"}
  /\ panicked' = TRUE
  /\ UNCHANGED <<tableVars, totalTicketCount, lock, cpuVars, localVars>>

-----------------------------------------------------------------------------
(* Entering and leaving the kernel: the tests of p->killed in trap().       *)
(* The first process runs init.c: it forks a child, remembers its pid in     *)
(* arg, and waits until that child is reaped or wait() fails; it has no      *)
(* other call that matters here.  Every other process calls what it likes.   *)
Goto(p, l) == pc' = [pc EXCEPT ![p] = l]

Enter(c, p) ==
  /\ At(c, p, "user") /\ ~killed[p]
  /\ Goto(p, "sys")
  /\ UNCHANGED <<tableVars, totalTicketCount, lock, cpuVars, arg, reg, load,
                 panicked>>

KilledExit(c, p) ==
  /\ At(c, p, "user") /\ killed[p]
  /\ Goto(p, "exit")
  /\ UNCHANGED <<tableVars, totalTicketCount, lock, cpuVars, arg, reg, load,
                 panicked>>

\* A trap the kernel does not know, from user mode.
Fault(c, p) ==
  /\ Faults /\ p # InitProc
  /\ At(c, p, "user")
  /\ killed' = [killed EXCEPT ![p] = TRUE]
  /\ Goto(p, "exit")
  /\ UNCHANGED <<state, pid, first_pid, parent, chan, priority, ticketCount,
                 nextpid, totalTicketCount, lock, cpuVars, arg, reg, load,
                 panicked>>

\* A call that changes nothing here, or one that has stopped sleeping.
SysReturn(c, p) ==
  /\ p # InitProc
  /\ At(c, p, "sys")
  /\ Goto(p, "user")
  /\ UNCHANGED <<tableVars, totalTicketCount, lock, cpuVars, arg, reg, load,
                 panicked>>

SysExit(c, p) ==
  /\ p # InitProc
  /\ At(c, p, "sys")
  /\ Goto(p, "exit")
  /\ UNCHANGED <<tableVars, totalTicketCount, lock, cpuVars, arg, reg, load,
                 panicked>>

-----------------------------------------------------------------------------
(* fork() and thread_create().                                              *)

\* Where a failed creation returns to: init.c calls exit() when fork fails.
Failed(p) == IF p = InitProc THEN "exit" ELSE "user"

UnusedSlots == {s \in Slot : state[s] = "UNUSED"}

\* What allocproc() writes.  killed, first_pid, parent and chan keep whatever
\* the slot held.
Embryo(s) ==
  /\ state' = [state EXCEPT ![s] = "EMBRYO"]
  /\ pid' = [pid EXCEPT ![s] = nextpid]
  /\ priority' = [priority EXCEPT ![s] = IF nextpid = 1 THEN 1 ELSE 3]
  /\ ticketCount' = [ticketCount EXCEPT ![s] = 10]
  /\ nextpid' = nextpid + 1
  /\ UNCHANGED killed

\* allocproc() up to its release, on behalf of the call l.
AllocProc(c, p, l) ==
  /\ At(c, p, "sys") /\ Free
  /\ p = InitProc => l = "fork" /\ arg[p] = 0
  /\ nextpid <= MaxPid
  /\ \/ \E s \in First(UnusedSlots) :
          /\ Embryo(s)
          /\ reg' = [reg EXCEPT ![p] = s]
          /\ Goto(p, l)
     \/ /\ UnusedSlots = {}
        /\ Goto(p, Failed(p))
        /\ UNCHANGED <<state, pid, killed, priority, ticketCount, nextpid, reg>>
  /\ UNCHANGED <<first_pid, parent, chan, totalTicketCount, lock, cpuVars,
                 arg, load, panicked>>

\* kalloc(), copyuvm() or linkuvm() fails: the slot is freed without the lock
\* and keeps its pid.
AllocFails(c, p) ==
  /\ Faults
  /\ In(c, p, {"fork", "thread"})
  /\ state' = [state EXCEPT ![reg[p]] = "UNUSED"]
  /\ Goto(p, Failed(p))
  /\ reg' = [reg EXCEPT ![p] = 0]
  /\ UNCHANGED <<pid, first_pid, parent, chan, killed, priority, ticketCount,
                 nextpid, totalTicketCount, lock, cpuVars, arg, load,
                 panicked>>

\* The new process is filled in; no lock is held.
FillSlot(p, group) ==
  /\ first_pid' = [first_pid EXCEPT ![reg[p]] = group]
  /\ parent' = [parent EXCEPT ![reg[p]] = p]
  /\ Goto(p, "publish")
  /\ UNCHANGED <<state, pid, chan, killed, priority, ticketCount, nextpid,
                 totalTicketCount, lock, cpuVars, arg, reg, load, panicked>>

\* A forked process leads a group of its own, a thread joins its creator's.
FillFork(c, p)   == At(c, p, "fork") /\ FillSlot(p, pid[reg[p]])
FillThread(c, p) == At(c, p, "thread") /\ FillSlot(p, first_pid[p])

\* The second critical section makes it RUNNABLE.
Publish(c, p) ==
  /\ At(c, p, "publish") /\ Free
  /\ state' = [state EXCEPT ![reg[p]] = "RUNNABLE"]
  /\ totalTicketCount' = totalTicketCount + ticketCount[reg[p]]
  /\ pc' = [pc EXCEPT ![p] = "resched", ![reg[p]] = "user"]
  /\ reg' = [reg EXCEPT ![p] = 0]
  /\ arg' = [arg EXCEPT ![p] = IF p = InitProc THEN pid[reg[p]] ELSE 0]
  /\ UNCHANGED <<pid, first_pid, parent, chan, killed, priority, ticketCount,
                 nextpid, lock, cpuVars, load, panicked>>

\* fork, thread_create and kill end by looking at the policy of the CPU ...
Resched(c, p) ==
  /\ At(c, p, "resched")
  /\ Goto(p, IF schedAlg[c] \in {2, 3} THEN "yield" ELSE "user")
  /\ UNCHANGED <<tableVars, totalTicketCount, lock, cpuVars, arg, reg, load,
                 panicked>>

\* ... and calling yield() under policies 2 and 3.
Yield(c, p) ==
  /\ At(c, p, "yield") /\ Free
  /\ state' = [state EXCEPT ![p] = "RUNNABLE"]
  /\ Goto(p, "user")
  /\ Leave(c)
  /\ UNCHANGED <<pid, first_pid, parent, chan, killed, priority, ticketCount,
                 nextpid, totalTicketCount, schedAlg, RRLastProc, ctr, arg,
                 reg, load, panicked>>

-----------------------------------------------------------------------------
(* exit(), from acquire(&ptable.lock) on.                                   *)

\* The slots the loop of exit() looks at ...
Others(p) == {s \in Slot \ {p} : pid[s] # 0}

\* Mutant: threads are not handed over.
ChildrenNoThreads(p) == {s \in Others(p) : parent[s] = p /\ pid[s] = first_pid[s]}

\* ... and the children among them.
Children(p) == {s \in Others(p) : parent[s] = p}

\* Mutants: neither parent nor init is woken; the other threads are not.
ExitWakesThreads(p) ==
  {s \in Others(p) \ Children(p) : first_pid[s] = first_pid[p]}
ExitWakesParent(p) ==
  {s \in Others(p) \ Children(p) : s = parent[p]}
  \cup {i \in {InitProc} : \E s \in Children(p) : state[s] = "ZOMBIE"}

\* The channels on which the loop calls wakeup1(): init's, for each child that
\* is already a zombie, and those of the parent and of the other threads.  The
\* second test is an "else if": a thread that is a child is not woken.
ExitWakes(p) ==
  {s \in Others(p) \ Children(p) : first_pid[s] = first_pid[p] \/ s = parent[p]}
  \cup {i \in {InitProc} : \E s \in Children(p) : state[s] = "ZOMBIE"}

Exit(c, p) ==
  LET W == Asleep(ExitWakes(p)) IN
  /\ p # InitProc
  /\ At(c, p, "exit") /\ Free
  /\ parent' = [s \in Slot |-> IF s \in Children(p) THEN InitProc ELSE parent[s]]
  /\ state' = [Wake(W) EXCEPT ![p] = "ZOMBIE"]
  /\ totalTicketCount' = totalTicketCount + SumTickets(W) - ticketCount[p]
  /\ Goto(p, "none")
  /\ Leave(c)
  /\ UNCHANGED <<pid, first_pid, chan, killed, priority, ticketCount,
                 nextpid, schedAlg, RRLastProc, ctr, arg, reg, load, panicked>>

\* exit() of the first process: panic("init exiting").
InitExit(c) ==
  /\ At(c, InitProc, "exit")
  /\ panicked' = TRUE
  /\ UNCHANGED <<tableVars, totalTicketCount, lock, cpuVars, localVars>>

-----------------------------------------------------------------------------
(* diagwait() and thread_join(): scan, then reap, fail or sleep.            *)

\* p is at the head of the loop of the call l, holding ptable.lock: it has
\* just entered the call, or it was resumed inside its sleep.
Scanning(c, p, l) ==
  \/ At(c, p, "sys") /\ Free
  \/ At(c, p, l) /\ lock = c

\* Mutant: the slot stays in its thread group.
ReapKeepsGroup(s) ==
  /\ state' = [state EXCEPT ![s] = "UNUSED"]
  /\ pid' = [pid EXCEPT ![s] = 0]
  /\ parent' = [parent EXCEPT ![s] = NoProc]
  /\ killed' = [killed EXCEPT ![s] = FALSE]
  /\ priority' = [priority EXCEPT ![s] = 0]
  /\ ticketCount' = [ticketCount EXCEPT ![s] = 0]
  /\ UNCHANGED <<first_pid, chan, nextpid, totalTicketCount, cproc>>

\* The slot of a zombie is given back.
Reap(s) ==
  /\ state' = [state EXCEPT ![s] = "UNUSED"]
  /\ pid' = [pid EXCEPT ![s] = 0]
  /\ first_pid' = [first_pid EXCEPT ![s] = 0]
  /\ parent' = [parent EXCEPT ![s] = NoProc]
  /\ killed' = [killed EXCEPT ![s] = FALSE]
  /\ priority' = [priority EXCEPT ![s] = 0]
  /\ ticketCount' = [ticketCount EXCEPT ![s] = 0]
  /\ UNCHANGED <<chan, nextpid, totalTicketCount, cproc>>

\* What wait looks at: the children that are not threads.
Kids(p) == {s \in Slot : pid[s] = first_pid[s] /\ parent[s] = p}
Zombies(S) == {s \in S : state[s] = "ZOMBIE"}

Wait(c, p) ==
  /\ Scanning(c, p, "wait")
  /\ p = InitProc => arg[p] # 0
  /\ \/ \E s \in First(Zombies(Kids(p))) :
          /\ Reap(s)
          /\ arg' = [arg EXCEPT ![p] = IF pid[s] = @ THEN 0 ELSE @]
          /\ lock' = NoCpu
          /\ Goto(p, "user")
     \/ /\ Zombies(Kids(p)) = {}
        /\ Kids(p) = {} \/ killed[p]
        /\ arg' = [arg EXCEPT ![p] = 0]
        /\ lock' = NoCpu
        /\ Goto(p, "user")
        /\ UNCHANGED <<tableVars, totalTicketCount, cproc>>
     \/ /\ Zombies(Kids(p)) = {} /\ Kids(p) # {} /\ ~killed[p]
        /\ GoToSleep(c, p, p)
        /\ Goto(p, "wait")
        /\ UNCHANGED <<pid, first_pid, parent, killed, priority, ticketCount,
                       nextpid, arg>>
  /\ UNCHANGED <<schedAlg, RRLastProc, ctr, reg, load, panicked>>

\* The slots thread_join(t) looks at.  At most one, as pids are not reused.
Targets(p, t) ==
  {s \in Slot \ {p} : first_pid[s] = first_pid[p] /\ pid[s] = t}

\* Joining a thread group's leader returns with ptable.lock held.
JoinLeader(c, p, t) ==
  /\ \E s \in Targets(p, t) : pid[s] = first_pid[s]
  /\ lock' = c
  /\ Goto(p, "user")
  /\ arg' = [arg EXCEPT ![p] = 0]
  /\ UNCHANGED <<tableVars, totalTicketCount, cproc>>

JoinThread(c, p, t) ==
  /\ \A s \in Targets(p, t) : pid[s] # first_pid[s]
  /\ \/ \E s \in First(Zombies(Targets(p, t))) :
          /\ Reap(s)
          /\ lock' = NoCpu
          /\ Goto(p, "user")
          /\ arg' = [arg EXCEPT ![p] = 0]
     \/ /\ Zombies(Targets(p, t)) = {}
        /\ Targets(p, t) = {} \/ killed[p]
        /\ lock' = NoCpu
        /\ Goto(p, "user")
        /\ arg' = [arg EXCEPT ![p] = 0]
        /\ UNCHANGED <<tableVars, totalTicketCount, cproc>>
     \/ /\ Zombies(Targets(p, t)) = {} /\ Targets(p, t) # {} /\ ~killed[p]
        /\ GoToSleep(c, p, p)
        /\ Goto(p, "join")
        /\ arg' = [arg EXCEPT ![p] = t]
        /\ UNCHANGED <<pid, first_pid, parent, killed, priority, ticketCount,
                       nextpid>>

\* thread_join of one's own id returns at once: that call is SysReturn.
ThreadJoin(c, p, t) ==
  /\ p # InitProc
  /\ Scanning(c, p, "join")
  /\ pc[p] = "join" => t = arg[p]
  /\ t # pid[p]
  /\ JoinLeader(c, p, t) \/ JoinThread(c, p, t)
  /\ UNCHANGED <<schedAlg, RRLastProc, ctr, reg, load, panicked>>

-----------------------------------------------------------------------------
(* kill(): the first slot with that pid, whatever its state.                *)
KillSlot(d) == First({s \in Slot : pid[s] = d})

\* Mutant: kill() leaves a sleeping victim asleep.
KillWakesNobody(s) == {}

\* The victim is woken if it sleeps.
KillWakes(s) == {t \in {s} : state[t] = "SLEEPING"}

Kill(c, p, d) ==
  /\ p # InitProc
  /\ At(c, p, "sys") /\ Free
  /\ \/ \E s \in KillSlot(d) :
          /\ killed' = [killed EXCEPT ![s] = TRUE]
          /\ state' = Wake(KillWakes(s))
          /\ totalTicketCount' = totalTicketCount + SumTickets(KillWakes(s))
          /\ Goto(p, IF KillWakes(s) = {} THEN "user" ELSE "resched")
     \/ /\ KillSlot(d) = {}
        /\ Goto(p, "user")
        /\ UNCHANGED <<killed, state, totalTicketCount>>
  /\ UNCHANGED <<pid, first_pid, parent, chan, priority, ticketCount,
                 nextpid, lock, cpuVars, arg, reg, load, panicked>>

-----------------------------------------------------------------------------
(* set_priority(), set_ticketCount() and change_policy().                   *)

\* Out of 1..6 means 5.
SetPriority(c, p, prio) ==
  /\ p # InitProc
  /\ At(c, p, "sys")
  /\ priority' = [priority EXCEPT ![p] = IF prio \in 1..6 THEN prio ELSE 5]
  /\ Goto(p, "user")
  /\ UNCHANGED <<state, pid, first_pid, parent, chan, killed, ticketCount,
                 nextpid, totalTicketCount, lock, cpuVars, arg, reg, load,
                 panicked>>

\* totalTicketCount is loaded and the difference added to it in a register ...
LoadTickets(c, p, n) ==
  /\ p # InitProc
  /\ At(c, p, "sys")
  /\ arg' = [arg EXCEPT ![p] = n]
  /\ load' = [load EXCEPT ![p] = totalTicketCount + n - ticketCount[p]]
  /\ Goto(p, "tickets")
  /\ UNCHANGED <<tableVars, totalTicketCount, lock, cpuVars, reg, panicked>>

\* ... and stored, without ptable.lock.  (An update under the lock that another CPU
\* has begun before this store and ends after it loses this one instead: the total
\* is then as wrong as with the steps the other way round.)
StoreTickets(c, p) ==
  /\ At(c, p, "tickets")
  /\ totalTicketCount' = load[p]
  /\ ticketCount' = [ticketCount EXCEPT ![p] = arg[p]]
  /\ arg' = [arg EXCEPT ![p] = 0]
  /\ load' = [load EXCEPT ![p] = 0]
  /\ Goto(p, "user")
  /\ UNCHANGED <<state, pid, first_pid, parent, chan, killed, priority,
                 nextpid, lock, cpuVars, reg, panicked>>

ChangePolicy(c, p, policy) ==
  /\ p # InitProc
  /\ At(c, p, "sys")
  /\ arg' = [arg EXCEPT ![p] = policy]
  /\ reg' = [reg EXCEPT ![p] = 0]
  /\ Goto(p, "policy")
  /\ UNCHANGED <<tableVars, totalTicketCount, lock, cpuVars, load, panicked>>

\* One iteration of its loop over the CPUs: reg[p] is the loop's index.
StorePolicy(c, p) ==
  /\ At(c, p, "policy")
  /\ schedAlg' = [schedAlg EXCEPT ![reg[p]] = arg[p]]
  /\ \/ /\ reg[p] + 1 < NCPU
        /\ reg' = [reg EXCEPT ![p] = reg[p] + 1]
        /\ UNCHANGED <<pc, arg>>
     \/ /\ reg[p] + 1 = NCPU
        /\ reg' = [reg EXCEPT ![p] = 0]
        /\ arg' = [arg EXCEPT ![p] = 0]
        /\ Goto(p, "user")
  /\ UNCHANGED <<tableVars, totalTicketCount, lock, cproc, RRLastProc, ctr,
                 load, panicked>>

-----------------------------------------------------------------------------
\* A step of the system call that p is in.
SysStep(c, p) ==
  \/ SysReturn(c, p) \/ SysExit(c, p)
  \/ \E ch \in Chans : Sleep(c, p, ch)
  \/ \E l \in {"fork", "thread"} : AllocProc(c, p, l)
  \/ AllocFails(c, p) \/ FillFork(c, p) \/ FillThread(c, p) \/ Publish(c, p)
  \/ Resched(c, p) \/ Yield(c, p)
  \/ Exit(c, p)
  \/ Wait(c, p)
  \/ \E t \in JoinArgs : ThreadJoin(c, p, t)
  \/ \E d \in KillArgs : Kill(c, p, d)
  \/ \E prio \in Priorities : SetPriority(c, p, prio)
  \/ \E n \in TicketArgs : LoadTickets(c, p, n)
  \/ StoreTickets(c, p)
  \/ \E policy \in Policies : ChangePolicy(c, p, policy)
  \/ StorePolicy(c, p)

Next ==
  \/ \E c \in CPU : Scheduler(c) \/ Timer(c) \/ AcquirePanic(c) \/ InitExit(c)
  \/ \E c \in CPU, p \in Slot :
       Enter(c, p) \/ KilledExit(c, p) \/ Fault(c, p) \/ SysStep(c, p)
  \/ \E ch \in Chans : Wakeup(ch)

Spec == Init /\ [][Next]_vars

\* The clock ticks and every CPU keeps scheduling.  A time slice is far longer
\* than a step of the kernel, so a process that gets the CPU again and again
\* gets through the system call it is in, and to the test of p->killed.  init.c
\* makes its next call; other programs may compute for ever.
Fairness ==
  /\ \A c \in CPU : WF_vars(Scheduler(c))
  /\ \A c \in CPU : WF_vars(Timer(c))
  /\ \A p \in Slot :
       SF_vars(\E c \in CPU : SysStep(c, p) \/ KilledExit(c, p))
  /\ SF_vars(\E c \in CPU : Enter(c, InitProc))

FairSpec == Spec /\ Fairness

-----------------------------------------------------------------------------
(* Properties.                                                              *)

\* RUNNING and c->proc agree, and no process runs on two CPUs, although
\* scheduler(), sched() and the wakeups change them from different threads.
RunningOnOneCpu ==
  /\ \A s \in Slot : state[s] = "RUNNING" <=> \E c \in CPU : cproc[c] = s
  /\ \A c, d \in CPU : cproc[c] = cproc[d] /\ cproc[c] # NoProc => c = d

Live(s) == state[s] \in {"SLEEPING", "RUNNABLE", "RUNNING"}

\* Two slots in use never carry the same pid, whatever the interleaving of
\* allocproc, its failure paths and reaping.
PidsUnique ==
  \A s, t \in Slot :
    state[s] # "UNUSED" /\ state[t] # "UNUSED" /\ pid[s] = pid[t] => s = t

\* Every published process but the first has a parent that has not exited:
\* exit() hands over its children before it becomes a zombie.
ParentAlive ==
  \A s \in Slot \ {InitProc} :
    Live(s) \/ state[s] = "ZOMBIE" => parent[s] \in Slot /\ Live(parent[s])

\* No lost wakeup in wait(): a process asleep in it has a child to wait for,
\* none of its children is already a zombie, and it has not been killed.
WaiterNotStranded ==
  \A s \in Slot :
    state[s] = "SLEEPING" /\ pc[s] = "wait" =>
      /\ Kids(s) # {}
      /\ Zombies(Kids(s)) = {}
      /\ ~killed[s]

\* The same for thread_join(): its target is there and has not exited.
JoinerNotStranded ==
  \A s \in Slot :
    state[s] = "SLEEPING" /\ pc[s] = "join" =>
      /\ Targets(s, arg[s]) # {}
      /\ Zombies(Targets(s, arg[s])) = {}
      /\ ~killed[s]

\* It holds for a thread that has not been handed over to the first process:
\* exit() wakes every other thread of the group.
JoinerNotStrandedElsewhere ==
  \A s \in Slot :
    state[s] = "SLEEPING" /\ pc[s] = "join" /\ parent[s] # InitProc =>
      /\ Targets(s, arg[s]) # {}
      /\ Zombies(Targets(s, arg[s])) = {}
      /\ ~killed[s]

\* How far totalTicketCount is from the tickets of the RUNNABLE and RUNNING
\* processes, among which the lottery draws
Drift == totalTicketCount - SumTickets({s \in Slot : state[s] \in {"RUNNABLE", "RUNNING"}})

\* set_ticketCount() stores a sum whose first term another process has changed.
StoresStale ==
  \E c \in CPU, p \in Slot :
    StoreTickets(c, p) /\ load[p] # totalTicketCount + arg[p] - ticketCount[p]

\* totalTicketCount starts as the tickets of the RUNNABLE and RUNNING processes, and
\* every path that changes either of them keeps the two together: creation, sleep,
\* the wakeups of exits, ticks and kills, exit and reaping, and set_ticketCount()
\* itself unless the total has changed between its load and its store, which it
\* makes without ptable.lock.  Nothing else makes the total drift.
TicketsExactElsewhere ==
  /\ Drift = 0
  /\ [][Drift' = Drift \/ StoresStale]_vars

\* The countdown of a running process never reaches zero outside the timer
\* interrupt, where the unsigned decrement would wrap and never yield.
SliceInRange ==
  \A c \in CPU : cproc[c] # NoProc => ctr[c] # 0

\* Nobody returns to user mode with ptable.lock held.
LockNotHeldInUser ==
  \A c \in CPU : lock = c => cproc[c] # NoProc /\ pc[cproc[c]] \in {"wait", "join"}

\* Policies 2 and 3 switch to a process of the best priority there is.
PriorityRespected ==
  [][\A c \in CPU :
       cproc[c] = NoProc /\ cproc'[c] # NoProc /\ schedAlg[c] \in {2, 3} =>
         \A s \in Runnable : priority[cproc'[c]] <= priority[s]]_vars

\* They do whenever the process that ran last was not in the last slot.
PriorityRespectedElsewhere ==
  [][\A c \in CPU :
       /\ cproc[c] = NoProc /\ cproc'[c] # NoProc /\ schedAlg[c] \in {2, 3}
       /\ RRLastProc[c] # NPROC-1
       => \A s \in Runnable : priority[cproc'[c]] <= priority[s]]_vars

\* Round robin starves nobody: a RUNNABLE process is eventually dispatched (or
\* the bound on pids is reached, where the first process can no longer fork).
RunnableRuns ==
  \A s \in Slot :
    state[s] = "RUNNABLE" ~> state[s] # "RUNNABLE" \/ nextpid > MaxPid \/ panicked

\* A zombie child is eventually reported to a parent blocked in wait().
WaitReturns ==
  \A s \in Slot :
    pc[s] = "wait" /\ Zombies(Kids(s)) # {} ~>
      pc[s] # "wait" \/ nextpid > MaxPid \/ panicked

\* kill() ends its victim: once it returns to user mode it exits.
KilledExits ==
  \A s \in Slot \ {InitProc} :
    killed[s] /\ Live(s) ~> ~Live(s) \/ nextpid > MaxPid \/ panicked

-----------------------------------------------------------------------------
(* The inductive invariant behind the safety properties.                    *)

\* A slot has a kernel thread exactly while it is SLEEPING, RUNNABLE, RUNNING.
ThreadsLive == \A s \in Slot : pc[s] # "none" <=> Live(s)

\* The slot a creation works on is an EMBRYO nobody else works on, younger than
\* its creator; it has no parent before it is filled in, and the right one after.
EmbryosOwned ==
  \A p \in Slot : pc[p] \in {"fork", "thread", "publish"} =>
    /\ reg[p] \in Slot /\ state[reg[p]] = "EMBRYO" /\ pid[p] < pid[reg[p]]
    /\ parent[reg[p]] = IF pc[p] = "publish" THEN p ELSE NoProc
    /\ \A q \in Slot \ {p} :
         pc[q] \in {"fork", "thread", "publish"} => reg[q] # reg[p]

\* The local variables of set_ticketCount and change_policy.
LocalsInRange ==
  \A p \in Slot :
    /\ pc[p] = "tickets" => arg[p] \in Nat
    /\ pc[p] = "policy" => reg[p] \in CPU /\ arg[p] \in 0..4

\* Pids grow: every slot in use has one, below the next to be given.
PidsBounded ==
  /\ nextpid > 1
  /\ \A s \in Slot : /\ pid[s] < nextpid
                     /\ state[s] # "UNUSED" => pid[s] > 0 /\ priority[s] > 0

\* A parent is older than its children, so parenthood has no cycle.  A free
\* slot has no parent.
ParentsOlder ==
  /\ pid[InitProc] = 1 /\ parent[InitProc] = NoProc /\ Live(InitProc)
  /\ \A s \in Slot \ {InitProc} :
       /\ state[s] # "UNUSED" => pid[s] > 1
       /\ Live(s) \/ state[s] = "ZOMBIE" => pid[parent[s]] < pid[s]
       /\ state[s] = "UNUSED" => parent[s] = NoProc

\* A process asleep in wait or thread_join sleeps on itself.
WaitersOnSelf ==
  \A s \in Slot : state[s] = "SLEEPING" /\ pc[s] \in {"wait", "join"} => chan[s] = s

\* The inductive invariant of the process table: what the critical sections of
\* proc.c rely on, on entry, and restore.
ProcInv ==
  /\ TypeOK /\ RunningOnOneCpu /\ SliceInRange /\ PidsUnique
  /\ ThreadsLive /\ EmbryosOwned /\ LocalsInRange /\ PidsBounded
  /\ ParentAlive /\ ParentsOlder /\ WaitersOnSelf /\ WaiterNotStranded

\* Every published process but the first belongs to a thread group.  A slot that
\* is free, or allocated and not yet filled in, belongs to none, so that
\* thread_join() cannot meet it; the first process creates and joins no threads.
GroupsSet ==
  /\ pc[InitProc] \notin {"thread", "join"}
  /\ \A s \in Slot \ {InitProc} :
       /\ Live(s) \/ state[s] = "ZOMBIE" => first_pid[s] # 0
       /\ state[s] = "UNUSED" => first_pid[s] = 0
  /\ \A p \in Slot :
       /\ pc[p] \in {"fork", "thread"} => first_pid[reg[p]] = 0
       /\ pc[p] = "publish" => first_pid[reg[p]] # 0

\* The inductive invariant of thread_join(): with what the process table relies
\* on, its callers find only threads of their group.
JoinInv == ProcInv /\ GroupsSet /\ JoinerNotStrandedElsewhere
=============================================================================
