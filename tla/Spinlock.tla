------------------------------- MODULE Spinlock -------------------------------
(***************************************************************************)
(* Spin locks and the interrupt flag (spinlock.c), under kernel threads     *)
(* that are interrupted, give up their CPU inside sched() and go on on      *)
(* another one.                                                             *)
(*                                                                          *)
(* What a kernel thread still has to do is a stack of scripts: the system   *)
(* call, and on top of it the interrupt that came meanwhile.  The scripts   *)
(* are the lock operations of the code: "D" is a device's lock (idelock,    *)
(* tickslock, cons.lock), "P" is ptable.lock.                               *)
(***************************************************************************)
EXTENDS Naturals, Sequences, FiniteSets

CONSTANTS Cpu, Thread

VARIABLES
  eflags,   \* whether the CPU takes interrupts (FL_IF)
  ncli, intena,
  holder,   \* lk->locked and lk->cpu of each lock
  cur,      \* what the CPU runs: a thread, or its scheduler
  todo,     \* scripts of each thread and scheduler, the top one first
  saved,    \* the local intena of a thread inside sched()
  state,    \* p->state of each thread
  panicked

vars == <<eflags, ncli, intena, holder, cur, todo, saved, state, panicked>>

Lock == {"D", "P"}
Nobody == "nobody"
Scheduler(c) == <<"scheduler", c>>
Context == Thread \cup {Scheduler(c) : c \in Cpu}

Instr(o, l) == [op |-> o, lock |-> l]
Acquire(l) == Instr("acquire", l)
Release(l) == Instr("release", l)
Sched(s) == Instr("sched", s)   \* sched(), with the state the caller has set

\* A system call that uses a device, one that sleeps for it, one that
\* sleeps with ptable.lock (wait()), and yield().  Every script releases what it
\* acquires; thread_join() of a leader does not (proc.c:402), which module Proc shows.
SyscallUse == <<Acquire("D"), Release("D")>>
SyscallSleep == <<Acquire("D"), Acquire("P"), Release("D"), Sched("sleeping"), Release("P"),
                  Acquire("D"), Release("D")>>
SyscallWait == <<Acquire("P"), Sched("sleeping"), Release("P")>>
Yield == <<Acquire("P"), Sched("runnable"), Release("P")>>
\* A device interrupt with its wakeup(), and the scheduler's round
DeviceIntr == <<Acquire("D"), Acquire("P"), Instr("wakeup", "P"), Release("P"), Release("D")>>
Iret == <<Instr("iret", "P")>>
\* The timer makes a thread yield, on CPU 0 after it has woken the sleepers.
TimerIntr == {Yield \o Iret, DeviceIntr \o Yield \o Iret}
Round == <<Acquire("P"), Instr("pick", "P"), Release("P")>>
\* A new thread: forkret(), then trapret's iret to user space
Forkret == <<Release("P"), Instr("iret", "user")>>

TypeOK ==
  /\ eflags \in [Cpu -> BOOLEAN] /\ ncli \in [Cpu -> Nat] /\ intena \in [Cpu -> BOOLEAN]
  /\ holder \in [Lock -> Cpu \cup {Nobody}]
  /\ cur \in [Cpu -> Context]
  /\ saved \in [Thread -> BOOLEAN]
  /\ state \in [Thread -> {"runnable", "running", "sleeping"}]
  /\ \A x \in Context : Len(todo[x]) <= 2

\* Threads start in forkret(), with ptable.lock held by the scheduler that
\* picks them; schedulers start with interrupts off (main()).
Init ==
  /\ eflags = [c \in Cpu |-> FALSE] /\ ncli = [c \in Cpu |-> 0]
  /\ intena = [c \in Cpu |-> FALSE]
  /\ holder = [l \in Lock |-> Nobody]
  /\ cur = [c \in Cpu |-> Scheduler(c)]
  /\ todo = [x \in Context |-> IF x \in Thread THEN <<Forkret>> ELSE <<>>]
  /\ saved = [t \in Thread |-> TRUE]
  /\ state = [t \in Thread |-> "runnable"]
  /\ panicked = FALSE

\* The next operation of what the CPU runs, and the script without it
Next1(c) == Head(Head(todo[cur[c]]))
At(c, o) == ~panicked /\ todo[cur[c]] # <<>> /\ Next1(c).op = o
Rest(s) == IF Len(Head(s)) = 1 THEN Tail(s) ELSE <<Tail(Head(s))>> \o Tail(s)
Done(c) == todo' = [todo EXCEPT ![cur[c]] = Rest(@)]
-----------------------------------------------------------------------------
(***************************************************************************)
(* pushcli(), popcli(), acquire(), release()                                *)
(***************************************************************************)
pushcli(c) ==
  /\ intena' = [intena EXCEPT ![c] = IF ncli[c] = 0 THEN eflags[c] ELSE @]
  /\ eflags' = [eflags EXCEPT ![c] = FALSE]
  /\ ncli' = [ncli EXCEPT ![c] = @ + 1]

popcli(c) ==
  /\ ncli' = [ncli EXCEPT ![c] = @ - 1]
  /\ eflags' = [eflags EXCEPT ![c] = (ncli[c] = 1 /\ intena[c])]
  /\ UNCHANGED intena

\* acquire() as far as the spinning ...
acquire(c) ==
  /\ At(c, "acquire")
  /\ pushcli(c)
  /\ panicked' = (holder[Next1(c).lock] = c)
  /\ todo' = [todo EXCEPT ![cur[c]][1][1].op = "spin"]
  /\ UNCHANGED <<holder, cur, saved, state>>

\* ... and the xchg that gets the lock
xchg(c) ==
  /\ At(c, "spin") /\ holder[Next1(c).lock] = Nobody
  /\ holder' = [holder EXCEPT ![Next1(c).lock] = c]
  /\ Done(c)
  /\ UNCHANGED <<eflags, ncli, intena, cur, saved, state, panicked>>

release(c) ==
  /\ At(c, "release")
  /\ panicked' = (holder[Next1(c).lock] # c \/ eflags[c] \/ ncli[c] = 0)
  /\ IF panicked' THEN UNCHANGED <<eflags, ncli, intena>> ELSE popcli(c)
  /\ holder' = [holder EXCEPT ![Next1(c).lock] = Nobody]
  /\ Done(c)
  /\ UNCHANGED <<cur, saved, state>>
-----------------------------------------------------------------------------
(***************************************************************************)
(* sched(), scheduler(), wakeup()                                           *)
(***************************************************************************)
sched(c) ==
  /\ At(c, "sched")
  /\ panicked' = (holder["P"] # c \/ ncli[c] # 1 \/ eflags[c])
  /\ saved' = [saved EXCEPT ![cur[c]] = intena[c]]
  /\ state' = [state EXCEPT ![cur[c]] = Next1(c).lock]
  /\ cur' = [cur EXCEPT ![c] = Scheduler(c)]
  /\ Done(c)
  /\ UNCHANGED <<eflags, ncli, intena, holder>>

Fresh(t) == todo[t] = <<Forkret>>

ResumeKeeps(c, t) == intena[c]

\* swtch() to a thread: sched() puts the thread's intena back, forkret() does not.
Resume(c, t) == IF Fresh(t) THEN intena[c] ELSE saved[t]

pick(c, t) ==
  /\ At(c, "pick") /\ state[t] = "runnable"
  /\ state' = [state EXCEPT ![t] = "running"]
  /\ cur' = [cur EXCEPT ![c] = t]
  /\ intena' = [intena EXCEPT ![c] = Resume(c, t)]
  /\ UNCHANGED <<eflags, ncli, holder, todo, saved, panicked>>

\* The loop over the process table ends.
picked(c) ==
  /\ At(c, "pick")
  /\ Done(c)
  /\ UNCHANGED <<eflags, ncli, intena, holder, cur, saved, state, panicked>>

wakeup(c) ==
  /\ At(c, "wakeup")
  /\ state' = [t \in Thread |-> IF state[t] = "sleeping" THEN "runnable" ELSE state[t]]
  /\ Done(c)
  /\ UNCHANGED <<eflags, ncli, intena, holder, cur, saved, panicked>>
-----------------------------------------------------------------------------
(***************************************************************************)
(* What starts a script: sti() and a round of the scheduler, a system call  *)
(* (a trap gate, which leaves the flag alone), an interrupt (an interrupt   *)
(* gate, which clears it, and iret, which sets it again)                    *)
(***************************************************************************)
Push(x, s) == todo' = [todo EXCEPT ![x] = <<s>> \o @]

Start(c) ==
  /\ ~panicked /\ todo[cur[c]] = <<>>
  /\ IF cur[c] = Scheduler(c)
     THEN eflags' = [eflags EXCEPT ![c] = TRUE] /\ Push(cur[c], Round)
     ELSE UNCHANGED eflags /\ \E s \in {SyscallUse, SyscallSleep, SyscallWait} : Push(cur[c], s)
  /\ UNCHANGED <<ncli, intena, holder, cur, saved, state, panicked>>

interrupt(c) ==
  /\ ~panicked /\ eflags[c]
  /\ eflags' = [eflags EXCEPT ![c] = FALSE]
  /\ \E s \in {DeviceIntr \o Iret} \cup (IF cur[c] \in Thread THEN TimerIntr ELSE {}) : Push(cur[c], s)
  /\ UNCHANGED <<ncli, intena, holder, cur, saved, state, panicked>>

iret(c) ==
  /\ At(c, "iret")
  /\ eflags' = [eflags EXCEPT ![c] = TRUE]
  /\ Done(c)
  /\ UNCHANGED <<ncli, intena, holder, cur, saved, state, panicked>>

Next ==
  \E c \in Cpu :
    \/ acquire(c) \/ xchg(c) \/ release(c)
    \/ sched(c) \/ (\E t \in Thread : pick(c, t)) \/ picked(c) \/ wakeup(c)
    \/ Start(c) \/ interrupt(c) \/ iret(c)

Spec == Init /\ [][Next]_vars
-----------------------------------------------------------------------------
(***************************************************************************)
(* Properties                                                               *)
(***************************************************************************)

\* None of the panics of acquire(), release(), popcli() and sched() happens:
\* no CPU waits for a lock it holds itself, no lock is released by a CPU that
\* does not hold it, and a thread enters sched() with ptable.lock alone.
NoPanic == ~panicked

Irets(x) == IF todo[x] = <<>> THEN {} ELSE {Head(todo[x])[i] : i \in 1 .. Len(Head(todo[x]))}
InHandler(x) == Instr("iret", "P") \in Irets(x)
InForkret(x) == Instr("iret", "user") \in Irets(x)

\* While a CPU holds a lock or spins for one it takes no interrupts; else it
\* takes them exactly when it is not inside an interrupt handler already,
\* although threads have been switched between CPUs inside sched().  Excused
\* are a scheduler before its sti(), and a thread between forkret(), which
\* does not restore intena, and its iret to user space.
InterruptsMatched ==
  \A c \in Cpu :
    IF ncli[c] > 0 THEN ~eflags[c]
    ELSE eflags[c] = ~InHandler(cur[c])
         \/ todo[Scheduler(c)] = <<>> \/ InForkret(cur[c])

\* ncli counts the locks the CPU holds and the one it spins for: the counts of
\* a thread that moves to another CPU inside sched() are not left behind.
NcliCounts ==
  \A c \in Cpu : ncli[c] = Cardinality({l \in Lock : holder[l] = c})
                           + (IF At(c, "spin") THEN 1 ELSE 0) \/ panicked

\* Some CPU can go on: the CPUs never all spin for locks that are held, although
\* a handler may want a lock that the thread it has interrupted was after.
SomeCpuMoves == \E c \in Cpu : At(c, "spin") => holder[Next1(c).lock] = Nobody
==============================================================================
