------------------------------ MODULE SleepLock ------------------------------
(***************************************************************************)
(* Sleep locks (sleeplock.c) over the spin lock lk->lk and over sleep() and *)
(* wakeup() of proc.c with ptable.lock.  The steps are the critical         *)
(* sections of the two spin locks, so that a release may fall between a     *)
(* waiter's test of lk->locked and the moment it is asleep.                 *)
(***************************************************************************)
EXTENDS Naturals, FiniteSets

CONSTANTS Proc, Nobody

ASSUME ProcAssumption == Nobody \notin Proc

VARIABLES
  lk,      \* holder of the spin lock lk->lk
  ptable,  \* holder of ptable.lock
  locked,  \* lk->locked
  pid,     \* lk->pid: who recorded itself as the holder
  pc       \* where each process is

vars == <<lk, ptable, locked, pid, pc>>

Places == {"out", "test", "sleeping", "asleep", "woken", "in", "waking"}

TypeOK ==
  /\ lk \in Proc \cup {Nobody} /\ ptable \in Proc \cup {Nobody}
  /\ locked \in BOOLEAN /\ pid \in Proc \cup {Nobody}
  /\ pc \in [Proc -> Places]

\* initsleeplock()
Init ==
  /\ lk = Nobody /\ ptable = Nobody /\ locked = FALSE /\ pid = Nobody
  /\ pc = [p \in Proc |-> "out"]

Goto(p, l) == pc' = [pc EXCEPT ![p] = l]

\* acquire(&lk->lk) at the top of acquiresleep(), and again at the end of sleep().
AcquireSpin(p) ==
  /\ pc[p] \in {"out", "woken"} /\ lk = Nobody
  /\ lk' = p /\ Goto(p, "test")
  /\ UNCHANGED <<ptable, locked, pid>>

\* The loop of acquiresleep() finds the lock free and takes it.
TakeLockUntested(p) ==
  /\ pc[p] = "test"
  /\ locked' = TRUE /\ pid' = p /\ lk' = Nobody
  /\ Goto(p, "in")
  /\ UNCHANGED ptable

TakeLock(p) ==
  /\ pc[p] = "test" /\ ~locked
  /\ locked' = TRUE /\ pid' = p /\ lk' = Nobody
  /\ Goto(p, "in")
  /\ UNCHANGED ptable

\* It finds it taken: sleep() takes ptable.lock before it lets lk->lk go ...
BeginSleepLate(p) ==
  /\ pc[p] = "test" /\ locked
  /\ ptable' = ptable /\ lk' = Nobody
  /\ Goto(p, "sleeping")
  /\ UNCHANGED <<locked, pid>>

BeginSleep(p) ==
  /\ pc[p] = "test" /\ locked /\ ptable = Nobody
  /\ ptable' = p /\ lk' = Nobody
  /\ Goto(p, "sleeping")
  /\ UNCHANGED <<locked, pid>>

\* ... and gives ptable.lock up only once it is asleep.
FallAsleepHolding(p) ==
  /\ pc[p] = "sleeping"
  /\ Goto(p, "asleep")
  /\ UNCHANGED <<lk, ptable, locked, pid>>

FallAsleep(p) ==
  /\ pc[p] = "sleeping"
  /\ ptable' = Nobody
  /\ Goto(p, "asleep")
  /\ UNCHANGED <<lk, locked, pid>>

\* releasesleep(): acquire(&lk->lk) and clear the lock ...
Release(p) ==
  /\ pc[p] = "in" /\ lk = Nobody
  /\ lk' = p /\ locked' = FALSE /\ pid' = Nobody
  /\ Goto(p, "waking")
  /\ UNCHANGED ptable

\* ... then wakeup(lk), under ptable.lock, and release(&lk->lk).
Wakeup(p) ==
  /\ pc[p] = "waking" /\ ptable = Nobody
  /\ pc' = [q \in Proc |-> IF q = p THEN "out"
                           ELSE IF pc[q] = "asleep" THEN "woken" ELSE pc[q]]
  /\ lk' = Nobody
  /\ UNCHANGED <<ptable, locked, pid>>

\* kill() makes a sleeping process runnable; acquiresleep() tests the lock again.
Kill(p) ==
  /\ pc[p] = "asleep" /\ ptable = Nobody
  /\ Goto(p, "woken")
  /\ UNCHANGED <<lk, ptable, locked, pid>>

\* holdingsleep(), as the holder or anybody else calls it.
HoldingSleep(p) == locked /\ pid = p

Step(p) ==
  \/ AcquireSpin(p) \/ TakeLock(p) \/ BeginSleep(p) \/ FallAsleep(p)
  \/ Release(p) \/ Wakeup(p)

Next == \E p \in Proc : Step(p) \/ Kill(p)

Spec == Init /\ [][Next]_vars

\* A process in the kernel is scheduled again and gets the spin lock it wants,
\* and it leaves its critical section.
Runs(p) ==
  \/ (pc[p] = "woken" /\ AcquireSpin(p)) \/ TakeLock(p) \/ BeginSleep(p) \/ FallAsleep(p)
  \/ Release(p) \/ Wakeup(p)

Fairness == \A p \in Proc : SF_vars(Runs(p))

FairSpec == Spec /\ Fairness
-----------------------------------------------------------------------------
(***************************************************************************)
(* Properties                                                               *)
(***************************************************************************)

\* acquiresleep() and releasesleep() behave as a lock whose holder is the
\* process that holdingsleep() answers to: the steps in between are invisible.
Lock == INSTANCE Mutex WITH holder <- IF locked THEN pid ELSE Nobody

SleepLockIsMutex == Lock!Spec

\* Whoever is asleep in acquiresleep(), or about to be, waits for a holder that
\* has not yet called wakeup(): no wakeup is lost between the test of
\* lk->locked and the sleep.
SleeperNotStranded ==
  \A p \in Proc : pc[p] \in {"sleeping", "asleep"} =>
    \E q \in Proc : pc[q] \in {"in", "waking"}

\* A process that waits for the lock gets it or sees another one get it: the
\* two spin locks, the sleep and the wakeup never leave everybody waiting.
LockMovesOn ==
  \A p \in Proc : pc[p] = "asleep" ~> (\E q \in Proc : pc[q] = "in" /\ pc[p] # "asleep")
-----------------------------------------------------------------------------
(***************************************************************************)
(* The inductive invariant behind the safety properties: each of the three  *)
(* locks is held by exactly those whose place in the code says so.          *)
(***************************************************************************)
SpinLocksHeld ==
  \A p \in Proc : /\ lk = p <=> pc[p] \in {"test", "waking"}
                  /\ ptable = p <=> pc[p] = "sleeping"

SleepLockHeld ==
  /\ \A p \in Proc : pc[p] = "in" <=> HoldingSleep(p)
  /\ locked <=> pid # Nobody

\* The inductive invariant of acquiresleep() and releasesleep(): the spin locks,
\* the sleep lock and the sleepers agree with where every process is.
LockInv == TypeOK /\ SpinLocksHeld /\ SleepLockHeld /\ SleeperNotStranded
==============================================================================
