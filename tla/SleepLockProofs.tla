--------------------------- MODULE SleepLockProofs ---------------------------
(***************************************************************************)
(* Sleep locks exclude each other and strand no sleeper, whatever the       *)
(* number of processes and however they are scheduled.  The argument rests  *)
(* on LockInv: each lock is held by exactly the processes whose place in    *)
(* the code says so, and whoever sleeps does so behind a process that has   *)
(* still to call wakeup().                                                  *)
(***************************************************************************)
EXTENDS SleepLock, TLAPS

\* Every step of acquiresleep(), releasesleep(), sleep() and kill() keeps the
\* types.
LEMMA TypeStep == TypeOK /\ [Next]_vars => TypeOK'
<1> SUFFICES ASSUME TypeOK, [Next]_vars PROVE TypeOK'
  OBVIOUS
<1>1. CASE UNCHANGED vars
  BY <1>1 DEF TypeOK, vars
<1>2. CASE Next
  <2> PICK p \in Proc : Step(p) \/ Kill(p)
    BY <1>2 DEF Next
  <2>1. CASE AcquireSpin(p)
    BY <2>1 DEF TypeOK, AcquireSpin, Goto, Places
  <2>2. CASE TakeLock(p)
    BY <2>2 DEF TypeOK, TakeLock, Goto, Places
  <2>3. CASE BeginSleep(p)
    BY <2>3 DEF TypeOK, BeginSleep, Goto, Places
  <2>4. CASE FallAsleep(p)
    BY <2>4 DEF TypeOK, FallAsleep, Goto, Places
  <2>5. CASE Release(p)
    BY <2>5 DEF TypeOK, Release, Goto, Places
  <2>6. CASE Wakeup(p)
    BY <2>6 DEF TypeOK, Wakeup, Places
  <2>7. CASE Kill(p)
    BY <2>7 DEF TypeOK, Kill, Goto, Places
  <2> QED
    BY <2>1, <2>2, <2>3, <2>4, <2>5, <2>6, <2>7 DEF Step
<1> QED
  BY <1>1, <1>2

\* The spin lock lk->lk and ptable.lock are held exactly inside their critical
\* sections: acquire() waits until they are free.
LEMMA SpinLocksStep == LockInv /\ [Next]_vars => SpinLocksHeld'
<1> SUFFICES ASSUME LockInv, [Next]_vars PROVE SpinLocksHeld'
  OBVIOUS
<1> USE ProcAssumption
<1>0. TypeOK /\ SpinLocksHeld
  BY DEF LockInv
<1>1. CASE UNCHANGED vars
  BY <1>0, <1>1 DEF SpinLocksHeld, vars
<1>2. CASE Next
  <2> PICK p \in Proc : Step(p) \/ Kill(p)
    BY <1>2 DEF Next
  <2> SUFFICES ASSUME NEW q \in Proc
               PROVE  /\ lk' = q <=> pc'[q] \in {"test", "waking"}
                      /\ ptable' = q <=> pc'[q] = "sleeping"
    BY DEF SpinLocksHeld
  <2>0. /\ lk = q <=> pc[q] \in {"test", "waking"}
        /\ ptable = q <=> pc[q] = "sleeping"
        /\ lk = p <=> pc[p] \in {"test", "waking"}
        /\ ptable = p <=> pc[p] = "sleeping"
        /\ q # Nobody /\ p # Nobody
    BY <1>0 DEF SpinLocksHeld
  <2>1. CASE AcquireSpin(p)
    BY <1>0, <2>0, <2>1 DEF TypeOK, AcquireSpin, Goto
  <2>2. CASE TakeLock(p)
    BY <1>0, <2>0, <2>2 DEF TypeOK, TakeLock, Goto
  <2>3. CASE BeginSleep(p)
    BY <1>0, <2>0, <2>3 DEF TypeOK, BeginSleep, Goto
  <2>4. CASE FallAsleep(p)
    BY <1>0, <2>0, <2>4 DEF TypeOK, FallAsleep, Goto
  <2>5. CASE Release(p)
    BY <1>0, <2>0, <2>5 DEF TypeOK, Release, Goto
  <2>6. CASE Wakeup(p)
    BY <1>0, <2>0, <2>6 DEF TypeOK, Wakeup
  <2>7. CASE Kill(p)
    BY <1>0, <2>0, <2>7 DEF TypeOK, Kill, Goto
  <2> QED
    BY <2>1, <2>2, <2>3, <2>4, <2>5, <2>6, <2>7 DEF Step
<1> QED
  BY <1>1, <1>2

\* lk->locked and lk->pid name the process between its acquiresleep() and its
\* releasesleep(), and no other one.
LEMMA SleepLockStep == LockInv /\ [Next]_vars => SleepLockHeld'
<1> SUFFICES ASSUME LockInv, [Next]_vars PROVE SleepLockHeld'
  OBVIOUS
<1> USE ProcAssumption
<1>0. TypeOK /\ SleepLockHeld
  BY DEF LockInv
<1>1. CASE UNCHANGED vars
  BY <1>0, <1>1 DEF SleepLockHeld, HoldingSleep, vars
<1>2. CASE Next
  <2> PICK p \in Proc : Step(p) \/ Kill(p)
    BY <1>2 DEF Next
  <2>0. CASE UNCHANGED <<locked, pid>> /\ \A q \in Proc : pc'[q] = "in" <=> pc[q] = "in"
    BY <1>0, <2>0 DEF SleepLockHeld, HoldingSleep
  <2>1. CASE AcquireSpin(p)
    BY <1>0, <2>0, <2>1 DEF TypeOK, AcquireSpin, Goto
  <2>2. CASE TakeLock(p)
    BY <1>0, <2>2 DEF TypeOK, TakeLock, Goto, SleepLockHeld, HoldingSleep
  <2>3. CASE BeginSleep(p)
    BY <1>0, <2>0, <2>3 DEF TypeOK, BeginSleep, Goto
  <2>4. CASE FallAsleep(p)
    BY <1>0, <2>0, <2>4 DEF TypeOK, FallAsleep, Goto
  <2>5. CASE Release(p)
    BY <1>0, <2>5 DEF TypeOK, Release, Goto, SleepLockHeld, HoldingSleep
  <2>6. CASE Wakeup(p)
    BY <1>0, <2>0, <2>6 DEF TypeOK, Wakeup
  <2>7. CASE Kill(p)
    BY <1>0, <2>0, <2>7 DEF TypeOK, Kill, Goto
  <2> QED
    BY <2>1, <2>2, <2>3, <2>4, <2>5, <2>6, <2>7 DEF Step
<1> QED
  BY <1>1, <1>2

\* A sleeper keeps somebody who will wake it: the holder stays until
\* releasesleep(), and whoever is inside releasesleep() wakes every sleeper,
\* because nobody is between its test and its sleep while ptable.lock is free.
LEMMA SleeperStep == LockInv /\ [Next]_vars => SleeperNotStranded'
<1> SUFFICES ASSUME LockInv, [Next]_vars PROVE SleeperNotStranded'
  OBVIOUS
<1> USE ProcAssumption
<1>0. TypeOK /\ SpinLocksHeld /\ SleepLockHeld /\ SleeperNotStranded
  BY DEF LockInv
<1>1. CASE UNCHANGED vars
  BY <1>0, <1>1 DEF SleeperNotStranded, vars
<1>2. CASE Next
  <2> PICK p \in Proc : Step(p) \/ Kill(p)
    BY <1>2 DEF Next
  <2> DEFINE Sleeps(q) == pc[q] \in {"sleeping", "asleep"}
             Wakes(q) == pc[q] \in {"in", "waking"}
  <2>0. CASE \A q \in Proc : (Sleeps(q)' => Sleeps(q)) /\ (Wakes(q) => Wakes(q)')
    BY <1>0, <2>0 DEF SleeperNotStranded
  <2>1. CASE AcquireSpin(p)
    BY <1>0, <2>0, <2>1 DEF TypeOK, AcquireSpin, Goto
  <2>2. CASE TakeLock(p)
    BY <1>0, <2>0, <2>2 DEF TypeOK, TakeLock, Goto
  <2>3. CASE BeginSleep(p)
    <3>1. pid \in Proc /\ pc[pid] = "in"
      BY <1>0, <2>3 DEF TypeOK, BeginSleep, SleepLockHeld, HoldingSleep
    <3>2. pc'[pid] = "in"
      BY <1>0, <2>3, <3>1 DEF TypeOK, BeginSleep, Goto
    <3> QED
      BY <3>1, <3>2 DEF SleeperNotStranded
  <2>4. CASE FallAsleep(p)
    BY <1>0, <2>0, <2>4 DEF TypeOK, FallAsleep, Goto
  <2>5. CASE Release(p)
    BY <1>0, <2>0, <2>5 DEF TypeOK, Release, Goto
  <2>6. CASE Wakeup(p)
    <3>1. \A q \in Proc : pc[q] # "sleeping"
      BY <1>0, <2>6 DEF Wakeup, SpinLocksHeld
    <3> QED
      BY <1>0, <2>6, <3>1 DEF TypeOK, Wakeup, SleeperNotStranded
  <2>7. CASE Kill(p)
    BY <1>0, <2>0, <2>7 DEF TypeOK, Kill, Goto
  <2> QED
    BY <2>1, <2>2, <2>3, <2>4, <2>5, <2>6, <2>7 DEF Step
<1> QED
  BY <1>1, <1>2

\* initsleeplock() leaves the lock free and nobody in the code.
LEMMA LockInit == Init => LockInv
BY ProcAssumption DEF Init, LockInv, TypeOK, SpinLocksHeld, SleepLockHeld, SleeperNotStranded,
   HoldingSleep, Places

\* In every run of acquiresleep() and releasesleep() by any number of
\* processes, with kill() of sleepers at any moment, the spin locks, the sleep
\* lock and the sleepers agree with where the processes are.
THEOREM LockInvariant == Spec => []LockInv
<1>1. LockInv /\ [Next]_vars => LockInv'
  BY TypeStep, SpinLocksStep, SleepLockStep, SleeperStep DEF LockInv
<1> QED
  BY LockInit, <1>1, PTL DEF Spec

\* No wakeup is lost between the test of lk->locked in acquiresleep() and the
\* sleep: whoever sleeps has a holder in front of it that will call wakeup().
THEOREM NoSleeperStranded == Spec => []SleeperNotStranded
<1>1. LockInv => SleeperNotStranded
  BY DEF LockInv
<1> QED
  BY LockInvariant, <1>1, PTL

\* Sleep locks implement a mutex whose holder is the process holdingsleep()
\* answers to: acquiresleep() passes it to one process, only that process's
\* releasesleep() gives it up, and no other step is visible.
THEOREM SleepLockRefinement == Spec => SleepLockIsMutex
<1>1. Init => Lock!Init
  BY DEF Init, Lock!Init
<1>2. LockInv /\ [Next]_vars => [Lock!Next]_(IF locked THEN pid ELSE Nobody)
  <2> SUFFICES ASSUME LockInv, [Next]_vars,
                      ~UNCHANGED (IF locked THEN pid ELSE Nobody)
               PROVE  Lock!Next
    OBVIOUS
  <2> USE ProcAssumption
  <2>0. SleepLockHeld
    BY DEF LockInv
  <2>1. Next /\ ~UNCHANGED <<locked, pid>>
    BY DEF vars
  <2> PICK p \in Proc : TakeLock(p) \/ Release(p)
    BY <2>1 DEF Next, Step, AcquireSpin, BeginSleep, FallAsleep, Wakeup, Kill
  <2>2. CASE TakeLock(p)
    <3>1. Lock!Acquire(p)
      BY <2>2 DEF TakeLock, Lock!Acquire
    <3> QED
      BY <3>1 DEF Lock!Next
  <2>3. CASE Release(p)
    <3>1. Lock!Release(p)
      BY <2>0, <2>3 DEF Release, Lock!Release, SleepLockHeld, HoldingSleep
    <3> QED
      BY <3>1 DEF Lock!Next
  <2> QED
    BY <2>2, <2>3
<1> QED
  BY <1>1, <1>2, LockInvariant, PTL DEF Spec, SleepLockIsMutex, Lock!Spec
==============================================================================
