------------------------------ MODULE SchedPick ------------------------------
(***************************************************************************)
(* What one round of scheduler() selects, as sets with at most one slot.    *)
(* Module SchedLoops checks these definitions against the loops of proc.c.  *)
(***************************************************************************)
EXTENDS Integers, FiniteSets, FiniteSetsExt

CONSTANT NPROC  \* size of ptable.proc

ASSUME NPROCAssumption == NPROC \in Nat \ {0}

Slot == 0 .. NPROC-1  \* slot i of the array

\* What a loop from the start of the array meets first: the least of S, if any.
First(S) == {s \in S : \A t \in S : s <= t}

\* The clamp and the increment at the top of scheduler()'s loop, applied to
\* c->RRLastProc.  The increment comes after the clamp, so it can leave the
\* pointer at &ptable.proc[NPROC].
RRStart(last) ==
  LET r == IF last \in Slot THEN last ELSE 0
  IN  IF r > 0 THEN r + 1 ELSE r

\* Mutant: the search always starts at the beginning of the table.
RRPickFromZero(R, start) == First(R)

\* Policies 0 and 1: the first slot of R (the RUNNABLE ones) from start on.
RRPick(R, start) == First({s \in R : s >= start})

\* The iteration at which the loop of policies 2 and 3 looks at slot s.  From
\* start = NPROC it first looks past the array and never gets to the last slot.
ScanIndex(start, s) == IF start = NPROC THEN s + 1 ELSE (s - start) % NPROC

\* Mutant: the comparison is the wrong way round.
PriorityPickWorst(R, priority, start) ==
  {s \in R : ScanIndex(start, s) < NPROC /\ \A t \in R : priority[s] >= priority[t]}

\* Policies 2 and 3: the least priority value, the earliest in scan order.
PriorityPick(R, priority, start) ==
  LET S == {s \in R : ScanIndex(start, s) < NPROC}
  IN  {s \in S : \A t \in S :
         \/ priority[s] < priority[t]
         \/ /\ priority[s] = priority[t]
            /\ ScanIndex(start, s) <= ScanIndex(start, t)}

\* The tickets of a set of slots.
TicketSum(ticketCount, S) == MapThenSumSet(LAMBDA s : ticketCount[s], S)

\* Policy 4: the slot in whose interval of tickets the winner falls.
LotteryPick(R, ticketCount, winner) ==
  {s \in R :
     /\ TicketSum(ticketCount, {t \in R : t < s}) <= winner
     /\ winner < TicketSum(ticketCount, {t \in R : t <= s})}
=============================================================================
