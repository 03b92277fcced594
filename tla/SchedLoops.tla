----------------------------- MODULE SchedLoops -----------------------------
(***************************************************************************)
(* The three selection loops of scheduler(), one iteration per step, on a   *)
(* process table that does not change meanwhile (ptable.lock is held).      *)
(* When a loop ends, its answer is the one SchedPick defines.               *)
(***************************************************************************)
EXTENDS SchedPick

CONSTANTS MaxPrio, MaxTickets  \* bounds on priority and ticketCount

VARIABLES
  alg,            \* c->schedAlg: 0 (round robin), 2 (priority) or 4 (lottery)
  R, priority, ticketCount, last, winner0,        \* the inputs of the round
  p, index, found, minPP, minP, winner, done      \* the loops' variables

inputs == <<alg, R, priority, ticketCount, last, winner0>>
vars == <<inputs, p, index, found, minPP, minP, winner, done>>

\* Every input a loop reads ranges over all its values; the others are fixed.
Init ==
  /\ alg \in {0, 2, 4}
  /\ R \in SUBSET Slot
  /\ priority \in IF alg = 2 THEN [Slot -> 1..MaxPrio] ELSE {[s \in Slot |-> 1]}
  /\ ticketCount \in
       IF alg = 4 THEN [Slot -> 1..MaxTickets] ELSE {[s \in Slot |-> 1]}
  /\ last \in IF alg = 4 THEN {0} ELSE -1 .. NPROC
  /\ winner0 \in IF alg = 4 THEN 0 .. NPROC * MaxTickets ELSE {0}
  /\ p = IF alg = 4 THEN 0 ELSE RRStart(last)
  /\ index = 0 /\ found = FALSE /\ minPP = 0 /\ minP = 0
  /\ winner = winner0
  /\ done = FALSE

\* p->state == RUNNABLE.  The slot past the end is not.
IsRunnable(s) == s \in R

\* Policies 0 and 1: from c->RRLastProc to the end of the array.
RRStep ==
  /\ alg = 0 /\ ~done
  /\ \/ p < NPROC /\ ~IsRunnable(p) /\ p' = p + 1 /\ UNCHANGED <<found, done>>
     \/ p < NPROC /\ IsRunnable(p) /\ found' = TRUE /\ done' = TRUE /\ UNCHANGED p
     \/ p >= NPROC /\ done' = TRUE /\ UNCHANGED <<p, found>>
  /\ UNCHANGED <<inputs, index, minPP, minP, winner>>

\* The better of the minimum so far and p; minPP = 0 stands for none.
Improves == minPP = 0 \/ priority[p] < minPP

\* Mutant: the wraparound is one slot late.
WrapLate(q) == IF q > NPROC THEN 0 ELSE q

\* The pointer's wraparound after each iteration.
Wrap(q) == IF q >= NPROC THEN 0 ELSE q

\* Policies 2 and 3: NPROC iterations from c->RRLastProc, wrapping around.
PriorityStep ==
  /\ alg = 2 /\ ~done
  /\ \/ /\ index = NPROC
        /\ done' = TRUE
        /\ p' = IF found THEN minP ELSE p
        /\ UNCHANGED <<index, found, minPP, minP>>
     \/ /\ index < NPROC
        /\ found' = (found \/ IsRunnable(p))
        /\ minPP' = IF IsRunnable(p) /\ Improves THEN priority[p] ELSE minPP
        /\ minP'  = IF IsRunnable(p) /\ Improves THEN p ELSE minP
        /\ \/ IsRunnable(p) /\ minPP' = 1 /\ index' = NPROC /\ UNCHANGED p
           \/ ~(IsRunnable(p) /\ minPP' = 1) /\ index' = index + 1 /\ p' = Wrap(p + 1)
        /\ UNCHANGED done
  /\ UNCHANGED <<inputs, winner>>

\* Policy 4: the winner walks down the tickets of the RUNNABLE slots.
LotteryStep ==
  /\ alg = 4 /\ ~done
  /\ \/ p = NPROC /\ done' = TRUE /\ UNCHANGED <<p, winner, found>>
     \/ p < NPROC /\ ~IsRunnable(p) /\ p' = p + 1 /\ UNCHANGED <<winner, found, done>>
     \/ /\ p < NPROC /\ IsRunnable(p)
        /\ winner' = winner - ticketCount[p]
        /\ \/ winner' < 0 /\ found' = TRUE /\ done' = TRUE /\ UNCHANGED p
           \/ winner' >= 0 /\ p' = p + 1 /\ UNCHANGED <<found, done>>
  /\ UNCHANGED <<inputs, index, minPP, minP>>

Next == RRStep \/ PriorityStep \/ LotteryStep
Spec == Init /\ [][Next]_vars

-----------------------------------------------------------------------------
Answer == IF found THEN {p} ELSE {}

Expected ==
  CASE alg = 0 -> RRPick(R, RRStart(last))
    [] alg = 2 -> PriorityPick(R, priority, RRStart(last))
    [] alg = 4 -> LotteryPick(R, ticketCount, winner0)

\* Each loop of scheduler() selects the slot SchedPick says it selects, for
\* every table, starting pointer and winning ticket.
LoopsSelectThePick == done => Answer = Expected

\* When the winner is drawn below the number of tickets of the RUNNABLE
\* processes, the lottery loop always finds a process; at or above it never.
LotteryFindsWinner ==
  done /\ alg = 4 => (found <=> winner0 < TicketSum(ticketCount, R))
=============================================================================
