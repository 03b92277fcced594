------------------------------- MODULE MCProc -------------------------------
(* Instances of Proc for TLC: values of the constants a .cfg cannot write.  *)
EXTENDS Proc

\* The first process and the pids of its first descendants.
PidArgs == 1 .. MaxPid
\* The time slices of PRIORITY_Q, shortened: 1, 2, 2, ...
ShortQ == [i \in 1..6 |-> IF i = 1 THEN 1 ELSE 2]

\* Nobody has called change_policy, set_priority or set_ticketCount yet.
DefaultPolicy ==
  /\ \A c \in CPU : schedAlg[c] = 0
  /\ \A s \in Slot : /\ pc[s] \notin {"policy", "tickets"}
                     /\ priority[s] \in {0, 1, 3} /\ ticketCount[s] \in {0, 10}

\* At most two processes have been created, and no threads; none was killed.
PlainProcesses ==
  /\ nextpid <= 4
  /\ \A s \in Slot : /\ ~killed[s] /\ pc[s] # "thread"
                     /\ Live(s) /\ s # InitProc => pid[s] = first_pid[s]

\* Bound: threads and kill under the default policy, and the policies with
\* processes alone; the two together are too many states.  A kill of the first
\* process, which ends in a panic, is followed with few processes.
Focus ==
  /\ DefaultPolicy \/ PlainProcesses
  /\ killed[InitProc] => nextpid <= 4

\* Bounds: set_ticketCount() is followed with the first process and one child; a
\* total of the tickets that has become wrong is not followed for ever.
TicketFocus ==
  /\ nextpid <= 3 \/ \A s \in Slot : pc[s] # "tickets" /\ ticketCount[s] \in {0, 10}
  /\ Drift \in -10 .. 10
=============================================================================
