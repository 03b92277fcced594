------------------------------ MODULE AtomicLog ------------------------------
(***************************************************************************)
(* What log.c promises the file system.  The blocks have a current content *)
(* and a durable one.  Calls run between begin_op() and end_op(); what     *)
(* they wrote becomes durable all at once and only when none is running; a *)
(* crash goes back to the durable content.  When the last of a group of    *)
(* calls returns from end_op(), the writes of the whole group are durable. *)
(***************************************************************************)
CONSTANTS Op, Block, Val

VARIABLES
  durable,      \* the content a reboot would restore
  current,      \* the content calls read and write
  active,       \* the calls between begin_op() and end_op()
  committing    \* the last call of a group is inside end_op()

avars == <<durable, current, active, committing>>

AInit ==
  /\ durable \in [Block -> Val] /\ current = durable
  /\ active = {} /\ committing = FALSE

ABegin(o) ==
  /\ ~committing /\ o \notin active
  /\ active' = active \cup {o}
  /\ UNCHANGED <<durable, current, committing>>

AWrite(o, b, v) ==
  /\ o \in active
  /\ current' = [current EXCEPT ![b] = v]
  /\ UNCHANGED <<durable, active, committing>>

AEnd(o) ==
  /\ o \in active
  /\ active' = active \ {o}
  /\ committing' = (active' = {})
  /\ UNCHANGED <<durable, current>>

ACommit ==
  /\ committing
  /\ durable' = current
  /\ UNCHANGED <<current, active, committing>>

AReturn ==
  /\ committing /\ durable = current
  /\ committing' = FALSE
  /\ UNCHANGED <<durable, current, active>>

ACrash ==
  /\ current' = durable
  /\ active' = {} /\ committing' = FALSE
  /\ UNCHANGED durable

ANext ==
  \/ \E o \in Op : ABegin(o) \/ AEnd(o)
  \/ \E o \in Op, b \in Block, v \in Val : AWrite(o, b, v)
  \/ ACommit \/ AReturn \/ ACrash

ASpec == AInit /\ [][ANext]_avars
=============================================================================
