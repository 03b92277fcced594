-------------------------------- MODULE Mutex --------------------------------
(***************************************************************************)
(* What a lock promises: one holder at a time, who alone gives it up.       *)
(***************************************************************************)
CONSTANTS Proc, Nobody

VARIABLE holder

Init == holder = Nobody

Acquire(p) == holder = Nobody /\ holder' = p

Release(p) == holder = p /\ holder' = Nobody

Next == \E p \in Proc : Acquire(p) \/ Release(p)

Spec == Init /\ [][Next]_holder
==============================================================================
