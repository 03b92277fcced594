CONSTANTS Proc = {p1,p2}
 NINODES = 3 Name = {"a","b"} Nobody = none
 Calls <- MCCalls
 p1 = p1 p2 = p2
SPECIFICATION Spec
INVARIANT NoLockCycle
CHECK_DEADLOCK FALSE
