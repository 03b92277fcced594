SPECIFICATION Spec
CONSTANTS
  NPROC = 4
  NCPU = 1
  NCHAN = 0
  MaxPid = 5
  KillArgs = {1, 3}
  JoinArgs <- PidArgs
  Policies = {1, 2, 3, 4}
  Priorities = {2, 9}
  TicketArgs = {1}
  Faults = TRUE
  QUANTUM = 2
  PRIORITY_Q <- ShortQ
  CTRMOD = 4
CONSTRAINT Focus
INVARIANTS JoinerNotStrandedElsewhere JoinInv
PROPERTIES PriorityRespectedElsewhere
CHECK_DEADLOCK FALSE
