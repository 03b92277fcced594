SPECIFICATION Spec
CONSTANTS
  NPROC = 3
  NCPU = 1
  NCHAN = 0
  MaxPid = 4
  KillArgs = {}
  JoinArgs = {}
  Policies = {2}
  Priorities = {2, 5}
  TicketArgs = {}
  Faults = FALSE
  QUANTUM = 2
  PRIORITY_Q <- ShortQ
  CTRMOD = 4
PROPERTIES PriorityRespected
CHECK_DEADLOCK FALSE
