SPECIFICATION Spec
CONSTANTS
  NPROC = 3
  NCPU = 1
  NCHAN = 0
  MaxPid = 4
  KillArgs = {}
  JoinArgs <- PidArgs
  Policies = {}
  Priorities = {}
  TicketArgs = {}
  Faults = FALSE
  QUANTUM = 2
  PRIORITY_Q <- ShortQ
  CTRMOD = 4
INVARIANTS LockNotHeldInUser
CHECK_DEADLOCK FALSE
