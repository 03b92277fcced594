SPECIFICATION Spec
CONSTANTS
  NPROC = 4
  NCPU = 1
  NCHAN = 0
  MaxPid = 5
  KillArgs = {}
  JoinArgs <- PidArgs
  Policies = {}
  Priorities = {}
  TicketArgs = {}
  Faults = FALSE
  QUANTUM = 2
  PRIORITY_Q <- ShortQ
  CTRMOD = 4
INVARIANTS JoinerNotStranded
CHECK_DEADLOCK FALSE
