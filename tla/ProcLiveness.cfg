SPECIFICATION FairSpec
CONSTANTS
  NPROC = 3
  NCPU = 1
  NCHAN = 0
  MaxPid = 4
  KillArgs = {2, 3, 4}
  JoinArgs = {3}
  Policies = {}
  Priorities = {}
  TicketArgs = {}
  Faults = FALSE
  QUANTUM = 2
  PRIORITY_Q <- ShortQ
  CTRMOD = 4
PROPERTIES RunnableRuns WaitReturns KilledExits
CHECK_DEADLOCK FALSE
