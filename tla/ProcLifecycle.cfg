SPECIFICATION Spec
CONSTANTS
  NPROC = 3
  NCPU = 2
  NCHAN = 1
  MaxPid = 4
  KillArgs = {3}
  JoinArgs = {}
  Policies = {}
  Priorities = {}
  TicketArgs = {1}
  Faults = TRUE
  QUANTUM = 2
  PRIORITY_Q <- ShortQ
  CTRMOD = 4
INVARIANTS RunningOnOneCpu ParentAlive WaiterNotStranded
PROPERTIES TicketsExactElsewhere
CONSTRAINT TicketFocus
CHECK_DEADLOCK FALSE
