CONSTANTS
  Proc = {p1, p2, p3} Nobody = nobody Reader = {r1, r2} Disk = {k1, k2} NoBlock = noblock
SPECIFICATION LiveSpec
INVARIANT SleeperNotStranded
PROPERTIES SleepLockIsMutex LockPassedOn DiskServes SleepersWoken PipesReturn
CHECK_DEADLOCK FALSE
