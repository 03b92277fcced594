CONSTANTS
  Chosen = {"log", "spin", "tty", "heap", "pick", "pages", "shell", "grep", "lib", "args"}
  Reader = {r1, r2} Cpu = {c1, c2} Thread = {t1, t2}
  Op = {p, q} Boot = boot Block = {a, b, c, d, e} Val = {0} Absent = absent
  LOGSIZE = 4 MAXOPBLOCKS = 2 SIZE = 5 OPBLOCKS = 1
SPECIFICATION PartsSpec
INVARIANTS
  SpinLocksSound HeapSound LoopsSelectThePick SpaceSuffices SleeperHasWaker ShellRuns StringsSound
PROPERTIES TtyDelivers PagesOwned
SYMMETRY Sym
CHECK_DEADLOCK FALSE
