CONSTANTS
  Chosen = {"log", "open", "image"}
  Reader = {r1, r2} Cpu = {c1, c2} Thread = {t1, t2}
  Op = {p, q} Boot = boot Block = {a, b} Val = {0, 1} Absent = absent
  LOGSIZE = 8 MAXOPBLOCKS = 4 SIZE = 8 OPBLOCKS = 2
SPECIFICATION PartsSpec
INVARIANTS LogInv FilesSound ImageSound
PROPERTIES TransactionsAtomic PipesAreFifo
CHECK_DEADLOCK FALSE
