CONSTANTS
  Proc = {p1, p2} Block = {k1, k2, k3, k4} NBUF = 3 MaxPinned = 2 Nobody = none NoBlock = noblock
  Inode = {f1, f2}
SPECIFICATION StorageSpec
INVARIANTS
  CacheCoherent CacheInv DiskConsistent ReadsBack OpFits
PROPERTY PanicsOnlyWhenFull
CONSTRAINT Focus
SYMMETRY Sym
CHECK_DEADLOCK FALSE
