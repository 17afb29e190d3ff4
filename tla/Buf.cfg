SPECIFICATION Spec
CONSTANTS
  Threads = {t1, t2}
  Blocks = {log, ind, k1}
  LogBlocks = {log}
  Indirect = {ind}
  Values = {0, 1}
  None = None
  NBUF = 2
  MaxPinned = 1
SYMMETRY Symmetry
INVARIANTS RefcntExact NoLostWakeup PanicsOnlyWhenFull
PROPERTY OneCopy
