SPECIFICATION Spec
CONSTANTS
  CPUs = {c1, c2}
  NPROC = 3
  None = None
  KillPids = {2, 3}
  MaxPid = 3
SYMMETRY Symmetry
INVARIANTS NoPanic OneCpuPerStack NoLostWakeup EveryoneHasParent
PROPERTY BornAlive
