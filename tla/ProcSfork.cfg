SPECIFICATION SforkSpec
CONSTANTS
  CPUs = {c1, c2}
  NPROC = 3
  None = None
  KillPids = {}
  MaxPid = 3
INVARIANT NoPanic
