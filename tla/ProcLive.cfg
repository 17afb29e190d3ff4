SPECIFICATION FairSpec
CONSTANTS
  CPUs = {c1}
  NPROC = 3
  None = None
  KillPids = {3}
  MaxPid = 3
PROPERTIES OrphansReaped RunnableRuns
