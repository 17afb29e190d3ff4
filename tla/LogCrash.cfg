SPECIFICATION FairSpec
CONSTANTS
  Ops = {o1, o2}
  Blocks = {b1, b2}
  Values = {0, 1}
  InitVal = 0
  Nil = Nil
  MAXOPBLOCKS = 4
  LOGSIZE = 8
  SIZE = 8
  OpBlocks = 2
  MaxCalls = 2
  MaxCrashes = 2
INVARIANTS LogInv NoPanic QuietIsDurable PinnedUntilInstalled
PROPERTIES CrashAtomic ComesToRest
