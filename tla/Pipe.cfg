\* Everything stops when both ends are closed.
SPECIFICATION FairSpec
CONSTANTS
  Writers = {w1}
  Readers = {r1, r2}
  None = None
  Bytes = {0, 1}
  PIPESIZE = 2
  Wrap = 4
  MaxCount = 2
CHECK_DEADLOCK FALSE
INVARIANTS SleepersHaveReason FreedWhenUnused
PROPERTIES Fifo WritesReturn
