SPECIFICATION FairSpec
CONSTANTS
  CPUs = {c1, c2}
  Writers = {w1, w2}
  Readers = {r1}
  r1 = r1 c1 = c1 c2 = c2 w1 = w1 w2 = w2
  None = None
  Casts <- MCCasts
  UART_TX_BUF_SIZE = 1
  RxFifo = 1
  TxFifo = 2
  MaxWrite = 2
  Keys = {"a", "cr", "eof", "erase", "kill"}
  INPUT_BUF_SIZE = 3
  Wrap = 6
  Start = 5
  MaxRead = 2
INVARIANTS NoOverrun SleepersHaveReason
PROPERTIES Keyboard WritersWoken LineIsRead
CHECK_DEADLOCK FALSE
