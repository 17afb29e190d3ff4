SPECIFICATION FairSpec
CONSTANTS
  Threads = {t1, t2, t3}
  None = None
  NUM = 7
  Wrap = 7
INVARIANTS NoPanic NoDescriptorLeak
PROPERTIES ReturnsAfterTransfer RequestsReturn
