SPECIFICATION Spec
CONSTANTS
  p1 = p1
  p2 = p2
  a = a
  b = b
  Procs = {p1, p2}
  None = None
  Names = {a, b}
  Programs <- NestedCalls
  NINODES = 3
  NINODE = 3
  Blocks = {1}
SYMMETRY Symmetry
INVARIANTS NoPanic NoDangling BlocksOwnedOnce
