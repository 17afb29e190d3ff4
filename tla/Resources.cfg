SPECIFICATION Spec
CONSTANTS
  None = None
  PGSIZE = 2
  LEVELS = 2
  NFILE = 3
  NPIPE = 3
  NPROC = 2
  NOFILE = 2
  MAXARG = 2
  USERSTACK = 1
  Increments <- MCIncrements
  Segments <- MCSegments
  Programs <- MCPrograms
INVARIANTS NoPanic PagesConserved RefsExact
CHECK_DEADLOCK FALSE
