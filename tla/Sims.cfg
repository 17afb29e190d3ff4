SPECIFICATION Spec
CHECK_DEADLOCK FALSE
CONSTANTS
  N = 3
  Arrivals = {0, 2}
  Bursts = {0, 1, 4}
  Quantum <- Quanta
  MAX = 4
  time_quantum_rr = 2
  MaxTime = 15
  Tickets = {0, 2}
  processors = 2
  Rounds = 3
INVARIANTS OneAtATime NoneForgotten BestIsBest
PROPERTY Terminates
