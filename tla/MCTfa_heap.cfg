SPECIFICATION Spec
CONSTANTS
  c1 = c1
  c2 = c2
  w1 = w1
  w2 = w2
  none = none
  NoThread = none
  Callers <- MCCallers
  Writers <- MCWriters
  RC <- MCResults
  Heap <- MCArbitrary
  AudioFaults = FALSE
  CreateFaults = FALSE
INVARIANTS
  JoinAlwaysHasThread
