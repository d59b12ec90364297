SPECIFICATION StackSpec
CONSTANTS
  c1 = c1
  c2 = c2
  w1 = w1
  w2 = w2
  Callers <- MCCallers
  Writers <- MCWriters
  NoThread = no_thread
  RC <- MCResults
  Heap = {TRUE, FALSE}
  AudioFaults = TRUE
  CreateFaults = TRUE
  MaxRefs = 2
SYMMETRY MCSymmetry
INVARIANTS
  BusyMeansOpen
