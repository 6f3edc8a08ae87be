CONSTANTS
  t1 = t1
  t2 = t2
  t3 = t3
  p1 = p1
  a = a
  b = b
  c = c
  d = d
  Threads <- Threads3
  Places <- OnePlace
  Objects <- Objects4
  MaxEpoche = 3
  EpocheStep = 2
  GCThreshold = 1
  LabelSize = 2
  RetireFirst = FALSE
  None = None
SPECIFICATION Spec
INVARIANTS TypeOK SeenIsNotFreed WaitsOnce NothingLost CountMatches AllFreedAtEnd
CHECK_DEADLOCK FALSE
SYMMETRY Interchangeable
