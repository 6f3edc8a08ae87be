CONSTANTS
  t1 = t1
  t2 = t2
  t3 = t3
  p1 = p1
  a = a
  b = b
  c = c
  d = d
  Threads <- Threads2
  Places <- OnePlace
  Objects <- Objects3
  MaxEpoche = 4
  EpocheStep = 2
  GCThreshold = 0
  LabelSize = 2
  RetireFirst = TRUE
  None = None
SPECIFICATION Spec
INVARIANTS SeenIsNotFreed
CHECK_DEADLOCK FALSE
SYMMETRY Interchangeable
