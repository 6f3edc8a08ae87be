CONSTANTS
  t1 = t1
  t2 = t2
  k1 = k1
  k2 = k2
  k3 = k3
  v1 = v1
  v2 = v2
  Threads <- Threads2
  Keys <- Keys3
  Values <- Values2
  H1ToHash <- OneHome
  H2 <- SharedTag
  StartSlotPos = 1
  SlotMaxRange = 3
  MaxProbeLen = 1
  MaxSeq = 3
  Zeroed <- ZeroedSlot
  Absent = Absent
  None = None
SPECIFICATION Spec
INVARIANT MissMeansAbsent
CHECK_DEADLOCK FALSE
SYMMETRY Alike
