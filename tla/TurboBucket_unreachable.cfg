CONSTANTS
  k1 = k1
  k2 = k2
  k3 = k3
  v1 = v1
  v2 = v2
  Keys <- Keys3
  Values <- Values1
  H1ToHash <- HashWrapping
  StartSlotPos = 1
  SlotMaxRange = 2
  MaxProbeLen = 2
  InitCellCount = 4
  CellCountLimit = 4
  Zeroed = Zeroed
  Absent = Absent
SPECIFICATION Spec
INVARIANT Reachable
CHECK_DEADLOCK FALSE
