CONSTANTS
  k1 = k1
  k2 = k2
  k3 = k3
  v1 = v1
  v2 = v2
  Keys <- Keys3
  Values <- Values1
  H1ToHash <- HashColliding
  StartSlotPos = 1
  SlotMaxRange = 2
  MaxProbeLen = 2
  InitCellCount = 1
  CellCountLimit = 2
  Zeroed = Zeroed
  Absent = Absent
SPECIFICATION FairSpec
INVARIANTS TypeOK OneSlotPerKey Reachable BackupSlotLeft RehashKeepsRecords
PROPERTIES ImplementsMap FullStaysFull PutEnds
CHECK_DEADLOCK FALSE
