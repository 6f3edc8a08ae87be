CONSTANTS
  k1 = k1
  v1 = v1
  b1 = b1
  b2 = b2
  r1 = r1
  r2 = r2
  Keys <- Keys1
  Data <- Data1
  Buckets <- Buckets2
  Records <- Records2
  Values <- SlotValues2
  Layouts <- Layouts4
  H1ToHash <- OneHome
  StartSlotPos = 1
  SlotMaxRange = 2
  MaxProbeLen = 1
  InitShift = 0
  MaxShift = 1
  FirstLine <- Slot1
  Zeroed <- ZeroedSlot
  Absent = Absent
  Null = Null
SPECIFICATION Spec
INVARIANTS TypeOK RecoversBucket ReturnedIsDurable
PROPERTY ImplementsDurableMap
CHECK_DEADLOCK FALSE
SYMMETRY Alike
