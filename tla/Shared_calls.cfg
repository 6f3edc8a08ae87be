CONSTANTS
  K1 = K1
  K2 = K2
  K3 = K3
  T1 = T1
  T2 = T2
  Keys <- Keys3
  H1ToHash <- Hash3
  Writers <- OneWriter3
  Threads = {T1, T2}
  Values = {1}
  StartSlotPos = 0
  SlotMaxRange = 2
  MaxProbeLen = 2
  InitCellCount = 1
  MaxWrites = 4
  Builds <- AllBuilds
  Zeroed = Zeroed
  Absent = Absent
  None = None
SPECIFICATION Spec
INVARIANTS TypeOK OneSlotPerKey BackupSlotLeft UndisturbedIsRight
PROPERTIES NeverOverwrites CallsTakeEffect OthersUntouched
CHECK_DEADLOCK FALSE
SYMMETRY Alike
