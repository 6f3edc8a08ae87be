CONSTANTS
  t1 = t1
  t2 = t2
  t3 = t3
  Threads <- MCThreads
  Builds <- AllBuilds
  MaxDoublings = 2
SPECIFICATION FairSpec
INVARIANTS TypeOK MutualExclusion LockBitTracksHolder AddressWhole
PROPERTIES BucketNeverReverts LockProgress
CHECK_DEADLOCK FALSE
