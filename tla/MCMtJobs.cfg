SPECIFICATION FairSpec
CONSTANTS
  RsyncMin = 2
  JobSizeMin = 2
  Calls <- SomeCalls
  Window = 2
  NbWorkersMax = 3
INVARIANTS
  RangesTile
  EachRangeOnce
  AsIfInOrder
  FramesStandAlone
PROPERTY Returns
