SPECIFICATION OneShotSpec
CONSTANTS
  U32Max = 1000
  Payloads <- SomePayloads
  Settings <- SomeSettings
  Window = 7
  BlockMax = 7
  BlockLens = {3, 7}
  SlideAt = 14
  Margin = 3
  MinMatch = 2
  NarrowMatch = 1
  RepMin = 2
  Depth = 1
  Attempts = 3
  Buckets = 2
  ChainSize = 4
  StepLength = 2
  RowSize = 3
  RowGap = 4
  RowHead = 2
  RowTail = 1
  SkipStep = 2
  LdmMin = 3
  LdmStep = 2
  LdmBuckets = 2
  RsyncMin = 3
  JobSizeMin = 1
  Len0 = 9
  RsyncLength = 2
  MaxLens = {4, 100}
  Edits <- SomeEdits
INVARIANTS
  SequencesRebuild StayTogether
