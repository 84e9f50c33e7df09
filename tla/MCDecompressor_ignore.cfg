SPECIFICATION Spec
CONSTANTS
  None = None
  Streams <- AllStreams
  Dictionary <- NoDicts
  PrefixLens = {2}
  FeedLens = {0, 1, 4, 30}
  OutCaps = {0, 1, 3}
  WindowMax = 3
  IgnoreChecksum = TRUE
  BlockSizeMax = 3
  SlideExtraMax = 1
  OutFloor = 2
  InFloor = 2
INVARIANTS
  ChecksumSkipped
CHECK_DEADLOCK FALSE
