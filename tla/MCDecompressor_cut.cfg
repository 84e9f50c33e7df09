SPECIFICATION FairSpec
CONSTANTS
  None = None
  Streams <- CutStreams
  Dictionary <- NoDicts
  PrefixLens = {2}
  FeedLens = {0, 1, 4}
  OutCaps = {0, 1}
  WindowMax = 3
  IgnoreChecksum = FALSE
  BlockSizeMax = 3
  SlideExtraMax = 1
  OutFloor = 2
  InFloor = 2
PROPERTIES
  EndInsideFrameReported
CHECK_DEADLOCK FALSE
