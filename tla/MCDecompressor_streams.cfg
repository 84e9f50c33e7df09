SPECIFICATION FairSpec
CONSTANTS
  None = None
  Streams <- AllStreams
  Dictionary <- Dicts
  PrefixLens = {2}
  FeedLens = {0, 1, 2, 4, 30}
  OutCaps = {0, 1, 3, 4}
  WindowMax = 3
  IgnoreChecksum = FALSE
  BlockSizeMax = 3
  SlideExtraMax = 1
  OutFloor = 2
  InFloor = 2
INVARIANTS
  AcceptsLikeOneShot
  OutputIsContent
  TrueEnd
  PlaceKept
  BoundedOutput
PROPERTIES
  WholeDecided
CHECK_DEADLOCK FALSE
