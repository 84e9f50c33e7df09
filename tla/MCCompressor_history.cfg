SPECIFICATION Spec
CONSTANTS
  None = None
  Window = 3
  BlockSizeMax = 2
  Lookahead = 1
  SlideMuls = {2, 3}
  SlideExtraMax = 2
  OutReclaim = 2
  Dictionary <- MCLongDicts
  PrefixLens = {0, 4}
  Pledges = {5}
  InputLens = {0, 2, 5}
  OutCaps = {20}
  MaxFed = 14
  CoderMayFail = FALSE
INVARIANTS FullWindow BoundedHistory FreshStart NothingHeldBack
PROPERTY MakesWholeAppendBlocks
CHECK_DEADLOCK FALSE
