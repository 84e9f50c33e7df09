SPECIFICATION FairSpec
CONSTANTS
  None = None
  Window = 3
  BlockSizeMax = 2
  Lookahead = 1
  SlideMuls = {2}
  SlideExtraMax = 2
  OutReclaim = 2
  Dictionary <- NoDicts
  PrefixLens = {}
  Pledges = {0, 4}
  InputLens = {0, 1, 4}
  OutCaps = {0, 2, 9}
  MaxFed = 8
  CoderMayFail = TRUE
INVARIANTS FrameWellFormed DoneMeansComplete FinishedFramesHandedOver PledgeKept NoInputLost
PROPERTIES CallReturns EndedFrameDone
CHECK_DEADLOCK FALSE
