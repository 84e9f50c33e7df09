SPECIFICATION Spec
CONSTANTS
  s = s
  t = t
  Stems = {s, t}
  NoStem = NoStem
  MaxZst = 3
  Disks <- SomeDisks
  Commands <- SomeCommands
  Dir = Dir
  MaxRuns = 2
  None = None
INVARIANTS
  OkLeavesNoPart
PROPERTIES
  NothingLost
CHECK_DEADLOCK FALSE
