SPECIFICATION Spec
CONSTANTS
  Threads = {t1, t2}
  Addrs = {a1, a2}
  Contents = {c1, c2}
  Params = {p1, p2}
  ClosedForm = {p1, p2}
  Strides = {dense, sparse}
  Slots = {s1}
  DigestSlots = 1
  SampleFirst = 0
  SampleEvery = 2
  NoDict = NoDict
  NoDigest = NoDigest
  NoWork = NoWork
SYMMETRY Symmetry
INVARIANTS
  StartsPrimed
  SnapshotsRight
  StaleOnlyUnsampled
CHECK_DEADLOCK FALSE
