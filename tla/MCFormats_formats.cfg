SPECIFICATION FormatsSpec
CONSTANTS
  Radix = 8
  WindowLogMin = 2
  WindowLogMax = 6
  BlockSizeMax = 32
  TargetBlockMin = 8
  Unlimited = 1000
  None = None
  Garbage = Garbage
  Corrupt = Corrupt
  NoTable = NoTable
  MinLog = 5
  MaxLog = 9
  WeightLog = 6
  MaxBits = 4
  FastLog = 5
  MaxDirect = 4
  LitTiny = 4
  LitWorth = 10
  LitFour = 12
  RawShort = 3
  RawMiddle = 5
  RawLong = 7
  HuffShort = 4
  HuffMiddle = 5
  HuffLong = 7
  X2MinDst = 10
  X2BuildMin = 40
  FewSeqs = 8
  MaxLit = 15
  U32Bits = 16
  IdPublicMin = 8
  IdPublicMax = 32
  DictMagic = 60000
  MaxDictMin = 40
  ContentMin = 8
  HashSlots = 7
  HeaderArgs <- SomeHeaders
  LevelArgs <- SomeLevels
  Sources <- SomeSources
  DecodeOptions <- SomeOptions
  Blobs <- SomeBlobs
  Content <- SomeContent
  PartLens = {0, 1, 2, 3, 4, 5, 7, 8, 9, 15, 16, 17, 24, 31, 32, 33, 34, 64, 65}
INVARIANTS
  HeadersHonoured
  WalksAgree
  ChecksumsAlike
  SeeksFind
  EntropyTablesAgree
  DictionariesServe
  LiteralsReadBack
  SequencesDecode
