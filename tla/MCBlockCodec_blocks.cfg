SPECIFICATION Spec
CONSTANTS
  U32Max = 15
  Dicts <- MCDicts
  Window = 3
  BlockMax = 3
  MaxFrame = 6
  MaxSeqs = 2
  LitSets <- MCLitSets
  FewLits = 2
  FewSeqs = 2
  DefaultCodes <- MCDefaultCodes
  DictCodes <- MCDictCodes
INVARIANTS InStep DecodesAsMeant
