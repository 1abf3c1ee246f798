\* sfs::view read/write/trunc against the byte-level reference.
CONSTANTS
  BS = 2
  MaxBlocks = 3
  MaxLen = 3
  MaxGap = 1
  MaxIOErr = 1
  MaxTorn = 1
  Vals <- MCVals
  Bad = Bad
  Null = Null
SPECIFICATION Spec
INVARIANT ReadContract
PROPERTIES WriteContract TruncContract
