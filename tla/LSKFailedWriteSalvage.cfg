\* One failed block write, then a clean close and reopen.
CONSTANTS
  k1 = k1  k2 = k2  k3 = k3  v1 = v1  v2 = v2
  Keys <- MCKeys
  Vals <- MCVals
  RecSize <- SmallRecords
  BlockData = 2
  Width = 4
  MaxOrder = 5
  MaxCrash = 1
  MaxIOErr = 2
SPECIFICATION Spec
PROPERTIES RecoversCommitted
SYMMETRY KeyValSymmetry
CHECK_DEADLOCK FALSE
