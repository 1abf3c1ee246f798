\* v2 takes two blocks; one restart, no write failures.
CONSTANTS
  k1 = k1  k2 = k2  k3 = k3  v1 = v1  v2 = v2
  Keys <- MCKeys
  Vals <- MCVals
  RecSize <- MixedRecords
  BlockData = 2
  Width = 4
  MaxOrder = 7
  MaxCrash = 1
  MaxIOErr = 0
SPECIFICATION Spec
PROPERTIES RecoversCommitted
SYMMETRY KeySymmetry
CHECK_DEADLOCK FALSE
