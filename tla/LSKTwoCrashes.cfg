\* Three keys, single-block records, no write failures, two restarts.
CONSTANTS
  k1 = k1  k2 = k2  k3 = k3  v1 = v1  v2 = v2
  Keys <- ThreeKeys
  Vals <- OneVal
  RecSize <- OneValSmall
  BlockData = 2
  Width = 4
  MaxOrder = 9
  MaxCrash = 2
  MaxIOErr = 0
SPECIFICATION Spec
PROPERTIES RecoversCommitted
SYMMETRY ThreeKeySymmetry
CHECK_DEADLOCK FALSE
