\* Single-block records, one restart, one failed block or terminator write.
\* A process that get_free() aborts with bad_alloc after its one restart
\* stops for good, so deadlock is not checked.
CONSTANTS
  k1 = k1  k2 = k2  k3 = k3  v1 = v1  v2 = v2
  Keys <- MCKeys
  Vals <- MCVals
  RecSize <- SmallRecords
  BlockData = 2
  Width = 4
  MaxOrder = 7
  MaxCrash = 1
  MaxIOErr = 1
SPECIFICATION Spec
INVARIANTS TypeOK FreeDisjointLive OrdersFresh
PROPERTIES RecoversCommitted
SYMMETRY KeyValSymmetry
CHECK_DEADLOCK FALSE
