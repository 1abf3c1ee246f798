CONSTANTS
  Width = 4
  MinFile = 1
  MaxFile = 3
  MaxRun = 2
  MaxHeld = 4
SPECIFICATION Spec
INVARIANTS TypeOK Coalesced NoAllocFailure
PROPERTIES AllocatorRefinement
