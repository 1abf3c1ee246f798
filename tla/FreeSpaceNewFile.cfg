CONSTANTS
  Width = 4
  MinFile = 0
  MaxFile = 0
  MaxRun = 2
  MaxHeld = 4
SPECIFICATION Spec
INVARIANTS NoAllocFailure
