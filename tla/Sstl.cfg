\* Three evolved versions (and two of a nested class) saving and loading
\* each other's records; the elements of the vector d sit at max_level.
CONSTANTS
  Versions <- MCVersions
  KeyType <- DequeKey
  Keys <- MCKeys
  IntVals <- MCIntVals
  StrVals <- MCStrVals
  MaxElems = 2
  max_level = 3
SPECIFICATION Spec
INVARIANT LoadContract
