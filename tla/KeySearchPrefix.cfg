CONSTANTS
  LastPage = 5
  PageSize = 2
  WordSize = 32
  Refs = {0, 1, 2, 3, 4, 5, 6}
  Half = 2
  Files <- Healthy
  Root = 1
  MaxDepth = 2
  MaxInt = 6
  MaxFaults = 0
  Searches <- AllSearches
SPECIFICATION Spec
INVARIANTS
  EveryKeyIsFound
