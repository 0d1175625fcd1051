CONSTANTS
  LastPage = 3
  PageSize = 2
  WordSize = 32
  Refs = {0, 1, 2, 3, 4}
  Files <- SmallFiles
  Root = 1
  MaxDepth = 2
  MaxLeafPages = 2
  MaxInt = 4
  MaxFaults = 1
  SubNodes = 2
SPECIFICATION Spec
INVARIANTS
  DescriptorsTile
  NoPageCountedTwice
  CountIsExact
  WellFormedIsCounted
PROPERTIES
  CallsEnd
