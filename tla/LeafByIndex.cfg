CONSTANTS
  LastPage = 6
  PageSize = 2
  WordSize = 32
  Refs = {0, 1, 2, 3, 4, 5, 6, 7}
  Files <- AllFiles
  Root = 1
  MaxDepth = 3
  MaxLeafPages = 3
  MaxInt = 7
  MaxFaults = 1
  SubNodes = 2
  Indexes <- SomeIndexes
SPECIFICATION SearchSpec
INVARIANTS
  RetrievalIsSound
  RetrievalIsExact
PROPERTIES
  CountedIsRetrieved
  RetrievalsEnd
