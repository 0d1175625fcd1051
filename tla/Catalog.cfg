CONSTANTS
  Files <- MCFiles
  Strings <- MCStrings
  LastPage = 21
  PageSize = 2
  WordSize = 34
  SubNodes = 2
  MaxInt = 22
  MaxFaults = 1
SPECIFICATION Spec
INVARIANTS
  CatalogIsRead
  TablesAgree
PROPERTIES
  OpenEnds
CHECK_DEADLOCK FALSE
