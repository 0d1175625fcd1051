SPECIFICATION Spec
CONSTANTS
  Exporters = {"p1"}
  Databases <- MCDatabases
  KnownNames <- MCKnownNames
  Special <- MCSpecial
  Every = "every table"
INVARIANTS
  EverythingIsExported
CHECK_DEADLOCK FALSE
