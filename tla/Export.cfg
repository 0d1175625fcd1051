SPECIFICATION Spec
CONSTANTS
  Exporters = {"p1", "p2"}
  Databases <- MCDatabases
  KnownNames <- MCKnownNames
  Special <- MCSpecial
  Every = "every table"
INVARIANTS
  OneExportPerDirectory
  SuccessIsWhole
  HeldInOrder
PROPERTIES
  FilesStay
  ExportsEnd
CHECK_DEADLOCK FALSE
