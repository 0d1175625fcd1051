SPECIFICATION Spec
CONSTANTS
  LargePage = 112
  NoPage = NoPage
  OldSizes = {64, 96}
  NewSizes = {64, 80, 112}
  Files <- MCFiles
  SizeWrap = 65536
  NumberWrap = 256
  MaxPage = 3
INVARIANTS
  PageIsRestored
  PageStaysInside
  DamageIsSeen
PROPERTIES
  ReadsEnd
CHECK_DEADLOCK FALSE
