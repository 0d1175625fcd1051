SPECIFICATION Spec
CONSTANTS
  Threads = {t1, t2}
  Openers = {t1}
  Slots = {1, 2}
  Asked = {"table", "record", "tables"}
  Items = 2
  Offsets = {1}
  Reads = {"value"}
  MaxSequences = 1
  MaxHeld = 2
INVARIANTS
  ReferencesAreSound
  ItemsInOrder
  HandleIsKept
PROPERTIES
  CallsEnd
CHECK_DEADLOCK FALSE
