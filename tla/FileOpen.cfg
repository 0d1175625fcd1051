CONSTANTS
  CallerHandles = {c1, c2}
  LibraryHandles = {l1, l2}
  NoHandle = NoHandle
  Contents <- SomeContents
  FirstProbe = 1
  LastProbe = 16
  OldSizes = {4, 8}
  NewSizes = {1, 2, 4, 8, 16}
  MaxFaults = 1
SPECIFICATION Spec
INVARIANTS
  AllOrNothing
  NoHandleLeaks
  HandlesStayOpen
  ClosedUnlessReopened
PROPERTIES
  OpenIsExact
  CallsEnd
