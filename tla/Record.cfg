SPECIFICATION ApiSpec
CONSTANTS
  Rows <- MCRows
  Stray <- MCStray
  MaxAsks = 2
  MaxFaults = 1
INVARIANTS
  
  PartsLieApart
  ValuesAreAnswered
PROPERTIES
  CallsEnd
CHECK_DEADLOCK FALSE
