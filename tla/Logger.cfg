SPECIFICATION Spec
CONSTANTS
  LoggerLevels = {0, 2, 3}
  MaxLogged = 4
INVARIANTS
  NothingLost
  UndefinedOnlyAtStop
  MissedStopIsHarmless
PROPERTIES
  LoggedIsWritten
  StopEnds
CHECK_DEADLOCK FALSE
