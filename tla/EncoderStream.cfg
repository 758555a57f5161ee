SPECIFICATION FairStreamSpec
CONSTANTS
  Config <- StreamConfigs
  InputFrames = 17
  OffsetLimit = 53
  MaxTicks = 18
INVARIANTS
  TypeOK
  ReferencesAreFinished
  NeighboursUnfiltered
  StopsAtRequest
  ReceiverSharesReferences
  UnitsMatchHeaders
PROPERTIES
  ReferencesFrozen
  Terminates
  ImplementsVideoSequence
CHECK_DEADLOCK FALSE
