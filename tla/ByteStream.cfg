SPECIFICATION StreamSpec
CONSTANTS
  Byte <- MCByte
  Header <- MCHeaders
  MaxBytes = 1000
  Configs <- MCConfigs
  Ticks <- MCTicks
  Payloads <- MCPayloads
INVARIANTS
  StartCodesDelimitUnits
  NoEmulation
  ReceiverRecoversElements
  ReceiverParsesHeaders
PROPERTIES
  ImplementsNalStream
CHECK_DEADLOCK FALSE
