SPECIFICATION CoderSpec
CONSTANT
  Inputs <- SmallInputs
INVARIANTS
  ReceiverRecoversBlock
CHECK_DEADLOCK FALSE
