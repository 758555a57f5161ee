SPECIFICATION Spec
CONSTANT
  Inputs <- SmallInputs
INVARIANTS
  StrengthsAreReceivers
  FilteredAsReceiver
CHECK_DEADLOCK FALSE
