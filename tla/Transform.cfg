SPECIFICATION Spec
CONSTANTS
  Inputs <- MCInputs
  QPs <- MCQPs
INVARIANTS
  SamplesAreReceivers
  LevelsFitEscape
  ErrorWithinStep
CHECK_DEADLOCK FALSE
