SPECIFICATION PredictionSpec
CONSTANTS
  width_in_mb = 2
  height_in_mb = 2
  CostPatterns <- SmallPatterns
  Reconstructed <- SmallPicture
INVARIANTS
  ChosenModeIsPredictable
  ReceiverRecoversModes
  PredictionIsReceivers
CHECK_DEADLOCK FALSE
