SPECIFICATION Spec
CONSTANTS
  m_width_in_mb = 2
  m_height_in_mb = 2
  search_motion_vectors <- SmallSearch
  Settings <- SmallSettings
INVARIANTS
  ReceiverRecoversMotion
  MotionWithinLevel
  ReadsStayInside
  LumaMatchesReceiver
  SearchComparesPrediction
  ResidualMatchesPrediction
  ChromaMatchesUnlessBefore
CHECK_DEADLOCK FALSE
