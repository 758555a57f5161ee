SPECIFICATION Spec
CONSTANTS
  m_width_in_mb = 1
  m_height_in_mb = 1
  search_motion_vectors <- SmallSearch
  Settings <- ThreeReferences
INVARIANT
  ReceiverRecoversMotion
CHECK_DEADLOCK FALSE
