SPECIFICATION ContextSpec
CONSTANTS
  m_width_in_mb = 2
  m_height_in_mb = 2
  Pictures = 1
  LumaCounts <- SmallLumaCounts
  ChromaCounts <- SmallChromaCounts
INVARIANTS
  ReceiverFindsSameNC
  CountsMirrorReceiver
CHECK_DEADLOCK FALSE
