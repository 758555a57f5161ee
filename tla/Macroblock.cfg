SPECIFICATION MacroblockSpec
CONSTANTS
  LumaGroups <- SmallLumaGroups
  ChromaDCs <- SmallChromaDCs
  ChromaGroups <- SmallChromaGroups
INVARIANTS
  ReceiverRecoversMacroblock
  ReconstructionIsReceivers
  FilterSeesReceivedBlocks
CHECK_DEADLOCK FALSE
