\* Every enumeration of up to two records each, every outcome of seven inits.
SPECIFICATION Spec
CONSTANTS
  a0 = a0
  a1 = a1
  Luids <- TwoLuids
  LowHalf <- OneHalf
  NoLuid = "none"
  MaxFound = 2
  Dragged <- VulkanDrags
  Spawners <- VulkanSpawns
  Late <- LateLayer
  Preloaded <- GdiLoaded
  MayFail <- IgclFails
INVARIANTS
  TypeOK
  IdentitiesSound
  PolledIsReady
  PointersValid
  ModulesAttributed
PROPERTY
  AllReleased
SYMMETRY Interchangeable
CHECK_DEADLOCK FALSE
