\* docs/plan.md A.12: an init that had undeclared side effects is not polled.
SPECIFICATION Spec
CONSTANTS
  a0 = a0
  a1 = a1
  Luids <- TwoLuids
  LowHalf <- OneHalf
  NoLuid = "none"
  MaxFound = 1
  Dragged <- VulkanDrags
  Spawners <- VulkanSpawns
  Late <- LateLayer
  Preloaded <- GdiLoaded
  MayFail <- IgclFails
INVARIANTS
  AuditFailureDisables
SYMMETRY Interchangeable
CHECK_DEADLOCK FALSE
