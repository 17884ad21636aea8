----------------------------- MODULE MCStartup ------------------------------
(***************************************************************************)
(* Two LUIDs that differ only in the half that the adapter_id leaves out.  *)
(* Vulkan's driver may bring in ControlLib before igcl asks for it, and    *)
(* leave a thread that loads a layer at any time; the snapshots around     *)
(* igcl's init may fail.                                                   *)
(***************************************************************************)
EXTENDS Startup, TLC

CONSTANTS a0, a1    \* model values

TwoLuids == {a0, a1}
Interchangeable == Permutations(TwoLuids)
OneHalf == [l \in TwoLuids |-> "a"]
VulkanDrags == [c \in Collectors |-> IF c = "vk_mem" THEN {"ControlLib"} ELSE {}]
VulkanSpawns == {"vk_mem"}
LateLayer == {"layer"}
IgclFails == {"igcl"}
GdiLoaded == {"gdi32"}
=============================================================================
