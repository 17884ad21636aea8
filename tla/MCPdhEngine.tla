---------------------------- MODULE MCPdhEngine ----------------------------
(***************************************************************************)
(* Two processes, a card with a 3D and a copy engine, and one without.     *)
(* Sixty is divisible by every window.                                     *)
(***************************************************************************)
EXTENDS PdhEngine

TwoCards == {"card0", "card1"}
CardEngines == [a \in TwoCards |-> IF a = "card0" THEN {"3d", "copy"} ELSE {}]
=============================================================================
