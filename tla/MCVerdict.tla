----------------------------- MODULE MCVerdict -----------------------------
(***************************************************************************)
(* One time unit is a tick; the window is two ticks wide.  Gauges have one *)
(* value on each side of their limit, the limit itself being the good one. *)
(***************************************************************************)
EXTENDS Verdict

TwoCards == {"card0", "card1"}

\* A rig whose cards' memory PDH sees, and one where only IGCL reports.
MemoryRig == {Host, Other, Local("card0"), Local("card1"), Nonlocal("card1")}
WorkRig == {Host, Other, Energy, Activity}
BothRigs == {MemoryRig, WorkRig}
OnlyMemoryRig == {MemoryRig}

LowHigh == {"low", "high"}

LowAndHigh(low, high) == [side \in LowHigh |-> IF side = "low" THEN low ELSE high]

SomeLevels ==
  [st \in MemoryRig \cup WorkRig |->
     CASE st = Host              -> LowAndHigh(26, 27)
       [] st = Other             -> LowAndHigh(1, 1)
       [] st = Local("card0")    -> LowAndHigh(0, 1)
       [] st = Local("card1")    -> LowAndHigh(1, 3)
       [] st = Nonlocal("card1") -> LowAndHigh(2, 3)
       [] st = Energy            -> LowAndHigh(0, 2)
       [] st = Activity          -> LowAndHigh(0, 1)]
=============================================================================
