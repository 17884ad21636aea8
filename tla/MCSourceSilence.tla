-------------------------- MODULE MCSourceSilence --------------------------
(***************************************************************************)
(* One time unit is 50 ms: the default cadence is 20 units, its jitter one *)
(* unit either way, the silence threshold 60 units.                        *)
(***************************************************************************)
EXTENDS SourceSilence

TwoSources == <<"card0.power", "card1.power">>

JitteredSecond == {19, 20, 21}
=============================================================================
