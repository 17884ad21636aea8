----------------------------- MODULE MCPollLoop -----------------------------
(***************************************************************************)
(* Small instances of PollLoop.  One time unit is a millisecond: polls end *)
(* one unit below the timeout or exactly on it, the two sides of the >=.   *)
(***************************************************************************)
EXTENDS PollLoop

\* A slow-cadence slot between two base-cadence ones, as main.cc mixes them.
MixedPeriods == <<1, 2, 1>>

\* Four ticks: the third strike of a base-cadence slot and a tick after it.
UnlimitedOrFour == {0, 4}

AroundTimeout == {TimeoutNs - 1, TimeoutNs}
=============================================================================
