------------------------- MODULE CollectorRetirement -------------------------
(***************************************************************************)
(* What the watchdog promises about collectors (plan A.16), without the    *)
(* loop and without its counters: a collector whose last three polls were  *)
(* all slow is retired, is announced once, and is never observed again,    *)
(* whatever the other collectors do.                                       *)
(***************************************************************************)
EXTENDS Integers, Sequences

CONSTANT Collectors

VARIABLES
  history,    \* how each poll of a collector ended: "slow" or "fast"
  retired,    \* the collectors that are not polled any more
  announced   \* how often each collector's retirement was announced

rVars == <<history, retired, announced>>

EndsWithThreeSlow(h) ==
  Len(h) >= 3 /\ \A i \in (Len(h) - 2)..Len(h) : h[i] = "slow"

Init ==
  /\ history = [c \in Collectors |-> << >>]
  /\ retired = {}
  /\ announced = [c \in Collectors |-> 0]

Observe(c, outcome) ==
  /\ c \notin retired
  /\ history' = [history EXCEPT ![c] = Append(@, outcome)]
  /\ IF EndsWithThreeSlow(history'[c])
       THEN /\ retired' = retired \cup {c}
            /\ announced' = [announced EXCEPT ![c] = 1]
       ELSE UNCHANGED <<retired, announced>>

Next == \E c \in Collectors, outcome \in {"slow", "fast"} : Observe(c, outcome)

Spec == Init /\ [][Next]_rVars
=============================================================================
