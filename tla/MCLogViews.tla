----------------------------- MODULE MCLogViews -----------------------------
(***************************************************************************)
(* One card with an activity counter and a gauge that two collectors       *)
(* report.  The fingerprint's sample of the card wakes it and sets off a   *)
(* report; IGCL writes a note when it binds the card, before its init      *)
(* record is published.                                                    *)
(***************************************************************************)
EXTENDS LogViews

Identity == [k |-> "ai", a |-> "card0", t |-> 0]
Visible == [k |-> "ms", n |-> "cpu_visible", a |-> "card0", v |-> 25, s |-> "Vulkan", t |-> 2]
Evidence == [k |-> "ast", a |-> "card0", to |-> "Idle", t |-> 2]
TooVisible == [k |-> "dr", rule |-> "percent", a |-> "card0", t |-> 2]
Fingerprint == [k |-> "drf", win |-> "26100", t |-> 2]
Bound == [k |-> "car", name |-> "igcl", mods |-> << >>, iw |-> 0, note |-> "bound", t |-> 0]
IgclInit ==
  [k |-> "car", name |-> "igcl", mods |-> <<"ControlLib", "igdgmm">>, iw |-> 31,
   note |-> "+2 modules", t |-> 11]
HostInit == [k |-> "car", name |-> "host", mods |-> << >>, iw |-> 21, note |-> "", t |-> 11]

Headers ==
  {<<Identity, Visible, Evidence, TooVisible, Fingerprint, Bound, IgclInit, HostInit>>}

\* What a cut leaves of a kind, an adapter id, a number of two digits, a list of
\* modules, another name.  A value is in tenths: 0 is a double like 4.9e-05.
SomeHalves(key, val) ==
  CASE key = "k" -> {val, IF val = "drf" THEN "dr" ELSE "half"}
    [] key = "a" -> {"car"}
    [] key = "t" -> {val, val \div 10}
    [] key = "v" -> {IF val = 0 THEN 49 ELSE val \div 10}
    [] key = "iw" -> {val \div 10} \ {0}
    [] key = "mods" -> IF val = << >> THEN {} ELSE {<< >>, <<"Con">>}
    [] OTHER -> {"half"}

CounterNumbers == {12, 15}
GaugeNumbers == {0}
=============================================================================
