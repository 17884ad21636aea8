--------------------------- MODULE MCEventPipeline ---------------------------
(***************************************************************************)
(* One adapter whose temperature two collectors report (the D3DKMT and the *)
(* IGCL collector use the same metric name), a fan, a size of its memory,  *)
(* and a host-level metric; the fingerprint tells how much of the card's   *)
(* memory is visible to the CPU, in bytes and in per cent.                 *)
(***************************************************************************)
EXTENDS EventPipeline

Stream(a, m, s) == [adapter |-> a, metric |-> m, source |-> s]

Fingerprint == {Stream("card0", "cpu_visible_vram_bytes", "VULKAN"),
                Stream("card0", "cpu_visible_vram_pct", "VULKAN")}

SharedTemperature ==
  Fingerprint \cup
  {Stream("card0", "temperature", "D3DKMT"), Stream("card0", "temperature", "IGCL"),
   Stream("card0", "fan", "IGCL"), Stream("card0", "vram_usage", "PDH"),
   Stream("", "host_commit", "HOST")}

\* A temperature that does not change.
OneStream == Fingerprint \cup {Stream("card0", "temperature", "IGCL")}
OneReading == {"low"}
NoReading == {}

Evidence ==
  {"temperature", "fan", "vram_usage", "cpu_visible_vram_bytes", "cpu_visible_vram_pct"}
Envelopes == {"temperature", "cpu_visible_vram_pct"}
Capacities == {"vram_usage"}
Judged == {"temperature", "fan"}

SomeReadings == {"low", "absurd", "nan", "inf"}
FiniteReadings == {"low", "absurd"}
AbsurdReadings == {"absurd"}
=============================================================================
