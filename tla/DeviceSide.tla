----------------------------- MODULE DeviceSide ------------------------------
(***************************************************************************)
(* Parts of the device that share no state, for TLC: the agents' slots,    *)
(* the keys' drivers, the ink of the edge light and of a decoration, the   *)
(* settings across power cuts, the reading of a line, what the host says   *)
(* of time, waits and weather, and the counters of `?perf'.  A behaviour   *)
(* is one of `part'; the others stay as they are before they begin.        *)
(***************************************************************************)
EXTENDS AgentSlots, Keys, GlowInk, DecoInk, Config, JsonRead, HostData, Meters, TLC

CONSTANTS s1, s2, s3

VARIABLE part

\* The two Claude Code sessions are interchangeable.
Symmetry == Permutations({s1, s2})

DeviceInit ==
  /\ part \in {"slots", "keys", "glow", "deco", "config", "boot", "reader", "host", "sky", "meters"}
  /\ Init /\ GlowInit /\ HostOff /\ MetersOff
  /\ IF part = "keys" THEN KeysInit ELSE KeysDown
  /\ IF part = "deco" THEN DecoInit ELSE DecoOff
  /\ IF part \in {"config", "boot"} THEN ConfigInit ELSE ConfigOff
  /\ IF part = "reader" THEN JsonInit ELSE JsonOff

Merging == part = "slots" /\ Next /\ UNCHANGED <<part, keyVars, glow, deco, config, json, hostData, meters>>

Pressing == part = "keys" /\ KeysNext /\ UNCHANGED <<part, vars, glow, deco, config, json, hostData, meters>>

Glowing == part = "glow" /\ GlowNext /\ UNCHANGED <<part, vars, keyVars, deco, config, json, hostData, meters>>

Drawing == part = "deco" /\ DecoNext /\ UNCHANGED <<part, vars, keyVars, glow, config, json, hostData, meters>>

Configuring ==
  /\ \/ part = "config" /\ ConfigNext
     \/ part = "boot" /\ PanelNext
  /\ UNCHANGED <<part, vars, keyVars, glow, deco, json, hostData, meters>>

Scanning == part = "reader" /\ JsonNext /\ UNCHANGED <<part, vars, keyVars, glow, deco, config, hostData, meters>>

Telling ==
  /\ \/ part = "host" /\ HostNext
     \/ part = "sky" /\ SkyNext
  /\ UNCHANGED <<part, vars, keyVars, glow, deco, config, json, meters>>

Metering ==
  part = "meters" /\ MetersNext /\ UNCHANGED <<part, vars, keyVars, glow, deco, config, json, hostData>>

DeviceNext ==
  Merging \/ Pressing \/ Glowing \/ Drawing \/ Configuring \/ Scanning \/ Telling \/ Metering

DeviceSpec == DeviceInit /\ [][DeviceNext]_<<part, vars, keyVars, glow, deco, config, json, hostData, meters>>
=============================================================================
