------------------------------ MODULE LinkGlow -------------------------------
(***************************************************************************)
(* The light around the edge of the panel: main/ui_glow.c, which plays one *)
(* sustained and one passing light on one canvas, and the part of          *)
(* main/status_bar.c that lights it for the health of the link.  Every     *)
(* scene has a status bar of its own and remembers what it last said.      *)
(*                                                                         *)
(* The fields:                                                             *)
(*   bar      conn_state of each scene's bar, "none" for -1                *)
(*   sustain  the sustained light asked for: "none", "amber" (never        *)
(*            connected) or "red" (link lost)                              *)
(*   picture  what the canvas shows: a sustained light, "dark" or "ping"   *)
(* Shapes, colours and the frozen envelope of `?glow <ms>' are left out.   *)
(***************************************************************************)
New(scenes) == [bar |-> [s \in scenes |-> "none"], sustain |-> "none", picture |-> "dark"]

Rest(g) == IF g.sustain = "none" THEN "dark" ELSE g.sustain

\* ui_glow_sustain and ui_glow_sustain_clear: a ping that plays goes on, and
\* falls back to the light asked for meanwhile.
Sustain(g, light, pings) ==
  LET h == [g EXCEPT !.sustain = light]
  IN  IF pings THEN h ELSE [h EXCEPT !.picture = Rest(h)]

\* ui_glow_ping, and settle at its end.
Ping(g) == [g EXCEPT !.picture = "ping"]

SettleDark(g) ==             \* mutant: the end of a ping clears the canvas
  [g EXCEPT !.picture = "dark"]

Settle(g) == [g EXCEPT !.picture = Rest(g)]

\* status_bar_update: nothing is said twice.
Light(conn) == CASE conn = "ok" -> "none" [] conn = "waiting" -> "amber" [] OTHER -> "red"

Update(g, s, conn, pings) ==
  IF conn = g.bar[s] THEN g
  ELSE Sustain([g EXCEPT !.bar[s] = conn], Light(conn), pings)
=============================================================================
