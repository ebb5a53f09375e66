------------------------------ MODULE DashScene ------------------------------
(***************************************************************************)
(* main/scenes/scene_dashboard.c: which of its two halves the dashboard    *)
(* shows (one agent's word and chip, or the fleet's rows) and where they   *)
(* stand.  One record is the scene; an operator is one of its handlers.    *)
(* Two animations may drive one y: the transition's flight of an actor and *)
(* the scene's own slide of the cluster between its two anchors.           *)
(*                                                                         *)
(* The fields:                                                             *)
(*   half    "ambient" or "fleet": the half without LV_OBJ_FLAG_HIDDEN     *)
(*   target  ambient_target_y: "none", "plain" or "chip"                   *)
(*   slide   anim_ambient_y: "none", or the anchor it goes to              *)
(*   laid    last_layout_n, "none" for -1                                  *)
(*   restY   the rows' rest_y, by the number of rows they were laid for    *)
(*   rest, at, fly   for each half: rest_pos of its actors, where they     *)
(*           stand ("off" the glass, "mid" way, or an anchor), and the     *)
(*           transition's flight ("none", "in" or "out")                   *)
(* Words, colours, chips and figures are left out.                         *)
(***************************************************************************)
Halves == {"ambient", "fleet"}
Anchors == {"plain", "chip"}

\* What the agents ask for: one agent's pose without or with its chip, or a
\* fleet of "two" or "three" rows.
HalfOf(pose) == IF pose \in Anchors THEN "ambient" ELSE "fleet"

New ==
  [half |-> "ambient", target |-> "none", slide |-> "none", laid |-> "none", restY |-> "none",
   rest |-> [h \in Halves |-> IF h = "ambient" THEN "plain" ELSE "none"],
   at |-> [h \in Halves |-> IF h = "ambient" THEN "plain" ELSE "none"],
   fly |-> [h \in Halves |-> "none"]]

\* dash_sync_rest: the framework is given the places of this moment.
SyncRest(d) ==
  [d EXCEPT !.rest = [h \in Halves |->
     IF h = "fleet" THEN d.restY ELSE IF d.target = "none" THEN "plain" ELSE d.target]]

\* What is left of a flight whose animation is deleted on the way.
Stopped(d, h) == IF d.fly[h] = "none" THEN d.at[h] ELSE "mid"

\* play_outro and play_intro on the two halves: the flights of both end, the
\* visible one leaves or comes in, the hidden one is skipped.
OutroFlights(d, move) ==
  LET other == CHOOSE h \in Halves : h # d.half
  IN  [d EXCEPT !.at = [@ EXCEPT ![d.half] = IF move THEN d.at[d.half] ELSE "off",
                                 ![other] = Stopped(d, other)],
                !.fly = [h \in Halves |-> IF h = d.half /\ move THEN "out" ELSE "none"]]

Outro(d, move) == OutroFlights(SyncRest(d), move)

IntroUnsynced(d, move) ==     \* mutant: comes in without dash_sync_rest
  LET other == CHOOSE h \in Halves : h # d.half
  IN  [d EXCEPT !.at = [@ EXCEPT ![d.half] = IF move THEN "off" ELSE d.rest[d.half],
                                 ![other] = Stopped(d, other)],
                !.fly = [h \in Halves |-> IF h = d.half /\ move THEN "in" ELSE "none"]]

Intro(d, move) == IntroUnsynced(SyncRest(d), move)

\* ambient_slide_to: a new target ends the slide under way; the cluster jumps
\* there the first time and without motion, and slides there unless a
\* transition is under way, which only leaves the target behind.
SlideTo(d, anchor, busy, motion) ==
  LET stood == IF d.slide = "none" THEN d.at.ambient ELSE "mid"
      jump  == d.target = "none" \/ motion = "reduced"
  IN  IF anchor = d.target THEN d
      ELSE [d EXCEPT !.target = anchor,
                     !.at.ambient = IF jump THEN anchor ELSE stood,
                     !.slide = IF jump \/ busy THEN "none" ELSE anchor]

\* layout_rows: only for another number of rows than the last time.
LayoutRows(d, n) ==
  IF n = d.laid THEN d
  ELSE [d EXCEPT !.laid = n, !.restY = n, !.at.fleet = n]

\* tick: render_single or render_fleet.
Tick(d, pose, busy, motion) ==
  IF HalfOf(pose) = "ambient"
    THEN SlideTo([d EXCEPT !.half = "ambient", !.laid = "none"], pose, busy, motion)
    ELSE LayoutRows([d EXCEPT !.half = "fleet"], pose)

\* Every animation in flight has reached its end.  A slide under way when the
\* transition took the cluster may outlast its flight out, never the one in.
FlightEnd(d, h) ==
  CASE d.fly[h] = "in" -> d.rest[h] [] d.fly[h] = "out" -> "off" [] OTHER -> d.at[h]

Arrived(d) ==
  [d EXCEPT !.fly = [h \in Halves |-> "none"], !.at = [h \in Halves |-> FlightEnd(d, h)]]

AmbientEnds(d) ==
  CASE d.slide = "none" \/ d.fly.ambient = "in" -> {FlightEnd(d, "ambient")}
    [] d.slide # "none" /\ d.fly.ambient = "out" -> {d.slide, "off"}
    [] OTHER -> {d.slide}

Landings(d) ==
  {[d EXCEPT !.slide = "none", !.fly = [h \in Halves |-> "none"],
             !.at = [ambient |-> a, fleet |-> FlightEnd(d, "fleet")]] : a \in AmbientEnds(d)}
=============================================================================
