------------------------------ MODULE DecoLayer ------------------------------
(***************************************************************************)
(* main/ui_deco.c: the drawn decoration behind each view, one instance per *)
(* scene, all of them moved by one timer.  The value `layer' holds         *)
(*   inst   the instances by scene                                         *)
(*   beat   the period of s_timer: "fast" (TICK_ANIM_MS) or "slow"         *)
(*          (TICK_LIVE_MS)                                                 *)
(*   runs   whether it runs or is paused                                   *)
(* and an instance                                                         *)
(*   phase     PH_HIDDEN, PH_IN, PH_LIVE or PH_OUT                         *)
(*   dim       PH_OUT has gone dark and only waits for its span to end     *)
(*   open      the pose (d->state): whether it shows the posed elements    *)
(*   lit       the groups of elements whose p is above zero                *)
(*   morphing  the flag                                                    *)
(* An element is always there ("base"), belongs to a pose ("posed") or is  *)
(* held back until the entrance is over ("late", DECO_DEFER).  Where the   *)
(* elements stand, their brightness, pace, pulse, slots and the periodic   *)
(* effects are left out, and so is the confirmation sweep of ui_deco_alert,*)
(* which asks for the fast beat as a change of pose does.  Nothing here    *)
(* takes the fast refresh period: `holding' is only ever given back.       *)
(***************************************************************************)
Groups == {"base", "posed", "late"}

Instance ==
  [phase |-> "HIDDEN", dim |-> FALSE, open |-> TRUE, lit |-> {}, morphing |-> FALSE]

\* ui_deco_attach: the first one creates the timer, paused.
New(scenes) == [inst |-> [s \in scenes |-> Instance], beat |-> "slow", runs |-> FALSE]

\* The elements that elem_on lets through: the picture of the pose.
Complete(d) == {g \in Groups : g # "posed" \/ d.open}

\* step_inst, its three parts.  An entrance leaves the time to the actors
\* first; an exit, a third as long, is dark well before its span is over; on
\* show, whatever is missing or too much comes or goes, and sets the flag.
StepIn(d) == [d EXCEPT !.lit = Complete(d) \ {"late"}, !.phase = "LIVE"]

StepOut(d) ==
  [d EXCEPT !.lit = {}, !.dim = ~@, !.phase = IF d.dim THEN "HIDDEN" ELSE "OUT"]

StepLive(d) == [d EXCEPT !.lit = Complete(d), !.morphing = d.lit # Complete(d)]

StepInst(d) ==
  CASE d.phase = "IN" -> StepIn(d)
    [] d.phase = "OUT" -> StepOut(d)
    [] d.phase = "LIVE" -> StepLive(d)
    [] OTHER -> d

\* timer_cb: a step for every instance, then the beat they need.
Performs(d) == d.phase \in {"IN", "OUT"} \/ d.morphing

TimerForgetsLive(layer) ==   \* mutant: pauses although an instance is on show
  LET inst == [s \in DOMAIN layer.inst |-> StepInst(layer.inst[s])]
  IN  [layer EXCEPT !.inst = inst, !.runs = \E s \in DOMAIN inst : Performs(inst[s])]

Timer(layer) ==
  LET inst     == [s \in DOMAIN layer.inst |-> StepInst(layer.inst[s])]
      performs == \E s \in DOMAIN inst : Performs(inst[s])
      live     == \E s \in DOMAIN inst : inst[s].phase = "LIVE"
  IN  [inst |-> inst,
       beat |-> IF ~performs /\ live THEN "slow" ELSE layer.beat,
       runs |-> performs \/ live]

\* What the calls below do to one instance, and to the timer they start.
Started(layer, s, d, beat) ==
  [inst |-> [layer.inst EXCEPT ![s] = d], beat |-> beat, runs |-> TRUE]

\* ui_deco_intro and ui_deco_outro: with motion reduced at once, otherwise a
\* first step at time zero, which an exit begins with everything lit.
Intro(layer, s, move) ==
  LET d == [layer.inst[s] EXCEPT !.dim = FALSE]
  IN  IF move THEN Started(layer, s, [d EXCEPT !.phase = "IN", !.lit = {}], "fast")
      ELSE Started(layer, s, [d EXCEPT !.phase = "LIVE", !.lit = Complete(d)], "slow")

Outro(layer, s, move) ==
  LET d == [layer.inst[s] EXCEPT !.dim = FALSE]
  IN  CASE d.phase = "HIDDEN" -> layer
        [] d.phase # "HIDDEN" /\ move ->
             Started(layer, s, [d EXCEPT !.phase = "OUT", !.lit = Complete(d)], "fast")
        [] OTHER -> [layer EXCEPT !.inst[s] = [d EXCEPT !.phase = "HIDDEN", !.lit = {}]]

\* ui_deco_live, from a scene's on_show and on_hide.
Appear(layer, s) ==
  LET d == layer.inst[s]
  IN  Started(layer, s,
              IF d.phase = "HIDDEN" THEN [d EXCEPT !.phase = "LIVE", !.lit = Complete(d)]
                                    ELSE d,
              layer.beat)

Vanish(layer, s) ==
  LET d == layer.inst[s]
  IN  [layer EXCEPT !.inst[s] = [d EXCEPT !.phase = IF @ = "LIVE" THEN "HIDDEN" ELSE @,
                                          !.lit = {}]]

\* ui_deco_set_state, from a scene's tick.
SetState(layer, s, open) ==
  LET d == layer.inst[s]
  IN  CASE d.open = open -> layer
        [] d.open # open /\ d.phase = "LIVE" ->
             Started(layer, s, [d EXCEPT !.open = open, !.morphing = TRUE], "fast")
        [] OTHER -> [layer EXCEPT !.inst[s].open = open]

\* The decoration of scene s is complete and every other is dark.
Settled(layer, s) ==
  \A t \in DOMAIN layer.inst :
    LET d == layer.inst[t]
    IN  IF t = s THEN d.phase = "LIVE" /\ d.lit = Complete(d)
                 ELSE d.phase = "HIDDEN" /\ d.lit = {}
=============================================================================
