------------------------------- MODULE DecoInk -------------------------------
(***************************************************************************)
(* main/ui_deco.c: what the decoration of a view leaves on the glass.      *)
(* draw_cb draws an element from its progress p, its phase ph, the pose    *)
(* and the slots; the panel shows the new picture only where an area was   *)
(* invalidated, and an element is invalidated when its visual signature    *)
(* changes.  DecoLayer has the phases and the timer of all instances; here *)
(* is one instance with elements of every kind, taken from the dashboard's *)
(* spec, and its milliseconds.                                             *)
(***************************************************************************)
EXTENDS Integers, FiniteSets

CONSTANTS
  Elements,   \* bound: the elements of the layer, of those of Elem
  Poses,      \* bound: the poses of the dashboard, of plain, chip and fleet
  Offsets,    \* bound: how far into its period a timer that is started may be
  Levels      \* bound: what pace, `?deco g' and `?deco 0' make of the brightness

ASSUME LayerOf ==
  /\ Elements \subseteq {"bracket", "line", "blocks", "cell"}
  /\ "plain" \in Poses /\ Poses \subseteq {"plain", "chip", "fleet"}
  /\ Offsets \subseteq Nat

VARIABLES
  course, elapsed,   \* d->phase, and the time since d->t0
  pose,       \* d->state
  prog, ph,      \* rt->p, rt->ph of every element
  seen,       \* rt->p_seen, rt->ph_seen
  fresh,      \* d->tick is zero: no beat yet since the layer came on show
  slot,       \* d->slot[0]
  level,      \* d->pace, s_gain and s_on; "off" draws nothing
  shown,      \* the scene is the current one
  stale,      \* the places invalidated since the last frame
  glass       \* what the panel shows in every place

deco == <<course, elapsed, pose, prog, ph, seen, fresh, slot, level, shown, stale, glass>>

-----------------------------------------------------------------------------
(* The spec *)

\* arch and cells (rn); delay and the span of the entrance; the poses it belongs
\* to; DECO_DEFER; whether it moves with the pose; how it looks when it is not
\* accented; the phases of live_phase, of which two stand for all, at the first
\* beat and later.  That a confirmation sweeps over an element is one of them.
Elem(e) ==
  CASE e = "bracket" -> [rn |-> 3, grow |-> TRUE, at |-> 430, span |-> 200, poses |-> {"plain", "chip"},
                         defer |-> TRUE, moves |-> FALSE, rest |-> 0, first |-> {1}, later |-> {0, 1}]
    [] e = "line"    -> [rn |-> 1, grow |-> TRUE, at |-> 380, span |-> 240, poses |-> Poses,
                         defer |-> FALSE, moves |-> TRUE, rest |-> 16, first |-> {1}, later |-> {1, 16}]
    [] e = "blocks"  -> [rn |-> 4, grow |-> FALSE, at |-> 290, span |-> 200, poses |-> Poses,
                         defer |-> FALSE, moves |-> FALSE, rest |-> 0, first |-> {0, 1}, later |-> {0, 1}]
    [] e = "cell"    -> [rn |-> 1, grow |-> FALSE, at |-> 520, span |-> 120, poses |-> Poses,
                         defer |-> TRUE, moves |-> TRUE, rest |-> 0, first |-> {0, 1}, later |-> {0, 1}]

Total == 660          \* in_total of that spec
Beat == 66            \* TICK_ANIM_MS

\* elem_on, elem_dy; a place is where an element stands in a pose.
On(e, s) == s \in Elem(e).poses
Dy(e, s) == IF Elem(e).moves THEN CASE s = "plain" -> -26 [] s = "chip" -> -4 [] OTHER -> 0 ELSE 0
Place(e, s) == <<e, Dy(e, s)>>
Places == {Place(e, s) : e \in Elements, s \in Poses}

\* build_rt: the exit is the entrance backwards in a third of the time.
OutAt(e) == ((Total - Elem(e).at - Elem(e).span) * 33) \div 100
OutSpan(e) == (Elem(e).span * 33) \div 100
OutTotal == Total

Done(from, span, now) ==
  IF now <= from THEN 0 ELSE IF now >= from + span THEN 1000 ELSE ((now - from) * 1000) \div span

Complete(s) == [e \in Elements |-> IF On(e, s) THEN 1000 ELSE 0]
Gone == [e \in Elements |-> 0]
Still == [e \in Elements |-> 0]

-----------------------------------------------------------------------------
(* Drawing *)

Blank == <<>>

\* draw_cb: what is lit of element e, how it is accented while the layer is on
\* show, what the slot makes of it, and how bright.
Filled(e) ==
  IF Elem(e).grow THEN prog[e] ELSE Cardinality({i \in 0 .. Elem(e).rn - 1 : prog[e] > (i * 1000) \div Elem(e).rn})

Picture(e) ==
  IF course = "HIDDEN" \/ level = "off" \/ prog[e] <= 0 THEN Blank
  ELSE <<Filled(e), IF course = "LIVE" THEN ph[e] ELSE Elem(e).rest,
         IF e = "blocks" THEN slot ELSE -1, level>>

\* visual_sig: the progress itself, or the number of thresholds it has passed.
Sig(e, x) == IF Elem(e).grow THEN x ELSE (x * Elem(e).rn) \div 1000

\* lv_obj_invalidate_area, of an object that may be on a scene that is not shown.
Invalid(S) == IF shown THEN stale \union S ELSE stale

\* flush_dirty: what has changed is drawn again, where it stands now.
Changed(p2, ph2) == {e \in Elements : <<Sig(e, p2[e]), ph2[e]>> # seen[e]}

Flush(p2, ph2) ==
  /\ prog' = p2 /\ ph' = ph2
  /\ seen' = [e \in Elements |-> IF e \in Changed(p2, ph2) THEN <<Sig(e, p2[e]), ph2[e]>> ELSE seen[e]]

Redrawn(p2, ph2) ==
  /\ Flush(p2, ph2)
  /\ stale' = Invalid({Place(e, pose) : e \in Changed(p2, ph2)})

\* LVGL draws what was invalidated.
Redraw ==
  /\ shown /\ stale # {}
  /\ glass' = [q \in Places |->
                 IF q \notin stale THEN glass[q]
                 ELSE IF q = Place(q[1], pose) THEN Picture(q[1]) ELSE Blank]
  /\ stale' = {}
  /\ UNCHANGED <<course, elapsed, pose, prog, ph, seen, fresh, slot, level, shown>>

-----------------------------------------------------------------------------
(* step_inst *)

Entering(now) ==
  [e \in Elements |->
     IF On(e, pose) /\ ~Elem(e).defer THEN Done(Elem(e).at, Elem(e).span, now) ELSE 0]

Leaving(now) ==
  [e \in Elements |-> IF On(e, pose) THEN 1000 - Done(OutAt(e), OutSpan(e), now) ELSE 0]

StepIn(now) ==
  /\ Redrawn(Entering(now), Still)
  /\ course' = IF now >= Total THEN "LIVE" ELSE "IN"

StepOut(now) ==
  /\ Redrawn(Leaving(now), Still)
  /\ course' = IF now >= OutTotal THEN "HIDDEN" ELSE "OUT"

\* Towards what the pose asks for, by a beat's share of the span.
Morphed(e) ==
  LET goal == IF On(e, pose) THEN 1000 ELSE 0
      span == IF On(e, pose) THEN Elem(e).span ELSE OutSpan(e)
      by   == (1000 * Beat) \div span
  IN  IF prog[e] < goal THEN (IF prog[e] + by > goal THEN goal ELSE prog[e] + by)
      ELSE (IF prog[e] - by < goal THEN goal ELSE prog[e] - by)

StepLive ==
  /\ course = "LIVE"
  /\ \E ph2 \in [Elements -> {0, 1, 16}] :
       /\ \A e \in Elements : ph2[e] \in IF fresh THEN Elem(e).first ELSE Elem(e).later
       /\ Redrawn([e \in Elements |-> Morphed(e)], ph2)
  /\ fresh' = FALSE
  /\ UNCHANGED <<course, elapsed, pose, slot, level, shown, glass>>

\* The refresh of the panel has no longer a period than the beat: it comes between
\* two of them.
Timer ==
  /\ shown => stale = {}
  /\ \/ /\ course \in {"IN", "OUT"}
        /\ \E by \in IF elapsed = 0 THEN Offsets ELSE {Beat} : elapsed' = IF elapsed + by > Total THEN Total ELSE elapsed + by
        /\ IF course = "IN" THEN StepIn(elapsed') ELSE StepOut(elapsed')
        /\ fresh' = (fresh \/ course' = "LIVE")
        /\ UNCHANGED <<pose, slot, level, shown, glass>>
     \/ StepLive

-----------------------------------------------------------------------------
(* The calls of the scenes and of `?deco' *)

\* ui_deco_intro and ui_deco_outro, in motion and at once.
Intro ==
  /\ elapsed' = 0 /\ course' = "IN" /\ Redrawn(Entering(0), Still)
  /\ UNCHANGED <<pose, fresh, slot, level, shown, glass>>

IntroAtOnce ==
  /\ course' = "LIVE" /\ prog' = Complete(pose) /\ ph' = Still /\ stale' = Invalid(Places)
  /\ fresh' = TRUE
  /\ UNCHANGED <<elapsed, pose, seen, slot, level, shown, glass>>

Outro ==
  /\ course # "HIDDEN"
  /\ elapsed' = 0 /\ course' = "OUT" /\ Redrawn(Leaving(0), Still)
  /\ UNCHANGED <<pose, fresh, slot, level, shown, glass>>

OutroAtOnce ==
  /\ course # "HIDDEN"
  /\ course' = "HIDDEN" /\ prog' = Gone /\ stale' = Invalid(Places)
  /\ UNCHANGED <<elapsed, pose, ph, seen, fresh, slot, level, shown, glass>>

\* The cut to this scene: everything of it is drawn, on_show calls ui_deco_live,
\* and the transition calls the entrance, in motion or at once.
Appear ==
  /\ ~shown /\ shown' = TRUE /\ stale' = Places
  /\ elapsed' = 0 /\ course' = "IN" /\ Flush(Entering(0), Still)
  /\ fresh' = (fresh \/ course = "HIDDEN")
  /\ UNCHANGED <<pose, slot, level, glass>>

AppearAtOnce ==
  /\ ~shown /\ shown' = TRUE /\ stale' = Places
  /\ course' = "LIVE" /\ prog' = Complete(pose) /\ ph' = Still /\ fresh' = TRUE
  /\ UNCHANGED <<elapsed, pose, seen, slot, level, glass>>

\* The cut to another one, which is drawn over it, and ui_deco_live.
Vanish ==
  /\ shown /\ shown' = FALSE /\ stale' = {}
  /\ glass' = [q \in Places |-> Blank]
  /\ course' = IF course = "LIVE" THEN "HIDDEN" ELSE course
  /\ prog' = Gone /\ ph' = Still
  /\ UNCHANGED <<elapsed, pose, seen, fresh, slot, level>>

\* ui_deco_set_slot.
SetSlot(v) ==
  /\ v # slot /\ slot' = v
  /\ stale' = Invalid({Place(e, pose) : e \in Elements \intersect {"blocks"}})
  /\ UNCHANGED <<course, elapsed, pose, prog, ph, seen, fresh, level, shown, glass>>

\* ui_deco_set_state: where the elements stood, and where they stand.
SetStateNewPlace(s) ==       \* mutant: the place they leave is not wiped
  /\ s # pose /\ pose' = s
  /\ stale' = IF course = "HIDDEN" THEN stale
              ELSE Invalid({Place(e, s) : e \in {x \in Elements : Elem(x).moves}})
  /\ UNCHANGED <<course, elapsed, prog, ph, seen, fresh, slot, level, shown, glass>>

SetState(s) ==
  /\ s # pose /\ pose' = s
  /\ stale' = IF course = "HIDDEN" THEN stale
              ELSE Invalid({Place(e, u) : e \in {x \in Elements : Elem(x).moves}, u \in {pose, s}})
  /\ UNCHANGED <<course, elapsed, prog, ph, seen, fresh, slot, level, shown, glass>>

\* ui_deco_set_pace, `?deco g', `?deco 0'.
SetLevel(v) ==
  /\ v # level /\ level' = v
  /\ stale' = IF course = "HIDDEN" THEN stale ELSE Invalid(Places)
  /\ UNCHANGED <<course, elapsed, pose, prog, ph, seen, fresh, slot, shown, glass>>

\* ui_deco_pulse.
Pulse ==
  /\ course = "LIVE" /\ "bracket" \in Elements
  /\ ph' = [ph EXCEPT !["bracket"] = 1]
  /\ seen' = [seen EXCEPT !["bracket"][2] = 1]
  /\ stale' = Invalid({Place("bracket", pose)})
  /\ UNCHANGED <<course, elapsed, pose, prog, fresh, slot, level, shown, glass>>

DecoOff ==
  /\ course = "HIDDEN" /\ elapsed = 0 /\ pose = "plain" /\ prog = Gone /\ ph = Still
  /\ seen = [e \in Elements |-> <<0, 0>>] /\ fresh = FALSE /\ slot = -1 /\ level = "off"
  /\ shown = FALSE /\ stale = {} /\ glass = [q \in Places |-> Blank]

\* Behind a scene that is not on show, or behind the first one, which comes
\* without a transition.
DecoInit ==
  /\ shown \in BOOLEAN /\ fresh = shown
  /\ IF shown THEN course = "LIVE" /\ prog = Complete("plain") /\ stale = Places
               ELSE course = "HIDDEN" /\ prog = Gone /\ stale = {}
  /\ elapsed = 0 /\ pose = "plain" /\ ph = Still /\ seen = [e \in Elements |-> <<0, 0>>]
  /\ slot = -1 /\ level = "lively" /\ glass = [q \in Places |-> Blank]

DecoNext ==
  \/ Redraw \/ Timer \/ Intro \/ IntroAtOnce \/ Outro \/ OutroAtOnce
  \/ Appear \/ AppearAtOnce \/ Vanish \/ Pulse
  \/ \E v \in {-1, 2} : SetSlot(v)
  \/ \E s \in Poses : SetState(s)
  \/ \E v \in Levels : SetLevel(v)

DecoSpec == DecoInit /\ [][DecoNext]_deco

-----------------------------------------------------------------------------
(* Properties *)

\* A picture without its accent, which a beat puts right.
Bare(picture) == IF picture = Blank THEN Blank ELSE <<picture[1], picture[3], picture[4]>>

\* On show and drawn, an element that is wholly there is on the glass as it is: in
\* the place of the pose and in no other, with the slot and the brightness as they
\* are now; whatever poses, slots, beats and interrupted entrances came before.
WholeInPlace ==
  shown /\ course = "LIVE" /\ stale = {} =>
    \A e \in Elements : prog[e] = 1000 =>
      \A q \in Places : q[1] = e =>
        Bare(glass[q]) = Bare(IF q = Place(e, pose) THEN Picture(e) ELSE Blank)

\* What the comment above visual_sig says of the elements that light up, that the
\* values of p with one signature look the same: an element of the pose that the
\* exit has taken back to zero has left the glass.
Retracts ==
  shown /\ course = "OUT" /\ stale = {} =>
    \A e \in Elements : On(e, pose) /\ prog[e] = 0 => glass[Place(e, pose)] = Blank
=============================================================================
