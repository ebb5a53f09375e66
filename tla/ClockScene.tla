----------------------------- MODULE ClockScene ------------------------------
(***************************************************************************)
(* main/scenes/scene_clock.c: the big clock and the card it pushes when an *)
(* agent starts or ends.  One record is the scene; an operator is one of   *)
(* its handlers.  A glide or a fade is kept by the end it is going to,     *)
(* and Landed puts it there: the milliseconds and the curves are left out, *)
(* so are the texts, the weather line, the orbit of the dot and the blink  *)
(* of the colon.                                                           *)
(*                                                                         *)
(* The fields:                                                             *)
(*   push   push_active                                                    *)
(*   hold   whether the dwell timer push_hold runs                         *)
(*   ok     motion_ok, the mirror taken by on_show                         *)
(*   face   text_opa of the face: "full", "clear", or fading "in" / "out"  *)
(*   y      where the face stands: "rest" or the top "slot"                *)
(*   slide  anim_grp_y: "none", or the place it takes the face to          *)
(*   size   the face's rung at the ends of the morph: "big" or "small"     *)
(*   morph  anim_face_morph: "none", or the size it is going to            *)
(*   top    the status bar's small clock: "hidden", "full", "in", "out"    *)
(*   card   the pushed card: "hidden", "shown", "in", "out"                *)
(*   prev   run_prev: whether the agent ran at the previous tick           *)
(***************************************************************************)

New == [push |-> FALSE, hold |-> FALSE, ok |-> FALSE, face |-> "full",
        y |-> "rest", slide |-> "none", size |-> "big", morph |-> "none",
        top |-> "hidden", card |-> "hidden", prev |-> FALSE]

\* The two ends of the morph (anim_face_morph at 1000 and at 0).
Big(c) == [c EXCEPT !.size = "big", !.y = "rest"]
Small(c) == [c EXCEPT !.size = "small", !.y = "slot"]

\* What to_consensus and from_consensus begin with: every animation of the
\* face and of the small clock ends, the small clock hides, the face shows.
FaceAloneOpaLeft(c) ==       \* mutant: a face that has faded out stays so
  [c EXCEPT !.morph = "none", !.slide = "none", !.top = "hidden"]

FaceAlone(c) ==
  [c EXCEPT !.morph = "none", !.slide = "none", !.top = "hidden", !.face = "full"]

\* clock_trans_to_consensus.  A face that a card has sent to the top lands
\* there at once.
ToConsensus(c, move) ==
  IF move /\ ~c.push THEN [FaceAlone(c) EXCEPT !.morph = "small"]
                     ELSE Small(FaceAlone(c))

\* clock_trans_from_consensus: the face starts as the small clock and grows.
FromConsensus(c, move) ==
  IF move THEN [Small(FaceAlone(c)) EXCEPT !.morph = "big"]
          ELSE Big(FaceAlone(c))

\* clock_entrance: the face comes down from the slot while it fades in.
Entrance(c) ==
  IF c.ok THEN [c EXCEPT !.y = "slot", !.slide = "rest", !.face = "in"]
          ELSE [c EXCEPT !.y = "rest", !.slide = "none", !.face = "full"]

\* retreat_clock: the face goes up and out, the small clock comes in there.
Retreat(c) ==
  IF c.ok THEN [c EXCEPT !.slide = "slot", !.face = "out", !.top = "in"]
          ELSE [c EXCEPT !.y = "slot", !.slide = "none", !.face = "clear", !.top = "full"]

\* enter_push: the card comes in.
EnterPush(c) == [c EXCEPT !.card = IF c.ok THEN "in" ELSE "shown"]

\* clock_push_trigger: a card is up already, or the clock makes room for it.
Trigger(c) ==
  IF c.push THEN c
  ELSE [EnterPush(Retreat(c)) EXCEPT !.push = TRUE, !.hold = TRUE]

\* clock_push_dismiss, when the dwell timer fires.  A small clock that is
\* hidden stays hidden, whatever its fade.
DismissHoldsOn(c) ==         \* mutant: the small clock stays on the glass
  [Entrance(c) EXCEPT !.push = FALSE, !.hold = FALSE,
                      !.card = IF c.ok THEN "out" ELSE "hidden"]

Dismiss(c) ==
  [Entrance(c) EXCEPT !.push = FALSE, !.hold = FALSE,
                      !.card = IF c.ok THEN "out" ELSE "hidden",
                      !.top = IF c.ok /\ c.top # "hidden" THEN "out" ELSE "hidden"]

\* clock_tick: the agent started or stopped since the previous tick; one that
\* stopped to wait for an answer pushes nothing.
Tick(c, status) ==
  LET runs == status = "running"
      event == IF c.prev THEN status = "none" ELSE runs
  IN  IF event THEN [Trigger(c) EXCEPT !.prev = runs] ELSE [c EXCEPT !.prev = runs]

\* clock_on_hide tears a card down and parks the face; clock_on_show does so
\* again, mirrors the motion setting, and its tick only seeds run_prev.
Hide(c) ==
  Big([FaceAlone(c) EXCEPT !.push = FALSE, !.hold = FALSE, !.card = "hidden"])

Show(c, ok, status) ==
  Big([c EXCEPT !.push = FALSE, !.hold = FALSE, !.card = "hidden", !.top = "hidden",
                !.face = "full", !.ok = ok, !.prev = status = "running"])

\* The transition's own animations have reached their ends: it waits for them.
Arrived(c) ==
  [c EXCEPT
     !.y = IF c.morph = "none" \/ c.slide # "none" THEN c.y
           ELSE IF c.morph = "big" THEN "rest" ELSE "slot",
     !.size = IF c.morph = "none" THEN c.size ELSE c.morph,
     !.morph = "none"]

\* Every animation in flight has reached its end.  A slide outlasts the morph
\* it was started beside, and a fade to nothing hides the small clock and the
\* card.
Opaque(v) == CASE v = "in" -> "full" [] v = "out" -> "clear" [] OTHER -> v

Landed(c) ==
  LET a == Arrived(c)
  IN  [a EXCEPT
         !.y = IF c.slide = "none" THEN a.y ELSE c.slide,
         !.slide = "none", !.face = Opaque(c.face),
         !.top = CASE c.top = "in" -> "full" [] c.top = "out" -> "hidden" [] OTHER -> c.top,
         !.card = CASE c.card = "in" -> "shown" [] c.card = "out" -> "hidden" [] OTHER -> c.card]
=============================================================================
