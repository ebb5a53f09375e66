------------------------------- MODULE Sprites -------------------------------
(***************************************************************************)
(* main/scene_trans.c: an actor of the weather view, the only scene whose  *)
(* actors may be baked: for the time of a transition a bitmap moves in its *)
(* place (`?bake', off by default).  One record is the actor, one operator *)
(* what a handler does to it.                                              *)
(*                                                                         *)
(* The fields:                                                             *)
(*   bake    s_bake_on and memory for a snapshot                           *)
(*   at      where the object stands: "rest", "out", or "mid" on the way   *)
(*   hidden  its HIDDEN flag, which a sprite uses and the content does     *)
(*   sprite  where its sprite stands, "none" without one                   *)
(*   fly     its animation: "in", "out" or "none"                          *)
(***************************************************************************)

\* scene_trans_bind: the object stands at rest; baking is off.
New == [bake |-> FALSE, at |-> "rest", hidden |-> FALSE, sprite |-> "none", fly |-> "none"]

\* anim_actor_pos moves actor_target: the sprite when there is one.
MoveTo(a, pos) == IF a.sprite = "none" THEN [a EXCEPT !.at = pos] ELSE [a EXCEPT !.sprite = pos]

\* actor_kill_anims: it stays where the animation has brought it.
Kill(a) == IF a.fly = "none" THEN a ELSE [MoveTo(a, "mid") EXCEPT !.fly = "none"]

Arrived(a) ==
  CASE a.fly = "in" -> [MoveTo(a, "rest") EXCEPT !.fly = "none"]
    [] a.fly = "out" -> [MoveTo(a, "out") EXCEPT !.fly = "none"]
    [] OTHER -> a

\* ghost_begin: the sprite covers the object, which is hidden under it.
Begin(a) ==
  IF a.bake /\ a.sprite = "none" /\ ~a.hidden
    THEN [a EXCEPT !.sprite = a.at, !.hidden = TRUE] ELSE a

EndForgetsFlag(a) ==         \* mutant: the object stays hidden
  IF a.sprite = "none" THEN a ELSE [a EXCEPT !.at = a.sprite, !.sprite = "none"]

\* ghost_end: the sprite hands its pose back and is deleted.
End(a) ==
  IF a.sprite = "none" THEN a
  ELSE [a EXCEPT !.at = a.sprite, !.sprite = "none", !.hidden = FALSE]

\* play_outro and play_intro of the actor, which no other view shares: a hidden
\* one is left out, and one under its sprite is hidden.
Outro(a, move) ==
  LET stopped == Kill(a)
  IN  IF a.hidden THEN stopped
      ELSE IF move THEN [Begin(stopped) EXCEPT !.fly = "out"]
      ELSE MoveTo(End(stopped), "out")

Intro(a, move) ==
  LET stopped == Kill(a)
  IN  IF a.hidden THEN stopped
      ELSE IF move THEN [MoveTo(Begin(stopped), "out") EXCEPT !.fly = "in"]
      ELSE MoveTo(End(stopped), "rest")

\* The tick of the weather view hides its waiting label once there is weather,
\* outside transitions only.
Tick(a, told, busy) == IF told /\ ~busy THEN [a EXCEPT !.hidden = TRUE] ELSE a

\* Standing free: no sprite, and seen at rest unless the content hides it.
Free(a) == a.sprite = "none" /\ (a.hidden \/ a.at = "rest")
=============================================================================
