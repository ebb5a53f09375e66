---------------------------- MODULE WeatherScene -----------------------------
(***************************************************************************)
(* main/scenes/scene_weather.c: what the weather view shows of the data it *)
(* was given.  Its two pictures, the illustration and the five-day strip,  *)
(* are baked into bitmaps or, when that is off or fails, drawn as live     *)
(* vectors; caches by identity keep it from baking what has not changed.   *)
(* One record is the scene, one operator a handler.  Drawing is left out:  *)
(* a picture is the data and the theme it was made from.                   *)
(*                                                                         *)
(* The fields:                                                             *)
(*   on, applied   s_comp_on, and comp_applied: bake, or live vectors      *)
(*   stamp, drawn  wx_stamp (0: none yet) and wx_drawn                     *)
(*   seen          theme_seen                                              *)
(*   code, sig     big_code and strip_sig: what the bitmaps were made of   *)
(*   illus, strip  what the pictures show: "none", or data and theme       *)
(*   words         the labels: the stamp of the data they were set from    *)
(*   time          the clock label's pose: "rest" or "consensus"           *)
(*   morph         its morph: "none", or the pose it goes to               *)
(***************************************************************************)
EXTENDS Naturals

New(theme) ==
  [on |-> TRUE, applied |-> TRUE, stamp |-> 0, drawn |-> FALSE, seen |-> theme,
   code |-> "none", sig |-> "none", illus |-> <<"none", "live">>,
   strip |-> <<"none", "live">>, words |-> 0, time |-> "rest", morph |-> "none"]

\* wx_trans_to_consensus and wx_trans_from_consensus.
ToConsensus(w, move) ==
  IF move THEN [w EXCEPT !.morph = "consensus"]
          ELSE [w EXCEPT !.morph = "none", !.time = "consensus"]

FromConsensus(w, move) ==
  IF move THEN [w EXCEPT !.time = "consensus", !.morph = "rest"]
          ELSE [w EXCEPT !.morph = "none", !.time = "rest"]

Landed(w) ==
  [w EXCEPT !.time = IF w.morph = "none" THEN w.time ELSE w.morph, !.morph = "none"]

\* The theme watch: the ground is baked into the bitmaps, so another theme
\* voids both identities.
ThemeWatchKeepsIllus(w, theme) ==    \* mutant: the illustration's identity stays
  IF theme = w.seen THEN w
  ELSE [w EXCEPT !.seen = theme, !.sig = "none", !.drawn = FALSE]

ThemeWatch(w, theme) ==
  IF theme = w.seen THEN w
  ELSE [w EXCEPT !.seen = theme, !.code = "none", !.sig = "none", !.drawn = FALSE]

\* `?wxcomp' and a failed bake only flip s_comp_on; the change of form is
\* applied here, outside transitions, and clears both pictures.
ApplyForm(w) ==
  IF w.applied = w.on THEN w
  ELSE [w EXCEPT !.applied = w.on, !.code = "none", !.sig = "none", !.drawn = FALSE,
                 !.illus = <<"none", "live">>, !.strip = <<"none", "live">>]

\* A bitmap is composed on the ground of the theme of its moment; live vectors
\* have the one that is there.
Ground(w) == IF w.applied THEN w.seen ELSE "live"

\* The picture of the given content.
Picture(w, content) == <<content, Ground(w)>>

\* render_weather.  A bitmap is made again when its identity has changed; a
\* bake that fails leaves what the old one shows, forgets the identity, and
\* turns baking off for the next tick.
Render(w, data, illusBakes, stripBakes) ==
  LET stripDirty == ~w.applied \/ w.strip[1] = "none" \/ w.sig # data.days
      illusDirty == ~w.applied \/ w.illus[1] = "none" \/ w.code # data.code
      stripOk    == ~w.applied \/ ~stripDirty \/ stripBakes
      illusOk    == ~w.applied \/ ~illusDirty \/ illusBakes
  IN  [w EXCEPT
         !.words = data.stamp, !.drawn = TRUE,
         !.strip = IF stripDirty /\ stripOk THEN Picture(w, data.days) ELSE @,
         !.sig = IF w.applied /\ stripDirty
                   THEN IF stripOk THEN data.days ELSE "none" ELSE @,
         !.illus = IF illusDirty /\ illusOk THEN Picture(w, data.code) ELSE @,
         !.code = IF w.applied /\ illusDirty
                    THEN IF illusOk THEN data.code ELSE "none" ELSE @,
         !.on = @ /\ stripOk /\ illusOk]

\* weather_tick: the theme at any time, form and content outside transitions.
\* The breath of the illustration, which ends the tick, bakes it once more
\* from the vectors on its stage and may fail as well.
Tick(w, data, theme, busy, illusBakes, stripBakes, breathes) ==
  LET formed == IF busy THEN ThemeWatch(w, theme) ELSE ApplyForm(ThemeWatch(w, theme))
      dirty  == data.stamp # 0 /\ (data.stamp # formed.stamp \/ ~formed.drawn)
      drawn  == IF busy \/ ~dirty THEN formed
                ELSE Render([formed EXCEPT !.stamp = data.stamp], data,
                            illusBakes, stripBakes)
  IN  IF busy \/ breathes THEN drawn ELSE [drawn EXCEPT !.on = @ /\ ~drawn.applied]

\* weather_on_show asks for a new drawing; its own tick finds the transition
\* still under way and leaves the drawing to the first tick at rest.
Show(w) == [w EXCEPT !.drawn = FALSE]

\* The pictures and the words tell the data received last.
Tells(w, data, theme) ==
  data.stamp # 0 =>
    /\ w.words = data.stamp
    /\ w.illus \in {<<data.code, theme>>, <<data.code, "live">>}
    /\ w.strip \in {<<data.days, theme>>, <<data.days, "live">>}
=============================================================================
