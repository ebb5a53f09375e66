------------------------------- MODULE GlowInk -------------------------------
(***************************************************************************)
(* main/ui_glow.c: how the light around the edge is drawn and wiped off    *)
(* again.  Five rings are stroked on a canvas as large as the panel, and   *)
(* for each frame only four strips along the edges are invalidated, as     *)
(* wide as the ink reaches; a strip too narrow leaves the last frame's ink *)
(* in the corners, where the rings' arcs reach deeper than their sides.    *)
(* Colours are left out; an ink is the light it belongs to and, for a      *)
(* ping, how far it has come in thousandths.                               *)
(***************************************************************************)
EXTENDS Integers, FiniteSets

CONSTANTS
  Beats,     \* bound: thousandths of a ping that may pass from one step to the next
  Frozen     \* bound: where `?glow' freezes a ping

\* A step comes no sooner than STEP_MS after the ping or the step before.
ASSUME Moments == (\A b \in Beats : b \in Nat /\ b >= 9) /\ Frozen \subseteq 0 .. 1000

VARIABLES
  ink,       \* s_ring: what the rings were solved for
  playing,   \* s_holding, and s_timer running
  sustain,   \* s_sustain: a light, "none" without s_sustain_on
  lastBand,  \* s_last_band
  dirty,     \* how wide the strips are that were invalidated since the last frame
  panel      \* the ink that the last frame has left on the panel

glow == <<ink, playing, sustain, lastBand, dirty, panel>>

Dark == <<"dark", 0>>
Ping(t) == <<"ping", t>>

Largest(S) == CHOOSE x \in S : \A y \in S : y <= x
Part(a, b, c) == (a * b) \div c
Clip(x, lo, hi) == IF x < lo THEN lo ELSE IF x > hi THEN hi ELSE x

-----------------------------------------------------------------------------
(* The rings *)

Rings == 0 .. 4
Step == 8  Width == 7  Radius == 76
MaxDisp == 5  MaxExpand == 8  MaxBlur == 4
Floor == 6      \* GLOW_OPA_FLOOR

Key == [peak |-> 200, spread |-> 255]
Status == [peak |-> 150, spread |-> 96]    \* UI_GLOW_WAITING and UI_GLOW_LOST

\* LVGL's table of sines from 0 to 90 degrees, divided by 328.
Sines ==
  <<0, 1, 3, 5, 6, 8, 10, 12, 13, 15, 17, 19, 20, 22, 24, 25, 27, 29, 30, 32, 34, 35, 37, 39, 40,
    42, 43, 45, 46, 48, 49, 51, 52, 54, 55, 57, 58, 60, 61, 62, 64, 65, 66, 68, 69, 70, 71, 73,
    74, 75, 76, 77, 78, 79, 80, 81, 82, 83, 84, 85, 86, 87, 88, 89, 89, 90, 91, 91, 92, 93, 93,
    94, 95, 95, 96, 96, 96, 97, 97, 98, 98, 98, 98, 99, 99, 99, 99, 99, 99, 99, 99>>

\* wave: tenths of a degree, -99 to 99.
Wave(phase) ==
  LET deg == (phase % 3600) \div 10
      quarter == Sines[1 + (IF deg % 180 <= 90 THEN deg % 180 ELSE 180 - (deg % 180))]
  IN  IF deg < 180 THEN quarter ELSE -quarter

Size(x) == IF x < 0 THEN -x ELSE x

\* What a style's spread leaves of an opacity: the last ring lit is dimmed.
Lit(style, i, v) == Part(v, Clip(style.spread * 5 - i * 255, 0, 255), 255)

\* The envelope of a ping: how bright it is, how far the rings are pushed outward and
\* how far the colours are spread apart.
Gain(t) ==
  IF t < 100 THEN Wave(9 * t) * 10
  ELSE IF t < 350 THEN 1000 ELSE Clip(Part(1000 - t, 1000, 650), 0, 1000)

Expand(t) ==
  IF t < 100 THEN Part(MaxExpand, 100 - t, 100)
  ELSE IF t > 350 THEN Part(MaxExpand, t - 350, 650) ELSE 0

SpreadAmp(t) == IF t < 250 THEN Part(MaxDisp, Wave(Part(900, t, 250)), 100) ELSE MaxDisp

\* What is each ring's own: the wave along the rings, in hundredths, and how far the
\* ring has gone out of focus.
Phase(i) == i * 720

Swing(t, i) ==
  LET pulse == Wave(Part(t, 72, 100) + Phase(i))
  IN  IF pulse < 0 THEN -Part(-pulse, 30, 100) ELSE Part(pulse, 30, 100)

Defocus(t, i) == Clip(Part(Clip(t - 380 - i * 74, 0, 1000), 1000, 370), 0, 1000)

Shift(t, turned) == Part(SpreadAmp(t), Size(Wave(turned)), 100)

\* solve_rings for ring i of a ping at t.
PingRing(t, i) ==
  LET angle == Part(t, 36, 100) + Phase(i) * 2
      k == 255 - i * 32
      full == Part(Part(Key.peak, Gain(t), 1000), Part(k, k, 255), 255)
      swung == Part(full, 100 + Swing(t, i), 100)
  IN  [inset |-> i * Step - Expand(t),
       width |-> Width + (IF Defocus(t, i) > 500 THEN MaxBlur ELSE 0),
       disp  |-> Largest({Shift(t, angle), Shift(t, angle + 900)}),
       opa   |-> Lit(Key, i, Part(swung, 1000, 1000 + (Defocus(t, i) \div 2)))]

\* solve_rings_static.
StatusRing(i) ==
  [inset |-> i * Step, width |-> Width, disp |-> 0,
   opa |-> Lit(Status, i, Part(Status.peak, 255 - i * 40, 255))]

DarkRing == [inset |-> 0, width |-> Width, disp |-> 0, opa |-> 0]

RingOf(x, i) ==
  CASE x[1] = "ping" -> PingRing(x[2], i) [] x = Dark -> DarkRing [] OTHER -> StatusRing(i)

\* draw_cb and ink_band leave out the rings below the floor.
Seen(x) == {i \in Rings : RingOf(x, i).opa >= Floor}

\* How deep the ink of ring i reaches from the edge, in thousandths of a pixel:
\* along the sides, and on the diagonal of a corner, whose arc has the same
\* radius whatever the inset.
Reach(r, i) ==
  LET side == 1000 * (r.inset + r.width + r.disp)
      arc == 1000 * (r.inset + Radius - i * Step + r.disp) - 707 * (Radius - i * Step - r.width)
  IN  Largest({side, arc, 0})

Inks == {Ping(t) : t \in 0 .. 1000} \union {Dark, <<"amber", 0>>, <<"red", 0>>}

Depth == [x \in Inks |-> Largest({0} \union {Reach(RingOf(x, i), i) : i \in Seen(x)})]

Deepest(x) ==
  LET ends == {LET r == RingOf(x, i) IN r.inset + r.width + r.disp : i \in Seen(x)}
  IN  Largest({0} \union ends)

BandOfSides == [x \in Inks |-> IF Deepest(x) = 0 THEN 0 ELSE Deepest(x) + 6]
                             \* mutant: as wide as the sides ask for

\* ink_band: the sides' depth taken through the corner.
Band ==
  [x \in Inks |-> IF Deepest(x) = 0 THEN 0
                  ELSE Radius - Part(Clip(Radius - Deepest(x), 0, Radius), 707, 1000) + 6]

-----------------------------------------------------------------------------
(* The canvas *)

GlowInit ==
  /\ ink = Dark /\ playing = FALSE /\ sustain = "none"
  /\ lastBand = 0 /\ dirty = 0 /\ panel = Dark

\* The rings are solved anew and invalidate_bands wipes what the last call has
\* seen drawn and what is drawn now.
Show(x) ==
  /\ ink' = x
  /\ dirty' = Largest({dirty, Band[x], lastBand})
  /\ lastBand' = Band[x]
  /\ UNCHANGED panel

Rest == IF sustain = "none" THEN Dark ELSE <<sustain, 0>>

\* ui_glow_ping: from its beginning, however far another has come.
StartPing == Show(Ping(0)) /\ playing' = TRUE /\ UNCHANGED sustain

\* step_cb; settle at the end.
PlayOn ==
  /\ playing
  /\ \E b \in Beats :
       LET t == ink[2] + b
       IN  IF t < 1000 THEN Show(Ping(t)) /\ UNCHANGED playing
                       ELSE Show(Rest) /\ playing' = FALSE
  /\ UNCHANGED sustain

\* ui_glow_sustain and ui_glow_sustain_clear.
SustainOn(light) ==
  /\ sustain' = light
  /\ IF playing THEN UNCHANGED <<ink, dirty, lastBand, panel>> ELSE Show(<<light, 0>>)
  /\ UNCHANGED playing

SustainClear ==
  /\ sustain # "none" /\ sustain' = "none"
  /\ IF playing THEN UNCHANGED <<ink, dirty, lastBand, panel>> ELSE Show(Dark)
  /\ UNCHANGED playing

\* glow_freeze: the timer stops at a moment of the ping, or the light settles.
Freeze(t) == Show(Ping(t)) /\ playing' = FALSE /\ UNCHANGED sustain

Unfreeze == Show(Rest) /\ playing' = FALSE /\ UNCHANGED sustain

\* LVGL draws what was invalidated.
Frame ==
  /\ dirty > 0
  /\ panel' = ink /\ dirty' = 0
  /\ UNCHANGED <<ink, playing, sustain, lastBand>>

GlowNext ==
  \/ StartPing \/ PlayOn \/ SustainClear \/ Unfreeze \/ Frame
  \/ \E light \in {"amber", "red"} : SustainOn(light)
  \/ \E t \in Frozen : Freeze(t)

GlowSpec == GlowInit /\ [][GlowNext]_glow

\* Whatever lights follow each other between two frames, the strips that the
\* next frame draws hold all the ink that is on the panel and all that comes:
\* nothing of a former light stays in a corner, nothing of the new one is cut.
InkErased ==
  panel # ink => Depth[panel] <= 1000 * dirty /\ Depth[ink] <= 1000 * dirty
=============================================================================
