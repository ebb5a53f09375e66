-------------------------- MODULE DeviceParts_proofs --------------------------
(***************************************************************************)
(* Theorems about four parts of the device: that no press after the boot   *)
(* is lost between the key and button_router_press (Keys), that every      *)
(* cycle, frame and late frame is in exactly one report of                 *)
(* main/perf_mon.c (Meters), that what a decoration shows as wholly there  *)
(* is on the glass as it is (DecoInk), and that a handler gets the member  *)
(* it asks for of any JSON line, whole or torn (JsonRead); for any number  *)
(* of presses, frames, beats, members and characters.                      *)
(***************************************************************************)
EXTENDS DeviceSide, FiniteSetTheorems, TLAPS

-----------------------------------------------------------------------------
(* Keys *)

Sources == {"pmu", "gpio", "sim"}

\* What is left of the boot at any moment of it.
Stages ==
  {BringUp, <<"pwr_key_init", "boot", "user", "pwr">>, <<"boot", "user", "pwr">>,
   <<"user", "pwr">>, <<"pwr">>, <<>>}

\* The keys that have been bound by then.
BoundBy(s) ==
  CASE s = <<>> -> AllKeys
    [] s = <<"pwr">> -> GpioKeys
    [] s = <<"user", "pwr">> -> {"boot"}
    [] OTHER -> {}

KeysInv ==
  /\ todo \in Stages
  /\ BoundBy(todo) \subseteq handler
  /\ owed \subseteq Sources \X AllKeys
  /\ todo # <<>> => owed = {}
  /\ step = "read" => sts = {}
  /\ sims \in Nat
  /\ PressOnItsWay

\* The stages in their order.
LEMMA StageTails ==
  /\ Tail(BringUp) = <<"pwr_key_init", "boot", "user", "pwr">>
  /\ Tail(<<"pwr_key_init", "boot", "user", "pwr">>) = <<"boot", "user", "pwr">>
  /\ Tail(<<"boot", "user", "pwr">>) = <<"user", "pwr">>
  /\ Tail(<<"user", "pwr">>) = <<"pwr">>
  /\ Tail(<<"pwr">>) = <<>>
BY DEF BringUp

\* Only the first of them wipes handlers, and none are bound before it ends;
\* every later one binds the key at its head.
LEMMA StageStep ==
  ASSUME todo \in Stages, BoundBy(todo) \subseteq handler,
         ButtonsInit \/ PwrKeyInit \/ Bind
  PROVE  todo # <<>> /\ todo' \in Stages /\ BoundBy(todo') \subseteq handler'
<1>1. CASE todo = BringUp
  BY <1>1, StageTails DEF BringUp, Stages, BoundBy, ButtonsInit, PwrKeyInit, Bind, AllKeys, GpioKeys
<1>2. CASE todo = <<"pwr_key_init", "boot", "user", "pwr">>
  BY <1>2, StageTails DEF Stages, BoundBy, ButtonsInit, PwrKeyInit, Bind, AllKeys, GpioKeys
<1>3. CASE todo = <<"boot", "user", "pwr">>
  BY <1>3, StageTails DEF Stages, BoundBy, ButtonsInit, PwrKeyInit, Bind, AllKeys, GpioKeys
<1>4. CASE todo = <<"user", "pwr">>
  BY <1>4, StageTails DEF Stages, BoundBy, ButtonsInit, PwrKeyInit, Bind, AllKeys, GpioKeys
<1>5. CASE todo = <<"pwr">>
  BY <1>5, StageTails DEF Stages, BoundBy, ButtonsInit, PwrKeyInit, Bind, AllKeys, GpioKeys
<1>6. QED
  BY <1>1, <1>2, <1>3, <1>4, <1>5 DEF Stages, ButtonsInit, PwrKeyInit, Bind

LEMMA KeysStart == KeysInit => KeysInv
BY DEF KeysInit, KeysInv, Stages, BoundBy, BringUp, PressOnItsWay

\* Every step of the boot, the drivers and the keys keeps the invariant.
LEMMA KeysStep == KeysInv /\ [KeysNext]_keyVars => KeysInv'
<1> SUFFICES ASSUME KeysInv, [KeysNext]_keyVars PROVE KeysInv'
  OBVIOUS
<1>1. CASE ButtonsInit \/ PwrKeyInit \/ Bind
  <2>1. todo # <<>> /\ todo' \in Stages /\ BoundBy(todo') \subseteq handler'
    BY <1>1, StageStep DEF KeysInv
  <2>2. owed = {} /\ owed' = {}
    BY <1>1, <2>1 DEF KeysInv, ButtonsInit, PwrKeyInit, Bind, driver
  <2>3. step' = step /\ sts' = sts /\ sims' = sims
    BY <1>1 DEF ButtonsInit, PwrKeyInit, Bind, driver
  <2>4. QED
    BY <2>1, <2>2, <2>3 DEF KeysInv, PressOnItsWay
<1>2. CASE KeyDown \/ ShortPress
  <2>1. owed' \subseteq owed \union {<<"pmu", "pwr">>} /\ latch \subseteq latch'
    BY <1>2 DEF KeyDown, ShortPress, Press
  <2>2. UNCHANGED <<todo, handler, step, sts, clicks, simKey, sims>>
    BY <1>2 DEF KeyDown, ShortPress
  <2>3. todo # <<>> => owed' = owed
    BY <1>2 DEF KeyDown, ShortPress, Press
  <2>4. <<"pmu", "pwr">> \in owed' \ owed => "short" \in latch' /\ todo = <<>>
    BY <1>2 DEF KeyDown, ShortPress, Press, Bits
  <2>5. todo = <<>> => "pwr" \in handler
    BY DEF KeysInv, BoundBy, AllKeys
  <2>6. PressOnItsWay'
    BY <2>1, <2>2, <2>4, <2>5 DEF KeysInv, PressOnItsWay
  <2>7. QED
    BY <2>1, <2>2, <2>3, <2>6 DEF KeysInv, Sources, AllKeys
<1>3. CASE PollRead
  BY <1>3 DEF PollRead, KeysInv, PressOnItsWay
<1>4. CASE PollClear
  BY <1>4 DEF PollClear, KeysInv, PressOnItsWay
<1>5. CASE PollCall
  <2>1. owed' \subseteq owed /\ step' = "read" /\ sts' = {}
    BY <1>5 DEF PollCall, Routed
  <2>2. UNCHANGED <<todo, handler, latch, clicks, simKey, sims>>
    BY <1>5 DEF PollCall
  <2>3. <<"pmu", "pwr">> \in owed' => "short" \in latch /\ "pwr" \in handler
    <3> SUFFICES ASSUME <<"pmu", "pwr">> \in owed'
                 PROVE  "short" \in latch /\ "pwr" \in handler
      OBVIOUS
    <3>1. ~("short" \in sts /\ "pwr" \in handler)
      BY <1>5 DEF PollCall, Routed
    <3>2. QED
      BY <2>1, <3>1 DEF KeysInv, PressOnItsWay
  <2>4. PressOnItsWay'
    BY <2>1, <2>2, <2>3 DEF KeysInv, PressOnItsWay
  <2>5. QED
    BY <2>1, <2>2, <2>4 DEF KeysInv
<1>6. ASSUME NEW k \in GpioKeys, Click(k)
      PROVE  KeysInv'
  <2>1. owed' \subseteq owed \union {<<"gpio", k>>} /\ clicks' = clicks \union {k}
    BY <1>6 DEF Click, Press
  <2>2. UNCHANGED <<todo, handler, latch, step, sts, simKey, sims>>
    BY <1>6 DEF Click
  <2>3. (todo # <<>> => owed' = owed) /\ (owed' # owed => k \in handler)
    BY <1>6 DEF Click, Press, KeysInv, BoundBy, AllKeys, GpioKeys
  <2>4. PressOnItsWay'
    BY <2>1, <2>2, <2>3 DEF KeysInv, PressOnItsWay
  <2>5. QED
    BY <2>1, <2>2, <2>3, <2>4 DEF KeysInv, Sources, AllKeys, GpioKeys
<1>7. ASSUME NEW k \in GpioKeys, Dispatch(k)
      PROVE  KeysInv'
  <2>1. owed' \subseteq owed /\ clicks' = clicks \ {k}
    BY <1>7 DEF Dispatch, Routed
  <2>2. UNCHANGED <<todo, handler, latch, step, sts, simKey, sims>>
    BY <1>7 DEF Dispatch
  <2>3. \A o \in owed' : o[2] # k \/ k \notin handler
    BY <1>7 DEF Dispatch, Routed
  <2>4. PressOnItsWay'
    BY <2>1, <2>2, <2>3 DEF KeysInv, PressOnItsWay
  <2>5. QED
    BY <2>1, <2>2, <2>4 DEF KeysInv
<1>8. ASSUME NEW k \in AllKeys, Simulate(k)
      PROVE  KeysInv'
  <2>1. UNCHANGED <<todo, handler, latch, step, sts, clicks>> /\ simKey' = k /\ sims' \in Nat
    BY <1>8 DEF Simulate, KeysInv
  <2>2. \A o \in owed' : (o \in owed /\ o[1] # "sim") \/ (o = <<"sim", k>> /\ sims' > 0 /\ todo = <<>>)
    BY <1>8 DEF Simulate, KeysInv
  <2>3. PressOnItsWay'
    BY <2>1, <2>2 DEF KeysInv, PressOnItsWay
  <2>4. owed' \subseteq Sources \X AllKeys /\ (todo # <<>> => owed' = {})
    BY <2>2 DEF KeysInv, Sources
  <2>5. QED
    BY <2>1, <2>3, <2>4 DEF KeysInv
<1>9. CASE SimTask
  <2>1. owed' \subseteq owed /\ sims' \in Nat /\ \A o \in owed' : o[2] # simKey
    BY <1>9 DEF SimTask, Routed, KeysInv
  <2>2. UNCHANGED <<todo, handler, latch, step, sts, clicks, simKey>>
    BY <1>9 DEF SimTask
  <2>3. PressOnItsWay'
    BY <2>1, <2>2 DEF KeysInv, PressOnItsWay
  <2>4. QED
    BY <2>1, <2>2, <2>3 DEF KeysInv
<1>10. CASE UNCHANGED keyVars
  BY <1>10 DEF keyVars, KeysInv, PressOnItsWay
<1>11. QED
  BY <1>1, <1>2, <1>3, <1>4, <1>5, <1>6, <1>7, <1>8, <1>9, <1>10 DEF KeysNext

\* A press after the boot, of the power key, of a GPIO key or simulated, stays on
\* its way to button_router_press until it gets there (poll_task, dispatch_cb,
\* btn_sim_task), however presses fall among the polls and whatever writes fail.
THEOREM PressesArrive == KeysSpec => []PressOnItsWay
<1>1. KeysInv => PressOnItsWay
  BY DEF KeysInv
<1>2. QED
  BY <1>1, KeysStart, KeysStep, PTL DEF KeysSpec

-----------------------------------------------------------------------------
(* Meters *)

Counters == {"refr", "draw", "overrun", "flush"}
Locked == {"refr", "draw", "overrun"}
Sums == [Counters -> Int]

MetersType ==
  /\ stage \in {"rest", "cycle", "flush", "ready"}
  /\ drew \in BOOLEAN
  /\ mux \in {"lvgl", "console", "nobody"}
  /\ loaded \in Int
  /\ tally \in Sums /\ copied \in Sums /\ reported \in Sums /\ counted \in Sums

\* The LVGL task is inside exactly between Enter and RefrReady, and what the
\* console has copied is still there when it clears it.
Inside ==
  /\ stage = "ready" <=> mux = "lvgl"
  /\ mux = "console" => \A c \in Locked : copied[c] = tally[c]

Balanced == \A c \in Locked : reported[c] + tally[c] = counted[c]

MetersInv == MetersType /\ Inside /\ Balanced

\* Sums of sums are sums, counter by counter.
LEMMA PlusAdds ==
  ASSUME NEW a \in Sums, NEW b \in Sums
  PROVE  Plus(a, b) \in Sums /\ \A c \in Counters : Plus(a, b)[c] = a[c] + b[c]
BY DEF Plus, Sums

LEMMA ZeroIsSum == Zero \in Sums /\ \A c \in Locked : Zero[c] = 0
BY DEF Zero, Sums, Counters, Locked

LEMMA CycleIsSum ==
  ASSUME MetersType, NEW late \in BOOLEAN
  PROVE  Cycle(late) \in Sums
<1>1. (IF drew THEN 1 ELSE 0) \in Int /\ (IF drew /\ late THEN 1 ELSE 0) \in Int
  OBVIOUS
<1>2. QED
  BY <1>1 DEF Cycle, Sums, Counters

\* The panel before perf_mon_init.
LEMMA MetersInit == MetersOff => MetersInv
<1> SUFFICES ASSUME MetersOff PROVE MetersInv
  OBVIOUS
<1>0. drew \in BOOLEAN /\ stage = "rest" /\ mux = "nobody"
  BY DEF MetersOff
<1>1. MetersType /\ Inside
  BY <1>0, ZeroIsSum DEF MetersOff, MetersType, Inside
<1>2. Balanced
  BY ZeroIsSum DEF MetersOff, Balanced
<1>3. QED
  BY <1>1, <1>2 DEF MetersInv

\* Every step of either core keeps the invariant.
LEMMA MetersStep == MetersInv /\ [MetersNext]_meters => MetersInv'
<1> SUFFICES ASSUME MetersInv, [MetersNext]_meters PROVE MetersInv'
  OBVIOUS
<1> USE DEF MetersInv
<1>1. CASE RefrStart \/ RenderStart \/ FlushLoad \/ Enter
  <2>1. tally["flush"] \in Int
    BY DEF MetersType, Sums, Counters
  <2>2. QED
    BY <1>1, <2>1 DEF RefrStart, RenderStart, FlushLoad, Enter, MetersType, Inside, Balanced
<1>2. CASE FlushStore
  <2>1. tally' \in Sums /\ counted' \in Sums
    BY <1>2 DEF FlushStore, MetersType, Sums, Counters
  <2>2. \A c \in Locked : tally'[c] = tally[c] /\ counted'[c] = counted[c]
    BY <1>2 DEF FlushStore, MetersType, Sums, Counters, Locked
  <2>3. QED
    BY <1>2, <2>1, <2>2 DEF FlushStore, MetersType, Inside, Balanced
<1>3. CASE RefrReady
  <2>1. PICK late \in BOOLEAN : tally' = Plus(tally, Cycle(late)) /\ counted' = Plus(counted, Cycle(late))
    BY <1>3 DEF RefrReady
  <2>2. mux = "lvgl" /\ stage' = "rest" /\ mux' = "nobody"
    BY <1>3 DEF RefrReady, Inside
  <2>3. /\ tally' \in Sums /\ counted' \in Sums
        /\ \A c \in Locked : /\ tally'[c] = tally[c] + Cycle(late)[c]
                             /\ counted'[c] = counted[c] + Cycle(late)[c]
                             /\ Cycle(late)[c] \in Int
    BY <2>1, CycleIsSum, PlusAdds DEF MetersType, Sums, Counters, Locked
  <2>4. Balanced'
    BY <1>3, <2>3 DEF RefrReady, Balanced, MetersType, Sums, Counters, Locked
  <2>5. QED
    BY <1>3, <2>2, <2>3, <2>4 DEF RefrReady, MetersType, Inside
<1>4. CASE Copy
  BY <1>4 DEF Copy, MetersType, Inside, Balanced
<1>5. CASE Reset
  <2>1. reported' \in Sums /\ \A c \in Locked : reported'[c] = reported[c] + copied[c]
    BY <1>5, PlusAdds DEF Reset, MetersType, Counters, Locked
  <2>2. Balanced'
    BY <1>5, <2>1, ZeroIsSum DEF Reset, Inside, Balanced, MetersType, Sums, Counters, Locked
  <2>3. QED
    BY <1>5, <2>1, <2>2, ZeroIsSum DEF Reset, MetersType, Inside
<1>6. CASE UNCHANGED meters
  BY <1>6 DEF meters, MetersType, Inside, Balanced
<1>7. QED
  BY <1>1, <1>2, <1>3, <1>4, <1>5, <1>6 DEF MetersNext

\* Whatever the console and the LVGL task do to each other (cmd_perf against
\* on_disp_event), every cycle, frame and late frame is in exactly one report or
\* will be in the next.
THEOREM FramesCounted == MetersSpec => []EachFrameOnce
<1>1. MetersInv => EachFrameOnce
  BY DEF MetersInv, Balanced, EachFrameOnce, Locked
<1>2. QED
  BY <1>1, MetersInit, MetersStep, PTL DEF MetersSpec

-----------------------------------------------------------------------------
(* DecoInk: the elements *)

Thousandths == 0 .. 1000

\* The elements that the theorem is about; only the line moves with the pose.
LEMMA ElemIs ==
  ASSUME NEW e \in Elements, "cell" \notin Elements
  PROVE  /\ e \in {"bracket", "line", "blocks"}
         /\ Elem("bracket").rn = 3 /\ Elem("bracket").grow /\ Elem("bracket").at = 430
         /\ Elem("bracket").span = 200 /\ Elem("bracket").defer /\ ~Elem("bracket").moves
         /\ Elem("line").rn = 1 /\ Elem("line").grow /\ Elem("line").at = 380
         /\ Elem("line").span = 240 /\ ~Elem("line").defer /\ Elem("line").moves
         /\ Elem("line").poses = Poses
         /\ Elem("blocks").rn = 4 /\ ~Elem("blocks").grow /\ Elem("blocks").at = 290
         /\ Elem("blocks").span = 200 /\ ~Elem("blocks").defer /\ ~Elem("blocks").moves
         /\ Elem("blocks").poses = Poses
         /\ \A x \in Elem(e).first \union Elem(e).later : x \in Int
<1>1. e \in {"bracket", "line", "blocks"}
  BY LayerOf
<1> QED BY <1>1 DEF Elem

LEMMA SigIs ==
  ASSUME NEW e \in Elements, "cell" \notin Elements, NEW x \in Thousandths
  PROVE  /\ Sig(e, x) \in Int
         /\ Sig(e, x) = Sig(e, 1000) => x = 1000
         /\ e = "line" /\ Sig(e, x) = Sig(e, 0) => x = 0
<1>1. CASE e \in {"bracket", "line"}
  <2>1. Elem(e).grow
    BY <1>1, ElemIs
  <2>2. \A y : Sig(e, y) = y
    BY <2>1 DEF Sig
  <2> QED BY <2>2 DEF Thousandths
<1>2. CASE e = "blocks"
  <2>1. \A y : Sig(e, y) = (y * 4) \div 1000
    BY <1>2, ElemIs DEF Sig
  <2>2. Sig(e, x) = (x * 4) \div 1000 /\ Sig(e, 1000) = (1000 * 4) \div 1000
    BY <2>1
  <2> QED BY <1>2, <2>2 DEF Thousandths
<1> QED BY <1>1, <1>2, ElemIs

Spans == {66, 79, 200, 240}

LEMMA DoneIs ==
  ASSUME NEW from \in Nat, NEW span \in Spans, NEW now \in Nat
  PROVE  /\ Done(from, span, now) \in Thousandths
         /\ now <= from => Done(from, span, now) = 0
         /\ now >= from + span => Done(from, span, now) = 1000
<1>1. CASE now <= from \/ now >= from + span
  BY <1>1 DEF Done, Thousandths, Spans
<1>2. CASE ~(now <= from) /\ ~(now >= from + span)
  <2> DEFINE past == now - from
  <2>1. past \in Nat /\ past < span /\ Done(from, span, now) = (past * 1000) \div span
    BY <1>2 DEF Done, Spans
  <2> HIDE DEF past
  <2>2. (past * 1000) \div 66 \in Thousandths \/ ~(past < 66)
    BY <2>1 DEF Thousandths
  <2>3. (past * 1000) \div 79 \in Thousandths \/ ~(past < 79)
    BY <2>1 DEF Thousandths
  <2>4. (past * 1000) \div 200 \in Thousandths \/ ~(past < 200)
    BY <2>1 DEF Thousandths
  <2>5. (past * 1000) \div 240 \in Thousandths \/ ~(past < 240)
    BY <2>1 DEF Thousandths
  <2> QED BY <1>2, <2>1, <2>2, <2>3, <2>4, <2>5 DEF Spans
<1> QED BY <1>1, <1>2

LEMMA OnIs ==
  ASSUME NEW e \in Elements, "cell" \notin Elements, pose \in Poses
  PROVE  e # "bracket" => On(e, pose)
BY ElemIs DEF On

\* build_rt's exit of an element.
LEMMA OutIs ==
  ASSUME NEW e \in Elements, "cell" \notin Elements
  PROVE  /\ OutAt(e) \in Nat /\ OutSpan(e) \in Spans
         /\ OutAt(e) + OutSpan(e) <= Total
         /\ e = "bracket" => OutSpan(e) = 66
<1>1. CASE e = "bracket"
  BY <1>1, ElemIs DEF OutAt, OutSpan, Total, Spans
<1>2. CASE e = "line"
  BY <1>2, ElemIs DEF OutAt, OutSpan, Total, Spans
<1>3. CASE e = "blocks"
  BY <1>3, ElemIs DEF OutAt, OutSpan, Total, Spans
<1> QED BY <1>1, <1>2, <1>3, ElemIs

LEMMA EnteringIs ==
  ASSUME "cell" \notin Elements, NEW now \in 0 .. Total
  PROVE  /\ Entering(now) \in [Elements -> Thousandths]
         /\ \A e \in Elements : Entering(0)[e] = 0
<1>1. ASSUME NEW e \in Elements
      PROVE  /\ Done(Elem(e).at, Elem(e).span, now) \in Thousandths
             /\ Done(Elem(e).at, Elem(e).span, 0) = 0
  <2>1. Elem(e).at \in Nat /\ Elem(e).span \in Spans /\ now \in Nat /\ 0 <= Elem(e).at
    BY ElemIs DEF Total, Spans
  <2> QED BY <2>1, DoneIs
<1>2. 0 \in Thousandths
  BY DEF Thousandths
<1>3. \A e \in Elements :
        (IF On(e, pose) /\ ~Elem(e).defer THEN Done(Elem(e).at, Elem(e).span, now) ELSE 0) \in Thousandths
  BY <1>1, <1>2, Zenon
<1>4. Entering(now) \in [Elements -> Thousandths]
  BY <1>3, Zenon DEF Entering
<1>5. \A e \in Elements : Entering(0)[e] = 0
  BY <1>1 DEF Entering
<1> QED BY <1>4, <1>5

LEMMA LeavingIs ==
  ASSUME "cell" \notin Elements, pose \in Poses
  PROVE  /\ \A t \in 0 .. Total : Leaving(t) \in [Elements -> Thousandths]
         /\ "line" \in Elements => Leaving(0)["line"] = 1000
         /\ \A e \in Elements, t \in 0 .. Total : t >= Total => Leaving(t)[e] = 0
<1>1. ASSUME NEW e \in Elements, NEW t \in 0 .. Total
      PROVE  /\ Done(OutAt(e), OutSpan(e), t) \in Thousandths
             /\ Done(OutAt(e), OutSpan(e), 0) = 0
             /\ t >= Total => Done(OutAt(e), OutSpan(e), t) = 1000
  <2>1. OutAt(e) \in Nat /\ OutSpan(e) \in Spans /\ t \in Nat /\ 0 <= OutAt(e)
    BY OutIs DEF Total
  <2>2. t >= Total => t >= OutAt(e) + OutSpan(e)
    BY OutIs DEF Total, Spans
  <2> QED BY <2>1, <2>2, DoneIs
<1>2. "line" \in Elements => On("line", pose)
  BY OnIs
<1>3. ASSUME NEW t \in 0 .. Total PROVE Leaving(t) \in [Elements -> Thousandths]
  <2>1. 0 \in Thousandths /\ \A x \in Thousandths : 1000 - x \in Thousandths
    BY DEF Thousandths
  <2>2. \A e \in Elements :
          (IF On(e, pose) THEN 1000 - Done(OutAt(e), OutSpan(e), t) ELSE 0) \in Thousandths
    <3> SUFFICES ASSUME NEW e \in Elements
                 PROVE  (IF On(e, pose) THEN 1000 - Done(OutAt(e), OutSpan(e), t) ELSE 0) \in Thousandths
      OBVIOUS
    <3>1. PICK x \in Thousandths : x = Done(OutAt(e), OutSpan(e), t)
      BY <1>1
    <3>2. (IF On(e, pose) THEN 1000 - x ELSE 0) \in Thousandths
      BY <2>1
    <3> QED BY <3>1, <3>2
  <2> QED BY <2>2, Zenon DEF Leaving
<1>4. 0 \in 0 .. Total
  BY DEF Total
<1>5. "line" \in Elements => Leaving(0)["line"] = 1000
  BY <1>1, <1>2, <1>4 DEF Leaving
<1>6. ASSUME NEW e \in Elements, NEW t \in 0 .. Total, t >= Total PROVE Leaving(t)[e] = 0
  BY <1>1, <1>6 DEF Leaving
<1> QED BY <1>3, <1>5, <1>6

\* step_inst on show: an element on its way never comes from nothing to whole in a beat.
LEMMA MorphedIs ==
  ASSUME "cell" \notin Elements, pose \in Poses, NEW e \in Elements, NEW x \in Thousandths, prog[e] = x
  PROVE  Morphed(e) \in Thousandths /\ (x = 0 => Morphed(e) # 1000)
<1>1. Elem(e).span \in {200, 240} /\ (~On(e, pose) => OutSpan(e) = 66)
  BY ElemIs, OnIs, OutIs
<1>3. CASE On(e, pose)
  <2>1. PICK by \in {330, 275} : by = (1000 * Beat) \div Elem(e).span
    BY <1>1 DEF Beat
  <2>2. Morphed(e) = IF x < 1000 THEN (IF x + by > 1000 THEN 1000 ELSE x + by)
                     ELSE (IF x - by < 1000 THEN 1000 ELSE x - by)
    BY <1>3, <2>1 DEF Morphed
  <2> QED BY <2>2 DEF Thousandths
<1>4. CASE ~On(e, pose)
  <2>1. (1000 * Beat) \div OutSpan(e) = 1000
    BY <1>1, <1>4 DEF Beat
  <2>2. Morphed(e) = IF x < 0 THEN (IF x + 1000 > 0 THEN 0 ELSE x + 1000)
                     ELSE (IF x - 1000 < 0 THEN 0 ELSE x - 1000)
    BY <1>4, <2>1 DEF Morphed
  <2> QED BY <2>2 DEF Thousandths
<1> QED BY <1>3, <1>4

-----------------------------------------------------------------------------
(* DecoInk: what is on the glass *)

LayerType ==
  /\ course \in {"HIDDEN", "IN", "LIVE", "OUT"} /\ elapsed \in 0 .. Total /\ pose \in Poses
  /\ prog \in [Elements -> Thousandths]
  /\ ph \in [Elements -> Int] /\ seen \in [Elements -> Int \X Int]
  /\ glass = [q \in Places |-> glass[q]] /\ stale \subseteq Places

\* While an entrance or an exit is on, the signature that was drawn last is the one of the
\* progress; on show it may be older for what is wholly there or not at all.
Signed ==
  \A e \in Elements :
    /\ course \in {"IN", "OUT"} => seen[e] = <<Sig(e, prog[e]), ph[e]>>
    /\ course = "LIVE" => prog[e] \in {0, 1000} \/ seen[e][1] = Sig(e, prog[e])

Wiped(q) == q \in stale \/ glass[q] = Blank

\* The place that the line has left, and the one it would come to.
LineClean ==
  "line" \in Elements =>
    /\ \A s \in Poses : Place("line", s) # Place("line", pose) => Wiped(Place("line", s))
    /\ course = "HIDDEN" \/ (course = "OUT" /\ prog["line"] = 0) => Wiped(Place("line", pose))

\* What is wholly there is drawn, or will be with the next frame.
WholeDrawn ==
  course \in {"IN", "LIVE"} =>
    \A e \in Elements : prog[e] = 1000 =>
      Place(e, pose) \in stale \/ Bare(glass[Place(e, pose)]) = Bare(Picture(e))

LayerInv == LayerType /\ (shown => Signed /\ LineClean /\ WholeDrawn)

LEMMA PlaceIs ==
  ASSUME "cell" \notin Elements, NEW e \in Elements, NEW s \in Poses
  PROVE  /\ Place(e, s) \in Places /\ Place(e, s)[1] = e
         /\ \A f, t : Place(e, s) = Place(f, t) => e = f
         /\ e # "line" => \A t : Place(e, s) = Place(e, t)
<1>1. ~Elem("bracket").moves /\ ~Elem("blocks").moves /\ e \in {"bracket", "line", "blocks"}
  BY ElemIs
<1>2. e # "line" => \A t : Dy(e, t) = 0
  BY <1>1 DEF Dy
<1> QED BY <1>2 DEF Place, Places

LEMMA PlacesAre ==
  ASSUME "cell" \notin Elements, pose \in Poses
  PROVE  /\ \A e \in Elements : Place(e, pose) \in Places /\ Place(e, pose)[1] = e
         /\ \A q \in Places : \E e \in Elements, s \in Poses : q = Place(e, s) /\ q[1] = e
         /\ \A s \in Poses : "line" \in Elements => Place("line", s) \in Places /\ Place("line", s)[1] = "line"
BY PlaceIs DEF Places

\* The accent and the phase leave what Bare keeps as it is.
LEMMA SameBare ==
  ASSUME NEW e \in Elements, prog[e] = 1000, prog'[e] = 1000,
         course \in {"IN", "LIVE"}, course' \in {"IN", "LIVE"}, level' = level, slot' = slot \/ e # "blocks"
  PROVE  Bare(Picture(e))' = Bare(Picture(e))
<1>1. Filled(e)' = Filled(e)
  BY DEF Filled
<1>2. Picture(e) = IF level = "off" THEN Blank
                   ELSE <<Filled(e), IF course = "LIVE" THEN ph[e] ELSE Elem(e).rest,
                          IF e = "blocks" THEN slot ELSE -1, level>>
  BY DEF Picture
<1>3. Picture(e)' = IF level = "off" THEN Blank
                    ELSE <<Filled(e), IF course' = "LIVE" THEN ph'[e] ELSE Elem(e).rest,
                           IF e = "blocks" THEN slot ELSE -1, level>>
  BY <1>1 DEF Picture
<1>4. \A x, y, z, w : <<x, y, z, w>> # Blank
  BY DEF Blank
<1> QED BY <1>2, <1>3, <1>4 DEF Bare

LEMMA RedrawnIs ==
  ASSUME "cell" \notin Elements, LayerType, shown' = shown, glass' = glass, pose' = pose,
         NEW p2 \in [Elements -> Thousandths], NEW ph2 \in [Elements -> Int], Redrawn(p2, ph2)
  PROVE  /\ prog' = p2 /\ ph' = ph2 /\ seen' \in [Elements -> Int \X Int]
         /\ \A e \in Elements : seen'[e] = <<Sig(e, p2[e]), ph2[e]>>
         /\ stale' \subseteq Places
         /\ shown => stale \subseteq stale'
         /\ shown => \A e \in Elements : seen[e][1] # Sig(e, p2[e]) => Place(e, pose) \in stale'
<1>1. prog' = p2 /\ ph' = ph2
  BY DEF Redrawn, Flush
<1>2. \A e \in Elements : <<Sig(e, p2[e]), ph2[e]>> \in Int \X Int
  BY SigIs
<1>3. seen' = [e \in Elements |-> IF e \in Changed(p2, ph2) THEN <<Sig(e, p2[e]), ph2[e]>> ELSE seen[e]]
  BY DEF Redrawn, Flush
<1>4. seen' \in [Elements -> Int \X Int]
  BY <1>2, <1>3 DEF LayerType
<1>5. \A e \in Elements : seen'[e] = <<Sig(e, p2[e]), ph2[e]>>
  BY <1>3 DEF Changed
<1>6. \A e \in Elements : seen[e][1] # Sig(e, p2[e]) => e \in Changed(p2, ph2)
  BY DEF Changed
<1>7. stale' = IF shown THEN stale \union {Place(e, pose) : e \in Changed(p2, ph2)} ELSE stale
  BY DEF Redrawn, Invalid
<1>8. {Place(e, pose) : e \in Changed(p2, ph2)} \subseteq Places
  BY PlacesAre DEF Changed, LayerType
<1> QED BY <1>1, <1>4, <1>5, <1>6, <1>7, <1>8 DEF LayerType

LEMMA StillIs == Still \in [Elements -> Int] /\ Gone \in [Elements -> Thousandths] /\ \A e \in Elements : Gone[e] = 0
BY DEF Still, Gone, Thousandths

LEMMA CompleteIs == Complete(pose) \in [Elements -> Thousandths] /\ \A e \in Elements : Complete(pose)[e] \in {0, 1000}
BY DEF Complete, Thousandths

LEMMA LayerFrame == LayerInv /\ UNCHANGED deco => LayerInv'
<1> SUFFICES ASSUME LayerInv, UNCHANGED deco PROVE LayerInv'
  OBVIOUS
<1>0. /\ course' = course /\ elapsed' = elapsed /\ pose' = pose /\ prog' = prog /\ ph' = ph
      /\ seen' = seen /\ slot' = slot /\ level' = level /\ shown' = shown /\ stale' = stale /\ glass' = glass
  BY DEF deco
<1>1. LayerType'
  BY <1>0 DEF LayerInv, LayerType
<1>2. shown => Signed'
  BY <1>0 DEF LayerInv, Signed, Sig
<1>3. shown => LineClean'
  BY <1>0 DEF LayerInv, LineClean, Wiped, Place, Dy
<1>4. \A e : Picture(e)' = Picture(e) /\ Place(e, pose)' = Place(e, pose)
  BY <1>0 DEF Picture, Filled, Place, Dy
<1>5. \A e : Bare(Picture(e))' = Bare(Picture(e))
  BY <1>4 DEF Bare
<1>6. shown => WholeDrawn'
  BY <1>0, <1>4, <1>5 DEF LayerInv, WholeDrawn
<1> QED BY <1>0, <1>1, <1>2, <1>3, <1>6 DEF LayerInv

\* A first step of an entrance or of an exit.
LEMMA LayerIntro ==
  ASSUME "cell" \notin Elements, LayerInv, Intro
  PROVE  LayerInv'
<1>0. LayerType
  BY DEF LayerInv
<1>a. 0 \in 0 .. Total
  BY DEF Total
<1>1. Entering(0) \in [Elements -> Thousandths] /\ 0 \in 0 .. Total /\ \A e \in Elements : Entering(0)[e] = 0
  BY <1>a, EnteringIs
<1>2. /\ course' = "IN" /\ elapsed' = 0 /\ shown' = shown /\ glass' = glass /\ pose' = pose
      /\ Redrawn(Entering(0), Still)
  BY DEF Intro
<1> DEFINE p2 == Entering(0)
<1> HIDE DEF p2
<1>3. /\ prog' = p2 /\ ph' = Still /\ seen' \in [Elements -> Int \X Int]
      /\ \A e \in Elements : seen'[e] = <<Sig(e, p2[e]), Still[e]>>
      /\ stale' \subseteq Places
      /\ shown => stale \subseteq stale'
  BY <1>0, <1>1, <1>2, RedrawnIs, StillIs DEF p2
<1>4. LayerType'
  BY <1>0, <1>1, <1>2, <1>3, StillIs DEF LayerType, p2
<1>5. Signed'
  BY <1>2, <1>3 DEF Signed, Sig
<1>6. shown => LineClean'
  BY <1>0, <1>2, <1>3 DEF LayerInv, LineClean, Wiped, Place, Dy
<1>7. WholeDrawn'
  BY <1>1, <1>2, <1>3 DEF WholeDrawn, p2
<1> QED BY <1>2, <1>4, <1>5, <1>6, <1>7 DEF LayerInv

LEMMA LayerOutro ==
  ASSUME "cell" \notin Elements, LayerInv, Outro
  PROVE  LayerInv'
<1>0. LayerType
  BY DEF LayerInv
<1>a. 0 \in 0 .. Total /\ pose \in Poses
  BY <1>0 DEF Total, LayerType
<1>1. Leaving(0) \in [Elements -> Thousandths] /\ 0 \in 0 .. Total /\ ("line" \in Elements => Leaving(0)["line"] = 1000)
  BY <1>a, LeavingIs
<1>2. /\ course' = "OUT" /\ elapsed' = 0 /\ shown' = shown /\ glass' = glass /\ pose' = pose
      /\ Redrawn(Leaving(0), Still)
  BY DEF Outro
<1> DEFINE p2 == Leaving(0)
<1> HIDE DEF p2
<1>3. /\ prog' = p2 /\ ph' = Still /\ seen' \in [Elements -> Int \X Int]
      /\ \A e \in Elements : seen'[e] = <<Sig(e, p2[e]), Still[e]>>
      /\ stale' \subseteq Places
      /\ shown => stale \subseteq stale'
  BY <1>0, <1>1, <1>2, RedrawnIs, StillIs DEF p2
<1>4. LayerType'
  BY <1>0, <1>1, <1>2, <1>3, StillIs DEF LayerType, p2
<1>5. Signed'
  BY <1>2, <1>3 DEF Signed, Sig
<1>6. shown => LineClean'
  BY <1>0, <1>1, <1>2, <1>3 DEF LayerInv, LineClean, Wiped, Place, Dy, p2
<1>7. WholeDrawn'
  BY <1>2 DEF WholeDrawn
<1> QED BY <1>2, <1>4, <1>5, <1>6, <1>7 DEF LayerInv

LEMMA LayerStepIn ==
  ASSUME "cell" \notin Elements, LayerInv, course = "IN", elapsed' \in 0 .. Total, StepIn(elapsed'),
         shown' = shown, glass' = glass, pose' = pose, slot' = slot, level' = level
  PROVE  LayerInv'
<1>0. LayerType
  BY DEF LayerInv
<1> DEFINE p2 == Entering(elapsed')
<1>1. p2 \in [Elements -> Thousandths]
  BY EnteringIs
<1>2. course' \in {"IN", "LIVE"} /\ Redrawn(p2, Still)
  BY DEF StepIn
<1> HIDE DEF p2
<1>3. /\ prog' = p2 /\ ph' = Still /\ seen' \in [Elements -> Int \X Int]
      /\ \A e \in Elements : seen'[e] = <<Sig(e, p2[e]), Still[e]>>
      /\ stale' \subseteq Places
      /\ shown => stale \subseteq stale'
      /\ shown => \A e \in Elements : seen[e][1] # Sig(e, p2[e]) => Place(e, pose) \in stale'
  BY <1>0, <1>1, <1>2, RedrawnIs, StillIs
<1>4. LayerType'
  BY <1>0, <1>1, <1>2, <1>3, StillIs DEF LayerType
<1>5. Signed'
  BY <1>2, <1>3 DEF Signed, Sig
<1>6. shown => LineClean'
  BY <1>0, <1>2, <1>3 DEF LayerInv, LineClean, Wiped, Place, Dy
<1>7. ASSUME shown, NEW e \in Elements, prog'[e] = 1000
      PROVE  Place(e, pose) \in stale' \/ Bare(glass[Place(e, pose)]) = Bare(Picture(e))'
  <2>1. CASE prog[e] = 1000
    <3>1. Bare(Picture(e))' = Bare(Picture(e))
      BY <1>2, <1>7, <2>1, SameBare
    <3> QED BY <3>1, <2>1, <1>3, <1>7 DEF LayerInv, WholeDrawn
  <2>2. CASE prog[e] # 1000
    <3>1. prog[e] \in Thousandths /\ seen[e][1] = Sig(e, prog[e])
      BY <1>0, <1>7 DEF LayerType, LayerInv, Signed
    <3>2. Sig(e, p2[e]) = Sig(e, 1000)
      BY <1>3, <1>7
    <3>3. Sig(e, prog[e]) # Sig(e, 1000)
      BY <3>1, <2>2, SigIs
    <3> QED BY <3>1, <3>2, <3>3, <1>3, <1>7
  <2> QED BY <2>1, <2>2
<1>8. shown => WholeDrawn'
  <2>1. \A e : Place(e, pose)' = Place(e, pose)
    BY DEF Place, Dy
  <2>2. \A e : Bare(glass[Place(e, pose)])' = Bare(glass[Place(e, pose)])
    BY <2>1 DEF Bare
  <2> QED BY <1>7, <2>1, <2>2 DEF WholeDrawn
<1> QED BY <1>4, <1>5, <1>6, <1>8 DEF LayerInv

LEMMA LayerStepOut ==
  ASSUME "cell" \notin Elements, LayerInv, course = "OUT", elapsed' \in 0 .. Total, StepOut(elapsed'),
         shown' = shown, glass' = glass, pose' = pose
  PROVE  LayerInv'
<1>0. LayerType /\ pose \in Poses
  BY DEF LayerInv, LayerType
<1> DEFINE p2 == Leaving(elapsed')
<1>1. p2 \in [Elements -> Thousandths] /\ (elapsed' >= Total => \A e \in Elements : p2[e] = 0)
  BY <1>0, LeavingIs
<1>2. /\ course' \in {"OUT", "HIDDEN"} /\ (course' = "HIDDEN" => elapsed' >= Total)
      /\ Redrawn(p2, Still)
  BY DEF StepOut, OutTotal
<1> HIDE DEF p2
<1>3. /\ prog' = p2 /\ ph' = Still /\ seen' \in [Elements -> Int \X Int]
      /\ \A e \in Elements : seen'[e] = <<Sig(e, p2[e]), Still[e]>>
      /\ stale' \subseteq Places
      /\ shown => stale \subseteq stale'
      /\ shown => \A e \in Elements : seen[e][1] # Sig(e, p2[e]) => Place(e, pose) \in stale'
  BY <1>0, <1>1, <1>2, RedrawnIs, StillIs
<1>4. LayerType'
  BY <1>0, <1>1, <1>2, <1>3, StillIs DEF LayerType
<1>5. Signed'
  BY <1>2, <1>3 DEF Signed, Sig
<1>6. ASSUME shown, "line" \in Elements, p2["line"] = 0
      PROVE  Place("line", pose) \in stale' \/ glass[Place("line", pose)] = Blank
  <2>1. CASE prog["line"] = 0
    BY <1>3, <1>6, <2>1 DEF LayerInv, LineClean, Wiped
  <2>2. CASE prog["line"] # 0
    <3>1. prog["line"] \in Thousandths /\ seen["line"][1] = Sig("line", prog["line"])
      BY <1>0, <1>6 DEF LayerType, LayerInv, Signed
    <3>2. Sig("line", prog["line"]) # Sig("line", 0)
      BY <3>1, <2>2, <1>6, SigIs
    <3> QED BY <3>1, <3>2, <1>3, <1>6
  <2> QED BY <2>1, <2>2
<1>7. shown => LineClean'
  <2>1. \A s : Place("line", s)' = Place("line", s) /\ Place("line", pose)' = Place("line", pose)
    BY DEF Place, Dy
  <2>2. "line" \in Elements /\ (course' = "HIDDEN" \/ prog'["line"] = 0) => p2["line"] = 0
    BY <1>1, <1>2, <1>3
  <2>3. shown => \A q : Wiped(q) => Wiped(q)'
    BY <1>3 DEF Wiped
  <2> QED BY <1>2, <1>6, <2>1, <2>2, <2>3 DEF LayerInv, LineClean, Wiped
<1>8. WholeDrawn'
  BY <1>2 DEF WholeDrawn
<1> QED BY <1>4, <1>5, <1>7, <1>8 DEF LayerInv

LEMMA LayerStepLive ==
  ASSUME "cell" \notin Elements, LayerInv, StepLive
  PROVE  LayerInv'
<1>0. LayerType /\ pose \in Poses
  BY DEF LayerInv, LayerType
<1>a. course = "LIVE" /\ course' = course /\ elapsed' = elapsed /\ pose' = pose /\ slot' = slot
      /\ level' = level /\ shown' = shown /\ glass' = glass
  BY DEF StepLive
<1> DEFINE p2 == [e \in Elements |-> Morphed(e)]
<1>b. \A e \in Elements : Morphed(e) \in Thousandths /\ (prog[e] = 0 => Morphed(e) # 1000)
  BY <1>0, MorphedIs DEF LayerType
<1>1. p2 \in [Elements -> Thousandths] /\ \A e \in Elements : prog[e] = 0 => p2[e] # 1000
  BY <1>b
<1>2. PICK ph2 \in [Elements -> {0, 1, 16}] : Redrawn(p2, ph2)
  BY DEF StepLive
<1> HIDE DEF p2
<1>c. ph2 \in [Elements -> Int]
  OBVIOUS
<1>3. /\ prog' = p2 /\ ph' = ph2 /\ seen' \in [Elements -> Int \X Int]
      /\ \A e \in Elements : seen'[e] = <<Sig(e, p2[e]), ph2[e]>>
      /\ stale' \subseteq Places
      /\ shown => stale \subseteq stale'
      /\ shown => \A e \in Elements : seen[e][1] # Sig(e, p2[e]) => Place(e, pose) \in stale'
  BY <1>0, <1>1, <1>2, <1>a, <1>c, RedrawnIs
<1>4. LayerType'
  BY <1>0, <1>1, <1>3, <1>a, <1>c DEF LayerType
<1>5. Signed'
  BY <1>a, <1>3 DEF Signed, Sig
<1>6. shown => LineClean'
  BY <1>0, <1>a, <1>3 DEF LayerInv, LineClean, Wiped, Place, Dy
<1>7. ASSUME shown, NEW e \in Elements, prog'[e] = 1000
      PROVE  Place(e, pose) \in stale' \/ Bare(glass[Place(e, pose)]) = Bare(Picture(e))'
  <2>1. CASE prog[e] = 1000
    <3>1. Bare(Picture(e))' = Bare(Picture(e))
      BY <1>a, <1>7, <2>1, SameBare
    <3> QED BY <3>1, <2>1, <1>3, <1>7, <1>a DEF LayerInv, WholeDrawn
  <2>2. CASE prog[e] # 1000
    <3>1. prog[e] \in Thousandths /\ prog[e] # 0 /\ seen[e][1] = Sig(e, prog[e])
      BY <1>0, <1>1, <1>3, <1>7, <1>a, <2>2 DEF LayerType, LayerInv, Signed
    <3>2. Sig(e, p2[e]) = Sig(e, 1000)
      BY <1>3, <1>7
    <3>3. Sig(e, prog[e]) # Sig(e, 1000)
      BY <3>1, <2>2, SigIs
    <3> QED BY <3>1, <3>2, <3>3, <1>3, <1>7
  <2> QED BY <2>1, <2>2
<1>8. shown => WholeDrawn'
  <2>1. \A e : Place(e, pose)' = Place(e, pose)
    BY <1>a DEF Place, Dy
  <2>2. \A e : Bare(glass[Place(e, pose)])' = Bare(glass[Place(e, pose)])
    BY <1>a, <2>1 DEF Bare
  <2> QED BY <1>7, <2>1, <2>2 DEF WholeDrawn
<1> QED BY <1>a, <1>4, <1>5, <1>6, <1>8 DEF LayerInv

LEMMA LayerTimer ==
  ASSUME "cell" \notin Elements, LayerInv, Timer
  PROVE  LayerInv'
<1>1. CASE StepLive
  BY <1>1, LayerStepLive
<1>2. CASE ~StepLive
  <2>1. /\ course \in {"IN", "OUT"} /\ (IF course = "IN" THEN StepIn(elapsed') ELSE StepOut(elapsed'))
        /\ pose' = pose /\ slot' = slot /\ level' = level /\ shown' = shown /\ glass' = glass
    BY <1>2 DEF Timer
  <2>2. PICK by \in (IF elapsed = 0 THEN Offsets ELSE {Beat}) :
          elapsed' = IF elapsed + by > Total THEN Total ELSE elapsed + by
    BY <1>2 DEF Timer
  <2>3. by \in Nat
    BY LayerOf DEF Beat
  <2>a. elapsed \in 0 .. 660 /\ elapsed' = IF elapsed + by > 660 THEN 660 ELSE elapsed + by
    BY <2>2 DEF LayerInv, LayerType, Total
  <2>b. elapsed' \in 0 .. 660
    BY <2>a, <2>3
  <2>4. elapsed' \in 0 .. Total
    BY <2>b DEF Total
  <2> QED BY <2>1, <2>4, LayerStepIn, LayerStepOut
<1> QED BY <1>1, <1>2

\* Once every place is drawn again, only the signatures of the progress matter.
LEMMA AllStale ==
  ASSUME "cell" \notin Elements, pose' \in Poses, stale' = Places
  PROVE  LineClean' /\ WholeDrawn'
<1>1. \A e \in Elements, s \in Poses : Place(e, s)' \in Places
  BY PlaceIs DEF Place, Dy
<1>2. \A e \in Elements : Place(e, pose)' \in stale'
  BY PlaceIs DEF Place, Dy
<1>3. "line" \in Elements => \A s \in Poses : Wiped(Place("line", s))' /\ Wiped(Place("line", pose))'
  BY <1>1, <1>2 DEF Wiped
<1>4. LineClean'
  BY <1>3 DEF LineClean
<1> QED BY <1>2, <1>4 DEF WholeDrawn

LEMMA LayerAtOnce ==
  ASSUME "cell" \notin Elements, LayerInv, IntroAtOnce \/ OutroAtOnce
  PROVE  LayerInv'
<1>0. LayerType /\ pose \in Poses
  BY DEF LayerInv, LayerType
<1>1. /\ course' \in {"LIVE", "HIDDEN"} /\ elapsed' = elapsed /\ pose' = pose /\ seen' = seen /\ glass' = glass
      /\ shown' = shown /\ stale' = IF shown THEN stale \union Places ELSE stale
      /\ prog' \in [Elements -> Thousandths] /\ ph' \in [Elements -> Int]
      /\ course' = "LIVE" => \A e \in Elements : prog'[e] \in {0, 1000}
  <2>1. CASE IntroAtOnce
    BY <2>1, CompleteIs, StillIs DEF IntroAtOnce, Invalid
  <2>2. CASE OutroAtOnce
    BY <2>2, <1>0, StillIs DEF OutroAtOnce, Invalid, LayerType
  <2> QED BY <2>1, <2>2
<1>2. LayerType'
  BY <1>0, <1>1 DEF LayerType
<1>3. Signed'
  BY <1>1 DEF Signed
<1>4. shown => LineClean' /\ WholeDrawn'
  BY <1>0, <1>1, AllStale DEF LayerType
<1> QED BY <1>1, <1>2, <1>3, <1>4 DEF LayerInv

LEMMA LayerAppear ==
  ASSUME "cell" \notin Elements, LayerInv, Appear \/ AppearAtOnce
  PROVE  LayerInv'
<1>0. LayerType /\ pose \in Poses /\ 0 \in 0 .. Total
  BY DEF LayerInv, LayerType, Total
<1>1. pose' = pose /\ stale' = Places /\ glass' = glass
  BY DEF Appear, AppearAtOnce
<1>2. LineClean' /\ WholeDrawn'
  BY <1>0, <1>1, AllStale
<1>3. CASE Appear
  <2>1. course' = "IN" /\ elapsed' = 0 /\ Flush(Entering(0), Still)
    BY <1>3 DEF Appear
  <2>2. Entering(0) \in [Elements -> Thousandths]
    BY <1>0, EnteringIs
  <2> DEFINE p2 == Entering(0)
  <2> HIDE DEF p2
  <2>3. prog' = p2 /\ ph' = Still
        /\ seen' = [e \in Elements |-> IF e \in Changed(p2, Still) THEN <<Sig(e, p2[e]), Still[e]>> ELSE seen[e]]
    BY <2>1 DEF Flush, p2
  <2>4. \A e \in Elements : <<Sig(e, p2[e]), Still[e]>> \in Int \X Int
    BY <2>2, SigIs, StillIs DEF p2
  <2>5. \A e \in Elements : seen'[e] = <<Sig(e, p2[e]), Still[e]>>
    BY <2>3 DEF Changed
  <2>6. seen' \in [Elements -> Int \X Int]
    BY <2>3, <2>4, <1>0 DEF LayerType
  <2>7. LayerType'
    BY <1>0, <1>1, <2>1, <2>2, <2>3, <2>6, StillIs DEF LayerType, p2
  <2>8. Signed'
    BY <2>1, <2>3, <2>5 DEF Signed, Sig
  <2> QED BY <1>2, <2>7, <2>8 DEF LayerInv
<1>4. CASE AppearAtOnce
  <2>1. course' = "LIVE" /\ prog' = Complete(pose) /\ ph' = Still /\ elapsed' = elapsed /\ seen' = seen
    BY <1>4 DEF AppearAtOnce
  <2>2. LayerType'
    BY <1>0, <1>1, <2>1, CompleteIs, StillIs DEF LayerType
  <2>3. Signed'
    BY <2>1, CompleteIs DEF Signed
  <2> QED BY <1>2, <2>2, <2>3 DEF LayerInv
<1> QED BY <1>3, <1>4

LEMMA LayerVanish ==
  ASSUME LayerInv, Vanish
  PROVE  LayerInv'
<1>1. /\ shown' = FALSE /\ stale' = {} /\ glass' = [q \in Places |-> Blank]
      /\ course' = (IF course = "LIVE" THEN "HIDDEN" ELSE course) /\ prog' = Gone /\ ph' = Still
      /\ elapsed' = elapsed /\ pose' = pose /\ seen' = seen
  BY DEF Vanish
<1>2. LayerType'
  BY <1>1, StillIs DEF LayerInv, LayerType
<1> QED BY <1>1, <1>2 DEF LayerInv

LEMMA LayerRedraw ==
  ASSUME "cell" \notin Elements, LayerInv, Redraw
  PROVE  LayerInv'
<1>0. LayerType /\ pose \in Poses
  BY DEF LayerInv, LayerType
<1>1. /\ course' = course /\ elapsed' = elapsed /\ pose' = pose /\ prog' = prog /\ ph' = ph /\ seen' = seen
      /\ slot' = slot /\ level' = level /\ shown' = shown /\ shown /\ stale' = {}
      /\ glass' = [q \in Places |->
                     IF q \notin stale THEN glass[q]
                     ELSE IF q = Place(q[1], pose) THEN Picture(q[1]) ELSE Blank]
  BY DEF Redraw
<1>2. LayerType'
  BY <1>0, <1>1 DEF LayerType
<1>3. Signed'
  BY <1>0, <1>1 DEF LayerInv, Signed, Sig
<1>4. /\ \A e : Place(e, pose)' = Place(e, pose)
      /\ \A e, s : Place(e, s)' = Place(e, s)
  BY <1>1 DEF Place, Dy
<1>5. \A e : Picture(e)' = Picture(e)
  BY <1>1 DEF Picture, Filled
<1>6. ASSUME NEW e \in Elements
      PROVE  glass'[Place(e, pose)] = IF Place(e, pose) \in stale THEN Picture(e) ELSE glass[Place(e, pose)]
  BY <1>0, <1>1, PlacesAre
<1>7. ASSUME NEW s \in Poses, "line" \in Elements, Place("line", s) # Place("line", pose)
      PROVE  glass'[Place("line", s)] = Blank
  <2>1. Place("line", s) \in Places /\ Place("line", s)[1] = "line"
    BY <1>0, <1>7, PlacesAre
  <2>2. Place("line", s) \in stale \/ glass[Place("line", s)] = Blank
    BY <1>1, <1>7 DEF LayerInv, LineClean, Wiped
  <2> QED BY <1>1, <1>7, <2>1, <2>2
<1>8. ASSUME "line" \in Elements, course = "HIDDEN" \/ (course = "OUT" /\ prog["line"] = 0)
      PROVE  glass'[Place("line", pose)] = Blank
  <2>1. Picture("line") = Blank
    BY <1>8 DEF Picture
  <2>2. Place("line", pose) \in stale \/ glass[Place("line", pose)] = Blank
    BY <1>1, <1>8 DEF LayerInv, LineClean, Wiped
  <2> QED BY <1>6, <1>8, <2>1, <2>2
<1>9. LineClean'
  BY <1>1, <1>4, <1>7, <1>8 DEF LineClean, Wiped
<1>10. ASSUME NEW e \in Elements, course \in {"IN", "LIVE"}, prog[e] = 1000
       PROVE  Bare(glass'[Place(e, pose)]) = Bare(Picture(e))
  BY <1>1, <1>6, <1>10 DEF LayerInv, WholeDrawn
<1>11. \A e : Bare(Picture(e))' = Bare(Picture(e)) /\ Bare(glass[Place(e, pose)])' = Bare(glass'[Place(e, pose)])
  BY <1>4, <1>5 DEF Bare
<1>12. WholeDrawn'
  BY <1>1, <1>10, <1>11 DEF WholeDrawn
<1> QED BY <1>2, <1>3, <1>9, <1>12 DEF LayerInv

\* What changes neither the progress nor the course nor the glass, draws more, and
\* changes an element's picture only where it is drawn again.
LEMMA LayerAsk ==
  ASSUME "cell" \notin Elements, LayerInv,
         course' = course, elapsed' = elapsed, pose' = pose, prog' = prog, shown' = shown, glass' = glass,
         ph' \in [Elements -> Int], seen' \in [Elements -> Int \X Int], shown => stale \subseteq stale',
         stale' \subseteq Places,
         \A e \in Elements : seen'[e][1] = seen[e][1],
         course \in {"IN", "OUT"} => ph' = ph /\ seen' = seen,
         shown => \A e \in Elements : Place(e, pose) \in stale' \/ course = "HIDDEN"
                                      \/ Bare(Picture(e))' = Bare(Picture(e))
  PROVE  LayerInv'
<1>1. LayerType'
  BY DEF LayerInv, LayerType
<1>2. shown => Signed'
  BY DEF LayerInv, Signed, Sig
<1>3. shown => LineClean'
  BY DEF LayerInv, LineClean, Wiped, Place, Dy
<1>4. \A e : Place(e, pose)' = Place(e, pose)
  BY DEF Place, Dy
<1>5. \A e : Bare(glass[Place(e, pose)])' = Bare(glass[Place(e, pose)])
  BY <1>4 DEF Bare
<1>6. shown => WholeDrawn'
  BY <1>4, <1>5 DEF LayerInv, WholeDrawn
<1> QED BY <1>1, <1>2, <1>3, <1>6 DEF LayerInv

LEMMA LayerSetSlot ==
  ASSUME "cell" \notin Elements, LayerInv, NEW v \in {-1, 2}, SetSlot(v)
  PROVE  LayerInv'
<1>0. LayerType /\ pose \in Poses
  BY DEF LayerInv, LayerType
<1>1. /\ course' = course /\ elapsed' = elapsed /\ pose' = pose /\ prog' = prog /\ shown' = shown
      /\ glass' = glass /\ ph' = ph /\ seen' = seen /\ level' = level
      /\ stale' = IF shown THEN stale \union {Place(e, pose) : e \in Elements \intersect {"blocks"}} ELSE stale
  BY DEF SetSlot, Invalid
<1>2. stale' \subseteq Places
  BY <1>0, <1>1, PlacesAre DEF LayerType
<1>3. \A e \in Elements : e # "blocks" => Picture(e)' = Picture(e)
  BY <1>1 DEF Picture, Filled
<1>4. \A e \in Elements : e # "blocks" => Bare(Picture(e))' = Bare(Picture(e))
  BY <1>3 DEF Bare
<1>5. shown => \A e \in Elements : e = "blocks" => Place(e, pose) \in stale'
  BY <1>1
<1> QED BY <1>0, <1>1, <1>2, <1>4, <1>5, LayerAsk DEF LayerType

LEMMA LayerSetLevel ==
  ASSUME "cell" \notin Elements, LayerInv, NEW v \in Levels, SetLevel(v)
  PROVE  LayerInv'
<1>0. LayerType /\ pose \in Poses
  BY DEF LayerInv, LayerType
<1>1. /\ course' = course /\ elapsed' = elapsed /\ pose' = pose /\ prog' = prog /\ shown' = shown
      /\ glass' = glass /\ ph' = ph /\ seen' = seen
      /\ stale' = IF course = "HIDDEN" \/ ~shown THEN stale ELSE stale \union Places
  BY DEF SetLevel, Invalid
<1>2. stale' \subseteq Places
  BY <1>0, <1>1 DEF LayerType
<1>3. shown => \A e \in Elements : Place(e, pose) \in stale' \/ course = "HIDDEN"
  BY <1>0, <1>1, PlacesAre
<1> QED BY <1>0, <1>1, <1>2, <1>3, LayerAsk DEF LayerType

LEMMA LayerPulse ==
  ASSUME "cell" \notin Elements, LayerInv, Pulse
  PROVE  LayerInv'
<1>0. LayerType /\ pose \in Poses
  BY DEF LayerInv, LayerType
<1>1. /\ course' = course /\ elapsed' = elapsed /\ pose' = pose /\ prog' = prog /\ shown' = shown
      /\ glass' = glass /\ slot' = slot /\ level' = level /\ course = "LIVE" /\ "bracket" \in Elements
      /\ ph' = [ph EXCEPT !["bracket"] = 1] /\ seen' = [seen EXCEPT !["bracket"][2] = 1]
      /\ stale' = IF shown THEN stale \union {Place("bracket", pose)} ELSE stale
  BY DEF Pulse, Invalid
<1>2. stale' \subseteq Places
  BY <1>0, <1>1, PlacesAre DEF LayerType
<1>3. ph' \in [Elements -> Int] /\ seen' \in [Elements -> Int \X Int]
  BY <1>0, <1>1 DEF LayerType
<1>4. \A e \in Elements : seen'[e][1] = seen[e][1]
  BY <1>0, <1>1 DEF LayerType
<1>5. \A e \in Elements : e # "bracket" => Picture(e)' = Picture(e)
  BY <1>0, <1>1 DEF Picture, Filled, LayerType
<1>6. \A e \in Elements : e # "bracket" => Bare(Picture(e))' = Bare(Picture(e))
  BY <1>5 DEF Bare
<1>7. shown => \A e \in Elements : Place(e, pose) \in stale' \/ Bare(Picture(e))' = Bare(Picture(e))
  BY <1>1, <1>6
<1> QED BY <1>1, <1>2, <1>3, <1>4, <1>7, LayerAsk

LEMMA LayerSetState ==
  ASSUME "cell" \notin Elements, LayerInv, NEW s \in Poses, SetState(s)
  PROVE  LayerInv'
<1>0. LayerType /\ pose \in Poses
  BY DEF LayerInv, LayerType
<1>1. /\ course' = course /\ elapsed' = elapsed /\ pose' = s /\ prog' = prog /\ shown' = shown
      /\ glass' = glass /\ ph' = ph /\ seen' = seen /\ slot' = slot /\ level' = level
  BY DEF SetState
<1>2. stale' = IF course = "HIDDEN" \/ ~shown THEN stale
               ELSE stale \union {Place(e, u) : e \in {x \in Elements : Elem(x).moves}, u \in {pose, s}}
  BY DEF SetState, Invalid
<1>3. \A e \in Elements : Elem(e).moves <=> e = "line"
  BY ElemIs
<1>4. stale \subseteq stale' /\ stale' \subseteq Places
  BY <1>0, <1>2, PlaceIs DEF LayerType
<1>5. shown /\ course # "HIDDEN" /\ "line" \in Elements => Place("line", pose) \in stale' /\ Place("line", s) \in stale'
  BY <1>2, <1>3
<1>6. LayerType'
  BY <1>0, <1>1, <1>4 DEF LayerType
<1>7. shown => Signed'
  BY <1>1 DEF LayerInv, Signed, Sig
<1>8. /\ \A e : Place(e, pose)' = Place(e, s)
      /\ \A e, u : Place(e, u)' = Place(e, u)
  BY <1>1 DEF Place, Dy
<1>9. shown => LineClean'
  <2> DEFINE Wipes(q) == q \in stale' \/ glass[q] = Blank
  <2>1. \A q : Wiped(q) => Wipes(q)
    BY <1>4 DEF Wiped
  <2>2. ASSUME shown, "line" \in Elements
        PROVE  /\ \A u \in Poses : Place("line", u) # Place("line", s) => Wipes(Place("line", u))
               /\ course = "HIDDEN" \/ (course = "OUT" /\ prog["line"] = 0) => Wipes(Place("line", s))
    <3>1. \A u \in Poses : Place("line", u) # Place("line", pose) => Wipes(Place("line", u))
      BY <2>1, <2>2 DEF LayerInv, LineClean
    <3>2. course = "HIDDEN" => Wipes(Place("line", pose))
      BY <2>1, <2>2 DEF LayerInv, LineClean
    <3>3. course # "HIDDEN" => Wipes(Place("line", pose)) /\ Wipes(Place("line", s))
      BY <1>5, <2>2
    <3> HIDE DEF Wipes
    <3> QED BY <3>1, <3>2, <3>3, Zenon
  <2> QED BY <1>1, <1>8, <2>2 DEF LineClean, Wiped
<1>10. \A e \in Elements : e # "line" => Place(e, s) = Place(e, pose)
  BY <1>0, PlaceIs
<1>11. \A e : Picture(e)' = Picture(e)
  BY <1>1 DEF Picture, Filled
<1>12. \A e : Bare(Picture(e))' = Bare(Picture(e)) /\ Bare(glass[Place(e, pose)])' = Bare(glass[Place(e, s)])
  BY <1>1, <1>8, <1>11 DEF Bare
<1>13. ASSUME shown, NEW e \in Elements, course \in {"IN", "LIVE"}, prog[e] = 1000
       PROVE  Place(e, s) \in stale' \/ Bare(glass[Place(e, s)]) = Bare(Picture(e))
  BY <1>4, <1>5, <1>10, <1>13 DEF LayerInv, WholeDrawn
<1>14. shown => WholeDrawn'
  BY <1>1, <1>8, <1>12, <1>13 DEF WholeDrawn
<1> QED BY <1>1, <1>6, <1>7, <1>9, <1>14 DEF LayerInv

LEMMA LayerStarts ==
  ASSUME "cell" \notin Elements, DecoInit \/ DecoOff
  PROVE  LayerInv
<1>0. "plain" \in Poses /\ 0 \in 0 .. Total
  BY LayerOf DEF Total
<1>1. /\ course \in {"LIVE", "HIDDEN"} /\ elapsed = 0 /\ pose = "plain" /\ ph = Still
      /\ seen = [e \in Elements |-> <<0, 0>>] /\ glass = [q \in Places |-> Blank]
      /\ stale \in {{}, Places} /\ (shown => stale = Places)
      /\ prog \in [Elements -> Thousandths] /\ \A e \in Elements : prog[e] \in {0, 1000}
  BY StillIs, CompleteIs DEF DecoInit, DecoOff, Complete, Thousandths, Gone
<1>2. LayerType
  BY <1>0, <1>1, StillIs DEF LayerType
<1>3. Signed
  BY <1>1 DEF Signed
<1>4. shown => LineClean /\ WholeDrawn
  BY <1>0, <1>1, PlaceIs, PlacesAre DEF LineClean, WholeDrawn, Wiped
<1> QED BY <1>2, <1>3, <1>4 DEF LayerInv

LEMMA LayerNext ==
  ASSUME "cell" \notin Elements, LayerInv, DecoNext
  PROVE  LayerInv'
BY LayerRedraw, LayerTimer, LayerIntro, LayerAtOnce, LayerOutro, LayerAppear, LayerVanish,
   LayerPulse, LayerSetSlot, LayerSetState, LayerSetLevel, Zenon DEF DecoNext

LEMMA LayerShows ==
  ASSUME "cell" \notin Elements, LayerInv
  PROVE  WholeInPlace
<1>0. LayerType /\ pose \in Poses
  BY DEF LayerInv, LayerType
<1> SUFFICES ASSUME shown, course = "LIVE", stale = {}, NEW e \in Elements, prog[e] = 1000,
                    NEW q \in Places, q[1] = e
             PROVE  Bare(glass[q]) = Bare(IF q = Place(e, pose) THEN Picture(e) ELSE Blank)
  BY DEF WholeInPlace
<1>1. CASE q = Place(e, pose)
  BY <1>1 DEF LayerInv, WholeDrawn
<1>2. CASE q # Place(e, pose)
  <2>1. PICK s \in Poses : q = Place(e, s)
    BY <1>0, PlacesAre
  <2>2. e = "line"
    BY <1>0, <1>2, <2>1, PlaceIs
  <2>3. glass[q] = Blank
    BY <1>2, <2>1, <2>2 DEF LayerInv, LineClean, Wiped
  <2> QED BY <1>2, <2>3 DEF Bare
<1> QED BY <1>1, <1>2

LEMMA DeviceDeco ==
  /\ DeviceInit => DecoInit \/ DecoOff
  /\ [DeviceNext]_<<part, vars, keyVars, glow, deco, config, json, hostData, meters>> => [DecoNext]_deco
BY Zenon DEF DeviceInit, DeviceNext, Merging, Pressing, Glowing, Drawing, Configuring, Scanning, Telling, Metering

\* Of brackets, lines and blocks, what is wholly there is on the glass in the place of the
\* pose and in no other, with the slot and the brightness as they are now (draw_cb,
\* visual_sig, flush_dirty, ui_deco_set_state), whatever poses, slots, beats and interrupted
\* entrances came before.  A moving cell is excepted: its exit leaves it on the glass.
THEOREM WholeStands ==
  ASSUME "cell" \notin Elements
  PROVE  DeviceSpec => []WholeInPlace
<1>1. DeviceInit => LayerInv
  BY DeviceDeco, LayerStarts
<1>2. LayerInv /\ [DeviceNext]_<<part, vars, keyVars, glow, deco, config, json, hostData, meters>>
        => LayerInv'
  BY DeviceDeco, LayerNext, LayerFrame
<1>3. LayerInv => WholeInPlace
  BY LayerShows
<1>4. QED
  BY <1>1, <1>2, <1>3, PTL DEF DeviceSpec
-----------------------------------------------------------------------------
(* JsonRead: induction *)

LEMMA NatSetInduction ==
  ASSUME NEW T \in SUBSET Nat, 0 \in T, \A n \in T : n + 1 \in T
  PROVE  T = Nat
<1> SUFFICES ASSUME NEW k \in Nat \ T PROVE FALSE
  OBVIOUS
<1> DEFINE U == (0 .. k) \ T
           D == U \ {k}
           down == [i \in U |-> i - 1]
<1>1. IsFiniteSet(U) /\ k \in U /\ IsFiniteSet(D) /\ Cardinality(D) = Cardinality(U) - 1
      /\ Cardinality(U) \in Nat
  <2>1. IsFiniteSet(U)
    <3>1. IsFiniteSet(0 .. k) BY FS_Interval
    <3> QED BY <3>1, FS_Subset
  <2>2. k \in U OBVIOUS
  <2> HIDE DEF U
  <2> QED BY <2>1, <2>2, FS_RemoveElement, FS_CardinalityType
<1>2. down \in [U -> D]
  <2> SUFFICES ASSUME NEW i \in U PROVE i - 1 \in D
    OBVIOUS
  <2>1. i # 0 /\ i \in Nat OBVIOUS
  <2>2. i - 1 \in Nat /\ (i - 1) + 1 = i BY <2>1
  <2> QED BY <2>1, <2>2
<1>3. \A i, j \in U : i # j => down[i] # down[j]
  OBVIOUS
<1> HIDE DEF U, D, down
<1>4. Cardinality(D) < Cardinality(U) BY <1>1
<1>5. \E x, y \in U : x # y /\ down[x] = down[y]
  BY <1>1, <1>2, <1>4, FS_PigeonHole
<1> QED BY <1>3, <1>5

LEMMA RankInduction ==
  ASSUME NEW D, NEW G, NEW rank, \A x \in D : rank[x] \in Nat,
         \A x \in D : (\A y \in D : rank[y] < rank[x] => y \in G) => x \in G
  PROVE  D \subseteq G
<1> DEFINE T == {n \in Nat : \A x \in D : rank[x] < n => x \in G}
<1>1. 0 \in T
  OBVIOUS
<1>2. ASSUME NEW n \in T PROVE n + 1 \in T
  <2> SUFFICES ASSUME NEW x \in D, rank[x] < n + 1 PROVE x \in G
    OBVIOUS
  <2>1. \A y \in D : rank[y] < rank[x] => rank[y] < n
    OBVIOUS
  <2> QED BY <2>1
<1>3. T = Nat
  <2> HIDE DEF T
  <2>1. T \in SUBSET Nat
    BY DEF T
  <2> QED BY <1>1, <1>2, <2>1, NatSetInduction
<1> QED
  <2> SUFFICES ASSUME NEW x \in D PROVE x \in G
    OBVIOUS
  <2>1. rank[x] + 1 \in T /\ rank[x] < rank[x] + 1
    BY <1>3
  <2> QED BY <2>1

\* A function that is defined by its value at a next place, of a smaller rank, exists.
Follows(f, D, stop, base, next, act) ==
  \A x \in D : f[x] = IF x \in stop THEN base[x] ELSE act[<<x, f[next[x]]>>]

LEMMA Recursion ==
  ASSUME NEW D, NEW V, NEW stop, NEW base \in [D -> V], NEW next \in [D -> D],
         NEW act \in [D \X V -> V], NEW N \in Nat, NEW rank \in [D -> 0 .. N],
         \A x \in D \ stop : rank[next[x]] < rank[x]
  PROVE  \E f \in [D -> V] : Follows(f, D, stop, base, next, act)
<1> DEFINE Is(g, x) == g[x] = IF x \in stop THEN base[x] ELSE act[<<x, g[next[x]]>>]
           T == {n \in Nat : \E g \in [D -> V] : \A x \in D : rank[x] < n => Is(g, x)}
<1>1. 0 \in T
  <2>1. \A x \in D : ~(rank[x] < 0)
    OBVIOUS
  <2> QED BY <2>1
<1>2. ASSUME NEW n \in T PROVE n + 1 \in T
  <2>1. PICK g \in [D -> V] : \A x \in D : rank[x] < n => Is(g, x)
    OBVIOUS
  <2> DEFINE h == [x \in D |-> IF x \in stop THEN base[x] ELSE act[<<x, g[next[x]]>>]]
  <2>2. h \in [D -> V]
    OBVIOUS
  <2>3. ASSUME NEW x \in D, rank[x] < n + 1 PROVE Is(h, x)
    <3>1. CASE x \in stop
      BY <3>1
    <3>2. CASE x \notin stop
      <4>1. next[x] \in D /\ rank[next[x]] < n
        BY <2>3, <3>2
      <4>2. h[next[x]] = g[next[x]]
        BY <2>1, <4>1
      <4> QED BY <3>2, <4>2
    <3> QED BY <3>1, <3>2
  <2> HIDE DEF h
  <2>4. \E g1 \in [D -> V] : \A x \in D : rank[x] < n + 1 => Is(g1, x)
    BY <2>2, <2>3
  <2> QED BY <2>4
<1>3. T = Nat
  <2> HIDE DEF T
  <2>1. T \in SUBSET Nat
    BY DEF T
  <2> QED BY <1>1, <1>2, <2>1, NatSetInduction
<1>4. N + 1 \in T
  <2> HIDE DEF T
  <2> QED BY <1>3
<1>5. \A x \in D : rank[x] < N + 1
  OBVIOUS
<1> QED BY <1>4, <1>5 DEF Follows

-----------------------------------------------------------------------------
(* What is put together from parts *)

LEMMA Cat ==
  ASSUME NEW S, NEW s \in Seq(S), NEW t \in Seq(S)
  PROVE  /\ s \o t \in Seq(S) /\ Len(s \o t) = Len(s) + Len(t)
         /\ \A i \in 1 .. Len(s) : (s \o t)[i] = s[i]
         /\ \A j \in 1 .. Len(t) : (s \o t)[Len(s) + j] = t[j]
OBVIOUS

\* Where each part of q ends.
PartEnds(o, q) ==
  /\ o \in [0 .. Len(q) -> Nat] /\ o[0] = 0
  /\ \A k \in 1 .. Len(q) : o[k] = o[k - 1] + Len(q[k])

\* t is the parts of q, one after the other.
Strung(t, q, o) ==
  /\ PartEnds(o, q) /\ Len(t) = o[Len(q)]
  /\ \A k \in 1 .. Len(q) : \A j \in 1 .. Len(q[k]) : t[o[k - 1] + j] = q[k][j]

LEMMA OffsetsGrow ==
  ASSUME NEW S, NEW q \in Seq(Seq(S)), NEW o, PartEnds(o, q)
  PROVE  /\ \A a, b \in 0 .. Len(q) : a <= b => o[a] <= o[b]
         /\ \A a \in 0 .. Len(q) : o[a] \in Nat
<1>1. \A a \in 0 .. Len(q) : o[a] \in Nat
  BY DEF PartEnds
<1> DEFINE T == {n \in Nat : n <= Len(q) => \A a \in 0 .. n : o[a] <= o[n]}
<1>2. 0 \in T
  BY <1>1
<1>3. ASSUME NEW n \in T PROVE n + 1 \in T
  <2> SUFFICES ASSUME n + 1 <= Len(q), NEW a \in 0 .. (n + 1) PROVE o[a] <= o[n + 1]
    OBVIOUS
  <2>1. n + 1 \in 1 .. Len(q) /\ n \in 0 .. Len(q) /\ n + 1 \in 0 .. Len(q) /\ (n + 1) - 1 = n
    OBVIOUS
  <2>2. o[n + 1] = o[n] + Len(q[n + 1]) /\ Len(q[n + 1]) \in Nat
    BY <2>1 DEF PartEnds
  <2>3. a = n + 1 \/ (a \in 0 .. n /\ a \in 0 .. Len(q) /\ o[a] <= o[n])
    BY <2>1
  <2> QED BY <1>1, <2>1, <2>2, <2>3
<1>4. T = Nat
  <2> HIDE DEF T
  <2>1. T \in SUBSET Nat
    BY DEF T
  <2> QED BY <1>2, <1>3, <2>1, NatSetInduction
<1> QED
  <2> SUFFICES ASSUME NEW a \in 0 .. Len(q), NEW b \in 0 .. Len(q), a <= b PROVE o[a] <= o[b]
    BY <1>1
  <2>1. b \in T
    <3> HIDE DEF T
    <3> QED BY <1>4
  <2> QED BY <2>1

\* Every place is in a part.
LEMMA OffsetsCover ==
  ASSUME NEW S, NEW q \in Seq(Seq(S)), NEW o, PartEnds(o, q), NEW i \in 1 .. o[Len(q)]
  PROVE  \E k \in 1 .. Len(q) : \E j \in 1 .. Len(q[k]) : i = o[k - 1] + j
<1>1. \A a \in 0 .. Len(q) : o[a] \in Nat
  BY OffsetsGrow
<1> DEFINE Found == \E k \in 1 .. Len(q) : \E j \in 1 .. Len(q[k]) : i = o[k - 1] + j
           T == {n \in Nat : n <= Len(q) /\ i <= o[n] => Found}
<1>2. 0 \in T
  BY <1>1 DEF PartEnds
<1>3. ASSUME NEW n \in T PROVE n + 1 \in T
  <2> SUFFICES ASSUME n + 1 <= Len(q), i <= o[n + 1] PROVE Found
    OBVIOUS
  <2>1. n + 1 \in 1 .. Len(q) /\ n \in 0 .. Len(q) /\ n + 1 \in 0 .. Len(q) /\ (n + 1) - 1 = n
    OBVIOUS
  <2>2. o[n + 1] = o[n] + Len(q[n + 1]) /\ Len(q[n + 1]) \in Nat
    BY <2>1 DEF PartEnds
  <2>3. CASE i <= o[n]
    BY <2>3
  <2>4. CASE ~(i <= o[n])
    <3> DEFINE j == i - o[n]
    <3>1. j \in 1 .. Len(q[n + 1]) /\ i = o[n] + j
      BY <1>1, <2>1, <2>2, <2>4
    <3> QED BY <2>1, <3>1
  <2> QED BY <2>3, <2>4
<1>4. T = Nat
  <2> HIDE DEF T
  <2>1. T \in SUBSET Nat
    BY DEF T
  <2> QED BY <1>2, <1>3, <2>1, NatSetInduction
<1>5. Len(q) \in T
  <2> HIDE DEF T
  <2> QED BY <1>4
<1> QED BY <1>1, <1>5

\* Only one way to cut and one to put together.
LEMMA OffsetsUnique ==
  ASSUME NEW S, NEW q \in Seq(Seq(S)), NEW r \in Seq(Seq(S)), NEW o, NEW u, PartEnds(o, q), PartEnds(u, r),
         Len(r) <= Len(q), \A k \in 1 .. Len(r) : r[k] = q[k]
  PROVE  \A k \in 0 .. Len(r) : u[k] = o[k]
<1> DEFINE T == {n \in Nat : n <= Len(r) => u[n] = o[n]}
<1>1. 0 \in T
  BY DEF PartEnds
<1>2. ASSUME NEW n \in T PROVE n + 1 \in T
  <2> SUFFICES ASSUME n + 1 <= Len(r) PROVE u[n + 1] = o[n + 1]
    OBVIOUS
  <2>1. n + 1 \in 1 .. Len(q) /\ n + 1 \in 1 .. Len(r) /\ (n + 1) - 1 = n /\ u[n] = o[n]
    OBVIOUS
  <2>2. o[n + 1] = o[n] + Len(q[n + 1]) /\ u[n + 1] = u[n] + Len(r[n + 1])
    BY <2>1 DEF PartEnds
  <2> QED BY <2>1, <2>2
<1>3. T = Nat
  <2> HIDE DEF T
  <2>1. T \in SUBSET Nat
    BY DEF T
  <2> QED BY <1>1, <1>2, <2>1, NatSetInduction
<1> QED
  <2> SUFFICES ASSUME NEW k \in 0 .. Len(r) PROVE u[k] = o[k]
    OBVIOUS
  <2>1. k \in T
    <3> HIDE DEF T
    <3> QED BY <1>3
  <2> QED BY <2>1

\* FlattenSeq puts the parts together.
LEMMA Flattened ==
  ASSUME NEW S, NEW q \in Seq(Seq(S))
  PROVE  FlattenSeq(q) \in Seq(S) /\ \E o : Strung(FlattenSeq(q), q, o)
<1> DEFINE n == Len(q)
<1>1. CASE n = 0
  <2>1. FlattenSeq(q) = q /\ q = <<>>
    BY <1>1 DEF FlattenSeq
  <2>2. Strung(q, q, [k \in 0 .. 0 |-> 0])
    BY <1>1 DEF Strung, PartEnds
  <2> QED BY <2>1, <2>2
<1>2. CASE n # 0
  <2> DEFINE D == 1 .. n
             V == Seq(S)
             next == [x \in D |-> IF x = 1 THEN 1 ELSE x - 1]
             act == [z \in D \X V |-> z[2] \o q[z[1]]]
             base == [x \in D |-> q[x]]
             rank == [x \in D |-> x]
             Body(f) == [i \in 1 .. Len(q) |-> IF i = 1 THEN q[i] ELSE f[i - 1] \o q[i]]
             f == CHOOSE f : f = Body(f)
  <2>1. \E g \in [D -> V] : Follows(g, D, {1}, base, next, act)
    <3>1. base \in [D -> V] /\ next \in [D -> D] /\ act \in [D \X V -> V] /\ rank \in [D -> 0 .. n]
      OBVIOUS
    <3>2. \A x \in D \ {1} : rank[next[x]] < rank[x]
      OBVIOUS
    <3>3. n \in Nat
      OBVIOUS
    <3> HIDE DEF n, D, V, base, next, act, rank
    <3> QED BY <3>1, <3>2, <3>3, Recursion
  <2>2. PICK g \in [D -> V] : Follows(g, D, {1}, base, next, act)
    BY <2>1
  <2>3. g = Body(g)
    <3>1. \A x \in D : g[x] = IF x = 1 THEN q[x] ELSE g[x - 1] \o q[x]
      <4> SUFFICES ASSUME NEW x \in D PROVE g[x] = IF x = 1 THEN q[x] ELSE g[x - 1] \o q[x]
        OBVIOUS
      <4>1. CASE x = 1
        BY <4>1, <2>2 DEF Follows
      <4>2. CASE x # 1
        <5>1. next[x] = x - 1 /\ x - 1 \in D
          BY <4>2
        <5>2. g[x] = act[<<x, g[next[x]]>>]
          <6> HIDE DEF next, act, base, D, V
          <6> QED BY <4>2, <2>2 DEF Follows
        <5>3. act[<<x, g[x - 1]>>] = g[x - 1] \o q[x]
          BY <5>1
        <5> HIDE DEF next, act
        <5> QED BY <4>2, <5>1, <5>2, <5>3
      <4> QED BY <4>1, <4>2
    <3> QED BY <3>1
  <2>4. f = Body(f)
    <3> HIDE DEF Body
    <3> QED BY <2>3
  <2>5. FlattenSeq(q) = f[n]
    BY <1>2 DEF FlattenSeq
  <2> HIDE DEF f
  <2>6. f[1] = q[1] /\ \A i \in 2 .. n : f[i] = f[i - 1] \o q[i]
    <3>1. \A i \in 1 .. n : Body(f)[i] = IF i = 1 THEN q[i] ELSE f[i - 1] \o q[i]
      OBVIOUS
    <3>2. \A i \in 1 .. n : f[i] = Body(f)[i]
      <4> HIDE DEF Body
      <4> QED BY <2>4
    <3> HIDE DEF Body
    <3>3. 1 \in 1 .. n /\ \A i \in 2 .. n : i \in 1 .. n /\ i # 1
      BY <1>2
    <3> HIDE DEF n
    <3> QED BY <3>1, <3>2, <3>3
  <2> HIDE DEF Body
  <2> DEFINE T == {m \in Nat : m \in 1 .. n => f[m] \in Seq(S)}
  <2>7. T = Nat
    <3>1. 0 \in T
      OBVIOUS
    <3>2. ASSUME NEW m \in T PROVE m + 1 \in T
      <4> SUFFICES ASSUME m + 1 \in 1 .. n PROVE f[m + 1] \in Seq(S)
        OBVIOUS
      <4>1. q[m + 1] \in Seq(S)
        OBVIOUS
      <4>2. CASE m = 0
        BY <2>6, <4>1, <4>2
      <4>3. CASE m # 0
        <5>1. f[m] \in Seq(S) /\ m + 1 \in 2 .. n /\ (m + 1) - 1 = m
          BY <4>3
        <5>2. f[m + 1] = f[m] \o q[m + 1]
          BY <5>1, <2>6
        <5> QED BY <4>1, <5>1, <5>2
      <4> QED BY <4>2, <4>3
    <3>3. T \in SUBSET Nat
      OBVIOUS
    <3> HIDE DEF T
    <3> QED BY <3>1, <3>2, <3>3, NatSetInduction
  <2>8. \A m \in 1 .. n : f[m] \in Seq(S) /\ q[m] \in Seq(S)
    <3>1. \A m \in 1 .. n : m \in T
      <4> HIDE DEF T
      <4> QED BY <2>7
    <3> QED BY <3>1
  <2> HIDE DEF T
  <2> DEFINE o == [k \in 0 .. n |-> IF k = 0 THEN 0 ELSE Len(f[k])]
  <2>9. PartEnds(o, q)
    <3>1. o \in [0 .. n -> Nat] /\ o[0] = 0
      BY <2>8
    <3>2. ASSUME NEW k \in 1 .. n PROVE o[k] = o[k - 1] + Len(q[k])
      <4>1. CASE k = 1
        BY <4>1, <2>6
      <4>2. CASE k # 1
        <5>1. k \in 2 .. n /\ k - 1 \in 1 .. n
          BY <4>2
        <5>2. f[k] = f[k - 1] \o q[k]
          BY <5>1, <2>6
        <5>3. o[k] = Len(f[k]) /\ o[k - 1] = Len(f[k - 1])
          BY <5>1
        <5>4. f[k - 1] \in Seq(S) /\ q[k] \in Seq(S)
          BY <2>8, <5>1
        <5> HIDE DEF o
        <5> QED BY <5>2, <5>3, <5>4, Cat
      <4> QED BY <4>1, <4>2
    <3> HIDE DEF o
    <3> QED BY <3>1, <3>2 DEF PartEnds
  <2>10. \A k \in 1 .. n : o[k] = Len(f[k])
    OBVIOUS
  <2> HIDE DEF o
  <2> DEFINE Piled(m) == \A k \in 1 .. m : \A j \in 1 .. Len(q[k]) : f[m][o[k - 1] + j] = q[k][j]
             U == {m \in Nat : m \in 1 .. n => Piled(m)}
  <2>11. ASSUME NEW m \in U PROVE m + 1 \in U
    <3> HIDE DEF Piled
    <3>0. m \in Nat /\ m + 1 \in Nat /\ (m \in 1 .. n => Piled(m))
      OBVIOUS
    <3> SUFFICES ASSUME m + 1 \in 1 .. n PROVE Piled(m + 1)
      BY <3>0
    <3> HIDE DEF U
    <3> SUFFICES ASSUME NEW k \in 1 .. (m + 1), NEW j \in 1 .. Len(q[k])
                 PROVE  f[m + 1][o[k - 1] + j] = q[k][j]
      BY DEF Piled
    <3>1. CASE m = 0
      <4>1. k = 1 /\ o[0] = 0 /\ f[1] = q[1]
        BY <3>1, <2>6, <2>9 DEF PartEnds
      <4> QED BY <3>1, <4>1
    <3>2. CASE m # 0
      <4>1. m \in 1 .. n /\ m + 1 \in 2 .. n /\ (m + 1) - 1 = m
        BY <3>0, <3>2
      <4>2. f[m + 1] = f[m] \o q[m + 1] /\ f[m] \in Seq(S) /\ q[m + 1] \in Seq(S) /\ o[m] = Len(f[m])
        BY <4>1, <2>6, <2>8, <2>10
      <4>3. CASE k = m + 1
        <5>1. (f[m] \o q[m + 1])[Len(f[m]) + j] = q[m + 1][j]
          <6> DEFINE e == q[m + 1]
                     h == f[m]
          <6>1. h \in Seq(S) /\ e \in Seq(S) /\ j \in 1 .. Len(e)
            BY <4>2, <4>3
          <6> HIDE DEF e, h
          <6>2. (h \o e)[Len(h) + j] = e[j]
            BY <6>1, Cat
          <6> QED BY <6>2 DEF e, h
        <5> QED BY <4>1, <4>2, <4>3, <5>1
      <4>4. CASE k # m + 1
        <5>1. k \in 1 .. m /\ f[m][o[k - 1] + j] = q[k][j]
          <6>1. k \in 1 .. m
            BY <3>0, <4>4
          <6>2. Piled(m)
            BY <3>0, <4>1
          <6> QED BY <6>1, <6>2, Zenon DEF Piled
        <5>2. k \in 1 .. Len(q) /\ k \in 0 .. Len(q) /\ k - 1 \in 0 .. Len(q) /\ m \in 0 .. Len(q) /\ k <= m
          BY <4>1, <5>1
        <5>3. o[k] = o[k - 1] + Len(q[k]) /\ o[k] <= o[m] /\ o[k - 1] \in Nat /\ Len(q[k]) \in Nat
          <6>1. o[k] <= o[m] /\ o[k - 1] \in Nat
            BY <2>9, <5>2, OffsetsGrow
          <6> HIDE DEF n
          <6> QED BY <2>8, <2>9, <5>2, <6>1 DEF PartEnds
        <5>4. o[k - 1] + j \in 1 .. Len(f[m])
          <6> DEFINE a == o[k - 1]
                     b == o[k]
                     c == Len(q[k])
                     d == Len(f[m])
          <6>1. a \in Nat /\ c \in Nat /\ d \in Nat /\ b = a + c /\ b <= d /\ j \in 1 .. c
            BY <4>2, <5>3
          <6> HIDE DEF a, b, c, d
          <6>2. a + j \in 1 .. d
            BY <6>1
          <6> QED BY <6>2 DEF a, d
        <5>5. (f[m] \o q[m + 1])[o[k - 1] + j] = f[m][o[k - 1] + j]
          <6> DEFINE e == q[m + 1]
                     h == f[m]
          <6>1. h \in Seq(S) /\ e \in Seq(S) /\ o[k - 1] + j \in 1 .. Len(h)
            BY <4>2, <5>4
          <6> HIDE DEF e, h
          <6>2. (h \o e)[o[k - 1] + j] = h[o[k - 1] + j]
            BY <6>1, Cat
          <6> QED BY <6>2 DEF e, h
        <5> QED BY <4>2, <5>1, <5>5
      <4> QED BY <4>3, <4>4
    <3> QED BY <3>1, <3>2
  <2>12. U = Nat
    <3>1. 0 \in U
      OBVIOUS
    <3>2. U \in SUBSET Nat
      OBVIOUS
    <3> HIDE DEF U
    <3> QED BY <2>11, <3>1, <3>2, NatSetInduction
  <2>13. n \in U /\ n \in 1 .. n
    <3>1. n \in Nat /\ n \in 1 .. n
      BY <1>2
    <3> HIDE DEF U, n
    <3> QED BY <2>12, <3>1
  <2>14. Strung(f[n], q, o)
    BY <2>9, <2>10, <2>13 DEF Strung
  <2> QED BY <2>5, <2>8, <2>13, <2>14
<1> QED BY <1>1, <1>2

LEMMA InPart ==
  ASSUME NEW a \in Nat, NEW b, NEW c \in Nat, NEW d \in Nat, b = a + c, b <= d, NEW j \in 1 .. c
  PROVE  a + j \in 1 .. d
OBVIOUS

LEMMA SeqSame ==
  ASSUME NEW S, NEW s \in Seq(S), NEW t \in Seq(S), Len(s) = Len(t), \A i \in 1 .. Len(s) : s[i] = t[i]
  PROVE  s = t
OBVIOUS

LEMMA FlatSame ==
  ASSUME NEW S, NEW q \in Seq(Seq(S)), NEW s \in Seq(S), NEW t \in Seq(S), NEW o, NEW u,
         Strung(s, q, o), Strung(t, q, u)
  PROVE  s = t
<1>1. \A k \in 0 .. Len(q) : u[k] = o[k]
  <2>1. PartEnds(o, q) /\ PartEnds(u, q) /\ Len(q) <= Len(q) /\ \A k \in 1 .. Len(q) : q[k] = q[k]
    BY DEF Strung
  <2> QED BY <2>1, OffsetsUnique
<1>2. Len(s) = Len(t) /\ Len(s) = o[Len(q)] /\ PartEnds(o, q)
  BY <1>1 DEF Strung
<1>3. ASSUME NEW i \in 1 .. Len(s) PROVE s[i] = t[i]
  <2>0. i \in 1 .. o[Len(q)]
    BY <1>2
  <2>1. PICK k \in 1 .. Len(q) : \E j \in 1 .. Len(q[k]) : i = o[k - 1] + j
    BY <1>2, <2>0, OffsetsCover, SMTT(30)
  <2>2. PICK j \in 1 .. Len(q[k]) : i = o[k - 1] + j
    BY <2>1
  <2>3. k - 1 \in 0 .. Len(q) /\ u[k - 1] = o[k - 1]
    BY <1>1
  <2> QED BY <2>2, <2>3 DEF Strung
<1> QED BY <1>2, <1>3, SeqSame

\* What the first parts give is the beginning of the whole.
LEMMA FlatPrefix ==
  ASSUME NEW S, NEW q \in Seq(Seq(S)), NEW t \in Seq(S), NEW o, Strung(t, q, o), NEW i \in 0 .. Len(q)
  PROVE  /\ o[i] \in 0 .. Len(t) /\ SubSeq(t, 1, o[i]) \in Seq(S)
         /\ FlattenSeq(SubSeq(q, 1, i)) = SubSeq(t, 1, o[i])
<1> DEFINE r == SubSeq(q, 1, i)
           h == SubSeq(t, 1, o[i])
<1>1. /\ r \in Seq(Seq(S)) /\ Len(r) = i /\ \A k \in 1 .. Len(r) : r[k] = q[k]
      /\ i \in Nat /\ Len(q) \in Nat /\ i <= Len(q)
  OBVIOUS
<1>2. PartEnds(o, q) /\ Len(t) = o[Len(q)]
  BY DEF Strung
<1>3. \A k \in 0 .. Len(q) : o[k] \in Nat /\ (k <= i => o[k] <= o[i]) /\ o[k] <= Len(t)
  <2>1. Len(q) \in 0 .. Len(q)
    OBVIOUS
  <2> QED BY <1>2, <2>1, OffsetsGrow
<1>4. o[i] \in 0 .. Len(t)
  BY <1>3
<1>5. h \in Seq(S) /\ Len(h) = o[i] /\ \A j \in 1 .. o[i] : h[j] = t[j]
  BY <1>4
<1> HIDE DEF r, h
<1>6. PICK u : Strung(FlattenSeq(r), r, u)
  BY <1>1, Flattened
<1>7. FlattenSeq(r) \in Seq(S)
  BY <1>1, Flattened
<1>8. \A k \in 0 .. Len(r) : u[k] = o[k]
  <2>1. PartEnds(u, r) /\ Len(r) <= Len(q)
    BY <1>1, <1>6 DEF Strung
  <2>2. r \in Seq(Seq(S)) /\ \A k \in 1 .. Len(r) : r[k] = q[k]
    BY <1>1
  <2>3. PartEnds(o, q)
    BY <1>2
  <2> QED BY <2>1, <2>2, <2>3, OffsetsUnique
<1>9. Strung(h, r, u)
  <2>1. PartEnds(u, r)
    BY <1>6 DEF Strung
  <2>2. Len(h) = u[Len(r)]
    BY <1>1, <1>5, <1>8
  <2>3. ASSUME NEW k \in 1 .. Len(r), NEW j \in 1 .. Len(r[k]) PROVE h[u[k - 1] + j] = r[k][j]
    <3>1. k \in 1 .. Len(q) /\ k - 1 \in 0 .. Len(r) /\ k \in 0 .. Len(q) /\ k - 1 \in 0 .. Len(q) /\ k <= i
      BY <1>1
    <3>2. r[k] = q[k] /\ u[k - 1] = o[k - 1] /\ t[o[k - 1] + j] = q[k][j]
      BY <1>1, <1>8, <3>1 DEF Strung
    <3>3. o[k] = o[k - 1] + Len(q[k]) /\ o[k] <= o[i] /\ o[k - 1] \in Nat
      BY <1>2, <1>3, <3>1 DEF PartEnds
    <3>4. o[k - 1] + j \in 1 .. o[i]
      <4>1. Len(q[k]) \in Nat /\ j \in 1 .. Len(q[k])
        BY <3>1, <3>2
      <4>2. o[i] \in Nat
        BY <1>4
      <4> QED BY <3>3, <4>1, <4>2, InPart
    <3> QED BY <1>5, <3>2, <3>4
  <2> QED BY <2>1, <2>2, <2>3 DEF Strung
<1>10. FlattenSeq(r) = h
  BY <1>1, <1>5, <1>6, <1>7, <1>9, FlatSame
<1> QED BY <1>4, <1>5, <1>10 DEF r, h

\* s has x behind its first c characters, as far as it goes.
Agree(s, c, x) == \A j \in 1 .. Len(x) : c + j <= Len(s) => s[c + j] = x[j]

LEMMA AgreeCat ==
  ASSUME NEW S, NEW s \in Seq(S), NEW c \in Nat, NEW x \in Seq(S), NEW y \in Seq(S),
         Agree(s, c, x \o y)
  PROVE  Agree(s, c, x) /\ Agree(s, c + Len(x), y)
<1>1. /\ Len(x \o y) = Len(x) + Len(y) /\ Len(x) \in Nat /\ Len(y) \in Nat
      /\ \A i \in 1 .. Len(x) : (x \o y)[i] = x[i]
      /\ \A j \in 1 .. Len(y) : (x \o y)[Len(x) + j] = y[j]
  BY Cat
<1>2. Agree(s, c, x)
  <2> SUFFICES ASSUME NEW j \in 1 .. Len(x), c + j <= Len(s) PROVE s[c + j] = x[j]
    BY DEF Agree
  <2>1. j \in 1 .. Len(x \o y)
    BY <1>1
  <2> QED BY <1>1, <2>1 DEF Agree
<1>3. Agree(s, c + Len(x), y)
  <2> SUFFICES ASSUME NEW j \in 1 .. Len(y), (c + Len(x)) + j <= Len(s)
               PROVE  s[(c + Len(x)) + j] = y[j]
    BY DEF Agree
  <2>1. Len(x) + j \in 1 .. Len(x \o y) /\ (c + Len(x)) + j = c + (Len(x) + j)
    BY <1>1
  <2> QED BY <1>1, <2>1 DEF Agree
<1> QED BY <1>2, <1>3

LEMMA AgreeFlat ==
  ASSUME NEW S, NEW s \in Seq(S), NEW c \in Nat, NEW q \in Seq(Seq(S)), NEW t \in Seq(S), NEW o,
         Strung(t, q, o), Agree(s, c, t), NEW k \in 1 .. Len(q)
  PROVE  Agree(s, c + o[k - 1], q[k]) /\ o[k - 1] \in Nat
<1>1. PartEnds(o, q) /\ k - 1 \in 0 .. Len(q) /\ k \in 0 .. Len(q) /\ Len(q) \in 0 .. Len(q)
  BY DEF Strung
<1>2. o[k - 1] \in Nat /\ o[k] \in Nat /\ o[k] <= o[Len(q)]
  BY <1>1, OffsetsGrow
<1>3. o[k] = o[k - 1] + Len(q[k]) /\ Len(t) = o[Len(q)] /\ Len(q[k]) \in Nat
  BY <1>1 DEF PartEnds, Strung
<1> SUFFICES ASSUME NEW j \in 1 .. Len(q[k]), (c + o[k - 1]) + j <= Len(s)
             PROVE  s[(c + o[k - 1]) + j] = q[k][j]
  BY <1>2 DEF Agree
<1>4. (c + o[k - 1]) + j = c + (o[k - 1] + j)
  BY <1>2, <1>3
<1>5. o[k - 1] + j \in 1 .. Len(t)
  <2>1. Len(t) \in Nat
    OBVIOUS
  <2> QED BY <1>2, <1>3, <2>1, InPart
<1>6. t[o[k - 1] + j] = q[k][j]
  BY DEF Strung
<1> QED BY <1>4, <1>5, <1>6 DEF Agree

-----------------------------------------------------------------------------
(* Skipping a string *)

Wire == Plain \union {"lead", "tail"}

\* The loop of StringEnd, from p on.
EndsString(f, s, p) ==
  \A i \in p .. Len(s) + 2 :
    /\ f[i] \in Nat
    /\ i > Len(s) => f[i] = 0
    /\ i <= Len(s) /\ s[i] = "\\" => i + 2 \in p .. Len(s) + 2 /\ f[i] = f[i + 2]
    /\ i <= Len(s) /\ s[i] = "quote" => f[i] = i + 1
    /\ i <= Len(s) /\ s[i] \notin {"\\", "quote"} => i + 1 \in p .. Len(s) + 2 /\ f[i] = f[i + 1]

LEMMA StringEndIs ==
  ASSUME NEW s \in Seq(Wire), NEW p \in 1 .. Len(s) + 2
  PROVE  \E f : EndsString(f, s, p) /\ StringEnd(s, p) = f[p]
<1> DEFINE n == Len(s)
           D == p .. n + 2
           stop == {i \in D : i > n \/ s[i] = "quote"}
           base == [i \in D |-> IF i > n THEN 0 ELSE i + 1]
           next == [i \in D |-> IF i \in stop THEN i ELSE IF s[i] = "\\" THEN i + 2 ELSE i + 1]
           act == [z \in D \X Nat |-> z[2]]
           rank == [i \in D |-> (n + 2) - i]
           Body(f) == [i \in p .. Len(s) + 2 |->
                         IF i > Len(s) THEN 0
                         ELSE CASE s[i] = "\\"    -> f[i + 2]
                                [] s[i] = "quote" -> i + 1
                                [] OTHER          -> f[i + 1]]
           f == CHOOSE f : f = Body(f)
<1>0. n \in Nat /\ p \in Nat /\ p >= 1
  OBVIOUS
<1>1. \E g \in [D -> Nat] : Follows(g, D, stop, base, next, act)
  <2>1. base \in [D -> Nat] /\ act \in [D \X Nat -> Nat] /\ rank \in [D -> 0 .. n + 2]
    BY <1>0
  <2>2. next \in [D -> D]
    BY <1>0
  <2>3. \A x \in D \ stop : rank[next[x]] < rank[x]
    <3> SUFFICES ASSUME NEW x \in D \ stop PROVE rank[next[x]] < rank[x]
      OBVIOUS
    <3>1. next[x] \in D /\ next[x] \in {x + 1, x + 2} /\ x \in D
      BY <2>2
    <3> HIDE DEF next, stop
    <3> QED BY <3>1, <1>0
  <2>4. n + 2 \in Nat
    BY <1>0
  <2> HIDE DEF n, D, stop, base, next, act, rank
  <2> QED BY <2>1, <2>2, <2>3, <2>4, Recursion
<1>2. PICK g \in [D -> Nat] : Follows(g, D, stop, base, next, act)
  BY <1>1
<1>3. ASSUME NEW i \in D PROVE g[i] = Body(g)[i]
  <2>1. CASE i > n
    BY <1>2, <2>1 DEF Follows
  <2>2. CASE i <= n /\ s[i] = "quote"
    BY <1>2, <2>2 DEF Follows
  <2>3. CASE i <= n /\ s[i] # "quote"
    <3>1. i \notin stop /\ next[i] = (IF s[i] = "\\" THEN i + 2 ELSE i + 1)
      BY <2>3, <1>0
    <3>2. next[i] \in D
      BY <3>1, <2>3, <1>0
    <3>3. g[i] = act[<<i, g[next[i]]>>]
      <4> HIDE DEF stop, next, act, base, D
      <4> QED BY <1>2, <3>1 DEF Follows
    <3>4. act[<<i, g[next[i]]>>] = g[next[i]]
      <4>1. g[next[i]] \in Nat
        <5> HIDE DEF next, D
        <5> QED BY <3>2
      <4> HIDE DEF next, D
      <4> QED BY <4>1
    <3> HIDE DEF next, act, stop
    <3> QED BY <2>3, <3>1, <3>3, <3>4, <1>0
  <2> QED BY <2>1, <2>2, <2>3, <1>0
<1>4. g = Body(g)
  <2>1. Body(g) = [i \in D |-> Body(g)[i]] /\ g = [i \in D |-> g[i]]
    BY <1>2
  <2> HIDE DEF Body, D
  <2> QED BY <1>3, <2>1
<1>5. f = Body(f)
  <2> HIDE DEF Body
  <2> QED BY <1>4
<1>6. StringEnd(s, p) = f[p]
  BY DEF StringEnd
<1> HIDE DEF f
<1>7. ASSUME NEW i \in D
      PROVE  f[i] = IF i > n THEN 0
                    ELSE IF s[i] = "\\" THEN f[i + 2]
                    ELSE IF s[i] = "quote" THEN i + 1 ELSE f[i + 1]
  <2>1. Body(f)[i] = IF i > n THEN 0
                     ELSE IF s[i] = "\\" THEN f[i + 2]
                     ELSE IF s[i] = "quote" THEN i + 1 ELSE f[i + 1]
    <3>1. "\\" # "quote"
      OBVIOUS
    <3> QED BY <3>1
  <2>2. f[i] = Body(f)[i]
    <3> HIDE DEF Body
    <3> QED BY <1>5
  <2> HIDE DEF Body
  <2> QED BY <2>1, <2>2
<1> HIDE DEF Body, D
<1>8. \A i \in D : f[i] \in Nat
  <2> DEFINE G == {i \in D : f[i] \in Nat}
  <2>1. \A x \in D : rank[x] \in Nat
    BY <1>0 DEF D
  <2>2. ASSUME NEW x \in D, \A y \in D : rank[y] < rank[x] => y \in G PROVE x \in G
    <3>1. CASE x > n
      BY <3>1, <1>7
    <3>2. CASE x <= n
      <4>1. x \in Nat /\ x + 1 \in D /\ x + 2 \in D /\ rank[x + 1] < rank[x] /\ rank[x + 2] < rank[x]
        BY <3>2, <1>0 DEF D
      <4>2. f[x + 1] \in Nat /\ f[x + 2] \in Nat
        BY <2>2, <4>1
      <4> QED BY <1>0, <1>7, <4>1, <4>2
    <3>3. x \in Nat
      BY <1>0 DEF D
    <3> QED BY <1>0, <3>1, <3>2, <3>3
  <2>3. D \subseteq G
    <3> HIDE DEF G, rank
    <3> QED BY <2>1, <2>2, RankInduction
  <2> QED BY <2>3
<1>9. EndsString(f, s, p)
  <2> SUFFICES ASSUME NEW i \in p .. Len(s) + 2
               PROVE  /\ f[i] \in Nat
                      /\ i > Len(s) => f[i] = 0
                      /\ i <= Len(s) /\ s[i] = "\\" => i + 2 \in p .. Len(s) + 2 /\ f[i] = f[i + 2]
                      /\ i <= Len(s) /\ s[i] = "quote" => f[i] = i + 1
                      /\ i <= Len(s) /\ s[i] \notin {"\\", "quote"} =>
                           i + 1 \in p .. Len(s) + 2 /\ f[i] = f[i + 1]
    BY DEF EndsString
  <2>1. i \in D
    BY DEF D
  <2>2. "\\" # "quote" /\ (i <= Len(s) => i + 1 \in p .. Len(s) + 2 /\ i + 2 \in p .. Len(s) + 2)
        /\ (i <= Len(s) <=> ~(i > Len(s)))
    BY <1>0
  <2> QED BY <1>7, <1>8, <2>1, <2>2
<1> QED BY <1>6, <1>9

LEMMA StringEndBounds ==
  ASSUME NEW s \in Seq(Wire), NEW p \in 1 .. Len(s) + 2
  PROVE  StringEnd(s, p) = 0 \/ StringEnd(s, p) \in p + 1 .. Len(s) + 1
<1> DEFINE n == Len(s)
           D == p .. n + 2
           rank == [i \in D |-> (n + 2) - i]
<1>0. n \in Nat /\ p \in Nat /\ p \in D
  OBVIOUS
<1>1. PICK f : EndsString(f, s, p) /\ StringEnd(s, p) = f[p]
  BY StringEndIs
<1> DEFINE G == {i \in D : f[i] = 0 \/ f[i] \in i + 1 .. n + 1}
<1>2. \A x \in D : rank[x] \in Nat
  BY <1>0
<1>3. ASSUME NEW x \in D, \A y \in D : rank[y] < rank[x] => y \in G PROVE x \in G
  <2>1. CASE x > n
    BY <2>1, <1>1 DEF EndsString
  <2>2. CASE x <= n
    <3>1. x \in Nat /\ x + 1 \in D /\ x + 2 \in D /\ rank[x + 1] < rank[x] /\ rank[x + 2] < rank[x]
      BY <2>2, <1>0
    <3>2. x + 1 \in G /\ x + 2 \in G
      <4> HIDE DEF G, D, rank
      <4> QED BY <3>1, <1>3
    <3>3. f[x] = f[x + 1] \/ f[x] = f[x + 2] \/ f[x] = x + 1
      BY <2>2, <1>1 DEF EndsString
    <3> QED BY <2>2, <3>1, <3>2, <3>3, <1>0
  <2> QED BY <2>1, <2>2, <1>0
<1>4. D \subseteq G
  <2> HIDE DEF G, D, rank
  <2> QED BY <1>2, <1>3, RankInduction
<1>5. p \in G
  <2> HIDE DEF G, D
  <2> QED BY <1>0, <1>4
<1> QED BY <1>1, <1>5

LEMMA SeqMade ==
  ASSUME NEW S, NEW n \in Nat, NEW e, e = [i \in 1 .. n |-> e[i]], \A i \in 1 .. n : e[i] \in S
  PROVE  e \in Seq(S) /\ Len(e) = n /\ DOMAIN e = 1 .. n
OBVIOUS

LEMMA WireChars ==
  /\ \A x \in {"k", "m", "n", "1", "quote", "\\", "lbrace", "rbrace", "[", "]", "colon", "comma", "lead", "tail"} : x \in Wire
  /\ \A x \in Plain : x \in Wire
BY DEF Wire, Plain, Letters

LEMMA OneChar ==
  ASSUME NEW S, NEW x \in S
  PROVE  <<x>> \in Seq(S) /\ Len(<<x>>) = 1 /\ <<x>>[1] = x
OBVIOUS

\* Each byte of b, with a backslash before it when it needs one.
EscapedBytes(b) ==
  [i \in DOMAIN b |-> IF b[i] \in {"quote", "\\"} THEN <<"\\", b[i]>> ELSE <<b[i]>>]

LEMMA EscapedIs ==
  ASSUME NEW b \in Seq(Wire)
  PROVE  /\ EscapedBytes(b) \in Seq(Seq(Wire)) /\ Len(EscapedBytes(b)) = Len(b)
         /\ Escaped(b) = FlattenSeq(EscapedBytes(b)) /\ Escaped(b) \in Seq(Wire)
         /\ \E o : Strung(Escaped(b), EscapedBytes(b), o)
<1>1. EscapedBytes(b) \in Seq(Seq(Wire)) /\ Len(EscapedBytes(b)) = Len(b)
  <2>1. \A i \in DOMAIN b : EscapedBytes(b)[i] \in Seq(Wire)
    <3> SUFFICES ASSUME NEW i \in DOMAIN b PROVE EscapedBytes(b)[i] \in Seq(Wire)
      OBVIOUS
    <3>0. b[i] \in Wire
      OBVIOUS
    <3>1. b[i] \in Wire /\ "\\" \in Wire
      BY <3>0, WireChars
    <3>2. <<"\\", b[i]>> \in Seq(Wire) /\ <<b[i]>> \in Seq(Wire)
      BY <3>1
    <3> QED BY <3>2 DEF EscapedBytes
  <2>2. DOMAIN EscapedBytes(b) = 1 .. Len(b) /\ Len(b) \in Nat
    BY DEF EscapedBytes
  <2>3. EscapedBytes(b) = [i \in 1 .. Len(b) |-> EscapedBytes(b)[i]]
    BY <2>2 DEF EscapedBytes
  <2>4. Len(b) \in Nat
    OBVIOUS
  <2>5. \A i \in 1 .. Len(b) : EscapedBytes(b)[i] \in Seq(Wire)
    BY <2>1
  <2> DEFINE e == EscapedBytes(b)
  <2> HIDE DEF e
  <2>6. e \in Seq(Seq(Wire)) /\ Len(e) = Len(b)
    <3>1. e = [i \in 1 .. Len(b) |-> e[i]]
      BY <2>3 DEF e
    <3>2. \A i \in 1 .. Len(b) : e[i] \in Seq(Wire)
      BY <2>5 DEF e
    <3> QED BY <2>4, <3>1, <3>2, SeqMade
  <2> QED BY <2>6 DEF e
<1>2. Escaped(b) = FlattenSeq(EscapedBytes(b))
  BY DEF Escaped, EscapedBytes
<1> QED BY <1>1, <1>2, Flattened

\* From behind the opening quote the loop goes to the closing one, unless the line
\* is torn before it.
LEMMA SkipString ==
  ASSUME NEW s \in Seq(Wire), NEW b \in Seq(Wire), NEW c \in Nat, c < Len(s),
         Agree(s, c, <<"quote">> \o Escaped(b) \o <<"quote">>)
  PROVE  StringEnd(s, c + 2) =
           IF c + Len(Escaped(b)) + 2 <= Len(s) THEN c + Len(Escaped(b)) + 3 ELSE 0
<1> DEFINE n == Len(s)
           p == c + 2
           m == Len(b)
           D == p .. n + 2
           L == Len(Escaped(b))
           v == IF c + L + 2 <= n THEN c + L + 3 ELSE 0
           q == EscapedBytes(b)
<1>0. n \in Nat /\ p \in 1 .. n + 2 /\ p \in D /\ m \in Nat
  OBVIOUS
<1>1. q \in Seq(Seq(Wire)) /\ Len(q) = m /\ Escaped(b) \in Seq(Wire) /\ L \in Nat
  BY EscapedIs
<1>2. PICK o : Strung(Escaped(b), q, o)
  BY EscapedIs
<1>3. PartEnds(o, q) /\ L = o[m] /\ o[0] = 0
  BY <1>1, <1>2 DEF Strung, PartEnds
<1>4. Agree(s, c + 1, Escaped(b)) /\ Agree(s, c + 1 + L, <<"quote">>)
  <2>1. <<"quote">> \in Seq(Wire) /\ Len(<<"quote">>) = 1
    BY WireChars, OneChar
  <2>2. <<"quote">> \o Escaped(b) \in Seq(Wire) /\ Len(<<"quote">> \o Escaped(b)) = 1 + L
    BY <1>1, <2>1, Cat
  <2> DEFINE h == <<"quote">> \o Escaped(b)
  <2>3. Agree(s, c, h) /\ Agree(s, c + Len(h), <<"quote">>)
    <3> HIDE DEF h
    <3>1. h \in Seq(Wire) /\ Agree(s, c, h \o <<"quote">>)
      BY <2>2 DEF h
    <3> QED BY <2>1, <3>1, AgreeCat
  <2>4. Agree(s, c + 1, Escaped(b))
    BY <1>1, <2>1, <2>3, AgreeCat
  <2>5. c + Len(h) = c + 1 + L
    BY <1>1, <2>2
  <2> QED BY <2>3, <2>4, <2>5
<1>5. PICK f : EndsString(f, s, p) /\ StringEnd(s, p) = f[p]
  BY <1>0, StringEndIs
<1>6. \A k \in 0 .. m : o[k] \in Nat /\ o[k] <= L
  <2>1. m \in 0 .. m
    BY <1>0
  <2> QED BY <1>1, <1>3, <2>1, OffsetsGrow
<1> DEFINE P == {i \in D : \E k \in 0 .. m : i = p + o[k]}
           rank == [i \in P |-> (n + 2) - i]
           G == {i \in P : f[i] = v}
<1>7. \A x \in P : rank[x] \in Nat
  BY <1>0
<1>8. ASSUME NEW x \in P, \A y \in P : rank[y] < rank[x] => y \in G PROVE f[x] = v
  <2>1. PICK k \in 0 .. m : x = p + o[k] /\ x \in D
    OBVIOUS
  <2>2. o[k] \in Nat /\ o[k] <= L /\ x \in Nat /\ L \in Nat
    BY <1>1, <1>6, <2>1
  <2>3. CASE x > n
    <3>1. f[x] = 0
      BY <1>5, <2>1, <2>3 DEF EndsString
    <3>2. ~(c + L + 2 <= n)
      BY <1>0, <2>1, <2>2, <2>3
    <3> QED BY <3>1, <3>2
  <2>4. CASE x <= n /\ k = m
    <3>1. x = c + L + 2 /\ (c + 1 + L) + 1 = x
      <4>1. x = c + 2 + L
        BY <1>3, <2>1, <2>4
      <4> HIDE DEF L
      <4> QED BY <4>1, <2>2
    <3>2. s[x] = "quote"
      BY <1>4, <2>4, <3>1 DEF Agree
    <3> QED BY <1>5, <2>1, <2>2, <2>4, <3>1, <3>2 DEF EndsString
  <2>5. CASE x <= n /\ k < m
    <3>1. k + 1 \in 1 .. Len(q) /\ k + 1 \in 0 .. m /\ (k + 1) - 1 = k /\ k + 1 \in 1 .. Len(b)
      BY <1>0, <1>1, <2>5
    <3>2. Agree(s, c + 1 + o[k], q[k + 1])
      <4>1. c + 1 \in Nat
        OBVIOUS
      <4> HIDE DEF q
      <4> QED BY <1>1, <1>2, <1>4, <3>1, <4>1, AgreeFlat
    <3>3. o[k + 1] = o[k] + Len(q[k + 1]) /\ o[k + 1] \in Nat
      BY <1>3, <1>6, <3>1 DEF PartEnds
    <3>4. (c + 1 + o[k]) + 1 = x
      <4> DEFINE a == o[k]
      <4>1. x = c + 2 + a /\ a \in Nat
        BY <2>1, <2>2
      <4> HIDE DEF a
      <4>2. (c + 1 + a) + 1 = x
        BY <4>1
      <4> QED BY <4>2 DEF a
    <3>5. CASE b[k + 1] \in {"quote", "\\"}
      <4>1. q[k + 1] = <<"\\", b[k + 1]>>
        BY <3>1, <3>5 DEF EscapedBytes
      <4>2. Len(q[k + 1]) = 2 /\ q[k + 1][1] = "\\" /\ 1 \in 1 .. Len(q[k + 1])
        BY <4>1
      <4>3. s[x] = "\\"
        BY <2>5, <3>2, <3>4, <4>2 DEF Agree
      <4>4. f[x] = f[x + 2] /\ x + 2 \in D
        BY <1>5, <2>1, <2>5, <4>3 DEF EndsString
      <4>5. x + 2 = p + o[k + 1]
        BY <2>1, <2>2, <3>3, <4>2, SMTT(30)
      <4>6. x + 2 \in P
        BY <3>1, <4>4, <4>5
      <4>7. rank[x + 2] < rank[x]
        BY <1>0, <2>2, <4>6
      <4> HIDE DEF P, rank
      <4> QED BY <1>8, <4>4, <4>6, <4>7
    <3>6. CASE b[k + 1] \notin {"quote", "\\"}
      <4>1. q[k + 1] = <<b[k + 1]>>
        BY <3>1, <3>6 DEF EscapedBytes
      <4>2. Len(q[k + 1]) = 1 /\ q[k + 1][1] = b[k + 1] /\ 1 \in 1 .. Len(q[k + 1])
        BY <4>1
      <4>3. s[x] \notin {"quote", "\\"}
        BY <2>5, <3>2, <3>4, <3>6, <4>2 DEF Agree
      <4>4. f[x] = f[x + 1] /\ x + 1 \in D
        BY <1>5, <2>1, <2>5, <4>3 DEF EndsString
      <4>5. x + 1 = p + o[k + 1]
        BY <2>1, <2>2, <3>3, <4>2
      <4>6. x + 1 \in P
        BY <3>1, <4>4, <4>5
      <4>7. rank[x + 1] < rank[x]
        BY <1>0, <2>2, <4>6
      <4> HIDE DEF P, rank
      <4> QED BY <1>8, <4>4, <4>6, <4>7
    <3> QED BY <3>5, <3>6
  <2>6. x <= n \/ x > n
    BY <1>0, <2>2
  <2> QED BY <2>3, <2>4, <2>5, <2>6
<1>9. P \subseteq G
  <2>1. \A x \in P : (\A y \in P : rank[y] < rank[x] => y \in G) => x \in G
    BY <1>8
  <2> HIDE DEF P, G, rank
  <2> QED BY <1>7, <2>1, RankInduction
<1>10. p \in P
  <2>1. 0 \in 0 .. m /\ p = p + o[0]
    BY <1>0, <1>3
  <2> QED BY <1>0, <2>1
<1>11. f[p] = v
  <2> HIDE DEF P, v
  <2> QED BY <1>9, <1>10
<1> QED BY <1>5, <1>11

-----------------------------------------------------------------------------
(* Skipping an array or an object *)

\* The loop of NestedEnd, from p on.
PassesChars(f, s, p) ==
  \A i \in p .. Len(s), d \in Nat :
    d > 0 /\ s[i] \notin {"quote", "lbrace", "[", "rbrace", "]"} => f[<<i, d>>] = f[<<i + 1, d>>]

EndsNested(f, s, p) ==
  /\ \A i \in p .. Len(s) + 1, d \in Nat :
       /\ d = 0 => f[<<i, d>>] = i
       /\ d > 0 /\ i > Len(s) => f[<<i, d>>] = 0
       /\ d > 0 /\ i <= Len(s) =>
            /\ s[i] = "quote" =>
                 f[<<i, d>>] = IF StringEnd(s, i + 1) = 0 THEN 0 ELSE f[<<StringEnd(s, i + 1), d>>]
            /\ s[i] \in {"lbrace", "["} => f[<<i, d>>] = f[<<i + 1, d + 1>>]
            /\ s[i] \in {"rbrace", "]"} => f[<<i, d>>] = f[<<i + 1, d - 1>>]
  /\ PassesChars(f, s, p)

LEMMA NestedEndIs ==
  ASSUME NEW s \in Seq(Wire), NEW p \in 1 .. Len(s) + 1
  PROVE  \E f : EndsNested(f, s, p) /\ NestedEnd(s, p) = f[<<p, 1>>]
<1> DEFINE n == Len(s)
           D == (p .. n + 1) \X Nat
           torn(i) == s[i] = "quote" /\ StringEnd(s, i + 1) = 0
           stop == {x \in D : x[2] = 0 \/ x[1] > n \/ torn(x[1])}
           base == [x \in D |-> IF x[2] = 0 THEN x[1] ELSE 0]
           after(i, d) == IF s[i] = "quote" THEN <<StringEnd(s, i + 1), d>>
                          ELSE IF s[i] \in {"lbrace", "["} THEN <<i + 1, d + 1>>
                          ELSE IF s[i] \in {"rbrace", "]"} THEN <<i + 1, d - 1>>
                          ELSE <<i + 1, d>>
           next == [x \in D |-> IF x \in stop THEN x ELSE after(x[1], x[2])]
           act == [z \in D \X Nat |-> z[2]]
           rank == [x \in D |-> (n + 1) - x[1]]
           Body(f) == [x \in (p .. Len(s) + 1) \X Nat |->
                         LET i     == x[1]
                             depth == x[2]
                         IN  IF depth = 0 THEN i
                             ELSE IF i > Len(s) THEN 0
                             ELSE CASE s[i] = "quote" ->
                                         LET e == StringEnd(s, i + 1)
                                         IN  IF e = 0 THEN 0 ELSE f[<<e, depth>>]
                                    [] s[i] \in {"lbrace", "["} -> f[<<i + 1, depth + 1>>]
                                    [] s[i] \in {"rbrace", "]"} -> f[<<i + 1, depth - 1>>]
                                    [] OTHER -> f[<<i + 1, depth>>]]
           f == CHOOSE f : f = Body(f)
<1>0. n \in Nat /\ p \in Nat /\ p >= 1
  OBVIOUS
<1>a. \A i \in p .. n : \A d \in Nat \ {0} : ~torn(i) =>
        /\ after(i, d) \in D /\ after(i, d)[1] > i
  <2> SUFFICES ASSUME NEW i \in p .. n, NEW d \in Nat \ {0}, ~torn(i)
               PROVE  after(i, d) \in D /\ after(i, d)[1] > i
    OBVIOUS
  <2>1. i + 1 \in 1 .. Len(s) + 2 /\ i \in Nat /\ i + 1 \in p .. n + 1
    BY <1>0
  <2>2. StringEnd(s, i + 1) = 0 \/ StringEnd(s, i + 1) \in (i + 1) + 1 .. Len(s) + 1
    BY <2>1, StringEndBounds
  <2> DEFINE e == StringEnd(s, i + 1)
  <2> HIDE DEF e
  <2>3. s[i] = "quote" => e \in p .. n + 1 /\ e > i
    BY <2>1, <2>2 DEF e
  <2>4. d + 1 \in Nat /\ d - 1 \in Nat /\ d \in Nat
    OBVIOUS
  <2>5. CASE s[i] = "quote"
    <3>1. after(i, d) = <<e, d>>
      BY <2>5 DEF e
    <3> QED BY <2>1, <2>3, <2>4, <2>5, <3>1
  <2>6. CASE s[i] # "quote"
    <3>1. after(i, d) \in {<<i + 1, d + 1>>, <<i + 1, d - 1>>, <<i + 1, d>>}
      BY <2>6
    <3> HIDE DEF after
    <3> QED BY <2>1, <2>4, <3>1
  <2> QED BY <2>5, <2>6
<1> HIDE DEF torn, after
<1>1. \E g \in [D -> Nat] : Follows(g, D, stop, base, next, act)
  <2>1. base \in [D -> Nat] /\ act \in [D \X Nat -> Nat] /\ rank \in [D -> 0 .. n + 1]
    BY <1>0
  <2>2. \A x \in D \ stop : next[x] = after(x[1], x[2]) /\ next[x] \in D /\ next[x][1] > x[1]
    <3> SUFFICES ASSUME NEW x \in D \ stop
                 PROVE  next[x] = after(x[1], x[2]) /\ next[x] \in D /\ next[x][1] > x[1]
      OBVIOUS
    <3>1. next[x] = after(x[1], x[2])
      OBVIOUS
    <3>2. x[1] \in p .. n /\ x[2] \in Nat \ {0} /\ ~torn(x[1])
      BY <1>0
    <3> HIDE DEF next, stop, D
    <3> QED BY <1>a, <3>1, <3>2
  <2>3. next \in [D -> D]
    <3>1. \A x \in stop : next[x] = x /\ x \in D
      OBVIOUS
    <3>2. next = [x \in D |-> next[x]]
      OBVIOUS
    <3> HIDE DEF next, stop, D
    <3>3. \A x \in D : next[x] \in D
      BY <2>2, <3>1
    <3> QED BY <3>2, <3>3
  <2>4. \A x \in D \ stop : rank[next[x]] < rank[x]
    <3> SUFFICES ASSUME NEW x \in D \ stop PROVE rank[next[x]] < rank[x]
      OBVIOUS
    <3>1. next[x] \in D /\ next[x][1] > x[1] /\ x \in D
      BY <2>2
    <3>2. rank[next[x]] = (n + 1) - next[x][1] /\ rank[x] = (n + 1) - x[1]
      <4> HIDE DEF next, stop, D
      <4> QED BY <3>1
    <3>3. next[x][1] \in Nat /\ x[1] \in Nat
      <4> HIDE DEF next, stop
      <4> QED BY <3>1, <1>0
    <3> HIDE DEF next, stop, D, rank
    <3> QED BY <3>1, <3>2, <3>3, <1>0
  <2>5. n + 1 \in Nat
    BY <1>0
  <2> HIDE DEF n, D, stop, base, next, act, rank
  <2> QED BY <2>1, <2>3, <2>4, <2>5, Recursion
<1>2. PICK g \in [D -> Nat] : Follows(g, D, stop, base, next, act)
  BY <1>1
<1> DEFINE Walk(f1, i, d) ==
             IF d = 0 THEN i ELSE IF i > n THEN 0 ELSE IF torn(i) THEN 0 ELSE f1[after(i, d)]
<1>b. ASSUME NEW f1, NEW i \in p .. n + 1, NEW d \in Nat
      PROVE  Body(f1)[<<i, d>>] = Walk(f1, i, d)
  <2>1. Body(f1)[<<i, d>>] =
          IF d = 0 THEN i
          ELSE IF i > n THEN 0
          ELSE CASE s[i] = "quote" ->
                      IF StringEnd(s, i + 1) = 0 THEN 0 ELSE f1[<<StringEnd(s, i + 1), d>>]
                 [] s[i] \in {"lbrace", "["} -> f1[<<i + 1, d + 1>>]
                 [] s[i] \in {"rbrace", "]"} -> f1[<<i + 1, d - 1>>]
                 [] OTHER -> f1[<<i + 1, d>>]
    OBVIOUS
  <2> HIDE DEF Body
  <2> QED BY <2>1 DEF after, torn
<1>3. ASSUME NEW x \in D PROVE g[x] = Walk(g, x[1], x[2])
  <2>2. CASE x \in stop
    <3>1. g[x] = base[x]
      <4> HIDE DEF stop, next, act, base, D
      <4> QED BY <1>2, <2>2 DEF Follows
    <3> QED BY <3>1, <2>2
  <2>3. CASE x \notin stop
    <3>1. g[x] = act[<<x, g[next[x]]>>]
      <4> HIDE DEF stop, next, act, base, D
      <4> QED BY <1>2, <2>3 DEF Follows
    <3>2. next[x] = after(x[1], x[2])
      BY <2>3
    <3>3. x[1] \in p .. n /\ x[2] \in Nat \ {0} /\ ~torn(x[1])
      BY <1>0, <2>3
    <3>4. after(x[1], x[2]) \in D
      BY <1>a, <3>3
    <3>5. act[<<x, g[after(x[1], x[2])]>>] = g[after(x[1], x[2])]
      <4>1. g[after(x[1], x[2])] \in Nat
        <5> HIDE DEF D
        <5> QED BY <3>4
      <4> HIDE DEF D
      <4> QED BY <4>1
    <3> HIDE DEF next, act, stop, D
    <3> QED BY <1>0, <3>1, <3>2, <3>3, <3>5
  <2> QED BY <2>2, <2>3
<1>4. g = Body(g)
  <2>1. ASSUME NEW x \in D PROVE g[x] = Body(g)[x]
    <3>1. x[1] \in p .. n + 1 /\ x[2] \in Nat /\ x = <<x[1], x[2]>>
      OBVIOUS
    <3>2. Body(g)[<<x[1], x[2]>>] = Walk(g, x[1], x[2])
      <4> HIDE DEF Body, Walk
      <4> QED BY <1>b, <3>1
    <3> HIDE DEF Body, Walk, D
    <3> QED BY <1>3, <3>1, <3>2
  <2>2. Body(g) = [x \in D |-> Body(g)[x]] /\ g = [x \in D |-> g[x]]
    BY <1>2
  <2> HIDE DEF Body, D
  <2> QED BY <2>1, <2>2
<1>5. f = Body(f)
  <2> HIDE DEF Body
  <2> QED BY <1>4
<1>6. NestedEnd(s, p) = f[<<p, 1>>]
  BY DEF NestedEnd
<1> HIDE DEF f
<1>7. ASSUME NEW i \in p .. n + 1, NEW d \in Nat PROVE f[<<i, d>>] = Walk(f, i, d)
  <2> HIDE DEF Body, Walk
  <2> QED BY <1>5, <1>b
<1> HIDE DEF Body
<1>8. ASSUME NEW i \in p .. Len(s) + 1, NEW d \in Nat
      PROVE  /\ d = 0 => f[<<i, d>>] = i
             /\ d > 0 /\ i > Len(s) => f[<<i, d>>] = 0
             /\ d > 0 /\ i <= Len(s) =>
                  /\ s[i] = "quote" =>
                       f[<<i, d>>] = IF StringEnd(s, i + 1) = 0 THEN 0 ELSE f[<<StringEnd(s, i + 1), d>>]
                  /\ s[i] \in {"lbrace", "["} => f[<<i, d>>] = f[<<i + 1, d + 1>>]
                  /\ s[i] \in {"rbrace", "]"} => f[<<i, d>>] = f[<<i + 1, d - 1>>]
                  /\ s[i] \notin {"quote", "lbrace", "[", "rbrace", "]"} => f[<<i, d>>] = f[<<i + 1, d>>]
  <2>1. f[<<i, d>>] = Walk(f, i, d)
    BY <1>7
  <2>2. i \in Nat /\ (i > n <=> ~(i <= n)) /\ (d > 0 <=> d # 0)
    BY <1>0
  <2> QED BY <2>1, <2>2 DEF torn, after
<1> HIDE DEF Walk
<1>9. PassesChars(f, s, p)
  <2> SUFFICES ASSUME NEW i \in p .. Len(s), NEW d \in Nat, d > 0,
                      s[i] \notin {"quote", "lbrace", "[", "rbrace", "]"}
               PROVE  f[<<i, d>>] = f[<<i + 1, d>>]
    BY DEF PassesChars
  <2>1. i \in p .. Len(s) + 1 /\ i <= Len(s)
    BY <1>0
  <2> DEFINE other == {"quote", "lbrace", "[", "rbrace", "]"}
  <2>2. s[i] \notin other
    OBVIOUS
  <2> HIDE DEF other
  <2>3. d > 0 /\ i <= Len(s) /\ s[i] \notin other => f[<<i, d>>] = f[<<i + 1, d>>]
    BY <1>8, <2>1, ZenonT(40) DEF other
  <2> QED BY <2>1, <2>2, <2>3
<1> QED BY <1>6, <1>8, <1>9 DEF EndsNested

\* The text b in quotes.
Enclosed(b) == <<"quote">> \o Escaped(b) \o <<"quote">>

LEMMA EnclosedIs ==
  ASSUME NEW b \in Seq(Wire)
  PROVE  /\ Enclosed(b) \in Seq(Wire) /\ Len(Enclosed(b)) = Len(Escaped(b)) + 2
         /\ Escaped(b) \in Seq(Wire) /\ Len(Escaped(b)) \in Nat
         /\ Enclosed(b)[1] = "quote"
         /\ SubSeq(Enclosed(b), 2, Len(Enclosed(b)) - 1) = Escaped(b)
<1> DEFINE e == Escaped(b)
           h == <<"quote">> \o e
<1>1. e \in Seq(Wire) /\ Len(e) \in Nat
  BY EscapedIs
<1>2. <<"quote">> \in Seq(Wire) /\ Len(<<"quote">>) = 1 /\ <<"quote">>[1] = "quote"
  BY WireChars, OneChar
<1> HIDE DEF e
<1>3. h \in Seq(Wire) /\ Len(h) = 1 + Len(e) /\ h[1] = "quote" /\ \A j \in 1 .. Len(e) : h[1 + j] = e[j]
  BY <1>1, <1>2, Cat
<1> HIDE DEF h
<1> DEFINE w == h \o <<"quote">>
<1>4. w \in Seq(Wire) /\ Len(w) = Len(h) + 1 /\ \A j \in 1 .. Len(h) : w[j] = h[j]
  BY <1>2, <1>3, Cat
<1>5. Enclosed(b) = w
  BY DEF Enclosed, h, e
<1> HIDE DEF w
<1>6. SubSeq(w, 2, Len(w) - 1) = e
  <2>1. Len(w) - 1 = 1 + Len(e) /\ Len(w) = 2 + Len(e)
    BY <1>1, <1>3, <1>4
  <2>2. SubSeq(w, 2, 1 + Len(e)) \in Seq(Wire) /\ Len(SubSeq(w, 2, 1 + Len(e))) = Len(e)
        /\ \A j \in 1 .. Len(e) : SubSeq(w, 2, 1 + Len(e))[j] = w[1 + j]
    BY <1>1, <1>4, <2>1
  <2>3. \A j \in 1 .. Len(e) : w[1 + j] = e[j]
    BY <1>1, <1>3, <1>4
  <2>4. SubSeq(w, 2, 1 + Len(e)) = e
    BY <1>1, <2>2, <2>3, SeqSame
  <2> QED BY <2>1, <2>4
<1>7. w[1] = "quote"
  BY <1>1, <1>3, <1>4
<1> QED BY <1>1, <1>3, <1>4, <1>5, <1>6, <1>7 DEF e

ListedParts(texts) == [i \in DOMAIN texts |-> (IF i > 1 THEN <<"comma">> ELSE <<>>) \o texts[i]]

Lead(k) == IF k > 1 THEN 1 ELSE 0

LEMMA ListedIs ==
  ASSUME NEW texts \in Seq(Seq(Wire))
  PROVE  /\ ListedParts(texts) \in Seq(Seq(Wire)) /\ Len(ListedParts(texts)) = Len(texts)
         /\ Listed(texts) = FlattenSeq(ListedParts(texts)) /\ Listed(texts) \in Seq(Wire)
         /\ \A k \in 1 .. Len(texts) : Len(ListedParts(texts)[k]) = Lead(k) + Len(texts[k])
         /\ \E o : Strung(Listed(texts), ListedParts(texts), o)
<1> DEFINE e == ListedParts(texts)
<1>0. DOMAIN texts = 1 .. Len(texts) /\ Len(texts) \in Nat
  OBVIOUS
<1>1. ASSUME NEW k \in 1 .. Len(texts)
      PROVE  e[k] \in Seq(Wire) /\ Len(e[k]) = Lead(k) + Len(texts[k])
  <2>1. texts[k] \in Seq(Wire) /\ <<>> \in Seq(Wire) /\ <<"comma">> \in Seq(Wire) /\ Len(<<"comma">>) = 1 /\ Len(<<>>) = 0
    <3>1. <<"comma">> \in Seq(Wire) /\ Len(<<"comma">>) = 1
      BY WireChars, OneChar
    <3>2. texts[k] \in Seq(Wire)
      OBVIOUS
    <3>3. <<>> \in Seq(Wire) /\ Len(<<>>) = 0
      OBVIOUS
    <3> QED BY <3>1, <3>2, <3>3
  <2>2. CASE k > 1
    <3>1. e[k] = <<"comma">> \o texts[k]
      BY <1>0, <2>2 DEF ListedParts
    <3>2. <<"comma">> \o texts[k] \in Seq(Wire) /\ Len(<<"comma">> \o texts[k]) = Len(<<"comma">>) + Len(texts[k])
      BY <2>1, Cat
    <3> HIDE DEF e
    <3> QED BY <2>1, <2>2, <3>1, <3>2 DEF Lead
  <2>3. CASE ~(k > 1)
    <3>1. e[k] = <<>> \o texts[k]
      BY <1>0, <2>3 DEF ListedParts
    <3>2. <<>> \o texts[k] \in Seq(Wire) /\ Len(<<>> \o texts[k]) = 0 + Len(texts[k])
      BY <2>1, Cat
    <3> HIDE DEF e
    <3> QED BY <2>1, <2>3, <3>1, <3>2 DEF Lead
  <2> QED BY <2>2, <2>3
<1>2. e \in Seq(Seq(Wire)) /\ Len(e) = Len(texts)
  <2>1. e = [i \in 1 .. Len(texts) |-> e[i]] /\ Len(texts) \in Nat
    BY <1>0 DEF ListedParts
  <2> HIDE DEF e
  <2> QED BY <1>1, <2>1, SeqMade
<1>3. Listed(texts) = FlattenSeq(e)
  BY DEF Listed, ListedParts
<1> QED BY <1>1, <1>2, <1>3, Flattened

\* Where a text of a list is in s.
LEMMA AgreeListed ==
  ASSUME NEW s \in Seq(Wire), NEW c \in Nat, NEW texts \in Seq(Seq(Wire)), NEW o,
         Strung(Listed(texts), ListedParts(texts), o), Agree(s, c, Listed(texts)),
         NEW k \in 1 .. Len(texts)
  PROVE  /\ o[k - 1] \in Nat /\ o[k] = o[k - 1] + Lead(k) + Len(texts[k]) /\ o[k] \in Nat
         /\ o[k] <= Len(Listed(texts))
         /\ Agree(s, c + o[k - 1] + Lead(k), texts[k])
         /\ k > 1 /\ c + o[k - 1] + 1 <= Len(s) => s[c + o[k - 1] + 1] = "comma"
<1> DEFINE e == ListedParts(texts)
           t == Listed(texts)
<1>1. e \in Seq(Seq(Wire)) /\ Len(e) = Len(texts) /\ t \in Seq(Wire)
      /\ Len(e[k]) = Lead(k) + Len(texts[k])
  BY ListedIs
<1>2. texts[k] \in Seq(Wire) /\ Lead(k) \in Nat /\ Len(texts[k]) \in Nat
  BY DEF Lead
<1>3. e[k] = (IF k > 1 THEN <<"comma">> ELSE <<>>) \o texts[k]
  <2>1. DOMAIN texts = 1 .. Len(texts)
    OBVIOUS
  <2> QED BY <2>1 DEF ListedParts
<1>4. Strung(t, e, o) /\ Agree(s, c, t)
  OBVIOUS
<1> HIDE DEF e, t
<1>5. Agree(s, c + o[k - 1], e[k]) /\ o[k - 1] \in Nat
  BY <1>1, <1>4, AgreeFlat
<1>6. o[k] = o[k - 1] + Lead(k) + Len(texts[k]) /\ o[k] \in Nat
  <2>1. o[k] = o[k - 1] + Len(e[k])
    BY <1>1, <1>4 DEF Strung, PartEnds
  <2> QED BY <1>1, <1>2, <1>5, <2>1, SMTT(30)
<1>7. o[k] <= Len(t)
  <2>1. Len(e) \in 0 .. Len(e) /\ k \in 0 .. Len(e) /\ k <= Len(e)
    BY <1>1
  <2>2. PartEnds(o, e) /\ Len(t) = o[Len(e)]
    BY <1>4 DEF Strung
  <2> QED BY <1>1, <2>1, <2>2, OffsetsGrow
<1>8. CASE k > 1
  <2>1. e[k] = <<"comma">> \o texts[k] /\ Lead(k) = 1
    BY <1>3, <1>8 DEF Lead
  <2>2. <<"comma">> \in Seq(Wire) /\ Len(<<"comma">>) = 1 /\ <<"comma">>[1] = "comma"
    BY WireChars, OneChar
  <2>3. c + o[k - 1] \in Nat
    BY <1>5
  <2>4. Agree(s, c + o[k - 1], <<"comma">>) /\ Agree(s, c + o[k - 1] + 1, texts[k])
    BY <1>2, <1>5, <2>1, <2>2, <2>3, AgreeCat
  <2>5. c + o[k - 1] + 1 <= Len(s) => s[c + o[k - 1] + 1] = "comma"
    <3>1. 1 \in 1 .. Len(<<"comma">>)
      OBVIOUS
    <3> QED BY <2>2, <2>4, <3>1 DEF Agree
  <2> QED BY <1>5, <1>6, <1>7, <2>1, <2>4, <2>5 DEF t
<1>9. CASE ~(k > 1)
  <2>1. e[k] = <<>> \o texts[k] /\ Lead(k) = 0
    BY <1>3, <1>9 DEF Lead
  <2>2. <<>> \o texts[k] = texts[k]
    BY <1>2
  <2>3. c + o[k - 1] + 0 = c + o[k - 1]
    BY <1>5
  <2> QED BY <1>5, <1>6, <1>7, <1>9, <2>1, <2>2, <2>3 DEF t
<1> QED BY <1>8, <1>9

\* Every string on the way is skipped whole, or the line is torn in it.
SkipsStrings(f, s, p) ==
  \A x \in p .. Len(s) + 1, c \in Nat : x = c + 1 =>
    \A b \in Seq(Wire) : Agree(s, c, Enclosed(b)) =>
      f[<<x, 1>>] = IF c + Len(Enclosed(b)) <= Len(s) THEN f[<<x + Len(Enclosed(b)), 1>>] ELSE 0

LEMMA WalkStrings ==
  ASSUME NEW s \in Seq(Wire), NEW p \in 1 .. Len(s) + 1, NEW f, EndsNested(f, s, p)
  PROVE  SkipsStrings(f, s, p)
<1>1. ASSUME NEW x \in p .. Len(s) + 1, NEW c \in Nat, x = c + 1, NEW b \in Seq(Wire), Agree(s, c, Enclosed(b))
      PROVE  f[<<x, 1>>] = IF c + Len(Enclosed(b)) <= Len(s) THEN f[<<x + Len(Enclosed(b)), 1>>] ELSE 0
  <2> DEFINE n == Len(s)
             L == Len(Enclosed(b))
  <2>1. n \in Nat /\ x \in Nat /\ L = Len(Escaped(b)) + 2 /\ Len(Escaped(b)) \in Nat /\ 1 \in Nat /\ 1 > 0
    BY <1>1, EnclosedIs
  <2>2. CASE x > n
    <3>1. ~(c + L <= n)
      BY <1>1, <2>1, <2>2
    <3> QED BY <2>1, <2>2, <3>1 DEF EndsNested
  <2>3. CASE x <= n
    <3>1. s[x] = "quote"
      <4>1. 1 \in 1 .. L /\ c + 1 <= n
        BY <1>1, <2>1, <2>3
      <4> QED BY <1>1, <4>1, EnclosedIs DEF Agree
    <3>2. StringEnd(s, c + 2) = IF c + Len(Escaped(b)) + 2 <= n THEN c + Len(Escaped(b)) + 3 ELSE 0
      <4>1. c < n
        BY <1>1, <2>1, <2>3
      <4> QED BY <1>1, <4>1, SkipString DEF Enclosed
    <3>3. x + 1 = c + 2
      BY <1>1
    <3>4. f[<<x, 1>>] = IF StringEnd(s, x + 1) = 0 THEN 0 ELSE f[<<StringEnd(s, x + 1), 1>>]
      BY <2>1, <2>3, <3>1 DEF EndsNested
    <3>5. CASE c + L <= n
      <4>1. StringEnd(s, x + 1) = x + L /\ x + L # 0
        BY <2>1, <3>2, <3>3, <3>5
      <4> QED BY <3>4, <3>5, <4>1
    <3>6. CASE ~(c + L <= n)
      <4>1. StringEnd(s, x + 1) = 0
        BY <2>1, <3>2, <3>3, <3>6
      <4> QED BY <3>4, <3>6, <4>1
    <3> QED BY <3>5, <3>6
  <2> QED BY <2>1, <2>2, <2>3
<1> QED BY <1>1 DEF SkipsStrings

EnclosedAll(bs) == [i \in DOMAIN bs |-> Enclosed(bs[i])]

LEMMA EnclosedAllIs ==
  ASSUME NEW bs \in Seq(Seq(Wire))
  PROVE  /\ EnclosedAll(bs) \in Seq(Seq(Wire)) /\ Len(EnclosedAll(bs)) = Len(bs)
         /\ \A i \in 1 .. Len(bs) : EnclosedAll(bs)[i] = Enclosed(bs[i]) /\ bs[i] \in Seq(Wire)
<1> DEFINE e == EnclosedAll(bs)
<1>1. DOMAIN bs = 1 .. Len(bs) /\ Len(bs) \in Nat /\ \A i \in 1 .. Len(bs) : bs[i] \in Seq(Wire)
  OBVIOUS
<1>2. e = [i \in 1 .. Len(bs) |-> e[i]] /\ \A i \in 1 .. Len(bs) : e[i] = Enclosed(bs[i])
  BY <1>1 DEF EnclosedAll
<1> HIDE DEF e
<1>3. \A i \in 1 .. Len(bs) : e[i] \in Seq(Wire)
  BY <1>1, <1>2, EnclosedIs
<1>4. e \in Seq(Seq(Wire)) /\ Len(e) = Len(bs)
  BY <1>1, <1>2, <1>3, SeqMade
<1> QED BY <1>1, <1>2, <1>4 DEF e

\* The parts of the text of an array: bracket, list, bracket.
Bracketed(t, open, close) == <<open>> \o t \o <<close>>

LEMMA BracketedIs ==
  ASSUME NEW t \in Seq(Wire), NEW open \in Wire, NEW close \in Wire
  PROVE  /\ Bracketed(t, open, close) \in Seq(Wire) /\ Len(Bracketed(t, open, close)) = Len(t) + 2
         /\ Bracketed(t, open, close)[1] = open
         /\ \A s \in Seq(Wire), c \in Nat :
              Agree(s, c, Bracketed(t, open, close)) =>
                /\ Agree(s, c + 1, t)
                /\ c + 1 <= Len(s) => s[c + 1] = open
                /\ c + Len(t) + 2 <= Len(s) => s[c + Len(t) + 2] = close
<1> DEFINE h == <<open>> \o t
           w == h \o <<close>>
<1>1. /\ <<open>> \in Seq(Wire) /\ Len(<<open>>) = 1 /\ <<open>>[1] = open
      /\ <<close>> \in Seq(Wire) /\ Len(<<close>>) = 1 /\ <<close>>[1] = close /\ Len(t) \in Nat
  BY OneChar
<1>2. h \in Seq(Wire) /\ Len(h) = 1 + Len(t) /\ h[1] = open
  BY <1>1, Cat
<1>3. w \in Seq(Wire) /\ Len(w) = Len(t) + 2 /\ w[1] = open
  <2> HIDE DEF h
  <2> QED BY <1>1, <1>2, Cat
<1>4. ASSUME NEW s \in Seq(Wire), NEW c \in Nat, Agree(s, c, w)
      PROVE  /\ Agree(s, c + 1, t)
             /\ c + 1 <= Len(s) => s[c + 1] = open
             /\ c + Len(t) + 2 <= Len(s) => s[c + Len(t) + 2] = close
  <2>1. Agree(s, c, h) /\ Agree(s, c + Len(h), <<close>>)
    <3> HIDE DEF h
    <3> QED BY <1>1, <1>2, <1>4, AgreeCat
  <2>2. Agree(s, c + Len(<<open>>), t)
    BY <1>1, <2>1, AgreeCat
  <2>3. 1 \in 1 .. Len(w) /\ 1 \in 1 .. Len(<<close>>)
    <3>1. 1 \in 1 .. Len(w)
      <4> HIDE DEF w
      <4> QED BY <1>1, <1>3
    <3> QED BY <3>1
  <2>4. c + 1 <= Len(s) => s[c + 1] = open
    <3> HIDE DEF w
    <3> QED BY <1>3, <1>4, <2>3 DEF Agree
  <2>5. c + Len(h) + 1 <= Len(s) => s[c + Len(h) + 1] = close
    <3> HIDE DEF h, w
    <3> QED BY <1>1, <2>1, <2>3 DEF Agree
  <2>6. c + Len(h) + 1 = c + Len(t) + 2
    BY <1>1, <1>2
  <2> QED BY <1>1, <2>2, <2>4, <2>5, <2>6
<1> QED BY <1>3, <1>4 DEF Bracketed

LEMMA EndOf ==
  ASSUME NEW c \in Nat, NEW u \in Nat
  PROVE  c + 2 + u = c + (u + 2)
OBVIOUS

\* From behind the bracket of an array of strings the walk goes to behind its end.
LEMMA SkipArray ==
  ASSUME NEW s \in Seq(Wire), NEW bs \in Seq(Seq(Wire)), NEW c \in Nat, c < Len(s),
         NEW L, L = Len(Listed(EnclosedAll(bs))) + 2,
         Agree(s, c, Bracketed(Listed(EnclosedAll(bs)), "[", "]"))
  PROVE  NestedEnd(s, c + 2) = IF c + L <= Len(s) THEN c + L + 1 ELSE 0
<1> DEFINE n == Len(s)
           p == c + 2
           m == Len(bs)
           q == EnclosedAll(bs)
           t == Listed(q)
           v == IF c + L <= n THEN c + L + 1 ELSE 0
<1>0. n \in Nat /\ p \in 1 .. n + 1 /\ m \in Nat
  OBVIOUS
<1>1. /\ q \in Seq(Seq(Wire)) /\ Len(q) = m /\ Len(ListedParts(q)) = m
      /\ \A i \in 1 .. m : q[i] = Enclosed(bs[i]) /\ bs[i] \in Seq(Wire)
      /\ t \in Seq(Wire) /\ Len(t) \in Nat /\ L \in Nat /\ ListedParts(q) \in Seq(Seq(Wire))
  <2>1. q \in Seq(Seq(Wire)) /\ Len(q) = m /\ \A i \in 1 .. m : q[i] = Enclosed(bs[i]) /\ bs[i] \in Seq(Wire)
    BY EnclosedAllIs
  <2> HIDE DEF q
  <2>2. t \in Seq(Wire) /\ Len(ListedParts(q)) = Len(q) /\ ListedParts(q) \in Seq(Seq(Wire))
    BY <2>1, ListedIs
  <2>3. Len(t) \in Nat /\ L \in Nat
    BY <2>2 DEF q
  <2> QED BY <2>1, <2>2, <2>3
<1>2. PICK o : Strung(t, ListedParts(q), o)
  <2> HIDE DEF q
  <2> QED BY <1>1, ListedIs
<1>3. o[0] = 0 /\ o[m] = Len(t)
  BY <1>1, <1>2 DEF Strung, PartEnds
<1>4. /\ Agree(s, c + 1, t)
      /\ c + L <= n => s[c + L] = "]"
  <2>1. "[" \in Wire /\ "]" \in Wire
    BY WireChars
  <2>2. L = Len(t) + 2 /\ Agree(s, c, Bracketed(t, "[", "]"))
    OBVIOUS
  <2> HIDE DEF t
  <2>3. c + Len(t) + 2 = c + L
    <3>1. PICK T \in Nat : T = Len(t)
      BY <1>1
    <3>2. L = T + 2
      BY <2>2, <3>1
    <3>3. c + T + 2 = c + L
      BY <3>2
    <3> QED BY <3>1, <3>3
  <2>4. Agree(s, c + 1, t) /\ (c + Len(t) + 2 <= Len(s) => s[c + Len(t) + 2] = "]")
    BY <1>1, <2>1, <2>2, BracketedIs
  <2> QED BY <2>3, <2>4
<1>5. PICK f : EndsNested(f, s, p) /\ NestedEnd(s, p) = f[<<p, 1>>]
  BY <1>0, NestedEndIs
<1>6. \A k \in 0 .. m : o[k] \in Nat /\ o[k] <= Len(t)
  <2>1. m \in 0 .. m
    BY <1>0
  <2> QED BY <1>1, <1>2, <1>3, <2>1, OffsetsGrow, SMTT(30) DEF Strung
<1>a. L = Len(t) + 2
  OBVIOUS
<1> HIDE DEF q, t
<1> DEFINE P == {i \in p .. n + 1 : \E k \in 0 .. m : i = p + o[k]}
           rank == [i \in P |-> (n + 1) - i]
           G == {i \in P : f[<<i, 1>>] = v}
<1>7. \A x \in P : rank[x] \in Nat
  BY <1>0
<1>8. ASSUME NEW x \in P, \A y \in P : rank[y] < rank[x] => y \in G PROVE f[<<x, 1>>] = v
  <2>1. PICK k \in 0 .. m : x = p + o[k] /\ x \in p .. n + 1
    OBVIOUS
  <2>2. PICK u \in Nat : u = o[k] /\ u <= Len(t) /\ x = p + u
    BY <1>6, <2>1
  <2>0. x \in Nat /\ x \in p .. n + 1 /\ 1 \in Nat /\ 1 > 0 /\ x = c + 2 + u /\ u + 2 <= L
    BY <1>1, <1>a, <2>1, <2>2
  <2>3. CASE x > n
    <3>1. f[<<x, 1>>] = 0
      BY <1>5, <2>0, <2>3 DEF EndsNested
    <3>2. ~(c + L <= n)
      BY <1>0, <1>1, <2>0, <2>3
    <3> QED BY <3>1, <3>2
  <2>4. CASE x <= n /\ k = m
    <3>1. x = c + L /\ x + 1 \in p .. n + 1
      <4>1. u = Len(t) /\ L = u + 2
        BY <1>3, <1>a, <2>2, <2>4
      <4>0. L = u + 2 /\ x = c + 2 + u
        BY <2>0, <4>1
      <4>2. x = c + L
        <5>1. c + 2 + u = c + (u + 2)
          BY EndOf
        <5> QED BY <4>0, <5>1, Zenon
      <4>3. x + 1 \in p .. n + 1
        BY <1>0, <2>0, <2>4
      <4> QED BY <4>2, <4>3
    <3>2. s[x] = "]"
      BY <1>4, <2>4, <3>1
    <3>3. f[<<x, 1>>] = f[<<x + 1, 0>>]
      <4>1. f[<<x, 1>>] = f[<<x + 1, 1 - 1>>]
        BY <1>5, <2>0, <2>4, <3>2 DEF EndsNested
      <4> QED BY <4>1
    <3>4. f[<<x + 1, 0>>] = x + 1
      BY <1>5, <3>1 DEF EndsNested
    <3> QED BY <2>4, <3>1, <3>3, <3>4
  <2>5. CASE x <= n /\ k < m
    <3> DEFINE K == k + 1
               Q == q[K]
    <3>1. K \in 1 .. Len(q) /\ K - 1 = k /\ K \in 0 .. m /\ K \in 1 .. m
      BY <1>0, <1>1, <2>5
    <3>2. PICK l \in {0, 1} : l = Lead(K) /\ (l = 1 <=> K > 1)
      BY DEF Lead
    <3>3. Q = Enclosed(bs[K]) /\ bs[K] \in Seq(Wire)
      BY <1>1, <3>1
    <3> HIDE DEF K, Q
    <3>4. PICK w \in Nat : w = Len(Q) /\ w >= 2
      <4>1. Len(Q) = Len(Escaped(bs[K])) + 2 /\ Len(Escaped(bs[K])) \in Nat
        BY <3>3, EnclosedIs
      <4> QED BY <4>1
    <3>5. /\ o[K] = o[K - 1] + Lead(K) + Len(q[K]) /\ o[K] <= Len(t)
          /\ Agree(s, c + 1 + o[K - 1] + Lead(K), q[K])
          /\ K > 1 /\ c + 1 + o[K - 1] + 1 <= Len(s) => s[c + 1 + o[K - 1] + 1] = "comma"
      <4>1. c + 1 \in Nat
        OBVIOUS
      <4>2. Strung(Listed(q), ListedParts(q), o) /\ Agree(s, c + 1, Listed(q))
        BY <1>2, <1>4 DEF t
      <4>3. q \in Seq(Seq(Wire)) /\ K \in 1 .. Len(q)
        BY <1>1, <3>1
      <4>4. /\ o[K] = o[K - 1] + Lead(K) + Len(q[K]) /\ o[K] <= Len(Listed(q))
            /\ Agree(s, (c + 1) + o[K - 1] + Lead(K), q[K])
            /\ K > 1 /\ (c + 1) + o[K - 1] + 1 <= Len(s) => s[(c + 1) + o[K - 1] + 1] = "comma"
        <5> DEFINE c1 == c + 1
                   k1 == K - 1
        <5>1. c1 \in Nat /\ Agree(s, c1, Listed(q)) /\ k1 = K - 1
          BY <4>1, <4>2
        <5> HIDE DEF c1, k1
        <5>2. /\ o[K] = o[k1] + Lead(K) + Len(q[K]) /\ o[K] <= Len(Listed(q))
              /\ Agree(s, c1 + o[k1] + Lead(K), q[K])
              /\ K > 1 /\ c1 + o[k1] + 1 <= Len(s) => s[c1 + o[k1] + 1] = "comma"
          BY <4>2, <4>3, <5>1, AgreeListed
        <5> QED BY <5>2 DEF c1, k1
      <4> QED BY <4>4 DEF t
    <3>6. PICK y \in Nat : y = o[K] /\ y = u + l + w /\ y <= Len(t)
      <4>1. o[K] = u + l + w
        BY <2>2, <3>1, <3>2, <3>4, <3>5 DEF Q
      <4>2. u + l + w \in Nat
        BY <3>2
      <4> QED BY <3>5, <4>1, <4>2
    <3>7. Agree(s, c + 1 + u + l, Q) /\ (l = 1 /\ c + 1 + u + 1 <= n => s[c + 1 + u + 1] = "comma")
      BY <2>2, <3>1, <3>2, <3>5 DEF Q
    <3> DEFINE a == c + 1 + u + l
    <3>8. a \in Nat /\ a + 1 \in p .. n + 1 /\ a + 1 = x + l
      BY <1>0, <2>0, <2>5
    <3>9. f[<<x, 1>>] = f[<<a + 1, 1>>]
      <4>1. CASE l = 0
        <5>1. a + 1 = x
          BY <3>8, <4>1, <2>0
        <5> HIDE DEF a
        <5> QED BY <5>1
      <4>2. CASE l = 1
        <5>1. c + 1 + u + 1 = x
          BY <2>0
        <5>2. s[x] = "comma"
          BY <2>5, <3>7, <4>2, <5>1
        <5>3. f[<<x, 1>>] = f[<<x + 1, 1>>]
          <6>1. PassesChars(f, s, p)
            BY <1>5 DEF EndsNested
          <6>2. x \in p .. Len(s) /\ 1 \in Nat /\ 1 > 0 /\ s[x] \notin {"quote", "lbrace", "[", "rbrace", "]"}
            BY <2>0, <2>5, <5>2
          <6> QED BY <6>1, <6>2 DEF PassesChars
        <5>4. a + 1 = x + 1
          BY <3>8, <4>2
        <5> HIDE DEF a
        <5> QED BY <5>3, <5>4
      <4> QED BY <4>1, <4>2
    <3>10. f[<<a + 1, 1>>] = IF a + w <= n THEN f[<<a + 1 + w, 1>>] ELSE 0
      <4>1. a + 1 \in p .. Len(s) + 1 /\ 1 \in Nat \ {0} /\ p \in 1 .. Len(s) + 1
        BY <1>0, <3>8
      <4>2. Agree(s, a, Enclosed(bs[K])) /\ w = Len(Enclosed(bs[K]))
        BY <3>3, <3>4, <3>7
      <4>3. f[<<a + 1, 1>>] = IF a + Len(Enclosed(bs[K])) <= Len(s)
                              THEN f[<<(a + 1) + Len(Enclosed(bs[K])), 1>>] ELSE 0
        <5> DEFINE z == a + 1
                   b1 == bs[K]
        <5>1. z \in p .. Len(s) + 1 /\ z = a + 1 /\ b1 \in Seq(Wire) /\ Agree(s, a, Enclosed(b1)) /\ a \in Nat
          BY <3>3, <3>8, <4>1, <4>2
        <5>2. SkipsStrings(f, s, p)
          BY <1>5, <4>1, WalkStrings
        <5> HIDE DEF p, a, z, b1
        <5>3. f[<<z, 1>>] = IF a + Len(Enclosed(b1)) <= Len(s) THEN f[<<z + Len(Enclosed(b1)), 1>>] ELSE 0
          BY <5>1, <5>2 DEF SkipsStrings
        <5> QED BY <5>3 DEF z, b1
      <4> HIDE DEF a
      <4> QED BY <4>2, <4>3
    <3>11. a + 1 + w = p + y /\ p + y > x /\ (~(a + w <= n) => ~(c + L <= n))
      BY <1>0, <1>1, <1>a, <2>0, <3>4, <3>6, <3>8, SMTT(30)
    <3>12. CASE a + w <= n
      <4>1. p + y \in p .. n + 1
        BY <1>0, <3>4, <3>6, <3>8, <3>11, <3>12
      <4>2. p + y \in P
        BY <3>1, <3>6, <4>1
      <4>3. rank[p + y] < rank[x]
        BY <1>0, <2>0, <3>11, <4>1, <4>2
      <4>4. f[<<p + y, 1>>] = v
        <5>1. p + y \in G
          <6> HIDE DEF G, P, rank
          <6> QED BY <1>8, <4>2, <4>3
        <5> QED BY <5>1
      <4> HIDE DEF a, p, v
      <4> QED BY <3>9, <3>10, <3>11, <3>12, <4>4
    <3>13. CASE ~(a + w <= n)
      <4>1. v = 0
        BY <3>11, <3>13
      <4> HIDE DEF a, v
      <4> QED BY <3>9, <3>10, <3>13, <4>1
    <3> QED BY <3>12, <3>13
  <2>6. k = m \/ k < m
    BY <1>0
  <2> QED BY <1>0, <2>0, <2>3, <2>4, <2>5, <2>6
<1>9. P \subseteq G
  <2>1. \A x \in P : (\A y \in P : rank[y] < rank[x] => y \in G) => x \in G
    BY <1>8
  <2> HIDE DEF P, G, rank
  <2> QED BY <1>7, <2>1, RankInduction
<1>10. p \in P
  <2>1. 0 \in 0 .. m /\ p = p + o[0]
    BY <1>0, <1>3
  <2> QED BY <1>0, <2>1
<1>11. f[<<p, 1>>] = v
  <2> HIDE DEF P, v
  <2> QED BY <1>9, <1>10
<1> QED BY <1>5, <1>11

\* A key has nothing to escape.
LEMMA PlainKey ==
  ASSUME NEW key \in Seq(Letters)
  PROVE  key \in Seq(Wire) /\ Escaped(key) = key
<1> DEFINE e == EscapedBytes(key)
           u == [k \in 0 .. Len(key) |-> k]
<1>1. key \in Seq(Wire) /\ Len(key) \in Nat /\ DOMAIN key = 1 .. Len(key)
  <2>1. \A x \in Letters : x \in Wire
    BY DEF Wire, Plain
  <2> QED BY <2>1
<1>2. \A i \in 1 .. Len(key) : e[i] = <<key[i]>>
  <2> SUFFICES ASSUME NEW i \in 1 .. Len(key) PROVE e[i] = <<key[i]>>
    OBVIOUS
  <2>1. key[i] \in Letters
    OBVIOUS
  <2>2. key[i] \notin {"quote", "\\"}
    BY <2>1 DEF Letters
  <2> QED BY <1>1, <2>2 DEF EscapedBytes
<1>3. \A i \in 1 .. Len(key) : Len(e[i]) = 1 /\ \A j \in 1 .. Len(e[i]) : e[i][j] = key[i] /\ j = 1
  <2> SUFFICES ASSUME NEW i \in 1 .. Len(key)
               PROVE  Len(e[i]) = 1 /\ \A j \in 1 .. Len(e[i]) : e[i][j] = key[i] /\ j = 1
    OBVIOUS
  <2>1. e[i] = <<key[i]>>
    BY <1>2
  <2> HIDE DEF e
  <2> QED BY <2>1
<1>4. /\ e \in Seq(Seq(Wire)) /\ Len(e) = Len(key) /\ Escaped(key) \in Seq(Wire)
      /\ \E o : Strung(Escaped(key), e, o)
  BY <1>1, EscapedIs
<1> HIDE DEF e
<1>5. Strung(key, e, u)
  <2>1. PartEnds(u, e)
    <3>1. u \in [0 .. Len(e) -> Nat] /\ u[0] = 0
      BY <1>1, <1>4
    <3>2. ASSUME NEW k \in 1 .. Len(e) PROVE u[k] = u[k - 1] + Len(e[k])
      <4>1. k \in 1 .. Len(key) /\ k \in 0 .. Len(key) /\ k - 1 \in 0 .. Len(key)
        BY <1>1, <1>4
      <4>2. u[k] = k /\ u[k - 1] = k - 1 /\ Len(e[k]) = 1
        BY <1>3, <4>1
      <4>3. k = (k - 1) + 1
        BY <1>4, <1>1
      <4> HIDE DEF u
      <4> QED BY <4>2, <4>3
    <3> HIDE DEF u
    <3> QED BY <3>1, <3>2 DEF PartEnds
  <2>2. Len(key) = u[Len(e)]
    BY <1>1, <1>4
  <2>3. ASSUME NEW k \in 1 .. Len(e), NEW j \in 1 .. Len(e[k]) PROVE key[u[k - 1] + j] = e[k][j]
    <3>1. k - 1 \in 0 .. Len(key) /\ u[k - 1] = k - 1 /\ j = 1 /\ e[k][j] = key[k]
      BY <1>1, <1>3, <1>4
    <3>2. u[k - 1] + j = k
      BY <3>1
    <3> QED BY <3>1, <3>2
  <2> HIDE DEF u
  <2> QED BY <2>1, <2>2, <2>3 DEF Strung
<1>6. Escaped(key) = key
  <2> HIDE DEF u
  <2> QED BY <1>1, <1>4, <1>5, FlatSame
<1> QED BY <1>1, <1>6

LEMMA KeyTextIs ==
  ASSUME NEW key \in Seq(Letters), NEW bare \in BOOLEAN
  PROVE  /\ KeyText(key, bare) \in Seq(Wire)
         /\ bare => KeyText(key, bare) = key
         /\ ~bare => KeyText(key, bare) = Enclosed(key) /\ Len(KeyText(key, bare)) = Len(key) + 2
<1>1. key \in Seq(Wire) /\ Escaped(key) = key
  BY PlainKey
<1>2. (bare => KeyText(key, bare) = key) /\ (~bare => KeyText(key, bare) = Enclosed(key))
  BY <1>1 DEF KeyText, Enclosed
<1>3. Enclosed(key) \in Seq(Wire) /\ Len(Enclosed(key)) = Len(key) + 2
  BY <1>1, EnclosedIs
<1> QED BY <1>1, <1>2, <1>3

\* How a member in the line looks.
MemberAt(s, c, K, text) ==
  /\ Agree(s, c, K) /\ Agree(s, c + Len(K) + 1, text)
  /\ c + Len(K) + 1 <= Len(s) => s[c + Len(K) + 1] = "colon"

Joined(K, text) == K \o <<"colon">> \o text

LEMMA JoinedIs ==
  ASSUME NEW K \in Seq(Wire), NEW text \in Seq(Wire)
  PROVE  /\ Joined(K, text) \in Seq(Wire) /\ Len(Joined(K, text)) = Len(K) + 1 + Len(text)
         /\ \A s \in Seq(Wire), c \in Nat : Agree(s, c, Joined(K, text)) => MemberAt(s, c, K, text)
<1> DEFINE h == K \o <<"colon">>
<1>1. K \in Seq(Wire) /\ Len(K) \in Nat
  OBVIOUS
<1>2. <<"colon">> \in Seq(Wire) /\ Len(<<"colon">>) = 1 /\ <<"colon">>[1] = "colon" /\ Len(text) \in Nat
  BY WireChars, OneChar
<1>3. h \in Seq(Wire) /\ Len(h) = Len(K) + 1
  BY <1>1, <1>2, Cat
<1>4. h \o text \in Seq(Wire) /\ Len(h \o text) = Len(K) + 1 + Len(text)
  <2> HIDE DEF h
  <2>1. h \o text \in Seq(Wire) /\ Len(h \o text) = Len(h) + Len(text)
    BY <1>3, Cat
  <2> QED BY <1>1, <1>3, <2>1
<1>5. ASSUME NEW s \in Seq(Wire), NEW c \in Nat, Agree(s, c, h \o text)
      PROVE  MemberAt(s, c, K, text)
  <2>1. Agree(s, c, h) /\ Agree(s, c + Len(h), text)
    <3> HIDE DEF h
    <3> QED BY <1>3, <1>5, AgreeCat
  <2>2. Agree(s, c, K) /\ Agree(s, c + Len(K), <<"colon">>)
    BY <1>1, <1>2, <2>1, AgreeCat
  <2>3. c + Len(h) = c + Len(K) + 1
    BY <1>1, <1>3
  <2>4. c + Len(K) + 1 <= Len(s) => s[c + Len(K) + 1] = "colon"
    <3>1. 1 \in 1 .. Len(<<"colon">>)
      BY <1>2
    <3> QED BY <1>2, <2>2, <3>1 DEF Agree
  <2> QED BY <2>1, <2>2, <2>3, <2>4 DEF MemberAt
<1> QED BY <1>4, <1>5 DEF Joined

\* From behind the brace of an object with one string the walk goes to behind its end.
LEMMA SkipObject ==
  ASSUME NEW s \in Seq(Wire), NEW b \in Seq(Wire), NEW c \in Nat, c < Len(s), NEW key \in Seq(Wire),
         NEW L \in Nat, L = Len(Joined(Enclosed(key), Enclosed(b))) + 2,
         Agree(s, c, Bracketed(Joined(Enclosed(key), Enclosed(b)), "lbrace", "rbrace"))
  PROVE  NestedEnd(s, c + 2) = IF c + L <= Len(s) THEN c + L + 1 ELSE 0
<1> DEFINE p == c + 2
           K == Enclosed(key)
           T == Enclosed(b)
           mem == Joined(Enclosed(key), Enclosed(b))
<1>1. /\ T \in Seq(Wire) /\ K \in Seq(Wire)
      /\ Len(T) = Len(Escaped(b)) + 2 /\ Len(Escaped(b)) \in Nat
      /\ Len(K) = Len(Escaped(key)) + 2 /\ Len(Escaped(key)) \in Nat
  BY EnclosedIs
<1>3. /\ mem \in Seq(Wire) /\ Len(mem) = Len(K) + 1 + Len(T)
      /\ \A sx \in Seq(Wire), c1 \in Nat : Agree(sx, c1, mem) => MemberAt(sx, c1, K, T)
  <2> HIDE DEF K, T
  <2>2. /\ Joined(K, T) \in Seq(Wire) /\ Len(Joined(K, T)) = Len(K) + 1 + Len(T)
        /\ \A sx \in Seq(Wire), c1 \in Nat : Agree(sx, c1, Joined(K, T)) => MemberAt(sx, c1, K, T)
    BY <1>1, JoinedIs
  <2> QED BY <2>2 DEF K, T
<1>4. L = Len(mem) + 2 /\ Agree(s, c, Bracketed(mem, "lbrace", "rbrace"))
  OBVIOUS
<1> HIDE DEF K, T, mem
<1>5. PICK w \in Nat : w = Len(T) /\ w >= 2
  BY <1>1
<1>6. PICK k \in Nat : k = Len(K) /\ k >= 2
  BY <1>1
<1>7. PICK n \in Nat : n = Len(s) /\ c < n
  OBVIOUS
<1>8. L = k + w + 3 /\ Len(mem) = k + w + 1
  BY <1>3, <1>4, <1>5, <1>6
<1>9. Agree(s, c + 1, mem) /\ (c + L <= n => s[c + L] = "rbrace")
  <2>1. "lbrace" \in Wire /\ "rbrace" \in Wire
    BY WireChars
  <2>2. Agree(s, c + 1, mem) /\ (c + Len(mem) + 2 <= Len(s) => s[c + Len(mem) + 2] = "rbrace")
    <3> DEFINE open == "lbrace"
               close == "rbrace"
    <3>1. open \in Wire /\ close \in Wire /\ Agree(s, c, Bracketed(mem, open, close)) /\ mem \in Seq(Wire)
      BY <1>3, <1>4, <2>1
    <3> HIDE DEF open, close
    <3>2. Agree(s, c + 1, mem) /\ (c + Len(mem) + 2 <= Len(s) => s[c + Len(mem) + 2] = close)
      BY <3>1, BracketedIs
    <3> QED BY <3>2 DEF close
  <2>3. c + Len(mem) + 2 = c + L
    BY <1>8
  <2> QED BY <1>7, <2>2, <2>3
<1>10. PICK c1 \in Nat : c1 = c + 1
  OBVIOUS
<1>11. PICK c2 \in Nat : c2 = c + k + 2 /\ c2 = c1 + k + 1
  BY <1>10
<1>12. Agree(s, c1, K) /\ Agree(s, c2, T) /\ (c2 <= n => s[c2] = "colon")
  <2>1. MemberAt(s, c1, K, T)
    BY <1>3, <1>9, <1>10
  <2> QED BY <1>6, <1>7, <1>11, <2>1 DEF MemberAt
<1>13. p \in 1 .. Len(s) + 1 /\ p \in p .. Len(s) + 1 /\ p = c1 + 1 /\ 1 \in Nat \ {0} /\ p + k = c2
  BY <1>7, <1>10, <1>11
<1> HIDE DEF p
<1>a. 1 \in Nat /\ 1 > 0 /\ 0 \in Nat
  OBVIOUS
<1>14. PICK f : EndsNested(f, s, p) /\ NestedEnd(s, p) = f[<<p, 1>>]
  BY <1>13, NestedEndIs
<1>15. f[<<p, 1>>] = IF c1 + k <= n THEN f[<<c2, 1>>] ELSE 0
  <2>1. f[<<p, 1>>] = IF c1 + Len(K) <= Len(s) THEN f[<<p + Len(K), 1>>] ELSE 0
    <3>1. Agree(s, c1, Enclosed(key))
      BY <1>12 DEF K
    <3>2. f[<<p, 1>>] = IF c1 + Len(Enclosed(key)) <= Len(s) THEN f[<<p + Len(Enclosed(key)), 1>>] ELSE 0
      <4>1. p \in 1 .. Len(s) + 1 /\ p \in p .. Len(s) + 1 /\ p = c1 + 1 /\ EndsNested(f, s, p) /\ c1 \in Nat
        BY <1>10, <1>13, <1>14
      <4>2. SkipsStrings(f, s, p)
        BY <4>1, WalkStrings
      <4> QED BY <3>1, <4>1, <4>2 DEF SkipsStrings
    <3> QED BY <3>2 DEF K
  <2> QED BY <1>6, <1>7, <1>13, <2>1
<1>16. f[<<p, 1>>] = IF c2 <= n THEN f[<<c2 + 1, 1>>] ELSE 0
  <2>1. CASE c2 <= n
    <3>1. c1 + k <= n /\ c2 \in p .. Len(s) /\ s[c2] = "colon"
      BY <1>7, <1>10, <1>11, <1>12, <2>1 DEF p
    <3>a. s[c2] \notin {"quote", "lbrace", "[", "rbrace", "]"}
      BY <3>1
    <3>2. p \in 1 .. Len(s) + 1 /\ EndsNested(f, s, p)
      BY <1>13, <1>14
    <3>3. f[<<c2, 1>>] = f[<<c2 + 1, 1>>]
      <4>1. PassesChars(f, s, p)
        BY <3>2 DEF EndsNested
      <4>2. c2 \in p .. Len(s) /\ 1 \in Nat /\ 1 > 0
        BY <3>1
      <4> QED BY <3>a, <4>1, <4>2 DEF PassesChars
    <3> QED BY <1>15, <2>1, <3>1, <3>3
  <2>2. CASE c1 + k <= n /\ ~(c2 <= n)
    <3>1. c2 \in p .. Len(s) + 1 /\ c2 > Len(s)
      BY <1>7, <1>10, <1>11, <2>2 DEF p
    <3>2. f[<<c2, 1>>] = 0
      BY <1>a, <1>13, <1>14, <3>1 DEF EndsNested
    <3> QED BY <1>15, <2>2, <3>2
  <2>3. CASE ~(c1 + k <= n)
    <3>1. ~(c2 <= n)
      BY <1>7, <1>11, <2>3
    <3> QED BY <1>15, <2>3, <3>1
  <2> QED BY <2>1, <2>2, <2>3
<1>17. c2 <= n => f[<<c2 + 1, 1>>] = IF c2 + w <= n THEN f[<<c2 + 1 + w, 1>>] ELSE 0
  <2> SUFFICES ASSUME c2 <= n
               PROVE  f[<<c2 + 1, 1>>] = IF c2 + w <= n THEN f[<<c2 + 1 + w, 1>>] ELSE 0
    OBVIOUS
  <2>1. PICK x \in Nat : x = c2 + 1
    OBVIOUS
  <2>2. x \in p .. Len(s) + 1
    BY <1>7, <1>10, <1>11, <2>1 DEF p
  <2>3. f[<<x, 1>>] = IF c2 + Len(T) <= Len(s) THEN f[<<x + Len(T), 1>>] ELSE 0
    <3>1. Agree(s, c2, Enclosed(b))
      BY <1>12 DEF T
    <3>2. f[<<x, 1>>] = IF c2 + Len(Enclosed(b)) <= Len(s) THEN f[<<x + Len(Enclosed(b)), 1>>] ELSE 0
      <4>1. p \in 1 .. Len(s) + 1 /\ x \in p .. Len(s) + 1 /\ x = c2 + 1 /\ EndsNested(f, s, p) /\ c2 \in Nat
        BY <1>11, <1>13, <1>14, <2>1, <2>2
      <4>2. SkipsStrings(f, s, p)
        BY <4>1, WalkStrings
      <4> QED BY <3>1, <4>1, <4>2 DEF SkipsStrings
    <3> QED BY <3>2 DEF T
  <2> QED BY <1>5, <1>7, <2>1, <2>3
<1>18. PICK z \in Nat : z = c + L /\ z = c2 + 1 + w
  BY <1>8, <1>11
<1>19. z \in p .. Len(s) + 1 \/ z > n + 1
  BY <1>7, <1>8, <1>18 DEF p
<1>20. CASE z <= n
  <2>1. c2 <= n /\ c2 + w <= n /\ z \in p .. Len(s) + 1 /\ z + 1 \in p .. Len(s) + 1
    BY <1>7, <1>13, <1>18, <1>19, <1>20
  <2>2. f[<<z, 1>>] = f[<<z + 1, 1 - 1>>]
    <3>0. s[z] = "rbrace" /\ z <= Len(s)
      BY <1>7, <1>9, <1>18, <1>20
    <3>1. s[z] \in {"rbrace", "]"} /\ z <= Len(s)
      BY <3>0
    <3> QED BY <1>a, <1>13, <1>14, <2>1, <3>1 DEF EndsNested
  <2>3. f[<<z + 1, 0>>] = z + 1
    BY <1>a, <1>13, <1>14, <2>1 DEF EndsNested
  <2>4. 1 - 1 = 0
    OBVIOUS
  <2>5. NestedEnd(s, p) = z + 1
    BY <1>14, <1>16, <1>17, <1>18, <2>1, <2>2, <2>3, <2>4
  <2> QED BY <1>7, <1>18, <1>20, <2>5 DEF p
<1>21. CASE ~(z <= n)
  <2>1. f[<<p, 1>>] = 0
    <3>1. CASE c2 <= n /\ c2 + w <= n
      <4>1. z \in p .. Len(s) + 1 /\ z > Len(s)
        BY <1>7, <1>18, <1>19, <1>21, <3>1
      <4>2. f[<<z, 1>>] = 0
        BY <1>a, <1>13, <1>14, <4>1 DEF EndsNested
      <4> QED BY <1>16, <1>17, <1>18, <3>1, <4>2
    <3>2. CASE ~(c2 <= n /\ c2 + w <= n)
      BY <1>16, <1>17, <3>2
    <3> QED BY <3>1, <3>2
  <2> QED BY <1>7, <1>14, <1>18, <1>21, <2>1 DEF p
<1> QED BY <1>20, <1>21

-----------------------------------------------------------------------------
(* Skipping a number, or any value *)

LEMMA Least ==
  ASSUME NEW S \in SUBSET Nat, S # {}
  PROVE  \E m \in S : \A j \in S : m <= j
<1> DEFINE Q == \E m \in S : \A j \in S : m <= j
           G == {x \in S : Q}
           rank == [x \in S |-> x]
<1>1. \A x \in S : rank[x] \in Nat
  OBVIOUS
<1>2. ASSUME NEW x \in S, \A y \in S : rank[y] < rank[x] => y \in G PROVE x \in G
  <2>1. CASE \E y \in S : y < x
    <3>1. PICK y \in S : y < x
      BY <2>1
    <3>2. rank[y] < rank[x]
      BY <3>1
    <3>3. y \in G
      BY <1>2, <3>2
    <3> QED BY <3>3
  <2>2. CASE \A y \in S : ~(y < x)
    <3>1. \A y \in S : x <= y
      BY <2>2
    <3> QED BY <3>1
  <2> QED BY <2>1, <2>2
<1>3. S \subseteq G
  <2> DEFINE D == S
  <2>1. \A x \in D : (\A y \in D : rank[y] < rank[x] => y \in G) => x \in G
    BY <1>2
  <2>2. \A x \in D : rank[x] \in Nat
    BY <1>1
  <2> HIDE DEF D, G, rank
  <2>3. D \subseteq G
    BY <2>1, <2>2, RankInduction
  <2> QED BY <2>3 DEF D
<1>4. PICK x \in S : x \in G
  BY <1>3
<1> QED BY <1>4

LEMMA BareEndBounds ==
  ASSUME NEW s \in Seq(Wire), NEW p \in 1 .. Len(s) + 1
  PROVE  BareEnd(s, p) \in p .. Len(s) + 1
<1> DEFINE stops == {i \in p .. Len(s) : s[i] \in {"comma", "rbrace", "]"}}
<1>1. CASE stops = {}
  <2>1. BareEnd(s, p) = Len(s) + 1
    BY <1>1 DEF BareEnd
  <2> QED BY <2>1
<1>2. CASE stops # {}
  <2>1. stops \in SUBSET Nat /\ stops \subseteq p .. Len(s)
    OBVIOUS
  <2>2. BareEnd(s, p) = CHOOSE i \in stops : \A j \in stops : i <= j
    BY <1>2 DEF BareEnd
  <2> HIDE DEF stops
  <2>3. BareEnd(s, p) \in stops
    BY <1>2, <2>1, <2>2, Least
  <2>4. BareEnd(s, p) \in p .. Len(s)
    BY <2>1, <2>3
  <2> QED BY <2>4
<1> QED BY <1>1, <1>2

\* A number ends before the separator behind it, or where the line does.
LEMMA SkipNumber ==
  ASSUME NEW s \in Seq(Wire), NEW c \in Nat, c < Len(s), NEW L \in Nat \ {0},
         \A j \in 1 .. L : c + j <= Len(s) => s[c + j] = "1",
         c + L + 1 <= Len(s) => s[c + L + 1] \in {"comma", "rbrace", "]"}
  PROVE  BareEnd(s, c + 1) = IF c + L <= Len(s) THEN c + L + 1 ELSE Len(s) + 1
<1> DEFINE stops == {i \in c + 1 .. Len(s) : s[i] \in {"comma", "rbrace", "]"}}
<1>0. BareEnd(s, c + 1) = IF stops = {} THEN Len(s) + 1 ELSE CHOOSE i \in stops : \A j \in stops : i <= j
  BY DEF BareEnd
<1>1. ASSUME NEW i \in stops PROVE i \in Nat /\ i >= c + L + 1 /\ i <= Len(s)
  <2>1. i \in c + 1 .. Len(s) /\ s[i] # "1"
    OBVIOUS
  <2>2. PICK j \in Nat : j = i - c /\ j >= 1 /\ i = c + j
    BY <2>1
  <2>3. ~(j <= L)
    BY <2>1, <2>2
  <2> QED BY <2>1, <2>2, <2>3
<1>2. CASE c + L + 1 <= Len(s)
  <2> DEFINE e == c + L + 1
  <2>1. e \in stops
    BY <1>2
  <2>2. \A j \in stops : e <= j
    BY <1>1
  <2>3. \A i \in stops : (\A j \in stops : i <= j) => i = e
    <3> SUFFICES ASSUME NEW i \in stops, \A j \in stops : i <= j PROVE i = e
      OBVIOUS
    <3>1. i <= e /\ e <= i /\ i \in Nat
      BY <1>1, <2>1, <2>2
    <3> QED BY <3>1
  <2> HIDE DEF stops, e
  <2>4. (CHOOSE i \in stops : \A j \in stops : i <= j) = e
    BY <2>1, <2>2, <2>3
  <2>5. BareEnd(s, c + 1) = e
    BY <1>0, <2>1, <2>4
  <2> QED BY <1>2, <2>5 DEF e
<1>3. CASE ~(c + L + 1 <= Len(s))
  <2>1. stops = {}
    BY <1>1, <1>3
  <2> HIDE DEF stops
  <2>2. BareEnd(s, c + 1) = Len(s) + 1
    BY <1>0, <2>1
  <2>3. c + L <= Len(s) => Len(s) + 1 = c + L + 1
    BY <1>3
  <2> QED BY <2>2, <2>3
<1> QED BY <1>2, <1>3

LEMMA NestedEndBounds ==
  ASSUME NEW s \in Seq(Wire), NEW p \in 1 .. Len(s) + 1
  PROVE  NestedEnd(s, p) = 0 \/ NestedEnd(s, p) \in p .. Len(s) + 1
<1> DEFINE n == Len(s)
           D == (p .. n + 1) \X Nat
           rank == [x \in D |-> (n + 1) - x[1]]
<1>0. n \in Nat /\ p \in Nat /\ p <= n + 1 /\ p >= 1
  OBVIOUS
<1>1. PICK f : EndsNested(f, s, p) /\ NestedEnd(s, p) = f[<<p, 1>>]
  BY NestedEndIs
<1> DEFINE Ok(x) == f[x] = 0 \/ f[x] \in p .. n + 1
           G == {x \in D : Ok(x)}
<1>2. \A x \in D : rank[x] \in Nat
  BY <1>0
<1>3. ASSUME NEW x \in D, \A y \in D : rank[y] < rank[x] => y \in G PROVE x \in G
  <2>1. PICK i \in p .. n + 1, d \in Nat : x = <<i, d>>
    OBVIOUS
  <2>2. i \in Nat /\ rank[x] = (n + 1) - i
    BY <1>0, <2>1
  <2>3. ASSUME NEW j \in p .. n + 1, NEW u \in Nat, j > i PROVE Ok(<<j, u>>)
    <3>1. <<j, u>> \in D
      OBVIOUS
    <3>2. rank[<<j, u>>] = (n + 1) - j
      BY <3>1
    <3>3. rank[<<j, u>>] < rank[x]
      BY <1>0, <2>2, <2>3, <3>2
    <3> HIDE DEF D, rank
    <3> QED BY <1>3, <3>1, <3>3
  <2>4. CASE d = 0
    <3>1. f[<<i, d>>] = i
      BY <1>1, <2>4 DEF EndsNested
    <3> QED BY <2>1, <3>1
  <2>5. CASE d > 0 /\ i > n
    <3>1. f[<<i, d>>] = 0
      BY <1>1, <2>5 DEF EndsNested
    <3> QED BY <2>1, <3>1
  <2>6. CASE d > 0 /\ i <= n
    <3>0. i + 1 \in p .. n + 1 /\ i + 1 > i /\ d + 1 \in Nat /\ d - 1 \in Nat /\ i + 1 \in 1 .. n + 2
      BY <1>0, <2>2, <2>6
    <3>1. CASE s[i] = "quote"
      <4>1. f[<<i, d>>] = IF StringEnd(s, i + 1) = 0 THEN 0 ELSE f[<<StringEnd(s, i + 1), d>>]
        BY <1>1, <2>6, <3>1 DEF EndsNested
      <4>2. StringEnd(s, i + 1) = 0 \/ StringEnd(s, i + 1) \in (i + 1) + 1 .. n + 1
        BY <3>0, StringEndBounds
      <4>3. CASE StringEnd(s, i + 1) = 0
        BY <2>1, <4>1, <4>3
      <4>4. CASE StringEnd(s, i + 1) # 0
        <5>1. PICK e \in Nat : e = StringEnd(s, i + 1) /\ e \in p .. n + 1 /\ e > i
          BY <1>0, <2>2, <4>2, <4>4
        <5>2. Ok(<<e, d>>)
          BY <2>3, <5>1
        <5> QED BY <2>1, <4>1, <4>4, <5>1, <5>2
      <4> QED BY <4>3, <4>4
    <3>2. CASE s[i] \in {"lbrace", "["}
      <4>1. f[<<i, d>>] = f[<<i + 1, d + 1>>]
        BY <1>1, <2>6, <3>2 DEF EndsNested
      <4>2. Ok(<<i + 1, d + 1>>)
        BY <2>3, <3>0
      <4> QED BY <2>1, <4>1, <4>2
    <3>3. CASE s[i] \in {"rbrace", "]"}
      <4>1. f[<<i, d>>] = f[<<i + 1, d - 1>>]
        BY <1>1, <2>6, <3>3 DEF EndsNested
      <4>2. Ok(<<i + 1, d - 1>>)
        BY <2>3, <3>0
      <4> QED BY <2>1, <4>1, <4>2
    <3>4. CASE s[i] \notin {"quote", "lbrace", "[", "rbrace", "]"}
      <4>1. f[<<i, d>>] = f[<<i + 1, d>>]
        <5>1. i \in p .. Len(s) /\ d \in Nat /\ d > 0 /\ EndsNested(f, s, p)
          BY <1>1, <2>1, <2>6
        <5>2. PassesChars(f, s, p)
          BY <5>1 DEF EndsNested
        <5> QED BY <3>4, <5>1, <5>2 DEF PassesChars
      <4>2. Ok(<<i + 1, d>>)
        BY <2>3, <3>0
      <4> QED BY <2>1, <4>1, <4>2
    <3> QED BY <3>1, <3>2, <3>3, <3>4
  <2> QED BY <1>0, <2>2, <2>4, <2>5, <2>6
<1>4. D \subseteq G
  <2> HIDE DEF D, G, rank
  <2> QED BY <1>2, <1>3, RankInduction
<1>5. <<p, 1>> \in D
  BY <1>0
<1>6. Ok(<<p, 1>>)
  <2> HIDE DEF D
  <2> QED BY <1>4, <1>5
<1> QED BY <1>1, <1>6

LEMMA ValueEndBounds ==
  ASSUME NEW s \in Seq(Wire), NEW p \in 1 .. Len(s) + 1
  PROVE  ValueEnd(s, p) = 0 \/ ValueEnd(s, p) \in p .. Len(s) + 1
<1>1. CASE p > Len(s)
  BY <1>1 DEF ValueEnd
<1>2. CASE p <= Len(s)
  <2>0. p + 1 \in 1 .. Len(s) + 2 /\ p + 1 \in 1 .. Len(s) + 1 /\ p \in Nat /\ ~(p > Len(s))
    BY <1>2
  <2>1. CASE s[p] = "quote"
    <3>1. ValueEnd(s, p) = StringEnd(s, p + 1)
      BY <2>0, <2>1 DEF ValueEnd
    <3>2. StringEnd(s, p + 1) = 0 \/ StringEnd(s, p + 1) \in (p + 1) + 1 .. Len(s) + 1
      BY <2>0, StringEndBounds
    <3> QED BY <2>0, <3>1, <3>2
  <2>2. CASE s[p] \in {"lbrace", "["}
    <3>1. ValueEnd(s, p) = NestedEnd(s, p + 1)
      BY <2>0, <2>2 DEF ValueEnd
    <3>2. NestedEnd(s, p + 1) = 0 \/ NestedEnd(s, p + 1) \in p + 1 .. Len(s) + 1
      BY <2>0, NestedEndBounds
    <3> QED BY <2>0, <3>1, <3>2
  <2>3. CASE s[p] \notin {"quote", "lbrace", "["}
    <3>1. ValueEnd(s, p) = BareEnd(s, p)
      BY <2>0, <2>3 DEF ValueEnd
    <3> QED BY <3>1, BareEndBounds
  <2> QED BY <2>1, <2>2, <2>3
<1> QED BY <1>1, <1>2

Content == Seq(Plain \union {"wide"})

\* The bytes of each character of a text.
Chars(content) ==
  [i \in DOMAIN content |-> IF content[i] = "wide" THEN <<"lead", "tail", "tail">> ELSE <<content[i]>>]

LEMMA BytesIs ==
  ASSUME NEW x \in Content
  PROVE  /\ Chars(x) \in Seq(Seq(Wire)) /\ Len(Chars(x)) = Len(x)
         /\ \A i \in 1 .. Len(x) :
              Chars(x)[i] = IF x[i] = "wide" THEN <<"lead", "tail", "tail">> ELSE <<x[i]>>
         /\ Bytes(x) = FlattenSeq(Chars(x)) /\ Bytes(x) \in Seq(Wire)
         /\ \E o : Strung(Bytes(x), Chars(x), o)
<1> DEFINE e == Chars(x)
<1>1. Len(x) \in Nat /\ DOMAIN x = 1 .. Len(x) /\ \A i \in 1 .. Len(x) : x[i] \in Plain \union {"wide"}
  BY DEF Content
<1>2. e = [i \in 1 .. Len(x) |-> e[i]]
      /\ \A i \in 1 .. Len(x) : e[i] = IF x[i] = "wide" THEN <<"lead", "tail", "tail">> ELSE <<x[i]>>
  BY <1>1 DEF Chars
<1>3. ASSUME NEW i \in 1 .. Len(x) PROVE e[i] \in Seq(Wire)
  <2>1. CASE x[i] = "wide"
    <3>1. "lead" \in Wire /\ "tail" \in Wire
      BY WireChars
    <3>2. <<"lead", "tail", "tail">> \in Seq(Wire)
      BY <3>1
    <3> HIDE DEF e
    <3>3. e[i] = <<"lead", "tail", "tail">>
      BY <1>2, <2>1
    <3> QED BY <3>2, <3>3
  <2>2. CASE x[i] # "wide"
    <3>1. x[i] \in Plain
      BY <1>1, <2>2
    <3>2. x[i] \in Wire
      BY <3>1, WireChars
    <3> HIDE DEF e
    <3>3. e[i] = <<x[i]>>
      BY <1>2, <2>2
    <3> QED BY <3>2, <3>3
  <2> QED BY <2>1, <2>2
<1>4. Bytes(x) = FlattenSeq(e)
  BY DEF Bytes, Chars
<1> HIDE DEF e
<1>5. e \in Seq(Seq(Wire)) /\ Len(e) = Len(x)
  BY <1>1, <1>2, <1>3, SeqMade
<1> QED BY <1>2, <1>4, <1>5, Flattened DEF e

\* A value as WellFormed has them.
Good(v) ==
  /\ v \in Value
  /\ v.kind # "array" => Len(v.parts) = 1
  /\ v.kind = "number" => v.parts[1] \in Seq({"1"}) \ {<<>>}

Texts(v) == [i \in DOMAIN v.parts |-> Bytes(v.parts[i])]

LEMMA GoodIs ==
  ASSUME NEW v, Good(v)
  PROVE  /\ v.kind \in {"string", "number", "array", "object"}
         /\ v.parts \in Seq(Content) /\ Len(v.parts) \in Nat
         /\ v.kind # "array" => Len(v.parts) = 1 /\ v.parts[1] \in Content
         /\ Texts(v) \in Seq(Seq(Wire)) /\ Len(Texts(v)) = Len(v.parts)
         /\ \A i \in 1 .. Len(v.parts) : Texts(v)[i] = Bytes(v.parts[i]) /\ v.parts[i] \in Content
<1> DEFINE P == v.parts
<1>1. v.kind \in {"string", "number", "array", "object"} /\ P \in Seq(Content)
  BY DEF Good, Value, Content
<1>2. Len(P) \in Nat /\ DOMAIN P = 1 .. Len(P) /\ \A i \in 1 .. Len(P) : P[i] \in Content
  <2> HIDE DEF P
  <2> QED BY <1>1
<1>3. v.kind # "array" => Len(P) = 1 /\ P[1] \in Content
  <2>1. v.kind # "array" => Len(P) = 1
    BY DEF Good
  <2> HIDE DEF P
  <2> QED BY <1>2, <2>1
<1> DEFINE e == Texts(v)
<1>4. e = [i \in 1 .. Len(P) |-> e[i]] /\ \A i \in 1 .. Len(P) : e[i] = Bytes(P[i])
  BY <1>2 DEF Texts
<1>5. \A i \in 1 .. Len(P) : e[i] \in Seq(Wire)
  <2> HIDE DEF e, P
  <2> QED BY <1>2, <1>4, BytesIs
<1>6. e \in Seq(Seq(Wire)) /\ Len(e) = Len(P)
  <2> HIDE DEF e, P
  <2> QED BY <1>2, <1>4, <1>5, SeqMade
<1> QED BY <1>1, <1>2, <1>3, <1>4, <1>6

\* What is written for a value of each kind.
ArrayText(v) == Bracketed(Listed(EnclosedAll(Texts(v))), "[", "]")
ObjectText(v) == Bracketed(Joined(Enclosed(<<"k">>), Enclosed(Bytes(v.parts[1]))), "lbrace", "rbrace")

LEMMA WrittenForms ==
  ASSUME NEW v, Good(v)
  PROVE  /\ v.kind = "string" => Written(v) = Enclosed(Bytes(v.parts[1]))
         /\ v.kind = "number" => Written(v) = v.parts[1]
         /\ v.kind = "array" => Written(v) = ArrayText(v)
         /\ v.kind = "object" => Written(v) = ObjectText(v)
<1>1. \A x : Quoted(x) = Enclosed(Bytes(x))
  BY DEF Quoted, Enclosed
<1>2. CASE v.kind = "string"
  BY <1>1, <1>2 DEF Written
<1>3. CASE v.kind = "number"
  BY <1>3 DEF Written
<1>4. CASE v.kind = "array"
  <2>1. Written(v) = <<"[">> \o Listed([i \in DOMAIN v.parts |-> Quoted(v.parts[i])]) \o <<"]">>
    BY <1>4 DEF Written
  <2>2. [i \in DOMAIN v.parts |-> Quoted(v.parts[i])] = EnclosedAll(Texts(v))
    BY <1>1 DEF EnclosedAll, Texts
  <2> QED BY <1>4, <2>1, <2>2 DEF ArrayText, Bracketed
<1>5. CASE v.kind = "object"
  <2>1. Written(v) = <<"lbrace">> \o Member(<<"k">>, Quoted(v.parts[1]), FALSE) \o <<"rbrace">>
    BY <1>5 DEF Written
  <2>2. <<"k">> \in Seq(Letters)
    BY DEF Letters
  <2>3. Escaped(<<"k">>) = <<"k">>
    BY <2>2, PlainKey
  <2>4. KeyText(<<"k">>, FALSE) = Enclosed(<<"k">>)
    BY <2>3 DEF KeyText, Enclosed
  <2>5. Member(<<"k">>, Quoted(v.parts[1]), FALSE) = Joined(Enclosed(<<"k">>), Enclosed(Bytes(v.parts[1])))
    BY <1>1, <2>4 DEF Member, Joined
  <2> QED BY <1>5, <2>1, <2>5 DEF ObjectText, Bracketed
<1> QED BY <1>2, <1>3, <1>4, <1>5, GoodIs

LEMMA NumberIs ==
  ASSUME NEW v, Good(v), v.kind = "number"
  PROVE  /\ Written(v) \in Seq(Wire) /\ Len(Written(v)) \in Nat \ {0}
         /\ \A i \in 1 .. Len(Written(v)) : Written(v)[i] = "1"
<1>1. Written(v) = v.parts[1]
  BY WrittenForms
<1>2. Written(v) \in Seq({"1"}) \ {<<>>}
  BY <1>1 DEF Good
<1> DEFINE W == Written(v)
<1> HIDE DEF W
<1>3. W \in Seq({"1"}) /\ W # <<>>
  BY <1>2 DEF W
<1>4. Len(W) \in Nat \ {0} /\ \A i \in 1 .. Len(W) : W[i] = "1"
  BY <1>3
<1>5. W \in Seq(Wire)
  <2>1. "1" \in Wire
    BY WireChars
  <2> QED BY <1>3, <2>1
<1> QED BY <1>4, <1>5 DEF W

LEMMA WrittenIs ==
  ASSUME NEW v, Good(v)
  PROVE  /\ Written(v) \in Seq(Wire) /\ Len(Written(v)) \in Nat \ {0}
         /\ v.kind = "string" => Written(v)[1] = "quote"
         /\ v.kind = "array" => Written(v)[1] = "["
         /\ v.kind = "object" => Written(v)[1] = "lbrace"
<1>1. CASE v.kind = "string"
  <2> DEFINE b == Bytes(v.parts[1])
  <2>1. Written(v) = Enclosed(b)
    BY <1>1, WrittenForms
  <2>2. b \in Seq(Wire)
    <3>1. v.parts[1] \in Content
      BY <1>1, GoodIs
    <3> QED BY <3>1, BytesIs
  <2> HIDE DEF b
  <2>3. /\ Enclosed(b) \in Seq(Wire) /\ Len(Enclosed(b)) = Len(Escaped(b)) + 2 /\ Len(Escaped(b)) \in Nat
        /\ Enclosed(b)[1] = "quote"
    BY <2>2, EnclosedIs
  <2>4. Len(Enclosed(b)) \in Nat \ {0}
    BY <2>3
  <2> QED BY <1>1, <2>1, <2>3, <2>4
<1>2. CASE v.kind = "number"
  BY <1>2, NumberIs
<1>3. CASE v.kind = "array"
  <2> DEFINE t == Listed(EnclosedAll(Texts(v)))
  <2>1. Written(v) = Bracketed(t, "[", "]")
    BY <1>3, WrittenForms DEF ArrayText
  <2>2. t \in Seq(Wire)
    <3>1. EnclosedAll(Texts(v)) \in Seq(Seq(Wire))
      BY GoodIs, EnclosedAllIs
    <3> QED BY <3>1, ListedIs
  <2>3. "[" \in Wire /\ "]" \in Wire
    BY WireChars
  <2> HIDE DEF t
  <2>4. Written(v) \in Seq(Wire) /\ Len(Written(v)) = Len(t) + 2 /\ Written(v)[1] = "["
    <3> DEFINE B == Bracketed(t, "[", "]")
    <3>1. B \in Seq(Wire) /\ Len(B) = Len(t) + 2 /\ B[1] = "["
      BY <2>2, <2>3, BracketedIs
    <3> HIDE DEF B
    <3> QED BY <2>1, <3>1 DEF B
  <2>5. Len(Written(v)) \in Nat \ {0}
    BY <2>2, <2>4
  <2> QED BY <1>3, <2>4, <2>5
<1>4. CASE v.kind = "object"
  <2> DEFINE t == Joined(Enclosed(<<"k">>), Enclosed(Bytes(v.parts[1])))
  <2>1. Written(v) = Bracketed(t, "lbrace", "rbrace")
    BY <1>4, WrittenForms DEF ObjectText
  <2>2. t \in Seq(Wire)
    <3>1. Bytes(v.parts[1]) \in Seq(Wire)
      <4>1. v.parts[1] \in Content
        BY <1>4, GoodIs
      <4> QED BY <4>1, BytesIs
    <3>2. <<"k">> \in Seq(Wire)
      BY WireChars, OneChar
    <3>3. Enclosed(<<"k">>) \in Seq(Wire) /\ Enclosed(Bytes(v.parts[1])) \in Seq(Wire)
      BY <3>1, <3>2, EnclosedIs
    <3> QED BY <3>3, JoinedIs
  <2>3. "lbrace" \in Wire /\ "rbrace" \in Wire
    BY WireChars
  <2> HIDE DEF t
  <2>4. Written(v) \in Seq(Wire) /\ Len(Written(v)) = Len(t) + 2 /\ Written(v)[1] = "lbrace"
    <3> DEFINE B == Bracketed(t, "lbrace", "rbrace")
    <3>1. B \in Seq(Wire) /\ Len(B) = Len(t) + 2 /\ B[1] = "lbrace"
      BY <2>2, <2>3, BracketedIs
    <3> HIDE DEF B
    <3> QED BY <2>1, <3>1 DEF B
  <2>5. Len(Written(v)) \in Nat \ {0}
    BY <2>2, <2>4
  <2> QED BY <1>4, <2>4, <2>5
<1> QED BY <1>1, <1>2, <1>3, <1>4, GoodIs

\* skip_value goes to behind the value, unless the line is torn in it; of a number
\* it then takes what there is.
LEMMA SkipValue ==
  ASSUME NEW s \in Seq(Wire), NEW c \in Nat, c < Len(s), NEW v, Good(v),
         NEW L \in Nat, L = Len(Written(v)), Agree(s, c, Written(v)),
         c + L + 1 <= Len(s) => s[c + L + 1] \in {"comma", "rbrace", "]"}
  PROVE  ValueEnd(s, c + 1) =
           IF c + L <= Len(s) THEN c + L + 1 ELSE IF v.kind = "number" THEN Len(s) + 1 ELSE 0
<1>0. PICK p \in Nat : p = c + 1 /\ p <= Len(s) /\ ~(p > Len(s)) /\ p + 1 = c + 2
  OBVIOUS
<1>1. L \in Nat \ {0} /\ s[p] = Written(v)[1]
  <2>1. L \in Nat \ {0} /\ 1 \in 1 .. Len(Written(v))
    BY WrittenIs
  <2> QED BY <1>0, <2>1 DEF Agree
<1>2. CASE v.kind = "string"
  <2> DEFINE b == Bytes(v.parts[1])
  <2>1. Written(v) = Enclosed(b) /\ s[p] = "quote"
    BY <1>1, <1>2, WrittenForms, WrittenIs
  <2>2. b \in Seq(Wire)
    <3>1. v.parts[1] \in Content
      BY <1>2, GoodIs
    <3> QED BY <3>1, BytesIs
  <2> HIDE DEF b
  <2>3. L = Len(Escaped(b)) + 2 /\ Len(Escaped(b)) \in Nat
    BY <2>1, <2>2, EnclosedIs
  <2>4. StringEnd(s, c + 2) = IF c + Len(Escaped(b)) + 2 <= Len(s) THEN c + Len(Escaped(b)) + 3 ELSE 0
    BY <2>1, <2>2, SkipString DEF Enclosed
  <2>5. ValueEnd(s, p) = StringEnd(s, c + 2)
    BY <1>0, <2>1 DEF ValueEnd
  <2> QED BY <1>0, <1>2, <2>3, <2>4, <2>5
<1>3. CASE v.kind = "number"
  <2>1. \A j \in 1 .. L : c + j <= Len(s) => s[c + j] = "1"
    BY <1>3, NumberIs DEF Agree
  <2>2. BareEnd(s, c + 1) = IF c + L <= Len(s) THEN c + L + 1 ELSE Len(s) + 1
    BY <1>1, <2>1, SkipNumber
  <2>3. ValueEnd(s, p) = BareEnd(s, p)
    <3>1. s[p] = "1"
      <4>1. 1 \in 1 .. L /\ c + 1 <= Len(s)
        BY <1>0, <1>1
      <4> QED BY <1>0, <2>1, <4>1
    <3>2. s[p] \notin {"quote", "lbrace", "["}
      BY <3>1
    <3> QED BY <1>0, <3>2 DEF ValueEnd
  <2> QED BY <1>0, <1>3, <2>2, <2>3
<1>4. CASE v.kind = "array"
  <2> DEFINE bs == Texts(v)
  <2>1. Written(v) = Bracketed(Listed(EnclosedAll(bs)), "[", "]") /\ s[p] = "["
    BY <1>1, <1>4, WrittenForms, WrittenIs DEF ArrayText
  <2>2. bs \in Seq(Seq(Wire)) /\ Listed(EnclosedAll(bs)) \in Seq(Wire)
    <3>1. bs \in Seq(Seq(Wire))
      BY GoodIs
    <3>2. EnclosedAll(bs) \in Seq(Seq(Wire))
      BY <3>1, EnclosedAllIs
    <3> QED BY <3>1, <3>2, ListedIs
  <2> HIDE DEF bs
  <2>3. L = Len(Listed(EnclosedAll(bs))) + 2
    <3> DEFINE t == Listed(EnclosedAll(bs))
    <3>1. "[" \in Wire /\ "]" \in Wire /\ t \in Seq(Wire)
      BY <2>2, WireChars
    <3>2. Written(v) = Bracketed(t, "[", "]")
      BY <2>1
    <3> HIDE DEF t
    <3>3. L = Len(t) + 2
      BY <3>1, <3>2, BracketedIs
    <3> QED BY <3>3 DEF t
  <2>4. NestedEnd(s, c + 2) = IF c + L <= Len(s) THEN c + L + 1 ELSE 0
    <3>1. Agree(s, c, Bracketed(Listed(EnclosedAll(bs)), "[", "]"))
      BY <2>1
    <3> QED BY <2>2, <2>3, <3>1, SkipArray
  <2>5. ValueEnd(s, p) = NestedEnd(s, c + 2)
    BY <1>0, <2>1 DEF ValueEnd
  <2> QED BY <1>0, <1>4, <2>4, <2>5
<1>5. CASE v.kind = "object"
  <2> DEFINE b == Bytes(v.parts[1])
             key == <<"k">>
  <2>1. Written(v) = Bracketed(Joined(Enclosed(key), Enclosed(b)), "lbrace", "rbrace") /\ s[p] = "lbrace"
    BY <1>1, <1>5, WrittenForms, WrittenIs DEF ObjectText
  <2>2. b \in Seq(Wire) /\ key \in Seq(Wire)
    <3>1. v.parts[1] \in Content
      BY <1>5, GoodIs
    <3> QED BY <3>1, BytesIs, WireChars, OneChar
  <2> HIDE DEF b, key
  <2>3. L = Len(Joined(Enclosed(key), Enclosed(b))) + 2
    <3> DEFINE t == Joined(Enclosed(key), Enclosed(b))
    <3>1. "lbrace" \in Wire /\ "rbrace" \in Wire
      BY WireChars
    <3>2. Written(v) = Bracketed(t, "lbrace", "rbrace")
      BY <2>1
    <3>3. t \in Seq(Wire)
      <4>1. Enclosed(key) \in Seq(Wire) /\ Enclosed(b) \in Seq(Wire)
        BY <2>2, EnclosedIs
      <4> QED BY <4>1, JoinedIs
    <3> HIDE DEF t
    <3>4. L = Len(t) + 2
      BY <3>1, <3>2, <3>3, BracketedIs
    <3> QED BY <3>4 DEF t
  <2>4. NestedEnd(s, c + 2) = IF c + L <= Len(s) THEN c + L + 1 ELSE 0
    <3>1. Agree(s, c, Bracketed(Joined(Enclosed(key), Enclosed(b)), "lbrace", "rbrace"))
      BY <2>1
    <3> QED BY <2>2, <2>3, <3>1, SkipObject
  <2>5. ValueEnd(s, p) = NestedEnd(s, c + 2)
    BY <1>0, <2>1 DEF ValueEnd
  <2> QED BY <1>0, <1>5, <2>4, <2>5
<1> QED BY <1>2, <1>3, <1>4, <1>5, GoodIs

-----------------------------------------------------------------------------
(* Reading a key *)

\* What the line agrees with can be cut out of it.
LEMMA Span ==
  ASSUME NEW s \in Seq(Wire), NEW c \in Nat, NEW x \in Seq(Wire), c + Len(x) <= Len(s), Agree(s, c, x)
  PROVE  SubSeq(s, c + 1, c + Len(x)) = x
<1> DEFINE t == SubSeq(s, c + 1, c + Len(x))
<1>0. PICK n \in Nat : n = Len(x)
  OBVIOUS
<1>1. t \in Seq(Wire) /\ Len(t) = n /\ \A i \in 1 .. n : t[i] = s[c + i]
  <2>1. c + 1 \in Nat /\ c + n \in Nat /\ c + n <= Len(s)
    BY <1>0
  <2> QED BY <1>0, <2>1
<1>2. \A i \in 1 .. n : t[i] = x[i]
  <2>1. \A i \in 1 .. n : c + i <= Len(s)
    BY <1>0
  <2> QED BY <1>0, <1>1, <2>1 DEF Agree
<1> HIDE DEF t
<1>3. t = x
  BY <1>0, <1>1, <1>2, SeqSame
<1> QED BY <1>3 DEF t

LEMMA KeyQuoted ==
  ASSUME NEW s \in Seq(Wire), NEW c \in Nat, c < Len(s), NEW key \in Seq(Letters), key # <<>>,
         NEW k \in Nat, k = Len(key) + 2, Agree(s, c, Enclosed(key))
  PROVE  KeyAt(s, c + 1) = IF c + k <= Len(s) THEN <<key, c + k + 1>> ELSE <<<<>>, 0>>
<1>1. key \in Seq(Wire) /\ Escaped(key) = key /\ Len(key) \in Nat
  BY PlainKey
<1>2. PICK p \in Nat : p = c + 1 /\ p + 1 = c + 2
  OBVIOUS
<1>3. s[p] = "quote"
  <2>1. Enclosed(key)[1] = "quote" /\ Len(Enclosed(key)) = k
    BY <1>1, EnclosedIs
  <2>2. 1 \in 1 .. Len(Enclosed(key)) /\ c + 1 <= Len(s)
    BY <1>1, <2>1
  <2> QED BY <1>2, <2>1, <2>2 DEF Agree
<1>4. StringEnd(s, p + 1) = IF c + k <= Len(s) THEN c + k + 1 ELSE 0
  <2>1. StringEnd(s, c + 2) = IF c + Len(key) + 2 <= Len(s) THEN c + Len(key) + 3 ELSE 0
    <3>1. StringEnd(s, c + 2) = IF c + Len(Escaped(key)) + 2 <= Len(s) THEN c + Len(Escaped(key)) + 3 ELSE 0
      BY <1>1, SkipString DEF Enclosed
    <3> QED BY <1>1, <3>1
  <2>2. c + Len(key) + 2 = c + k /\ c + Len(key) + 3 = c + k + 1
    BY <1>1
  <2> QED BY <1>2, <2>1, <2>2
<1>5. CASE c + k <= Len(s)
  <2>1. Agree(s, c + 1, key)
    <3> DEFINE h == <<"quote">> \o key
    <3>1. <<"quote">> \in Seq(Wire) /\ Len(<<"quote">>) = 1
      BY WireChars, OneChar
    <3>2. h \in Seq(Wire)
      BY <1>1, <3>1, Cat
    <3>3. Agree(s, c, h \o <<"quote">>)
      BY <1>1 DEF Enclosed
    <3>4. Agree(s, c, h)
      <4> HIDE DEF h
      <4> QED BY <3>1, <3>2, <3>3, AgreeCat
    <3>5. Agree(s, c + Len(<<"quote">>), key)
      BY <1>1, <3>1, <3>4, AgreeCat
    <3> QED BY <3>1, <3>5
  <2>2. SubSeq(s, p + 1, p + Len(key)) = key
    <3>1. p + Len(key) <= Len(s)
      BY <1>1, <1>2, <1>5
    <3> QED BY <1>1, <1>2, <2>1, <3>1, Span
  <2>3. PICK e \in Nat : e = StringEnd(s, p + 1) /\ e = c + k + 1
    BY <1>4, <1>5
  <2>4. e \notin {0, p} /\ e - 2 = p + Len(key)
    BY <1>1, <1>2, <2>3
  <2>5. KeyAt(s, p) = <<SubSeq(s, p + 1, e - 2), e>>
    BY <1>3, <2>3, <2>4 DEF KeyAt
  <2> QED BY <1>2, <1>5, <2>2, <2>3, <2>4, <2>5
<1>6. CASE ~(c + k <= Len(s))
  <2>1. StringEnd(s, p + 1) = 0
    BY <1>4, <1>6
  <2>2. KeyAt(s, p) = <<<<>>, 0>>
    BY <1>3, <2>1 DEF KeyAt
  <2> QED BY <1>2, <1>6, <2>2
<1> QED BY <1>5, <1>6

LEMMA KeyBare ==
  ASSUME NEW s \in Seq(Wire), NEW c \in Nat, c < Len(s), NEW key \in Seq(Letters), key # <<>>,
         NEW k \in Nat, k = Len(key), Agree(s, c, key), c + k + 1 <= Len(s) => s[c + k + 1] = "colon"
  PROVE  KeyAt(s, c + 1) = IF c + k <= Len(s) THEN <<key, c + k + 1>>
                           ELSE <<SubSeq(s, c + 1, Len(s)), Len(s) + 1>>
<1>1. key \in Seq(Wire) /\ k >= 1 /\ \A i \in 1 .. k : key[i] \in Letters
  BY PlainKey
<1>2. PICK p \in Nat : p = c + 1 /\ p <= Len(s)
  OBVIOUS
<1>3. PICK n \in Nat : n = Len(s)
  OBVIOUS
<1>4. PICK e \in Nat : e = IF c + k <= n THEN c + k + 1 ELSE n + 1
  OBVIOUS
<1>5. e \in p .. n + 1 /\ e # p /\ e # 0
  BY <1>1, <1>2, <1>3, <1>4
<1>6. \A j \in p .. e - 1 : s[j] \in Letters
  <2> SUFFICES ASSUME NEW j \in p .. e - 1 PROVE s[j] \in Letters
    OBVIOUS
  <2>1. PICK i \in 1 .. k : j = c + i /\ j <= Len(s)
    <3>1. j - c \in 1 .. k /\ j = c + (j - c) /\ j <= Len(s)
      BY <1>2, <1>3, <1>4, <1>5
    <3> QED BY <3>1
  <2>2. s[j] = key[i]
    BY <2>1 DEF Agree
  <2> QED BY <1>1, <2>2
<1>7. e > n \/ s[e] \notin Letters
  <2>1. CASE e <= n
    <3>1. e = c + k + 1
      BY <1>4, <2>1
    <3>2. s[e] = "colon"
      BY <1>3, <2>1, <3>1
    <3> QED BY <3>2 DEF Letters
  <2> QED BY <2>1, <1>5
<1> DEFINE Ends(i) == (i > n \/ s[i] \notin Letters) /\ \A j \in p .. i - 1 : s[j] \in Letters
<1>8. \A i \in p .. n + 1 : Ends(i) => i = e
  <2> SUFFICES ASSUME NEW i \in p .. n + 1, Ends(i) PROVE i = e
    OBVIOUS
  <2>1. ~(i < e)
    <3> SUFFICES ASSUME i < e PROVE FALSE
      OBVIOUS
    <3>1. i \in p .. e - 1 /\ i <= n
      BY <1>5
    <3> QED BY <1>6, <3>1
  <2>2. ~(e < i)
    <3> SUFFICES ASSUME e < i PROVE FALSE
      OBVIOUS
    <3>1. e \in p .. i - 1 /\ e <= n
      BY <1>5
    <3> QED BY <1>7, <3>1
  <2> QED BY <1>5, <2>1, <2>2
<1>9. (CHOOSE i \in p .. n + 1 : Ends(i)) = e
  <2>1. Ends(e)
    BY <1>6, <1>7
  <2> HIDE DEF Ends
  <2> QED BY <1>5, <1>8, <2>1
<1>10. s[p] # "quote"
  <2>1. s[p] \in Letters
    BY <1>5, <1>6
  <2> QED BY <2>1 DEF Letters
<1>11. KeyAt(s, p) = <<SubSeq(s, p, e - 1), e>>
  <2>1. e \notin {0, p}
    BY <1>5
  <2> QED BY <1>3, <1>9, <1>10, <2>1 DEF KeyAt
<1>12. CASE c + k <= n
  <2>1. e - 1 = c + Len(key) /\ c + Len(key) <= Len(s)
    BY <1>3, <1>4, <1>12
  <2>2. SubSeq(s, c + 1, c + Len(key)) = key
    BY <1>1, <2>1, Span
  <2> QED BY <1>2, <1>3, <1>4, <1>11, <1>12, <2>1, <2>2
<1>13. CASE ~(c + k <= n)
  <2>1. e = n + 1 /\ e - 1 = n
    BY <1>4, <1>13
  <2> QED BY <1>2, <1>3, <1>11, <1>13, <2>1
<1> QED BY <1>3, <1>12, <1>13

\* Of a key that is there whole the reader gets the key and its end; of one the
\* tear is in, or behind, nothing it can go on with.
LEMMA KeyRead ==
  ASSUME NEW s \in Seq(Wire), NEW c \in Nat, c < Len(s), NEW key \in Seq(Letters), key # <<>>,
         NEW bare \in BOOLEAN, NEW k \in Nat, k = Len(KeyText(key, bare)), Agree(s, c, KeyText(key, bare)),
         c + k + 1 <= Len(s) => s[c + k + 1] = "colon"
  PROVE  /\ c + k + 1 <= Len(s) => KeyAt(s, c + 1) = <<key, c + k + 1>>
         /\ ~(c + k + 1 <= Len(s)) => KeyAt(s, c + 1)[2] = 0 \/ KeyAt(s, c + 1)[2] > Len(s)
<1>1. CASE bare
  <2>1. KeyText(key, bare) = key
    BY <1>1, KeyTextIs
  <2>2. KeyAt(s, c + 1) = IF c + k <= Len(s) THEN <<key, c + k + 1>>
                          ELSE <<SubSeq(s, c + 1, Len(s)), Len(s) + 1>>
    BY <2>1, KeyBare
  <2> QED BY <2>2
<1>2. CASE ~bare
  <2>1. KeyText(key, bare) = Enclosed(key) /\ k = Len(key) + 2
    BY <1>2, KeyTextIs
  <2>2. KeyAt(s, c + 1) = IF c + k <= Len(s) THEN <<key, c + k + 1>> ELSE <<<<>>, 0>>
    BY <2>1, KeyQuoted
  <2> QED BY <2>2
<1> QED BY <1>1, <1>2

-----------------------------------------------------------------------------
(* Taking a string *)

LEMMA Forward ==
  ASSUME NEW a \in Nat, NEW N \in Nat, NEW D, D = a .. N, NEW V, NEW stop, NEW base \in [D -> V], NEW next \in [D -> D],
         NEW act \in [D \X V -> V], \A i \in D \ stop : next[i] > i
  PROVE  \E f \in [D -> V] : Follows(f, D, stop, base, next, act)
<1> DEFINE rank == [i \in D |-> N - i]
<1>1. rank \in [D -> 0 .. N]
  OBVIOUS
<1>2. \A x \in D \ stop : rank[next[x]] < rank[x]
  <2> SUFFICES ASSUME NEW x \in D \ stop PROVE rank[next[x]] < rank[x]
    OBVIOUS
  <2>1. x \in D /\ next[x] \in D /\ next[x] > x
    OBVIOUS
  <2>2. rank[next[x]] = N - next[x] /\ rank[x] = N - x
    BY <2>1
  <2>3. N - next[x] < N - x
    BY <2>1
  <2> QED BY <2>2, <2>3
<1> HIDE DEF rank
<1> QED BY <1>1, <1>2, Recursion

\* The loop of Decoded.
Decodes(f, s) ==
  /\ f[Len(s) + 1] = <<>>
  /\ \A i \in 1 .. Len(s) :
       f[i] = IF s[i] = "\\" /\ i < Len(s) THEN <<s[i + 1]>> \o f[i + 2] ELSE <<s[i]>> \o f[i + 1]

LEMMA DecodedIs ==
  ASSUME NEW s \in Seq(Wire)
  PROVE  \E f : Decodes(f, s) /\ Decoded(s) = f[1]
<1> DEFINE n == Len(s)
           D == 1 .. n + 1
           V == Seq(Wire)
           jump(i) == s[i] = "\\" /\ i < n
           stop == {n + 1}
           base == [i \in D |-> <<>>]
           next == [i \in D |-> IF i > n THEN i ELSE IF jump(i) THEN i + 2 ELSE i + 1]
           head == [i \in D |-> IF i > n THEN <<>> ELSE IF jump(i) THEN <<s[i + 1]>> ELSE <<s[i]>>]
           act == [z \in D \X V |-> head[z[1]] \o z[2]]
           Body(f) == [i \in 1 .. Len(s) + 1 |->
                         IF i > Len(s) THEN <<>>
                         ELSE IF s[i] = "\\" /\ i < Len(s) THEN <<s[i + 1]>> \o f[i + 2]
                         ELSE <<s[i]>> \o f[i + 1]]
           f == CHOOSE f : f = Body(f)
<1>0. n \in Nat /\ \A i \in 1 .. n : s[i] \in Wire
  OBVIOUS
<1>1. /\ base \in [D -> V] /\ next \in [D -> D] /\ \A i \in D \ stop : next[i] > i
  <2>1. base \in [D -> V]
    OBVIOUS
  <2>2. ASSUME NEW i \in D PROVE next[i] \in D /\ (i \notin stop => next[i] > i)
    BY <1>0
  <2>3. next \in [D -> D]
    BY <2>2
  <2> HIDE DEF D, next, stop
  <2> QED BY <2>1, <2>2, <2>3
<1>2. \A i \in D : head[i] \in V
  <2> SUFFICES ASSUME NEW i \in D PROVE head[i] \in V
    OBVIOUS
  <2>1. CASE i > n
    BY <2>1
  <2>2. CASE i <= n /\ jump(i)
    <3>1. s[i + 1] \in Wire
      BY <1>0, <2>2
    <3>2. <<s[i + 1]>> \in V
      BY <3>1
    <3> QED BY <1>0, <2>2, <3>2
  <2>3. CASE i <= n /\ ~jump(i)
    <3>1. s[i] \in Wire
      BY <1>0, <2>3
    <3>2. <<s[i]>> \in V
      BY <3>1
    <3> QED BY <1>0, <2>3, <3>2
  <2> QED BY <1>0, <2>1, <2>2, <2>3
<1>3. act \in [D \X V -> V]
  <2> HIDE DEF head, D, V
  <2>1. ASSUME NEW i \in D, NEW t \in V PROVE head[i] \o t \in V
    BY <1>2, Cat DEF V
  <2> QED BY <2>1
<1>4. PICK g \in [D -> V] : Follows(g, D, stop, base, next, act)
  <2>1. 1 \in Nat /\ n + 1 \in Nat /\ D = 1 .. n + 1
    BY <1>0
  <2> HIDE DEF D, V, stop, base, next, act, n
  <2> QED BY <1>1, <1>3, <2>1, Forward
<1>5. ASSUME NEW i \in D PROVE g[i] = Body(g)[i]
  <2>1. CASE i > n
    <3>1. i \in stop /\ base[i] = <<>> /\ Body(g)[i] = <<>>
      BY <1>0, <2>1
    <3> HIDE DEF D, V, stop, base, next, act, n, Body
    <3> QED BY <1>4, <3>1 DEF Follows
  <2>2. CASE i <= n
    <3>1. i \notin stop /\ next[i] \in D
      BY <1>0, <1>1, <2>2
    <3>2. g[i] = act[<<i, g[next[i]]>>]
      <4> HIDE DEF D, V, stop, base, next, act, n
      <4> QED BY <1>4, <3>1 DEF Follows
    <3>3. act[<<i, g[next[i]]>>] = head[i] \o g[next[i]]
      <4>1. g[next[i]] \in V
        <5> HIDE DEF D, V, next
        <5> QED BY <3>1
      <4> HIDE DEF D, V, next, head
      <4> QED BY <4>1
    <3>4. Body(g)[i] = head[i] \o g[next[i]]
      <4>1. CASE jump(i)
        <5>1. head[i] = <<s[i + 1]>> /\ next[i] = i + 2
          BY <1>0, <2>2, <4>1
        <5>2. Body(g)[i] = <<s[i + 1]>> \o g[i + 2]
          BY <1>0, <2>2, <4>1
        <5> HIDE DEF head, next, Body
        <5> QED BY <5>1, <5>2
      <4>2. CASE ~jump(i)
        <5>1. head[i] = <<s[i]>> /\ next[i] = i + 1
          BY <1>0, <2>2, <4>2
        <5>2. Body(g)[i] = <<s[i]>> \o g[i + 1]
          BY <1>0, <2>2, <4>2
        <5> HIDE DEF head, next, Body
        <5> QED BY <5>1, <5>2
      <4> QED BY <4>1, <4>2
    <3> HIDE DEF act, head, next, Body
    <3> QED BY <3>2, <3>3, <3>4
  <2> QED BY <1>0, <2>1, <2>2
<1>6. g = Body(g)
  <2>1. Body(g) = [i \in D |-> Body(g)[i]] /\ g = [i \in D |-> g[i]]
    BY <1>4
  <2> HIDE DEF Body, D
  <2> QED BY <1>5, <2>1
<1>7. f = Body(f)
  <2> HIDE DEF Body
  <2> QED BY <1>6
<1>8. Decoded(s) = f[1]
  BY DEF Decoded
<1> HIDE DEF f
<1>9. Decodes(f, s)
  <2>1. Body(f)[n + 1] = <<>>
    BY <1>0
  <2>2. ASSUME NEW i \in 1 .. n
        PROVE  Body(f)[i] = IF s[i] = "\\" /\ i < n THEN <<s[i + 1]>> \o f[i + 2] ELSE <<s[i]>> \o f[i + 1]
    BY <1>0
  <2> HIDE DEF Body
  <2>3. f[n + 1] = <<>>
    BY <1>7, <2>1
  <2>4. \A i \in 1 .. n :
          f[i] = IF s[i] = "\\" /\ i < n THEN <<s[i + 1]>> \o f[i + 2] ELSE <<s[i]>> \o f[i + 1]
    BY <1>7, <2>2
  <2> QED BY <2>3, <2>4 DEF Decodes
<1> QED BY <1>8, <1>9

LEMMA Peel ==
  ASSUME NEW S, NEW b \in Seq(S), NEW k \in 1 .. Len(b)
  PROVE  SubSeq(b, k, Len(b)) = <<b[k]>> \o SubSeq(b, k + 1, Len(b))
<1> DEFINE m == Len(b)
           t == SubSeq(b, k, m)
           u == SubSeq(b, k + 1, m)
           h == <<b[k]>>
<1>0. m \in Nat /\ k \in Nat /\ k >= 1 /\ k <= m /\ b[k] \in S
  OBVIOUS
<1>1. t \in Seq(S) /\ Len(t) = m - k + 1 /\ \A i \in 1 .. Len(t) : t[i] = b[k - 1 + i]
  BY <1>0
<1>2. u \in Seq(S) /\ Len(u) = m - k /\ \A i \in 1 .. Len(u) : u[i] = b[k + i]
  BY <1>0
<1>3. h \in Seq(S) /\ Len(h) = 1 /\ h[1] = b[k]
  BY <1>0
<1> HIDE DEF t, u, h, m
<1>4. /\ h \o u \in Seq(S) /\ Len(h \o u) = Len(h) + Len(u)
      /\ \A i \in 1 .. Len(h) : (h \o u)[i] = h[i]
      /\ \A j \in 1 .. Len(u) : (h \o u)[Len(h) + j] = u[j]
  <2>1. h \in Seq(S) /\ u \in Seq(S)
    BY <1>2, <1>3
  <2> QED BY <2>1, Cat
<1>5. Len(t) = Len(h \o u)
  BY <1>0, <1>1, <1>2, <1>3, <1>4
<1>6. ASSUME NEW i \in 1 .. Len(t) PROVE t[i] = (h \o u)[i]
  <2>1. CASE i = 1
    <3>1. k - 1 + i = k /\ 1 \in 1 .. Len(h)
      BY <1>0, <1>3, <2>1
    <3>2. t[i] = b[k]
      BY <1>1, <3>1
    <3>3. (h \o u)[1] = h[1]
      BY <1>4, <3>1
    <3> QED BY <1>3, <2>1, <3>2, <3>3
  <2>2. CASE i > 1
    <3>1. PICK j \in 1 .. Len(u) : i = 1 + j /\ k - 1 + i = k + j
      <4>1. i - 1 \in 1 .. Len(u) /\ i = 1 + (i - 1) /\ k - 1 + i = k + (i - 1)
        BY <1>0, <1>1, <1>2, <2>2
      <4> QED BY <4>1
    <3>2. t[i] = b[k + j] /\ u[j] = b[k + j]
      BY <1>1, <1>2, <3>1
    <3>3. (h \o u)[i] = u[j]
      <4>1. (h \o u)[Len(h) + j] = u[j]
        BY <1>4
      <4>2. Len(h) + j = i
        BY <1>3, <3>1
      <4> QED BY <4>1, <4>2
    <3> QED BY <3>2, <3>3
  <2>3. i = 1 \/ i > 1
    <3>1. i \in 1 .. Len(t)
      BY <1>6
    <3> QED BY <3>1
  <2> QED BY <2>1, <2>2, <2>3
<1>7. t = h \o u
  BY <1>1, <1>4, <1>5, <1>6, SeqSame
<1> QED BY <1>7 DEF t, h, u, m

\* What was escaped comes back as it was.
LEMMA Unescaped ==
  ASSUME NEW b \in Seq(Wire)
  PROVE  Decoded(Escaped(b)) = b
<1> DEFINE s == Escaped(b)
           q == EscapedBytes(b)
           m == Len(b)
<1>1. /\ q \in Seq(Seq(Wire)) /\ Len(q) = m /\ m \in Nat /\ s \in Seq(Wire)
      /\ \E o : Strung(s, q, o)
  BY EscapedIs
<1>2. \A k \in 1 .. m : q[k] = IF b[k] \in {"quote", "\\"} THEN <<"\\", b[k]>> ELSE <<b[k]>>
  BY DEF EscapedBytes
<1> HIDE DEF s, q
<1>3. PICK o : Strung(s, q, o)
  BY <1>1
<1>4. PartEnds(o, q) /\ o[0] = 0 /\ Len(s) = o[m]
  BY <1>1, <1>3 DEF Strung, PartEnds
<1>5. PICK n \in Nat : n = Len(s)
  BY <1>1
<1>6. \A k \in 0 .. m : o[k] \in Nat /\ o[k] <= n
  <2>1. m \in 0 .. m
    BY <1>1
  <2> QED BY <1>1, <1>4, <1>5, <2>1, OffsetsGrow
<1>7. PICK f : Decodes(f, s) /\ Decoded(s) = f[1]
  BY <1>1, DecodedIs
<1> DEFINE D == 0 .. m
           rank == [k \in D |-> m - k]
           G == {k \in D : f[o[k] + 1] = SubSeq(b, k + 1, m)}
<1>8. \A k \in D : rank[k] \in Nat
  BY <1>1
<1>9. ASSUME NEW k \in D, \A y \in D : rank[y] < rank[k] => y \in G PROVE k \in G
  <2>1. CASE k = m
    <3>1. f[n + 1] = <<>>
      BY <1>5, <1>7 DEF Decodes
    <3>2. SubSeq(b, m + 1, m) = <<>>
      BY <1>1
    <3>3. o[k] + 1 = n + 1 /\ k + 1 = m + 1
      BY <1>4, <1>5, <2>1
    <3> HIDE DEF m
    <3> QED BY <3>1, <3>2, <3>3
  <2>2. CASE k < m
    <3>1. PICK K \in 1 .. m : K = k + 1 /\ K - 1 = k /\ K \in D
      BY <1>1, <2>2
    <3>2. PICK u \in Nat : u = o[k] /\ u <= n
      BY <1>6
    <3>3. PICK w \in Nat : w = o[K] /\ w <= n
      BY <1>6, <3>1
    <3>4. w = u + Len(q[K]) /\ \A j \in 1 .. Len(q[K]) : s[u + j] = q[K][j]
      <4>1. o[K] = o[K - 1] + Len(q[K]) /\ \A j \in 1 .. Len(q[K]) : s[o[K - 1] + j] = q[K][j]
        BY <1>1, <1>3, <1>4, <3>1 DEF Strung, PartEnds
      <4> QED BY <3>1, <3>2, <3>3, <4>1
    <3>5. f[w + 1] = SubSeq(b, K + 1, m)
      <4>1. rank[K] < rank[k]
        BY <1>1, <3>1
      <4>2. K \in G
        <5> HIDE DEF rank, G
        <5> QED BY <1>9, <3>1, <4>1
      <4> QED BY <3>3, <4>2
    <3>6. SubSeq(b, K, m) = <<b[K]>> \o SubSeq(b, K + 1, m)
      BY <3>1, Peel
    <3>7. f[u + 1] = <<b[K]>> \o f[w + 1]
      <4>1. CASE b[K] \in {"quote", "\\"}
        <5>1. q[K] = <<"\\", b[K]>>
          BY <1>2, <3>1, <4>1
        <5>2. Len(q[K]) = 2 /\ q[K][1] = "\\" /\ q[K][2] = b[K]
          BY <5>1
        <5>3. s[u + 1] = "\\" /\ s[u + 2] = b[K] /\ w = u + 2
          BY <3>4, <5>2
        <5>4. u + 1 \in 1 .. n /\ u + 1 < n /\ (u + 1) + 1 = u + 2 /\ (u + 1) + 2 = w + 1
          BY <3>3, <5>3
        <5>5. f[u + 1] = <<s[(u + 1) + 1]>> \o f[(u + 1) + 2]
          BY <1>5, <1>7, <5>3, <5>4 DEF Decodes
        <5> QED BY <5>3, <5>4, <5>5
      <4>2. CASE b[K] \notin {"quote", "\\"}
        <5>1. q[K] = <<b[K]>>
          BY <1>2, <3>1, <4>2
        <5>2. Len(q[K]) = 1 /\ q[K][1] = b[K]
          BY <5>1
        <5>3. s[u + 1] = b[K] /\ w = u + 1
          BY <3>4, <5>2
        <5>4. u + 1 \in 1 .. n /\ (u + 1) + 1 = w + 1
          BY <3>3, <5>3
        <5>5. f[u + 1] = <<s[u + 1]>> \o f[(u + 1) + 1]
          BY <1>5, <1>7, <4>2, <5>3, <5>4 DEF Decodes
        <5> QED BY <5>3, <5>4, <5>5
      <4> QED BY <4>1, <4>2
    <3>8. f[u + 1] = SubSeq(b, K, m)
      BY <3>5, <3>6, <3>7
    <3> QED BY <3>1, <3>2, <3>8
  <2> QED BY <1>1, <2>1, <2>2
<1>10. D \subseteq G
  <2>1. \A x \in D : (\A y \in D : rank[y] < rank[x] => y \in G) => x \in G
    BY <1>9
  <2> HIDE DEF D, G, rank
  <2> QED BY <1>8, <2>1, RankInduction
<1>11. f[1] = SubSeq(b, 1, m)
  <2>1. 0 \in D
    BY <1>1
  <2>2. 0 \in G
    <3> HIDE DEF D, G
    <3> QED BY <1>10, <2>1
  <2>3. f[o[0] + 1] = SubSeq(b, 0 + 1, m)
    BY <2>2
  <2>4. o[0] + 1 = 1 /\ 0 + 1 = 1
    BY <1>4
  <2> QED BY <2>3, <2>4
<1>12. SubSeq(b, 1, m) = b
  OBVIOUS
<1> QED BY <1>7, <1>11, <1>12 DEF s

\* Where the bytes of a character are.
CharAt(x, o, k) ==
  /\ o[k - 1] \in Nat /\ o[k] \in Nat /\ o[k] <= Len(Bytes(x))
  /\ IF x[k] = "wide"
     THEN /\ o[k] = o[k - 1] + 3 /\ Bytes(x)[o[k - 1] + 1] = "lead"
          /\ Bytes(x)[o[k - 1] + 2] = "tail" /\ Bytes(x)[o[k - 1] + 3] = "tail"
     ELSE o[k] = o[k - 1] + 1 /\ Bytes(x)[o[k - 1] + 1] \notin {"lead", "tail"}

LEMMA CharIs ==
  ASSUME NEW x \in Content, NEW o, Strung(Bytes(x), Chars(x), o), NEW k \in 1 .. Len(x)
  PROVE  CharAt(x, o, k)
<1> DEFINE q == Chars(x)
           s == Bytes(x)
<1>1. /\ q \in Seq(Seq(Wire)) /\ Len(q) = Len(x) /\ s \in Seq(Wire) /\ Len(x) \in Nat
      /\ q[k] = IF x[k] = "wide" THEN <<"lead", "tail", "tail">> ELSE <<x[k]>>
  BY BytesIs DEF Content
<1> HIDE DEF q, s
<1>2. Strung(s, q, o)
  BY DEF s, q
<1>3. PartEnds(o, q) /\ Len(s) = o[Len(q)] /\ \A j \in 1 .. Len(q[k]) : s[o[k - 1] + j] = q[k][j]
  BY <1>1, <1>2 DEF Strung
<1>4. o[k] = o[k - 1] + Len(q[k])
  BY <1>1, <1>3 DEF PartEnds
<1>5. o[k - 1] \in Nat /\ o[k] \in Nat /\ o[k] <= Len(s)
  <2>1. k \in 0 .. Len(q) /\ k - 1 \in 0 .. Len(q) /\ Len(q) \in 0 .. Len(q) /\ k <= Len(q)
    BY <1>1
  <2> QED BY <1>1, <1>3, <2>1, OffsetsGrow
<1>6. CASE x[k] = "wide"
  <2>1. q[k] = <<"lead", "tail", "tail">>
    BY <1>1, <1>6
  <2>2. Len(q[k]) = 3 /\ q[k][1] = "lead" /\ q[k][2] = "tail" /\ q[k][3] = "tail"
    BY <2>1
  <2>3. s[o[k - 1] + 1] = "lead" /\ s[o[k - 1] + 2] = "tail" /\ s[o[k - 1] + 3] = "tail"
    BY <1>3, <2>2
  <2> QED BY <1>4, <1>5, <1>6, <2>2, <2>3 DEF CharAt, s
<1>7. CASE x[k] # "wide"
  <2>1. q[k] = <<x[k]>>
    BY <1>1, <1>7
  <2>2. Len(q[k]) = 1 /\ q[k][1] = x[k]
    BY <2>1
  <2>3. s[o[k - 1] + 1] = x[k]
    BY <1>3, <2>2
  <2>4. x[k] \notin {"lead", "tail"}
    <3>1. x[k] \in Plain \union {"wide"}
      BY DEF Content
    <3> QED BY <3>1 DEF Plain, Letters
  <2> QED BY <1>4, <1>5, <1>7, <2>2, <2>3, <2>4 DEF CharAt, s
<1> QED BY <1>6, <1>7

LEMMA BytesOfPrefix ==
  ASSUME NEW x \in Content, NEW o, Strung(Bytes(x), Chars(x), o), NEW k \in 0 .. Len(x)
  PROVE  /\ SubSeq(x, 1, k) \in Content /\ o[k] \in 0 .. Len(Bytes(x))
         /\ Bytes(SubSeq(x, 1, k)) = SubSeq(Bytes(x), 1, o[k])
         /\ Len(Bytes(SubSeq(x, 1, k))) = o[k]
<1> DEFINE y == SubSeq(x, 1, k)
<1>1. k \in Nat /\ Len(x) \in Nat /\ k <= Len(x)
  BY DEF Content
<1>2. y \in Content /\ Len(y) = k /\ DOMAIN y = 1 .. k /\ \A i \in 1 .. k : y[i] = x[i]
  BY <1>1 DEF Content
<1>3. /\ Chars(x) \in Seq(Seq(Wire)) /\ Len(Chars(x)) = Len(x) /\ Bytes(x) \in Seq(Wire)
      /\ \A i \in 1 .. Len(x) : Chars(x)[i] = IF x[i] = "wide" THEN <<"lead", "tail", "tail">> ELSE <<x[i]>>
  BY BytesIs
<1> HIDE DEF y
<1>4. /\ Chars(y) \in Seq(Seq(Wire)) /\ Len(Chars(y)) = k /\ Bytes(y) = FlattenSeq(Chars(y))
      /\ \A i \in 1 .. k : Chars(y)[i] = IF y[i] = "wide" THEN <<"lead", "tail", "tail">> ELSE <<y[i]>>
  BY <1>2, BytesIs
<1> DEFINE p == SubSeq(Chars(x), 1, k)
<1>5. p \in Seq(Seq(Wire)) /\ Len(p) = k /\ \A i \in 1 .. k : p[i] = Chars(x)[i]
  BY <1>1, <1>3
<1>6. \A i \in 1 .. k : Chars(y)[i] = p[i]
  <2> SUFFICES ASSUME NEW i \in 1 .. k PROVE Chars(y)[i] = p[i]
    OBVIOUS
  <2>1. i \in 1 .. Len(x)
    BY <1>1
  <2> HIDE DEF p
  <2> QED BY <1>2, <1>3, <1>4, <1>5, <2>1
<1>7. Chars(y) = p
  <2> HIDE DEF p
  <2> QED BY <1>4, <1>5, <1>6, SeqSame
<1>8. o[k] \in 0 .. Len(Bytes(x)) /\ FlattenSeq(SubSeq(Chars(x), 1, k)) = SubSeq(Bytes(x), 1, o[k])
  <2>1. k \in 0 .. Len(Chars(x))
    BY <1>1, <1>3
  <2> QED BY <1>3, <2>1, FlatPrefix
<1>9. Len(SubSeq(Bytes(x), 1, o[k])) = o[k]
  BY <1>3, <1>8
<1> QED BY <1>2, <1>4, <1>7, <1>8, <1>9 DEF y

\* What fits of a text: its characters up to one, and no character more.
FitsTo(x, cap, o, k) ==
  /\ k \in 0 .. Len(x) /\ o[k] < cap /\ (k < Len(x) => o[k + 1] >= cap)
  /\ Fitting(x, cap) = SubSeq(x, 1, k) /\ Fitting(x, cap) \in Content
  /\ o[k] \in 0 .. Len(Bytes(x)) /\ Bytes(Fitting(x, cap)) = SubSeq(Bytes(x), 1, o[k])

LEMMA FittingIs ==
  ASSUME NEW x \in Content, NEW cap \in Nat \ {0}
  PROVE  \E o, k : Strung(Bytes(x), Chars(x), o) /\ FitsTo(x, cap, o, k)
<1>1. PICK o : Strung(Bytes(x), Chars(x), o)
  BY BytesIs
<1> DEFINE m == Len(x)
           fits == {n \in 0 .. m : Len(Bytes(SubSeq(x, 1, n))) < cap}
           k == CHOOSE n \in fits : \A j \in fits : j <= n
           S == {i \in Nat : m - i \in fits}
<1>2. m \in Nat
  BY DEF Content
<1>3. \A n \in 0 .. m : /\ SubSeq(x, 1, n) \in Content /\ o[n] \in 0 .. Len(Bytes(x))
                        /\ Bytes(SubSeq(x, 1, n)) = SubSeq(Bytes(x), 1, o[n])
                        /\ Len(Bytes(SubSeq(x, 1, n))) = o[n]
  BY <1>1, BytesOfPrefix
<1>4. 0 \in fits
  <2>1. 0 \in 0 .. m
    BY <1>2
  <2>2. o[0] = 0
    BY <1>1 DEF Strung, PartEnds
  <2>3. Len(Bytes(SubSeq(x, 1, 0))) = 0
    BY <1>3, <2>1, <2>2
  <2> QED BY <2>1, <2>3
<1>5. \E n \in fits : \A j \in fits : j <= n
  <2>0. fits \subseteq 0 .. m
    OBVIOUS
  <2> HIDE DEF fits
  <2>1. S \in SUBSET Nat /\ m \in S
    BY <1>2, <1>4
  <2>2. PICK i \in S : \A j \in S : i <= j
    <3> HIDE DEF S
    <3>1. S # {}
      BY <2>1
    <3> QED BY <2>1, <3>1, Least
  <2>3. i \in Nat /\ m - i \in fits
    BY <2>2
  <2>4. ASSUME NEW j \in fits PROVE j <= m - i
    <3>1. j \in Nat /\ j <= m
      BY <1>2, <2>0
    <3>2. m - j \in S
      <4>1. m - (m - j) = j /\ m - j \in Nat
        BY <1>2, <3>1
      <4> QED BY <2>4, <4>1
    <3>3. i <= m - j
      BY <2>2, <3>2
    <3> QED BY <1>2, <2>3, <3>1, <3>3
  <2> QED BY <2>3, <2>4
<1>6. k \in fits /\ \A j \in fits : j <= k
  <2> HIDE DEF fits
  <2> QED BY <1>5
<1>7. Fitting(x, cap) = SubSeq(x, 1, k)
  BY DEF Fitting
<1> HIDE DEF k
<1>8. k \in 0 .. m /\ o[k] < cap
  BY <1>3, <1>6
<1>9. k < m => o[k + 1] >= cap
  <2> SUFFICES ASSUME k < m, ~(o[k + 1] >= cap) PROVE FALSE
    OBVIOUS
  <2>1. k + 1 \in 0 .. m /\ ~(k + 1 <= k)
    BY <1>2, <1>8
  <2>2. o[k + 1] \in Nat /\ Len(Bytes(SubSeq(x, 1, k + 1))) = o[k + 1]
    BY <1>3, <2>1
  <2>3. k + 1 \in fits
    BY <2>1, <2>2
  <2> QED BY <1>6, <2>1, <2>3
<1>10. FitsTo(x, cap, o, k)
  BY <1>3, <1>7, <1>8, <1>9 DEF FitsTo
<1> QED BY <1>1, <1>10

LEMMA TrimmedIs ==
  ASSUME NEW s \in Seq(Wire), NEW e \in 0 .. Len(s), e = 0 \/ s[e] # "tail",
         \A j \in e + 1 .. Len(s) : s[j] = "tail"
  PROVE  Trimmed(s) = IF e > 0 /\ s[e] = "lead" /\ Len(s) - e < 2 THEN SubSeq(s, 1, e - 1) ELSE s
<1> DEFINE Ends(i) == (i = 0 \/ s[i] # "tail") /\ \A j \in i + 1 .. Len(s) : s[j] = "tail"
<1>1. Ends(e)
  OBVIOUS
<1>2. \A i \in 0 .. Len(s) : Ends(i) => i = e
  <2> SUFFICES ASSUME NEW i \in 0 .. Len(s), Ends(i) PROVE i = e
    OBVIOUS
  <2>1. ~(i < e)
    <3> SUFFICES ASSUME i < e PROVE FALSE
      OBVIOUS
    <3>1. e \in i + 1 .. Len(s) /\ e # 0
      OBVIOUS
    <3> QED BY <3>1
  <2>2. ~(e < i)
    <3> SUFFICES ASSUME e < i PROVE FALSE
      OBVIOUS
    <3>1. i \in e + 1 .. Len(s) /\ i # 0
      OBVIOUS
    <3> QED BY <3>1
  <2> QED BY <2>1, <2>2
<1>3. (CHOOSE i \in 0 .. Len(s) : Ends(i)) = e
  <2> HIDE DEF Ends
  <2> QED BY <1>1, <1>2
<1> QED BY <1>3 DEF Trimmed

\* A copy that ends anywhere before the first character that does not fit is taken
\* back to the last one that does.
LEMMA TrimmedFits ==
  ASSUME NEW x \in Content, NEW cap \in Nat \ {0}, NEW o, NEW k,
         Strung(Bytes(x), Chars(x), o), FitsTo(x, cap, o, k),
         NEW l \in 0 .. Len(Bytes(x)), l = IF Len(Bytes(x)) < cap - 1 THEN Len(Bytes(x)) ELSE cap - 1
  PROVE  Trimmed(SubSeq(Bytes(x), 1, l)) = Bytes(Fitting(x, cap))
<1> DEFINE s == Bytes(x)
           t == SubSeq(s, 1, l)
<1>1. s \in Seq(Wire) /\ Len(x) \in Nat /\ o[0] = 0 /\ o[Len(x)] = Len(s)
  <2>1. Bytes(x) \in Seq(Wire) /\ Len(Chars(x)) = Len(x) /\ Len(x) \in Nat
    BY BytesIs DEF Content
  <2>2. o[0] = 0 /\ Len(Bytes(x)) = o[Len(Chars(x))]
    BY DEF Strung, PartEnds
  <2> QED BY <2>1, <2>2
<1>2. k \in 0 .. Len(x) /\ o[k] < cap /\ (k < Len(x) => o[k + 1] >= cap) /\ o[k] \in 0 .. Len(s)
  BY DEF FitsTo
<1>3. Bytes(Fitting(x, cap)) = SubSeq(s, 1, o[k])
  BY DEF FitsTo
<1>4. PICK n \in Nat : n = Len(s)
  BY <1>1
<1>5. PICK u \in Nat : u = o[k] /\ u <= n /\ u < cap
  BY <1>2, <1>4
<1>6. l \in Nat /\ l <= n /\ u <= l
  BY <1>4, <1>5
<1>7. t \in Seq(Wire) /\ Len(t) = l /\ \A i \in 1 .. l : t[i] = s[i]
  BY <1>1, <1>4, <1>6
<1> HIDE DEF s, t
<1>8. CASE l = u
  <2>1. t = SubSeq(s, 1, u)
    BY <1>8 DEF t
  <2>2. Trimmed(t) = t
    <3>1. CASE k = 0
      <4>1. l = 0 /\ 0 \in 0 .. Len(t) /\ \A j \in 0 + 1 .. Len(t) : t[j] = "tail"
        BY <1>1, <1>5, <1>7, <1>8, <3>1
      <4>2. Trimmed(t) = IF 0 > 0 /\ t[0] = "lead" /\ Len(t) - 0 < 2 THEN SubSeq(t, 1, 0 - 1) ELSE t
        BY <1>7, <4>1, TrimmedIs
      <4> QED BY <4>2
    <3>2. CASE k > 0
      <4>1. k \in 1 .. Len(x)
        BY <1>1, <1>2, <3>2
      <4>2. CharAt(x, o, k)
        BY <4>1, CharIs
      <4>3. PICK a \in Nat : a = o[k - 1]
        BY <4>2 DEF CharAt
      <4>4. CASE x[k] = "wide"
        <5>1. u = a + 3 /\ s[a + 1] = "lead" /\ s[a + 2] = "tail" /\ s[a + 3] = "tail"
          BY <1>5, <4>2, <4>3, <4>4 DEF CharAt, s
        <5>2. PICK e \in 0 .. Len(t) : e = a + 1 /\ e + 2 = l /\ e > 0
          BY <1>7, <1>8, <5>1
        <5>3. t[e] = "lead" /\ \A j \in e + 1 .. Len(t) : t[j] = "tail"
          <6>1. t[e] = "lead"
            BY <1>7, <5>1, <5>2
          <6>2. \A j \in e + 1 .. Len(t) : (j = a + 2 \/ j = a + 3) /\ t[j] = s[j]
            BY <1>7, <5>1, <5>2
          <6> QED BY <5>1, <6>1, <6>2
        <5>4. ~(Len(t) - e < 2) /\ t[e] # "tail"
          BY <1>7, <5>2, <5>3
        <5> QED BY <1>7, <5>3, <5>4, TrimmedIs
      <4>5. CASE x[k] # "wide"
        <5>1. u = a + 1 /\ s[a + 1] \notin {"lead", "tail"}
          BY <1>5, <4>2, <4>3, <4>5 DEF CharAt, s
        <5>2. PICK e \in 0 .. Len(t) : e = a + 1 /\ e = l /\ e > 0
          BY <1>7, <1>8, <5>1
        <5>3. t[e] \notin {"lead", "tail"} /\ \A j \in e + 1 .. Len(t) : t[j] = "tail"
          BY <1>7, <5>1, <5>2
        <5> QED BY <1>7, <5>3, TrimmedIs
      <4> QED BY <4>4, <4>5
    <3> QED BY <1>1, <1>2, <3>1, <3>2
  <2> QED BY <1>3, <1>5, <2>1, <2>2 DEF s, t
<1>9. CASE l # u
  <2>1. k < Len(x)
    <3>1. k = Len(x) => u = n
      BY <1>1, <1>4, <1>5
    <3> QED BY <1>1, <1>2, <1>6, <1>9, <3>1
  <2>2. PICK K \in 1 .. Len(x) : K = k + 1 /\ K - 1 = k
    BY <1>1, <1>2, <2>1
  <2>3. CharAt(x, o, K)
    BY <2>2, CharIs
  <2>4. PICK w \in Nat : w = o[K] /\ w <= n /\ w >= cap
    BY <1>2, <1>4, <2>1, <2>2, <2>3 DEF CharAt, s
  <2>5. l = cap - 1 /\ l > u /\ l < w
    BY <1>4, <1>5, <1>6, <1>9, <2>4 DEF s
  <2>6. x[K] = "wide" /\ w = u + 3 /\ s[u + 1] = "lead" /\ s[u + 2] = "tail"
    <3>1. x[K] # "wide" => w = u + 1
      BY <1>5, <2>2, <2>3, <2>4 DEF CharAt
    <3>2. x[K] = "wide"
      BY <2>5, <3>1
    <3> QED BY <1>5, <2>2, <2>3, <2>4, <3>2 DEF CharAt, s
  <2>7. PICK e \in 0 .. Len(t) : e = u + 1 /\ e > 0 /\ e - 1 = u /\ l < e + 2
    BY <1>7, <2>5, <2>6
  <2>8. t[e] = "lead" /\ \A j \in e + 1 .. Len(t) : t[j] = "tail"
    <3>1. t[e] = "lead"
      BY <1>7, <2>6, <2>7
    <3>2. \A j \in e + 1 .. Len(t) : j = u + 2 /\ t[j] = s[j]
      BY <1>7, <2>5, <2>6, <2>7
    <3> QED BY <2>6, <3>1, <3>2
  <2>9. Trimmed(t) = SubSeq(t, 1, u)
    <3>1. Len(t) - e < 2 /\ t[e] # "tail"
      BY <1>7, <2>7, <2>8
    <3>2. Trimmed(t) = SubSeq(t, 1, e - 1)
      BY <1>7, <2>7, <2>8, <3>1, TrimmedIs
    <3> QED BY <2>7, <3>2
  <2>10. SubSeq(t, 1, u) = SubSeq(s, 1, u)
    <3>1. u <= l /\ l <= Len(s)
      BY <1>4, <1>6
    <3>2. SubSeq(t, 1, u) \in Seq(Wire) /\ Len(SubSeq(t, 1, u)) = u /\ \A i \in 1 .. u : SubSeq(t, 1, u)[i] = s[i]
      <4>1. u <= Len(t) /\ t \in Seq(Wire) /\ u \in Nat
        BY <1>5, <1>7, <3>1
      <4>2. SubSeq(t, 1, u) \in Seq(Wire) /\ Len(SubSeq(t, 1, u)) = u /\ \A i \in 1 .. u : SubSeq(t, 1, u)[i] = t[i]
        BY <4>1
      <4>3. \A i \in 1 .. u : t[i] = s[i]
        BY <1>5, <1>6, <1>7, <3>1
      <4> QED BY <4>2, <4>3
    <3>3. SubSeq(s, 1, u) \in Seq(Wire) /\ Len(SubSeq(s, 1, u)) = u /\ \A i \in 1 .. u : SubSeq(s, 1, u)[i] = s[i]
      BY <1>1, <3>1
    <3> DEFINE y == SubSeq(t, 1, u)
               z == SubSeq(s, 1, u)
    <3> HIDE DEF y, z
    <3>4. y = z
      BY <3>2, <3>3, SeqSame DEF y, z
    <3> QED BY <3>4 DEF y, z
  <2> QED BY <1>3, <1>5, <2>9, <2>10 DEF s, t
<1> QED BY <1>8, <1>9

\* The value of a string, in a buffer of a size, is what fits of its text.
LEMMA StringTaken ==
  ASSUME NEW x \in Content, NEW cap \in Nat \ {0}
  PROVE  ValueString(Enclosed(Bytes(x)), cap) = Bytes(Fitting(x, cap))
<1> DEFINE s == Bytes(x)
           l == IF Len(s) < cap - 1 THEN Len(s) ELSE cap - 1
<1>1. s \in Seq(Wire) /\ Len(s) \in Nat
  <2>1. s \in Seq(Wire)
    BY BytesIs
  <2> HIDE DEF s
  <2> QED BY <2>1
<1>2. SubSeq(Enclosed(s), 2, Len(Enclosed(s)) - 1) = Escaped(s)
  BY <1>1, EnclosedIs
<1>3. Decoded(Escaped(s)) = s
  BY <1>1, Unescaped
<1>4. ValueString(Enclosed(s), cap) = Trimmed(SubSeq(s, 1, l))
  BY <1>2, <1>3 DEF ValueString
<1>5. PICK o, k : Strung(Bytes(x), Chars(x), o) /\ FitsTo(x, cap, o, k)
  BY FittingIs
<1>6. l \in 0 .. Len(s)
  BY <1>1
<1>7. Trimmed(SubSeq(s, 1, l)) = Bytes(Fitting(x, cap))
  <2>1. l = IF Len(s) < cap - 1 THEN Len(s) ELSE cap - 1
    OBVIOUS
  <2> HIDE DEF l
  <2> QED BY <1>5, <1>6, <2>1, TrimmedFits
<1> QED BY <1>4, <1>7

\* The loop of Lcpy, with the width of the character there.
WidthAt(s, i) == IF i < Len(s) /\ s[i + 1] = "lead" THEN 3 ELSE 1

CopyLoop(f, s, cap) ==
  \A i \in 0 .. Len(s) :
    f[i] = IF i = Len(s) \/ i + WidthAt(s, i) > cap - 1 \/ i + WidthAt(s, i) > Len(s)
           THEN i ELSE f[i + WidthAt(s, i)]

LEMMA LcpyIs ==
  ASSUME NEW s \in Seq(Wire), NEW cap \in Nat
  PROVE  \E f : CopyLoop(f, s, cap) /\ Lcpy(s, cap) = SubSeq(s, 1, f[0])
<1> DEFINE n == Len(s)
           D == 0 .. n
           over(i) == i = n \/ i + WidthAt(s, i) > cap - 1 \/ i + WidthAt(s, i) > n
           stop == {i \in D : over(i)}
           base == [i \in D |-> i]
           next == [i \in D |-> IF i \in stop THEN i ELSE i + WidthAt(s, i)]
           act == [z \in D \X D |-> z[2]]
           Body(f) == [i \in 0 .. Len(s) |->
                         LET w == IF i < Len(s) /\ s[i + 1] = "lead" THEN 3 ELSE 1
                         IN  IF i = Len(s) \/ i + w > cap - 1 \/ i + w > Len(s) THEN i ELSE f[i + w]]
           f == CHOOSE f : f = Body(f)
<1>0. n \in Nat /\ \A i \in D : WidthAt(s, i) \in {1, 3}
  BY DEF WidthAt
<1>1. /\ base \in [D -> D] /\ next \in [D -> D] /\ \A i \in D \ stop : next[i] > i
  <2>1. base \in [D -> D]
    OBVIOUS
  <2>2. ASSUME NEW i \in D PROVE next[i] \in D /\ (i \notin stop => next[i] > i)
    <3>1. PICK w \in {1, 3} : w = WidthAt(s, i)
      BY <1>0
    <3>2. CASE i \in stop
      BY <3>2
    <3>3. CASE i \notin stop
      <4>1. next[i] = i + w /\ ~(i + w > n)
        BY <3>1, <3>3
      <4>2. i + w \in D /\ i + w > i
        BY <1>0, <3>1, <4>1
      <4> HIDE DEF D, next
      <4> QED BY <4>1, <4>2
    <3> QED BY <3>2, <3>3
  <2>3. next \in [D -> D]
    BY <2>2
  <2> HIDE DEF D, next, stop, base
  <2> QED BY <2>1, <2>2, <2>3
<1>2. act \in [D \X D -> D]
  OBVIOUS
<1>3. PICK g \in [D -> D] : Follows(g, D, stop, base, next, act)
  <2>1. 0 \in Nat /\ n \in Nat /\ D = 0 .. n
    BY <1>0
  <2> HIDE DEF D, stop, base, next, act, n
  <2> QED BY <1>1, <1>2, <2>1, Forward
<1>4. \A h : Body(h) = [i \in D |-> IF over(i) THEN i ELSE h[i + WidthAt(s, i)]]
  BY DEF WidthAt
<1>5. ASSUME NEW i \in D PROVE g[i] = IF over(i) THEN i ELSE g[i + WidthAt(s, i)]
  <2>1. CASE over(i)
    <3>1. i \in stop /\ base[i] = i
      BY <2>1
    <3>2. g[i] = base[i]
      <4> HIDE DEF D, stop, base, next, act, over
      <4> QED BY <1>3, <3>1 DEF Follows
    <3> HIDE DEF over
    <3> QED BY <2>1, <3>1, <3>2
  <2>2. CASE ~over(i)
    <3>1. i \notin stop /\ next[i] = i + WidthAt(s, i)
      BY <2>2
    <3>2. g[i] = act[<<i, g[next[i]]>>]
      <4> HIDE DEF D, stop, base, next, act, over
      <4> QED BY <1>3, <3>1 DEF Follows
    <3>3. g[next[i]] \in D
      <4> HIDE DEF D, next, stop
      <4> QED BY <1>1
    <3>4. act[<<i, g[next[i]]>>] = g[next[i]]
      <4> HIDE DEF D, next
      <4> QED BY <3>3
    <3> HIDE DEF over, act, next
    <3> QED BY <2>2, <3>1, <3>2, <3>4
  <2> QED BY <2>1, <2>2
<1>6. g = Body(g)
  <2>1. Body(g) = [i \in D |-> g[i]]
    <3> HIDE DEF Body, D, over
    <3> QED BY <1>4, <1>5
  <2>2. g = [i \in D |-> g[i]]
    BY <1>3
  <2> HIDE DEF Body, D
  <2> QED BY <2>1, <2>2
<1>7. f = Body(f)
  <2> HIDE DEF Body
  <2> QED BY <1>6
<1>8. Lcpy(s, cap) = SubSeq(s, 1, f[0])
  BY DEF Lcpy
<1> HIDE DEF f
<1>9. CopyLoop(f, s, cap)
  <2>1. f = [i \in D |-> IF over(i) THEN i ELSE f[i + WidthAt(s, i)]]
    <3> HIDE DEF Body, D, over
    <3> QED BY <1>4, <1>7
  <2>2. \A i \in D : f[i] = IF over(i) THEN i ELSE f[i + WidthAt(s, i)]
    <3> DEFINE value(i) == IF over(i) THEN i ELSE f[i + WidthAt(s, i)]
    <3>1. f = [i \in D |-> value(i)]
      BY <2>1
    <3> HIDE DEF value, D
    <3>2. \A i \in D : f[i] = value(i)
      BY <3>1
    <3> QED BY <3>2 DEF value
  <2> QED BY <2>2 DEF CopyLoop
<1> QED BY <1>8, <1>9

\* The second copy takes what fits of a text, too.
LEMMA LcpyFits ==
  ASSUME NEW x \in Content, NEW cap \in Nat \ {0}
  PROVE  Lcpy(Bytes(x), cap) = Bytes(Fitting(x, cap))
<1> DEFINE s == Bytes(x)
           m == Len(x)
<1>1. PICK o, k : Strung(Bytes(x), Chars(x), o) /\ FitsTo(x, cap, o, k)
  BY FittingIs
<1>2. s \in Seq(Wire) /\ m \in Nat /\ o[0] = 0 /\ o[m] = Len(s)
  <2>1. Bytes(x) \in Seq(Wire) /\ Len(Chars(x)) = Len(x) /\ Len(x) \in Nat
    BY BytesIs DEF Content
  <2>2. o[0] = 0 /\ Len(Bytes(x)) = o[Len(Chars(x))]
    BY <1>1 DEF Strung, PartEnds
  <2> QED BY <2>1, <2>2
<1>3. /\ k \in 0 .. m /\ o[k] < cap /\ (k < m => o[k + 1] >= cap) /\ o[k] \in 0 .. Len(s)
      /\ Bytes(Fitting(x, cap)) = SubSeq(s, 1, o[k])
  BY <1>1 DEF FitsTo
<1>4. \A j \in 1 .. m : CharAt(x, o, j)
  BY <1>1, CharIs
<1> HIDE DEF s
<1>5. PICK n \in Nat : n = Len(s)
  BY <1>2
<1>6. PICK f : CopyLoop(f, s, cap) /\ Lcpy(s, cap) = SubSeq(s, 1, f[0])
  BY <1>2, LcpyIs
<1>7. \A j \in 0 .. m : o[j] \in Nat /\ o[j] <= n
  <2> SUFFICES ASSUME NEW j \in 0 .. m PROVE o[j] \in Nat /\ o[j] <= n
    OBVIOUS
  <2>1. CASE j = 0
    BY <1>2, <1>5, <2>1
  <2>2. CASE j > 0
    <3>1. j \in 1 .. m
      BY <1>2, <2>2
    <3> QED BY <1>4, <1>5, <3>1 DEF CharAt, s
  <2> QED BY <1>2, <2>1, <2>2
\* From the start of a character the next one is as far as its width says.
<1>8. ASSUME NEW j \in 0 .. m, j < m PROVE o[j] < n /\ o[j + 1] = o[j] + WidthAt(s, o[j])
  <2>1. PICK K \in 1 .. m : K = j + 1 /\ K - 1 = j
    BY <1>2, <1>8
  <2>2. CharAt(x, o, K)
    BY <1>4
  <2>3. PICK u \in Nat : u = o[j]
    BY <1>7
  <2>4. u < n
    BY <1>5, <2>1, <2>2, <2>3 DEF CharAt, s
  <2>5. CASE x[K] = "wide"
    <3>1. o[K] = u + 3 /\ s[u + 1] = "lead"
      BY <2>1, <2>2, <2>3, <2>5 DEF CharAt, s
    <3>2. WidthAt(s, u) = 3
      BY <1>5, <2>4, <3>1 DEF WidthAt
    <3> QED BY <2>1, <2>3, <2>4, <3>1, <3>2
  <2>6. CASE x[K] # "wide"
    <3>1. o[K] = u + 1 /\ s[u + 1] # "lead"
      BY <2>1, <2>2, <2>3, <2>6 DEF CharAt, s
    <3>2. WidthAt(s, u) = 1
      BY <3>1 DEF WidthAt
    <3> QED BY <2>1, <2>3, <2>4, <3>1, <3>2
  <2> QED BY <2>5, <2>6
<1> DEFINE D == 0 .. k
           rank == [j \in D |-> k - j]
           G == {j \in D : f[o[j]] = o[k]}
<1>9. \A j \in D : rank[j] \in Nat
  BY <1>2, <1>3
<1>10. ASSUME NEW j \in D, \A y \in D : rank[y] < rank[j] => y \in G PROVE j \in G
  <2>0. j \in 0 .. m /\ j \in Nat /\ k \in Nat /\ j <= k
    BY <1>2, <1>3
  <2>1. PICK u \in Nat : u = o[j] /\ u \in 0 .. Len(s)
    BY <1>5, <1>7, <2>0
  <2>2. CASE j = k
    <3>1. u = n \/ u + WidthAt(s, u) > cap - 1
      <4>1. CASE k = m
        BY <1>2, <1>5, <2>1, <2>2, <4>1
      <4>2. CASE k < m
        <5>1. o[k + 1] = u + WidthAt(s, u)
          BY <1>8, <2>0, <2>1, <2>2, <4>2
        <5>2. o[k + 1] >= cap /\ o[k + 1] \in Nat
          <6>1. k + 1 \in 0 .. m
            BY <1>2, <2>0, <4>2
          <6> QED BY <1>3, <1>7, <4>2, <6>1
        <5> QED BY <5>1, <5>2
      <4> QED BY <1>2, <1>3, <4>1, <4>2
    <3>2. f[u] = u
      BY <1>5, <1>6, <2>1, <3>1 DEF CopyLoop
    <3> QED BY <2>1, <2>2, <3>2
  <2>3. CASE j < k
    <3>1. j < m /\ j + 1 \in D /\ j + 1 \in 0 .. m
      BY <1>2, <1>3, <2>0, <2>3
    <3>2. u < n /\ o[j + 1] = u + WidthAt(s, u)
      BY <1>8, <2>0, <2>1, <3>1
    <3>3. PICK w \in Nat : w = o[j + 1] /\ w <= o[k] /\ w <= n
      <4>1. /\ Chars(x) \in Seq(Seq(Wire)) /\ Len(Chars(x)) = m /\ PartEnds(o, Chars(x))
        BY <1>1, BytesIs DEF Strung
      <4>2. j + 1 <= k
        BY <2>0, <2>3
      <4>3. o[j + 1] <= o[k]
        BY <1>3, <3>1, <4>1, <4>2, OffsetsGrow
      <4> QED BY <1>7, <3>1, <4>3
    <3>4. ~(u = n) /\ ~(w > cap - 1) /\ ~(w > n)
      BY <1>3, <1>7, <3>2, <3>3
    <3>5. f[u] = f[w]
      BY <1>5, <1>6, <2>1, <3>2, <3>3, <3>4 DEF CopyLoop
    <3>6. f[w] = o[k]
      <4>1. rank[j + 1] < rank[j]
        BY <1>2, <1>3, <2>0, <3>1
      <4>2. j + 1 \in G
        <5> HIDE DEF rank, G, D
        <5> QED BY <1>10, <3>1, <4>1
      <4> QED BY <3>3, <4>2
    <3> QED BY <2>1, <3>5, <3>6
  <2> QED BY <2>0, <2>2, <2>3
<1>11. D \subseteq G
  <2>1. \A y \in D : (\A z \in D : rank[z] < rank[y] => z \in G) => y \in G
    BY <1>10
  <2> HIDE DEF D, G, rank
  <2> QED BY <1>9, <2>1, RankInduction
<1>12. f[0] = o[k]
  <2>1. 0 \in D
    BY <1>2, <1>3
  <2>2. 0 \in G
    <3> HIDE DEF D, G
    <3> QED BY <1>11, <2>1
  <2> QED BY <1>2, <2>2
<1> QED BY <1>3, <1>6, <1>12 DEF s

\* What a panel shows of a string.
LEMMA PanelShows ==
  ASSUME NEW x \in Content, want.cap \in Nat \ {0}, want.copy \in Nat \ {0}
  PROVE  Panel(Enclosed(Bytes(x))) = Whole(x)
<1> DEFINE y == Fitting(x, want.cap)
<1>1. ValueString(Enclosed(Bytes(x)), want.cap) = Bytes(y)
  BY StringTaken
<1>2. y \in Content
  <2>1. \E o, k : FitsTo(x, want.cap, o, k)
    BY FittingIs
  <2> QED BY <2>1 DEF FitsTo
<1> HIDE DEF y
<1>3. Lcpy(Bytes(y), want.copy) = Bytes(Fitting(y, want.copy))
  BY <1>2, LcpyFits
<1> QED BY <1>1, <1>3 DEF Panel, Whole, y

-----------------------------------------------------------------------------
(* Taking the items of an array *)

ItemStart(s, p) == IF p <= Len(s) /\ s[p] = "comma" THEN p + 1 ELSE p

ItemEnd(s, p) ==
  IF ItemStart(s, p) > Len(s) \/ s[ItemStart(s, p)] = "]" THEN 0 ELSE ValueEnd(s, ItemStart(s, p))

\* The loop of Items.
ItemLoop(f, s) ==
  \A p \in 1 .. Len(s) + 1 :
    f[p] = IF ItemEnd(s, p) \in {0, ItemStart(s, p)} THEN <<>>
           ELSE <<SubSeq(s, ItemStart(s, p), ItemEnd(s, p) - 1)>> \o f[ItemEnd(s, p)]

LEMMA ItemsIs ==
  ASSUME NEW s \in Seq(Wire)
  PROVE  \E f : ItemLoop(f, s) /\ Items(s) = f[2]
<1> DEFINE n == Len(s)
           D == 1 .. n + 1
           V == Seq(Seq(Wire))
           over(p) == ItemEnd(s, p) \in {0, ItemStart(s, p)}
           item(p) == <<SubSeq(s, ItemStart(s, p), ItemEnd(s, p) - 1)>>
           stop == {p \in D : over(p)}
           base == [p \in D |-> <<>>]
           next == [p \in D |-> IF p \in stop THEN p ELSE ItemEnd(s, p)]
           head == [p \in D |-> IF p \in stop THEN <<>> ELSE item(p)]
           act == [z \in D \X V |-> head[z[1]] \o z[2]]
           Body(f) == [p \in 1 .. Len(s) + 1 |->
                         LET b == IF p <= Len(s) /\ s[p] = "comma" THEN p + 1 ELSE p
                             e == IF b > Len(s) \/ s[b] = "]" THEN 0 ELSE ValueEnd(s, b)
                         IN  IF e \in {0, b} THEN <<>> ELSE <<SubSeq(s, b, e - 1)>> \o f[e]]
           f == CHOOSE f : f = Body(f)
<1>0. n \in Nat
  OBVIOUS
<1>1. ASSUME NEW p \in D, p \notin stop
      PROVE  ItemEnd(s, p) \in D /\ ItemEnd(s, p) > p /\ item(p) \in V
  <2>1. ItemEnd(s, p) # 0 /\ ItemEnd(s, p) # ItemStart(s, p)
    BY <1>1
  <2>2. PICK b \in Nat : b = ItemStart(s, p) /\ b >= p /\ b >= 1
    BY <1>0 DEF ItemStart
  <2>3. ~(b > n) /\ ItemEnd(s, p) = ValueEnd(s, b)
    BY <2>1, <2>2 DEF ItemEnd
  <2>4. b \in 1 .. Len(s) + 1
    BY <1>0, <2>2, <2>3
  <2>5. ValueEnd(s, b) = 0 \/ ValueEnd(s, b) \in b .. n + 1
    BY <2>4, ValueEndBounds
  <2>6. PICK e \in Nat : e = ItemEnd(s, p) /\ e \in D /\ e > b
    BY <1>0, <2>1, <2>2, <2>3, <2>5
  <2>7. SubSeq(s, b, e - 1) \in Seq(Wire)
    <3>1. b \in 1 .. Len(s) /\ e - 1 \in 1 .. Len(s)
      BY <1>0, <2>2, <2>3, <2>6
    <3> QED BY <3>1
  <2>8. item(p) = <<SubSeq(s, b, e - 1)>>
    BY <2>2, <2>6
  <2>9. item(p) \in V
    <3> DEFINE x == SubSeq(s, b, e - 1)
    <3>1. x \in Seq(Wire)
      BY <2>7
    <3> HIDE DEF x
    <3>2. <<x>> \in V
      BY <3>1
    <3> QED BY <2>8, <3>2 DEF x
  <2> QED BY <1>0, <2>2, <2>6, <2>9
<1>2. /\ base \in [D -> V] /\ next \in [D -> D] /\ \A p \in D \ stop : next[p] > p
  <2>1. base \in [D -> V]
    OBVIOUS
  <2>2. ASSUME NEW p \in D PROVE next[p] \in D /\ (p \notin stop => next[p] > p)
    <3>1. next[p] = IF p \in stop THEN p ELSE ItemEnd(s, p)
      OBVIOUS
    <3> HIDE DEF D, next, stop
    <3> QED BY <1>1, <3>1
  <2>3. next \in [D -> D]
    BY <2>2
  <2> HIDE DEF D, next, stop, base
  <2> QED BY <2>1, <2>2, <2>3
<1>3. \A p \in D : head[p] \in V
  <2> SUFFICES ASSUME NEW p \in D PROVE head[p] \in V
    OBVIOUS
  <2>1. head[p] = IF p \in stop THEN <<>> ELSE item(p)
    OBVIOUS
  <2>2. <<>> \in V
    OBVIOUS
  <2> HIDE DEF D, head, stop, item, V
  <2> QED BY <1>1, <2>1, <2>2
<1>4. act \in [D \X V -> V]
  <2> HIDE DEF head, D
  <2>1. ASSUME NEW p \in D, NEW t \in V PROVE head[p] \o t \in V
    <3>1. head[p] \in V
      BY <1>3
    <3> DEFINE S == Seq(Wire)
    <3>2. head[p] \in Seq(S) /\ t \in Seq(S)
      BY <3>1
    <3> HIDE DEF S
    <3>3. head[p] \o t \in Seq(S)
      BY <3>2, Cat
    <3> QED BY <3>3 DEF S
  <2> HIDE DEF V
  <2> QED BY <2>1
<1>5. PICK g \in [D -> V] : Follows(g, D, stop, base, next, act)
  <2>1. 1 \in Nat /\ n + 1 \in Nat /\ D = 1 .. n + 1
    BY <1>0
  <2> HIDE DEF D, V, stop, base, next, act, n
  <2> QED BY <1>2, <1>4, <2>1, Forward
<1> DEFINE value(h, p) == IF over(p) THEN <<>> ELSE item(p) \o h[ItemEnd(s, p)]
<1>6. \A h : Body(h) = [p \in D |-> value(h, p)]
  BY DEF ItemStart, ItemEnd
<1>7. ASSUME NEW p \in D PROVE g[p] = value(g, p)
  <2>1. CASE over(p)
    <3>1. p \in stop /\ base[p] = <<>>
      BY <2>1
    <3>2. g[p] = base[p]
      <4> HIDE DEF D, V, stop, base, next, act, over
      <4> QED BY <1>5, <3>1 DEF Follows
    <3> HIDE DEF over, item
    <3> QED BY <2>1, <3>1, <3>2
  <2>2. CASE ~over(p)
    <3>1. p \notin stop /\ next[p] = ItemEnd(s, p) /\ head[p] = item(p)
      BY <2>2
    <3>2. g[p] = act[<<p, g[next[p]]>>]
      <4> HIDE DEF D, V, stop, base, next, act, over
      <4> QED BY <1>5, <3>1 DEF Follows
    <3>3. g[next[p]] \in V
      <4> HIDE DEF D, V, next, stop
      <4> QED BY <1>2
    <3>4. act[<<p, g[next[p]]>>] = head[p] \o g[next[p]]
      <4> HIDE DEF D, V, next, head
      <4> QED BY <3>3
    <3> HIDE DEF over, act, next, item, head
    <3> QED BY <2>2, <3>1, <3>2, <3>4
  <2> QED BY <2>1, <2>2
<1>8. g = Body(g)
  <2>1. Body(g) = [p \in D |-> g[p]]
    <3> HIDE DEF Body, D, value
    <3> QED BY <1>6, <1>7
  <2>2. g = [p \in D |-> g[p]]
    BY <1>5
  <2> HIDE DEF Body, D
  <2> QED BY <2>1, <2>2
<1>9. f = Body(f)
  <2> HIDE DEF Body
  <2> QED BY <1>8
<1>10. Items(s) = f[2]
  BY DEF Items
<1> HIDE DEF f
<1>11. ItemLoop(f, s)
  <2>1. f = [p \in D |-> value(f, p)]
    <3> HIDE DEF Body, D, value
    <3> QED BY <1>6, <1>9
  <2>2. \A p \in D : f[p] = value(f, p)
    <3> DEFINE of(p) == value(f, p)
    <3>1. f = [p \in D |-> of(p)]
      BY <2>1
    <3> HIDE DEF of, D, value
    <3>2. \A p \in D : f[p] = of(p)
      BY <3>1
    <3> QED BY <3>2 DEF of
  <2> QED BY <2>2 DEF ItemLoop
<1> QED BY <1>10, <1>11

\* The items of an array are its texts, each in its quotes.
LEMMA ItemsTaken ==
  ASSUME NEW bs \in Seq(Seq(Wire))
  PROVE  Items(Bracketed(Listed(EnclosedAll(bs)), "[", "]")) = EnclosedAll(bs)
<1> DEFINE q == EnclosedAll(bs)
           m == Len(bs)
           t == Listed(q)
           s == Bracketed(t, "[", "]")
<1>1. /\ q \in Seq(Seq(Wire)) /\ Len(q) = m /\ m \in Nat
      /\ \A i \in 1 .. m : q[i] = Enclosed(bs[i]) /\ bs[i] \in Seq(Wire)
  BY EnclosedAllIs
<1> HIDE DEF q
<1>2. t \in Seq(Wire) /\ Len(ListedParts(q)) = m /\ ListedParts(q) \in Seq(Seq(Wire))
  BY <1>1, ListedIs
<1>3. PICK o : Strung(t, ListedParts(q), o)
  BY <1>1, ListedIs
<1>4. o[0] = 0 /\ o[m] = Len(t) /\ PartEnds(o, ListedParts(q))
  BY <1>2, <1>3 DEF Strung, PartEnds
<1> HIDE DEF t
<1>5. PICK l \in Nat : l = Len(t)
  BY <1>2
<1>6. /\ s \in Seq(Wire) /\ Len(s) = l + 2 /\ Agree(s, 1, t) /\ s[l + 2] = "]"
  <2>1. "[" \in Wire /\ "]" \in Wire
    BY WireChars
  <2>2. s \in Seq(Wire) /\ Len(s) = Len(t) + 2
    BY <1>2, <2>1, BracketedIs
  <2>3. Agree(s, 0, s)
    BY DEF Agree
  <2>4. Agree(s, 0 + 1, t) /\ (0 + Len(t) + 2 <= Len(s) => s[0 + Len(t) + 2] = "]")
    <3> DEFINE r == s
    <3>1. r \in Seq(Wire) /\ 0 \in Nat /\ Agree(r, 0, Bracketed(t, "[", "]"))
      BY <2>2, <2>3
    <3> HIDE DEF r
    <3>2. Agree(r, 0 + 1, t) /\ (0 + Len(t) + 2 <= Len(r) => r[0 + Len(t) + 2] = "]")
      BY <1>2, <2>1, <3>1, BracketedIs
    <3> QED BY <3>2 DEF r
  <2> HIDE DEF s
  <2>5. 0 + 1 = 1 /\ 0 + Len(t) + 2 = l + 2 /\ l + 2 <= Len(s)
    BY <1>5, <2>2
  <2> QED BY <1>5, <2>2, <2>4, <2>5
<1> HIDE DEF s
<1>7. \A k \in 0 .. m : o[k] \in Nat /\ o[k] <= l
  <2> DEFINE e == ListedParts(q)
  <2>1. e \in Seq(Seq(Wire)) /\ PartEnds(o, e) /\ Len(e) = m
    BY <1>2, <1>4
  <2> HIDE DEF e, m
  <2>2. \A a, b \in 0 .. m : a <= b => o[a] <= o[b]
    BY <2>1, OffsetsGrow
  <2>3. \A a \in 0 .. m : o[a] \in Nat
    BY <2>1, OffsetsGrow
  <2>4. m \in Nat /\ m \in 0 .. m /\ o[m] = l
    BY <1>1, <1>4, <1>5
  <2>5. \A a \in 0 .. m : a <= m
    BY <2>4
  <2> QED BY <1>5, <2>2, <2>3, <2>4, <2>5
<1>8. PICK f : ItemLoop(f, s) /\ Items(s) = f[2]
  BY <1>6, ItemsIs
<1> DEFINE D == 0 .. m
           rank == [k \in D |-> m - k]
           G == {k \in D : f[2 + o[k]] = SubSeq(q, k + 1, m)}
<1>9. \A k \in D : rank[k] \in Nat
  BY <1>1
<1>10. ASSUME NEW k \in D, \A y \in D : rank[y] < rank[k] => y \in G PROVE k \in G
  <2>1. PICK p \in Nat : p = 2 + o[k] /\ p \in 1 .. Len(s) + 1 /\ p <= Len(s) /\ ~(p > Len(s))
    BY <1>6, <1>7
  <2>2. CASE k = m
    <3>1. p = l + 2 /\ s[p] = "]"
      BY <1>4, <1>5, <1>6, <2>1, <2>2
    <3>2. s[p] # "comma"
      BY <3>1
    <3>3. ItemStart(s, p) = p
      BY <3>2 DEF ItemStart
    <3>4. ItemEnd(s, p) = 0
      BY <3>1, <3>3 DEF ItemEnd
    <3>5. f[p] = <<>>
      BY <1>8, <2>1, <3>4 DEF ItemLoop
    <3>6. SubSeq(q, k + 1, m) = <<>>
      BY <1>1, <2>2
    <3> QED BY <2>1, <3>5, <3>6
  <2>3. CASE k < m
    <3>1. PICK K \in 1 .. m : K = k + 1 /\ K - 1 = k /\ K \in D /\ K \in 1 .. Len(q)
      BY <1>1, <2>3
    <3>2. PICK u \in Nat : u = o[k] /\ p = 2 + u
      BY <1>7, <2>1
    <3>3. PICK d \in {0, 1} : d = Lead(K) /\ (d = 1 <=> K > 1)
      BY DEF Lead
    <3> DEFINE Q == q[K]
    <3>4. Q = Enclosed(bs[K]) /\ bs[K] \in Seq(Wire)
      BY <1>1, <3>1
    <3> HIDE DEF Q
    <3>5. /\ Q \in Seq(Wire) /\ Len(Q) = Len(Escaped(bs[K])) + 2 /\ Len(Escaped(bs[K])) \in Nat
          /\ Q[1] = "quote"
      BY <3>4, EnclosedIs
    <3>6. PICK w \in Nat : w = Len(Q) /\ w >= 2
      BY <3>5
    <3>7. /\ o[K] = o[K - 1] + Lead(K) + Len(q[K])
          /\ Agree(s, 1 + o[K - 1] + Lead(K), q[K])
          /\ K > 1 /\ 1 + o[K - 1] + 1 <= Len(s) => s[1 + o[K - 1] + 1] = "comma"
      <4> DEFINE c1 == 1
                 k1 == K - 1
      <4>1. /\ Strung(Listed(q), ListedParts(q), o) /\ Agree(s, c1, Listed(q)) /\ c1 \in Nat /\ k1 = K - 1
            /\ s \in Seq(Wire) /\ q \in Seq(Seq(Wire)) /\ K \in 1 .. Len(q)
        BY <1>1, <1>3, <1>6, <3>1 DEF t
      <4> HIDE DEF c1, k1
      <4>2. /\ o[K] = o[k1] + Lead(K) + Len(q[K])
            /\ Agree(s, c1 + o[k1] + Lead(K), q[K])
            /\ K > 1 /\ c1 + o[k1] + 1 <= Len(s) => s[c1 + o[k1] + 1] = "comma"
        BY <4>1, AgreeListed
      <4> QED BY <4>2 DEF c1, k1
    <3>8. PICK c \in Nat : c = 1 + u + d /\ Agree(s, c, Q) /\ c + 1 = p + d
      <4>1. Agree(s, 1 + u + d, Q)
        <5>1. u = o[K - 1] /\ d = Lead(K)
          BY <3>1, <3>2, <3>3
        <5> QED BY <3>7, <5>1, Zenon DEF Q
      <4>2. 1 + u + d \in Nat /\ (1 + u + d) + 1 = p + d
        BY <3>2, <3>3, SMTT(30)
      <4> QED BY <4>1, <4>2
    <3>9. PICK y \in Nat : y = o[K] /\ y = u + d + w /\ y <= l
      BY <1>7, <3>1, <3>2, <3>3, <3>6, <3>7 DEF Q
    <3>10. c + w <= Len(s) /\ c < Len(s) /\ c + w + 1 = 2 + y
      BY <1>6, <3>6, <3>8, <3>9
    <3>11. s[c + 1] = "quote"
      <4>1. 1 \in 1 .. Len(Q) /\ c + 1 <= Len(s)
        BY <3>6, <3>10
      <4> QED BY <3>5, <3>8, <4>1 DEF Agree
    <3>12. ItemStart(s, p) = c + 1
      <4>1. CASE d = 1
        <5>1. s[p] = "comma"
          <6>1. 1 + u + 1 = p
            BY <3>2
          <6> QED BY <2>1, <3>1, <3>2, <3>3, <3>7, <4>1, <6>1
        <5> QED BY <2>1, <3>8, <4>1, <5>1 DEF ItemStart
      <4>2. CASE d = 0
        <5>1. p = c + 1
          BY <3>8, <4>2
        <5>2. s[p] # "comma"
          BY <3>11, <5>1
        <5> QED BY <5>1, <5>2 DEF ItemStart
      <4> QED BY <4>1, <4>2
    <3>13. ItemEnd(s, p) = c + w + 1
      <4>1. ~(c + 1 > Len(s)) /\ s[c + 1] # "]"
        BY <3>10, <3>11
      <4>2. ItemEnd(s, p) = ValueEnd(s, c + 1)
        BY <3>12, <4>1 DEF ItemEnd
      <4>3. ValueEnd(s, c + 1) = StringEnd(s, (c + 1) + 1)
        BY <3>11, <4>1 DEF ValueEnd
      <4>4. StringEnd(s, c + 2) = IF c + Len(Escaped(bs[K])) + 2 <= Len(s) THEN c + Len(Escaped(bs[K])) + 3 ELSE 0
        <5> DEFINE b == bs[K]
        <5>1. b \in Seq(Wire) /\ Agree(s, c, <<"quote">> \o Escaped(b) \o <<"quote">>) /\ c < Len(s)
          BY <3>4, <3>8, <3>10 DEF Enclosed
        <5> HIDE DEF b
        <5>2. StringEnd(s, c + 2) = IF c + Len(Escaped(b)) + 2 <= Len(s) THEN c + Len(Escaped(b)) + 3 ELSE 0
          BY <1>6, <5>1, SkipString
        <5> QED BY <5>2 DEF b
      <4>5. c + Len(Escaped(bs[K])) + 2 = c + w /\ c + Len(Escaped(bs[K])) + 3 = c + w + 1
        BY <3>5, <3>6
      <4>6. (c + 1) + 1 = c + 2
        OBVIOUS
      <4> QED BY <3>10, <4>2, <4>3, <4>4, <4>5, <4>6
    <3>14. SubSeq(s, c + 1, (c + w + 1) - 1) = Q
      <4>1. SubSeq(s, c + 1, c + Len(Q)) = Q
        BY <1>6, <3>5, <3>6, <3>8, <3>10, Span
      <4>2. (c + w + 1) - 1 = c + Len(Q)
        BY <3>6
      <4> QED BY <4>1, <4>2
    <3>15. f[p] = <<Q>> \o f[2 + y]
      <4>1. c + w + 1 \notin {0, c + 1}
        BY <3>6
      <4>2. f[p] = <<SubSeq(s, c + 1, (c + w + 1) - 1)>> \o f[c + w + 1]
        BY <1>8, <2>1, <3>12, <3>13, <4>1 DEF ItemLoop
      <4> QED BY <3>10, <3>14, <4>2
    <3>16. f[2 + y] = SubSeq(q, K + 1, m)
      <4>1. rank[K] < rank[k]
        BY <1>1, <3>1
      <4>2. K \in G
        <5> HIDE DEF rank, G, D
        <5> QED BY <1>10, <3>1, <4>1
      <4> QED BY <3>9, <4>2
    <3>17. SubSeq(q, K, m) = <<q[K]>> \o SubSeq(q, K + 1, m)
      <4> DEFINE S == Seq(Wire)
      <4>1. q \in Seq(S) /\ K \in 1 .. Len(q)
        BY <1>1, <3>1
      <4> HIDE DEF S
      <4>2. SubSeq(q, K, Len(q)) = <<q[K]>> \o SubSeq(q, K + 1, Len(q))
        BY <4>1, Peel
      <4> QED BY <1>1, <4>2
    <3>18. f[2 + o[k]] = SubSeq(q, k + 1, m)
      BY <2>1, <3>1, <3>15, <3>16, <3>17 DEF Q
    <3> QED BY <3>18
  <2> QED BY <1>1, <2>2, <2>3
<1>11. D \subseteq G
  <2>1. \A y \in D : (\A z \in D : rank[z] < rank[y] => z \in G) => y \in G
    BY <1>10
  <2> HIDE DEF D, G, rank
  <2> QED BY <1>9, <2>1, RankInduction
<1>12. f[2] = SubSeq(q, 1, m)
  <2>1. 0 \in D
    BY <1>1
  <2>2. 0 \in G
    <3> HIDE DEF D, G
    <3> QED BY <1>11, <2>1
  <2>3. f[2 + o[0]] = SubSeq(q, 0 + 1, m)
    BY <2>2
  <2>4. 2 + o[0] = 2 /\ 0 + 1 = 1
    BY <1>4
  <2> QED BY <2>3, <2>4
<1>13. SubSeq(q, 1, m) = q
  BY <1>1
<1> QED BY <1>8, <1>12, <1>13 DEF s, t, q

\* What a handler makes of a value is what is meant by it.
LEMMA HandedIs ==
  ASSUME NEW v, Good(v), want.cap \in Nat \ {0}, want.copy \in Nat \ {0}
  PROVE  Handed(Written(v)) = Meant(v)
<1> DEFINE w == Written(v)
<1>1. CASE v.kind = "string"
  <2>1. w[1] = "quote" /\ w = Enclosed(Bytes(v.parts[1])) /\ v.parts[1] \in Content
    BY <1>1, WrittenIs, WrittenForms, GoodIs
  <2> HIDE DEF w
  <2>2. Handed(w) = Panel(w)
    BY <2>1 DEF Handed
  <2>3. Panel(w) = Whole(v.parts[1])
    BY <2>1, PanelShows
  <2>4. Meant(v) = Whole(v.parts[1])
    BY <1>1 DEF Meant
  <2> QED BY <2>2, <2>3, <2>4 DEF w
<1>2. CASE v.kind = "array"
  <2> DEFINE bs == Texts(v)
             q == EnclosedAll(bs)
  <2>1. w[1] = "[" /\ w = Bracketed(Listed(q), "[", "]")
    BY <1>2, WrittenIs, WrittenForms DEF ArrayText
  <2>2. /\ bs \in Seq(Seq(Wire)) /\ Len(bs) = Len(v.parts) /\ DOMAIN v.parts = 1 .. Len(v.parts)
        /\ \A i \in 1 .. Len(v.parts) : bs[i] = Bytes(v.parts[i]) /\ v.parts[i] \in Content
    <3>1. DOMAIN v.parts = 1 .. Len(v.parts)
      BY GoodIs
    <3> QED BY <3>1, GoodIs
  <2> HIDE DEF w, bs
  <2>3. Items(w) = q
    BY <2>1, <2>2, ItemsTaken
  <2>4. DOMAIN q = DOMAIN v.parts /\ \A i \in DOMAIN v.parts : q[i] = Enclosed(Bytes(v.parts[i]))
    <3>1. DOMAIN bs = 1 .. Len(bs)
      BY <2>2
    <3> QED BY <2>2, <3>1 DEF EnclosedAll
  <2> HIDE DEF q
  <2>5. Handed(w) = [i \in DOMAIN q |-> Panel(q[i])]
    BY <2>1, <2>3 DEF Handed
  <2>6. \A i \in DOMAIN v.parts : Panel(q[i]) = Whole(v.parts[i])
    BY <2>2, <2>4, PanelShows
  <2>7. Meant(v) = [i \in DOMAIN v.parts |-> Whole(v.parts[i])]
    BY <1>2 DEF Meant
  <2>8. [i \in DOMAIN q |-> Panel(q[i])] = [i \in DOMAIN v.parts |-> Whole(v.parts[i])]
    BY <2>4, <2>6
  <2> QED BY <2>5, <2>7, <2>8 DEF w
<1>3. CASE v.kind \in {"number", "object"}
  <2>1. w[1] \in {"1", "lbrace"}
    <3>1. CASE v.kind = "number"
      <4>1. 1 \in 1 .. Len(w)
        BY <3>1, NumberIs
      <4> QED BY <3>1, <4>1, NumberIs
    <3>2. CASE v.kind = "object"
      BY <3>2, WrittenIs
    <3> QED BY <1>3, <3>1, <3>2
  <2> HIDE DEF w
  <2>2. Handed(w) = w
    BY <2>1 DEF Handed
  <2>3. Meant(v) = w
    BY <1>3 DEF Meant, w
  <2> QED BY <2>2, <2>3 DEF w
<1> QED BY <1>1, <1>2, <1>3, GoodIs

Digits(v, piece) == v.kind = "number" /\ piece = SubSeq(Written(v), 1, Len(piece))

\* Of a number at the tear a handler gets the digits there are.
LEMMA HandedPiece ==
  ASSUME NEW v, Good(v), v.kind = "number",
         NEW s \in Seq(Wire), NEW c \in Nat, c < Len(s), Agree(s, c, Written(v)),
         c + Len(Written(v)) > Len(s)
  PROVE  Digits(v, Handed(SubSeq(s, c + 1, Len(s))))
<1> DEFINE w == Written(v)
           t == SubSeq(s, c + 1, Len(s))
<1>1. w \in Seq(Wire) /\ Len(w) \in Nat /\ \A i \in 1 .. Len(w) : w[i] = "1"
  BY NumberIs
<1>2. PICK n \in Nat : n = Len(s) - c /\ n >= 1 /\ n <= Len(w) /\ c + n = Len(s)
  <2>1. c + Len(w) > Len(s)
    OBVIOUS
  <2> HIDE DEF w
  <2>2. Len(s) - c \in Nat /\ Len(s) - c >= 1 /\ Len(s) - c <= Len(w) /\ c + (Len(s) - c) = Len(s)
    BY <1>1, <2>1
  <2> QED BY <2>2
<1> HIDE DEF w
<1>3. t \in Seq(Wire) /\ Len(t) = n /\ \A i \in 1 .. n : t[i] = s[c + i]
  <2>1. c + 1 \in Nat /\ c + n \in Nat /\ c + n <= Len(s)
    BY <1>2
  <2> QED BY <1>2, <2>1
<1>4. \A i \in 1 .. n : t[i] = w[i]
  <2>1. \A i \in 1 .. n : c + i <= Len(s) /\ i \in 1 .. Len(w)
    BY <1>1, <1>2
  <2> QED BY <1>3, <2>1 DEF Agree, w
<1> HIDE DEF t
<1>5. SubSeq(w, 1, n) \in Seq(Wire) /\ Len(SubSeq(w, 1, n)) = n /\ \A i \in 1 .. n : SubSeq(w, 1, n)[i] = w[i]
  BY <1>1, <1>2
<1>6. t = SubSeq(w, 1, n)
  <2> DEFINE u == SubSeq(w, 1, n)
  <2>1. u \in Seq(Wire) /\ Len(u) = Len(t) /\ \A i \in 1 .. Len(t) : t[i] = u[i]
    BY <1>3, <1>4, <1>5
  <2> HIDE DEF u
  <2>2. t = u
    BY <1>3, <2>1, SeqSame
  <2> QED BY <2>2 DEF u
<1>7. t[1] = "1"
  BY <1>1, <1>2, <1>4
<1>8. Handed(t) = t
  BY <1>7 DEF Handed
<1> QED BY <1>3, <1>6, <1>8 DEF Digits, t, w

-----------------------------------------------------------------------------
(* The line and its members *)

GoodDoc(d) ==
  /\ d \in Seq(MemberKeys \X Value)
  /\ \A i, j \in DOMAIN d : d[i][1] = d[j][1] => i = j
  /\ \A i \in DOMAIN d : Good(d[i][2])

LEMMA GoodDocs ==
  /\ \A d \in Documents : GoodDoc(d)
  /\ GoodDoc(<<>>)
<1>1. ASSUME NEW d \in Documents PROVE GoodDoc(d)
  <2>1. /\ d \in Seq(MemberKeys \X Value)
        /\ \A i, j \in DOMAIN d : d[i][1] = d[j][1] => i = j
        /\ \A i \in DOMAIN d :
             /\ d[i][2].kind # "array" => Len(d[i][2].parts) = 1
             /\ d[i][2].kind = "number" => d[i][2].parts[1] \in Seq({"1"}) \ {<<>>}
    BY WellFormed, Zenon
  <2>2. ASSUME NEW i \in DOMAIN d PROVE d[i][2] \in Value
    <3> DEFINE S == MemberKeys \X Value
    <3>1. \A x \in S : x[2] \in Value
      OBVIOUS
    <3>2. d[i] \in S
      <4> HIDE DEF S
      <4> QED BY <2>1, <2>2 DEF S
    <3> HIDE DEF S
    <3> QED BY <3>1, <3>2
  <2> QED BY <2>1, <2>2 DEF GoodDoc, Good
<1>2. GoodDoc(<<>>)
  BY DEF GoodDoc
<1> QED BY <1>1, <1>2

MemberTexts(d, bare) == [i \in DOMAIN d |-> Member(d[i][1], Written(d[i][2]), bare)]

\* The text of a member: its key, a colon, its value.
MemberForm(m, bare, text) ==
  /\ m[1] \in Seq(Letters) /\ m[1] # <<>> /\ Good(m[2])
  /\ KeyText(m[1], bare) \in Seq(Wire) /\ Len(KeyText(m[1], bare)) \in Nat \ {0}
  /\ Written(m[2]) \in Seq(Wire) /\ Len(Written(m[2])) \in Nat \ {0}
  /\ text = Joined(KeyText(m[1], bare), Written(m[2])) /\ text \in Seq(Wire)
  /\ Len(text) = Len(KeyText(m[1], bare)) + 1 + Len(Written(m[2]))

LEMMA MemberTextsAre ==
  ASSUME NEW d, GoodDoc(d), NEW bare \in BOOLEAN
  PROVE  /\ MemberTexts(d, bare) \in Seq(Seq(Wire)) /\ Len(MemberTexts(d, bare)) = Len(d)
         /\ \A i \in 1 .. Len(d) : MemberForm(d[i], bare, MemberTexts(d, bare)[i])
<1> DEFINE e == MemberTexts(d, bare)
<1>1. Len(d) \in Nat /\ DOMAIN d = 1 .. Len(d)
  BY DEF GoodDoc
<1>2. e = [i \in 1 .. Len(d) |-> e[i]]
      /\ \A i \in 1 .. Len(d) : e[i] = Joined(KeyText(d[i][1], bare), Written(d[i][2]))
  BY <1>1 DEF MemberTexts, Member, Joined
<1> HIDE DEF e
<1>3. ASSUME NEW i \in 1 .. Len(d) PROVE MemberForm(d[i], bare, e[i])
  <2> DEFINE key == d[i][1]
             v == d[i][2]
             K == KeyText(key, bare)
             W == Written(v)
  <2>1. key \in Seq(Letters) /\ key # <<>>
    <3> DEFINE S == MemberKeys \X Value
    <3>1. \A x \in S : x[1] \in MemberKeys
      OBVIOUS
    <3>2. d \in Seq(S)
      BY DEF GoodDoc
    <3>3. d[i] \in S
      <4> HIDE DEF S
      <4> QED BY <3>2
    <3> HIDE DEF S
    <3>4. key \in MemberKeys
      BY <3>1, <3>3
    <3> QED BY <3>4, WellFormed, Zenon
  <2>2. Good(v)
    BY <1>1 DEF GoodDoc
  <2>3. W \in Seq(Wire) /\ Len(W) \in Nat \ {0}
    BY <2>2, WrittenIs
  <2>4. K \in Seq(Wire) /\ Len(K) \in Nat \ {0}
    <3> HIDE DEF key
    <3>1. Len(key) \in Nat \ {0}
      BY <2>1
    <3>2. K \in Seq(Wire) /\ (bare => K = key) /\ (~bare => Len(K) = Len(key) + 2)
      BY <2>1, KeyTextIs
    <3> HIDE DEF K
    <3>3. CASE bare
      BY <3>1, <3>2, <3>3
    <3>4. CASE ~bare
      BY <3>1, <3>2, <3>4
    <3> QED BY <3>2, <3>3, <3>4
  <2>5. e[i] = Joined(K, W)
    BY <1>2
  <2> HIDE DEF K, W
  <2>6. Joined(K, W) \in Seq(Wire) /\ Len(Joined(K, W)) = Len(K) + 1 + Len(W)
    BY <2>3, <2>4, JoinedIs
  <2> QED BY <2>1, <2>2, <2>3, <2>4, <2>5, <2>6 DEF MemberForm, K, W
<1>4. \A i \in 1 .. Len(d) : e[i] \in Seq(Wire)
  BY <1>3 DEF MemberForm
<1>5. e \in Seq(Seq(Wire)) /\ Len(e) = Len(d)
  BY <1>1, <1>2, <1>4, SeqMade
<1> QED BY <1>3, <1>5 DEF e

\* Where the members end in the text.
Ends(d, bare, o) == Strung(Listed(MemberTexts(d, bare)), ListedParts(MemberTexts(d, bare)), o)

LEMMA TextIs ==
  ASSUME NEW d, GoodDoc(d), NEW bare \in BOOLEAN
  PROVE  /\ Text(d, bare) \in Seq(Wire)
         /\ \E o : Ends(d, bare, o)
         /\ \A o : Ends(d, bare, o) => o[0] = 0 /\ o[Len(d)] \in Nat /\ Len(Text(d, bare)) = o[Len(d)] + 2
         /\ \A s \in Seq(Wire) : \A o : Agree(s, 0, Text(d, bare)) /\ Ends(d, bare, o) =>
              /\ Agree(s, 1, Listed(MemberTexts(d, bare)))
              /\ 2 + o[Len(d)] <= Len(s) => s[2 + o[Len(d)]] = "rbrace"
<1> DEFINE e == MemberTexts(d, bare)
           t == Listed(e)
           open == "lbrace"
           close == "rbrace"
<1>1. Text(d, bare) = Bracketed(t, open, close)
  BY DEF Text, MemberTexts, Bracketed
<1>2. e \in Seq(Seq(Wire)) /\ Len(e) = Len(d) /\ Len(d) \in Nat
  BY MemberTextsAre DEF GoodDoc
<1> HIDE DEF e
<1>3. t \in Seq(Wire) /\ Len(ListedParts(e)) = Len(d) /\ Len(t) \in Nat /\ \E o : Strung(t, ListedParts(e), o)
  BY <1>2, ListedIs
<1>4. open \in Wire /\ close \in Wire
  BY WireChars
<1> HIDE DEF t, open, close
<1>5. /\ Bracketed(t, open, close) \in Seq(Wire) /\ Len(Bracketed(t, open, close)) = Len(t) + 2
  BY <1>3, <1>4, BracketedIs
<1>6. ASSUME NEW o, Ends(d, bare, o)
      PROVE  o[0] = 0 /\ o[Len(d)] = Len(t)
  <2>1. Strung(t, ListedParts(e), o)
    BY <1>6 DEF Ends, t, e
  <2> QED BY <1>3, <2>1 DEF Strung, PartEnds
<1>7. ASSUME NEW s \in Seq(Wire), NEW o, Agree(s, 0, Text(d, bare)), Ends(d, bare, o)
      PROVE  Agree(s, 1, t) /\ (2 + o[Len(d)] <= Len(s) => s[2 + o[Len(d)]] = close)
  <2> DEFINE c == 0
  <2>1. c \in Nat /\ Agree(s, c, Bracketed(t, open, close)) /\ c + 1 = 1
        /\ c + Len(t) + 2 = 2 + o[Len(d)]
    BY <1>1, <1>3, <1>6, <1>7
  <2> HIDE DEF c
  <2>2. Agree(s, c + 1, t) /\ (c + Len(t) + 2 <= Len(s) => s[c + Len(t) + 2] = close)
    BY <1>3, <1>4, <2>1, BracketedIs
  <2> QED BY <2>1, <2>2
<1>8. \E o : Ends(d, bare, o)
  BY <1>3 DEF Ends, t, e
<1> QED BY <1>1, <1>3, <1>5, <1>6, <1>7, <1>8 DEF t, e, close

\* A member in a line: its key, a colon, its value, and what follows it.
Lies(s, c, K, text, e, next) ==
  /\ c \in Nat /\ e \in Nat /\ MemberAt(s, c, K, text)
  /\ e = c + Len(K) + 1 + Len(text) + 1
  /\ e <= Len(s) => s[e] = next

Follower(d, i) == IF i < Len(d) THEN "comma" ELSE "rbrace"

LEMMA MemberThere ==
  ASSUME NEW d, GoodDoc(d), NEW bare \in BOOLEAN, NEW o, Ends(d, bare, o),
         NEW s \in Seq(Wire), Agree(s, 0, Text(d, bare)), NEW i \in 1 .. Len(d)
  PROVE  /\ Lies(s, 1 + o[i - 1] + Lead(i), KeyText(d[i][1], bare), Written(d[i][2]), 2 + o[i], Follower(d, i))
         /\ o[i - 1] \in Nat /\ o[i] \in Nat /\ o[i] <= o[Len(d)] /\ MemberForm(d[i], bare, MemberTexts(d, bare)[i])
<1> DEFINE e == MemberTexts(d, bare)
           t == Listed(e)
           K == KeyText(d[i][1], bare)
           W == Written(d[i][2])
           m == Len(d)
<1>1. e \in Seq(Seq(Wire)) /\ Len(e) = m /\ MemberForm(d[i], bare, e[i]) /\ m \in Nat
  <2>1. Len(d) \in Nat
    BY DEF GoodDoc
  <2>2. /\ MemberTexts(d, bare) \in Seq(Seq(Wire)) /\ Len(MemberTexts(d, bare)) = Len(d)
        /\ \A k \in 1 .. Len(d) : MemberForm(d[k], bare, MemberTexts(d, bare)[k])
    BY MemberTextsAre
  <2> QED BY <2>1, <2>2
<1>2. Strung(t, ListedParts(e), o)
  BY DEF Ends
<1>3. Agree(s, 1, t) /\ (2 + o[m] <= Len(s) => s[2 + o[m]] = "rbrace")
  BY TextIs
<1>4. e[i] = Joined(K, W) /\ K \in Seq(Wire) /\ W \in Seq(Wire) /\ Len(K) \in Nat /\ Len(W) \in Nat
      /\ Len(e[i]) = Len(K) + 1 + Len(W)
  BY <1>1 DEF MemberForm
<1> HIDE DEF e, K, W
<1>5. /\ o[i - 1] \in Nat /\ o[i] = o[i - 1] + Lead(i) + Len(e[i]) /\ o[i] \in Nat /\ o[i] <= Len(t)
      /\ Agree(s, 1 + o[i - 1] + Lead(i), e[i])
  <2> DEFINE c1 == 1
             i1 == i - 1
  <2>1. /\ Strung(Listed(e), ListedParts(e), o) /\ Agree(s, c1, Listed(e)) /\ c1 \in Nat /\ i1 = i - 1
        /\ i \in 1 .. Len(e)
    BY <1>1, <1>2, <1>3 DEF t
  <2> HIDE DEF c1, i1
  <2>2. /\ o[i1] \in Nat /\ o[i] = o[i1] + Lead(i) + Len(e[i]) /\ o[i] \in Nat /\ o[i] <= Len(Listed(e))
        /\ Agree(s, c1 + o[i1] + Lead(i), e[i])
    BY <1>1, <2>1, AgreeListed
  <2> QED BY <2>2 DEF c1, i1, t
<1>a. Len(t) = o[m]
  <2>1. Len(ListedParts(e)) = m
    BY <1>1, ListedIs
  <2> QED BY <1>2, <2>1 DEF Strung
<1>6. PICK a \in Nat : a = o[i - 1]
  BY <1>5
<1>7. PICK l \in {0, 1} : l = Lead(i)
  BY DEF Lead
<1>8. PICK c \in Nat : c = 1 + a + l /\ Agree(s, c, Joined(K, W)) /\ c = 1 + o[i - 1] + Lead(i)
  <2>1. Agree(s, 1 + a + l, Joined(K, W)) /\ 1 + a + l = 1 + o[i - 1] + Lead(i)
    BY <1>4, <1>5, <1>6, <1>7, Zenon
  <2>2. 1 + a + l \in Nat
    BY <1>6, <1>7
  <2> QED BY <2>1, <2>2
<1>9. MemberAt(s, c, K, W)
  BY <1>4, <1>8, JoinedIs
<1>10. PICK x \in Nat : x = o[i] /\ x = a + l + (Len(K) + 1 + Len(W))
  BY <1>4, <1>5, <1>6, <1>7
<1>11. 2 + x = c + Len(K) + 1 + Len(W) + 1
  BY <1>4, <1>8, <1>10
<1>12. 2 + x <= Len(s) => s[2 + x] = Follower(d, i)
  <2>1. CASE i < m
    <3>1. PICK j \in 1 .. Len(e) : j = i + 1 /\ j - 1 = i /\ j > 1
      BY <1>1, <2>1
    <3>2. j > 1 /\ 1 + o[i] + 1 <= Len(s) => s[1 + o[i] + 1] = "comma"
      <4> DEFINE c1 == 1
                 i1 == j - 1
      <4>1. Strung(Listed(e), ListedParts(e), o) /\ Agree(s, c1, Listed(e)) /\ c1 \in Nat /\ i1 = j - 1
        BY <1>1, <1>2, <1>3 DEF t
      <4> HIDE DEF c1, i1
      <4>2. j > 1 /\ c1 + o[i1] + 1 <= Len(s) => s[c1 + o[i1] + 1] = "comma"
        BY <1>1, <4>1, AgreeListed
      <4>3. i1 = i
        BY <3>1, <4>1
      <4> QED BY <4>2, <4>3 DEF c1
    <3>3. 1 + o[i] + 1 = 2 + x
      BY <1>10
    <3> QED BY <2>1, <3>1, <3>2, <3>3 DEF Follower
  <2>2. CASE ~(i < m)
    <3>1. i = m
      BY <1>1, <2>2
    <3> QED BY <1>3, <1>10, <2>2, <3>1 DEF Follower
  <2> QED BY <2>1, <2>2
<1>13. Lies(s, c, K, W, 2 + x, Follower(d, i))
  BY <1>9, <1>11, <1>12 DEF Lies
<1> QED BY <1>1, <1>5, <1>a, <1>8, <1>10, <1>13 DEF K, W, e

\* What one turn of the loop finds at p: a key with its colon and a value that
\* ends before x, or not all of that.
Finds(s, p, x) ==
  /\ KeyAt(s, p)[2] # 0 /\ ~(KeyAt(s, p)[2] > Len(s)) /\ s[KeyAt(s, p)[2]] = "colon"
  /\ ValueEnd(s, KeyAt(s, p)[2] + 1) = x /\ x # 0

Fails(s, p) ==
  \/ KeyAt(s, p)[2] = 0 \/ KeyAt(s, p)[2] > Len(s) \/ s[KeyAt(s, p)[2]] # "colon"
  \/ ValueEnd(s, KeyAt(s, p)[2] + 1) = 0

ValueSpan(s, p, x) == SubSeq(s, KeyAt(s, p)[2] + 1, x - 1)

\* Of the member m, which ends before e.
Turn(s, p, m, e) ==
  \/ e <= Len(s) + 1 /\ Finds(s, p, e) /\ KeyAt(s, p)[1] = m[1] /\ ValueSpan(s, p, e) = Written(m[2])
  \/ e > Len(s) + 1 /\ Fails(s, p)
  \/ /\ e > Len(s) + 1 /\ Finds(s, p, Len(s) + 1) /\ KeyAt(s, p)[1] = m[1]
     /\ Digits(m[2], Handed(ValueSpan(s, p, Len(s) + 1)))

LEMMA TurnIs ==
  ASSUME NEW s \in Seq(Wire), NEW c, NEW e, NEW next \in {"comma", "rbrace"}, NEW bare \in BOOLEAN,
         NEW m, NEW x, MemberForm(m, bare, x),
         Lies(s, c, KeyText(m[1], bare), Written(m[2]), e, next), c < Len(s)
  PROVE  s[c + 1] # "rbrace" /\ Turn(s, c + 1, m, e)
<1> DEFINE key == m[1]
           v == m[2]
           K == KeyText(key, bare)
           W == Written(v)
           n == Len(s)
<1>1. /\ key \in Seq(Letters) /\ key # <<>> /\ Good(v)
      /\ K \in Seq(Wire) /\ Len(K) \in Nat \ {0} /\ W \in Seq(Wire) /\ Len(W) \in Nat \ {0}
  BY DEF MemberForm
<1>2. /\ c \in Nat /\ e \in Nat /\ e = c + Len(K) + 1 + Len(W) + 1
      /\ e <= n => s[e] = next
      /\ Agree(s, c, K) /\ Agree(s, c + Len(K) + 1, W)
      /\ c + Len(K) + 1 <= n => s[c + Len(K) + 1] = "colon"
  BY DEF Lies, MemberAt
<1>3. s[c + 1] # "rbrace"
  <2>1. c + 1 <= n /\ 1 \in 1 .. Len(K)
    BY <1>1, <1>2
  <2>2. s[c + 1] = K[1]
    <3> HIDE DEF K
    <3> QED BY <1>2, <2>1 DEF Agree
  <2>3. CASE bare
    <3>1. K = key
      BY <1>1, <2>3, KeyTextIs
    <3> HIDE DEF key, K
    <3>2. key[1] \in Letters
      BY <1>1
    <3> QED BY <2>2, <3>1, <3>2 DEF Letters
  <2>4. CASE ~bare
    <3>1. K = Enclosed(key)
      BY <1>1, <2>4, KeyTextIs
    <3>2. key \in Seq(Wire)
      BY <1>1, PlainKey
    <3> HIDE DEF key, K
    <3>3. Enclosed(key)[1] = "quote"
      BY <3>2, EnclosedIs
    <3> QED BY <2>2, <3>1, <3>3
  <2> QED BY <2>3, <2>4
<1>4. PICK k \in Nat : k = Len(K) /\ k >= 1
  BY <1>1
<1>5. PICK L \in Nat : L = Len(W) /\ L >= 1
  BY <1>1
<1>6. PICK a \in Nat : a = c + k + 1
  BY <1>2, <1>4
<1>7. e = a + L + 1 /\ n \in Nat
  BY <1>2, <1>4, <1>5, <1>6
<1>8. /\ a <= n => KeyAt(s, c + 1) = <<key, a>>
      /\ ~(a <= n) => KeyAt(s, c + 1)[2] = 0 \/ KeyAt(s, c + 1)[2] > n
  <2>1. c + k + 1 <= n => s[c + k + 1] = "colon"
    BY <1>2, <1>4
  <2> HIDE DEF key
  <2>2. /\ c + k + 1 <= n => KeyAt(s, c + 1) = <<key, c + k + 1>>
        /\ ~(c + k + 1 <= n) => KeyAt(s, c + 1)[2] = 0 \/ KeyAt(s, c + 1)[2] > n
    BY <1>1, <1>2, <1>4, <2>1, KeyRead
  <2> QED BY <1>6, <2>2
<1> HIDE DEF key, v, K, W
<1>9. CASE ~(a <= n)
  <2>1. e > n + 1
    BY <1>5, <1>7, <1>9
  <2>2. Fails(s, c + 1)
    BY <1>8, <1>9 DEF Fails
  <2> QED BY <1>3, <2>1, <2>2 DEF Turn
<1>10. CASE a <= n
  <2>1. KeyAt(s, c + 1)[1] = key /\ KeyAt(s, c + 1)[2] = a /\ a # 0 /\ s[a] = "colon"
    BY <1>2, <1>4, <1>6, <1>8, <1>10
  <2>2. CASE a = n
    <3>1. ValueEnd(s, a + 1) = 0
      BY <1>7, <2>2 DEF ValueEnd
    <3>2. Fails(s, c + 1) /\ e > n + 1
      BY <1>5, <1>7, <2>1, <2>2, <3>1 DEF Fails
    <3> QED BY <1>3, <3>2 DEF Turn
  <2>3. CASE a < n
    <3>1. Agree(s, a, W)
      BY <1>2, <1>4, <1>6
    <3>2. ValueEnd(s, a + 1) =
            IF a + L <= Len(s) THEN a + L + 1 ELSE IF v.kind = "number" THEN Len(s) + 1 ELSE 0
      <4>1. a + L + 1 <= Len(s) => s[a + L + 1] \in {"comma", "rbrace", "]"}
        BY <1>2, <1>7
      <4>2. L = Len(Written(v)) /\ Agree(s, a, Written(v)) /\ Good(v) /\ a < Len(s)
        BY <1>1, <1>5, <2>3, <3>1 DEF W
      <4> QED BY <4>1, <4>2, SkipValue
    <3>3. CASE a + L <= n
      <4>1. ValueEnd(s, a + 1) = e /\ e # 0 /\ e <= n + 1
        BY <1>7, <3>2, <3>3
      <4>2. SubSeq(s, a + 1, a + Len(W)) = W
        <5>1. a + Len(W) <= Len(s)
          BY <1>5, <3>3
        <5> QED BY <1>1, <3>1, <5>1, Span
      <4>3. e - 1 = a + Len(W)
        BY <1>5, <1>7
      <4>4. ValueSpan(s, c + 1, e) = W
        BY <2>1, <4>2, <4>3 DEF ValueSpan
      <4>5. Finds(s, c + 1, e)
        BY <1>7, <1>10, <2>1, <4>1 DEF Finds
      <4> QED BY <1>3, <2>1, <4>1, <4>4, <4>5 DEF Turn, W, v, key
    <3>4. CASE ~(a + L <= n) /\ v.kind # "number"
      <4>1. ValueEnd(s, a + 1) = 0 /\ e > n + 1
        BY <1>7, <3>2, <3>4
      <4>2. Fails(s, c + 1)
        BY <2>1, <4>1 DEF Fails
      <4> QED BY <1>3, <4>1, <4>2 DEF Turn
    <3>5. CASE ~(a + L <= n) /\ v.kind = "number"
      <4>1. ValueEnd(s, a + 1) = n + 1 /\ e > n + 1 /\ n + 1 # 0
        BY <1>7, <3>2, <3>5
      <4>2. Finds(s, c + 1, n + 1)
        BY <1>7, <1>10, <2>1, <4>1 DEF Finds
      <4>3. ValueSpan(s, c + 1, n + 1) = SubSeq(s, a + 1, Len(s))
        BY <1>7, <2>1 DEF ValueSpan
      <4>4. a + Len(Written(v)) > Len(s) /\ Agree(s, a, Written(v)) /\ a < Len(s)
        BY <1>5, <1>7, <2>3, <3>1, <3>5 DEF W
      <4>5. Digits(v, Handed(ValueSpan(s, c + 1, n + 1)))
        <5>1. Digits(v, Handed(SubSeq(s, a + 1, Len(s))))
          BY <1>1, <3>5, <4>4, HandedPiece
        <5> QED BY <4>3, <5>1
      <4> QED BY <1>3, <2>1, <4>1, <4>2, <4>5 DEF Turn, v, key
    <3> QED BY <3>3, <3>4, <3>5
  <2> QED BY <1>7, <1>10, <2>2, <2>3
<1> QED BY <1>9, <1>10

\* With a member in it, the second character of a text tells whether its keys
\* are bare.
LEMMA SecondTells ==
  ASSUME NEW d, GoodDoc(d), NEW bare \in BOOLEAN
  PROVE  /\ Len(Text(d, bare)) \in Nat /\ Len(Text(d, bare)) >= 2
         /\ Len(d) = 0 => Len(Text(d, bare)) = 2
         /\ Len(d) # 0 => (Text(d, bare)[2] = "quote" <=> ~bare)
<1> DEFINE s == Text(d, bare)
<1>1. s \in Seq(Wire) /\ Agree(s, 0, Text(d, bare)) /\ Len(d) \in Nat
  BY TextIs DEF Agree, GoodDoc
<1>2. PICK o : Ends(d, bare, o)
  BY TextIs
<1>3. o[0] = 0 /\ o[Len(d)] \in Nat /\ Len(s) = o[Len(d)] + 2
  BY <1>2, TextIs
<1> HIDE DEF s
<1>4. ASSUME Len(d) # 0 PROVE s[2] = "quote" <=> ~bare
  <2> DEFINE i == 1
             K == KeyText(d[1][1], bare)
  <2>1. i \in 1 .. Len(d) /\ i - 1 = 0 /\ Lead(i) = 0
    BY <1>1, <1>4 DEF Lead
  <2> HIDE DEF i
  <2>2. /\ Lies(s, 1 + o[i - 1] + Lead(i), KeyText(d[i][1], bare), Written(d[i][2]), 2 + o[i], Follower(d, i))
        /\ MemberForm(d[i], bare, MemberTexts(d, bare)[i])
    BY <1>1, <1>2, <2>1, MemberThere
  <2>3. 1 + o[i - 1] + Lead(i) = 1
    BY <1>3, <2>1
  <2>4. Agree(s, 1, K)
    BY <2>2, <2>3 DEF Lies, MemberAt, i
  <2>5. Len(K) \in Nat \ {0} /\ K \in Seq(Wire) /\ d[1][1] \in Seq(Letters) /\ d[1][1] # <<>>
    BY <2>2 DEF MemberForm, i
  <2>6. s[2] = K[1]
    <3> HIDE DEF K
    <3>1. 1 \in 1 .. Len(K) /\ 1 + 1 <= Len(s)
      BY <1>1, <1>3, <2>5
    <3> QED BY <2>4, <3>1 DEF Agree
  <2> DEFINE key == d[1][1]
  <2>7. CASE bare
    <3>1. K = key
      BY <2>5, <2>7, KeyTextIs
    <3> HIDE DEF key, K
    <3>2. key[1] \in Letters
      BY <2>5 DEF key
    <3> QED BY <2>6, <2>7, <3>1, <3>2 DEF Letters
  <2>8. CASE ~bare
    <3>1. K = Enclosed(key)
      BY <2>5, <2>8, KeyTextIs
    <3>2. key \in Seq(Wire)
      BY <2>5, PlainKey
    <3> HIDE DEF key, K
    <3>3. Enclosed(key)[1] = "quote"
      BY <3>2, EnclosedIs
    <3> QED BY <2>6, <2>8, <3>1, <3>3
  <2> QED BY <2>7, <2>8
<1> QED BY <1>1, <1>3, <1>4 DEF s

\* A text, or its head, as it is in the line.
Here(s, d, bare, o) ==
  /\ bare \in BOOLEAN /\ Ends(d, bare, o)
  /\ s \in Seq(Wire) /\ s # <<>> /\ Agree(s, 0, Text(d, bare)) /\ Len(s) <= Len(Text(d, bare))
  /\ Len(s) < Len(Text(d, bare)) => \A b \in BOOLEAN : s # Text(d, b)

LEMMA Arrived ==
  ASSUME NEW d, GoodDoc(d), NEW bare \in BOOLEAN, NEW n \in 1 .. Len(Text(d, bare))
  PROVE  \E o : Here(SubSeq(Text(d, bare), 1, n), d, bare, o)
<1> DEFINE t == Text(d, bare)
           s == SubSeq(t, 1, n)
<1>1. t \in Seq(Wire) /\ Len(t) \in Nat /\ n \in Nat /\ n >= 1 /\ n <= Len(t)
  BY TextIs
<1>2. PICK o : Ends(d, bare, o)
  BY TextIs
<1> HIDE DEF t
<1>3. s \in Seq(Wire) /\ Len(s) = n /\ \A i \in 1 .. n : s[i] = t[i]
  BY <1>1
<1> HIDE DEF s
<1>4. s # <<>>
  BY <1>1, <1>3
<1>5. Agree(s, 0, t)
  BY <1>1, <1>3 DEF Agree
<1>6. ASSUME n < Len(t), NEW b \in BOOLEAN, s = Text(d, b) PROVE FALSE
  <2>1. Len(Text(d, b)) = n /\ b # bare
    BY <1>1, <1>3, <1>6 DEF t
  <2>2. n >= 2 /\ (Len(d) = 0 => n = 2) /\ (Len(d) # 0 => (Text(d, b)[2] = "quote" <=> ~b))
    BY <2>1, SecondTells
  <2>3. (Len(d) = 0 => Len(t) = 2) /\ (Len(d) # 0 => (t[2] = "quote" <=> ~bare))
    BY SecondTells DEF t
  <2>4. s[2] = t[2]
    BY <1>1, <1>3, <2>2
  <2>5. Len(d) # 0
    <3> SUFFICES ASSUME Len(d) = 0 PROVE FALSE
      OBVIOUS
    <3>1. n = 2 /\ Len(t) = 2 /\ n < Len(t)
      BY <1>6, <2>2, <2>3
    <3> QED BY <3>1
  <2>6. Text(d, b)[2] = t[2]
    BY <1>6, <2>4
  <2>7. ~b <=> ~bare
    BY <2>2, <2>3, <2>5, <2>6
  <2> QED BY <2>1, <2>7
<1> QED BY <1>1, <1>2, <1>3, <1>4, <1>5, <1>6 DEF Here, s, t

-----------------------------------------------------------------------------
(* The handler gets what the member has *)

MeantOf(w, v) ==
  CASE v.kind = "string" -> Bytes(Fitting(Fitting(v.parts[1], w.cap), w.copy))
    [] v.kind = "array"  -> [i \in DOMAIN v.parts |-> Bytes(Fitting(Fitting(v.parts[i], w.cap), w.copy))]
    [] OTHER             -> Written(v)

\* What ReadsMember says of an answer g to the question w, asked of the line s.
Answers(d, s, w, g) ==
  LET named == {i \in DOMAIN d : d[i][1] = w.key}
      torn  == s \notin {Text(d, TRUE), Text(d, FALSE)}
  IN  IF named = {} THEN g = Nothing
      ELSE \A i \in named :
             \/ g = <<"found", MeantOf(w, d[i][2])>>
             \/ torn /\ g = Nothing
             \/ torn /\ d[i][2].kind = "number" /\ g[2] = SubSeq(Written(d[i][2]), 1, Len(g[2]))

LEMMA ReadsIs ==
  /\ ReadsMember <=> (at = 0 /\ want # Idle => Answers(doc, line, want, got))
  /\ ReadsMember' <=> (at' = 0 /\ want' # Idle => Answers(doc', line', want', got'))
BY Zenon DEF ReadsMember, Answers, MeantOf, Meant, Whole

\* How it comes to be so.
LEMMA NoneNamed ==
  ASSUME NEW d, NEW s, NEW w, \A i \in DOMAIN d : d[i][1] # w.key
  PROVE  Answers(d, s, w, Nothing)
<1>1. {i \in DOMAIN d : d[i][1] = w.key} = {}
  OBVIOUS
<1> QED BY <1>1, Zenon DEF Answers

LEMMA OneNamed ==
  ASSUME NEW d, GoodDoc(d), NEW s, NEW w, NEW i \in DOMAIN d, d[i][1] = w.key, NEW g,
         \/ g = <<"found", MeantOf(w, d[i][2])>>
         \/ (\A b \in BOOLEAN : s # Text(d, b)) /\ Digits(d[i][2], g[2])
  PROVE  Answers(d, s, w, g)
<1> DEFINE named == {k \in DOMAIN d : d[k][1] = w.key}
<1>1. named = {i}
  BY DEF GoodDoc
<1>2. (\A b \in BOOLEAN : s # Text(d, b)) => s \notin {Text(d, TRUE), Text(d, FALSE)}
  BY Zenon
<1> QED BY <1>1, <1>2, Zenon DEF Answers, Digits

LEMMA TornNothing ==
  ASSUME NEW d, NEW s, NEW w, \A b \in BOOLEAN : s # Text(d, b)
  PROVE  Answers(d, s, w, Nothing)
<1>1. s \notin {Text(d, TRUE), Text(d, FALSE)}
  BY Zenon
<1> QED BY <1>1, Zenon DEF Answers

\* Where the cursor is: at a member, or at the end, with no member behind it that
\* is asked for; or behind a line that is torn.
CursorAt(d, s, w, bare, o, p) ==
  \/ p > Len(s) /\ Len(s) < Len(Text(d, bare))
  \/ \E k \in 1 .. Len(d) + 1 :
       /\ p = IF k <= Len(d) THEN 2 + o[k - 1] + Lead(k) ELSE 2 + o[Len(d)]
       /\ \A i \in 1 .. k - 1 : d[i][1] # w.key

Onward(s, x) == IF x <= Len(s) /\ s[x] = "comma" THEN x + 1 ELSE x

\* A turn of the loop from there.
Ahead(d, s, bare, o, p) ==
  \/ (p > Len(s) \/ s[p] = "rbrace") /\ Answers(d, s, want, Nothing)
  \/ p <= Len(s) /\ s[p] # "rbrace" /\ Fails(s, p) /\ Answers(d, s, want, Nothing)
  \/ /\ p <= Len(s) /\ s[p] # "rbrace"
     /\ \E x : /\ Finds(s, p, x)
               /\ IF KeyAt(s, p)[1] = want.key
                  THEN Answers(d, s, want, <<"found", Handed(ValueSpan(s, p, x))>>)
                  ELSE Onward(s, x) \in Nat \ {0} /\ CursorAt(d, s, want, bare, o, Onward(s, x))

LEMMA AheadIs ==
  ASSUME NEW d, GoodDoc(d), NEW s, NEW bare, NEW o, Here(s, d, bare, o),
         want.cap \in Nat \ {0}, want.copy \in Nat \ {0},
         NEW p \in Nat, CursorAt(d, s, want, bare, o, p)
  PROVE  Ahead(d, s, bare, o, p)
<1> DEFINE m == Len(d)
           n == Len(s)
           Torn == \A b \in BOOLEAN : s # Text(d, b)
           N == Len(Text(d, bare))
<1>1. /\ bare \in BOOLEAN /\ Ends(d, bare, o) /\ s \in Seq(Wire) /\ Agree(s, 0, Text(d, bare))
      /\ n < N => Torn
      /\ m \in Nat /\ n \in Nat /\ DOMAIN d = 1 .. m
  BY DEF Here, GoodDoc
<1>2. o[m] \in Nat /\ N = o[m] + 2 /\ (2 + o[m] <= n => s[2 + o[m]] = "rbrace")
  BY <1>1, TextIs
<1> HIDE DEF N
<1>3. Torn => Answers(d, s, want, Nothing)
  BY TornNothing
<1>4. CASE p > n /\ n < N
  BY <1>1, <1>3, <1>4 DEF Ahead
<1>5. ASSUME NEW k \in 1 .. m + 1, \A i \in 1 .. k - 1 : d[i][1] # want.key,
             p = IF k <= m THEN 2 + o[k - 1] + Lead(k) ELSE 2 + o[m]
      PROVE  Ahead(d, s, bare, o, p)
  <2>1. CASE k = m + 1
    <3>1. p = 2 + o[m] /\ k - 1 = m
      BY <1>1, <1>5, <2>1
    <3>2. Answers(d, s, want, Nothing)
      BY <1>1, <1>5, <3>1, NoneNamed
    <3>3. p > n \/ s[p] = "rbrace"
      BY <1>1, <1>2, <3>1
    <3> QED BY <3>2, <3>3 DEF Ahead
  <2>2. CASE k <= m
    <3> DEFINE mem == d[k]
               key == KeyText(mem[1], bare)
               W == Written(mem[2])
               e == 2 + o[k]
    <3>0. k \in 1 .. m /\ k \in DOMAIN d
      BY <1>1, <2>2
    <3>1. /\ Lies(s, 1 + o[k - 1] + Lead(k), key, W, e, Follower(d, k))
          /\ o[k - 1] \in Nat /\ o[k] \in Nat /\ o[k] <= o[m] /\ MemberForm(mem, bare, MemberTexts(d, bare)[k])
      BY <1>1, <3>0, MemberThere
    <3>2. PICK l \in {0, 1} : l = Lead(k)
      BY DEF Lead
    <3>3. PICK a \in Nat : a = o[k - 1]
      BY <3>1
    <3>4. PICK c \in Nat : c = 1 + a + l /\ c + 1 = p /\ c = 1 + o[k - 1] + Lead(k)
      <4>1. 1 + a + l \in Nat /\ (1 + a + l) + 1 = 2 + o[k - 1] + Lead(k)
        BY <3>2, <3>3
      <4> QED BY <1>5, <2>2, <3>2, <3>3, <4>1
    <3>5. Lies(s, c, key, W, e, Follower(d, k))
      BY <3>1, <3>4
    <3>6. e \in Nat /\ p < e /\ e <= N /\ (e <= n => s[e] = Follower(d, k))
      <4>1. Len(key) \in Nat /\ Len(W) \in Nat
        BY <3>1 DEF MemberForm
      <4>2. e = c + Len(key) + 1 + Len(W) + 1 /\ e \in Nat /\ (e <= n => s[e] = Follower(d, k))
        BY <3>5 DEF Lies
      <4>3. e <= N
        BY <1>2, <3>1
      <4> HIDE DEF key, W, e
      <4> QED BY <3>4, <4>1, <4>2, <4>3
    <3> HIDE DEF mem, key, W, e
    <3>7. CASE p > n
      BY <1>1, <1>2, <1>3, <3>6, <3>7 DEF Ahead, N
    <3>8. CASE p <= n
      <4>1. Follower(d, k) \in {"comma", "rbrace"}
        BY DEF Follower
      <4>2. c < Len(s)
        BY <1>1, <3>4, <3>8
      <4>3. s[c + 1] # "rbrace" /\ Turn(s, c + 1, mem, e)
        BY <1>1, <3>1, <3>5, <4>1, <4>2, TurnIs DEF key, W
      <4>4. s[p] # "rbrace" /\ Turn(s, p, mem, e)
        BY <3>4, <4>3
      <4>5. CASE e > n + 1 /\ Fails(s, p)
        <5>1. n < N
          BY <1>1, <1>2, <3>6, <4>5 DEF N
        <5> QED BY <1>1, <1>3, <3>8, <4>4, <4>5, <5>1 DEF Ahead
      <4>6. CASE e <= n + 1 /\ Finds(s, p, e) /\ KeyAt(s, p)[1] = mem[1] /\ ValueSpan(s, p, e) = W
        <5>1. CASE mem[1] = want.key
          <6>1. Handed(W) = MeantOf(want, mem[2])
            <7>1. Good(mem[2])
              BY <3>1 DEF MemberForm
            <7>2. Handed(W) = Meant(mem[2])
              BY <7>1, HandedIs DEF W
            <7> QED BY <7>2, Zenon DEF Meant, MeantOf, Whole
          <6>2. Answers(d, s, want, <<"found", Handed(W)>>)
            BY <3>0, <5>1, <6>1, OneNamed DEF mem
          <6> QED BY <3>8, <4>4, <4>6, <5>1, <6>2 DEF Ahead
        <5>2. CASE mem[1] # want.key
          <6>1. \A i \in 1 .. k : d[i][1] # want.key
            <7>1. \A i \in 1 .. k : i = k \/ i \in 1 .. k - 1
              BY <3>0
            <7> QED BY <1>5, <5>2, <7>1 DEF mem
          <6> DEFINE x == Onward(s, e)
          <6>2. x \in Nat \ {0}
            BY <3>6 DEF Onward
          <6>6. CursorAt(d, s, want, bare, o, x)
            <7>3. CASE k = m
              <8>1. ~(e <= n /\ s[e] = "comma")
                BY <3>6, <7>3 DEF Follower
              <8>2. x = 2 + o[m]
                BY <7>3, <8>1 DEF Onward, e
              <8>3. m + 1 \in 1 .. m + 1 /\ (m + 1) - 1 = k /\ ~(m + 1 <= m)
                BY <1>1, <7>3
              <8>4. \E j \in 1 .. m + 1 :
                      /\ x = IF j <= m THEN 2 + o[j - 1] + Lead(j) ELSE 2 + o[m]
                      /\ \A i \in 1 .. j - 1 : d[i][1] # want.key
                BY <6>1, <8>2, <8>3
              <8> QED BY <8>4 DEF CursorAt
            <7>4. CASE k < m /\ e <= n
              <8>1. x = e + 1
                BY <3>6, <7>4 DEF Follower, Onward
              <8>2. PICK j \in 1 .. m + 1 : j = k + 1 /\ j - 1 = k /\ j <= m /\ Lead(j) = 1
                <9>1. k + 1 \in 1 .. m + 1 /\ (k + 1) - 1 = k /\ k + 1 <= m /\ Lead(k + 1) = 1
                  BY <1>1, <3>0, <7>4 DEF Lead
                <9> QED BY <9>1
              <8>3. x = 2 + o[j - 1] + Lead(j)
                BY <3>1, <8>1, <8>2 DEF e
              <8>4. \E i \in 1 .. m + 1 :
                      /\ x = IF i <= m THEN 2 + o[i - 1] + Lead(i) ELSE 2 + o[m]
                      /\ \A r \in 1 .. i - 1 : d[r][1] # want.key
                BY <6>1, <8>2, <8>3
              <8> QED BY <8>4 DEF CursorAt
            <7>5. CASE ~(e <= n)
              <8>1. x = e
                BY <7>5 DEF Onward
              <8>2. x > n /\ n < N
                BY <1>1, <1>2, <3>6, <7>5, <8>1 DEF N
              <8> QED BY <8>2 DEF CursorAt, N
            <7> QED BY <1>1, <3>0, <7>3, <7>4, <7>5
          <6> QED BY <3>8, <4>4, <4>6, <5>2, <6>2, <6>6 DEF Ahead
        <5> QED BY <5>1, <5>2
      <4>7. CASE /\ e > n + 1 /\ Finds(s, p, n + 1) /\ KeyAt(s, p)[1] = mem[1]
                 /\ Digits(mem[2], Handed(ValueSpan(s, p, n + 1)))
        <5>1. n < N
          BY <1>1, <1>2, <3>6, <4>7 DEF N
        <5>2. CASE mem[1] = want.key
          <6> DEFINE g == <<"found", Handed(ValueSpan(s, p, n + 1))>>
          <6>1. Digits(d[k][2], g[2]) /\ d[k][1] = want.key /\ Torn
            BY <1>1, <4>7, <5>1, <5>2 DEF mem
          <6> HIDE DEF g
          <6>2. Answers(d, s, want, g)
            BY <3>0, <6>1, OneNamed
          <6> QED BY <3>8, <4>4, <4>7, <5>2, <6>2 DEF Ahead, g
        <5>3. CASE mem[1] # want.key
          <6>1. Onward(s, n + 1) = n + 1 /\ n + 1 > n /\ n + 1 \in Nat \ {0}
            BY <1>1 DEF Onward
          <6>2. CursorAt(d, s, want, bare, o, n + 1)
            BY <5>1, <6>1 DEF CursorAt, N
          <6> QED BY <3>8, <4>4, <4>7, <5>3, <6>1, <6>2 DEF Ahead
        <5> QED BY <5>2, <5>3
      <4> QED BY <4>4, <4>5, <4>6, <4>7 DEF Turn, W
    <3> QED BY <1>1, <3>7, <3>8
  <2> QED BY <1>1, <1>5, <2>1, <2>2
<1> QED BY <1>4, <1>5 DEF CursorAt, N

-----------------------------------------------------------------------------
(* The steps *)

Asked == want \in [key : MemberKeys, cap : Caps, copy : Copies]

\* While a handler scans, the cursor is at its place in a line that is a text of
\* the document, or the head of one.
JsonInv ==
  /\ GoodDoc(doc) /\ ReadsMember
  /\ IF line = <<>> THEN want = Idle /\ got = Nothing
     ELSE \E bare, o :
            /\ Here(line, doc, bare, o)
            /\ got = <<"scanning">> => Asked /\ at \in Nat /\ CursorAt(doc, line, want, bare, o, at)

LEMMA JsonStarts ==
  JsonInit \/ JsonOff => JsonInv
<1> SUFFICES ASSUME JsonInit \/ JsonOff PROVE JsonInv
  OBVIOUS
<1>1. GoodDoc(doc) /\ line = <<>> /\ want = Idle /\ got = Nothing
  BY GoodDocs DEF JsonInit, JsonOff
<1>2. ReadsMember
  BY <1>1, ReadsIs
<1> QED BY <1>1, <1>2 DEF JsonInv

LEMMA JsonRests ==
  JsonInv /\ UNCHANGED json => JsonInv'
<1> SUFFICES ASSUME JsonInv, UNCHANGED json PROVE JsonInv'
  OBVIOUS
<1>1. doc' = doc /\ line' = line /\ want' = want /\ at' = at /\ got' = got
  BY DEF json
<1>2. ReadsMember'
  BY <1>1, ReadsIs DEF JsonInv
<1> QED BY <1>1, <1>2 DEF JsonInv, Asked

LEMMA JsonArrives ==
  JsonInv /\ Arrive => JsonInv'
<1> SUFFICES ASSUME JsonInv, Arrive PROVE JsonInv'
  OBVIOUS
<1>1. line = <<>> /\ doc' = doc /\ want' = want /\ at' = at /\ got' = got
      /\ \E bare \in BOOLEAN : \E n \in 1 .. Len(Text(doc, bare)) : line' = SubSeq(Text(doc, bare), 1, n)
  BY DEF Arrive
<1>2. PICK bare \in BOOLEAN : \E n \in 1 .. Len(Text(doc, bare)) : line' = SubSeq(Text(doc, bare), 1, n)
  BY <1>1
<1>a. PICK n \in 1 .. Len(Text(doc, bare)) : line' = SubSeq(Text(doc, bare), 1, n)
  BY <1>2
<1>3. GoodDoc(doc) /\ want = Idle /\ got = Nothing
  BY <1>1 DEF JsonInv
<1>4. PICK o : Here(line', doc, bare, o)
  BY <1>3, <1>a, Arrived
<1>5. line' # <<>>
  BY <1>4 DEF Here
<1>6. ReadsMember'
  BY <1>1, <1>3, ReadsIs
<1>7. got' # <<"scanning">>
  BY <1>1, <1>3 DEF Nothing
<1> QED BY <1>1, <1>3, <1>4, <1>5, <1>6, <1>7 DEF JsonInv

LEMMA JsonAsks ==
  JsonInv /\ Ask => JsonInv'
<1> SUFFICES ASSUME JsonInv, Ask PROVE JsonInv'
  OBVIOUS
<1>1. /\ line # <<>> /\ doc' = doc /\ line' = line /\ at' = 2
      /\ want' \in [key : MemberKeys, cap : Caps, copy : Copies]
  BY DEF Ask
<1>2. PICK bare, o : Here(line, doc, bare, o)
  BY <1>1 DEF JsonInv
<1>3. GoodDoc(doc) /\ Len(doc) \in Nat
  BY DEF JsonInv, GoodDoc
<1>4. o[0] = 0
  BY <1>2, <1>3, TextIs DEF Here
<1>5. CursorAt(doc, line, want', bare, o, 2)
  <2> DEFINE k == 1
  <2>1. k \in 1 .. Len(doc) + 1 /\ k - 1 = 0 /\ Lead(k) = 0 /\ (1 .. k - 1) = {}
    BY <1>3 DEF Lead
  <2>2. 2 = IF k <= Len(doc) THEN 2 + o[k - 1] + Lead(k) ELSE 2 + o[Len(doc)]
    <3>1. CASE k <= Len(doc)
      BY <1>4, <2>1, <3>1
    <3>2. CASE ~(k <= Len(doc))
      BY <1>3, <1>4, <3>2
    <3> QED BY <3>1, <3>2
  <2> HIDE DEF k
  <2> QED BY <2>1, <2>2 DEF CursorAt
<1>6. ReadsMember'
  BY <1>1, ReadsIs
<1> QED BY <1>1, <1>2, <1>3, <1>5, <1>6 DEF JsonInv, Asked

LEMMA JsonScans ==
  JsonInv /\ Scan => JsonInv'
<1> SUFFICES ASSUME JsonInv, Scan PROVE JsonInv'
  OBVIOUS
<1> DEFINE e == KeyAt(line, at)[2]
           x == ValueEnd(line, e + 1)
           y == Onward(line, x)
           answer == <<"found", Handed(ValueSpan(line, at, x))>>
<1>1. /\ got = <<"scanning">> /\ doc' = doc /\ line' = line /\ want' = want
      /\ IF at > Len(line) \/ line[at] = "rbrace" THEN Miss
         ELSE IF e = 0 \/ e > Len(line) \/ line[e] # "colon" \/ x = 0 THEN Miss
         ELSE IF KeyAt(line, at)[1] = want.key THEN got' = answer /\ at' = 0
         ELSE got' = got /\ at' = y
  BY DEF Scan, ValueSpan, Onward
<1>2. line # <<>>
  BY <1>1 DEF JsonInv, Nothing
<1>3. PICK bare, o : Here(line, doc, bare, o) /\ Asked /\ at \in Nat /\ CursorAt(doc, line, want, bare, o, at)
  BY <1>1, <1>2 DEF JsonInv
<1>4. want.cap \in Nat \ {0} /\ want.copy \in Nat \ {0}
  BY <1>3, WellFormed DEF Asked
<1>5. GoodDoc(doc)
  BY DEF JsonInv
<1>6. Ahead(doc, line, bare, o, at)
  BY <1>3, <1>4, <1>5, AheadIs
<1>7. ASSUME got' = Nothing, at' = 0, Answers(doc, line, want, Nothing) PROVE JsonInv'
  <2>1. ReadsMember' /\ got' # <<"scanning">>
    BY <1>1, <1>7, ReadsIs DEF Nothing
  <2> QED BY <1>1, <1>2, <1>3, <1>5, <2>1 DEF JsonInv
<1>8. CASE (at > Len(line) \/ line[at] = "rbrace") /\ Answers(doc, line, want, Nothing)
  BY <1>1, <1>7, <1>8 DEF Miss
<1>9. CASE /\ at <= Len(line) /\ line[at] # "rbrace" /\ Fails(line, at)
           /\ Answers(doc, line, want, Nothing)
  <2>1. at \in Nat /\ Len(line) \in Nat
    BY <1>3 DEF Here
  <2>2. ~(at > Len(line) \/ line[at] = "rbrace")
    BY <1>9, <2>1
  <2> QED BY <1>1, <1>7, <1>9, <2>2 DEF Miss, Fails
<1>10. ASSUME at <= Len(line), line[at] # "rbrace", NEW w, Finds(line, at, w),
              IF KeyAt(line, at)[1] = want.key
              THEN Answers(doc, line, want, <<"found", Handed(ValueSpan(line, at, w))>>)
              ELSE Onward(line, w) \in Nat \ {0} /\ CursorAt(doc, line, want, bare, o, Onward(line, w))
       PROVE  JsonInv'
  <2>1. ~(at > Len(line) \/ line[at] = "rbrace")
    <3>1. at \in Nat /\ Len(line) \in Nat
      BY <1>3 DEF Here
    <3> QED BY <1>10, <3>1
  <2>2. x = w /\ ~(e = 0 \/ e > Len(line) \/ line[e] # "colon" \/ x = 0)
    BY <1>10 DEF Finds
  <2>3. CASE KeyAt(line, at)[1] = want.key
    <3>1. got' = answer /\ at' = 0 /\ Answers(doc, line, want, answer)
      BY <1>1, <1>10, <2>1, <2>2, <2>3
    <3>2. ReadsMember'
      BY <1>1, <3>1, ReadsIs
    <3>3. got' # <<"scanning">>
      BY <3>1
    <3> QED BY <1>1, <1>2, <1>3, <1>5, <3>2, <3>3 DEF JsonInv
  <2>4. CASE KeyAt(line, at)[1] # want.key
    <3>1. got' = got /\ at' = y /\ y \in Nat \ {0} /\ CursorAt(doc, line, want, bare, o, y)
      BY <1>1, <1>10, <2>1, <2>2, <2>4
    <3>2. ReadsMember'
      BY <3>1, ReadsIs
    <3> HIDE DEF y
    <3> QED BY <1>1, <1>2, <1>3, <1>5, <3>1, <3>2 DEF JsonInv, Asked
  <2> QED BY <2>3, <2>4
<1> QED BY <1>6, <1>8, <1>9, <1>10 DEF Ahead

LEMMA JsonSteps ==
  JsonInv /\ [JsonNext]_json => JsonInv'
BY JsonRests, JsonArrives, JsonAsks, JsonScans DEF JsonNext

LEMMA DeviceJson ==
  /\ DeviceInit => JsonInit \/ JsonOff
  /\ [DeviceNext]_<<part, vars, keyVars, glow, deco, config, json, hostData, meters>> => [JsonNext]_json
BY Zenon DEF DeviceInit, DeviceNext, Merging, Pressing, Glowing, Drawing, Configuring, Scanning, Telling, Metering

\* Whatever the host writes, with any number of members, texts and items and buffers of
\* any size, a handler gets the value of the member it asks for (tj_object_find,
\* skip_value, tj_value_string, cjk_utf8_lcpy, tj_array_next): as much of a text as
\* fits, in whole characters, and nothing when there is no such member.
THEOREM ReadsTheMember == DeviceSpec => []ReadsMember
<1>1. DeviceInit => JsonInv
  BY DeviceJson, JsonStarts
<1>2. JsonInv /\ [DeviceNext]_<<part, vars, keyVars, glow, deco, config, json, hostData, meters>>
        => JsonInv'
  BY DeviceJson, JsonSteps
<1>3. JsonInv => ReadsMember
  BY DEF JsonInv
<1>4. QED
  BY <1>1, <1>2, <1>3, PTL DEF DeviceSpec
=============================================================================
