---------------------------- MODULE Views_proofs ----------------------------
(***************************************************************************)
(* The views implement the transition machine, for every number of scenes: *)
(* whatever scenes, ticks, timers and animations do, what SceneTrans       *)
(* guarantees holds of the panel as a whole.  Then, part by part, what is  *)
(* shown at rest: the edge light, the clock's face, the weather's baked    *)
(* actors and its pictures, the shared footers and the dashboard's halves. *)
(* Each part has an invariant of its own, on top of the machine's: what is *)
(* in flight ends as the property wants it, whenever no outro has taken it.*)
(***************************************************************************)
EXTENDS Views, SceneTrans_proofs

LEMMA ViewsBegin == ViewInit => Init
BY DEF ViewInit

\* Each action of the views is the machine's step of the same name, a hold or
\* release of the edge light, or nothing to the machine.
LEMMA ViewsStep == [ViewNext]_panel => [Next]_vars
<1> SUFFICES ASSUME [ViewNext]_panel PROVE Next \/ UNCHANGED vars
  OBVIOUS
<1>1. ASSUME NEW t \in Scenes, Start(t) \/ Redirect(t)
      PROVE  Next
  BY <1>1 DEF Start, Redirect, Next, Switch
<1>2. CASE StepView
  BY <1>2 DEF StepView, Cut, Settle, Next, Step
<1>3. CASE SceneTick \/ PushHold \/ DecoTimer \/ WxComp \/ Bake \/ Land \/ WorldMoves
  BY <1>3 DEF SceneTick, PushHold, DecoTimer, WxComp, Bake, Land, WorldMoves
<1>4. CASE GlowPing
  <2>1. CASE Glowing
    BY <1>4, <2>1 DEF GlowPing, vars
  <2>2. CASE ~Glowing
    <3>1. ClientHold("ui_glow")
      BY <1>4, <2>2 DEF GlowPing, Glowing, ClientHold
    <3>2. QED
      BY <3>1, GlowIsClient DEF Next
  <2>3. QED
    BY <2>1, <2>2
<1>5. CASE GlowSettle
  BY <1>5, GlowIsClient DEF GlowSettle, Next
<1>6. CASE MotionMoves \/ Others
  BY <1>6 DEF MotionMoves, Others, Next
<1>7. CASE UNCHANGED panel
  BY <1>7 DEF panel
<1>8. QED
  BY <1>1, <1>2, <1>3, <1>4, <1>5, <1>6, <1>7 DEF ViewNext

\* With all that the views do: the target is the last request, shared elements
\* are judged against the scene that will appear, no transition is wedged, and
\* the holds of the fast period pair.
THEOREM PanelSafe ==
  ViewSpec => [](TypeOK /\ TargetIsLastAsked /\ HeldAgreement /\ BusyIsArmed /\ RefreshTier)
<1>1. Init => MachineInv /\ RefreshTier
  BY MachineInit, TierInit
<1>2. MachineInv /\ RefreshTier /\ [Next]_vars => (MachineInv /\ RefreshTier)'
  BY MachineStep, TierStep
<1>3. MachineInv /\ RefreshTier
        => TypeOK /\ TargetIsLastAsked /\ HeldAgreement /\ BusyIsArmed /\ RefreshTier
  BY DEF MachineInv
<1>4. QED
  BY ViewsBegin, ViewsStep, <1>1, <1>2, <1>3, PTL DEF ViewSpec

\* The panel keeps the display's contract: the glass never shows a scene other
\* than the one it showed or the one asked for last.
THEOREM PanelKeepsContract ==
  ViewSpec => Promise!Init /\ [][Promise!Next]_<<asked, current>>
BY ViewsBegin, ViewsStep, MachineInit, MachineStep, ContractInit, ContractStep, PTL
   DEF ViewSpec
-----------------------------------------------------------------------------
(* The edge light *)

Conns == {"waiting", "ok", "lost"}
Sustained == {"none", "amber", "red"}

Lights == [bar : [Scenes -> Conns \union {"none"}],
           sustain : Sustained,
           picture : {"dark", "amber", "red", "ping"}]

\* What makes GlowFallsBack inductive: the types of the light and of the link.
LightInv ==
  subject = "link" => world \in Conns /\ glass \in Lights /\ GlowFallsBack

\* Whatever a status bar says, a light that no ping covers is the one asked for.
LEMMA UpdateShows ==
  ASSUME NEW g \in Lights, NEW s, NEW conn \in Conns, NEW pings \in BOOLEAN,
         ~pings => g.picture = Glow!Rest(g)
  PROVE  /\ Glow!Update(g, s, conn, pings) \in Lights
         /\ ~pings => Glow!Update(g, s, conn, pings).picture
                        = Glow!Rest(Glow!Update(g, s, conn, pings))
<1> DEFINE light == Glow!Light(conn)
           h == [[g EXCEPT !.bar[s] = conn] EXCEPT !.sustain = light]
<1>1. light \in Sustained
  BY DEF Glow!Light, Sustained
<1>2. h \in Lights /\ h.sustain = light
  BY <1>1 DEF Lights
<1>3. Glow!Rest(h) \in {"dark", "amber", "red"}
  BY <1>1, <1>2 DEF Glow!Rest, Sustained
<1> DEFINE shown == [h EXCEPT !.picture = Glow!Rest(h)]
<1>4. shown \in Lights /\ shown.sustain = h.sustain /\ shown.picture = Glow!Rest(h)
  BY <1>2, <1>3 DEF Lights
<1>5. shown.picture = Glow!Rest(shown)
  BY <1>4 DEF Glow!Rest
<1>6. Glow!Update(g, s, conn, pings) = IF conn = g.bar[s] THEN g
                                       ELSE IF pings THEN h ELSE shown
  BY DEF Glow!Update, Glow!Sustain
<1> HIDE DEF light, h, shown
<1>7. QED
  BY <1>2, <1>4, <1>5, <1>6

LEMMA PingAndSettle ==
  ASSUME NEW g \in Lights
  PROVE  /\ Glow!Ping(g) \in Lights
         /\ Glow!Settle(g) \in Lights
         /\ Glow!Settle(g).picture = Glow!Rest(Glow!Settle(g))
BY DEF Lights, Sustained, Glow!Ping, Glow!Settle, Glow!Rest

\* The machine's own holds do not touch the light's.
LEMMA GlowKept ==
  ASSUME RefrHold \/ RefrDrop \/ UNCHANGED tier
  PROVE  Glowing' = Glowing
BY GlowIsClient DEF RefrHold, RefrDrop, MotionHold, MotionRelease, Glowing, tier

\* To the light a cut is the new scene's first status bar, an outro nothing.
LEMMA ShownLights ==
  ASSUME subject = "link", NEW g, NEW s
  PROVE  Shown(g, s) = Glow!Update(g, s, world, Glowing)
<1>1. Ticked(g, s, TRUE) = {Glow!Update(g, s, world, Glowing)}
  BY DEF Ticked
<1>2. Shown(g, s) = CHOOSE q \in Ticked(g, s, TRUE) : TRUE
  BY DEF Shown
<1>3. QED
  BY <1>1, <1>2

LEMMA LightInit == ViewInit => LightInv
<1> SUFFICES ASSUME ViewInit, subject = "link"
             PROVE  world \in Conns /\ glass \in Lights /\ GlowFallsBack
  BY DEF LightInv
<1>1. world = "waiting" /\ glass = Glow!Update(Glow!New(Scenes), Dash, "waiting", FALSE)
  BY DEF ViewInit, FirstWorld, FirstGlass
<1>2. Glow!New(Scenes) \in Lights /\ Glow!New(Scenes).picture = Glow!Rest(Glow!New(Scenes))
  BY DEF Glow!New, Glow!Rest, Lights, Sustained
<1>3. QED
  BY <1>1, <1>2, UpdateShows DEF Conns, GlowFallsBack

LEMMA SubjectStays == [ViewNext]_panel => subject' = subject
<1>1. ASSUME NEW t \in Scenes, Start(t) \/ Redirect(t)
      PROVE  subject' = subject
  BY <1>1 DEF Start, Redirect
<1>2. StepView \/ SceneTick \/ PushHold \/ DecoTimer \/ WxComp \/ Bake => subject' = subject
  BY DEF StepView, Cut, Settle, SceneTick, PushHold, DecoTimer, WxComp, Bake
<1>3. GlowPing \/ GlowSettle \/ Land \/ WorldMoves => subject' = subject
  BY DEF GlowPing, GlowSettle, Land, WorldMoves
<1>4. MotionMoves \/ Others \/ UNCHANGED panel => subject' = subject
  BY DEF MotionMoves, Others, panel, view
<1>5. QED
  BY <1>1, <1>2, <1>3, <1>4 DEF ViewNext

LEMMA LightStep == LightInv /\ [ViewNext]_panel => LightInv'
<1> SUFFICES ASSUME LightInv, [ViewNext]_panel, subject' = "link" PROVE LightInv'
  BY DEF LightInv
<1>0. subject = "link" /\ world \in Conns /\ glass \in Lights /\ Glowing \in BOOLEAN
      /\ (~Glowing => glass.picture = Glow!Rest(glass))
  BY SubjectStays DEF LightInv, GlowFallsBack, Glowing
<1>a. ASSUME Glowing' = Glowing, world' = world, NEW s,
             glass' = glass \/ glass' = Glow!Update(glass, s, world, Glowing)
      PROVE  LightInv'
  BY <1>0, <1>a, UpdateShows DEF LightInv, GlowFallsBack
<1>1. ASSUME NEW t \in Scenes, Start(t)
      PROVE  LightInv'
  <2>1. Glowing' = Glowing
    BY <1>1, GlowKept DEF Start, StartTransition
  <2>2. glass' = glass \/ glass' = Glow!Update(glass, t, world, Glowing)
    <3>1. Leave(glass, current, t, TRUE) = glass /\ Leave(glass, current, t, FALSE) = glass
      BY <1>0 DEF Leave
    <3>2. CutView(glass, current, t, FALSE) = Glow!Update(glass, t, world, Glowing)
      BY <1>0, ShownLights DEF CutView, Hidden, Enter, Unbaked
    <3>3. QED
      BY <1>1, <3>1, <3>2 DEF Start
  <2>3. QED
    BY <1>1, <1>a, <2>1, <2>2 DEF Start
<1>2. ASSUME NEW t \in Scenes, Redirect(t)
      PROVE  LightInv'
  <2>1. Glowing' = Glowing /\ glass' = glass
    BY <1>0, <1>2, GlowKept DEF Redirect, Retarget, Leave
  <2>2. QED
    BY <1>2, <1>a, <2>1 DEF Redirect
<1>3. CASE Cut
  <2>1. Glowing' = Glowing
    BY <1>3, GlowKept DEF Cut, EndOutro
  <2>2. glass' = Glow!Update(glass, pending, world, Glowing)
    BY <1>0, <1>3, ShownLights DEF Cut, CutView, Arrived, Hidden, Enter, Unbaked
  <2>3. QED
    BY <1>3, <1>a, <2>1, <2>2 DEF Cut
<1>4. CASE Settle
  <2>1. Glowing' = Glowing
    BY <1>4, GlowKept DEF Settle, EndIntro
  <2>2. glass' = glass
    BY <1>0, <1>4 DEF Settle, Arrived, Leave, Unbaked
  <2>3. QED
    BY <1>4, <1>a, <2>1, <2>2 DEF Settle
<1>5. CASE SceneTick
  <2>1. Glowing' = Glowing
    BY <1>5 DEF SceneTick, vars, tier, Glowing
  <2>2. glass' = Glow!Update(glass, current, world, Glowing)
    BY <1>0, <1>5 DEF SceneTick, Ticked
  <2>3. QED
    BY <1>5, <1>a, <2>1, <2>2 DEF SceneTick
<1>6. CASE GlowPing
  <2>1. "ui_glow" \in holding'
    BY <1>6 DEF GlowPing, Glowing, MotionHold, tier
  <2>2. QED
    BY <1>0, <1>6, <2>1, PingAndSettle DEF GlowPing, LightInv, GlowFallsBack, Glowing
<1>7. CASE GlowSettle
  BY <1>0, <1>7, PingAndSettle DEF GlowSettle, LightInv, GlowFallsBack
<1>8. CASE WorldMoves
  <2>1. world' \in Conns /\ glass' = glass /\ Glowing' = Glowing
    BY <1>0, <1>8 DEF WorldMoves, Worlds, Conns, vars, tier, Glowing
  <2>2. QED
    BY <1>0, <2>1 DEF LightInv, GlowFallsBack
<1>9. CASE MotionMoves \/ UNCHANGED panel
  BY <1>9, <1>a DEF MotionMoves, SetMotion, panel, vars, view, tier, Glowing
<1>10. CASE Land
  <2>1. Landings(glass) = {glass}
    BY <1>0 DEF Landings, Arrived
  <2>2. QED
    BY <1>10, <2>1 DEF Land, Still
<1>11. CASE PushHold \/ DecoTimer \/ WxComp \/ Bake \/ Others
  BY <1>0, <1>11 DEF PushHold, DecoTimer, WxComp, Bake, Others
<1>12. QED
  BY <1>1, <1>2, <1>3, <1>4, <1>5, <1>6, <1>7, <1>8, <1>9, <1>10, <1>11 DEF ViewNext, StepView

\* Whenever no ping plays, the edge shows the sustained light asked for last,
\* whichever scene's status bar asked and whatever ping it was asked under.
THEOREM LightFallsBack == ViewSpec => []GlowFallsBack
<1>1. LightInv => GlowFallsBack
  BY DEF LightInv, GlowFallsBack
<1>2. QED
  BY LightInit, LightStep, <1>1, PTL DEF ViewSpec
-----------------------------------------------------------------------------
(* What the steps do to the part that is played *)

\* scene_trans_switch on an idle panel: the shown scene leaves, or at once.
Departs(t) ==
  /\ state = "IDLE" /\ state' = "OUTRO" /\ current' = current /\ pending' = t
  /\ glass' = Leave(glass, current, t, TRUE) /\ astray' = Taken(glass)
  /\ world' = world /\ seen' = FALSE

Jumps(t) ==
  /\ state = "IDLE" /\ state' = "IDLE" /\ t # current /\ current' = t
  /\ glass' = CutView(Leave(glass, current, t, FALSE), current, t, FALSE)
  /\ astray' = Brought(Taken(glass), glass', t)
  /\ world' = world /\ seen' = FALSE

\* Another target during an outro.
Turns(t) ==
  /\ state = "OUTRO" /\ state' = "OUTRO" /\ current' = current /\ pending' = t
  /\ IF t # pending
       THEN (\E move \in BOOLEAN : glass' = Leave(glass, current, t, move)) /\ astray' = Taken(glass)
       ELSE glass' = glass /\ astray' = astray
  /\ world' = world /\ seen' = seen

\* The ends of an outro and of an intro.
Cuts ==
  /\ state = "OUTRO" /\ state' \in {"INTRO", "IDLE"} /\ current' = pending
  /\ \E move \in BOOLEAN :
       /\ move <=> state' = "INTRO"
       /\ glass' = CutView(Arrived(glass), current, pending, move)
  /\ astray' = Brought(astray, glass', pending)
  /\ world' = world /\ seen' = FALSE

TurnsBack ==
  /\ state = "INTRO" /\ state' = "OUTRO" /\ current' = current /\ pending' = pending
  /\ \E move \in BOOLEAN : glass' = Leave(Arrived(glass), current, pending, move)
  /\ astray' = Taken(glass)
  /\ world' = world /\ seen' = seen

Rests ==
  /\ state = "INTRO" /\ state' = "IDLE" /\ current' = current
  /\ glass' = Unbaked(Arrived(glass), current)
  /\ world' = world /\ seen' = seen /\ astray' = astray

\* The rest leave the transition where it stands, and most of it all of the part.
Stays == state' = state /\ current' = current /\ pending' \in Scenes \union {None}
           /\ (state = "OUTRO" => pending' = pending)

Keeps == Stays /\ world' = world /\ glass' = glass /\ seen' = seen /\ astray' = astray

Lone == SceneTick \/ PushHold \/ WxComp \/ Bake \/ Land \/ WorldMoves

\* A part of the panel but for the decoration and the edge light.
Part == subject \in {"clock", "dash", "weather", "sprite", "foot"}

LEMMA PartMoves ==
  ASSUME MachineInv, [ViewNext]_panel, Part
  PROVE  /\ subject' = subject
         /\ \/ \E t \in Scenes : Departs(t) \/ Jumps(t) \/ Turns(t)
            \/ Cuts \/ TurnsBack \/ Rests
            \/ Stays /\ Lone
            \/ Keeps
<1> DEFINE Goal == \/ \E t \in Scenes : Departs(t) \/ Jumps(t) \/ Turns(t)
                   \/ Cuts \/ TurnsBack \/ Rests
                   \/ Stays /\ Lone
                   \/ Keeps
<1>0. /\ TypeOK /\ PendingFits /\ HeldAgreement
      /\ subject # "trans" /\ subject # "link" /\ subject # "deco"
  BY DEF MachineInv, Part
<1>a. current \in Scenes /\ pending \in Scenes \union {None} /\ state \in {"IDLE", "OUTRO", "INTRO"}
  BY <1>0 DEF TypeOK
<1>b. subject' = subject
  BY SubjectStays
<1>1. ASSUME NEW t \in Scenes, Start(t)
      PROVE  Goal
  <2>1. state = "IDLE" /\ t # current /\ world' = world /\ seen' = FALSE
    BY <1>1 DEF Start, StartTransition
  <2>2. CASE state' = "OUTRO"
    <3>1. current' = current /\ pending' = t
      BY <1>1, <2>2 DEF Start, StartTransition, CutTo
    <3>2. glass' = Leave(glass, current, t, TRUE) /\ astray' = Taken(glass)
      BY <1>1, <2>2 DEF Start
    <3>3. QED
      BY <2>1, <2>2, <3>1, <3>2 DEF Departs
  <2>3. CASE state' # "OUTRO"
    <3>1. motion # "full"
      BY <1>0, <1>1, <2>3 DEF Start, Timely
    <3>2. current' = t /\ state' = "IDLE"
      BY <1>1, <3>1 DEF Start, StartTransition, CutTo
    <3>3. /\ glass' = CutView(Leave(glass, current, t, FALSE), current, t, FALSE)
          /\ astray' = Brought(Taken(glass), glass', t)
      BY <1>1, <2>3 DEF Start
    <3>4. QED
      BY <2>1, <3>2, <3>3 DEF Jumps
  <2>4. QED
    BY <2>2, <2>3
<1>2. ASSUME NEW t \in Scenes, Redirect(t)
      PROVE  Goal
  <2>1. /\ state # "IDLE" /\ state' = state /\ current' = current /\ pending' = t
        /\ world' = world /\ seen' = seen
    BY <1>2 DEF Redirect, Retarget
  <2>2. /\ glass' = IF state = "OUTRO" /\ t # pending
                       THEN Leave(glass, current, t, motion = "full") ELSE glass
        /\ astray' = IF state = "OUTRO" /\ t # pending THEN Taken(glass) ELSE astray
    BY <1>2 DEF Redirect
  <2>3. (motion = "full") \in BOOLEAN
    OBVIOUS
  <2>4. CASE state = "OUTRO"
    BY <2>1, <2>2, <2>3, <2>4 DEF Turns
  <2>5. CASE state # "OUTRO"
    BY <2>1, <2>2, <2>5 DEF Keeps, Stays
  <2>6. QED
    BY <2>4, <2>5
<1>3. ASSUME Cut PROVE Goal
  <2>1. /\ state = "OUTRO" /\ pending # None /\ fromP = current
        /\ world' = world /\ seen' = FALSE
        /\ astray' = Brought(astray, glass', pending)
    BY <1>0, <1>3 DEF Cut, EndOutro, PendingFits, HeldAgreement
  <2>2. PICK course \in Courses : CutTo(pending, course)
    BY <1>3, <2>1 DEF Cut, EndOutro
  <2>3. current' = pending /\ state' = IF course = "moves" THEN "INTRO" ELSE "IDLE"
    BY <2>2 DEF CutTo
  <2>4. (motion = "full") <=> state' = "INTRO"
    BY <1>0, <1>3, <2>2, <2>3 DEF Cut, Timely, Courses
  <2>5. /\ (motion = "full") \in BOOLEAN
        /\ glass' = CutView(Arrived(glass), current, pending, motion = "full")
    BY <1>3, <2>1 DEF Cut
  <2>6. Cuts
    BY <2>1, <2>3, <2>4, <2>5 DEF Cuts
  <2>7. QED
    BY <2>6
<1>4. ASSUME Settle PROVE Goal
  <2>1. state = "INTRO" /\ current' = current /\ world' = world /\ seen' = seen
    BY <1>4 DEF Settle, EndIntro
  <2>2. (motion = "full") \in BOOLEAN
    OBVIOUS
  <2>3. CASE pending = None
    <3>1. state' = "IDLE" /\ glass' = Unbaked(Arrived(glass), current) /\ astray' = astray
      BY <1>4, <2>3 DEF Settle, EndIntro
    <3>2. QED
      BY <2>1, <3>1 DEF Rests
  <2>4. CASE pending # None
    <3>1. /\ state' = "OUTRO" /\ pending' = pending
          /\ glass' = Leave(Arrived(glass), current, pending, motion = "full")
          /\ astray' = Taken(glass)
      BY <1>4, <2>4 DEF Settle, EndIntro
    <3>2. QED
      BY <2>1, <2>2, <3>1 DEF TurnsBack
  <2>5. QED
    BY <2>3, <2>4
<1>5. ASSUME Lone PROVE Goal
  <2>1. state' = state /\ current' = current /\ pending' = pending
    BY <1>5 DEF Lone, SceneTick, PushHold, WxComp, Bake, Land, WorldMoves, vars, machine
  <2>2. QED
    BY <1>a, <1>5, <2>1 DEF Stays
<1>6. ASSUME MotionMoves \/ UNCHANGED panel PROVE Goal
  <2>1. Keeps
    BY <1>a, <1>6 DEF MotionMoves, SetMotion, panel, vars, machine, view, Keeps, Stays
  <2>2. QED
    BY <2>1
<1>7. ~(GlowPing \/ GlowSettle \/ Others \/ DecoTimer)
  BY <1>0 DEF GlowPing, GlowSettle, Others, DecoTimer
<1>8. Goal
  BY <1>1, <1>2, <1>3, <1>4, <1>5, <1>6, <1>7 DEF ViewNext, StepView, Lone
<1>9. QED
  BY <1>b, <1>8
-----------------------------------------------------------------------------
(* The clock *)

Faces == [push : BOOLEAN, hold : BOOLEAN, ok : BOOLEAN,
          face : {"full", "clear", "in", "out"}, y : {"rest", "slot"},
          slide : {"none", "rest", "slot"}, size : {"big", "small"},
          morph : {"none", "big", "small"}, top : {"hidden", "full", "in", "out"},
          card : {"hidden", "shown", "in", "out"}, prev : BOOLEAN]

\* A face that is gone, or goes, has the small clock in its place.
TimeShown(c) == c.face \in {"clear", "out"} => c.top \in {"in", "full"}

\* What is in flight on a clock that no outro has taken ends as FaceAtRest
\* wants it: at the big size, with the card up, or with the face in its place.
FaceDue(c) ==
  /\ c.morph = "big" \/ (c.morph = "none" /\ c.size = "big")
  /\ IF c.push
       THEN c.face \in {"out", "clear"} /\ c.top \in {"in", "full"} /\ c.card \in {"in", "shown"}
       ELSE /\ c.face \in {"in", "full"} /\ c.top \in {"out", "hidden"}
            /\ c.card \in {"out", "hidden"}
            /\ c.slide = "rest" \/ (c.slide = "none" /\ (c.morph = "big" \/ c.y = "rest"))

FaceInv ==
  subject = "clock" =>
    /\ glass \in Faces /\ TimeShown(glass)
    /\ current = Clock /\ state # "OUTRO" => FaceDue(glass)

\* The clock's handlers keep the time on the glass, and what is due at rest.
LEMMA FaceTick ==
  ASSUME NEW c \in Faces, NEW status, TimeShown(c)
  PROVE  /\ Face!Tick(c, status) \in Faces /\ TimeShown(Face!Tick(c, status))
         /\ FaceDue(c) => FaceDue(Face!Tick(c, status))
<1> DEFINE r == Face!Retreat(c)
           e == Face!EnterPush(r)
           p == [e EXCEPT !.push = TRUE, !.hold = TRUE]
           t == Face!Trigger(c)
           runs == status = "running"
<1>1. /\ r \in Faces /\ r.ok = c.ok /\ r.morph = c.morph /\ r.size = c.size
      /\ r.face \in {"out", "clear"} /\ r.top \in {"in", "full"}
  BY DEF Face!Retreat, Faces
<1>2. /\ p \in Faces /\ p.push /\ p.morph = c.morph /\ p.size = c.size
      /\ p.face \in {"out", "clear"} /\ p.top \in {"in", "full"} /\ p.card \in {"in", "shown"}
  <2> HIDE DEF r
  <2> QED
    BY ZenonT(60), <1>1 DEF Face!EnterPush, Faces
<1>3. t = c \/ t = p
  BY DEF Face!Trigger
<1>4. t \in Faces /\ TimeShown(t) /\ (FaceDue(c) => FaceDue(t))
  <2> HIDE DEF p, t
  <2> QED
    BY <1>2, <1>3 DEF TimeShown, FaceDue
<1>5. Face!Tick(c, status) \in {[t EXCEPT !.prev = runs], [c EXCEPT !.prev = runs]}
  BY DEF Face!Tick
<1>6. ASSUME NEW d \in Faces, TimeShown(d), FaceDue(c) => FaceDue(d)
      PROVE  /\ [d EXCEPT !.prev = runs] \in Faces /\ TimeShown([d EXCEPT !.prev = runs])
             /\ FaceDue(c) => FaceDue([d EXCEPT !.prev = runs])
  BY ZenonT(60), <1>6 DEF Faces, TimeShown, FaceDue
<1> HIDE DEF t, runs
<1>7. QED
  BY <1>4, <1>5, <1>6

LEMMA FaceDismiss ==
  ASSUME NEW c \in Faces, TimeShown(c)
  PROVE  /\ Face!Dismiss(c) \in Faces /\ TimeShown(Face!Dismiss(c))
         /\ FaceDue(c) => FaceDue(Face!Dismiss(c))
<1> DEFINE e == Face!Entrance(c)
           d == Face!Dismiss(c)
<1>1. /\ e \in Faces /\ e.face \in {"in", "full"} /\ e.morph = c.morph /\ e.size = c.size
      /\ e.slide = "rest" \/ (e.slide = "none" /\ e.y = "rest")
  BY DEF Face!Entrance, Faces
<1>2. d = [e EXCEPT !.push = FALSE, !.hold = FALSE,
                    !.card = IF c.ok THEN "out" ELSE "hidden",
                    !.top = IF c.ok /\ c.top # "hidden" THEN "out" ELSE "hidden"]
  BY DEF Face!Dismiss
<1> HIDE DEF e, d
<1> DEFINE card == IF c.ok THEN "out" ELSE "hidden"
           top == IF c.ok /\ c.top # "hidden" THEN "out" ELSE "hidden"
<1>a. card \in {"out", "hidden"} /\ top \in {"out", "hidden"}
  OBVIOUS
<1>b. d = [e EXCEPT !.push = FALSE, !.hold = FALSE, !.card = card, !.top = top]
  BY <1>2
<1> HIDE DEF card, top
<1>3. /\ d \in Faces /\ d.face = e.face /\ d.morph = c.morph /\ d.size = c.size
      /\ d.slide = e.slide /\ d.y = e.y /\ d.push = FALSE
      /\ d.card \in {"out", "hidden"} /\ d.top \in {"out", "hidden"}
  <2>1. e \in Faces /\ card \in {"out", "hidden"} /\ top \in {"out", "hidden"}
    BY <1>1, <1>a
  <2>2. d \in Faces
    <3> DEFINE h == [e EXCEPT !.push = FALSE, !.hold = FALSE]
    <3>1. h \in Faces
      BY <2>1 DEF Faces
    <3> DEFINE i == [h EXCEPT !.card = card]
    <3>2. i \in Faces
      <4> HIDE DEF h
      <4> QED
        BY <2>1, <3>1 DEF Faces
    <3>3. d = [i EXCEPT !.top = top]
      BY <1>b
    <3> HIDE DEF h, i
    <3>4. QED
      BY <2>1, <3>2, <3>3 DEF Faces
  <2>3. d.face = e.face /\ d.slide = e.slide /\ d.y = e.y /\ d.morph = e.morph /\ d.size = e.size
    BY <2>1, <1>b DEF Faces
  <2>4. d.push = FALSE /\ d.card = card /\ d.top = top
    BY <2>1, <1>b DEF Faces
  <2>5. QED
    BY <1>1, <2>1, <2>2, <2>3, <2>4
<1>4. TimeShown(d) /\ (FaceDue(c) => FaceDue(d))
  BY <1>1, <1>3 DEF TimeShown, FaceDue
<1>5. QED
  BY <1>3, <1>4 DEF d

LEMMA FaceArrived ==
  ASSUME NEW c \in Faces, TimeShown(c)
  PROVE  /\ Face!Arrived(c) \in Faces /\ TimeShown(Face!Arrived(c))
         /\ FaceDue(c) => FaceDue(Face!Arrived(c))
         /\ Face!Arrived(c).morph = "none"
<1> DEFINE a == Face!Arrived(c)
<1>1. /\ a \in Faces /\ a.morph = "none" /\ a.size = IF c.morph = "none" THEN c.size ELSE c.morph
      /\ c.morph = "big" /\ c.slide = "none" => a.y = "rest"
      /\ c.morph = "none" \/ c.slide # "none" => a.y = c.y
  BY DEF Face!Arrived, Faces
<1>2. /\ a.push = c.push /\ a.face = c.face /\ a.top = c.top
      /\ a.card = c.card /\ a.slide = c.slide
  BY DEF Face!Arrived, Faces
<1> HIDE DEF a
<1>3. TimeShown(a) /\ (FaceDue(c) => FaceDue(a))
  BY <1>1, <1>2 DEF TimeShown, FaceDue
<1>4. QED
  BY <1>1, <1>3 DEF a

LEMMA FaceLanded ==
  ASSUME NEW c \in Faces, TimeShown(c)
  PROVE  /\ Face!Landed(c) \in Faces /\ TimeShown(Face!Landed(c))
         /\ FaceDue(c) => FaceDue(Face!Landed(c))
<1> DEFINE a == Face!Arrived(c)
           d == Face!Landed(c)
<1>1. /\ a \in Faces /\ a.morph = "none" /\ (FaceDue(c) => FaceDue(a))
      /\ TimeShown(a)
  BY FaceArrived
<1>2. a.slide = c.slide /\ a.face = c.face /\ a.top = c.top /\ a.card = c.card
  BY DEF Face!Arrived, Faces
<1>3. d = [a EXCEPT
             !.y = IF c.slide = "none" THEN a.y ELSE c.slide,
             !.slide = "none", !.face = Face!Opaque(c.face),
             !.top = CASE c.top = "in" -> "full" [] c.top = "out" -> "hidden" [] OTHER -> c.top,
             !.card = CASE c.card = "in" -> "shown" [] c.card = "out" -> "hidden"
                        [] OTHER -> c.card]
  BY DEF Face!Landed
<1> DEFINE y == IF c.slide = "none" THEN a.y ELSE c.slide
           face == Face!Opaque(c.face)
           top == CASE c.top = "in" -> "full" [] c.top = "out" -> "hidden" [] OTHER -> c.top
           card == CASE c.card = "in" -> "shown" [] c.card = "out" -> "hidden" [] OTHER -> c.card
<1> HIDE DEF a
<1>a. /\ y \in {"rest", "slot"} /\ y = IF a.slide = "none" THEN a.y ELSE a.slide
      /\ face \in {"full", "clear"} /\ top \in {"hidden", "full"} /\ card \in {"hidden", "shown"}
  BY <1>1, <1>2 DEF Face!Opaque, Faces
<1>b. d = [a EXCEPT !.y = y, !.slide = "none", !.face = face, !.top = top, !.card = card]
  BY <1>3
<1> HIDE DEF d, y, face, top, card
<1>4. /\ d \in Faces /\ d.morph = "none" /\ d.size = a.size /\ d.push = a.push
      /\ d.slide = "none" /\ d.y = (IF a.slide = "none" THEN a.y ELSE a.slide)
      /\ d.face = face /\ d.top = top /\ d.card = card
  <2>1. a \in Faces /\ y \in {"rest", "slot"}
        /\ face \in {"full", "clear"} /\ top \in {"hidden", "full"} /\ card \in {"hidden", "shown"}
    BY <1>1, <1>a
  <2>2. d \in Faces
    <3> DEFINE h == [a EXCEPT !.y = y, !.slide = "none"]
           i == [h EXCEPT !.face = face]
    <3>1. h \in Faces
      BY <2>1 DEF Faces
    <3>2. i \in Faces
      <4> HIDE DEF h
      <4> QED
        BY <2>1, <3>1 DEF Faces
    <3> DEFINE j == [i EXCEPT !.top = top]
    <3>3. j \in Faces
      <4> HIDE DEF i
      <4> QED
        BY <2>1, <3>2 DEF Faces
    <3>4. d = [j EXCEPT !.card = card]
      BY <1>b
    <3> HIDE DEF h, i, j
    <3>5. QED
      BY <2>1, <3>3, <3>4 DEF Faces
  <2>3. d.morph = a.morph /\ d.size = a.size /\ d.push = a.push
    BY <2>1, <1>b DEF Faces
  <2>4. d.slide = "none" /\ d.y = y /\ d.face = face /\ d.top = top /\ d.card = card
    BY <2>1, <1>b DEF Faces
  <2>5. QED
    BY <1>1, <1>a, <2>2, <2>3, <2>4
<1>5. /\ a.face \in {"in", "full"} => d.face = "full"
      /\ a.face \in {"out", "clear"} => d.face = "clear"
      /\ a.top \in {"in", "full"} => d.top = "full"
      /\ a.top \in {"out", "hidden"} => d.top = "hidden"
      /\ a.card \in {"in", "shown"} => d.card = "shown"
      /\ a.card \in {"out", "hidden"} => d.card = "hidden"
  BY <1>2, <1>4 DEF Face!Opaque, face, top, card
<1>6. TimeShown(d)
  <2>1. a.face \in {"in", "full"} \/ a.face \in {"out", "clear"}
    BY <1>1 DEF Faces
  <2>2. QED
    BY <1>1, <1>5, <2>1 DEF TimeShown
<1>7. FaceDue(a) => FaceDue(d)
  BY <1>1, <1>4, <1>5 DEF FaceDue
<1>8. QED
  BY <1>1, <1>4, <1>6, <1>7 DEF d

LEMMA FaceLeaves ==
  ASSUME NEW c \in Faces, NEW move
  PROVE  Face!ToConsensus(c, move) \in Faces /\ TimeShown(Face!ToConsensus(c, move))
BY DEF Face!ToConsensus, Face!FaceAlone, Face!Small, Faces, TimeShown

LEMMA FaceCut ==
  ASSUME NEW c \in Faces, NEW move \in BOOLEAN, NEW ok \in BOOLEAN, NEW status
  PROVE  /\ Face!Hide(c) \in Faces /\ TimeShown(Face!Hide(c))
         /\ Face!FromConsensus(Face!Show(c, ok, status), move) \in Faces
         /\ TimeShown(Face!FromConsensus(Face!Show(c, ok, status), move))
         /\ FaceDue(Face!FromConsensus(Face!Show(c, ok, status), move))
<1> DEFINE s == Face!Show(c, ok, status)
           f == Face!FromConsensus(s, move)
<1>1. Face!Hide(c) \in Faces /\ TimeShown(Face!Hide(c))
  BY ZenonT(60) DEF Face!Hide, Face!FaceAlone, Face!Big, Faces, TimeShown
<1>2. s \in Faces /\ ~s.push /\ s.card = "hidden"
  BY ZenonT(60) DEF Face!Show, Face!Big, Faces
<1> HIDE DEF s
<1> DEFINE a == Face!FaceAlone(s)
<1>a. /\ a \in Faces /\ ~a.push /\ a.card = "hidden" /\ a.face = "full" /\ a.top = "hidden"
      /\ a.slide = "none" /\ a.morph = "none"
  BY ZenonT(60), <1>2 DEF Face!FaceAlone, Faces
<1>b. f = IF move THEN [Face!Small(a) EXCEPT !.morph = "big"] ELSE Face!Big(a)
  BY DEF Face!FromConsensus
<1> HIDE DEF a, f
<1>c. /\ Face!Small(a) \in Faces /\ ~Face!Small(a).push /\ Face!Small(a).card = "hidden"
      /\ Face!Small(a).face = "full" /\ Face!Small(a).top = "hidden" /\ Face!Small(a).slide = "none"
  BY <1>a DEF Face!Small, Faces
<1>d. /\ Face!Big(a) \in Faces /\ ~Face!Big(a).push /\ Face!Big(a).card = "hidden"
      /\ Face!Big(a).face = "full" /\ Face!Big(a).top = "hidden" /\ Face!Big(a).slide = "none"
      /\ Face!Big(a).morph = "none" /\ Face!Big(a).size = "big" /\ Face!Big(a).y = "rest"
  BY <1>a DEF Face!Big, Faces
<1>3. /\ f \in Faces /\ ~f.push /\ f.card = "hidden" /\ f.face = "full" /\ f.top = "hidden"
      /\ f.slide = "none"
      /\ f.morph = "big" \/ (f.morph = "none" /\ f.size = "big" /\ f.y = "rest")
  <2>1. CASE move
    BY <1>b, <1>c, <2>1 DEF Faces
  <2>2. CASE ~move
    BY <1>b, <1>d, <2>2
  <2>3. QED
    BY <2>1, <2>2
<1>4. TimeShown(f) /\ FaceDue(f)
  BY <1>3 DEF TimeShown, FaceDue
<1>5. QED
  BY <1>1, <1>3, <1>4 DEF f, s

LEMMA FaceInit == ViewInit => FaceInv
<1> SUFFICES ASSUME ViewInit, subject = "clock" PROVE FaceInv
  BY DEF FaceInv
<1>1. glass = Face!New /\ current = 0 /\ state = "IDLE"
  BY DEF ViewInit, FirstGlass, Init
<1>2. QED
  BY <1>1 DEF FaceInv, Face!New, Faces, TimeShown, Clock

LEMMA FaceStep == MachineInv /\ FaceInv /\ [ViewNext]_panel => FaceInv'
<1> SUFFICES ASSUME MachineInv, FaceInv, [ViewNext]_panel, subject' = "clock" PROVE FaceInv'
  BY DEF FaceInv
<1>0. subject = "clock" /\ glass \in Faces /\ TimeShown(glass)
      /\ (current = Clock /\ state # "OUTRO" => FaceDue(glass))
  BY SubjectStays DEF FaceInv
<1>a. ASSUME glass' \in Faces, TimeShown(glass'),
             current' = Clock /\ state' # "OUTRO" => FaceDue(glass')
      PROVE  FaceInv'
  <2>1. /\ (glass \in Faces)' /\ TimeShown(glass)'
        /\ (current = Clock /\ state # "OUTRO" => FaceDue(glass))'
    BY <1>a DEF Faces, TimeShown, FaceDue
  <2>2. QED
    BY <2>1 DEF FaceInv
<1>b. ASSUME NEW g \in Faces, TimeShown(g), NEW to, NEW move
      PROVE  Leave(g, current, to, move) \in Faces /\ TimeShown(Leave(g, current, to, move))
  BY <1>0, <1>b, FaceLeaves DEF Leave
<1>c. /\ Arrived(glass) \in Faces /\ TimeShown(Arrived(glass))
      /\ Landings(glass) = {Face!Landed(glass)}
  BY <1>0, FaceArrived DEF Arrived, Landings
<1>d. ASSUME NEW g \in Faces, TimeShown(g), NEW from, NEW to, NEW move \in BOOLEAN
      PROVE  /\ CutView(g, from, to, move) \in Faces /\ TimeShown(CutView(g, from, to, move))
             /\ to = Clock => FaceDue(CutView(g, from, to, move))
  <2> DEFINE h == Hidden(g, from)
             ok == motion = "full"
  <2>1. h \in Faces /\ TimeShown(h)
    BY <1>0, <1>d, FaceCut DEF Hidden
  <2>2. Unbaked(g, from) = g /\ \A k : Unbaked(k, to) = k
    BY <1>0 DEF Unbaked
  <2>3. CASE to = Clock
    <3>1. Shown(h, to) = Face!Show(h, ok, world)
      BY <1>0, <2>3 DEF Shown
    <3>2. CutView(g, from, to, move) = Face!FromConsensus(Face!Show(h, ok, world), move)
      BY <1>0, <2>2, <2>3, <3>1 DEF CutView, Enter
    <3>3. ok \in BOOLEAN
      OBVIOUS
    <3> HIDE DEF h, ok
    <3>4. QED
      BY <2>1, <3>2, <3>3, FaceCut
  <2>4. CASE to # Clock
    <3>1. Ticked(h, to, TRUE) = {h}
      BY <1>0, <2>4 DEF Ticked
    <3>2. Shown(h, to) = h
      BY <1>0, <2>4, <3>1 DEF Shown
    <3>3. CutView(g, from, to, move) = h
      BY <1>0, <2>2, <2>4, <3>2 DEF CutView, Enter
    <3> HIDE DEF h
    <3>4. QED
      BY <2>1, <2>4, <3>3
  <2>5. QED
    BY <2>3, <2>4
<1>1. ASSUME NEW t \in Scenes, Departs(t) \/ Jumps(t) \/ Turns(t)
      PROVE  FaceInv'
  <2>1. CASE Departs(t)
    BY <1>0, <1>a, <1>b, <2>1 DEF Departs
  <2>2. CASE Jumps(t)
    <3>1. Leave(glass, current, t, FALSE) \in Faces /\ TimeShown(Leave(glass, current, t, FALSE))
      BY <1>0, <1>b
    <3>2. QED
      BY <1>a, <1>d, <2>2, <3>1 DEF Jumps
  <2>3. CASE Turns(t)
    BY <1>0, <1>a, <1>b, <2>3 DEF Turns
  <2>4. QED
    BY <1>1, <2>1, <2>2, <2>3
<1>2. CASE Cuts
  BY <1>a, <1>c, <1>d, <1>2 DEF Cuts
<1>3. CASE TurnsBack
  BY <1>a, <1>b, <1>c, <1>3 DEF TurnsBack
<1>4. CASE Rests
  <2>1. glass' = Face!Arrived(glass) /\ state = "INTRO" /\ current' = current
    BY <1>0, <1>4 DEF Rests, Unbaked, Arrived
  <2>2. QED
    BY <1>0, <1>a, <2>1, FaceArrived
<1>5. ASSUME Stays, NEW g \in Faces, TimeShown(g), FaceDue(glass) => FaceDue(g), glass' = g
      PROVE  FaceInv'
  BY <1>0, <1>a, <1>5 DEF Stays
<1>6. CASE Stays /\ Lone
  <2>1. CASE SceneTick
    <3>1. glass' = glass \/ glass' = Face!Tick(glass, world)
      BY <1>0, <2>1 DEF SceneTick, Ticked
    <3>2. QED
      BY <1>0, <1>5, <1>6, <3>1, FaceTick
  <2>2. CASE PushHold
    BY <1>0, <1>5, <1>6, <2>2, FaceDismiss DEF PushHold
  <2>3. CASE Land
    <3>1. glass' = Face!Landed(glass)
      BY <1>c, <2>3 DEF Land
    <3>2. QED
      BY <1>0, <1>5, <1>6, <3>1, FaceLanded
  <2>4. CASE WorldMoves
    BY <1>0, <1>5, <1>6, <2>4 DEF WorldMoves
  <2>5. ~WxComp /\ ~Bake
    BY <1>0 DEF WxComp, Bake
  <2>6. QED
    BY <1>6, <2>1, <2>2, <2>3, <2>4, <2>5 DEF Lone
<1>7. CASE Keeps
  BY <1>0, <1>5, <1>7 DEF Keeps
<1>8. QED
  BY <1>0, <1>1, <1>2, <1>3, <1>4, <1>6, <1>7, PartMoves DEF Part

\* A clock that has come to rest shows the time once, in full and in its place:
\* whatever presses, cards, dwell timers and transitions have crossed.
THEOREM ClockRests == ViewSpec => []FaceAtRest
<1>1. FaceInv => FaceAtRest
  <2> SUFFICES ASSUME FaceInv, subject = "clock", AtRest(Clock) PROVE FaceAtRest
    BY DEF FaceAtRest
  <2>1. glass \in Faces /\ FaceDue(glass) /\ Face!Landed(glass) = glass
    BY DEF FaceInv, AtRest, Still, Landings
  <2>2. glass.slide = "none" /\ glass.morph = "none"
        /\ glass.face \in {"full", "clear"} /\ glass.top \in {"hidden", "full"}
        /\ glass.card \in {"hidden", "shown"}
    BY <2>1 DEF Face!Landed, Face!Arrived, Face!Opaque, Faces
  <2>3. QED
    BY <2>1, <2>2 DEF FaceAtRest, FaceDue
<1>2. QED
  BY ViewsBegin, ViewsStep, MachineInit, MachineStep, FaceInit, FaceStep, <1>1, PTL DEF ViewSpec

\* The time is never off the glass while the clock is shown.
THEOREM TimeStaysOnGlass == ViewSpec => []TimeOnGlass
<1>1. FaceInv => TimeOnGlass
  BY DEF FaceInv, TimeOnGlass, TimeShown
<1>2. QED
  BY ViewsBegin, ViewsStep, MachineInit, MachineStep, FaceInit, FaceStep, <1>1, PTL DEF ViewSpec
-----------------------------------------------------------------------------
(* The weather's baked actors *)

Poses == {"rest", "out", "mid"}

Actors == [bake : BOOLEAN, at : Poses, hidden : BOOLEAN, sprite : Poses \union {"none"},
           fly : {"none", "in", "out"}]

\* An actor that came in is at rest, or on its way there, itself or its sprite.
ActorDue(a) ==
  /\ a.fly # "out"
  /\ a.fly = "none" => IF a.sprite = "none" THEN a.hidden \/ a.at = "rest" ELSE a.sprite = "rest"

\* A sprite covers a hidden object, in the weather view and in a transition
\* only; what hides the object otherwise is the weather.
SpriteFits(a, inWeather, idle) ==
  /\ a.sprite # "none" => a.hidden /\ inWeather /\ ~idle
  /\ a.hidden => world = "told" \/ a.sprite # "none"

SpriteInv ==
  subject = "sprite" =>
    /\ glass \in Actors
    /\ SpriteFits(glass, current = Weather, state = "IDLE")
    /\ current = Weather /\ state # "OUTRO" => ActorDue(glass)

LEMMA ActorArrives ==
  ASSUME NEW a \in Actors
  PROVE  /\ Baked!Arrived(a) \in Actors /\ Baked!Arrived(a).fly = "none"
         /\ Baked!Arrived(a).hidden = a.hidden
         /\ Baked!Arrived(a).sprite = "none" <=> a.sprite = "none"
         /\ ActorDue(a) => ActorDue(Baked!Arrived(a))
BY DEF Baked!Arrived, Baked!MoveTo, Actors, Poses, ActorDue

LEMMA ActorFreed ==
  ASSUME NEW a \in Actors, a.sprite # "none" => a.hidden
  PROVE  /\ Baked!End(a) \in Actors /\ Baked!End(a).sprite = "none"
         /\ Baked!End(a).hidden => a.hidden /\ a.sprite = "none"
         /\ a.fly = "none" /\ ActorDue(a) => ActorDue(Baked!End(a))
BY DEF Baked!End, Actors, Poses, ActorDue

LEMMA ActorKilled ==
  ASSUME NEW a \in Actors
  PROVE  /\ Baked!Kill(a) \in Actors /\ Baked!Kill(a).fly = "none"
         /\ Baked!Kill(a).hidden = a.hidden
         /\ Baked!Kill(a).sprite = "none" <=> a.sprite = "none"
BY DEF Baked!Kill, Baked!MoveTo, Actors, Poses

\* The actor stopped, and stopped under its new sprite; one that is seen has none
\* to hand its pose back.
LEMMA ActorCovered ==
  ASSUME NEW a \in Actors, a.sprite # "none" => a.hidden, NEW k, k = Baked!Kill(a)
  PROVE  /\ k \in Actors /\ k.fly = "none" /\ k.hidden = a.hidden
         /\ k.sprite = "none" <=> a.sprite = "none"
         /\ Baked!Begin(k) \in Actors
         /\ ~a.hidden => /\ a.sprite = "none" /\ Baked!End(k) = k
                         /\ Baked!Begin(k).sprite # "none" <=> Baked!Begin(k).hidden
<1>1. /\ k \in Actors /\ k.fly = "none" /\ k.hidden = a.hidden
      /\ k.sprite = "none" <=> a.sprite = "none"
  BY ActorKilled
<1> DEFINE g == Baked!Begin(k)
<1>2. g = IF k.bake /\ k.sprite = "none" /\ ~k.hidden
            THEN [k EXCEPT !.sprite = k.at, !.hidden = TRUE] ELSE k
  BY DEF Baked!Begin
<1> HIDE DEF g
<1>3. g \in Actors /\ (g = k \/ (g.sprite # "none" /\ g.hidden = TRUE))
  BY <1>1, <1>2 DEF Actors, Poses
<1>4. ~a.hidden => a.sprite = "none" /\ Baked!End(k) = k
  BY <1>1 DEF Baked!End
<1>5. ~a.hidden => (g.sprite # "none" <=> g.hidden)
  <2>1. CASE g = k
    BY <1>1, <1>4, <2>1
  <2>2. CASE g.sprite # "none" /\ g.hidden = TRUE
    BY <2>2
  <2>3. QED
    BY <1>3, <2>1, <2>2
<1>6. QED
  BY <1>1, <1>3, <1>4, <1>5 DEF g

LEMMA ActorLeaves ==
  ASSUME NEW a \in Actors, a.sprite # "none" => a.hidden, NEW move \in BOOLEAN
  PROVE  /\ Baked!Outro(a, move) \in Actors
         /\ Baked!Outro(a, move).sprite # "none" => Baked!Outro(a, move).hidden
         /\ Baked!Outro(a, move).hidden => a.hidden \/ Baked!Outro(a, move).sprite # "none"
         /\ a.sprite = "none" /\ ~move => Baked!Outro(a, move).sprite = "none"
<1> DEFINE k == Baked!Kill(a)
           g == Baked!Begin(k)
<1>1. Baked!Outro(a, move) = IF a.hidden THEN k ELSE IF move THEN [g EXCEPT !.fly = "out"]
                                                ELSE Baked!MoveTo(Baked!End(k), "out")
  BY DEF Baked!Outro
<1>2. /\ k \in Actors /\ k.hidden = a.hidden /\ (k.sprite = "none" <=> a.sprite = "none")
      /\ g \in Actors
      /\ ~a.hidden => a.sprite = "none" /\ Baked!End(k) = k /\ (g.sprite # "none" <=> g.hidden)
  BY ActorCovered
<1> HIDE DEF k, g
<1>3. QED
  BY <1>1, <1>2 DEF Baked!MoveTo, Actors, Poses

LEMMA ActorEnters ==
  ASSUME NEW a \in Actors, a.sprite = "none", NEW move \in BOOLEAN
  PROVE  /\ Baked!Intro(a, move) \in Actors
         /\ Baked!Intro(a, move).sprite # "none" => Baked!Intro(a, move).hidden
         /\ Baked!Intro(a, move).hidden => a.hidden \/ Baked!Intro(a, move).sprite # "none"
         /\ ~move => Baked!Intro(a, move).sprite = "none"
         /\ ActorDue(Baked!Intro(a, move))
<1> DEFINE k == Baked!Kill(a)
           g == Baked!Begin(k)
           m == Baked!MoveTo(g, "out")
<1>1. Baked!Intro(a, move) = IF a.hidden THEN k ELSE IF move THEN [m EXCEPT !.fly = "in"]
                                                ELSE Baked!MoveTo(Baked!End(k), "rest")
  BY DEF Baked!Intro
<1>2. /\ k \in Actors /\ k.fly = "none" /\ k.hidden = a.hidden /\ k.sprite = "none"
      /\ g \in Actors
      /\ ~a.hidden => Baked!End(k) = k /\ (g.sprite # "none" <=> g.hidden)
  BY ActorCovered
<1>3. m \in Actors /\ m.hidden = g.hidden /\ (m.sprite = "none" <=> g.sprite = "none")
  <2> HIDE DEF g
  <2> QED
    BY <1>2 DEF Baked!MoveTo, Actors, Poses
<1> HIDE DEF k, g, m
<1>4. QED
  BY <1>1, <1>2, <1>3 DEF Baked!MoveTo, Actors, Poses, ActorDue

LEMMA ActorInit == ViewInit => SpriteInv
<1> SUFFICES ASSUME ViewInit, subject = "sprite" PROVE SpriteInv
  BY DEF SpriteInv
<1>1. glass = Baked!New /\ current = 0 /\ state = "IDLE"
  BY DEF ViewInit, FirstGlass, Init
<1>2. QED
  BY <1>1 DEF SpriteInv, SpriteFits, Baked!New, Actors, Poses, Weather

LEMMA ActorStep == MachineInv /\ SpriteInv /\ [ViewNext]_panel => SpriteInv'
<1> SUFFICES ASSUME MachineInv, SpriteInv, [ViewNext]_panel, subject' = "sprite" PROVE SpriteInv'
  BY DEF SpriteInv
<1>0. /\ subject = "sprite" /\ glass \in Actors
      /\ SpriteFits(glass, current = Weather, state = "IDLE")
      /\ current = Weather /\ state # "OUTRO" => ActorDue(glass)
  BY SubjectStays DEF SpriteInv
<1>a. ASSUME glass' \in Actors,
             glass'.sprite # "none" => glass'.hidden /\ current' = Weather /\ state' # "IDLE",
             glass'.hidden => world' = "told" \/ glass'.sprite # "none",
             current' = Weather /\ state' # "OUTRO" => ActorDue(glass')
      PROVE  SpriteInv'
  <2>1. (glass \in Actors)' /\ SpriteFits(glass, current = Weather, state = "IDLE")'
        /\ (current = Weather /\ state # "OUTRO" => ActorDue(glass))'
    BY <1>a DEF Actors, Poses, SpriteFits, ActorDue
  <2>2. QED
    BY <2>1 DEF SpriteInv
<1>b. ASSUME NEW g \in Actors, SpriteFits(g, current = Weather, FALSE), NEW to, NEW move \in BOOLEAN
      PROVE  /\ Leave(g, current, to, move) \in Actors
             /\ SpriteFits(Leave(g, current, to, move), current = Weather, FALSE)
             /\ g.sprite = "none" /\ ~move => Leave(g, current, to, move).sprite = "none"
  <2>1. CASE current = Weather
    <3>1. Leave(g, current, to, move) = Baked!Outro(g, move)
      BY <1>0, <2>1 DEF Leave
    <3>2. g.sprite # "none" => g.hidden
      BY <1>b DEF SpriteFits
    <3>3. /\ Baked!Outro(g, move) \in Actors
          /\ Baked!Outro(g, move).sprite # "none" => Baked!Outro(g, move).hidden
          /\ Baked!Outro(g, move).hidden => g.hidden \/ Baked!Outro(g, move).sprite # "none"
          /\ g.sprite = "none" /\ ~move => Baked!Outro(g, move).sprite = "none"
      BY <3>2, ActorLeaves
    <3>4. g.hidden /\ g.sprite # "none" => Baked!Outro(g, move).sprite # "none"
      BY ActorKilled DEF Baked!Outro
    <3>5. QED
      BY <1>b, <2>1, <3>1, <3>3, <3>4 DEF SpriteFits
  <2>2. CASE current # Weather
    <3>1. Leave(g, current, to, move) = g
      BY <1>0, <2>2 DEF Leave
    <3>2. QED
      BY <1>b, <3>1
  <2>3. QED
    BY <2>1, <2>2
<1>c. Arrived(glass) = Baked!Arrived(glass) /\ Landings(glass) = {Baked!Arrived(glass)}
  BY <1>0 DEF Arrived, Landings
<1>d. ASSUME NEW g \in Actors, SpriteFits(g, current = Weather, FALSE), NEW to, NEW move \in BOOLEAN
      PROVE  /\ CutView(g, current, to, move) \in Actors
             /\ SpriteFits(CutView(g, current, to, move), to = Weather, ~move)
             /\ to = Weather => ActorDue(CutView(g, current, to, move))
  <2> DEFINE e == Unbaked(g, current)
             i == Enter(e, to, current, move)
  <2>1. e \in Actors /\ e.sprite = "none" /\ (e.hidden => world = "told")
    <3>1. CASE current = Weather
      BY <1>0, <1>b, <1>d, <3>1, ActorFreed DEF Unbaked, SpriteFits
    <3>2. CASE current # Weather
      BY <1>0, <1>d, <3>2 DEF Unbaked, SpriteFits
    <3>3. QED
      BY <3>1, <3>2
  <2>2. \A k : Ticked(k, to, TRUE) = {k}
    BY <1>0 DEF Ticked, Baked!Tick
  <2>3. Shown(Hidden(e, current), to) = e
    BY <1>0, <2>2 DEF Shown, Hidden
  <2>4. CutView(g, current, to, move) = IF move THEN i ELSE Unbaked(i, to)
    BY <2>3 DEF CutView
  <2>5. CASE to = Weather
    <3>1. i = Baked!Intro(e, move)
      BY <1>0, <2>5 DEF Enter
    <3> HIDE DEF e
    <3>2. /\ i \in Actors /\ ActorDue(i) /\ (i.sprite # "none" => i.hidden)
          /\ i.hidden => world = "told" \/ i.sprite # "none"
          /\ ~move => i.sprite = "none"
      <4> HIDE DEF i
      <4> QED
        BY <2>1, <3>1, ActorEnters
    <3> HIDE DEF i
    <3>3. ~move => Unbaked(i, to) = i
      BY <1>0, <2>5, <3>2 DEF Unbaked, Baked!End
    <3>4. CutView(g, current, to, move) = i
      BY <2>4, <3>3
    <3>5. QED
      BY <2>5, <3>2, <3>4 DEF SpriteFits
  <2>6. CASE to # Weather
    <3>1. i = e /\ Unbaked(i, to) = e
      BY <1>0, <2>6 DEF Enter, Unbaked
    <3> HIDE DEF e, i
    <3>2. CutView(g, current, to, move) = e
      BY <2>4, <3>1
    <3>3. QED
      BY <2>1, <2>6, <3>2 DEF SpriteFits
  <2>7. QED
    BY <2>5, <2>6
<1>e. ASSUME NEW g \in Actors, g = glass \/ g = Arrived(glass)
      PROVE  SpriteFits(g, current = Weather, FALSE)
  BY <1>0, <1>c, <1>e, ActorArrives DEF SpriteFits
<1>1. ASSUME NEW t \in Scenes, Departs(t) \/ Jumps(t) \/ Turns(t)
      PROVE  SpriteInv'
  <2>1. CASE Departs(t)
    <3>1. /\ Leave(glass, current, t, TRUE) \in Actors
          /\ SpriteFits(Leave(glass, current, t, TRUE), current = Weather, FALSE)
      BY <1>0, <1>b, <1>e
    <3>2. QED
      BY <1>a, <2>1, <3>1 DEF Departs, SpriteFits
  <2>2. CASE Jumps(t)
    <3> DEFINE l == Leave(glass, current, t, FALSE)
    <3>1. l \in Actors /\ SpriteFits(l, current = Weather, FALSE)
      BY <1>0, <1>b, <1>e
    <3> HIDE DEF l
    <3>2. /\ CutView(l, current, t, FALSE) \in Actors
          /\ SpriteFits(CutView(l, current, t, FALSE), t = Weather, TRUE)
          /\ t = Weather => ActorDue(CutView(l, current, t, FALSE))
      BY <1>d, <3>1
    <3>3. glass' = CutView(l, current, t, FALSE) /\ current' = t /\ world' = world
      BY <2>2 DEF Jumps, l
    <3>4. QED
      BY <1>a, <3>2, <3>3 DEF SpriteFits
  <2>3. CASE Turns(t)
    <3>1. PICK move \in BOOLEAN : glass' \in {glass, Leave(glass, current, t, move)}
      BY <2>3 DEF Turns
    <3>2. glass' \in Actors /\ SpriteFits(glass', current = Weather, FALSE)
      BY ZenonT(60), <1>0, <1>b, <1>e, <3>1
    <3>3. QED
      BY <1>a, <2>3, <3>2 DEF Turns, SpriteFits
  <2>4. QED
    BY <1>1, <2>1, <2>2, <2>3
<1>2. CASE Cuts
  <2>1. PICK move \in BOOLEAN : /\ move <=> state' = "INTRO"
                                /\ glass' = CutView(Arrived(glass), current, pending, move)
    BY <1>2 DEF Cuts
  <2>2. Arrived(glass) \in Actors /\ SpriteFits(Arrived(glass), current = Weather, FALSE)
    BY <1>0, <1>c, <1>e, ActorArrives
  <2>3. /\ glass' \in Actors /\ SpriteFits(glass', pending = Weather, ~move)
        /\ pending = Weather => ActorDue(glass')
    BY <1>d, <2>1, <2>2
  <2>4. QED
    BY <1>a, <1>2, <2>1, <2>3 DEF Cuts, SpriteFits
<1>3. CASE TurnsBack
  <2>1. Arrived(glass) \in Actors /\ SpriteFits(Arrived(glass), current = Weather, FALSE)
    BY <1>0, <1>c, <1>e, ActorArrives
  <2>2. PICK move \in BOOLEAN : glass' = Leave(Arrived(glass), current, pending, move)
    BY <1>3 DEF TurnsBack
  <2>3. glass' \in Actors /\ SpriteFits(glass', current = Weather, FALSE)
    BY <1>b, <2>1, <2>2
  <2>4. QED
    BY <1>a, <1>3, <2>3 DEF TurnsBack, SpriteFits
<1>4. CASE Rests
  <2> DEFINE a == Baked!Arrived(glass)
  <2>1. /\ a \in Actors /\ a.fly = "none" /\ SpriteFits(a, current = Weather, FALSE)
        /\ current = Weather => ActorDue(a)
    BY <1>0, <1>c, <1>e, <1>4, ActorArrives DEF Rests
  <2>2. glass' = IF current = Weather THEN Baked!End(a) ELSE a
    BY <1>0, <1>c, <1>4 DEF Rests, Unbaked
  <2> HIDE DEF a
  <2>3. /\ glass' \in Actors /\ glass'.sprite = "none" /\ (glass'.hidden => world = "told")
        /\ current = Weather => ActorDue(glass')
    BY <2>1, <2>2, ActorFreed DEF SpriteFits
  <2>4. QED
    BY <1>a, <1>4, <2>3 DEF Rests
<1>5. CASE Stays /\ Lone
  <2>0. state' = state /\ current' = current
    BY <1>5 DEF Stays
  <2>1. CASE SceneTick
    <3>1. \/ glass' = glass
          \/ state = "IDLE" /\ world = "told" /\ glass' = [glass EXCEPT !.hidden = TRUE]
      BY <1>0, <2>1 DEF SceneTick, Ticked, Baked!Tick
    <3>2. world' = world
      BY <2>1 DEF SceneTick
    <3>3. QED
      BY <1>0, <1>a, <2>0, <3>1, <3>2 DEF SpriteFits, Actors, ActorDue
  <2>2. CASE Bake
    BY <1>0, <1>a, <2>0, <2>2 DEF Bake, SpriteFits, Actors, ActorDue
  <2>3. CASE Land
    <3>1. glass' = Baked!Arrived(glass) /\ world' = world
      BY <1>c, <2>3 DEF Land
    <3>2. QED
      BY <1>0, <1>a, <2>0, <3>1, ActorArrives DEF SpriteFits
  <2>4. CASE WorldMoves
    BY <1>0, <1>a, <2>0, <2>4 DEF WorldMoves, SpriteFits
  <2>5. ~WxComp /\ ~PushHold
    BY <1>0 DEF WxComp, PushHold
  <2>6. QED
    BY <1>5, <2>1, <2>2, <2>3, <2>4, <2>5 DEF Lone
<1>6. CASE Keeps
  BY <1>0, <1>a, <1>6 DEF Keeps, Stays, SpriteFits
<1>7. QED
  BY <1>0, <1>1, <1>2, <1>3, <1>4, <1>5, <1>6, PartMoves DEF Part

\* However transitions are turned round, baking is switched and snapshots fail:
\* no sprite outlives its transition, and the object stands at rest then, seen
\* unless the weather hides it.
THEOREM NoSpriteIsLeft == ViewSpec => []NoSpriteLeft
<1>1. SpriteInv => NoSpriteLeft
  <2> SUFFICES ASSUME SpriteInv, subject = "sprite", state = "IDLE"
               PROVE  /\ glass.sprite = "none"
                      /\ AtRest(Weather) => Baked!Free(glass) /\ (glass.hidden => world = "told")
    BY DEF NoSpriteLeft
  <2>1. glass \in Actors /\ glass.sprite = "none" /\ (glass.hidden => world = "told")
        /\ (current = Weather => ActorDue(glass))
    BY DEF SpriteInv, SpriteFits
  <2>2. ASSUME AtRest(Weather) PROVE glass.fly = "none" /\ current = Weather
    BY <2>1, <2>2, ActorArrives DEF AtRest, Still, Landings, Arrived
  <2>3. QED
    BY <2>1, <2>2 DEF ActorDue, Baked!Free
<1>2. QED
  BY ViewsBegin, ViewsStep, MachineInit, MachineStep, ActorInit, ActorStep, <1>1, PTL DEF ViewSpec
-----------------------------------------------------------------------------
(* The footers *)

Footers == [at : {"rest", "off"}, fly : {"none", "in", "out"}]

\* During an outro the footer stands, when the next view has it too, or is gone
\* by the time the black frame comes.
FootReady(g, to) ==
  IF to \in Footed THEN g[current] = Footer("rest", "none")
  ELSE FooterArrived(g[current]).at = "off"

FootInv ==
  subject = "foot" =>
    /\ glass \in [Footed -> Footers]
    /\ state = "OUTRO" /\ current \in Footed => FootReady(glass, pending)

LEMMA FootArrives ==
  ASSUME NEW f \in Footers
  PROVE  /\ FooterArrived(f) \in Footers
         /\ FooterArrived(FooterArrived(f)) = FooterArrived(f)
         /\ f = Footer("rest", "none") => FooterArrived(f) = f
BY DEF FooterArrived, Footer, Footers

LEMMA FootLeaves ==
  ASSUME NEW g \in [Footed -> Footers], subject = "foot", NEW to, NEW move \in BOOLEAN
  PROVE  /\ Leave(g, current, to, move) \in [Footed -> Footers]
         /\ current \in Footed => FootReady(Leave(g, current, to, move), to)
<1>1. CASE current \in Footed
  <2> DEFINE held == SamePose(current, to)
             f == IF held THEN Footer("rest", "none")
                  ELSE IF move THEN Footer(g[current].at, "out") ELSE Footer("off", "none")
  <2>1. Leave(g, current, to, move) = [g EXCEPT ![current] = f]
    BY <1>1 DEF Leave, FooterLeaves
  <2>2. f \in Footers
    BY <1>1 DEF Footers, Footer
  <2>3. IF to \in Footed THEN f = Footer("rest", "none") ELSE FooterArrived(f).at = "off"
    BY <1>1 DEF SamePose, FooterArrived, Footer
  <2> HIDE DEF f, held
  <2>4. QED
    BY <1>1, <2>1, <2>2, <2>3 DEF FootReady
<1>2. CASE current \notin Footed
  BY <1>2 DEF Leave
<1>3. QED
  BY <1>1, <1>2

\* A cut leaves the old view's footer as it is and brings in the new one's,
\* which stands at once when the old view had it.
LEMMA FootCut ==
  ASSUME NEW g \in [Footed -> Footers], subject = "foot", NEW from, NEW to, NEW move \in BOOLEAN
  PROVE  /\ CutView(g, from, to, move) \in [Footed -> Footers]
         /\ \A s \in Footed \ {to} : CutView(g, from, to, move)[s] = g[s]
         /\ {from, to} \subseteq Footed => CutView(g, from, to, move)[to] = Footer("rest", "none")
<1>1. Ticked(g, to, TRUE) = {g}
  BY DEF Ticked
<1>2. Shown(g, to) = g /\ Hidden(g, from) = g /\ \A k, s : Unbaked(k, s) = k
  BY <1>1 DEF Shown, Hidden, Unbaked
<1>3. CutView(g, from, to, move) = Enter(g, to, from, move)
  BY <1>2 DEF CutView
<1>4. CASE to \in Footed
  <2> DEFINE f == IF SamePose(to, from) \/ ~move THEN Footer("rest", "none")
                  ELSE Footer("off", "in")
  <2>1. Enter(g, to, from, move) = [g EXCEPT ![to] = f]
    BY <1>4 DEF Enter, FooterComes
  <2>2. f \in Footers /\ ({from, to} \subseteq Footed => f = Footer("rest", "none"))
    BY DEF Footers, Footer, SamePose
  <2> HIDE DEF f
  <2>3. QED
    BY <1>3, <1>4, <2>1, <2>2
<1>5. CASE to \notin Footed
  BY <1>3, <1>5 DEF Enter
<1>6. QED
  BY <1>4, <1>5

LEMMA FootInit == ViewInit => FootInv
<1> SUFFICES ASSUME ViewInit, subject = "foot" PROVE FootInv
  BY DEF FootInv
<1>1. glass = [s \in Footed |-> Footer("rest", "none")] /\ state = "IDLE"
  BY DEF ViewInit, FirstGlass, Init
<1>2. QED
  BY <1>1 DEF FootInv, Footers, Footer

FootMoves ==
  current' # current =>
    /\ current \in Footed =>
         glass'[current].at = IF current' \in Footed THEN "rest" ELSE "off"
    /\ {current, current'} \subseteq Footed => glass'[current'] = Footer("rest", "none")

LEMMA FootStep ==
  ASSUME MachineInv, FootInv, [ViewNext]_panel, subject = "foot"
  PROVE  FootInv' /\ FootMoves
<1>0. /\ glass \in [Footed -> Footers]
      /\ state = "OUTRO" /\ current \in Footed => FootReady(glass, pending)
  BY DEF FootInv
<1>a. ASSUME glass' \in [Footed -> Footers],
             state' = "OUTRO" /\ current' \in Footed =>
               IF pending' \in Footed THEN glass'[current'] = Footer("rest", "none")
               ELSE FooterArrived(glass'[current']).at = "off"
      PROVE  FootInv'
  <2>1. /\ (glass \in [Footed -> Footers])'
        /\ (state = "OUTRO" /\ current \in Footed => FootReady(glass, pending))'
    BY <1>a DEF FootReady, Footed, Footers, FooterArrived, Footer, Clock, Dash
  <2>2. QED
    BY <2>1 DEF FootInv
<1> DEFINE a == Arrived(glass)
<1>b. /\ a = [s \in Footed |-> FooterArrived(glass[s])] /\ Landings(glass) = {a}
  BY DEF Arrived, Landings
<1>c. a \in [Footed -> Footers]
  BY <1>0, <1>b, FootArrives
<1>d. state = "OUTRO" /\ current \in Footed => FootReady(a, pending)
  <2> SUFFICES ASSUME state = "OUTRO", current \in Footed PROVE FootReady(a, pending)
    OBVIOUS
  <2>1. glass[current] \in Footers /\ a[current] = FooterArrived(glass[current])
    BY <1>0, <1>b
  <2> HIDE DEF a
  <2>2. QED
    BY <1>0, <2>1, FootArrives DEF FootReady
<1>e. ASSUME NEW g \in [Footed -> Footers], NEW t, t # current,
             current \in Footed =>
               IF t \in Footed THEN g[current].at = "rest" ELSE g[current].at = "off",
             NEW move \in BOOLEAN, glass' = CutView(g, current, t, move), current' = t
      PROVE  glass' \in [Footed -> Footers] /\ FootMoves
  <2>1. /\ glass' \in [Footed -> Footers] /\ \A s \in Footed \ {t} : glass'[s] = g[s]
        /\ {current, t} \subseteq Footed => glass'[t] = Footer("rest", "none")
    BY <1>e, FootCut
  <2>2. QED
    BY <1>e, <2>1 DEF FootMoves
<1> HIDE DEF a
<1>1. ASSUME NEW t \in Scenes, Departs(t) \/ Jumps(t) \/ Turns(t)
      PROVE  FootInv' /\ FootMoves
  <2> DEFINE l(move) == Leave(glass, current, t, move)
  <2>0. \A move \in BOOLEAN : /\ l(move) \in [Footed -> Footers]
                              /\ current \in Footed => FootReady(l(move), t)
    BY <1>0, FootLeaves
  <2> HIDE DEF l
  <2>1. CASE Departs(t)
    <3>1. glass' = l(TRUE) /\ current' = current /\ pending' = t
      BY <2>1 DEF Departs, l
    <3>2. QED
      BY <1>a, <2>0, <3>1 DEF FootReady, FootMoves
  <2>2. CASE Jumps(t)
    <3>1. /\ glass' = CutView(l(FALSE), current, t, FALSE)
          /\ current' = t /\ t # current /\ state' = "IDLE"
      BY <2>2 DEF Jumps, l
    <3>2. current \in Footed => IF t \in Footed THEN l(FALSE)[current].at = "rest"
                                                ELSE l(FALSE)[current].at = "off"
      <4>1. ASSUME current \in Footed, t \in Footed PROVE l(FALSE)[current].at = "rest"
        <5>1. FootReady(l(FALSE), t)
          BY <2>0, <4>1
        <5>2. l(FALSE)[current] = Footer("rest", "none")
          BY <4>1, <5>1 DEF FootReady
        <5>3. Footer("rest", "none").at = "rest"
          BY DEF Footer
        <5>4. QED
          BY <5>2, <5>3
      <4>2. ASSUME current \in Footed, t \notin Footed PROVE l(FALSE)[current].at = "off"
        <5>1. l(FALSE) = [glass EXCEPT ![current] = Footer("off", "none")]
          BY <4>2 DEF l, Leave, FooterLeaves, SamePose
        <5>2. l(FALSE)[current] = Footer("off", "none")
          BY <1>0, <4>2, <5>1
        <5>3. Footer("off", "none").at = "off"
          BY DEF Footer
        <5>4. QED
          BY <5>2, <5>3
      <4>3. QED
        BY <4>1, <4>2
    <3>3. glass' \in [Footed -> Footers] /\ FootMoves
      BY <1>e, <2>0, <3>1, <3>2
    <3>4. QED
      BY <1>a, <3>1, <3>3
  <2>3. CASE Turns(t)
    <3>1. current' = current /\ pending' = t
          /\ \/ glass' = glass /\ t = pending /\ state = "OUTRO"
             \/ \E move \in BOOLEAN : glass' = l(move)
      BY <2>3 DEF Turns, l
    <3>2. glass' \in [Footed -> Footers] /\ (current \in Footed => FootReady(glass', t))
      BY <1>0, <2>0, <3>1
    <3>3. QED
      BY <1>a, <3>1, <3>2 DEF FootReady, FootMoves
  <2>4. QED
    BY <1>1, <2>1, <2>2, <2>3
<1>2. CASE Cuts
  <2>1. PICK move \in BOOLEAN : glass' = CutView(a, current, pending, move)
    BY <1>2 DEF Cuts, a
  <2>2. state = "OUTRO" /\ state' # "OUTRO" /\ current' = pending
    BY <1>2 DEF Cuts
  <2>3. glass' \in [Footed -> Footers]
    BY <1>c, <2>1, FootCut
  <2>4. CASE pending = current
    BY <1>a, <2>2, <2>3, <2>4 DEF FootMoves
  <2>5. CASE pending # current
    <3>1. current \in Footed =>
            IF pending \in Footed THEN a[current].at = "rest" ELSE a[current].at = "off"
      <4>1. current \in Footed =>
              glass[current] \in Footers /\ a[current] = FooterArrived(glass[current])
        BY <1>0, <1>b
      <4>2. QED
        BY <1>0, <1>d, <2>2, <4>1 DEF FootReady, Footer
    <3>2. FootMoves
      BY <1>c, <1>e, <2>1, <2>2, <2>5, <3>1
    <3>3. QED
      BY <1>a, <2>2, <2>3, <3>2
  <2>6. QED
    BY <2>4, <2>5
<1>3. CASE TurnsBack
  <2>1. PICK move \in BOOLEAN : glass' = Leave(a, current, pending, move)
    BY <1>3 DEF TurnsBack, a
  <2>2. glass' \in [Footed -> Footers] /\ (current \in Footed => FootReady(glass', pending))
    BY <1>c, <2>1, FootLeaves
  <2>3. QED
    BY <1>3, <1>a, <2>2 DEF TurnsBack, FootReady, FootMoves
<1>4. CASE Rests
  <2>1. glass' = a /\ state' = "IDLE" /\ current' = current
    BY <1>4 DEF Rests, Unbaked, a
  <2>2. QED
    BY <1>a, <1>c, <2>1 DEF FootMoves
<1>5. CASE Stays /\ Lone
  <2>1. glass' \in {glass, a}
    BY <1>0, <1>b, <1>5 DEF Lone, SceneTick, Ticked, PushHold, WxComp, Bake, Land, WorldMoves
  <2>2. current' = current /\ state' = state /\ (state = "OUTRO" => pending' = pending)
    BY <1>5 DEF Stays
  <2>3. /\ glass' \in [Footed -> Footers]
        /\ state = "OUTRO" /\ current \in Footed => FootReady(glass', pending)
    BY <1>0, <1>c, <1>d, <2>1
  <2>4. QED
    BY <1>a, <2>2, <2>3 DEF FootReady, FootMoves
<1>6. CASE Keeps
  BY <1>0, <1>a, <1>6 DEF Keeps, Stays, FootReady, FootMoves
<1>7. QED
  BY <1>1, <1>2, <1>3, <1>4, <1>5, <1>6, PartMoves DEF Part

\* A footer that two views share stands still through the black cut between
\* them; one that the next view does not have has left before it.
THEOREM FootersContinue == ViewSpec => FooterContinuity
<1>1. MachineInv /\ FootInv /\ [ViewNext]_panel => FootInv'
  BY SubjectStays, FootStep DEF FootInv
<1>2. MachineInv /\ FootInv /\ [ViewNext]_panel
        => [subject = "foot" /\ current' # current =>
              /\ current \in Footed =>
                   glass'[current].at = IF current' \in Footed THEN "rest" ELSE "off"
              /\ {current, current'} \subseteq Footed =>
                   glass'[current'] = Footer("rest", "none")]_panel
  BY FootStep DEF FootMoves
<1>3. QED
  BY ViewsBegin, ViewsStep, MachineInit, MachineStep, FootInit, <1>1, <1>2, PTL
     DEF ViewSpec, FooterContinuity
-----------------------------------------------------------------------------
(* The weather's pictures *)

Fields == {"on", "applied", "stamp", "drawn", "seen", "code", "sig", "illus", "strip",
           "words", "time", "morph"}

\* Only the types that the arguments below need.
SkyType(w, data) ==
  /\ DOMAIN w = Fields
  /\ w.on \in BOOLEAN /\ w.applied \in BOOLEAN /\ w.drawn \in BOOLEAN
  /\ w.stamp \in Nat /\ w.stamp <= data.stamp

\* A bitmap that has an identity is of that content, on the ground of this theme.
Identified(w) ==
  w.applied =>
    /\ w.sig # "none" /\ w.strip[1] # "none" => w.strip = <<w.sig, w.seen>>
    /\ w.code # "none" /\ w.illus[1] # "none" => w.illus = <<w.code, w.seen>>

\* What is drawn, and not due to be drawn again, is the report of that stamp.
Drawn(w, data) ==
  w.drawn /\ w.on = w.applied /\ w.stamp # 0 /\ w.stamp = data.stamp =>
    /\ w.words = w.stamp
    /\ w.strip = Wx!Picture(w, data.days)
    /\ w.illus = Wx!Picture(w, data.code)

SkyGood(w, data) == SkyType(w, data) /\ Identified(w) /\ Drawn(w, data)

SkyDue(w) == w.morph = "rest" \/ (w.morph = "none" /\ w.time = "rest")

IsReport(data) ==
  data.stamp \in Nat /\ data.code \in {"sun", "rain"} /\ data.days \in {"wet", "dry"}

\* A view ticked at rest is of this theme, and has drawn this report if there is one.
SkyRead(w, data, theme) ==
  w.seen = theme /\ (data.stamp # 0 => w.drawn /\ w.stamp = data.stamp)

SkyInv ==
  subject = "weather" =>
    /\ IsReport(world.data) /\ SkyGood(glass, world.data)
    /\ current = Weather /\ state # "OUTRO" => SkyDue(glass)
    /\ seen => /\ state = "IDLE"
               /\ current = Weather => SkyRead(glass, world.data, world.theme)

\* The labels' pose is no matter to the pictures, nor are the pictures to it.
LEMMA SkyPoses ==
  ASSUME NEW w, NEW data, SkyGood(w, data), NEW move,
         NEW v, v \in {Wx!ToConsensus(w, move), Wx!FromConsensus(w, move), Wx!Landed(w)}
  PROVE  /\ SkyGood(v, data) /\ \A theme : SkyRead(w, data, theme) => SkyRead(v, data, theme)
         /\ v = Wx!FromConsensus(w, move) => SkyDue(v)
         /\ v = Wx!Landed(w) /\ SkyDue(w) => SkyDue(v)
<1>1. /\ DOMAIN v = Fields
      /\ v.on = w.on /\ v.applied = w.applied /\ v.stamp = w.stamp /\ v.drawn = w.drawn
      /\ v.seen = w.seen /\ v.code = w.code /\ v.sig = w.sig /\ v.illus = w.illus
      /\ v.strip = w.strip /\ v.words = w.words
  BY DEF SkyGood, SkyType, Fields, Wx!ToConsensus, Wx!FromConsensus, Wx!Landed
<1>2. SkyGood(v, data)
  BY <1>1 DEF SkyGood, SkyType, Identified, Drawn, Wx!Picture, Wx!Ground
<1>3. \A theme : SkyRead(w, data, theme) => SkyRead(v, data, theme)
  BY <1>1 DEF SkyRead
<1>4. v = Wx!FromConsensus(w, move) => SkyDue(v)
  BY DEF SkyGood, SkyType, Fields, Wx!FromConsensus, SkyDue
<1>5. v = Wx!Landed(w) /\ SkyDue(w) => SkyDue(v)
  BY DEF SkyGood, SkyType, Fields, Wx!Landed, SkyDue
<1>6. QED
  BY <1>2, <1>3, <1>4, <1>5

LEMMA SkyThemed ==
  ASSUME NEW w, NEW data, SkyGood(w, data), NEW theme
  PROVE  /\ SkyGood(Wx!ThemeWatch(w, theme), data) /\ Wx!ThemeWatch(w, theme).seen = theme
         /\ SkyDue(w) => SkyDue(Wx!ThemeWatch(w, theme))
<1> DEFINE v == [w EXCEPT !.seen = theme, !.code = "none", !.sig = "none", !.drawn = FALSE]
<1>1. /\ DOMAIN v = Fields
      /\ v.on = w.on /\ v.applied = w.applied /\ v.stamp = w.stamp /\ v.drawn = FALSE
      /\ v.seen = theme /\ v.code = "none" /\ v.sig = "none"
      /\ v.time = w.time /\ v.morph = w.morph
  BY DEF SkyGood, SkyType, Fields
<1> HIDE DEF v
<1>2. SkyGood(v, data) /\ (SkyDue(w) => SkyDue(v))
  BY <1>1 DEF SkyGood, SkyType, Identified, Drawn, SkyDue
<1>3. Wx!ThemeWatch(w, theme) = IF theme = w.seen THEN w ELSE v
  BY DEF Wx!ThemeWatch, v
<1>4. QED
  BY <1>1, <1>2, <1>3

LEMMA SkyFormed ==
  ASSUME NEW w, NEW data, SkyGood(w, data)
  PROVE  /\ SkyGood(Wx!ApplyForm(w), data)
         /\ Wx!ApplyForm(w).on = Wx!ApplyForm(w).applied
         /\ Wx!ApplyForm(w).seen = w.seen
         /\ SkyDue(w) => SkyDue(Wx!ApplyForm(w))
<1> DEFINE v == [w EXCEPT !.applied = w.on, !.code = "none", !.sig = "none", !.drawn = FALSE,
                          !.illus = <<"none", "live">>, !.strip = <<"none", "live">>]
<1>1. /\ DOMAIN v = Fields
      /\ v.on = w.on /\ v.applied = w.on /\ v.stamp = w.stamp /\ v.drawn = FALSE
      /\ v.seen = w.seen /\ v.code = "none" /\ v.sig = "none"
      /\ v.time = w.time /\ v.morph = w.morph
  BY DEF SkyGood, SkyType, Fields
<1> HIDE DEF v
<1>2. SkyGood(v, data) /\ (SkyDue(w) => SkyDue(v))
  BY <1>1 DEF SkyGood, SkyType, Identified, Drawn, SkyDue
<1>3. Wx!ApplyForm(w) = IF w.applied = w.on THEN w ELSE v
  BY DEF Wx!ApplyForm, v
<1>4. QED
  BY <1>1, <1>2, <1>3

\* Whichever bakes fail, the pictures that are kept or made are of this report.
LEMMA SkyRendered ==
  ASSUME NEW w, NEW data, IsReport(data), SkyGood(w, data), w.on = w.applied,
         NEW i \in BOOLEAN, NEW s \in BOOLEAN,
         NEW r, r = Wx!Render([w EXCEPT !.stamp = data.stamp], data, i, s)
  PROVE  /\ SkyGood(r, data) /\ r.seen = w.seen /\ r.drawn /\ r.stamp = data.stamp
         /\ SkyDue(w) => SkyDue(r)
<1> DEFINE v == [w EXCEPT !.stamp = data.stamp]
<1>1. /\ DOMAIN v = Fields
      /\ v.on = w.on /\ v.applied = w.applied /\ v.stamp = data.stamp /\ v.drawn = w.drawn
      /\ v.seen = w.seen /\ v.code = w.code /\ v.sig = w.sig /\ v.illus = w.illus
      /\ v.strip = w.strip /\ v.time = w.time /\ v.morph = w.morph
  BY DEF SkyGood, SkyType, Fields
<1>2. r = Wx!Render(v, data, i, s)
  OBVIOUS
<1> HIDE DEF v
<1> DEFINE stripDirty == ~v.applied \/ v.strip[1] = "none" \/ v.sig # data.days
           illusDirty == ~v.applied \/ v.illus[1] = "none" \/ v.code # data.code
           stripOk    == ~v.applied \/ ~stripDirty \/ s
           illusOk    == ~v.applied \/ ~illusDirty \/ i
           strip == IF stripDirty /\ stripOk THEN Wx!Picture(v, data.days) ELSE v.strip
           sig == IF v.applied /\ stripDirty THEN IF stripOk THEN data.days ELSE "none" ELSE v.sig
           illus == IF illusDirty /\ illusOk THEN Wx!Picture(v, data.code) ELSE v.illus
           code == IF v.applied /\ illusDirty THEN IF illusOk THEN data.code ELSE "none" ELSE v.code
           on == v.on /\ stripOk /\ illusOk
<1>3. r = [v EXCEPT !.words = data.stamp, !.drawn = TRUE, !.strip = strip, !.sig = sig,
                    !.illus = illus, !.code = code, !.on = on]
  BY <1>2 DEF Wx!Render
<1> HIDE DEF stripDirty, illusDirty, stripOk, illusOk, strip, sig, illus, code, on
<1>4. /\ DOMAIN r = Fields
      /\ r.on = on /\ r.applied = v.applied /\ r.stamp = data.stamp /\ r.drawn = TRUE
      /\ r.seen = v.seen /\ r.code = code /\ r.sig = sig /\ r.illus = illus
      /\ r.strip = strip /\ r.words = data.stamp /\ r.time = v.time /\ r.morph = v.morph
  BY ZenonT(60), <1>1, <1>3 DEF Fields
<1>5. v.applied \in BOOLEAN /\ v.on = v.applied /\ on \in BOOLEAN
  BY <1>1 DEF SkyGood, SkyType, on
<1>6. /\ v.sig # "none" /\ v.strip[1] # "none" /\ v.applied => v.strip = <<v.sig, v.seen>>
      /\ v.code # "none" /\ v.illus[1] # "none" /\ v.applied => v.illus = <<v.code, v.seen>>
  BY <1>1 DEF SkyGood, Identified
<1>7. data.days # "none" /\ data.code # "none"
  BY DEF IsReport
<1>8. Wx!Picture(r, data.days) = Wx!Picture(v, data.days)
      /\ Wx!Picture(r, data.code) = Wx!Picture(v, data.code)
  BY <1>4 DEF Wx!Picture, Wx!Ground
<1>9. v.applied => /\ Wx!Picture(v, data.days) = <<data.days, v.seen>>
                   /\ Wx!Picture(v, data.code) = <<data.code, v.seen>>
  BY DEF Wx!Picture, Wx!Ground
<1>10. v.applied /\ sig # "none" /\ strip[1] # "none" => strip = <<sig, v.seen>>
  BY <1>6, <1>9 DEF sig, strip, stripDirty, stripOk
<1>11. v.applied /\ code # "none" /\ illus[1] # "none" => illus = <<code, v.seen>>
  BY <1>6, <1>9 DEF code, illus, illusDirty, illusOk
<1>12. Identified(r)
  BY <1>4, <1>10, <1>11 DEF Identified
<1>13. stripOk => strip = Wx!Picture(v, data.days)
  BY <1>6, <1>7, <1>9 DEF strip, stripDirty
<1>14. illusOk => illus = Wx!Picture(v, data.code)
  BY <1>6, <1>7, <1>9 DEF illus, illusDirty
<1>15. on = v.applied => stripOk /\ illusOk
  BY <1>5 DEF on, stripOk, illusOk
<1>16. Drawn(r, data)
  BY <1>4, <1>8, <1>13, <1>14, <1>15 DEF Drawn
<1>17. SkyType(r, data)
  <2>1. r.on \in BOOLEAN /\ r.applied \in BOOLEAN /\ r.drawn \in BOOLEAN
    BY <1>4, <1>5
  <2>2. DOMAIN r = Fields /\ r.stamp \in Nat /\ r.stamp <= data.stamp
    BY <1>4 DEF IsReport
  <2>3. QED
    BY <2>1, <2>2 DEF SkyType
<1>18. SkyDue(w) => SkyDue(r)
  BY <1>1, <1>4 DEF SkyDue
<1>19. QED
  BY <1>1, <1>4, <1>12, <1>16, <1>17, <1>18 DEF SkyGood

LEMMA SkyTicked ==
  ASSUME NEW w, NEW data, IsReport(data), SkyGood(w, data), NEW theme,
         NEW busy \in BOOLEAN, NEW i \in BOOLEAN, NEW s \in BOOLEAN, NEW b \in BOOLEAN,
         NEW t, t = Wx!Tick(w, data, theme, busy, i, s, b)
  PROVE  /\ SkyGood(t, data) /\ (SkyDue(w) => SkyDue(t))
         /\ ~busy => SkyRead(t, data, theme)
<1> DEFINE v == Wx!ThemeWatch(w, theme)
           f == IF busy THEN v ELSE Wx!ApplyForm(v)
           dirty == data.stamp # 0 /\ (data.stamp # f.stamp \/ ~f.drawn)
           r == Wx!Render([f EXCEPT !.stamp = data.stamp], data, i, s)
           d == IF busy \/ ~dirty THEN f ELSE r
<1>1. SkyGood(v, data) /\ v.seen = theme /\ (SkyDue(w) => SkyDue(v))
  BY SkyThemed
<1>2. SkyGood(f, data) /\ f.seen = theme /\ (SkyDue(w) => SkyDue(f)) /\ (~busy => f.on = f.applied)
  <2> HIDE DEF v
  <2> QED
    BY <1>1, SkyFormed
<1>3. ~busy => SkyGood(r, data) /\ r.seen = theme /\ r.drawn /\ r.stamp = data.stamp
               /\ (SkyDue(w) => SkyDue(r))
  <2> HIDE DEF f
  <2>1. ASSUME ~busy
        PROVE  /\ SkyGood(r, data) /\ r.seen = f.seen /\ r.drawn /\ r.stamp = data.stamp
               /\ SkyDue(f) => SkyDue(r)
    BY <1>2, <2>1, SkyRendered
  <2>2. QED
    BY <1>2, <2>1
<1>4. SkyGood(d, data) /\ (SkyDue(w) => SkyDue(d)) /\ (~busy => SkyRead(d, data, theme))
  <2> HIDE DEF f, r
  <2>1. f.drawn \in BOOLEAN
    BY <1>2 DEF SkyGood, SkyType
  <2>2. QED
    BY <1>2, <1>3, <2>1 DEF SkyRead
<1>5. t = IF busy \/ b THEN d ELSE [d EXCEPT !.on = d.on /\ ~d.applied]
  BY DEF Wx!Tick
<1> HIDE DEF d
<1>6. CASE busy \/ b
  BY <1>4, <1>5, <1>6
<1>7. CASE ~(busy \/ b)
  <2>1. /\ DOMAIN t = Fields
        /\ t.on = (d.on /\ ~d.applied) /\ t.applied = d.applied /\ t.stamp = d.stamp
        /\ t.drawn = d.drawn /\ t.seen = d.seen /\ t.code = d.code /\ t.sig = d.sig
        /\ t.illus = d.illus /\ t.strip = d.strip /\ t.words = d.words
        /\ t.time = d.time /\ t.morph = d.morph
    BY <1>4, <1>5, <1>7 DEF SkyGood, SkyType, Fields
  <2>2. t.on = t.applied => d.on = d.applied
    BY <1>4, <2>1 DEF SkyGood, SkyType
  <2>3. SkyType(t, data) /\ Identified(t)
    BY <1>4, <2>1 DEF SkyGood, SkyType, Identified
  <2>4. Drawn(t, data)
    BY <1>4, <2>1, <2>2 DEF SkyGood, Drawn, Wx!Picture, Wx!Ground
  <2>5. SkyRead(t, data, theme) /\ (SkyDue(w) => SkyDue(t))
    BY <1>4, <1>7, <2>1 DEF SkyRead, SkyDue
  <2>6. QED
    BY <2>3, <2>4, <2>5 DEF SkyGood
<1>8. QED
  BY <1>6, <1>7

LEMMA SkyInit == ViewInit => SkyInv
<1> SUFFICES ASSUME ViewInit, subject = "weather" PROVE SkyInv
  BY DEF SkyInv
<1>1. /\ world = [data |-> [stamp |-> 0, code |-> "sun", days |-> "dry"], theme |-> "gold"]
      /\ glass = Wx!New("gold") /\ current = 0 /\ state = "IDLE" /\ seen = FALSE
  BY DEF ViewInit, FirstWorld, FirstGlass, Init
<1>2. IsReport(world.data)
  BY <1>1 DEF IsReport
<1>3. SkyType(glass, world.data) /\ glass.stamp = 0 /\ glass.sig = "none" /\ glass.code = "none"
  BY <1>1 DEF Wx!New, SkyType, Fields
<1>4. SkyGood(glass, world.data)
  BY <1>3 DEF SkyGood, Identified, Drawn
<1>5. QED
  BY <1>1, <1>2, <1>4 DEF SkyInv, Weather

LEMMA SkyStep == MachineInv /\ SkyInv /\ [ViewNext]_panel => SkyInv'
<1> SUFFICES ASSUME MachineInv, SkyInv, [ViewNext]_panel, subject' = "weather" PROVE SkyInv'
  BY DEF SkyInv
<1>0. /\ subject = "weather" /\ IsReport(world.data) /\ SkyGood(glass, world.data)
      /\ current = Weather /\ state # "OUTRO" => SkyDue(glass)
      /\ seen => /\ state = "IDLE"
                 /\ current = Weather => SkyRead(glass, world.data, world.theme)
  BY SubjectStays DEF SkyInv
<1>a. ASSUME IsReport(world'.data), SkyGood(glass', world'.data),
             current' = Weather /\ state' # "OUTRO" => SkyDue(glass'),
             seen' => /\ state' = "IDLE"
                      /\ current' = Weather => SkyRead(glass', world'.data, world'.theme)
      PROVE  SkyInv'
  <2>1. /\ IsReport(world.data)' /\ SkyGood(glass, world.data)' /\ SkyDue(glass)' = SkyDue(glass')
        /\ SkyRead(glass, world.data, world.theme)' = SkyRead(glass', world'.data, world'.theme)
    BY <1>a DEF IsReport, SkyGood, SkyType, Identified, Drawn, Wx!Picture, Wx!Ground, Fields,
       SkyDue, SkyRead
  <2>2. QED
    BY <1>a, <2>1 DEF SkyInv, Weather
<1>b. ASSUME NEW g, SkyGood(g, world.data), NEW to, NEW move
      PROVE  SkyGood(Leave(g, current, to, move), world.data)
  BY <1>0, <1>b, SkyPoses DEF Leave
<1>c. /\ Arrived(glass) = Wx!Landed(glass) /\ Landings(glass) = {Wx!Landed(glass)}
      /\ SkyGood(Wx!Landed(glass), world.data) /\ (SkyDue(glass) => SkyDue(Wx!Landed(glass)))
      /\ \A theme : SkyRead(glass, world.data, theme)
                      => SkyRead(Wx!Landed(glass), world.data, theme)
  BY <1>0, SkyPoses DEF Arrived, Landings
<1>d. ASSUME NEW g, SkyGood(g, world.data), NEW from, NEW to, NEW move
      PROVE  /\ SkyGood(CutView(g, from, to, move), world.data)
             /\ to = Weather => SkyDue(CutView(g, from, to, move))
  <2>1. Hidden(g, from) = g /\ \A k, s : Unbaked(k, s) = k
    BY <1>0 DEF Hidden, Unbaked
  <2>2. CutView(g, from, to, move) = Enter(Shown(g, to), to, from, move)
    BY <2>1 DEF CutView
  <2>3. CASE to = Weather
    <3> DEFINE h == Wx!Show(g)
               t == Wx!Tick(h, world.data, world.theme, TRUE, TRUE, TRUE, TRUE)
    <3>1. DOMAIN h = Fields /\ h.drawn = FALSE /\ h.on = g.on /\ h.applied = g.applied
          /\ h.stamp = g.stamp /\ h.seen = g.seen /\ h.code = g.code /\ h.sig = g.sig
          /\ h.illus = g.illus /\ h.strip = g.strip
      BY <1>d DEF Wx!Show, SkyGood, SkyType, Fields
    <3> HIDE DEF h
    <3>2. SkyGood(h, world.data)
      BY <1>d, <3>1 DEF SkyGood, SkyType, Identified, Drawn
    <3>3. SkyGood(t, world.data)
      BY <1>0, <3>2, SkyTicked
    <3>4. CutView(g, from, to, move) = Wx!FromConsensus(t, move)
      BY <1>0, <2>2, <2>3 DEF Shown, Enter, h
    <3> HIDE DEF t
    <3>5. QED
      BY <3>3, <3>4, SkyPoses
  <2>4. CASE to # Weather
    <3>1. Ticked(g, to, TRUE) = {g}
      BY <1>0, <2>4 DEF Ticked
    <3>2. Shown(g, to) = g
      BY <1>0, <2>4, <3>1 DEF Shown
    <3>3. QED
      BY <1>0, <1>d, <2>2, <2>4, <3>2 DEF Enter
  <2>5. QED
    BY <2>3, <2>4
<1>1. ASSUME NEW t \in Scenes, Departs(t) \/ Jumps(t) \/ Turns(t)
      PROVE  SkyInv'
  <2>1. CASE Departs(t)
    BY <1>0, <1>a, <1>b, <2>1 DEF Departs
  <2>2. CASE Jumps(t)
    <3> DEFINE l == Leave(glass, current, t, FALSE)
    <3>1. SkyGood(l, world.data)
      BY <1>0, <1>b
    <3> HIDE DEF l
    <3>2. /\ SkyGood(CutView(l, current, t, FALSE), world.data)
          /\ t = Weather => SkyDue(CutView(l, current, t, FALSE))
      BY <1>d, <3>1
    <3>3. glass' = CutView(l, current, t, FALSE) /\ current' = t /\ world' = world /\ seen' = FALSE
      BY <2>2 DEF Jumps, l
    <3>4. QED
      BY <1>0, <1>a, <3>2, <3>3
  <2>3. CASE Turns(t)
    <3>1. /\ state' = "OUTRO" /\ world' = world /\ seen' = seen /\ state = "OUTRO"
          /\ \/ glass' = glass
             \/ \E move \in BOOLEAN : glass' = Leave(glass, current, t, move)
      BY <2>3 DEF Turns
    <3>2. SkyGood(glass', world.data)
      BY <1>0, <1>b, <3>1
    <3>3. QED
      BY <1>0, <1>a, <3>1, <3>2
  <2>4. QED
    BY <1>1, <2>1, <2>2, <2>3
<1>2. CASE Cuts
  <2>1. PICK move \in BOOLEAN : glass' = CutView(Arrived(glass), current, pending, move)
    BY <1>2 DEF Cuts
  <2>2. SkyGood(glass', world.data) /\ (pending = Weather => SkyDue(glass'))
    BY <1>c, <1>d, <2>1
  <2>3. current' = pending /\ world' = world /\ seen' = FALSE
    BY <1>2 DEF Cuts
  <2>4. QED
    BY <1>0, <1>a, <2>2, <2>3
<1>3. CASE TurnsBack
  <2>1. PICK move \in BOOLEAN : glass' = Leave(Arrived(glass), current, pending, move)
    BY <1>3 DEF TurnsBack
  <2>2. SkyGood(glass', world.data)
    BY <1>b, <1>c, <2>1
  <2>3. state = "INTRO" /\ state' = "OUTRO" /\ world' = world /\ seen' = seen
    BY <1>3 DEF TurnsBack
  <2>4. QED
    BY <1>0, <1>a, <2>2, <2>3
<1>4. CASE Rests
  <2>1. glass' = Wx!Landed(glass)
    BY <1>0, <1>c, <1>4 DEF Rests, Unbaked
  <2>2. state = "INTRO" /\ state' = "IDLE" /\ world' = world /\ seen' = seen /\ current' = current
    BY <1>4 DEF Rests
  <2>3. QED
    BY <1>0, <1>a, <1>c, <2>1, <2>2
<1>5. CASE Stays /\ Lone
  <2>0. state' = state /\ current' = current
    BY <1>5 DEF Stays
  <2>1. CASE SceneTick
    <3>1. /\ world' = world /\ (seen' <=> state = "IDLE")
          /\ glass' \in Ticked(glass, current, state # "IDLE")
      BY <2>1 DEF SceneTick
    <3>2. CASE current = Weather
      <4>1. PICK i \in BOOLEAN, d \in BOOLEAN, b \in BOOLEAN :
              glass' = Wx!Tick(glass, world.data, world.theme, state # "IDLE", i, d, b)
        BY <1>0, <3>1, <3>2 DEF Ticked
      <4>2. (state # "IDLE") \in BOOLEAN
        OBVIOUS
      <4>3. /\ SkyGood(glass', world.data) /\ (SkyDue(glass) => SkyDue(glass'))
            /\ state = "IDLE" => SkyRead(glass', world.data, world.theme)
        <5> DEFINE busy == state # "IDLE"
        <5>1. PICK g : g = glass'
          OBVIOUS
        <5>2. busy \in BOOLEAN /\ g = Wx!Tick(glass, world.data, world.theme, busy, i, d, b)
          BY <4>1, <4>2, <5>1
        <5> HIDE DEF busy
        <5>3. /\ SkyGood(g, world.data) /\ (SkyDue(glass) => SkyDue(g))
              /\ ~busy => SkyRead(g, world.data, world.theme)
          BY <1>0, <5>2, SkyTicked
        <5>4. QED
          BY <5>1, <5>3 DEF busy
      <4>4. QED
        BY <1>0, <1>a, <2>0, <3>1, <4>3
    <3>3. CASE current # Weather
      <4>1. glass' = glass
        BY <1>0, <3>1, <3>3 DEF Ticked
      <4>2. QED
        BY <1>0, <1>a, <2>0, <3>1, <3>3, <4>1
    <3>4. QED
      BY <3>2, <3>3
  <2>2. CASE WxComp
    <3>1. /\ world' = world /\ seen' = seen
          /\ DOMAIN glass' = Fields /\ glass'.on = ~glass.on /\ glass'.applied = glass.applied
          /\ glass'.stamp = glass.stamp /\ glass'.drawn = glass.drawn /\ glass'.seen = glass.seen
          /\ glass'.code = glass.code /\ glass'.sig = glass.sig /\ glass'.illus = glass.illus
          /\ glass'.strip = glass.strip /\ glass'.time = glass.time /\ glass'.morph = glass.morph
          /\ glass.on = glass.applied
      BY <1>0, <2>2 DEF WxComp, SkyGood, SkyType, Fields
    <3>2. SkyType(glass', world.data) /\ Identified(glass')
      BY <1>0, <3>1 DEF SkyGood, SkyType, Identified
    <3>3. Drawn(glass', world.data)
      BY <1>0, <3>1 DEF SkyGood, SkyType, Drawn
    <3>4. /\ SkyDue(glass) => SkyDue(glass')
          /\ SkyRead(glass, world.data, world.theme) => SkyRead(glass', world.data, world.theme)
      BY <3>1 DEF SkyDue, SkyRead
    <3>5. QED
      BY <1>0, <1>a, <2>0, <3>1, <3>2, <3>3, <3>4 DEF SkyGood
  <2>3. CASE Land
    <3>1. glass' = Wx!Landed(glass) /\ world' = world /\ seen' = seen
      BY <1>c, <2>3 DEF Land
    <3>2. QED
      BY <1>0, <1>a, <1>c, <2>0, <3>1
  <2>4. CASE WorldMoves
    <3>1. /\ world' \in Worlds /\ glass' = glass /\ seen' = FALSE
          /\ world'.data # world.data => world'.data.stamp = world.data.stamp + 1
      BY <1>0, <2>4 DEF WorldMoves
    <3>2. IsReport(world'.data)
      BY <1>0, <3>1 DEF IsReport, Worlds
    <3>3. SkyGood(glass, world'.data)
      <4>1. CASE world'.data = world.data
        BY <1>0, <4>1
      <4>2. CASE world'.data # world.data
        BY <1>0, <3>1, <4>2 DEF SkyGood, SkyType, Drawn, IsReport
      <4>3. QED
        BY <4>1, <4>2
    <3>4. QED
      BY <1>0, <1>a, <2>0, <3>1, <3>2, <3>3
  <2>5. ~PushHold /\ ~Bake
    BY <1>0 DEF PushHold, Bake
  <2>6. QED
    BY <1>5, <2>1, <2>2, <2>3, <2>4, <2>5 DEF Lone
<1>6. CASE Keeps
  BY <1>0, <1>a, <1>6 DEF Keeps, Stays
<1>7. QED
  BY <1>0, <1>1, <1>2, <1>3, <1>4, <1>5, <1>6, PartMoves DEF Part

\* Through failed bakes, changes of form, theme and data at any time, a weather
\* view ticked at rest tells the report received last, on the ground of its theme.
THEOREM WeatherIsShown == ViewSpec => []WeatherShown
<1>1. SkyInv => WeatherShown
  <2> SUFFICES ASSUME SkyInv, subject = "weather", AtRest(Weather), seen, glass.on = glass.applied
               PROVE  Wx!Tells(glass, world.data, world.theme) /\ glass.time = "rest"
    BY DEF WeatherShown
  <2>1. /\ state = "IDLE" /\ current = Weather /\ Wx!Landed(glass) = glass
        /\ SkyGood(glass, world.data) /\ SkyDue(glass)
        /\ SkyRead(glass, world.data, world.theme)
    BY DEF SkyInv, AtRest, Still, Landings, Arrived
  <2>2. glass.morph = "none"
    BY <2>1 DEF Wx!Landed, SkyGood, SkyType, Fields
  <2>3. Wx!Tells(glass, world.data, world.theme)
    BY <2>1 DEF SkyGood, SkyRead, Drawn, Wx!Picture, Wx!Ground, Wx!Tells
  <2>4. QED
    BY <2>1, <2>2, <2>3 DEF SkyDue
<1>2. QED
  BY ViewsBegin, ViewsStep, MachineInit, MachineStep, SkyInit, SkyStep, <1>1, PTL DEF ViewSpec
-----------------------------------------------------------------------------
(* The dashboard's halves *)

AgentPoses == {"plain", "chip", "two", "three"}

Places == AgentPoses \union {"off", "mid", "none"}

Flights == {"none", "in", "out"}

Rows == {"none", "two", "three"}

Boards == [half : Grid!Halves, target : Grid!Anchors, slide : Grid!Anchors \union {"none"},
           laid : Rows, restY : Rows,
           rest : [Grid!Halves -> Places], at : [Grid!Halves -> Places],
           fly : [Grid!Halves -> Flights]]

\* The scene's slide goes to the last target, and rows are laid as they rest,
\* when there are any.
BoardFits(d) ==
  /\ d.slide \in {"none", d.target}
  /\ d.half = "ambient" => d.laid = "none"
  /\ d.half = "fleet" => d.laid # "none" /\ d.restY = d.laid

Grounded(d) == \A h \in Grid!Halves : d.fly[h] = "none"

NoneComes(d) == \A h \in Grid!Halves : d.fly[h] # "in"

\* The flight of the cluster, or that it stands, settles where it ends: no slide
\* of the scene goes on after it.
Decided(d) == d.slide = "none" \/ d.fly["ambient"] = "in"

\* The history tells which of the halves ends elsewhere than at the place the
\* scene has for it, as soon as that is settled.
ClusterTold(d, away) ==
  /\ Decided(d) => ("ambient" \in away <=> Grid!FlightEnd(d, "ambient") # d.target)
  /\ ~Decided(d) /\ d.fly["ambient"] = "out" => "ambient" \in away

RowsTold(d, away) ==
  d.half = "fleet" => ("fleet" \in away <=> Grid!FlightEnd(d, "fleet") # d.laid)

Told(d, away) == ClusterTold(d, away) /\ RowsTold(d, away)

\* The scene has read the pose.
Reads(d, pose) ==
  d.half = Grid!HalfOf(pose) /\ pose = IF d.half = "ambient" THEN d.target ELSE d.laid

BoardInv ==
  subject = "dash" =>
    /\ world \in AgentPoses /\ glass \in Boards /\ BoardFits(glass)
    /\ current # Dash \/ state = "IDLE" => Grounded(glass)
    /\ state = "OUTRO" => NoneComes(glass)
    /\ Told(glass, astray)
    /\ current = Dash /\ seen => Reads(glass, world)

\* What a tick makes of the cluster, and of the rows.
ClusterTicked(d, t, pose, busy, mo) ==
  /\ t.half = "ambient" /\ t.laid = "none" /\ t.target = pose
  /\ t.fly = d.fly /\ t.rest = d.rest /\ t.at["fleet"] = d.at["fleet"]
  /\ pose = d.target => t.slide = d.slide /\ t.at["ambient"] = d.at["ambient"]
  /\ pose # d.target =>
       /\ mo = "reduced" => t.at["ambient"] = pose /\ t.slide = "none"
       /\ mo # "reduced" =>
            /\ t.at["ambient"] = IF d.slide = "none" THEN d.at["ambient"] ELSE "mid"
            /\ t.slide = IF busy THEN "none" ELSE pose

RowsTicked(d, t, pose) ==
  /\ t.half = "fleet" /\ t.laid = pose /\ t.target = d.target /\ t.slide = d.slide
  /\ t.fly = d.fly /\ t.rest = d.rest /\ t.at["ambient"] = d.at["ambient"]
  /\ t.at["fleet"] = IF pose = d.laid THEN d.at["fleet"] ELSE pose

LEMMA BoardTick ==
  ASSUME NEW d \in Boards, BoardFits(d), NEW pose \in AgentPoses, NEW busy \in BOOLEAN, NEW mo,
         NEW t, t = Grid!Tick(d, pose, busy, mo)
  PROVE  /\ t \in Boards /\ BoardFits(t)
         /\ pose \in {"plain", "chip"} => ClusterTicked(d, t, pose, busy, mo)
         /\ pose \in {"two", "three"} => RowsTicked(d, t, pose)
<1> USE DEF Grid!Halves, Grid!Anchors
<1>1. CASE pose \in {"plain", "chip"}
  <2> DEFINE e == [d EXCEPT !.half = "ambient", !.laid = "none"]
             stood == IF e.slide = "none" THEN e.at["ambient"] ELSE "mid"
             jump == e.target = "none" \/ mo = "reduced"
             place == IF jump THEN pose ELSE stood
             slide == IF jump \/ busy THEN "none" ELSE pose
  <2>1. /\ e \in Boards /\ e.half = "ambient" /\ e.laid = "none" /\ e.target = d.target
        /\ e.slide = d.slide /\ e.at = d.at /\ e.fly = d.fly /\ e.rest = d.rest
    BY DEF Boards, Rows
  <2>2. t = IF pose = e.target THEN e
            ELSE [e EXCEPT !.target = pose, !.at["ambient"] = place, !.slide = slide]
    BY <1>1 DEF Grid!Tick, Grid!HalfOf, Grid!SlideTo
  <2>3. CASE pose = e.target
    <3>1. t = e
      BY <2>2, <2>3
    <3> HIDE DEF e
    <3>2. t \in Boards /\ BoardFits(t) /\ ClusterTicked(d, t, pose, busy, mo)
      BY <2>1, <2>3, <3>1 DEF BoardFits, ClusterTicked
    <3>3. QED
      BY <1>1, <3>2
  <2>4. CASE pose # e.target
    <3>1. place \in Places /\ slide \in {"none", pose}
      <4>1. e.at["ambient"] \in Places
        BY <2>1 DEF Boards
      <4>2. QED
        BY <1>1, <4>1 DEF Places, AgentPoses
    <3>2. /\ mo = "reduced" => place = pose /\ slide = "none"
          /\ mo # "reduced" => /\ place = IF d.slide = "none" THEN d.at["ambient"] ELSE "mid"
                               /\ slide = IF busy THEN "none" ELSE pose
      <4>1. e.target # "none"
        BY <2>1 DEF Boards
      <4>2. QED
        BY <2>1, <4>1
    <3> HIDE DEF e, place, slide, jump
    <3>3. t = [e EXCEPT !.target = pose, !.at["ambient"] = place, !.slide = slide]
      BY <2>2, <2>4
    <3>4. /\ t.half = "ambient" /\ t.laid = "none" /\ t.target = pose /\ t.slide = slide
          /\ t.fly = d.fly /\ t.rest = d.rest
      BY <2>1, <3>3 DEF Boards
    <3>5. t.at["ambient"] = place /\ t.at["fleet"] = d.at["fleet"]
      BY <2>1, <3>1, <3>3 DEF Boards
    <3>6. t \in Boards
      <4> DEFINE at == [e.at EXCEPT !["ambient"] = place]
      <4>1. at \in [Grid!Halves -> Places]
        BY <2>1, <3>1 DEF Boards
      <4>2. t = [e EXCEPT !.target = pose, !.at = at, !.slide = slide]
        BY <2>1, <3>3
      <4> DEFINE g == [e EXCEPT !.target = pose]
      <4>3. g \in Boards
        BY <1>1, <2>1 DEF Boards
      <4>4. t = [g EXCEPT !.at = at, !.slide = slide]
        BY <4>2
      <4>5. slide \in Grid!Anchors \union {"none"}
        BY <1>1, <3>1
      <4> HIDE DEF at, g
      <4>6. QED
        BY <4>1, <4>3, <4>4, <4>5 DEF Boards
    <3>7. BoardFits(t)
      BY <3>1, <3>4 DEF BoardFits
    <3>8. ClusterTicked(d, t, pose, busy, mo)
      BY <2>1, <2>4, <3>2, <3>4, <3>5 DEF ClusterTicked
    <3>9. QED
      BY <1>1, <3>6, <3>7, <3>8
  <2>5. QED
    BY <2>3, <2>4
<1>2. CASE pose \in {"two", "three"}
  <2> DEFINE e == [d EXCEPT !.half = "fleet"]
  <2>1. /\ e \in Boards /\ e.half = "fleet" /\ e.laid = d.laid /\ e.target = d.target
        /\ e.slide = d.slide /\ e.at = d.at /\ e.fly = d.fly /\ e.rest = d.rest /\ e.restY = d.restY
    BY DEF Boards
  <2>2. t = IF pose = e.laid THEN e
            ELSE [e EXCEPT !.laid = pose, !.restY = pose, !.at["fleet"] = pose]
    BY <1>2 DEF Grid!Tick, Grid!HalfOf, Grid!LayoutRows
  <2> HIDE DEF e
  <2>3. CASE pose = e.laid
    <3>1. t = e /\ d.half = "fleet"
      BY <1>2, <2>1, <2>2, <2>3 DEF BoardFits, Boards
    <3>2. t \in Boards /\ BoardFits(t) /\ RowsTicked(d, t, pose)
      BY <2>1, <2>3, <3>1 DEF BoardFits, RowsTicked
    <3>3. QED
      BY <1>2, <3>2
  <2>4. CASE pose # e.laid
    <3>1. t = [e EXCEPT !.laid = pose, !.restY = pose, !.at["fleet"] = pose]
      BY <2>2, <2>4
    <3>2. /\ t.half = "fleet" /\ t.laid = pose /\ t.restY = pose /\ t.target = d.target
          /\ t.slide = d.slide /\ t.fly = d.fly /\ t.rest = d.rest
      BY <2>1, <3>1 DEF Boards
    <3>3. pose \in Places
      BY <1>2 DEF Places, AgentPoses
    <3>4. /\ t.at \in [Grid!Halves -> Places]
          /\ t.at["fleet"] = pose /\ t.at["ambient"] = d.at["ambient"]
      BY <2>1, <3>1, <3>3 DEF Boards
    <3>5. t \in Boards
      BY ZenonT(60), <1>2, <2>1, <3>1, <3>4 DEF Boards, Rows
    <3>6. BoardFits(t)
      BY <1>2, <2>1, <3>2 DEF BoardFits, Boards
    <3>7. RowsTicked(d, t, pose)
      BY <2>1, <2>4, <3>2, <3>4 DEF RowsTicked
    <3>8. QED
      BY <1>2, <3>5, <3>6, <3>7
  <2>5. QED
    BY <2>3, <2>4
<1>3. QED
  BY <1>1, <1>2 DEF AgentPoses

\* TickStrays for a dashboard that is shown.
Strays(d, away, pose, busy, mo) ==
  LET h == Grid!HalfOf(pose)
      bound == CASE d.fly[h] # "none" -> Grid!FlightEnd(d, h)
                 [] d.fly[h] = "none" /\ h = "ambient" /\ busy /\ mo = "full" ->
                      IF d.slide = "none" THEN d.at[h] ELSE "mid"
                 [] OTHER -> pose
  IN  IF pose = (IF h = "ambient" THEN d.target ELSE d.laid) THEN away
      ELSE IF bound = pose THEN away \ {h} ELSE away \union {h}

\* A tick tells of the half it moves, on a panel at rest or in a transition.
LEMMA BoardTickTold ==
  ASSUME NEW d \in Boards, BoardFits(d), NEW pose \in AgentPoses, NEW busy \in BOOLEAN,
         NEW mo \in {"full", "reduced"}, busy \/ Grounded(d), NEW away, Told(d, away),
         NEW t, t = Grid!Tick(d, pose, busy, mo)
  PROVE  Told(t, Strays(d, away, pose, busy, mo)) /\ Reads(t, pose)
<1> USE DEF Grid!Halves, Grid!Anchors
<1> DEFINE now == Strays(d, away, pose, busy, mo)
<1>1. /\ d.fly["ambient"] \in Flights /\ d.fly["fleet"] \in Flights
      /\ d.slide \in {"none", d.target} /\ d.target # "none"
  BY DEF Boards, BoardFits
<1>2. CASE pose \in {"plain", "chip"}
  <2>1. ClusterTicked(d, t, pose, busy, mo)
    BY <1>2, BoardTick
  <2>2. Grid!HalfOf(pose) = "ambient"
    BY <1>2 DEF Grid!HalfOf
  <2>3. CASE pose = d.target
    <3>1. now = away
      BY <2>2, <2>3 DEF Strays
    <3> HIDE DEF now
    <3>2. ClusterTold(t, now)
      BY <2>1, <2>3, <3>1 DEF ClusterTicked, Told, ClusterTold, Decided, Grid!FlightEnd
    <3>3. QED
      BY <2>1, <2>2, <3>2 DEF ClusterTicked, Told, RowsTold, Reads, now
  <2>4. CASE pose # d.target
    <3> DEFINE bound == IF d.fly["ambient"] # "none" THEN Grid!FlightEnd(d, "ambient")
                        ELSE IF busy /\ mo = "full"
                               THEN IF d.slide = "none" THEN d.at["ambient"] ELSE "mid"
                               ELSE pose
    <3>1. now = IF bound = pose THEN away \ {"ambient"} ELSE away \union {"ambient"}
      BY <2>2, <2>4 DEF Strays
    <3>2. "ambient" \in now <=> bound # pose
      BY <3>1
    <3>3. t.slide # "none" => d.fly["ambient"] = "none"
      BY <2>1, <2>4 DEF ClusterTicked, Grounded
    <3>4. t.slide = "none" => Grid!FlightEnd(t, "ambient") = bound
      <4>1. CASE d.fly["ambient"] # "none"
        <5>1. bound = Grid!FlightEnd(d, "ambient")
          BY <4>1
        <5>2. Grid!FlightEnd(t, "ambient") = Grid!FlightEnd(d, "ambient")
          BY <1>1, <2>1, <4>1 DEF ClusterTicked, Grid!FlightEnd, Flights
        <5>3. QED
          BY <5>1, <5>2
      <4>2. CASE d.fly["ambient"] = "none"
        <5>1. Grid!FlightEnd(t, "ambient") = t.at["ambient"]
          BY <2>1, <4>2 DEF ClusterTicked, Grid!FlightEnd
        <5>2. CASE mo = "reduced"
          BY <2>1, <2>4, <4>2, <5>1, <5>2 DEF ClusterTicked
        <5>3. CASE mo = "full"
          BY <1>2, <2>1, <2>4, <4>2, <5>1, <5>3 DEF ClusterTicked
        <5>4. QED
          BY <5>2, <5>3
      <4>3. QED
        BY <4>1, <4>2
    <3> HIDE DEF now, bound
    <3>5. ClusterTold(t, now)
      BY <2>1, <3>2, <3>3, <3>4 DEF ClusterTicked, ClusterTold, Decided
    <3>6. QED
      BY <2>1, <2>2, <3>5 DEF ClusterTicked, Told, RowsTold, Reads, now
  <2>5. QED
    BY <2>3, <2>4
<1>3. CASE pose \in {"two", "three"}
  <2>1. RowsTicked(d, t, pose)
    BY <1>3, BoardTick
  <2>2. Grid!HalfOf(pose) = "fleet"
    BY <1>3 DEF Grid!HalfOf
  <2>3. "ambient" \in now <=> "ambient" \in away
    BY <2>2 DEF Strays
  <2>4. ClusterTold(t, now)
    <3> HIDE DEF now
    <3>1. QED
      BY <2>1, <2>3 DEF RowsTicked, Told, ClusterTold, Decided, Grid!FlightEnd
  <2>5. CASE pose = d.laid
    <3>1. now = away
      BY <2>2, <2>5 DEF Strays
    <3>2. d.half = "fleet"
      BY <1>3, <2>5 DEF BoardFits, Boards
    <3> HIDE DEF now
    <3>3. RowsTold(t, now)
      BY <2>1, <2>5, <3>1, <3>2 DEF RowsTicked, Told, RowsTold, Grid!FlightEnd
    <3>4. QED
      BY <2>1, <2>2, <2>4, <3>3 DEF RowsTicked, Told, Reads, now
  <2>6. CASE pose # d.laid
    <3> DEFINE bound == IF d.fly["fleet"] # "none" THEN Grid!FlightEnd(d, "fleet") ELSE pose
    <3>1. now = IF bound = pose THEN away \ {"fleet"} ELSE away \union {"fleet"}
      BY <2>2, <2>6 DEF Strays
    <3>2. "fleet" \in now <=> bound # pose
      BY <3>1
    <3>3. Grid!FlightEnd(t, "fleet") = bound
      BY <1>1, <2>1, <2>6 DEF RowsTicked, Grid!FlightEnd, Flights
    <3> HIDE DEF now, bound
    <3>4. RowsTold(t, now)
      BY <2>1, <3>2, <3>3 DEF RowsTicked, RowsTold
    <3>5. QED
      BY <2>1, <2>2, <2>4, <3>4 DEF RowsTicked, Told, Reads, now
  <2>7. QED
    BY <2>5, <2>6
<1>4. QED
  BY <1>2, <1>3 DEF AgentPoses

\* What the framework is given: the rows' places, and the cluster's target.
LEMMA BoardSynced ==
  ASSUME NEW d \in Boards, BoardFits(d), NEW s, s = Grid!SyncRest(d)
  PROVE  /\ s \in Boards /\ BoardFits(s)
         /\ s.half = d.half /\ s.target = d.target /\ s.laid = d.laid
         /\ s.slide = d.slide /\ s.at = d.at /\ s.fly = d.fly
         /\ d.half = "ambient" => s.rest["ambient"] = d.target
         /\ d.half = "fleet" => s.rest["fleet"] = d.laid
<1> USE DEF Grid!Halves, Grid!Anchors
<1> DEFINE rest == [h \in Grid!Halves |->
                      IF h = "fleet" THEN d.restY
                      ELSE IF d.target = "none" THEN "plain" ELSE d.target]
<1>1. s = [d EXCEPT !.rest = rest]
  BY DEF Grid!SyncRest
<1>2. /\ rest \in [Grid!Halves -> Places] /\ rest["fleet"] = d.restY /\ rest["ambient"] = d.target
  BY DEF Boards, Places, AgentPoses, Rows
<1> HIDE DEF rest
<1>3. s \in Boards /\ s.rest = rest /\ s.half = d.half /\ s.target = d.target /\ s.laid = d.laid
      /\ s.slide = d.slide /\ s.restY = d.restY /\ s.at = d.at /\ s.fly = d.fly
  BY <1>1, <1>2 DEF Boards
<1>4. QED
  BY <1>2, <1>3 DEF BoardFits

LEMMA BoardOther ==
  ASSUME NEW half \in Grid!Halves
  PROVE  LET other == CHOOSE h \in Grid!Halves : h # half
         IN  other \in Grid!Halves /\ other # half
BY DEF Grid!Halves

\* A transition's call leaves what the scene has read as it is.
SameRead(d, e) == e.half = d.half /\ e.target = d.target /\ e.laid = d.laid /\ e.slide = d.slide

LEMMA BoardLeaves ==
  ASSUME NEW d \in Boards, BoardFits(d), NoneComes(d), NEW move \in BOOLEAN,
         NEW away, Told(d, away), NEW o, o = Grid!Outro(d, move)
  PROVE  /\ o \in Boards /\ BoardFits(o) /\ SameRead(d, o) /\ NoneComes(o)
         /\ Told(o, away \union {d.half}) /\ (~move => Grounded(o))
<1> DEFINE s == Grid!SyncRest(d)
           other == CHOOSE h \in Grid!Halves : h # s.half
           at == [s.at EXCEPT ![s.half] = IF move THEN s.at[s.half] ELSE "off",
                              ![other] = Grid!Stopped(s, other)]
           fly == [h \in Grid!Halves |-> IF h = s.half /\ move THEN "out" ELSE "none"]
<1>1. /\ s \in Boards /\ BoardFits(s)
      /\ s.half = d.half /\ s.target = d.target /\ s.laid = d.laid
      /\ s.slide = d.slide /\ s.at = d.at /\ s.fly = d.fly
  BY BoardSynced
<1>2. o = [s EXCEPT !.at = at, !.fly = fly]
  BY DEF Grid!Outro, Grid!OutroFlights
<1> HIDE DEF s
<1>3. s.half \in Grid!Halves /\ other \in Grid!Halves /\ other # s.half
  BY <1>1, BoardOther DEF Boards
<1> HIDE DEF other
<1>4. /\ at \in [Grid!Halves -> Places]
      /\ at[s.half] = IF move THEN d.at[s.half] ELSE "off"
      /\ at[other] = IF d.fly[other] = "none" THEN d.at[other] ELSE "mid"
  <2>1. s.at \in [Grid!Halves -> Places] /\ Grid!Stopped(s, other) \in Places
    BY <1>1, <1>3 DEF Boards, Grid!Stopped, Places
  <2>2. (IF move THEN s.at[s.half] ELSE "off") \in Places
    BY <1>3, <2>1 DEF Places
  <2>3. Grid!Stopped(s, other) = IF d.fly[other] = "none" THEN d.at[other] ELSE "mid"
    BY <1>1 DEF Grid!Stopped
  <2>4. QED
    BY <1>1, <1>3, <2>1, <2>2, <2>3
<1>5. /\ fly \in [Grid!Halves -> Flights] /\ fly[other] = "none"
      /\ fly[s.half] = (IF move THEN "out" ELSE "none")
      /\ \A h \in Grid!Halves : fly[h] # "in" /\ (~move => fly[h] = "none")
  BY <1>3 DEF Flights
<1> HIDE DEF at, fly
<1>6. /\ o \in Boards /\ o.half = s.half /\ o.slide = s.slide /\ o.target = s.target
      /\ o.laid = s.laid /\ o.restY = s.restY /\ o.at = at /\ o.fly = fly
  BY <1>1, <1>2, <1>4, <1>5 DEF Boards
<1>7. BoardFits(o) /\ SameRead(d, o) /\ NoneComes(o) /\ (~move => Grounded(o))
  BY <1>1, <1>5, <1>6 DEF BoardFits, SameRead, NoneComes, Grounded
<1>8. o.target \notin {"off", "mid", "none"} /\ o.laid \notin {"off", "mid"}
  BY <1>6 DEF Boards, Grid!Anchors, Rows
<1>9. Grid!FlightEnd(o, s.half) = "off"
  BY <1>4, <1>5, <1>6 DEF Grid!FlightEnd
<1>10. CASE d.half = "ambient"
  <2>1. ClusterTold(o, away \union {d.half})
    BY <1>1, <1>8, <1>9, <1>10 DEF ClusterTold
  <2>2. QED
    BY <1>1, <1>6, <1>7, <1>10, <2>1 DEF Told, RowsTold
<1>11. CASE d.half = "fleet"
  <2>1. other = "ambient"
    BY <1>1, <1>3, <1>11 DEF Grid!Halves
  <2>2. RowsTold(o, away \union {d.half})
    BY <1>1, <1>8, <1>9, <1>11 DEF RowsTold
  <2>3. d.fly["ambient"] \in {"none", "out"}
    BY DEF Boards, Flights, NoneComes, Grid!Halves
  <2>4. Grid!FlightEnd(o, "ambient") = IF d.fly["ambient"] = "none" THEN d.at["ambient"] ELSE "mid"
    BY <1>4, <1>5, <1>6, <2>1 DEF Grid!FlightEnd
  <2>5. d.fly["ambient"] = "out" => "ambient" \in away
    BY <1>1, <1>6, <1>8 DEF Told, ClusterTold, Decided, Grid!FlightEnd
  <2>6. d.fly["ambient"] = "none" => Grid!FlightEnd(d, "ambient") = d.at["ambient"]
    BY DEF Grid!FlightEnd
  <2>7. o.fly["ambient"] = "none" /\ o.slide = d.slide /\ o.target = d.target
    BY <1>1, <1>5, <1>6, <2>1
  <2>8. ClusterTold(o, away \union {d.half})
    BY <1>8, <1>11, <2>3, <2>4, <2>5, <2>6, <2>7 DEF Told, ClusterTold, Decided
  <2>9. QED
    BY <1>6, <1>7, <2>2, <2>8 DEF Told
<1>12. QED
  BY <1>1, <1>3, <1>10, <1>11 DEF Grid!Halves

LEMMA BoardEnters ==
  ASSUME NEW d \in Boards, BoardFits(d), Grounded(d), NEW move \in BOOLEAN,
         NEW away, d.half = "fleet" => ClusterTold(d, away), NEW i, i = Grid!Intro(d, move)
  PROVE  /\ i \in Boards /\ BoardFits(i) /\ SameRead(d, i)
         /\ Told(i, away \ {i.half}) /\ (~move => Grounded(i))
<1> DEFINE s == Grid!SyncRest(d)
           other == CHOOSE h \in Grid!Halves : h # s.half
           at == [s.at EXCEPT ![s.half] = IF move THEN "off" ELSE s.rest[s.half],
                              ![other] = Grid!Stopped(s, other)]
           fly == [h \in Grid!Halves |-> IF h = s.half /\ move THEN "in" ELSE "none"]
<1>1. /\ s \in Boards /\ BoardFits(s)
      /\ s.half = d.half /\ s.target = d.target /\ s.laid = d.laid
      /\ s.slide = d.slide /\ s.at = d.at /\ s.fly = d.fly
      /\ d.half = "ambient" => s.rest["ambient"] = d.target
      /\ d.half = "fleet" => s.rest["fleet"] = d.laid
  BY BoardSynced
<1>2. i = [s EXCEPT !.at = at, !.fly = fly]
  BY DEF Grid!Intro, Grid!IntroUnsynced
<1> HIDE DEF s
<1>3. s.half \in Grid!Halves /\ other \in Grid!Halves /\ other # s.half
  BY <1>1, BoardOther DEF Boards
<1> HIDE DEF other
<1>4. /\ at \in [Grid!Halves -> Places] /\ at[other] = d.at[other]
      /\ at[s.half] = IF move THEN "off" ELSE s.rest[s.half]
  <2>1. s.at \in [Grid!Halves -> Places] /\ Grid!Stopped(s, other) = d.at[other]
        /\ Grid!Stopped(s, other) \in Places
    BY <1>1, <1>3 DEF Boards, Grid!Stopped, Places, Grounded
  <2>2. (IF move THEN "off" ELSE s.rest[s.half]) \in Places
    BY <1>1, <1>3, <2>1 DEF Boards, Places
  <2>3. QED
    BY <1>3, <2>1, <2>2
<1>5. /\ fly \in [Grid!Halves -> Flights] /\ fly[s.half] = (IF move THEN "in" ELSE "none")
      /\ fly[other] = "none"
      /\ ~move => \A h \in Grid!Halves : fly[h] = "none"
  BY <1>3 DEF Flights
<1> HIDE DEF at, fly
<1>6. /\ i \in Boards /\ i.half = s.half /\ i.slide = s.slide /\ i.target = s.target
      /\ i.laid = s.laid /\ i.restY = s.restY /\ i.at = at /\ i.fly = fly /\ i.rest = s.rest
  BY <1>1, <1>2, <1>4, <1>5 DEF Boards
<1>7. BoardFits(i) /\ SameRead(d, i) /\ (~move => Grounded(i))
  BY <1>1, <1>5, <1>6 DEF BoardFits, SameRead, Grounded
<1>8. Grid!FlightEnd(i, s.half) = s.rest[s.half]
  BY <1>4, <1>5, <1>6 DEF Grid!FlightEnd
<1>9. CASE d.half = "ambient"
  <2>1. i.fly["ambient"] # "out"
    BY <1>1, <1>5, <1>6, <1>9
  <2>2. ClusterTold(i, away \ {i.half})
    BY <1>1, <1>6, <1>8, <1>9, <2>1 DEF ClusterTold
  <2>3. QED
    BY <1>1, <1>6, <1>7, <1>9, <2>2 DEF Told, RowsTold
<1>10. CASE d.half = "fleet"
  <2>1. other = "ambient"
    BY <1>1, <1>3, <1>10 DEF Grid!Halves
  <2>2. RowsTold(i, away \ {i.half})
    BY <1>1, <1>6, <1>8, <1>10 DEF RowsTold
  <2>3. /\ i.fly["ambient"] = "none" /\ d.fly["ambient"] = "none"
        /\ i.at["ambient"] = d.at["ambient"] /\ i.slide = d.slide /\ i.target = d.target
    BY <1>1, <1>4, <1>5, <1>6, <2>1 DEF Grounded, Grid!Halves
  <2>4. ClusterTold(i, away \ {i.half})
    BY <1>1, <1>6, <1>10, <2>3 DEF ClusterTold, Decided, Grid!FlightEnd
  <2>5. QED
    BY <1>6, <1>7, <2>2, <2>4 DEF Told
<1>11. QED
  BY <1>1, <1>3, <1>9, <1>10 DEF Grid!Halves

LEMMA BoardArrives ==
  ASSUME NEW d \in Boards, BoardFits(d), NEW away, Told(d, away), NEW a, a = Grid!Arrived(d)
  PROVE  a \in Boards /\ BoardFits(a) /\ SameRead(d, a) /\ Grounded(a) /\ Told(a, away)
<1> USE DEF Grid!Halves
<1> DEFINE at == [h \in Grid!Halves |-> Grid!FlightEnd(d, h)]
           fly == [h \in Grid!Halves |-> "none"]
<1>1. at \in [Grid!Halves -> Places] /\ fly \in [Grid!Halves -> Flights]
  BY DEF Boards, Grid!FlightEnd, Places, Flights
<1>2. a = [d EXCEPT !.fly = fly, !.at = at]
  BY DEF Grid!Arrived
<1>3. \A h \in Grid!Halves : at[h] = Grid!FlightEnd(d, h) /\ fly[h] = "none"
  OBVIOUS
<1> HIDE DEF at, fly
<1>4. /\ a \in Boards /\ a.half = d.half /\ a.target = d.target /\ a.slide = d.slide
      /\ a.laid = d.laid /\ a.restY = d.restY /\ a.at = at /\ a.fly = fly
  BY <1>1, <1>2 DEF Boards
<1>5. BoardFits(a) /\ SameRead(d, a) /\ Grounded(a)
  BY <1>3, <1>4 DEF BoardFits, SameRead, Grounded
<1>6. \A h \in Grid!Halves : Grid!FlightEnd(a, h) = Grid!FlightEnd(d, h)
  BY <1>3, <1>4 DEF Grid!FlightEnd
<1>7. ClusterTold(a, away)
  BY <1>3, <1>4, <1>6 DEF Told, ClusterTold, Decided
<1>8. RowsTold(a, away)
  BY <1>4, <1>6 DEF Told, RowsTold
<1>9. QED
  BY <1>4, <1>5, <1>7, <1>8 DEF Told

LEMMA BoardLands ==
  ASSUME NEW d \in Boards, BoardFits(d), NEW away, Told(d, away), NEW l \in Grid!Landings(d),
         NEW now, now = IF d.slide # "none" /\ l.at["ambient"] = d.slide
                          THEN away \ {"ambient"} ELSE away
  PROVE  /\ l \in Boards /\ BoardFits(l) /\ Grounded(l) /\ l.slide = "none"
         /\ l.half = d.half /\ l.target = d.target /\ l.laid = d.laid /\ Told(l, now)
<1> USE DEF Grid!Halves
<1> DEFINE fly == [h \in Grid!Halves |-> "none"]
<1>1. PICK a \in Grid!AmbientEnds(d) :
        l = [d EXCEPT !.slide = "none", !.fly = fly,
                      !.at = [ambient |-> a, fleet |-> Grid!FlightEnd(d, "fleet")]]
  BY DEF Grid!Landings
<1>2. d.fly["ambient"] \in Flights /\ d.fly["fleet"] \in Flights
  BY DEF Boards
<1>3. a \in Places /\ Grid!FlightEnd(d, "fleet") \in Places
  BY DEF Grid!AmbientEnds, Grid!FlightEnd, Boards, Grid!Anchors, Places, AgentPoses
<1>4. /\ Decided(d) => a = Grid!FlightEnd(d, "ambient")
      /\ ~Decided(d) /\ d.fly["ambient"] = "out" => a \in {d.slide, "off"}
      /\ ~Decided(d) /\ d.fly["ambient"] # "out" => a = d.slide
  BY DEF Grid!AmbientEnds, Decided
<1> DEFINE f == Grid!FlightEnd(d, "fleet")
           at == [ambient |-> a, fleet |-> f]
<1> HIDE DEF f
<1>5. at \in [Grid!Halves -> Places] /\ at["ambient"] = a /\ at["fleet"] = f
  BY <1>3 DEF f
<1>6. fly \in [Grid!Halves -> Flights] /\ \A h \in Grid!Halves : fly[h] = "none"
  BY DEF Flights
<1>7. l = [d EXCEPT !.slide = "none", !.fly = fly, !.at = at]
  BY <1>1 DEF f
<1> HIDE DEF at, fly
<1>8. /\ l \in Boards /\ l.half = d.half /\ l.target = d.target /\ l.slide = "none"
      /\ l.laid = d.laid /\ l.restY = d.restY /\ l.at = at /\ l.fly = fly
  BY <1>5, <1>6, <1>7 DEF Boards
<1>9. BoardFits(l) /\ Grounded(l)
  BY <1>6, <1>8 DEF BoardFits, Grounded
<1>10. Grid!FlightEnd(l, "ambient") = a /\ Grid!FlightEnd(l, "fleet") = f
  BY <1>5, <1>6, <1>8 DEF Grid!FlightEnd
<1>11. ClusterTold(l, now)
  <2>1. now = IF d.slide # "none" /\ a = d.slide THEN away \ {"ambient"} ELSE away
    BY <1>5, <1>8
  <2>2. d.slide \in {"none", d.target} /\ d.target # "off"
    BY DEF BoardFits, Boards, Grid!Anchors
  <2>3. "ambient" \in now <=> a # d.target
    BY <1>2, <1>4, <2>1, <2>2 DEF Told, ClusterTold, Decided, Flights
  <2>4. QED
    BY <1>8, <1>10, <2>3 DEF ClusterTold, Decided
<1>12. RowsTold(l, now)
  BY <1>8, <1>10 DEF Told, RowsTold, f
<1>13. QED
  BY <1>8, <1>9, <1>11, <1>12 DEF Told

LEMMA BoardInit == ViewInit => BoardInv
<1> SUFFICES ASSUME ViewInit, subject = "dash" PROVE BoardInv
  BY DEF BoardInv
<1> USE DEF Grid!Halves, Grid!Anchors
<1>1. /\ world = "plain" /\ glass = Grid!Tick(Grid!New, "plain", FALSE, motion)
      /\ astray = {} /\ seen = FALSE /\ state = "IDLE"
  BY DEF ViewInit, Init, FirstWorld, FirstGlass
<1> DEFINE g == [half |-> "ambient", target |-> "plain", slide |-> "none", laid |-> "none",
                 restY |-> "none",
                 rest |-> [h \in Grid!Halves |-> IF h = "ambient" THEN "plain" ELSE "none"],
                 at |-> [h \in Grid!Halves |-> IF h = "ambient" THEN "plain" ELSE "none"],
                 fly |-> [h \in Grid!Halves |-> "none"]]
<1>2. Grid!Tick(Grid!New, "plain", FALSE, motion) = g
  BY DEF Grid!Tick, Grid!HalfOf, Grid!SlideTo, Grid!New
<1>3. g \in Boards /\ BoardFits(g) /\ Grounded(g) /\ Told(g, {})
  BY DEF Boards, Rows, Places, AgentPoses, Flights, BoardFits, Grounded, Told, ClusterTold,
     RowsTold, Decided, Grid!FlightEnd
<1> HIDE DEF g
<1>4. QED
  BY <1>1, <1>2, <1>3 DEF BoardInv, AgentPoses

LEMMA BoardStep == MachineInv /\ BoardInv /\ [ViewNext]_panel => BoardInv'
<1> SUFFICES ASSUME MachineInv, BoardInv, [ViewNext]_panel, subject' = "dash" PROVE BoardInv'
  BY DEF BoardInv
<1>0. /\ subject = "dash" /\ world \in AgentPoses /\ glass \in Boards /\ BoardFits(glass)
      /\ current # Dash \/ state = "IDLE" => Grounded(glass)
      /\ state = "OUTRO" => NoneComes(glass)
      /\ Told(glass, astray)
      /\ current = Dash /\ seen => Reads(glass, world)
  BY SubjectStays DEF BoardInv
<1>a. ASSUME world' \in AgentPoses, glass' \in Boards, BoardFits(glass'),
             current' # Dash \/ state' = "IDLE" => Grounded(glass'),
             state' = "OUTRO" => NoneComes(glass'),
             Told(glass', astray'),
             current' = Dash /\ seen' => Reads(glass', world')
      PROVE  BoardInv'
  <2>1. /\ (glass \in Boards)' /\ BoardFits(glass)' /\ (world \in AgentPoses)'
        /\ Grounded(glass)' = Grounded(glass') /\ NoneComes(glass)' = NoneComes(glass')
        /\ Told(glass, astray)' = Told(glass', astray') /\ Reads(glass, world)' = Reads(glass', world')
    BY <1>a DEF Boards, Places, Rows, Flights, AgentPoses, Grid!Halves, Grid!Anchors, BoardFits,
       Grounded, NoneComes, Told, ClusterTold, RowsTold, Decided, Grid!FlightEnd, Reads, Grid!HalfOf
  <2>2. QED
    BY <1>a, <2>1 DEF BoardInv, Dash
<1>b. ASSUME NEW g \in Boards, BoardFits(g), NoneComes(g), Told(g, astray), g.half = glass.half,
             NEW to, NEW move \in BOOLEAN, NEW l, l = Leave(g, current, to, move)
      PROVE  /\ l \in Boards /\ BoardFits(l) /\ NoneComes(l) /\ SameRead(g, l)
             /\ Told(l, Taken(glass))
             /\ current # Dash => l = g
             /\ current = Dash /\ ~move => Grounded(l)
  <2>1. CASE current = Dash
    <3>1. l = Grid!Outro(g, move)
      BY <1>0, <1>b, <2>1 DEF Leave
    <3>2. Taken(glass) = astray \union {g.half}
      BY <1>0, <1>b, <2>1 DEF Taken
    <3>3. QED
      BY <1>b, <2>1, <3>1, <3>2, BoardLeaves
  <2>2. CASE current # Dash
    <3>1. l = g /\ Taken(glass) = astray
      BY <1>0, <1>b, <2>2 DEF Leave, Taken
    <3>2. QED
      BY <1>b, <2>2, <3>1 DEF SameRead
  <2>3. QED
    BY <2>1, <2>2
<1>c. PICK a : a = Grid!Arrived(glass)
  OBVIOUS
<1>d. /\ Arrived(glass) = a /\ a \in Boards /\ BoardFits(a) /\ Grounded(a) /\ SameRead(glass, a)
      /\ Told(a, astray)
  BY <1>0, <1>c, BoardArrives DEF Arrived
<1>e. ASSUME NEW g \in Boards, Grounded(g) PROVE NoneComes(g)
  BY <1>e DEF Grounded, NoneComes
<1>f. ASSUME NEW d, NEW e, SameRead(d, e), Reads(d, world) PROVE Reads(e, world)
  BY <1>f DEF SameRead, Reads
<1>g. ASSUME NEW g \in Boards, BoardFits(g), Grounded(g), NEW away, Told(g, away),
             NEW from, NEW to, NEW move \in BOOLEAN, NEW c, c = CutView(g, from, to, move)
      PROVE  /\ c \in Boards /\ BoardFits(c) /\ Told(c, Brought(away, c, to))
             /\ to # Dash \/ ~move => Grounded(c)
  <2>1. Hidden(g, from) = g /\ \A k, s : Unbaked(k, s) = k
    BY <1>0 DEF Hidden, Unbaked
  <2>2. c = Enter(Shown(g, to), to, from, move)
    BY <1>g, <2>1 DEF CutView
  <2>3. CASE to = Dash
    <3>1. PICK t : t = Grid!Tick(g, world, TRUE, motion)
      OBVIOUS
    <3>2. /\ t \in Boards /\ BoardFits(t)
          /\ world \in {"plain", "chip"} => ClusterTicked(g, t, world, TRUE, motion)
          /\ world \in {"two", "three"} => RowsTicked(g, t, world)
      BY <1>0, <1>g, <3>1, BoardTick
    <3>3. Grounded(t)
      BY <1>0, <1>g, <3>2 DEF AgentPoses, ClusterTicked, RowsTicked, Grounded
    <3>4. t.half = "fleet" => ClusterTold(t, away)
      BY <1>0, <1>g, <3>2 DEF AgentPoses, ClusterTicked, RowsTicked, Told, ClusterTold, Decided,
         Grid!FlightEnd
    <3>5. Ticked(g, to, TRUE) = {t}
      BY <1>0, <2>3, <3>1 DEF Ticked
    <3>6. Shown(g, to) = t
      BY <1>0, <3>5 DEF Shown
    <3>7. c = Grid!Intro(t, move)
      BY <1>0, <2>2, <2>3, <3>6 DEF Enter
    <3>8. Brought(away, c, to) = away \ {c.half}
      BY <1>0, <2>3 DEF Brought
    <3>9. QED
      BY <2>3, <3>2, <3>3, <3>4, <3>7, <3>8, BoardEnters
  <2>4. CASE to # Dash
    <3>1. Ticked(g, to, TRUE) = {g}
      BY <1>0, <2>4 DEF Ticked
    <3>2. Shown(g, to) = g
      BY <1>0, <3>1 DEF Shown
    <3>3. c = g /\ Brought(away, c, to) = away
      BY <1>0, <2>2, <2>4, <3>2 DEF Enter, Brought
    <3>4. QED
      BY <1>g, <3>3
  <2>5. QED
    BY <2>3, <2>4
<1>1. ASSUME NEW t \in Scenes, Departs(t) \/ Jumps(t) \/ Turns(t)
      PROVE  BoardInv'
  <2>1. CASE Departs(t)
    <3>1. /\ state = "IDLE" /\ state' = "OUTRO" /\ current' = current /\ world' = world
          /\ glass' = Leave(glass, current, t, TRUE) /\ astray' = Taken(glass) /\ seen' = FALSE
      BY <2>1 DEF Departs
    <3>2. NoneComes(glass)
      BY <1>0, <1>e, <3>1
    <3>3. /\ glass' \in Boards /\ BoardFits(glass') /\ NoneComes(glass') /\ Told(glass', Taken(glass))
          /\ current # Dash => glass' = glass
      BY <1>0, <1>b, <3>1, <3>2
    <3>4. QED
      BY <1>0, <1>a, <3>1, <3>3
  <2>2. CASE Jumps(t)
    <3>1. PICK l : l = Leave(glass, current, t, FALSE)
      OBVIOUS
    <3>2. /\ state = "IDLE" /\ state' = "IDLE" /\ current' = t /\ world' = world /\ seen' = FALSE
          /\ glass' = CutView(l, current, t, FALSE) /\ astray' = Brought(Taken(glass), glass', t)
      BY <2>2, <3>1 DEF Jumps
    <3>3. Grounded(glass) /\ NoneComes(glass)
      BY <1>0, <1>e, <3>2
    <3>4. l \in Boards /\ BoardFits(l) /\ Grounded(l) /\ Told(l, Taken(glass))
      BY <1>0, <1>b, <3>1, <3>3
    <3>5. /\ glass' \in Boards /\ BoardFits(glass') /\ Grounded(glass')
          /\ Told(glass', Brought(Taken(glass), glass', t))
      BY <1>g, <3>2, <3>4
    <3>6. QED
      BY <1>0, <1>a, <3>2, <3>5
  <2>3. CASE Turns(t)
    <3>1. /\ state = "OUTRO" /\ state' = "OUTRO" /\ current' = current /\ world' = world
          /\ seen' = seen
      BY <2>3 DEF Turns
    <3>2. CASE t = pending
      <4>1. glass' = glass /\ astray' = astray
        BY <2>3, <3>2 DEF Turns
      <4>2. QED
        BY <1>0, <1>a, <3>1, <4>1
    <3>3. CASE t # pending
      <4>1. PICK move \in BOOLEAN : glass' = Leave(glass, current, t, move)
        BY <2>3, <3>3 DEF Turns
      <4>2. astray' = Taken(glass)
        BY <2>3, <3>3 DEF Turns
      <4>3. /\ glass' \in Boards /\ BoardFits(glass') /\ NoneComes(glass')
            /\ SameRead(glass, glass') /\ Told(glass', Taken(glass))
            /\ current # Dash => glass' = glass
        BY <1>0, <1>b, <3>1, <4>1
      <4>4. QED
        BY <1>0, <1>a, <1>f, <3>1, <4>2, <4>3
    <3>4. QED
      BY <3>2, <3>3
  <2>4. QED
    BY <1>1, <2>1, <2>2, <2>3
<1>2. CASE Cuts
  <2>1. PICK move \in BOOLEAN : /\ move <=> state' = "INTRO"
                                /\ glass' = CutView(a, current, pending, move)
    BY <1>2, <1>d DEF Cuts
  <2>2. /\ current' = pending /\ world' = world /\ seen' = FALSE /\ state' \in {"INTRO", "IDLE"}
        /\ astray' = Brought(astray, glass', pending)
    BY <1>2 DEF Cuts
  <2>3. /\ glass' \in Boards /\ BoardFits(glass') /\ Told(glass', Brought(astray, glass', pending))
        /\ pending # Dash \/ ~move => Grounded(glass')
    BY <1>d, <1>g, <2>1
  <2>4. QED
    BY <1>0, <1>a, <2>1, <2>2, <2>3
<1>3. CASE TurnsBack
  <2>1. PICK move \in BOOLEAN : glass' = Leave(a, current, pending, move)
    BY <1>3, <1>d DEF TurnsBack
  <2>2. /\ state' = "OUTRO" /\ current' = current /\ world' = world /\ seen' = seen
        /\ astray' = Taken(glass)
    BY <1>3 DEF TurnsBack
  <2>3. NoneComes(a) /\ a.half = glass.half
    BY <1>d, <1>e DEF SameRead
  <2>4. /\ glass' \in Boards /\ BoardFits(glass') /\ NoneComes(glass') /\ SameRead(a, glass')
        /\ Told(glass', Taken(glass))
        /\ current # Dash => glass' = a
    BY <1>b, <1>d, <2>1, <2>3
  <2>5. current # Dash => Grounded(glass')
    BY <1>d, <2>4
  <2>6. current = Dash /\ seen => Reads(glass', world)
    BY <1>0, <1>d, <1>f, <2>4
  <2>7. QED
    BY <1>0, <1>a, <2>2, <2>4, <2>5, <2>6
<1>4. CASE Rests
  <2>1. /\ glass' = a /\ world' = world /\ astray' = astray /\ current' = current /\ seen' = seen
        /\ state' = "IDLE"
    BY <1>0, <1>4, <1>d DEF Rests, Unbaked
  <2>2. QED
    BY <1>0, <1>a, <1>d, <1>f, <2>1
<1>5. CASE Stays /\ Lone
  <2>0. state' = state /\ current' = current
    BY <1>5 DEF Stays
  <2>1. CASE SceneTick
    <3>1. /\ world' = world /\ glass' \in Ticked(glass, current, state # "IDLE")
          /\ astray' = TickStrays
      BY <2>1 DEF SceneTick
    <3>2. CASE current # Dash
      <4>1. glass' = glass /\ astray' = astray
        BY <1>0, <3>1, <3>2 DEF Ticked, TickStrays
      <4>2. QED
        BY <1>0, <1>a, <2>0, <3>1, <3>2, <4>1
    <3>3. CASE current = Dash
      <4>1. PICK busy \in BOOLEAN : busy = (state # "IDLE")
        OBVIOUS
      <4>2. glass' = Grid!Tick(glass, world, busy, motion)
        BY <1>0, <3>1, <3>3, <4>1 DEF Ticked
      <4>3. astray' = Strays(glass, astray, world, busy, motion)
        BY <1>0, <3>1, <3>3, <4>1 DEF TickStrays, Bound, Strays
      <4>4. motion \in {"full", "reduced"} /\ (busy \/ Grounded(glass))
        BY <1>0, <4>1 DEF MachineInv, TypeOK
      <4>5. Told(glass', astray') /\ Reads(glass', world)
        BY <1>0, <4>2, <4>3, <4>4, BoardTickTold
      <4>6. /\ glass' \in Boards /\ BoardFits(glass')
            /\ world \in {"plain", "chip"} => ClusterTicked(glass, glass', world, busy, motion)
            /\ world \in {"two", "three"} => RowsTicked(glass, glass', world)
        BY <1>0, <4>2, BoardTick
      <4>7. glass'.fly = glass.fly
        BY <1>0, <4>6 DEF AgentPoses, ClusterTicked, RowsTicked
      <4>8. (Grounded(glass) => Grounded(glass')) /\ (NoneComes(glass) => NoneComes(glass'))
        BY <4>7 DEF Grounded, NoneComes
      <4>9. QED
        BY <1>0, <1>a, <2>0, <3>1, <3>3, <4>5, <4>6, <4>8
    <3>4. QED
      BY <3>2, <3>3
  <2>2. CASE Land
    <3>1. /\ glass' \in Grid!Landings(glass) /\ world' = world /\ seen' = seen
      BY <1>0, <2>2 DEF Land, Landings
    <3>2. astray' = IF glass.slide # "none" /\ glass'.at["ambient"] = glass.slide
                      THEN astray \ {"ambient"} ELSE astray
      BY <1>0, <2>2 DEF Land, LandStrays
    <3>3. /\ glass' \in Boards /\ BoardFits(glass') /\ Grounded(glass')
          /\ glass'.half = glass.half /\ glass'.target = glass.target /\ glass'.laid = glass.laid
          /\ Told(glass', astray')
      BY <1>0, <3>1, <3>2, BoardLands
    <3>4. Reads(glass, world) => Reads(glass', world)
      BY <3>3 DEF Reads
    <3>5. QED
      BY <1>0, <1>a, <1>e, <2>0, <3>1, <3>3, <3>4
  <2>3. CASE WorldMoves
    <3>1. world' \in Worlds /\ glass' = glass /\ astray' = astray /\ seen' = FALSE
      BY <2>3 DEF WorldMoves
    <3>2. world' \in AgentPoses
      BY <1>0, <3>1 DEF Worlds, AgentPoses
    <3>3. QED
      BY <1>0, <1>a, <2>0, <3>1, <3>2
  <2>4. ~PushHold /\ ~WxComp /\ ~Bake
    BY <1>0 DEF PushHold, WxComp, Bake
  <2>5. QED
    BY <1>5, <2>1, <2>2, <2>3, <2>4 DEF Lone
<1>6. CASE Keeps
  BY <1>0, <1>a, <1>6 DEF Keeps, Stays
<1>7. QED
  BY <1>0, <1>1, <1>2, <1>3, <1>4, <1>5, <1>6, PartMoves DEF Part

\* A dashboard that has come to rest shows the half the agents ask for, and this
\* half stands where their pose wants it unless it is one that went astray, and
\* then it does not.
THEOREM DashStands == ViewSpec => []InPlace
<1>1. BoardInv => InPlace
  <2> SUFFICES ASSUME BoardInv, subject = "dash", AtRest(Dash), seen
               PROVE  LET h == Grid!HalfOf(world)
                      IN  glass.half = h /\ (glass.at[h] = world <=> h \notin astray)
    BY DEF InPlace
  <2>1. /\ glass \in Boards /\ BoardFits(glass) /\ Told(glass, astray) /\ Reads(glass, world)
        /\ Grid!Landings(glass) = {glass}
    BY DEF BoardInv, AtRest, Still, Landings
  <2>2. Grounded(glass) /\ glass.slide = "none"
    BY <2>1, BoardLands
  <2>3. /\ Grid!FlightEnd(glass, "ambient") = glass.at["ambient"]
        /\ Grid!FlightEnd(glass, "fleet") = glass.at["fleet"]
    BY <2>2 DEF Grounded, Grid!FlightEnd, Grid!Halves
  <2>4. glass.half \in {"ambient", "fleet"}
    BY <2>1 DEF Boards, Grid!Halves
  <2>5. QED
    BY <2>1, <2>2, <2>3, <2>4 DEF Told, ClusterTold, RowsTold, Decided, Reads
<1>2. QED
  BY ViewsBegin, ViewsStep, MachineInit, MachineStep, BoardInit, BoardStep, <1>1, PTL DEF ViewSpec
=============================================================================
