-------------------------------- MODULE Views --------------------------------
(***************************************************************************)
(* The views on the transition machine: what the scenes do when SceneTrans *)
(* makes them leave, cut and come in, while their own ticks, timers and    *)
(* animations run.  Everything is on the LVGL task; an action is a call or *)
(* a timer callback, and Land is the passing of the time that the          *)
(* animations in flight need.                                              *)
(*                                                                         *)
(* The views touch each other only through the transition, so a behaviour  *)
(* plays one `subject': the clock's face, the dashboard's halves, the      *)
(* shared footers, the weather's pictures or its baked actors, the         *)
(* decoration, the edge light, or none of them ("trans": the bare machine, *)
(* in which an outro or intro may turn out to take no time).               *)
(***************************************************************************)
EXTENDS SceneTrans

CONSTANTS
  Subjects,   \* bound: the subjects played
  MaxStamp    \* bound: the weather reports received

ASSUME GlowIsClient == "ui_glow" \in Clients \ {Self}

VARIABLES
  subject,    \* the part of the panel that is played
  glass,      \* its state
  world,      \* what it shows: agents, weather, theme, link
  seen,       \* history: a tick at rest has read the world as it is
  astray      \* history: the halves of the dashboard that the last call which
              \* moved them sends elsewhere than where the pose wants them

view == <<subject, glass, world, seen, astray>>
panel == <<vars, view>>

Face == INSTANCE ClockScene
Grid == INSTANCE DashScene
Wx == INSTANCE WeatherScene
Deco == INSTANCE DecoLayer
Glow == INSTANCE LinkGlow
Baked == INSTANCE Sprites

\* Registration order in app_main.  N is 3.
Dash == 0
Weather == 1
Clock == 2

Glowing == "ui_glow" \in holding

-----------------------------------------------------------------------------
(* The footers: the clock and the dashboard have the same four labels under *)
(* the same keys, the weather view has none.                                *)

Footed == {Clock, Dash}

Footer(at, fly) == [at |-> at, fly |-> fly]

\* mark_held and same_pose, for the one set of actors that two scenes share.
SamePose(s, other) == s \in Footed /\ other \in Footed

\* An actor that is held is parked at rest, in the outro and in the intro.
FooterLeaves(g, s, held, move) ==
  [g EXCEPT ![s] = IF held THEN Footer("rest", "none")
                   ELSE IF move THEN Footer(@.at, "out") ELSE Footer("off", "none")]

FooterComes(g, s, held, move) ==
  [g EXCEPT ![s] = IF held \/ ~move THEN Footer("rest", "none") ELSE Footer("off", "in")]

FooterArrived(f) ==
  Footer(CASE f.fly = "in" -> "rest" [] f.fly = "out" -> "off" [] OTHER -> f.at, "none")

-----------------------------------------------------------------------------
(* What a transition calls *)

\* play_outro of scene s on the way to `to'.
Leave(g, s, to, move) ==
  CASE subject = "clock" /\ s = Clock -> Face!ToConsensus(g, move)
    [] subject = "dash" /\ s = Dash -> Grid!Outro(g, move)
    [] subject = "weather" /\ s = Weather -> Wx!ToConsensus(g, move)
    [] subject = "sprite" /\ s = Weather -> Baked!Outro(g, move)
    [] subject = "deco" -> Deco!Outro(g, s, move)
    [] subject = "foot" /\ s \in Footed -> FooterLeaves(g, s, SamePose(s, to), move)
    [] OTHER -> g

\* play_intro of scene s after `from'.
Enter(g, s, from, move) ==
  CASE subject = "clock" /\ s = Clock -> Face!FromConsensus(g, move)
    [] subject = "dash" /\ s = Dash -> Grid!Intro(g, move)
    [] subject = "weather" /\ s = Weather -> Wx!FromConsensus(g, move)
    [] subject = "sprite" /\ s = Weather -> Baked!Intro(g, move)
    [] subject = "deco" -> Deco!Intro(g, s, move)
    [] subject = "foot" /\ s \in Footed -> FooterComes(g, s, SamePose(s, from), move)
    [] OTHER -> g

\* A scene's own tick; the dashboard's also poses its decoration.
\* The outcomes: whether the weather's bakes succeed is not in its hands.
Ticked(g, s, busy) ==
  CASE subject = "clock" /\ s = Clock -> {Face!Tick(g, world)}
    [] subject = "dash" /\ s = Dash -> {Grid!Tick(g, world, busy, motion)}
    [] subject = "weather" /\ s = Weather ->
         {Wx!Tick(g, world.data, world.theme, busy, i, d, b) : i, d, b \in BOOLEAN}
    [] subject = "sprite" /\ s = Weather -> {Baked!Tick(g, world = "told", busy)}
    [] subject = "deco" /\ s = Dash -> {Deco!SetState(g, Dash, world = "single")}
    [] subject = "link" -> {Glow!Update(g, s, world, Glowing)}
    [] OTHER -> {g}

\* on_hide and on_show of the cut.  on_show ends with a tick, for which the
\* transition is still under way; the clock's only seeds what it compares.
Hidden(g, s) ==
  CASE subject = "clock" /\ s = Clock -> Face!Hide(g)
    [] subject = "deco" -> Deco!Vanish(g, s)
    [] OTHER -> g

Shown(g, s) ==
  CASE subject = "clock" /\ s = Clock -> Face!Show(g, motion = "full", world)
    [] subject = "weather" /\ s = Weather ->
         Wx!Tick(Wx!Show(g), world.data, world.theme, TRUE, TRUE, TRUE, TRUE)
    [] subject = "deco" ->
         CHOOSE h \in Ticked(Deco!Appear(g, s), s, TRUE) : TRUE
    [] OTHER -> CHOOSE h \in Ticked(g, s, TRUE) : TRUE

\* profile_ghosts_end.
Unbaked(g, s) == IF subject = "sprite" /\ s = Weather THEN Baked!End(g) ELSE g

\* do_switch_and_intro: the sprites of the scene that leaves go before the
\* black frame, those of an intro that takes no time right after it.
CutView(g, from, to, move) ==
  LET entered == Enter(Shown(Hidden(Unbaked(g, from), from), to), to, from, move)
  IN  IF move THEN entered ELSE Unbaked(entered, to)

\* The animations the transition started are over when its timer fires ...
Arrived(g) ==
  CASE subject = "clock" -> Face!Arrived(g)
    [] subject = "dash" -> Grid!Arrived(g)
    [] subject = "weather" -> Wx!Landed(g)
    [] subject = "foot" -> [s \in Footed |-> FooterArrived(g[s])]
    [] subject = "sprite" -> Baked!Arrived(g)
    [] OTHER -> g

\* ... and these are the ways in which all of them may be.
Landings(g) ==
  CASE subject = "clock" -> {Face!Landed(g)}
    [] subject = "dash" -> Grid!Landings(g)
    [] OTHER -> {Arrived(g)}

Still(g) == Landings(g) = {g}

-----------------------------------------------------------------------------
Worlds ==
  CASE subject = "clock" -> {"running", "waiting", "none"}
    [] subject = "dash" -> {"plain", "chip", "two", "three"}
    [] subject = "weather" -> [data : [stamp : 0 .. MaxStamp, code : {"sun", "rain"},
                                       days : {"wet", "dry"}], theme : {"gold", "mono"}]
    [] subject = "deco" -> {"single", "fleet"}
    [] subject = "sprite" -> {"untold", "told"}
    [] subject = "link" -> {"waiting", "ok", "lost"}
    [] OTHER -> {"none"}

\* At boot: no agent, no report, no link; the dashboard is shown.
FirstWorld ==
  CASE subject = "clock" -> "none"
    [] subject = "dash" -> "plain"
    [] subject = "weather" -> [data |-> [stamp |-> 0, code |-> "sun", days |-> "dry"],
                               theme |-> "gold"]
    [] subject = "deco" -> "single"
    [] subject = "sprite" -> "untold"
    [] subject = "link" -> "waiting"
    [] OTHER -> "none"

FirstGlass ==
  CASE subject = "clock" -> Face!New
    [] subject = "dash" -> Grid!Tick(Grid!New, "plain", FALSE, motion)
    [] subject = "weather" -> Wx!New("gold")
    [] subject = "sprite" -> Baked!New
    [] subject = "foot" -> [s \in Footed |-> Footer("rest", "none")]
    [] subject = "deco" -> Deco!Appear(Deco!New(Scenes), Dash)
    [] subject = "link" -> Glow!Update(Glow!New(Scenes), Dash, "waiting", FALSE)
    [] OTHER -> "none"

ViewInit ==
  /\ Init
  /\ subject \in Subjects
  /\ world = FirstWorld
  /\ glass = FirstGlass
  /\ seen = FALSE /\ astray = {}

\* Other than in "trans", an outro and an intro move something.
Timely(phase) == subject # "trans" /\ motion = "full" => state' = phase

(* Which half of the dashboard goes astray.  An outro takes the half that is *)
(* shown away from its place; an intro brings back the one that is shown.    *)

Taken(g) == IF subject = "dash" /\ current = Dash THEN astray \union {g.half} ELSE astray

Brought(away, g, to) == IF subject = "dash" /\ to = Dash THEN away \ {g.half} ELSE away

\* Where a half will stand that a tick gives another place: a flight under way
\* goes on to the place it had; the rows are put there at once; the cluster
\* goes there, but not while a transition is under way, with motion.
Bound(h) ==
  CASE glass.fly[h] # "none" -> Grid!FlightEnd(glass, h)
    [] glass.fly[h] = "none" /\ h = "ambient" /\ state # "IDLE" /\ motion = "full" ->
         IF glass.slide = "none" THEN glass.at[h] ELSE "mid"
    [] OTHER -> world

\* A tick moves a half only to a place that differs from the one it has.
TickStrays ==
  LET h == Grid!HalfOf(world)
  IN  CASE subject # "dash" \/ current # Dash -> astray
        [] world = (IF h = "ambient" THEN glass.target ELSE glass.laid) -> astray
        [] OTHER -> IF Bound(h) = world THEN astray \ {h} ELSE astray \union {h}

\* A slide that outlasts the flight out brings the cluster to its place.
LandStrays ==
  IF subject = "dash" /\ glass.slide # "none" /\ glass'.at.ambient = glass.slide
    THEN astray \ {"ambient"} ELSE astray

\* scene_trans_switch.
Start(t) ==
  /\ StartTransition(t)
  /\ Timely("OUTRO")
  /\ glass' = IF state' = "OUTRO" THEN Leave(glass, current, t, TRUE)
              ELSE CutView(Leave(glass, current, t, FALSE), current, t, FALSE)
  /\ astray' = IF state' = "OUTRO" THEN Taken(glass) ELSE Brought(Taken(glass), glass', t)
  /\ seen' = FALSE
  /\ UNCHANGED <<subject, world>>

RedirectStale(t) ==          \* mutant: the outro is not played again
  /\ Retarget(t)
  /\ UNCHANGED view

Redirect(t) ==
  /\ Retarget(t)
  /\ glass' = IF state = "OUTRO" /\ t # pending
                THEN Leave(glass, current, t, motion = "full") ELSE glass
  /\ astray' = IF state = "OUTRO" /\ t # pending THEN Taken(glass) ELSE astray
  /\ UNCHANGED <<subject, world, seen>>

\* step_cb.
Cut ==
  /\ EndOutro
  /\ Timely("INTRO")
  /\ glass' = CutView(Arrived(glass), fromP, pending, motion = "full")
  /\ astray' = Brought(astray, glass', pending)
  /\ seen' = FALSE
  /\ UNCHANGED <<subject, world>>

Settle ==
  /\ EndIntro
  /\ LET arrived == Arrived(glass)
     IN  glass' = IF pending = None THEN Unbaked(arrived, current)
                  ELSE Leave(arrived, current, pending, motion = "full")
  /\ astray' = IF pending = None THEN astray ELSE Taken(glass)
  /\ UNCHANGED <<subject, world, seen>>

StepView == Cut \/ Settle

\* The tick of the scene that is shown.
SceneTick ==
  /\ glass' \in Ticked(glass, current, state # "IDLE")
  /\ seen' = (state = "IDLE")
  /\ astray' = TickStrays
  /\ UNCHANGED <<vars, subject, world>>

\* push_hold_cb: three seconds after the card came in.
PushHold ==
  /\ subject = "clock" /\ glass.hold /\ glass.card # "in"
  /\ glass' = Face!Dismiss(glass)
  /\ UNCHANGED <<vars, subject, world, seen, astray>>

DecoTimer ==
  /\ subject = "deco" /\ glass.runs
  /\ glass' = Deco!Timer(glass)
  /\ UNCHANGED <<vars, subject, world, seen, astray>>

\* `?wxcomp' turns the baking of the weather's pictures on or off.  Bound: not
\* between a switch, a failed bake's included, and the tick that applies it.
WxComp ==
  /\ subject = "weather" /\ glass.on = glass.applied
  /\ glass' = [glass EXCEPT !.on = ~@]
  /\ UNCHANGED <<vars, subject, world, seen, astray>>

\* `?bake', or memory for the snapshots comes and goes.
Bake ==
  /\ subject = "sprite"
  /\ glass' = [glass EXCEPT !.bake = ~@]
  /\ UNCHANGED <<vars, subject, world, seen, astray>>

\* A key press lights the edge for a second.
GlowPing ==
  /\ subject = "link"
  /\ IF Glowing THEN UNCHANGED tier ELSE MotionHold("ui_glow")
  /\ glass' = Glow!Ping(glass)
  /\ UNCHANGED <<machine, motion, asked, subject, world, seen, astray>>

GlowSettle ==
  /\ subject = "link"
  /\ ClientRelease("ui_glow")
  /\ glass' = Glow!Settle(glass)
  /\ UNCHANGED <<subject, world, seen, astray>>

Land ==
  /\ ~Still(glass)
  /\ glass' \in Landings(glass)
  /\ astray' = LandStrays
  /\ UNCHANGED <<vars, subject, world, seen>>

\* A new report has a stamp of its own (the first one is fixed); a link that was up once is up or lost.
WorldMoves ==
  /\ world' \in Worlds \ {world}
  /\ subject = "weather" /\ world'.data # world.data =>
       /\ world'.data.stamp = world.data.stamp + 1 /\ world'.theme = world.theme
       /\ world.data.stamp = 0 => world'.data.code = "sun" /\ world'.data.days = "dry"
  /\ subject = "link" => world' # "waiting"
  /\ subject = "sprite" => world' = "told"
  /\ seen' = FALSE
  /\ UNCHANGED <<vars, subject, glass, astray>>

MotionMoves == SetMotion /\ UNCHANGED view

\* With no subject, what holds the fast period besides comes and goes.
Others ==
  /\ subject = "trans"
  /\ \E c \in Clients \ {Self} : ClientHold(c) \/ ClientRelease(c)
  /\ UNCHANGED view

ViewNext ==
  \/ \E t \in Scenes : Start(t) \/ Redirect(t)
  \/ StepView \/ SceneTick \/ PushHold \/ DecoTimer \/ WxComp \/ Bake
  \/ GlowPing \/ GlowSettle \/ Land \/ WorldMoves \/ MotionMoves \/ Others

\* The LVGL task serves its timers, unless a request starts that of a transition
\* anew (Rearm), and moves its animations.
ViewSpec ==
  /\ ViewInit /\ [][ViewNext]_panel
  /\ WF_panel(StepView \/ \E t \in Scenes : Redirect(t) /\ Rearm(t))
  /\ WF_panel(SceneTick) /\ WF_panel(DecoTimer) /\ WF_panel(Land)

-----------------------------------------------------------------------------
(* Properties *)

AtRest(s) == state = "IDLE" /\ current = s /\ Still(glass)

\* Whatever presses, cards, dwell timers and transitions have crossed, a clock
\* that has come to rest shows the time once: as the face, in its place and in
\* full, without a card; or small at the top above the card it made room for.
FaceAtRest ==
  subject = "clock" /\ AtRest(Clock) =>
    IF glass.push
      THEN glass.face = "clear" /\ glass.top = "full" /\ glass.card = "shown"
      ELSE glass.face = "full" /\ glass.size = "big" /\ glass.y = "rest"
           /\ glass.top = "hidden" /\ glass.card = "hidden"

\* The time never leaves the screen: while the clock is shown there is always
\* a face or a small clock on the glass, or on its way in or out.
TimeOnGlass ==
  subject = "clock" /\ current = Clock => glass.face # "clear" \/ glass.top # "hidden"

\* A dashboard that has come to rest, ticked since, stands where the agents'
\* pose wants it, whichever animation drove its y last and however the agents
\* came and went while it was away, but in the two cases in which the code
\* leaves it elsewhere, and in these it does: an outro took the half off and
\* the intro found it hidden, and the pose has not changed since; or the pose
\* changed during a transition, to a place its flight does not go to.
InPlace ==
  subject = "dash" /\ AtRest(Dash) /\ seen =>
    LET h == Grid!HalfOf(world)
    IN  glass.half = h /\ (glass.at[h] = world <=> h \notin astray)

\* A footer the two views share stands still through the black cut; one that
\* the next view does not have has left before it.
FooterContinuity ==
  [][subject = "foot" /\ current' # current =>
       /\ current \in Footed =>
            glass'[current].at = IF current' \in Footed THEN "rest" ELSE "off"
       /\ {current, current'} \subseteq Footed => glass'[current'] = Footer("rest", "none")]_panel

\* Through failed bakes, changes of form, theme and data at any time, a weather
\* view that has ticked at rest tells the report received last.
WeatherShown ==
  subject = "weather" /\ AtRest(Weather) /\ seen /\ glass.on = glass.applied =>
    Wx!Tells(glass, world.data, world.theme) /\ glass.time = "rest"

\* However transitions are turned round, baking is switched and snapshots fail:
\* no sprite outlives the transition it was baked for, and what is shown then
\* is the object itself, at rest; the content alone may hide it.
NoSpriteLeft ==
  subject = "sprite" /\ state = "IDLE" =>
    /\ glass.sprite = "none"
    /\ AtRest(Weather) => Baked!Free(glass) /\ (glass.hidden => world = "told")

\* Once the requests and the world come to rest, the decoration of the scene
\* shown is complete and every other is dark.
DecoSettles ==
  <>[][(\A t \in Scenes : ~Switch(t)) /\ ~WorldMoves]_panel
    => <>[](subject = "deco" => Deco!Settled(glass, current))

\* Unless a ping plays, the edge shows the light asked for last.
GlowFallsBack == subject = "link" /\ ~Glowing => glass.picture = Glow!Rest(glass)
=============================================================================
