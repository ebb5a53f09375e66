----------------------------- MODULE SceneTrans ------------------------------
(***************************************************************************)
(* main/scene_trans.c: the one entry through which every view change goes  *)
(* (outro of the scene on the glass, cut on a black frame, intro of the    *)
(* next), with main/ui_motion.c, the reference count that keeps the        *)
(* display at its fast refresh period while anything moves.                *)
(*                                                                         *)
(* All of it runs on the LVGL task or under the display lock, so one call  *)
(* or one timer callback is one action.  Drawing is abstracted: what is    *)
(* left of the actors is whether an outro or an intro takes time at all,   *)
(* and against which scene their "held" flags were computed.  The sprite   *)
(* baking of ghost_begin is off by default and not modelled.               *)
(***************************************************************************)
EXTENDS Integers, FiniteSets

CONSTANTS
  N,         \* scene_fw_count()
  Clients,   \* the modules that hold the fast refresh period
  Self       \* this module among them (the other is ui_glow)

ASSUME SceneCount == N \in Nat \ {0}
ASSUME FiniteClients == IsFiniteSet(Clients) /\ Self \in Clients

Scenes == 0 .. N - 1

None == -1      \* s_pending without a target, s_from_p without a profile

VARIABLES
  state,       \* s_state
  pending,     \* s_pending: the scene to cut to, None when there is none
  fromP,       \* s_from_p: the scene whose actors left, None when NULL
  current,     \* scene_fw_current_index()
  heldFor,     \* the scene the leaving actors' held flags were computed against
  timer,       \* the one-shot timer s_step: "running" or "none"
  motion,      \* agent_state.motion_reduced: "full" or "reduced"
  holding,     \* who holds the fast period: Self when s_refr_held is set,
               \* ui_glow when its s_holding is, ...
  holders,     \* s_holders of ui_motion.c
  period,      \* the refresh timers' period: "active" (REFR_MS_ACTIVE) or "idle"
  asked        \* history variable: the argument of the last scene_trans_switch

machine == <<state, pending, fromP, current, heldFor, timer>>
tier == <<holding, holders, period>>
vars == <<machine, motion, tier, asked>>

Init ==
  /\ state = "IDLE" /\ pending = None /\ fromP = None /\ timer = "none"
  /\ current = 0 /\ heldFor = None
  /\ motion \in {"full", "reduced"}
  /\ holding = {} /\ holders = 0 /\ period = "idle"
  /\ asked = 0

-----------------------------------------------------------------------------
(* ui_motion.c *)

MotionHold(c) ==
  /\ holding' = holding \union {c}
  /\ holders' = holders + 1
  /\ period' = IF holders = 0 THEN "active" ELSE period

\* A release without a hold is reported and ignored.
MotionRelease(c) ==
  /\ holding' = holding \ {c}
  /\ holders' = IF holders = 0 THEN 0 ELSE holders - 1
  /\ period' = IF holders = 1 THEN "idle" ELSE period

\* refr_hold and refr_drop: one hold per transition, however often retargeted.
RefrHold == IF Self \in holding THEN UNCHANGED tier ELSE MotionHold(Self)

RefrDrop == IF Self \in holding THEN MotionRelease(Self) ELSE UNCHANGED tier

\* The edge light starts or ends its own animation.
ClientHold(c) ==
  /\ c \notin holding
  /\ MotionHold(c)
  /\ UNCHANGED <<machine, motion, asked>>

ClientRelease(c) ==
  /\ c \in holding
  /\ MotionRelease(c)
  /\ UNCHANGED <<machine, motion, asked>>

-----------------------------------------------------------------------------
(* The state machine *)

\* scene_trans_target: where the display is going to stand.
Target == IF state # "IDLE" /\ pending # None THEN pending ELSE current

\* What an outro or an intro may turn out to be: nothing at all with motion
\* reduced; otherwise it takes time whenever some actor moves, which depends
\* on the content of the scene.
Courses == IF motion = "full" THEN {"moves", "instant"} ELSE {"instant"}

\* play_outro marks the actors of the leaving scene that it shares with `to'.
PlayOutro(to) == heldFor' = to

\* The tail of do_switch_and_intro for a target t: cut, and play the intro.
\* What becomes of the refresh period is the caller's `Drop'.
CutTo(t, course) ==
  /\ current' = t
  /\ pending' = None
  /\ fromP' = None
  /\ state' = IF course = "moves" THEN "INTRO" ELSE "IDLE"

\* scene_trans_switch on an idle display: nothing to do for the scene shown.
StartTransition(t) ==
  /\ state = "IDLE"
  /\ t # current
  /\ PlayOutro(t)
  /\ asked' = t
  /\ UNCHANGED motion
  /\ \/ /\ motion = "full"                       \* the outro takes time
        /\ state' = "OUTRO" /\ pending' = t /\ fromP' = current /\ timer' = "running"
        /\ RefrHold
        /\ UNCHANGED current
     \/ /\ motion = "full"                       \* only the intro does
        /\ CutTo(t, "moves")
        /\ timer' = "running"
        /\ RefrHold
     \/ /\ CutTo(t, "instant")                       \* neither: held and dropped
        /\ UNCHANGED <<timer, tier>>

\* scene_trans_switch during a transition replaces the target.  During the
\* outro a different target replays the outro, so that the held flags belong
\* to the scene that will really appear, and restarts the timer; during the
\* intro the new target waits for the intro to end.
RetargetOutroOnly(t) ==      \* mutant: a request during the intro is dropped
  /\ state # "IDLE"
  /\ pending' = IF state = "OUTRO" THEN t ELSE pending
  /\ asked' = t /\ heldFor' = t
  /\ UNCHANGED <<state, fromP, current, timer, motion, tier>>

Retarget(t) ==
  /\ state # "IDLE"
  /\ pending' = t
  /\ asked' = t
  /\ IF state = "OUTRO" /\ t # pending
       THEN PlayOutro(t) /\ timer' = "running"
       ELSE UNCHANGED <<heldFor, timer>>
  /\ UNCHANGED <<state, fromP, current, motion, tier>>

Switch(t) == StartTransition(t) \/ Retarget(t)

\* step_cb at the end of an outro: cut to the target and play its intro.  The
\* branch without a target is the code's own defence.
EndOutroToOrigin ==          \* mutant: cuts to the scene the outro left
  /\ timer = "running"
  /\ state = "OUTRO"
  /\ CutTo(fromP, "instant") /\ timer' = "none" /\ RefrDrop
  /\ UNCHANGED <<heldFor, motion, asked>>

EndOutro ==
  /\ timer = "running"
  /\ state = "OUTRO"
  /\ IF pending = None
       THEN /\ state' = "IDLE" /\ fromP' = None /\ timer' = "none"
            /\ RefrDrop
            /\ UNCHANGED <<pending, current>>
       ELSE \E course \in Courses :
              /\ CutTo(pending, course)
              /\ IF course = "moves"
                   THEN timer' = "running" /\ UNCHANGED tier
                   ELSE timer' = "none" /\ RefrDrop
  /\ UNCHANGED <<heldFor, motion, asked>>

\* step_cb at the end of an intro: either leave at once for the scene asked
\* for meanwhile, or come to rest.
EndIntroKeepsTier ==         \* mutant: comes to rest at the fast period
  /\ timer = "running"
  /\ state = "INTRO" /\ pending = None
  /\ state' = "IDLE" /\ timer' = "none"
  /\ UNCHANGED <<pending, fromP, current, heldFor, motion, tier, asked>>

EndIntroNotArmed ==          \* mutant: the second outro never ends
  /\ timer = "running"
  /\ state = "INTRO"
  /\ state' = IF pending = None THEN "IDLE" ELSE "OUTRO"
  /\ fromP' = IF pending = None THEN None ELSE current
  /\ heldFor' = pending /\ timer' = "none"
  /\ IF pending = None THEN RefrDrop ELSE UNCHANGED tier
  /\ UNCHANGED <<pending, current, motion, asked>>

EndIntro ==
  /\ timer = "running"
  /\ state = "INTRO"
  /\ IF pending # None
       THEN /\ state' = "OUTRO"
            /\ fromP' = current
            /\ PlayOutro(pending)
            /\ timer' = "running"
            /\ UNCHANGED tier
       ELSE /\ state' = "IDLE"
            /\ timer' = "none"
            /\ RefrDrop
            /\ UNCHANGED <<fromP, heldFor>>
  /\ UNCHANGED <<pending, current, motion, asked>>

Step == EndOutro \/ EndIntro

\* `dash config' turns motion on or off at any time, mid-transition included.
SetMotion ==
  /\ motion' \in {"full", "reduced"} \ {motion}
  /\ UNCHANGED <<machine, tier, asked>>

Next ==
  \/ \E t \in Scenes : Switch(t)
  \/ Step
  \/ SetMotion
  \/ \E c \in Clients \ {Self} : ClientHold(c) \/ ClientRelease(c)

\* A retarget that plays the outro again starts the timer anew.
Rearm(t) ==
  /\ timer = "running"
  /\ state = "OUTRO" /\ t # pending
  /\ Retarget(t)

\* The LVGL task serves its timers: the one of a transition fires unless it is
\* started anew again and again.
Spec == Init /\ [][Next]_vars /\ WF_vars(Step \/ \E t \in Scenes : Rearm(t))

-----------------------------------------------------------------------------
(* Properties *)

TypeOK ==
  /\ state \in {"IDLE", "OUTRO", "INTRO"}
  /\ pending \in Scenes \union {None}
  /\ fromP \in Scenes \union {None}
  /\ current \in Scenes
  /\ heldFor \in Scenes \union {None}
  /\ timer \in {"running", "none"}
  /\ motion \in {"full", "reduced"}
  /\ holding \in SUBSET Clients
  /\ holders \in Nat
  /\ period \in {"active", "idle"}
  /\ asked \in Scenes

\* scene_trans_target always names the scene asked for last, in every window
\* of a transition: what button_router's "already there?" test relies on.
TargetIsLastAsked == Target = asked

\* The actors held back during an outro are those shared with the scene that
\* is really going to appear, and the incoming side compares itself with the
\* scene really on the glass: a shared element either stays or slides out,
\* it never evaporates on the black frame.
HeldAgreement == state = "OUTRO" => heldFor = pending /\ fromP = current

\* A transition under way always has its timer running: no path through the
\* state machine wedges the display half-way.
BusyIsArmed == state # "IDLE" => timer = "running"

\* The reference count counts the holders, and the period follows it.
TierCounted ==
  /\ holders = Cardinality(holding)
  /\ period = "active" <=> holders > 0

\* The display runs fast exactly while something moves: every hold of this
\* module and of the other clients is matched by its release, whatever the
\* interleaving of transitions, retargets and glows.
RefreshTier ==
  /\ Self \in holding <=> state # "IDLE"
  /\ TierCounted

\* SceneTrans implements the panel's contract: a request that was overtaken is
\* never shown, and the scene asked for last is, once the requests agree, also
\* when the same request is made again in every window of a transition.
Promise == INSTANCE DisplayContract WITH want <- asked, shown <- current

Contract == Promise!Spec

\* Once the requests stop, the display comes to rest on the scene asked for
\* last and gives its refresh period back.  The premise is about calls, not
\* targets: during an intro even a request for the scene coming in makes it
\* leave and come in again.
ComesToRest ==
  <>[][\A t \in Scenes : ~Switch(t)]_vars => <>[](state = "IDLE" /\ current = asked)
=============================================================================
