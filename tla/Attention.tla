------------------------------ MODULE Attention ------------------------------
(***************************************************************************)
(* Who decides which scene the panel shows: the 500 ms poll of             *)
(* main/esp32_agent_dashboard_main.c (pull to the dashboard when a turn    *)
(* comes back, clock screensaver when nothing happens), the three keys of  *)
(* main/button_router.c, and the host's `dash scene', all of them through  *)
(* the transition machine of SceneTrans.                                   *)
(*                                                                         *)
(* The poll, the queued key callbacks and the transition timer run on the  *)
(* LVGL task, one at a time.  The poll reads the agent state under its own *)
(* lock and acts afterwards; whatever other tasks write in between does    *)
(* not touch what the second half reads, so such a write commutes to after *)
(* the poll and the poll is one action.  A key press runs on a small task  *)
(* of its own and is three actions: touch, consume, enqueue.               *)
(*                                                                         *)
(* lv_async_call makes a one-shot timer without a period.  LVGL (external) *)
(* puts a new timer at the head of its list and, after every one-shot that *)
(* it has run, begins a pass at the head again: a pass first runs all the  *)
(* key callbacks pending, the newest first.                                *)
(***************************************************************************)
EXTENDS Integers, Sequences, FiniteSets

CONSTANTS
  Agents,       \* the agents whose slots may await the user
  MaxPresses    \* bound: key presses under way or queued at the same time

ASSUME SomeAgents == IsFiniteSet(Agents) /\ MaxPresses \in Nat \ {0}

VARIABLES
  state, pending, fromP, current, heldFor, timer, motion,    \* SceneTrans
  holding, holders, period, asked,
  awaiting,    \* the agents whose slot has awaiting_kind # NONE
  link,        \* "lost" when no snapshot came for offline_clock_min minutes
  due,         \* which inactivity limits have passed: "idle" (screensaver_min),
               \* "offline" (offline_clock_min)
  prevEff,     \* s_prev_eff_awaiting
  covered,     \* s_pre_saver_scene_idx, None when s_saver_active is false
  press,       \* how far each key's button_router_press has come
  queue,       \* the pending calls of go_scene_cb, as they stand in LVGL's list
  drain,       \* "on" while a pass of the LVGL task, which holds the display
               \* lock, has run some of them and not yet all
  firstKey,    \* history: of the keys handed over since the queue was last
               \* empty, the scene of the first; None when the poll or the host
               \* has decided otherwise since
  pulled,      \* history: how the display stood when the poll saw the last edge
  dismissed    \* history: the user keyed away after that edge

trans == <<state, pending, fromP, current, heldFor, timer, motion,
           holding, holders, period, asked>>
agentState == <<awaiting, link, due>>
keys == <<press, queue, drain>>
history == <<firstKey, pulled, dismissed>>
vars == <<trans, agentState, prevEff, covered, keys, history>>

\* Registration order in app_main.
Dash == 0
Weather == 1
Clock == 2

Trans == INSTANCE SceneTrans WITH N <- 3, Clients <- {"scene_trans"}, Self <- "scene_trans"

None == Trans!None
Scenes == Trans!Scenes
Target == Trans!Target

\* With motion reduced a transition is always instantaneous, which is one of
\* the courses it may take with full motion: only the latter is explored.
Init ==
  /\ Trans!Init /\ motion = "full"
  /\ awaiting = {} /\ link = "up" /\ due = {}
  /\ prevEff = "no" /\ covered = None
  /\ press = [k \in Scenes |-> "up"] /\ queue = <<>> /\ drain = "off"
  /\ firstKey = None /\ pulled = "none" /\ dismissed = "no"

-----------------------------------------------------------------------------
(* The agent state: snapshots, events and the passing of time *)

\* cmd_snapshot, up to the release of the state lock: the slots are merged and
\* the link is alive again.
ApplySnapshot(a) ==
  /\ awaiting' = a
  /\ link' = "up"
  /\ <<awaiting', link'>> # <<awaiting, link>>
  /\ UNCHANGED <<trans, due, prevEff, covered, keys, history>>

\* agent_state_touch_activity: called later by cmd_snapshot, in a second holding
\* of the lock and only when the state changed, and by cmd_event.
Touch ==
  /\ due' = {}
  /\ UNCHANGED <<trans, awaiting, link, prevEff, covered, keys, history>>

\* Minutes without activity, minutes without a snapshot.  The two limits are
\* configured separately, so either may pass first.
TimePasses ==
  /\ \/ \E limit \in {"idle", "offline"} \ due :
          due' = due \union {limit} /\ UNCHANGED link
     \/ link = "up" /\ link' = "lost" /\ UNCHANGED due
  /\ UNCHANGED <<trans, awaiting, prevEff, covered, keys, history>>

\* A switch that is nobody's key.  A key still queued will have its say.
SwitchByOther(t) ==
  /\ Trans!Switch(t)
  /\ firstKey' = IF queue = <<>> THEN None ELSE firstKey

\* `dash scene' and `dash idle': a view change asked for by the host, under the
\* display lock.
HostSwitch(t) ==
  /\ drain = "off"
  /\ SwitchByOther(t)
  /\ pulled' = "none"
  /\ UNCHANGED <<agentState, prevEff, covered, keys, dismissed>>

-----------------------------------------------------------------------------
(* Keys *)

InFlight == Cardinality({k \in Scenes : press[k] # "up"}) + Len(queue)

\* button_router_press, key by key named for its scene: the touch, ...
PressTouch(k) ==
  /\ press[k] = "up"
  /\ InFlight < MaxPresses
  /\ press' = [press EXCEPT ![k] = "touched"]
  /\ due' = {}
  /\ UNCHANGED <<trans, awaiting, link, prevEff, covered, queue, drain, history>>

\* ... scene_saver_consume under the display lock, ...
PressConsume(k) ==
  /\ drain = "off"
  /\ press[k] = "touched"
  /\ press' = [press EXCEPT ![k] = "consumed"]
  /\ covered' = None
  /\ UNCHANGED <<trans, agentState, prevEff, queue, drain, history>>

\* ... and go_scene, which hands the switch to the LVGL task under that lock.
PressEnqueue(k) ==
  /\ drain = "off"
  /\ press[k] = "consumed"
  /\ press' = [press EXCEPT ![k] = "up"]
  /\ queue' = <<k>> \o queue
  /\ firstKey' = IF queue = <<>> THEN k ELSE firstKey
  /\ UNCHANGED <<trans, agentState, prevEff, covered, drain, pulled, dismissed>>

GoSceneByCurrent ==          \* mutant: "already there?" asks the glass
  /\ queue # <<>>
  /\ queue' = Tail(queue)
  /\ drain' = IF Tail(queue) = <<>> THEN "off" ELSE "on"
  /\ IF current = Head(queue) THEN UNCHANGED <<trans, pulled, dismissed>>
     ELSE /\ Trans!Switch(Head(queue))
          /\ pulled' = "none"
          /\ dismissed' = IF prevEff = "yes" /\ Head(queue) # Dash THEN "yes" ELSE "no"
  /\ UNCHANGED <<agentState, prevEff, covered, press, firstKey>>

\* go_scene_cb: a key for the scene the display is heading for only pings.
GoScene ==
  /\ queue # <<>>
  /\ queue' = Tail(queue)
  /\ drain' = IF Tail(queue) = <<>> THEN "off" ELSE "on"
  /\ IF Target = Head(queue) THEN UNCHANGED <<trans, pulled, dismissed>>
     ELSE /\ Trans!Switch(Head(queue))
          /\ pulled' = "none"
          /\ dismissed' = IF prevEff = "yes" /\ Head(queue) # Dash THEN "yes" ELSE "no"
  /\ UNCHANGED <<agentState, prevEff, covered, press, firstKey>>

-----------------------------------------------------------------------------
(* scene_auto_switch_cb *)

\* eff_awaiting: frozen slots of a lost host do not count.
EffAwaiting == awaiting # {} /\ link = "up"

Edge == EffAwaiting /\ prevEff = "no"

SaverWantedWhileAwaiting ==  \* mutant: the idle road ignores the agents
  \/ "idle" \in due
  \/ link = "lost" /\ "offline" \in due

\* The two roads into the saver.
SaverWanted ==
  \/ awaiting = {} /\ "idle" \in due
  \/ link = "lost" /\ "offline" \in due

\* The second half of the callback: leave or enter the saver's clock.
SaverKeepsFlag ==            \* mutant: a flag left by a pull is never cleared
  IF current = Clock \/ covered # None \/ ~SaverWanted
    THEN UNCHANGED <<trans, covered, firstKey>>
    ELSE covered' = current /\ SwitchByOther(Clock)

Saver ==
  IF current = Clock
    THEN UNCHANGED <<trans, covered, firstKey>>
    ELSE IF covered # None
      THEN covered' = None /\ UNCHANGED <<trans, firstKey>>
      ELSE IF SaverWanted
        THEN covered' = current /\ SwitchByOther(Clock)
        ELSE UNCHANGED <<trans, covered, firstKey>>

\* The pull is for the edge alone, and only when the scene on the glass is
\* another one.  The poll's timer is older than every key's.
PollOnLevel ==               \* mutant: pulls as long as an agent awaits
  /\ queue = <<>>
  /\ prevEff' = IF EffAwaiting THEN "yes" ELSE "no"
  /\ pulled' = IF EffAwaiting THEN "settled" ELSE "none"
  /\ dismissed' = IF EffAwaiting THEN dismissed ELSE "no"
  /\ IF EffAwaiting /\ current # Dash
       THEN SwitchByOther(Dash) /\ UNCHANGED covered
       ELSE Saver
  /\ UNCHANGED <<agentState, keys>>

Poll ==
  /\ queue = <<>>
  /\ prevEff' = IF EffAwaiting THEN "yes" ELSE "no"
  /\ pulled' = IF ~EffAwaiting THEN "none"
               ELSE IF Edge THEN IF Target = current THEN "settled" ELSE "leaving"
               ELSE pulled
  /\ dismissed' = IF EffAwaiting THEN dismissed ELSE "no"
  /\ IF Edge /\ current # Dash
       THEN SwitchByOther(Dash) /\ UNCHANGED covered
       ELSE Saver
  /\ UNCHANGED <<agentState, keys>>

-----------------------------------------------------------------------------

\* s_step is created at the first transition, so that a key of that moment may
\* stand behind it.
TransStep ==
  /\ drain = "off"
  /\ Trans!Step
  /\ UNCHANGED <<agentState, prevEff, covered, keys, history>>

Next ==
  \/ \E a \in SUBSET Agents : ApplySnapshot(a)
  \/ Touch
  \/ TimePasses
  \/ \E t \in Scenes : HostSwitch(t)
  \/ \E k \in Scenes : PressTouch(k) \/ PressConsume(k) \/ PressEnqueue(k)
  \/ GoScene
  \/ Poll
  \/ TransStep

\* A request that turns an outro round starts s_step anew.
Rearm ==
  /\ Poll \/ GoScene \/ \E t \in Scenes : HostSwitch(t)
  /\ timer = "running"
  /\ state = "OUTRO" /\ pending' # pending

\* lv_timer_handler serves the poll, the queue and the transition timer in
\* every pass; the last of them is over unless it is started anew for ever.
Fairness ==
  /\ WF_vars(Poll)
  /\ WF_vars(GoScene)
  /\ WF_vars(TransStep \/ Rearm)
  /\ \A k \in Scenes : WF_vars(PressConsume(k)) /\ WF_vars(PressEnqueue(k))

Spec == Init /\ [][Next]_vars /\ Fairness

-----------------------------------------------------------------------------
(* Properties *)

TypeOK ==
  /\ Trans!TypeOK
  /\ awaiting \subseteq Agents
  /\ link \in {"up", "lost"}
  /\ due \subseteq {"idle", "offline"}
  /\ prevEff \in {"no", "yes"}
  /\ covered \in Scenes \union {None}
  /\ press \in [Scenes -> {"up", "touched", "consumed"}]
  /\ queue \in Seq(Scenes) /\ InFlight <= MaxPresses
  /\ drain \in {"on", "off"}
  /\ firstKey \in Scenes \union {None}
  /\ pulled \in {"none", "settled", "leaving"}
  /\ dismissed \in {"no", "yes"}

\* A key goes where it says, however it falls into a transition: once the queue
\* has drained, and until the poll or the host decides otherwise, the display is
\* heading for the scene of the key pressed.  Of several keys handed over between
\* two passes it is the first, as the newest is run first and the last to run
\* decides; what button_router.c:59 says of two presses in the queue, that the
\* second sees what the first has done, is the other way round.
KeyDecides == firstKey # None /\ queue = <<>> => Target = firstKey

\* A turn that comes back while the display is at rest or coming in brings the
\* dashboard, and until that turn is over neither the saver nor a transition
\* takes it away again; only a key or the host does.
PullStands == pulled = "settled" => Target = Dash

\* What README.md and the comment in front of scene_auto_switch_cb say of
\* every turn-return: the same without the condition.
EveryReturnPulls == pulled # "none" => Target = Dash

\* One-shot: after the user keyed away, the poll does not grab the display
\* back for the same turn.
NoRegrab ==
  [][Poll /\ dismissed = "yes" /\ dismissed' = "yes" /\ Target # Dash
       => Target' # Dash]_vars

\* The saver comes: when every agent is quiet for good and nobody touches the
\* panel, the clock is finally on the glass and stays there, whatever was
\* under way when the limit passed.
Quiet ==
  /\ awaiting = {} /\ "idle" \in due
  /\ queue = <<>> /\ \A k \in Scenes : press[k] = "up"

SaverComes ==
  <>[]Quiet /\ <>[][\A t \in Scenes : ~HostSwitch(t)]_vars => <>[](current = Clock)
=============================================================================
