# esp32-agent-dashboard in TLA+

The repository is a desk panel (ESP32 firmware in C, under `main/`) that shows what
coding agents on a host are doing, and the host side that feeds it (Python, under
`tools/`): hooks that report events, a bridge that keeps a registry of sessions and
pushes snapshots of it over a serial link. These modules model the parts that decide
something - which view is on the glass and what it shows at rest, which agent has which
slot, whose turn it is, which process has the port, what is left on the glass when a
drawing is taken back - and leave pixels, wording and I/O out. All paths below are relative
to `src/`.

    hooks, CLI  --line-->  Bridge._dispatch -> SessionRegistry -> SnapshotPublisher -> DevicePusher
                           tools/claude_buddy_bridge.py                                   | serial
                                                                                         v
    keys -> button_router ----+                              cmd_snapshot / cmd_event / cmd_tokens
    500 ms poll --------------+--> scene_trans_switch        agent_snapshot_apply -> agent_state
    dash scene, dash idle ----+         |                                   |
                                        v                                   +--> the 500 ms poll, the views
                                  scene framework, ui_motion

## 1. Inventory

| Component | State | Operations | What is hard | What makes it correct |
|---|---|---|---|---|
| View transitions, `main/scene_trans.c`, `main/ui_motion.c` | `s_state`, `s_pending`, `s_from_p`, the one-shot step timer, the actors' held flags, `s_refr_held`, `s_holders` | `scene_trans_switch` (start or retarget), `step_cb` (end of outro, end of intro), hold/release of the refresh period | a request in any window of another one's transition; motion switched off midway; early cuts that must give the period back | the last request wins; nothing wedges; held flags agree with what really appears; every hold is released |
| Attention poll and screensaver, `main/esp32_agent_dashboard_main.c` | `s_prev_eff_awaiting`, `s_saver_active`, `s_pre_saver_scene_idx`; reads the agent state and the current scene | `scene_auto_switch_cb` every 500 ms | current scene against target; an edge that is spent; a flag written on two tasks | a returned turn brings the dashboard once; the saver comes when nothing happens and never hides a waiting agent |
| Keys, `main/button_router.c`, `main/buttons.c` | a press under way, LVGL's async queue | `button_router_press`, `go_scene_cb` | three steps on one task, the fourth on another; presses that are pending together run newest first | a key wins over everything before it, however it falls into a transition |
| Agent slots, `main/agent_state.c`, `main/harness/agent_snapshot_apply.c` | the slot table, its count, the marks, activity | find, acquire, merge, prune, awaiting set/clear, digest | merge before prune on a full table; marks left by events; senders without a session id; keepalives | the table converges on what the host repeats; agents keep their place; the anchor stays |
| Command handlers, `main/harness/agent_commands.c` | settings in RAM and NVS, the host's time and weather with the tick they came at | `snapshot`, `event`, `tokens`, `scene`, `idle`, `config`, `time`, `weather`, `health`, keys | two holdings of the state lock in one command; clamps against slot widths; flash that fails; lines that come late or twice | what is shown is what the host said and what a power cut leaves |
| Boot, `app_main` | which part is up | the order of the inits | a line, a tick or a view before its handler | nothing that comes while the panel boots is lost |
| Session registry and event handlers, `tools/claude_buddy_bridge.py` | one `AgentSession` per kind and id: status, awaiting, weak flag, tool in flight, pending prompt, last activity | eleven event handlers, each a sequence of locked calls; four sweeps | calls of several handlers and the sweeps interleave; a blocked permission handler; agents killed without a word | whose turn it is, is shown rightly; questions stand; corpses vanish |
| Device link and publisher, same file | serial session, replay buffer, wake flag, dedupe hash, keepalive clock | tick, bump, force push, open/reconnect, watchdog, request/response | lost wakes, a forced push racing a tick, old snapshots replayed after new ones, late opens | the device finally shows the registry's state |
| Snapshot trimming, same file 716-839 | none, it works on a copy | `snapshot_v1` | order of sacrifices, the one agent that is left, termination | fits the wire; keeps the agents worth most, and as many as fit |
| Line encoding, same file 1112-1152, and `main/tiny_json.c` | none | `push`, `_device_safe`; `tj_value_string` | characters swapped after the JSON is made | the panel reads what the agent wrote |
| Hook dispatcher, `tools/hook_dispatch.py`, and the start of `serve` | breaker and autostart state in one file, shared by short-lived processes | dispatch, count a wedge, open/close, autostart, grace; instance check, port, bind | unlocked read-modify-write of several processes; two bridges starting at once | a wedged bridge stops costing time; one bridge runs and has the port |
| Dashboard view, `main/scenes/scene_dashboard.c` | which half is shown, the cluster's target, the rows' number, the rest places | tick (pose, slide, layout), `play_outro`, `play_intro`, `dash_sync_rest` | the agents change during a transition, or while the dashboard is away | the half shown stands where its pose wants it |
| Clock view, `main/scenes/scene_clock.c` | the face and its place, the small clock, the pushed card, its dwell timer | tick, card in and out, `on_show`/`on_hide`, morph to and from the consensus pose | a card, its timer and a transition drive the same labels | the time is shown, and shown once |
| Weather view, `main/scenes/scene_weather.c` | two pictures with the identity each was baked from, theme and form watches | tick, bake, fail, `?wxcomp`, morph | an identity that survives what should void it | at rest it tells the report received last |
| Edge light and link health, `main/ui_glow.c`, `main/status_bar.c` | the sustained light and the ping; each bar's `conn_state` | sustain, clear, ping, settle; update | bars that remember; a light asked for under a ping | a ping falls back to the light asked for last |
| Decoration, `main/ui_deco.c` | an instance per scene with its phase, one timer for all; per element its progress and the signature it was drawn with | intro, outro, live, set state, tick; draw, flush | one timer pauses and changes its beat for all; an element is redrawn only when its signature moves | the shown one ends complete, the others dark; whole elements stand in their place |
| Ink of the edge light, `main/ui_glow.c` | five rings, the band of the last frame | solve, draw, invalidate strips, freeze | strips narrower than the ink | no ink outlives its light |
| Frame counters, `main/perf_mon.c` | accumulators on two cores | `on_disp_event`, `?perf` | take-over against counting | each frame in one report |
| Typography, theme, fonts | drawing state | draw | - | drawing |
| PWR key, `main/pwr_key.c`, GPIO keys, `main/buttons.c` | one PMU register; debounce | poll, write-1-clear; edges | a press between read and clear | every press counts |
| JSON reader, `main/tiny_json.c` | none | find a member, skip, decode, copy | escapes, nesting, whole characters at a buffer's end, torn lines | the member asked for, or nothing |
| Awaiting classifier, `tools/awaiting_classifier.py` | none | regular expressions | wording | returns weak or a question |
| Codex wrapper, runtime paths, hook installer | files | - | - | sequential I/O |
| Scaffolds: `main/transport`, `main/secure`, `main/telemetry`, `main/plugin`, `main/ai` | - | - | - | not in `main/CMakeLists.txt`: not part of the program |

`PROJECT.json` lists the components with their status and, under `hazards`, every
point of this kind at its line, with the properties that would catch it.

## 2. Modules

| Module | Models | Composes |
|---|---|---|
| `DisplayContract` | what the panel promises to whoever asks for a view | abstract specification |
| `SceneTrans` | `scene_trans.c`, `ui_motion.c` | implements `DisplayContract` |
| `SceneTrans_proofs` | its theorems | `SceneTrans` |
| `Views` | the three scenes under transitions: ticks, timers, animations, data | extends `SceneTrans`; `ClockScene`, `DashScene`, `WeatherScene`, `DecoLayer`, `LinkGlow`, `Sprites` |
| `ClockScene`, `DashScene`, `WeatherScene` | the handlers of the three scene files, as operators on a record | - |
| `DecoLayer`, `LinkGlow` | `ui_deco.c`; `ui_glow.c` with the link part of `status_bar.c` | - |
| `Sprites` | the baked actors of `scene_trans.c` | - |
| `Views_proofs` | its theorems | `Views`, `SceneTrans_proofs` |
| `Attention` | poll, saver, keys, host switches | `SceneTrans` (`Trans == INSTANCE ...`) |
| `Attention_proofs` | its theorems | `Attention` |
| `AgentSlots`, `MCAgentSlots` | slots, snapshot merge, events, digest | - |
| `Keys` | `pwr_key.c`, `buttons.c`, simulated presses, up to `button_router_press` | - |
| `GlowInk`, `DecoInk` | what the edge light and a decoration leave on the glass | - |
| `Config` | the settings in RAM and flash; the order of `app_main` | - |
| `JsonRead` | `tiny_json.c` and the copy `cjk_utf8_lcpy` makes | - |
| `HostData` | the host's clock, waits and weather on the panel | - |
| `Meters` | `perf_mon.c` | - |
| `DeviceSide` | the parts of the device that share no state, in one run | `AgentSlots`, `Keys`, `GlowInk`, `DecoInk`, `Config`, `JsonRead`, `HostData`, `Meters` |
| `DeviceSide_proofs` | theorems about the slots, the settings, the boot, the host's data and the ink of the edge light | `DeviceSide` |
| `DeviceParts_proofs` | theorems about the keys, the counters, the ink of a decoration and the JSON reader | `DeviceSide` |
| `SessionRegistry` | the bridge's registry, handlers, sweeps | - |
| `SnapshotLink`, `MCSnapshotLink` | the bridge's publisher, its serial session, reconnects | - |
| `SnapshotLink_proofs` | its theorems | `SnapshotLink` |
| `BridgeSide` | the two halves of the bridge in one run | `SnapshotLink`, `SessionRegistry` |
| `BridgeSide_proofs` | theorems about the registry and about both halves | `BridgeSide`, `SnapshotLink_proofs` |
| `HookDispatch` | `hook_dispatch.py` and the start-up of `cmd_serve` | - |
| `WireTrim` | `snapshot_v1` | - |
| `HostSide` | three independent parts of the host in one run | `HookDispatch`, `SessionRegistry`, `WireTrim` |
| `WireTrim_proofs` | the theorem about `WireTrim` | `HostSide` |
| `WireLine` | a text through `push`, `_device_safe` and `tiny_json.c` | - |

### SceneTrans

One call or one timer callback is one action: everything runs on the LVGL task or
under the display lock. `state`, `pending`, `fromP`, `timer` are `s_state`, `s_pending`,
`s_from_p` and the one-shot timer; `current` is what `scene_fw_current_index()` returns.
`Switch` is `scene_trans_switch` (`StartTransition` from rest, `Retarget` otherwise),
`EndOutro` and `EndIntro` the two branches of `step_cb`. Which actors move, and how far,
is reduced to what decides control: does this outro or intro take time (`Courses`), and
against which target were the held flags computed (`heldFor`). The refresh period is
modelled call by call (`MotionHold`, `MotionRelease`, `RefrHold`, `RefrDrop`), with glow
and decoration as further clients that hold and release at any time. `asked` is a
history variable: the argument of the last request.

### Views

`Views` puts the scenes on the machine of `SceneTrans`. Each action is a call or a timer
callback of the LVGL task: `Start` and `Redirect` (`scene_trans_switch` with the
`play_outro` it calls), `Cut` and `Settle` (the two branches of `step_cb`, with
`on_hide`, `on_show` and `play_intro`), `SceneTick`, and the timers of the card and of the
decoration. A scene's state is a record, `glass`, and its handlers are operators of the
scene's own module; a glide or a fade is kept as the end it is going to, and `Land` puts
it there. `world` is what the scene reads: the agents' pose, the report and theme, the
link. The views touch each other only through the transition, so a behaviour plays one
`subject` (clock, dashboard, weather, footers, decoration, edge light, a baked actor, or the
bare machine); a product of them would multiply states and show nothing more. `seen` and
`astray` are history variables; the second has the halves of the dashboard that the last
call to move them sends elsewhere than where the pose wants them.

### Attention

`Poll` is `scene_auto_switch_cb`, a key press is `PressTouch`, `PressConsume`,
`PressEnqueue` on the key task and `GoScene` on the LVGL task. The poll takes the state
lock for its first half only, but nothing another task may write in between is read by
its second half, so it is one action. `ApplySnapshot` and `Touch` are apart because
`cmd_snapshot` touches the activity in a second holding of the lock, and between the two
the poll may run. `lv_async_call` makes a one-shot timer, which LVGL puts at the head of its
list, and a pass begins at the head again after each it has run: `queue` has the newest call
first, and a pass runs all of them (`drain`: the LVGL task keeps the display lock meanwhile)
before the poll. Only `motion = "full"` is explored: with motion reduced every course is
"instant", one of the courses full motion also has. `firstKey`, `pulled` and `dismissed`
are history variables.

### AgentSlots

Only the console's reader task writes the slots, line by line, so a handler is one action.
`Acquire` is `agent_state_find_slot` and `agent_state_acquire_slot`, `Merge` is
`merge_agent_object`, `Prune` is `agent_state_prune_unmarked`, `Digest` is
`state_fingerprint_locked`, `Merged` the loop of
`agent_snapshot_apply_json` over a snapshot's agents; `ApplySnapshot`, `EventLine` and `TokenSample` are the three
commands. The marks are part of the state because `event` and `tokens` leave theirs to
the next snapshot. The tick at which a wait began is its rank among the waits, since
only comparisons are made. `entry_seq` is kept as far as the digest uses it: whether it
moved. `lastSnap` and `repeats` are history variables.

### Keys

From the finger to `button_router_press`; what a press does then is `Attention`. The poll's
three steps (`PollRead`, `PollClear`, `PollCall`) are the read of the power chip's bits, the write that clears them and the call,
with presses between any two; the GPIO keys dispatch their clicks when they come to it;
`Simulate` and `SimTask` are `dash btn`, whose key lies in one variable until the task reads
it. `BringUp` is the order of `app_main`; any driver may fail to come up. `owed` is a
history variable: the presses since the boot that were not routed yet.

### GlowInk, DecoInk

Both relate what a drawing routine draws to what is invalidated for it. In `GlowInk` the ink
of a light is as deep as its rings reach through the corner, computed from the constants of
`ui_glow.c`, at every thousandth of a ping; `Show` is a solve with its strips, `Frame` the
display's next refresh. Colours are left out and the fold of a ring is its depth. In
`DecoInk` an element has its progress, its signature and the place its pose gives it;
`Redrawn` invalidates as `flush_dirty` does, `Redraw` draws what is stale with `draw_cb`. A
dashboard's elements of four kinds stand for all; the sweep of the alert, the freeze and the
lead are left out. `DecoLayer` has the phases and the one timer of all instances, which this
module takes one of.

### Config

`boot` is where `app_main` stands in `BootOrder`; the power may go between any two steps. A `dash config` line changes RAM in one step, under the state lock, and flash setting
by setting (`Persist`), each of which may fail without a word to the sender. One setting stands for
each kind: a text, the theme (which must exist) and the clamped minutes. `unsaved` is a
history variable, the settings whose last way to or from flash failed. The boot alone, with
the dots at the top edge and the views that change under them, is `PanelNext`.

### JsonRead

A line is a sequence of characters, each standing for its kind, so that what matters to the
walk is there: quotes, escapes, brackets, wide characters. What may be written is bounded by
`WellFormed` only; the run's documents (`SmallDocuments`) have two members at most, with texts that
look like structure. The quote, the braces, the colon and the comma go by their names. `StringEnd`,
`NestedEnd` and `ValueEnd` are `skip_value`, `Scan` is the walk to the member, `ValueString`
is `tj_value_string`, `Lcpy` is `cjk_utf8_lcpy`. A
line may be torn anywhere. White space, the code points of `\u` escapes and the digits of a
number are left out.

### HostData, Meters

`HostData` counts half seconds, so that the host's whole seconds lose something; the panel's
tick wraps after a few of them. `Sends` puts a time or a turn under way, one
at a time and late; the panel may restart. The readers are operators (`Reading`, `Elapsed`).
`Meters` has the LVGL task's counters and the console's take-over on two cores, with the one
counter that the code itself leaves unlocked.

### DeviceSide

`AgentSlots` and the modules above share no state, so a behaviour is one `part` of them and
the others stay as they are before they begin.

### SessionRegistry

A registry method is atomic (it holds the lock throughout); a handler is the sequence of
calls it makes, and `Handler` lists those sequences event by event as `_dispatch` and
`_handle_inner` make them. `Receive` is an event's first call, `Call` a later one. A
session sends an event when the hook of the one before has returned, so handlers of one
session overlap in two cases only: tools that run in parallel, and a permission handler
whose hook gave up (its limit is far below the handler's) while the session went on.
`age` is the limit `last_active_unix` has passed. `Tick` is the four sweeps of
`SnapshotPublisher._tick`, each one call. `running` and `last` are history variables: the
tools really under way, and what a session has to show: its last prompt or turn's end, or
how a step of others has really overtaken it (`Overtaken`, `LateEnd`).

### SnapshotLink

The publisher, the main thread up to `serve`, the reconnect thread, the worker inside
`_open_session`, the session's reader, the health poller and the late timer share fields
that no lock holds across two uses, so a thread's step ends where another's store can make
a difference: `TickStart` is the wait, the snapshot and the dedupe; `PushGrab` reads
`_session`, `PushWrite` writes on the handle it got, and `TickSent` and `TickFailed` are what
`_tick` stores afterwards. `Open`, `WorkerEnds` and `JoinTimesOut` are `_open_session` with
its watchdog, `RecCloses` to `RecReplays` the lines of `_reconnect_loop`, `MainHook` the
first config and time of `cmd_serve`, `PollTells` the reboot detection of `_record_health`.
`force_push` is one step because its three stores, apart among those of a tick, either
force the push all the same or only wake a publisher that has nothing to do. Of a snapshot only its identity is kept, of config and
time only whether the device has them. `session` distinguishes a transport that is gone
and not noticed ("dead") from one that is noticed ("lost", `is_open` false). The three
seconds of the late resync are "ripe" once they have outlasted the tick, the replay and
the boot that were under way when it was set: each of those takes far less. Each connect
starts a timer of its own; the model has one, which a connect starts anew, and leaves out
that the earlier ones push the same once more.

The serial port and the device are outside this program and may do anything at any
time: the port goes, comes back, or hangs an open; the device boots with or without its
port; a line sent to a dying transport or into a boot may be lost or not. The throttle
(a delay), the screen test's pause, the dry run, the shutdown and the `connected` flag,
which only a health report shows, are left out.

### HookDispatch

A hook process is two steps: `Begin` loads the state file and decides to forward, `Reply`
has the answer and saves its copy over the file, so another hook's save in between is
lost. Time counts in units of the slowest answer a hook waits for, so one unit at most
passes during a hook. A bridge is `CheckInstance`, `OpenPort`, `Bind`, `Reconnect`, as
`cmd_serve` orders them; it may hang, come round, crash or be started by hand at any
time. `Bind` excludes a second listener, as an exclusive bind does: on Windows, where
`allow_reuse_address` (`tools/claude_buddy_bridge.py:2157`) may let two in, it says nothing.

### WireTrim, WireLine

`WireTrim` takes `snapshot_v1` a loop round at a time: entries one by one from the longest
list, contexts, paths, silent agents, any but the anchor, and at last the texts of
the one that is left. Lengths are small numbers. The totals counted at the end are left out.
`WireLine` follows one text through `json.dumps`, the swaps `_device_safe` makes on the
finished line, and back through `skip_value` and `tj_value_string`; a character is its kind.

### BridgeSide

The registry and the link share only the snapshot, of which the link keeps the identity and
the registry nothing, so a behaviour is one of the two; snapshots and sessions are the same
two model values, which keeps both symmetries.

### HostSide

Hooks with their bridges, the registry, and the trimming share no state, so a behaviour
is one `part` of the three and the others stay at their beginning; the fairness is each
part's own. The registry part is the instance for liveness: one session.

## 3. Runs

| Run | Shows | Bounds |
|---|---|---|
| `Views` | `TargetIsLastAsked`, `RefreshTier`; that machine and views implement `DisplayContract`, liveness included (`Contract`); `ComesToRest`; and of the views `FaceAtRest`, `TimeOnGlass`, `InPlace`, `WeatherShown`, `GlowFallsBack`, `NoSpriteLeft`, `FooterContinuity`, `DecoSettles` | 3 scenes, 2 holders of the refresh period, 2 weather reports |
| `Attention` | `KeyDecides`, `PullStands`, `NoRegrab`, `SaverComes` | 1 agent, 2 presses under way or queued |
| `AttentionPull` | counterexample to `EveryReturnPulls` | the same |
| `DeviceSide` | slots: `Converges`, `PlaceKept`, `AnchorStays`; keys: `PressOnItsWay`; ink: `InkErased`, `WholeInPlace`; settings and boot: `DurableAsShown`, `NothingLostAtBoot`; reader: `ReadsMember`; host's data: `AsTheHostSays`; counters: `EachFrameOnce` | 2 slots, 3 sessions (one of another kind), snapshots of up to 2 agents; 3 presses; beats of 10, 30 and 100 thousandths of a ping's 1.7 s, freezes at 250 and 700; 2 elements in 2 poses, 2 brightnesses; buffers of 3 and 5 bytes, copies of 4 and 8; a tick of 5 half seconds, lines at most 2 under way, 10 in all; 3 cycles and flushes |
| `AgentSlotsKeepalive` | counterexample to `KeepaliveIsQuiet` | 2 slots, 3 sessions, up to 3 agents |
| `DecoGhost` | counterexample to `Retracts` | 2 elements, 3 poses |
| `BridgeSide` | registry: `OutcomeHolds`, `PromptHasAsker`, `QuestionStands`; link: `SingleFlight`, `BeliefHolds` | 2 sessions, 2 handler threads, 2 parallel tools; 2 snapshots, faults unbounded |
| `HostSide` | `OneRuns`, `BreakerTrips`, `Recovers`; `CorpsesVanish`; `GoodSnapshot` | 2 hooks, 2 bridges, threshold 3, window 3, breaker open 2, grace 1, cooldown 2; 1 session, 2 threads, 2 tools; up to 3 agents, 7 bytes of wire |
| `WireQuotes` | counterexample to `LineStaysJson` | texts of up to 3 characters |
| `SessionTools` | counterexample to `ToolsAreExempt` | 1 session, 1 thread, 2 tools |
| `SnapshotLinkLive` | `LinkComesBack`, `PanelFollows`, `ConfigReturns` | 1 snapshot; faults unbounded |
| `SnapshotLinkReplay` | counterexample to `LiveStateStays` | 2 snapshots |

`HeldAgreement`, `BusyIsArmed` and the type invariants of `SceneTrans`, `Views`, `Attention`,
`AgentSlots` and `SnapshotLink` are proved (section 4), and no run spends time on them. The
`TypeOK` of `SessionRegistry` is proved but for the range of `running`; it holds in the
instance of `SessionTools` when put there as an invariant.

Why the bounds are enough. Three scenes are a leaving one, a target and another target,
and are what `app_main` registers: two have the footers and one does not. The two holders
are the transition and the edge light, the only clients the views hold for; any number is
proved. Two reports are the first one and a change, of the illustration, of the strip, of
both or of neither. Two hooks are one whose copy grows stale while the other saves, and two
bridges one that runs and one that was started beside it; a threshold of three and a window
of three let wedges be lost, age out and add up, and grace, cooldown and the open breaker
have lengths of which one, none or both can run out during a hook. Three agents are the
anchor, one that waits besides, and one that does not, each the one active last once, and
with and without what each stage takes (the other orders and ties are the theorem's); seven bytes hold any one agent's base and context,
three bare agents, and no three with more than a byte besides, so for every stage there are
registries with which it is the last. One agent gives both edges of the signal the poll
reads, which is the OR over all slots anyway; two presses give a press that overtakes
another, one in each of its four stages, and two pending in one pass. Two slots and three sessions are the smallest
table that is full with somebody left out, and two snapshots of two agents between them
name three. Three presses of the power key are one that is read, one that falls between the
read and the clear and one after it. The beats are a frame, a late frame and one that jumps
a fade; the freezes stand on either side of a ping's deepest ink. A line is an
element the pose moves and a bracket one it takes away, and the buffers hold less than a wide character, one,
and more than one. Five half seconds are more than a delay, so a counter wraps at different
ages of what was received, and ten let it wrap twice. Two
sessions are one that acts and one that is demoted; two threads are two handlers between
whose calls the other runs, of one session or of two. Two tools are what makes one flag
too few. `CorpsesVanish` speaks of one session, and other sessions can only demote it. Two
snapshots are an older and a newer one, in the registry, in a tick, in the buffer and on
the panel. One is enough for liveness, where the question is whether anything arrives at
all (the panel is empty after a boot): that an older one does not stay where a newer
belongs is `BeliefHolds`, checked with two.

Deadlock is checked in every run, and no bound is reached by a system that then stops.

Conditions a reader should know of:

- `InPlace` says exactly when the half on show stands where the pose wants it, and there are two
  ways in which it does not. A pose, or a number of rows, that changes during a transition gets a
  place that the flight under way does not go to, and nothing slides there afterwards: the
  comment at `main/scenes/scene_dashboard.c:278-279` has `dash_sync_rest` hand the target to
  the landing of the intro, which it does for a change during the outro, not during the intro.
  And a half that an outro took off and the intro found hidden is shown by a later tick where
  the outro left it. Either is put right by the next change of the pose's place at rest, or by the next
  intro that finds it shown. `astray` follows from the calls and from the flights they find, not
  from where the half comes to stand.
- `KeyDecides`: of keys handed over between two passes of the LVGL task the first has the last
  word, as LVGL runs the newest first. `main/button_router.c:59-60` moved the question "already
  there?" into the callback so that the second of two presses sees what the first has done; it is
  the first that sees what the second has done. The order of presses in different passes is the one
  expected.
- `WeatherShown` speaks of a view whose change of form has been applied; a bake that fails
  turns baking off, and the next tick is the one that draws.
- `FaceAtRest` speaks of the clock at rest. A card that is up when the display leaves has no
  exit of its own: it is gone at the cut, where `on_hide` tears it down. The weather line,
  which a card and a transition both fade, is left out.
- `GlowFallsBack` promises the fall-back to the light asked for last, not that this is the
  light of the link: each scene's bar compares with its own `conn_state`
  (`main/status_bar.c:181`), so a scene shown again whose bar last said the same leaves the
  edge as another bar set it.
- `DecoSettles` says nothing of the beat: an instance hidden with its morphing flag up keeps
  the timer fast (`main/ui_deco.c:1147`), and an exit from an unfinished entrance, or one
  played again, starts fully lit.
- `OneRuns` and `Recovers` are for the time after the last disturbance and while events keep
  coming; `BreakerTrips` is for wedges close enough together that none falls out of the window.
- `GoodSnapshot` assumes that an agent's base and its context fit the line together, and ranks
  agents that were active in the same second by the order of the list, as the stages do.
- `NoSpriteLeft` says that no sprite is left over, not that every one moves: a request that
  finds an actor under its sprite finds it hidden, so `play_outro` stops its animation and
  leaves it out, against `main/scene_trans.c:462-463` and `687-689`. Baking is off unless
  `?bake 1` is given (`main/scene_trans.h:146` says on).
- `WholeInPlace` is for a layer on show whose elements are whole: a pulse before the first
  beat together with a change of pose can leave a bracket behind, and the next beat draws
  over it. The exit is the sixth finding.
- `InkErased` compares depths at the corner. The run sees a ping every 10, 30 or 100
  thousandths and frozen at two moments; the theorem takes every beat from 9 thousandths up
  (`STEP_MS` of the timer is 16 of 1700 ms) and every frozen moment but one. That one fails:
  at the third thousandth, `?glow 6`, only the outermost ring is lit, and it is pushed out by
  just its own width, so `ink_band` returns 0 (`main/ui_glow.c:358`) though the arcs of its
  corners reach some 20 pixels in. Nothing is invalidated for it; drawn inside a wider
  strip that was still pending, it is not wiped when the light ends. A ping that plays has
  no step there.
- `DurableAsShown` excepts a setting whose way to or from the flash failed: `cmd_config` has
  answered "applied" then all the same. A theme change touches no view; each view's next
  tick does.
- `NothingLostAtBoot` leaves out the dot of the view the panel starts with:
  `nav_dots_init` (`main/esp32_agent_dashboard_main.c:320`) comes after the scenes are
  registered, it lights no dot, nobody calls `nav_dots_set_scene` for it, as
  `main/nav_dots.h:17-18` asks, and `scene_trans_switch` to the default scene on the glass
  does nothing. Until the view changes for the first time no dot is lit. That
  last switch also overrides whatever a line or a key has asked for before.
- `AsTheHostSays` holds within a lag, the host's whole seconds and a line's delay, and while the
  tick has not come round since the time was received (49.7 days; the time is sent on a
  connect and after a reboot only, so neither that nor a change of the time zone is put
  right in between). `WaitRight` needs the panel's own entry of the wait not older than
  the wait: a wait that ended and began again between two snapshots keeps its
  `awaiting_entered_ms`, and for the lag the panel shows the length of the old one.
- `ForecastWhole`, the last part of `AsTheHostSays`, says nothing of a list of more than five days, which `cmd_weather` takes
  (the loop stops at the fifth) though its comment says it is rejected
  (`main/harness/agent_commands.c:455-457`).
- `EachFrameOnce` is for cycles, frames and late ones; the count of flushes tears by design.
- `ReadsMember` is for members at the top of the line; `main/tiny_json.h:23` says a `\u` escape
  stays as it is, the code writes a question mark for it. An unbalanced `[}` walks on to
  where it evens out; the host writes none.
- `PlaceKept` and `AnchorStays` are stated for tables without a
  slot that has no session id. Such a slot is captured by the next agent of its kind,
  and then an agent does move.
- `Converges` needs the third delivery of a snapshot. On a full table the first cannot
  take in what the prune frees only afterwards; and a slot marked by an `event` or
  `tokens` line survives the first prune, so the second still finds it there.
- `OutcomeHolds` covers every step of others between a handler's own calls, and says where the
  program goes wrong. A demotion between the upsert and the clear of `user_prompt_submit`
  (`tools/claude_buddy_bridge.py:1941-1944`), which takes the weak wait of the session's last
  turn, leaves the session done while it works; nothing else takes a prompt's outcome. A turn's
  end stands through all of this until its wait is stored; after that the late end of a
  permission request of the session (line 1994) takes the wait again and may set it running.
  Both are hazards in `PROJECT.json`. Demotions and sweeps after a handler are meant to have the say.
- `PullStands` is the part of "every returned turn pulls" that holds: a turn that comes
  back while the display is at rest or coming in. The rest is the first finding below.
- `BeliefHolds` speaks of a link at rest after the late resync, to a device whose boot
  somebody has noticed. Before the late resync the belief can be wrong in several ways:
  by a replay (finding 4), by a tick that overwrites what `force_push` has just cleared,
  by a line lost in a boot. Without the late resync the property fails, which is its mutant.
- `LinkComesBack` says that the session comes back each time, not that it stays: a write
  that fails on a session just replaced gives up the healthy successor as well.
- `ConfigReturns` begins at a lost session and excepts a boot behind the back of an open
  one. The start of the bridge is not covered: a late worker's session makes the retries
  of `open_with_retry` fail where a port refuses a second open, and the bridge then serves
  without ever having sent config and time. This is a hazard in `PROJECT.json`.

### Fairness

- The poll, the async queue, a scene's tick, the decoration's timer and the animations
  (`Land`) are weakly fair: all are served by every pass of `lv_timer_handler`. The step timer
  of a transition is, too, but a retarget that changes the target of an outro starts it anew
  (`main/scene_trans.c:691-698`, `Rearm`), and requests that change their mind for ever put the cut off for
  ever. The fairness is therefore that of "the timer fires or is started anew", and what
  is promised is conditional: `Arrival` of `DisplayContract`, `ComesToRest` and `SaverComes` are
  all stated for requests that stop, or that agree. Requests themselves are not fair.
- The last two steps of a key press are fair: the small task that has begun runs on. The
  press itself is the user's and is not.
- `Tick` is fair: the publisher wakes at least at every keepalive. A handler's next call
  is fair: the one that blocks, `request_permission`, ends by its timeout. Time passes.
  No event is fair.
- A hook that has begun gets its answer or its timeout, and a bridge process goes on; time
  passes. That events come is a premise of the properties (`EventsRecur`), not an assumption,
  and disturbances are not fair.
- Each thread of the link is weakly fair, the daemon threads and the timer too; the
  keepalive and the health poll recur, a boot ends. Registry, port and boots are not
  fair: the properties begin with a port that stays up and a device that stays running.
  `TimerRipens` is strongly fair because ticks come and go: that three seconds pass is
  not undone by the next tick.
- `DeviceSide` and `BridgeSide` state no fairness: their properties are safety.

### Findings

1. `AttentionPull`: a turn that comes back during the outro of a transition away from the
   dashboard finds `scene_fw_current_index()` still naming the dashboard
   (`main/esp32_agent_dashboard_main.c:184`): no pull, and the edge is spent.
   `main/scene_trans.h:139-142` warns of exactly that comparison.
2. `AgentSlotsKeepalive`: the digest includes `entry_seq`, which every repeated snapshot
   with entries moves (`main/agent_state.c:140`), so keepalives count as activity and the
   idle road into the saver stays closed while an agent has entries.
3. `SessionTools`: one `tool_in_flight` flag per session; the first `PostToolUse` of two
   parallel tools ends the exemption from the idle sweep for both.
4. `SnapshotLinkReplay`: after a reconnect the publisher pushes the live snapshot, as the
   docstring of `force_push` says (`tools/claude_buddy_bridge.py:1439-1445`), and the
   reconnect thread replays the older, buffered one over it (line 1273). It stays for up to
   three seconds, until the late resync.
5. `WireQuotes`: `push` makes the JSON first and then swaps characters in the finished line
   (`tools/claude_buddy_bridge.py:1131`); a curly quote becomes a straight one that nothing
   escapes, and the string ends there, although the comment above says "the line stays valid
   JSON". The full-width backslash does the same. Without these two kinds of character the
   property holds.
6. `DecoGhost`: an element lit cell by cell is redrawn when `p*rn/1000` moves, and its first
   cell is lit for every `p` above zero, so the exit's last step to zero is not drawn and the
   cell stays on a layer that has left (`main/ui_deco.c:1029` against `938-940`).

Seen while reading, not refuted by a run: `codex_wrapper.py` may send its events out of order,
which the idle sweep heals; `PROTOCOL.md:176-177` says new activity restores
the covered view, which the poll no longer does; the comment in `main/pwr_key.c` on presses
between a read and its clear; `force_push`'s "racing a normal tick is benign", which is so
only because the late resync forces a second time: the tick may write its own dedupe state
back over the cleared one, and the forced push is then skipped.

## 4. Proofs

`SceneTrans_proofs` proves, for every number of scenes and every finite set of clients
(assumptions `SceneCount`: at least one scene; `FiniteClients`: finitely many holders, this
module among them):

| Theorem | Statement |
|---|---|
| `TypeCorrect` | `Spec => []TypeOK` |
| `TransitionSafe` | `Spec => [](TargetIsLastAsked /\ HeldAgreement /\ BusyIsArmed)` |
| `TierPaired` | `Spec => []RefreshTier` |
| `LastRequestWins` | the steps of `SceneTrans` are steps of `DisplayContract` or stutter |

The argument. None of the three properties of `TransitionSafe` is inductive: from a state
with an outro and nothing pending, `EndOutro` would come to rest on a scene nobody asked
for, and an idle state with a stale pending target would be promised elsewhere.
`PendingFits` (a target is pending throughout an outro and never at rest) excludes both, and
`MachineInv`, its conjunction with the three properties and the type, is inductive
(`MachineInit`, `MachineStep`, one step per action). The refresh period goes through
lemmas of its own: `HoldCounted` and `ReleaseCounted` say that a hold and a release keep
count, holders and period together (cardinalities of a set with one element more or
less), `HoldPaired`, `DropPaired` and `TierKept` what `RefrHold`, `RefrDrop` and a step
that leaves the tier alone do to `RefreshTier`, and `TierStep` puts every action on one
of them. For the refinement, `ContractInit` and `ContractStep` map initial states and
steps: every cut is an `Arrive` (or the `Request` that cuts at once), and
`TargetIsLastAsked` is what makes the cut go to the scene wanted.

`SnapshotLink_proofs` proves, for every set of snapshots (assumption `Distinct`: the absence
of one is none of them), `TypeCorrect`, `Spec => []TypeOK`, and `OneOpenAtATime`,
`Spec => []SingleFlight`. The two are inductive together: that whoever waits in
`_open_session` waits for his own worker needs that a worker has one owner of the two, and
then only `Open` can set a waiter, only from no worker at all, and `WorkerEnds` and
`JoinTimesOut` release it. There is one lemma per thread (`TickStep`, `RecStep`, `MainStep`, ...)
with one step per action, and `LinkStep` puts them together.

`Views_proofs` carries this over to the panel with its views, for every number of scenes,
subject and bound of reports (the further assumption `GlowIsClient`: the edge light is a
holder and is not the transition machine):

| Theorem | Statement |
|---|---|
| `PanelSafe` | `ViewSpec => [](TypeOK /\ TargetIsLastAsked /\ HeldAgreement /\ BusyIsArmed /\ RefreshTier)` |
| `PanelKeepsContract` | the panel's steps are steps of `DisplayContract` or stutter |
| `LightFallsBack` | `ViewSpec => []GlowFallsBack` |

`ViewsStep` shows each action of the views to be a step of `SceneTrans` or none, so the
machine's lemmas apply as they are. `LightInv` is `GlowFallsBack` with the types of the
light and of the link; it is inductive because a transition moves the light only through a
status bar (`UpdateShows`, `ShownLights`) and never touches whether the ping holds
(`GlowKept`).

`DeviceParts_proofs` proves four of the device's parts:

| Theorem | Statement | For |
|---|---|---|
| `PressesArrive` | `KeysSpec => []PressOnItsWay` | any number of presses |
| `FramesCounted` | `MetersSpec => []EachFrameOnce` | any number of cycles |
| `WholeStands` | `"cell" \notin Elements` implies `DeviceSpec => []WholeInPlace` | any set of layers, poses, brightnesses, any beats and pulses |
| `ReadsTheMember` | `DeviceSpec => []ReadsMember` | any number of members, texts and items of any length, torn anywhere, buffers of any size |

`PressOnItsWay` is inductive once it is known that presses are owed only after the boot, which
has bound every handler (`BoundBy`, with `StageStep` for the order of the boot: only its
first stage wipes handlers), and that the poll task has read nothing while it stands before its
read. The balance of reported, accumulated and counted frames holds even while the console is
inside, because the LVGL task is inside exactly between `Enter` and `RefrReady`, so that what
the console has copied is still what it clears (`Inside`).

`WholeInPlace` speaks of a layer on show whose elements are whole. `LayerInv` says what leads
there: while an entrance or an exit is on, the signature drawn last is the one of the
progress (`Signed`), so that the beat that completes an element finds it changed and marks it;
what is whole is drawn or marked (`WholeDrawn`); and the place the line has left with a change
of pose is bare or marked, as is the one it would come to before it has moved (`LineClean`).
The cell is excluded because there the claim is false: it moves on its way out, and the exit
leaves it on the glass, which the run `DecoGhost` shows.

`ReadsMember` rests on what the scanners of `JsonRead` do with a text that was written as `Text`
writes it; `WellFormed` says what may be written (keys of letters, no key twice, one part to a text, a
number not empty), and TLC checks it of the run's documents. Each scanner is a recursive
function over the line, which `Recursion` shows to be there, by induction over the rank of
a place (`RankInduction`). Where the parts of a text end is a function too (`PartEnds`,
`Strung`), and a line agrees with a text as far as it goes (`Agree`), so that a whole line and a torn one
take the same lemmas. `SkipString`, `SkipArray`, `SkipObject` and `SkipNumber` make up
`SkipValue`: `skip_value` ends where the value does, or says that the line does not have it
all, unless it is a number. `KeyRead` is the same of keys, quoted and bare. `Unescaped`,
`TrimmedFits` and `LcpyFits` give `PanelShows`: decoding undoes the escapes, and the cut at a buffer's
end leaves the whole characters that fit (`Fitting`). `JsonInv` holds the cursor: at a
member, or at the end, with no member behind it that is asked for; or behind a line that
is torn. `SecondTells` is needed to know a torn line from a whole one, since the head of a text with
quoted keys must not be a text with bare ones.

`WireTrim_proofs` proves `SnapshotGood`, `HostSpec => []GoodSnapshot`, under the assumption
`Sizes` on the constants of `WireTrim`, of which the run's small registries are one choice:
whatever the agents, their fields and the limit, what `snapshot_v1` returns fits, its agents
outrank all that are left out, as many as fit are there, and a registry that fits is sent whole.
`Sizes` says that ids are distinct and that a line has room for one agent with its context; TLC
checks it of the run's instance. `TrimInv` follows the agents by where they were in the
registry (`Selection`: an increasing map from what is left, the anchor in its range), with
what each stage has done (`Done`) and what `GoodSnapshot` asks of the choice, at every stage
(`Choice`). A drop keeps it because the agent that goes is outranked by all that stay
(`DropsWorst`), hence is the best of those left out, and took no more from the line than it
would need without context and path (`DroppedSize`). What a removal does to the line's size is a
matter of the fold that counts it, and takes induction over the agents (`FoldExists`,
`SumsExist`, `SizeRemoved`; `NatSetInduction`, below). Of two agents that were active in the
same second, `min` takes the one listed first, which is why `Outranks` ranks the later one higher.

The views' own properties are proved in the same module, for any number of scenes and reports:

| Theorem | Statement | Inductive with |
|---|---|---|
| `ClockRests`, `TimeStaysOnGlass` | `ViewSpec => []FaceAtRest`, `ViewSpec => []TimeOnGlass` | `FaceInv` |
| `NoSpriteIsLeft` | `ViewSpec => []NoSpriteLeft` | `SpriteInv` |
| `FootersContinue` | `ViewSpec => FooterContinuity` | `FootInv` |
| `WeatherIsShown` | `ViewSpec => []WeatherShown` | `SkyInv` |
| `DashStands` | `ViewSpec => []InPlace` | `BoardInv`, with `Told` |

They have one shape. What a view promises at rest does not say where it comes from, so each
invariant says what is *due*: what is in flight on a view that no outro has taken ends where
the property wants it (`FaceDue`, `ActorDue`, `SkyDue`, `AmbientDue` and `FleetDue`), and for
the footers what an outro owes the cut (`FootReady`). There is a lemma for each handler of the
scene, and one for the landing of an animation: at rest nothing is in flight, so what is
due is there. `SkyInv` needs besides that a bitmap with an identity has the content of it
(`Identified`), `BoardInv` says where each half will be when all has landed, in both directions (`Told`): where it is
wanted if it is not astray, and elsewhere if it is. `BoardTickTold`, `BoardLeaves`, `BoardEnters`,
`BoardArrives` and `BoardLands` show that each call and each landing keeps it.

`Attention_proofs` proves of the deciders, for any finite set of agents and any bound of
presses (assumption `SomeAgents`), `TypeCorrect`, `KeyAlwaysDecides` (`Spec => []KeyDecides`),
`PullAlwaysStands` (`Spec => []PullStands`) and `PollNeverRegrabs` (`Spec => NoRegrab`).
`KeyDecides` speaks of an empty queue and is not inductive; `FirstRunsLast` adds that
otherwise the last of the queue is the key handed over first. `NoRegrab` rests on
`SeenBeforeDismissed`: a turn is dismissed only after the poll has seen its edge, so the next
poll has no edge. `DecidersInv` is their conjunction with the types and with what is needed
of the transition machine.

`SnapshotLink_proofs` also proves `BeliefCorrect`, `Spec => []BeliefHolds`: at rest after the late
resync the panel shows what the publisher believes it shows. `BeliefInv` makes it
inductive: a boot and a replay under way leave the panel unsure (a reboot untold or the late
timer set), a session comes up only to such a panel or where nothing has been pushed,
and what a sure write has put there is there.

`BridgeSide_proofs` proves of the registry, for any finite sets of sessions and threads and
any number of parallel tools, that `Sessions!Spec` implies `[]OutcomeHolds`
(`OutcomeAlwaysHolds`), `[]PromptHasAsker` (`PromptAlwaysHasAsker`) and `QuestionStands`
(`QuestionsStand`), and of both halves together `BridgeCorrect`, the four invariants
the run checks. `RegInv` follows a handler call by call: while the last event of a session
is a prompt, the only other calls left to its threads are the late end of a
permission request, and whichever field does not show the prompt's outcome yet is one the
handler has left to set (`PromptOf`, `StopOf`). `OvertakenShown` is the step of others, between
those calls too: until its wait is stored a turn's end needs nothing of the record but that
nobody starts a tool, and a prompt loses its outcome to a demotion only while it has not yet
cleared. `DemotedOf` and `LateOf` say that what such a step leaves stays, whatever the rest of the
handlers do. The assumption `"none" \notin Sids` keeps the
name of a free thread apart from the sessions' keys, which have a colon in them.

`DeviceSide_proofs` proves of the device's parts:

| Theorem | Statement | Argument |
|---|---|---|
| `SlotsTypeCorrect`, `SlotsConverge` | `DeviceSpec => []TypeOK`, `DeviceSpec => []Converges` | `SlotsInv`, below |
| `PlacesKept`, `AnchorsStay` | `DeviceSpec => PlaceKept`, `DeviceSpec => AnchorStays` | `SlotsInv`; `NamesStay`, `OrderStays` |
| `SettingsDurable` | `DeviceSpec => []DurableAsShown` | `SettingsInv`: what is in RAM fits its slot on flash, so the cast to eight bits takes nothing from it |
| `BootLosesNothing` | `DeviceSpec => []NothingLostAtBoot` | `BootInv`: how far `app_main` has come decides what there is |
| `HostIsBelieved` | `DeviceSpec => []AsTheHostSays` | `HostInv`: a line is at most `MaxDelay` old, a stamp is the tick of its moment; `Read` finds what the host sent |
| `InkIsErased` | `3 \notin Frozen` implies `DeviceSpec => []InkErased` | `InkInv`; `BandHolds` bounds the depth of every moment's rings |

The slots, for any number of slots, sessions and agents (assumptions `SlotMax` and
`SessionIds`). A snapshot is merged agent by agent, a recursion over data. The library's induction
theorems cannot be used, but the set of numbers up to which a statement holds is a set, so
`NatSetInduction` states induction for sets, and proves it from the pigeonhole principle of
finite sets. With it `MergesExist` shows that the recursive function of `Merged` is there, and
`MergesKeep` that what holds before the first agent and is kept by each holds after the
last. `MergeInv` is what is kept: the table is apart (no agent in two slots), a name once in a
slot stays, a wait that is re-affirmed keeps its beginning, what is marked is listed, and,
when the snapshot fits and the table holds nobody else, every agent so far has got a
slot (`MergeGoesOn`; that there is room for the next is the pigeonhole again, agents of
the table to agents of the list). `SlotsInv` counts deliveries: the first clears the marks
that events have left, the second leaves the listed agents only, the third finds room for all.
`RankIs` and its neighbours show that renumbering the waits keeps their order, from which
the anchor follows.

The host's clock, for any width of the tick that exceeds the longest delay of a line (`Widths`;
49.7 days in the code against seconds) and any time: a wrapped difference of wrapped stamps
is the difference as long as the tick has not come round (`ModDifference`, `SinceIs`).

The ink (`Moments`: beats of at least 9 thousandths): the depths of the thousand moments of a
ping are not enumerated but bounded from the envelopes (`Expand`, `Defocus`, `Swing`), with the
corners' arcs on one side and `ink_band`'s on the other (`CornerInBand`). `ink_band` measures the
sides, so there must be a side where there is a corner (`SidesToo`): only the outermost ring can
have its sides off the glass, in the first 12 thousandths (`PingRingIs`), and but for the
third the next ring is lit there whenever it is (`FirstMoments`).

What stays with the model checker: every property under fairness (`ComesToRest`, the
liveness part of `Contract`, `DecoSettles`, `SaverComes`, `CorpsesVanish`, `LinkComesBack`,
`PanelFollows`, `ConfigReturns`, `OneRuns`, `BreakerTrips`, `Recovers`), since neither fairness
nor ENABLED is in the prover's reach; `WholeInPlace` of a layer with the cell; and the range of
the registry's `running`. Every other safety invariant that a passing run checks is a theorem.
No module uses a RECURSIVE operator.

## 5. Not modelled

Most of the implementation's lines draw: baking, geometry, curves, fonts, themes and the
probes around them, in the three scenes, `ui_deco.c` and `ui_glow.c`. What they draw decides
nothing; whether and where it is shown does, and that is in `Views`, and whether it is wiped
off again, which is in `GlowInk` and `DecoInk`. The further scenes under
`attic/` and the modules under `main/transport`, `main/secure`, `main/telemetry`, `main/plugin`
and `main/ai` are not built. The drivers, stress and fleet tools, the mock device, the
installer and the runtime paths are sequential programs around the protocol.

Of what is modelled in part: `agent_state`'s rings, token figures and totals are copied, and
`dash health` only reads; the bridge's quick-reply waiters and debug messages neither read
nor write a session's state. Of the calls that only count or pick something out of the slot table
(`agent_state_attention`, `agent_state_active_count`) the views take the result. The awaiting
classifier is regular expressions over wording, and the registry takes either of its
answers. The scene framework is a component outside this repository; of it only the
current index and the order of its calls at a cut appear.

## 6. Plan

The machine with its views, the device's parts, the bridge's two halves, the hooks and the
trimming are done. What is left, in order of importance:

1. An abstract specification of the link (the panel shows some state the registry had, and
   finally the last), which `SnapshotLink` implements, and with it the end-to-end statement
   from `SessionRegistry` to `AgentSlots`.
2. Theorems: the refinement of the abstract link.
