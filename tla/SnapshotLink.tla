---------------------------- MODULE SnapshotLink -----------------------------
(***************************************************************************)
(* tools/claude_buddy_bridge.py: how the registry's state gets onto the    *)
(* panel.  SnapshotPublisher pushes a snapshot on a change and as a        *)
(* keepalive; DevicePusher owns the serial session, reopens it under a     *)
(* watchdog when it is lost, and replays the snapshot whose push failed;   *)
(* the reconnect hook sends config and time and forces a snapshot, at once *)
(* and again three seconds later.                                          *)
(*                                                                         *)
(* The threads: the main thread until it serves, the publisher, the        *)
(* reconnect thread, the worker that opens the port, the session's reader, *)
(* the health poller and the late timer.  None of the fields they share is *)
(* locked across two uses, so a thread's step ends where another's store   *)
(* can make a difference.  Of a snapshot only its identity is kept.  The   *)
(* throttle only delays a push and is left out, and so are the pause of    *)
(* the screen test, the dry run and the shutdown.                          *)
(***************************************************************************)
EXTENDS Integers, FiniteSets

CONSTANTS
  Snaps,    \* the snapshots the registry may give
  Nothing   \* no snapshot

ASSUME Distinct == Nothing \notin Snaps

VARIABLES
  reg,        \* what SessionRegistry.snapshot_v1 would return now
  wake,       \* _wake
  lastJson,   \* _last_snap_json, Nothing when empty
  due,        \* "yes" when the keepalive interval has passed since _last_push_ts
  tick,       \* where the publisher is in _tick: "wait", "push", "write",
              \* "sent", "failed"
  snap,       \* its snapshot, Nothing while it waits
  handle,     \* the session its write uses: still _session, or "old"
  buffered,   \* _buffered_snapshot
  session,    \* _session: "none", "open", "dead" (transport gone, not noticed),
              \* "lost" (noticed: is_open is false)
  pc,         \* where the main thread and the reconnect thread are
  opener,     \* who started the worker that is opening the port, or "none"
  deadline,   \* "passed" when open_with_retry's time is over
  replay,     \* the buffered snapshot the reconnect thread has taken
  timer,      \* _late_resync: "none", "set", or "ripe" when three seconds have
              \* outlasted what was under way when it was set
  port,       \* the serial port: "up", "down", or "wedged" (an open blocks)
  device,     \* "running" or "booting"
  panel,      \* the snapshot on the panel, Nothing after a boot
  clock,      \* the device's config and time: "set" or "unset"
  untold      \* "yes" when the device has booted and nothing told the bridge yet,
              \* "uptime" when only a reconnect has, "no" when its uptime has

publisher == <<lastJson, due, tick, snap, handle, buffered>>
link == <<session, opener>>
world == <<port, device, panel, clock, untold>>
vars == <<reg, wake, publisher, link, pc, deadline, replay, timer, world>>

Init ==
  /\ reg \in Snaps
  /\ wake = "clear" /\ lastJson = Nothing /\ due = "yes"
  /\ tick = "wait" /\ snap = Nothing /\ handle = "current" /\ buffered = Nothing
  /\ session = "none" /\ opener = "none"
  /\ pc = [main |-> "open", rec |-> "dead"]
  /\ deadline = "ahead" /\ replay = Nothing /\ timer = "none"
  /\ port \in {"up", "down", "wedged"} /\ device = "running"
  /\ panel = Nothing /\ clock = "unset" /\ untold = "no"

Serving == pc.main = "serving"

-----------------------------------------------------------------------------
(* What the threads call *)

\* _schedule_reconnect: nothing while the reconnect thread lives, be it on its
\* last line.
Scheduled == IF pc.rec = "dead" THEN [pc EXCEPT !.rec = "loop"] ELSE pc

\* push, as far as config and time go: into a booting device the lines may be
\* lost.
PushConfig ==
  clock' \in IF session # "open" THEN {clock}
             ELSE IF device = "running" THEN {"set"} ELSE {"set", clock}

\* force_push.  Its three stores are one step: apart they either force the push
\* all the same or leave wake set where the publisher finds nothing to do.
ForcePush == lastJson' = Nothing /\ due' = "yes" /\ wake' = "set"

\* Whether a write on the session's own handle puts `s' on the panel.
Write(s) ==
  panel' \in IF session # "open" THEN {panel}
             ELSE IF device = "running" THEN {s} ELSE {s, panel}

-----------------------------------------------------------------------------
(* The registry's handlers: changes, and bumps at other moments.  The       *)
(* sweeps of a tick are changes without a bump.                             *)

Change(s) ==
  /\ reg' = s
  /\ UNCHANGED <<wake, publisher, link, pc, deadline, replay, timer, world>>

Bump ==
  /\ Serving
  /\ wake' = "set"
  /\ UNCHANGED <<reg, publisher, link, pc, deadline, replay, timer, world>>

-----------------------------------------------------------------------------
(* SnapshotPublisher._tick *)

\* The wait ends; snapshot and comparison.  A bump before the wake is cleared
\* is forgotten, a forced push is not: due stays.
TickDedupesKeepalive ==      \* mutant: an unchanged keepalive is not pushed
  /\ Serving /\ tick = "wait"
  /\ wake = "set" \/ due = "yes"
  /\ IF reg # lastJson
       THEN tick' = "push" /\ snap' = reg /\ UNCHANGED wake
       ELSE wake' = "clear" /\ UNCHANGED <<tick, snap>>
  /\ UNCHANGED <<reg, lastJson, due, handle, buffered, link, pc, deadline, replay, timer, world>>

TickStart ==
  /\ Serving /\ tick = "wait"
  /\ wake = "set" \/ due = "yes"
  /\ IF reg # lastJson \/ due = "yes"
       THEN tick' = "push" /\ snap' = reg /\ UNCHANGED wake
       ELSE wake' = "clear" /\ UNCHANGED <<tick, snap>>
  /\ UNCHANGED <<reg, lastJson, due, handle, buffered, link, pc, deadline, replay, timer, world>>

\* push: never opens the port itself.
PushGrab ==
  /\ tick = "push"
  /\ IF session \in {"open", "dead"}
       THEN tick' = "write" /\ handle' = "current" /\ UNCHANGED pc
       ELSE tick' = "failed" /\ pc' = Scheduled /\ UNCHANGED handle
  /\ UNCHANGED <<reg, wake, lastJson, due, snap, buffered, link, deadline, replay, timer, world>>

\* sess.write_line: on a transport that is gone the line may vanish or raise a
\* TransportError; on a closed handle it raises that or something else.
PushWrite ==
  /\ tick = "write"
  /\ \/ /\ handle = "current" /\ session \in {"open", "dead"}
        /\ Write(snap) /\ tick' = "sent"
        /\ UNCHANGED pc
     \/ /\ handle = "old" \/ session # "open"
        /\ tick' = "failed" /\ pc' \in {pc, Scheduled}
        /\ UNCHANGED panel
  /\ handle' = "current"
  /\ UNCHANGED <<reg, wake, lastJson, due, snap, buffered, link, deadline, replay, timer,
                 port, device, clock, untold>>

TickSent ==
  /\ tick = "sent"
  /\ due' = "no" /\ lastJson' = snap /\ wake' = "clear"
  /\ tick' = "wait" /\ snap' = Nothing
  /\ UNCHANGED <<reg, handle, buffered, link, pc, deadline, replay, timer, world>>

\* A failed push does not count as the last one.
TickFailed ==
  /\ tick = "failed"
  /\ buffered' = snap /\ wake' = "clear"
  /\ tick' = "wait" /\ snap' = Nothing
  /\ UNCHANGED <<reg, lastJson, due, handle, link, pc, deadline, replay, timer, world>>

Tick == TickStart \/ PushGrab \/ PushWrite \/ TickSent \/ TickFailed

\* keepalive_ms go by.
KeepaliveDue ==
  /\ due = "no" /\ due' = "yes"
  /\ UNCHANGED <<reg, wake, lastJson, tick, snap, handle, buffered, link, pc, deadline, replay, timer, world>>

-----------------------------------------------------------------------------
(* _open_session, called by the main thread (open_with_retry) and by the    *)
(* reconnect thread: w is one or the other                                  *)

OpenBeside(w) ==             \* mutant: a worker that still opens is not waited for
  /\ pc[w] = "open"
  /\ opener' = w /\ pc' = [pc EXCEPT ![w] = "join"]
  /\ UNCHANGED <<reg, wake, publisher, session, deadline, replay, timer, world>>

\* Single flight: while a worker is still opening, the attempt fails at once.
Open(w) ==
  /\ pc[w] = "open"
  /\ IF opener = "none"
       THEN opener' = w /\ pc' = [pc EXCEPT ![w] = "join"]
       ELSE UNCHANGED opener /\ pc' = [pc EXCEPT ![w] = "backoff"]
  /\ UNCHANGED <<reg, wake, publisher, session, deadline, replay, timer, world>>

\* The caller's join returns with its worker's outcome, if it still waits.
Joined(w, outcome) ==
  IF pc[w] # "join" THEN pc
  ELSE [pc EXCEPT ![w] = IF outcome = "error" THEN "backoff" ELSE "hook"]

\* The worker ends.  It adopts its session only when there is none.  A port
\* that this process already holds may be refused.
WorkerEnds ==
  /\ opener # "none" /\ port # "wedged"
  /\ opener' = "none"
  /\ \/ /\ port = "down" \/ session = "open"
        /\ pc' = Joined(opener, "error")
        /\ UNCHANGED session
     \/ /\ port = "up"
        /\ session' = IF session = "none" THEN "open" ELSE session
        /\ pc' = Joined(opener, "session")
  /\ UNCHANGED <<reg, wake, publisher, deadline, replay, timer, world>>

\* SERIAL_OPEN_TIMEOUT_S: the caller gives up, the worker stays.
JoinTimesOut(w) ==
  /\ pc[w] = "join" /\ port = "wedged"
  /\ pc' = [pc EXCEPT ![w] = "backoff"]
  /\ UNCHANGED <<reg, wake, publisher, link, deadline, replay, timer, world>>

-----------------------------------------------------------------------------
(* cmd_serve up to serving *)

DeadlinePasses ==
  /\ deadline = "ahead" /\ ~Serving /\ deadline' = "passed"
  /\ UNCHANGED <<reg, wake, publisher, link, pc, replay, timer, world>>

\* The next attempt, or none any more: degraded mode.
MainRetries ==
  /\ pc.main = "backoff"
  /\ pc' = [pc EXCEPT !.main = IF deadline = "passed" THEN "serving" ELSE "open"]
  /\ UNCHANGED <<reg, wake, publisher, link, deadline, replay, timer, world>>

\* The first config and time, without a second sending; an attempt whose session
\* the reconnect thread has closed meanwhile has failed.
MainHook ==
  /\ pc.main = "hook"
  /\ IF session = "none"
       THEN pc' = [pc EXCEPT !.main = "backoff"] /\ UNCHANGED <<deadline, clock>>
       ELSE PushConfig /\ pc' = [pc EXCEPT !.main = "serving"] /\ deadline' = "passed"
  /\ UNCHANGED <<reg, wake, publisher, link, replay, timer, port, device, panel, untold>>

-----------------------------------------------------------------------------
(* _reconnect_loop *)

\* A session still there is closed first: a worker adopts its own only when
\* there is none.
RecKeepsSession ==           \* mutant: the old session is not removed
  /\ pc.rec = "loop"
  /\ session' = IF session = "open" THEN "lost" ELSE session
  /\ handle' = IF tick = "write" THEN "old" ELSE handle
  /\ pc' = [pc EXCEPT !.rec = "open"]
  /\ UNCHANGED <<reg, wake, lastJson, due, tick, snap, buffered, opener, deadline, replay, timer, world>>

RecCloses ==
  /\ pc.rec = "loop"
  /\ session' = "none"
  /\ handle' = IF tick = "write" THEN "old" ELSE handle
  /\ pc' = [pc EXCEPT !.rec = "open"]
  /\ UNCHANGED <<reg, wake, lastJson, due, tick, snap, buffered, opener, deadline, replay, timer, world>>

RecRetries ==
  /\ pc.rec = "backoff"
  /\ pc' = [pc EXCEPT !.rec = "loop"]
  /\ UNCHANGED <<reg, wake, publisher, link, deadline, replay, timer, world>>

\* _on_reconnect in the reconnect thread.
HookWithoutTimer ==          \* mutant: config and time are sent once
  /\ pc.rec = "hook"
  /\ PushConfig /\ ForcePush
  /\ untold' = IF untold = "yes" THEN "uptime" ELSE untold
  /\ pc' = [pc EXCEPT !.rec = "take"]
  /\ UNCHANGED <<reg, tick, snap, handle, buffered, link, deadline, replay, timer,
                 port, device, panel>>

RecHook ==
  /\ pc.rec = "hook"
  /\ PushConfig /\ ForcePush /\ timer' = "set"
  /\ untold' = IF untold = "yes" THEN "uptime" ELSE untold
  /\ pc' = [pc EXCEPT !.rec = "take"]
  /\ UNCHANGED <<reg, tick, snap, handle, buffered, link, deadline, replay, port, device, panel>>

RecTakes ==
  /\ pc.rec = "take"
  /\ replay' = buffered /\ buffered' = Nothing
  /\ pc' = [pc EXCEPT !.rec = IF buffered = Nothing THEN "dead" ELSE "replay"]
  /\ UNCHANGED <<reg, wake, lastJson, due, tick, snap, handle, link, deadline, timer, world>>

\* push once more, in one step: only this thread takes the session away, and a
\* failure schedules nothing, since the thread still lives.
RecReplays ==
  /\ pc.rec = "replay"
  /\ Write(replay)
  /\ replay' = Nothing
  /\ pc' = [pc EXCEPT !.rec = "dead"]
  /\ UNCHANGED <<reg, wake, publisher, link, deadline, timer, port, device, clock, untold>>

Rec == RecCloses \/ Open("rec") \/ RecRetries \/ RecHook \/ RecTakes \/ RecReplays

-----------------------------------------------------------------------------
(* Reader, health poller, late timer *)

\* _on_session_lost.
Notice ==
  /\ session = "dead"
  /\ session' = "lost"
  /\ pc' = Scheduled
  /\ UNCHANGED <<reg, wake, publisher, opener, deadline, replay, timer, world>>

\* A health line, or any other push, that finds no open session.
PollReconnects ==
  /\ Serving /\ session \in {"none", "lost"}
  /\ pc' = Scheduled
  /\ UNCHANGED <<reg, wake, publisher, link, deadline, replay, timer, world>>

\* _record_health: an uptime that went backwards is a reboot, and the reader
\* calls _on_reconnect.  After a short life the new uptime may be the larger.
PollTells ==
  /\ Serving /\ session = "open" /\ device = "running" /\ untold # "no"
  /\ untold' = "no"
  /\ clock' = "set" /\ ForcePush /\ timer' = "set"
  /\ UNCHANGED <<reg, tick, snap, handle, buffered, link, pc, deadline, replay, port, device, panel>>

\* Three seconds are longer than a tick, a replay and a boot.
TimerRipens ==
  /\ timer = "set" /\ tick = "wait" /\ pc.rec \notin {"take", "replay"} /\ device = "running"
  /\ timer' = "ripe"
  /\ UNCHANGED <<reg, wake, publisher, link, pc, deadline, replay, world>>

TimerFires ==
  /\ timer = "ripe"
  /\ timer' = "none"
  /\ PushConfig /\ ForcePush
  /\ pc' = IF session \in {"none", "lost"} THEN Scheduled ELSE pc
  /\ UNCHANGED <<reg, tick, snap, handle, buffered, link, deadline, replay, port, device, panel, untold>>

-----------------------------------------------------------------------------
(* The port and the device *)

Boot == device' = "booting" /\ panel' = Nothing /\ clock' = "unset" /\ untold' = "yes"

\* The cable is pulled, or the device resets and enumerates anew.
PortLost ==
  /\ port' \in {"down", "wedged"} \ {port}
  /\ session' = IF session = "open" THEN "dead" ELSE session
  /\ \/ UNCHANGED <<device, panel, clock, untold>>
     \/ Boot
  /\ UNCHANGED <<reg, wake, publisher, opener, pc, deadline, replay, timer>>

PortBack ==
  /\ port # "up" /\ port' = "up"
  /\ UNCHANGED <<reg, wake, publisher, link, pc, deadline, replay, timer, device, panel, clock, untold>>

\* A boot that the port does not show.
SilentBoot ==
  /\ Boot
  /\ UNCHANGED <<reg, wake, publisher, link, pc, deadline, replay, timer, port>>

Booted ==
  /\ device = "booting" /\ device' = "running"
  /\ UNCHANGED <<reg, wake, publisher, link, pc, deadline, replay, timer, port, panel, clock, untold>>

Next ==
  \/ \E s \in Snaps : Change(s)
  \/ Bump
  \/ Tick
  \/ KeepaliveDue
  \/ Open("main") \/ WorkerEnds \/ \E w \in {"main", "rec"} : JoinTimesOut(w)
  \/ DeadlinePasses \/ MainRetries \/ MainHook
  \/ Rec
  \/ Notice \/ PollReconnects \/ PollTells
  \/ TimerRipens \/ TimerFires
  \/ PortLost \/ PortBack \/ SilentBoot \/ Booted

\* Every thread runs on; the poller and the keepalive recur, the deadline and
\* the timer pass, a boot ends.  The registry, the port and a boot are free.
Fairness ==
  /\ WF_vars(Tick) /\ WF_vars(KeepaliveDue)
  /\ WF_vars(Open("main")) /\ WF_vars(MainRetries \/ MainHook) /\ WF_vars(DeadlinePasses)
  /\ WF_vars(WorkerEnds) /\ \A w \in {"main", "rec"} : WF_vars(JoinTimesOut(w))
  /\ WF_vars(Rec)
  /\ WF_vars(Notice) /\ WF_vars(PollReconnects)
  /\ SF_vars(TimerRipens) /\ WF_vars(TimerFires)
  /\ WF_vars(Booted)

Spec == Init /\ [][Next]_vars /\ Fairness

-----------------------------------------------------------------------------
(* Properties *)

TypeOK ==
  /\ reg \in Snaps
  /\ {lastJson, snap, buffered, replay, panel} \subseteq Snaps \union {Nothing}
  /\ wake \in {"set", "clear"} /\ due \in {"yes", "no"}
  /\ tick \in {"wait", "push", "write", "sent", "failed"}
  /\ snap = Nothing <=> tick = "wait"
  /\ replay = Nothing <=> pc.rec # "replay"
  /\ handle \in {"current", "old"}
  /\ session \in {"none", "open", "dead", "lost"}
  /\ opener \in {"none", "main", "rec"}
  /\ pc \in [main : {"open", "join", "backoff", "hook", "serving"},
             rec : {"dead", "loop", "open", "join", "backoff", "hook", "take", "replay"}]
  /\ deadline \in {"ahead", "passed"} /\ timer \in {"none", "set", "ripe"}
  /\ port \in {"up", "down", "wedged"} /\ device \in {"running", "booting"}
  /\ clock \in {"set", "unset"} /\ untold \in {"no", "uptime", "yes"}

\* One open at a time: whoever waits for a worker waits for his own, so that
\* every join ends and no second open blocks behind a wedged one.
SingleFlight == \A w \in {"main", "rec"} : pc[w] = "join" => opener = w

\* The link is at rest and the device is one the bridge knows the state of.
Settled ==
  /\ tick = "wait" /\ pc.rec = "dead" /\ session = "open"
  /\ device = "running" /\ untold # "yes"

\* What the publisher believes the panel shows, and dedupes against, is what it
\* shows, whenever the link is at rest and the late resync is over: whatever
\* was lost on a dying transport or in a boot, or replayed out of order, has
\* been made good by then without waiting for a keepalive.
BeliefHolds == Settled /\ timer = "none" /\ lastJson # Nothing => panel = lastJson

\* What the docstring of force_push says of a reconnect, that the screen shows
\* the live state from the forced push on: what the reconnect thread still has
\* to send does not take it back.
LiveStateStays ==
  [][RecReplays /\ lastJson # Nothing /\ panel = lastJson => panel' = panel]_vars

Calm == port = "up" /\ device = "running"

\* Once port and device stay up, the session comes back every time it is given
\* up, whatever threads were hung, late or just ending when the port went.  (For
\* good would be too much: a write that fails on the session just replaced
\* gives up its successor.)
LinkComesBack == <>[]Calm => []<>(session = "open")

\* Once moreover the registry is quiet, the panel shows what it holds for good.
PanelFollows == <>[]Calm /\ <>[][UNCHANGED reg]_vars => <>[](panel = reg)

\* A device that lost its config and time together with the session gets them
\* again, although they have no keepalive and the first sending may fall into
\* its boot; unless it boots once more behind the back of an open session.
BootUnseen == untold = "yes" /\ session = "open" /\ pc.rec = "dead"

ConfigReturns ==
  <>[]Calm =>
    [](clock = "unset" /\ session \in {"dead", "lost"} ~> clock = "set" \/ BootUnseen)
=============================================================================
