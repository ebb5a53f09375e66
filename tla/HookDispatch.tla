---------------------------- MODULE HookDispatch ----------------------------
(***************************************************************************)
(* tools/hook_dispatch.py: the process started for every hook event, which *)
(* forwards it to the bridge; and of tools/claude_buddy_bridge.py the way  *)
(* from the start of `serve' to a listening socket.  Hooks run side by     *)
(* side and share one file, which each loads at its beginning and writes   *)
(* at its end, the last writer winning.  A hook that finds no bridge       *)
(* starts one; a bridge that does not answer trips a breaker that lets     *)
(* later events pass by.                                                   *)
(*                                                                         *)
(* Time is counted in units of the slowest answer a hook waits for, so a   *)
(* hook is crossed by one passing of a unit at most.  What the user is     *)
(* told, the event itself and its reply are left out.                      *)
(***************************************************************************)
EXTENDS Integers, Sequences, SequencesExt

CONSTANTS
  Hooks,      \* the hook processes that may run at a time
  Bridges,    \* bound: the bridge processes that may exist at a time
  Grace,      \* AUTOSTART_GRACE_S
  Cooldown,   \* AUTOSTART_COOLDOWN_S
  Window,     \* CB_WINDOW_S
  OpenFor,    \* CB_COOLDOWN_S
  Threshold   \* CB_THRESHOLD

ASSUME Spans == /\ {Grace, Cooldown, Window, OpenFor, Threshold} \subseteq Nat \ {0}
                /\ Grace <= Cooldown
                /\ Bridges # {}

Nobody == "nobody"

VARIABLES
  file,     \* the state file: start, the age of start_ts up to Cooldown; open,
            \* what is left until cb_open_until; ts, the ages of cb_timestamps
            \* up to Window
  pc,       \* each hook: "idle", or "forward" while it waits for the answer
  copy,     \* its `state' dict between load and save
  crossed,  \* the hooks that a unit of time has passed since they began
  bridge,   \* each bridge process: "none", "boot", "opening", "starting" or "serving"
  wedged,   \* the serving processes that accept and do not answer
  port      \* who has the serial port open

vars == <<file, pc, copy, crossed, bridge, wedged, port>>
hooks == <<pc, copy, crossed>>
bridges == <<bridge, wedged, port>>

NoState == [start |-> Cooldown, open |-> 0, ts |-> <<>>]

Init ==
  /\ file = NoState
  /\ pc = [h \in Hooks |-> "idle"] /\ copy = [h \in Hooks |-> NoState] /\ crossed = {}
  /\ bridge = [b \in Bridges |-> "none"] /\ wedged = {} /\ port = Nobody

Serving == {b \in Bridges : bridge[b] = "serving"}
Free == {b \in Bridges : bridge[b] = "none"}

-----------------------------------------------------------------------------
(* The bookkeeping *)

CbRecordLatestOnly(s) ==     \* mutant: the timestamps are replaced, not added to
  LET ts == <<0>>
  IN  IF Len(ts) >= Threshold THEN [s EXCEPT !.open = OpenFor, !.ts = <<>>]
                              ELSE [s EXCEPT !.ts = ts]

\* _cb_record_timeout: a wedge counts with those of the window; enough of them
\* open the breaker and start a new count.
CbRecordTimeout(s) ==
  LET ts == Append(SelectSeq(s.ts, LAMBDA age : age < Window), 0)
  IN  IF Len(ts) >= Threshold THEN [s EXCEPT !.open = OpenFor, !.ts = <<>>]
                              ELSE [s EXCEPT !.ts = ts]

\* _cb_clear
CbClearOpenOnly(s) ==        \* mutant: the count of wedges stays
  [s EXCEPT !.open = 0]

CbClear(s) == [s EXCEPT !.ts = <<>>, !.open = 0]

\* What a unit of time does to a copy of the state.
Aged(s) ==
  [s EXCEPT !.start = IF @ < Cooldown THEN @ + 1 ELSE @,
            !.open = IF @ > 0 THEN @ - 1 ELSE 0,
            !.ts = [i \in DOMAIN @ |-> IF @[i] < Window THEN @[i] + 1 ELSE @[i]]]

-----------------------------------------------------------------------------
(* main of a hook.  The events that a young start or an open breaker lets   *)
(* pass change nothing and are not steps.                                   *)

Begin(h) ==
  /\ pc[h] = "idle"
  /\ file.start >= Grace /\ file.open = 0
  /\ pc' = [pc EXCEPT ![h] = "forward"]
  /\ copy' = [copy EXCEPT ![h] = file]
  /\ UNCHANGED <<file, crossed, bridges>>

\* _forward found a bridge that answers.
Ok(h) ==
  /\ Serving \ wedged # {}
  /\ file' = CbClear(copy[h])
  /\ UNCHANGED bridges

\* _forward ran into its read timeout.
Wedged(h) ==
  /\ Serving \intersect wedged # {}
  /\ file' = CbRecordTimeout(copy[h])
  /\ UNCHANGED bridges

\* Nobody listens: _maybe_autostart, unless this hook's copy says that one was
\* started lately.  Of the processes beyond the bound nothing is seen.
Offline(h) ==
  /\ Serving = {}
  /\ IF copy[h].start < Cooldown
       THEN file' = copy[h] /\ UNCHANGED bridge
       ELSE /\ file' = [copy[h] EXCEPT !.start = 0]
            /\ IF Free = {} THEN UNCHANGED bridge
               ELSE \E b \in Free : bridge' = [bridge EXCEPT ![b] = "boot"]
  /\ UNCHANGED <<wedged, port>>

\* _state_save replaces the whole file by the copy and what the answer makes
\* of it; what happens between the answer and the save might as well happen
\* before the answer.
Reply(h) ==
  /\ pc[h] = "forward"
  /\ Ok(h) \/ Wedged(h) \/ Offline(h)
  /\ pc' = [pc EXCEPT ![h] = "idle"]
  /\ copy' = [copy EXCEPT ![h] = NoState]
  /\ crossed' = crossed \ {h}

-----------------------------------------------------------------------------
(* cmd_serve *)

Exits(b) ==
  /\ bridge' = [bridge EXCEPT ![b] = "none"]
  /\ wedged' = wedged \ {b}
  /\ port' = IF port = b THEN Nobody ELSE port

\* bridge_already_running: one that answers the ping.
CheckInstance(b) ==
  /\ bridge[b] = "boot"
  /\ IF Serving \ wedged # {} THEN Exits(b)
     ELSE bridge' = [bridge EXCEPT ![b] = "opening"] /\ UNCHANGED <<wedged, port>>
  /\ UNCHANGED <<file, hooks>>

\* open_with_retry gets the port, or goes on without when another has it.
OpenPort(b) ==
  /\ bridge[b] = "opening"
  /\ bridge' = [bridge EXCEPT ![b] = "starting"]
  /\ port' = IF port = Nobody THEN b ELSE port
  /\ UNCHANGED <<wedged, file, hooks>>

\* The socket is bound, or taken: then the exception ends the process.
BindLingers(b) ==            \* mutant: the process that could not bind lives on
  /\ bridge[b] = "starting"
  /\ Serving = {}
  /\ bridge' = [bridge EXCEPT ![b] = "serving"]
  /\ UNCHANGED <<wedged, port, file, hooks>>

Bind(b) ==
  /\ bridge[b] = "starting"
  /\ IF Serving = {}
       THEN bridge' = [bridge EXCEPT ![b] = "serving"] /\ UNCHANGED <<wedged, port>>
       ELSE Exits(b)
  /\ UNCHANGED <<file, hooks>>

\* The reconnect loop of a bridge that serves without its port.
Reconnect(b) ==
  /\ bridge[b] = "serving" /\ port = Nobody
  /\ port' = b
  /\ UNCHANGED <<bridge, wedged, file, hooks>>

BridgeStep(b) == CheckInstance(b) \/ OpenPort(b) \/ Bind(b) \/ Reconnect(b)

-----------------------------------------------------------------------------
(* The world: bridges are started by hand, die, hang and come round.  Time  *)
(* passes, for a hook under way once.                                       *)

Launch(b) ==
  /\ bridge[b] = "none"
  /\ bridge' = [bridge EXCEPT ![b] = "boot"]
  /\ UNCHANGED <<wedged, port, file, hooks>>

Crash(b) ==
  /\ bridge[b] # "none"
  /\ Exits(b)
  /\ UNCHANGED <<file, hooks>>

Hang(b) ==
  /\ bridge[b] = "serving"
  /\ wedged' \in {wedged \union {b}, wedged \ {b}} \ {wedged}
  /\ UNCHANGED <<bridge, port, file, hooks>>

Disturbance == \E b \in Bridges : Launch(b) \/ Crash(b) \/ Hang(b)

Pass ==
  /\ crossed = {}
  /\ crossed' = {h \in Hooks : pc[h] # "idle"}
  /\ file' = Aged(file)
  /\ copy' = [h \in Hooks |-> IF pc[h] = "idle" THEN NoState ELSE Aged(copy[h])]
  /\ UNCHANGED <<pc, bridges>>

Next ==
  \/ \E h \in Hooks : Begin(h) \/ Reply(h)
  \/ \E b \in Bridges : BridgeStep(b)
  \/ Disturbance
  \/ Pass

\* A process that runs goes on.  That events and bridges come is not given.
Spec ==
  /\ Init /\ [][Next]_vars
  /\ \A h \in Hooks : WF_vars(Reply(h))
  /\ \A b \in Bridges : WF_vars(BridgeStep(b))
  /\ WF_vars(Pass)

-----------------------------------------------------------------------------
(* Properties *)

\* An event comes when a hook would forward it.
EventsRecur == WF_vars(\E h \in Hooks : Begin(h))

\* Once nobody kills, hangs or starts bridges and while events keep coming,
\* one bridge is left, it listens and the serial port is its: whoever was
\* started twice, by hooks with stale copies or from a grace that another
\* hook's save forgot, has made way, and did not take the port along.
OneRuns ==
  EventsRecur /\ <>[][~Disturbance]_vars /\ <>[](wedged = {}) =>
    <>[](\E b \in Bridges : bridge[b] = "serving" /\ port = b
                            /\ Free = Bridges \ {b})

\* A bridge that hangs for good trips the breaker again and again, however the
\* hooks write over each other's counts, as long as no wedge counted so far
\* falls out of the window.
BreakerTrips ==
  EventsRecur /\ <>[](Serving \intersect wedged # {})
              /\ <>[](\A i \in DOMAIN file.ts : file.ts[i] < Window) =>
    []<>(file.open > 0)

\* Once the bridges answer, the file forgets what went wrong: no hook that
\* began in worse times brings the breaker or a count back for good.
Recovers ==
  EventsRecur /\ <>[][~Disturbance]_vars /\ <>[](wedged = {}) =>
    <>[](file.open = 0 /\ file.ts = <<>>)
=============================================================================
