-------------------------------- MODULE Keys ---------------------------------
(***************************************************************************)
(* The way of a key press to button_router_press: the PWR key's latch in   *)
(* the power chip and the task that polls it (main/pwr_key.c), the two     *)
(* GPIO keys (main/buttons.c), the presses `dash btn' simulates, and the   *)
(* order in which app_main brings the drivers and their handlers up.       *)
(* What a routed press does is the matter of Attention.                    *)
(***************************************************************************)
EXTENDS Integers, Sequences, FiniteSets

CONSTANT MaxPresses    \* bound: presses of a behaviour

VARIABLES
  todo,      \* what app_main has left to do
  made,      \* the keys whose driver came up
  handler,   \* the keys with a handler: s_handlers, s_cb
  latch,     \* the power chip's status bits
  step,      \* where the poll task stands: before its read, its clear, its call
  sts,      \* sts: what its last read gave
  clicks,    \* clicks the button driver has yet to dispatch
  simKey,    \* s_sim_key
  sims,      \* btn_sim tasks that have not read it yet
  owed,      \* history: presses since the boot that were not routed yet
  presses

keyVars == <<todo, made, handler, latch, step, sts, clicks, simKey, sims, owed, presses>>

AllKeys == {"boot", "user", "pwr"}
GpioKeys == {"boot", "user"}

\* "short" is a finished press, "edge" stands for the other bits of the key:
\* one is set when the key goes down.
Bits == {"short", "edge"}

BringUp == <<"buttons_init", "pwr_key_init", "boot", "user", "pwr">>

KeysDown ==   \* before app_main
  /\ todo = <<>> /\ made = {} /\ handler = {} /\ latch = {} /\ step = "read" /\ sts = {}
  /\ clicks = {} /\ simKey = "boot" /\ sims = 0 /\ owed = {} /\ presses = 0

KeysInit ==
  /\ todo = BringUp /\ made = {} /\ handler = {} /\ latch \in SUBSET Bits
  /\ step = "read" /\ sts = {} /\ clicks = {} /\ simKey = "boot" /\ sims = 0
  /\ owed = {} /\ presses = 0

driver == <<latch, step, sts, clicks, simKey, sims, owed, presses>>

-----------------------------------------------------------------------------
(* app_main *)

\* buttons_init: the handlers are wiped; either driver may fail.
ButtonsInit ==
  /\ todo # <<>> /\ Head(todo) = "buttons_init"
  /\ handler' = handler \ GpioKeys
  /\ \E keys \in SUBSET GpioKeys : made' = made \union keys
  /\ todo' = Tail(todo)
  /\ UNCHANGED driver

\* pwr_key_init: stale status is dropped unless that write fails, and there may
\* be no chip or no task.
PwrKeyInit ==
  /\ todo # <<>> /\ Head(todo) = "pwr_key_init"
  /\ latch' \in {latch, {}}
  /\ made' \in {made, made \union {"pwr"}}
  /\ todo' = Tail(todo)
  /\ UNCHANGED <<handler, step, sts, clicks, simKey, sims, owed, presses>>

\* button_router_init, handler by handler.
Bind ==
  /\ todo # <<>> /\ Head(todo) \in AllKeys
  /\ handler' = handler \union {Head(todo)}
  /\ todo' = Tail(todo)
  /\ UNCHANGED <<made, driver>>

-----------------------------------------------------------------------------
(* Presses *)

Press(source, k) ==
  /\ presses < MaxPresses
  /\ presses' = presses + 1
  /\ owed' = IF todo = <<>> /\ k \in made THEN owed \union {<<source, k>>} ELSE owed

Routed(k) == owed' = {o \in owed : o[2] # k}

\* The PWR key goes down; it is let go within the limit of a short press.
KeyDown ==
  /\ latch' = latch \union {"edge"}
  /\ UNCHANGED <<todo, made, handler, step, sts, clicks, simKey, sims, owed, presses>>

ShortPress ==
  /\ Press("pmu", "pwr")
  /\ latch' \in {latch \union {"short"}, latch \union Bits}
  /\ UNCHANGED <<todo, made, handler, step, sts, clicks, simKey, sims>>

\* poll_task: read the status (a failed read or a zero changes nothing), ...
PollRead ==
  /\ "pwr" \in made /\ step = "read" /\ latch # {}
  /\ sts' = latch /\ step' = "clear"
  /\ UNCHANGED <<todo, made, handler, latch, clicks, simKey, sims, owed, presses>>

PollClearAll ==              \* mutant: every bit is cleared, read or not
  /\ step = "clear"
  /\ latch' \in {latch, {}}
  /\ step' = "call"
  /\ UNCHANGED <<todo, made, handler, sts, clicks, simKey, sims, owed, presses>>

\* ... clear what was read, unless the write fails, which nobody looks at, ...
PollClear ==
  /\ step = "clear"
  /\ latch' \in {latch, latch \ sts}
  /\ step' = "call"
  /\ UNCHANGED <<todo, made, handler, sts, clicks, simKey, sims, owed, presses>>

\* ... and call the handler of a short press.
PollCall ==
  /\ step = "call"
  /\ IF "short" \in sts /\ "pwr" \in handler THEN Routed("pwr") ELSE UNCHANGED owed
  /\ step' = "read" /\ sts' = {}
  /\ UNCHANGED <<todo, made, handler, latch, clicks, simKey, sims, presses>>

\* A GPIO key is clicked; the driver's timer finds out later and dispatch_cb
\* calls the handler there is then.
Click(k) ==
  /\ k \in made /\ k \notin clicks
  /\ Press("gpio", k)
  /\ clicks' = clicks \union {k}
  /\ UNCHANGED <<todo, made, handler, latch, step, sts, simKey, sims>>

Dispatch(k) ==
  /\ k \in clicks
  /\ clicks' = clicks \ {k}
  /\ IF k \in handler THEN Routed(k) ELSE UNCHANGED owed
  /\ UNCHANGED <<todo, made, handler, latch, step, sts, simKey, sims, presses>>

\* cmd_btn: the key goes through one static variable, so a press that its task
\* has not read yet is overtaken by the next, even by one whose task cannot be
\* started.
Simulate(k) ==
  /\ presses < MaxPresses
  /\ presses' = presses + 1
  /\ simKey' = k
  /\ LET others == {o \in owed : o[1] # "sim"}
     IN  \/ /\ sims' = sims + 1
            /\ owed' = IF todo = <<>> THEN others \union {<<"sim", k>>} ELSE others
         \/ UNCHANGED sims /\ owed' = others
  /\ UNCHANGED <<todo, made, handler, latch, step, sts, clicks>>

\* btn_sim_task: straight to button_router_press, whatever handlers there are.
SimTask ==
  /\ sims > 0
  /\ sims' = sims - 1
  /\ Routed(simKey)
  /\ UNCHANGED <<todo, made, handler, latch, step, sts, clicks, simKey, presses>>

KeysNext ==
  \/ ButtonsInit \/ PwrKeyInit \/ Bind
  \/ KeyDown \/ ShortPress \/ PollRead \/ PollClear \/ PollCall
  \/ \E k \in GpioKeys : Click(k) \/ Dispatch(k)
  \/ \E k \in AllKeys : Simulate(k)
  \/ SimTask

KeysSpec == KeysInit /\ [][KeysNext]_keyVars

\* A press after the boot is never lost: while it has not been routed it is on
\* its way, in a bit of the power chip that still stands or that the poll task
\* has read and will act on, in a click to be dispatched, or in the task of the
\* simulation.  It is for this that poll_task clears only the bits it has read
\* and that app_main binds the handlers after the drivers are up.
PressOnItsWay ==
  \A o \in owed :
    \/ o = <<"pmu", "pwr">> /\ ("short" \in latch \/ "short" \in sts) /\ "pwr" \in handler
    \/ o[1] = "gpio" /\ o[2] \in clicks /\ o[2] \in handler
    \/ o = <<"sim", simKey>> /\ sims > 0
=============================================================================
