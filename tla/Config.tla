------------------------------- MODULE Config --------------------------------
(***************************************************************************)
(* The settings of the panel in RAM and on flash (`dash config' and        *)
(* agent_commands_load_config in main/harness/agent_commands.c), and the   *)
(* order in which app_main brings up what the console and the first tick   *)
(* of a scene rely on.  The power may go at any moment; a `dash config'    *)
(* line changes RAM in one step and flash setting by setting.              *)
(***************************************************************************)
EXTENDS Integers, Sequences

VARIABLES
  boot,      \* where app_main stands in BootOrder, 0 without power
  ram,       \* the settings in force: agent_state and theme
  nvs,       \* those on flash
  writes,    \* the settings cmd_config has left to persist
  unsaved,   \* history: settings whose last way to or from the flash failed
  rx,        \* lines in the receive buffer
  known,     \* the console knows the commands
  lamp,      \* the light around the edge exists, and is lit
  latched,   \* the status bar has seen the host lost and asked for the light
  bounced,   \* history: a line met no handler
  onGlass,   \* the view shown, "none" before there is one
  dots       \* nav_dots: "none" before they are made, "dark", or the view whose dot is lit

views == <<onGlass, dots>>
config == <<boot, ram, nvs, writes, unsaved, rx, known, lamp, latched, bounced, views>>

\* One setting of each kind: the texts (device name, owner, default scene) and the
\* flag motion_reduced are taken as they come, the theme must be one there is,
\* and the minutes are clamped.  Those of a kind differ in their key.
Settings == {"name", "theme", "minutes"}

\* Views: the one registered first, and another.
Starts == {"dashboard", "clock"}

Default == [name |-> "DASHBOARD", theme |-> "noir", minutes |-> 10]

Themes == {"noir", "lab"}

\* What a line may say of some of them.
Values == [name : {"desk"}, theme : {"lab", "sepia"}, minutes : {300, -1}]

Given == UNION {{[s \in S |-> v[s]] : v \in Values} : S \in SUBSET Settings}

BootTicksFirst ==            \* mutant: the scenes before the light
  <<"state", "load", "register", "listen", "scenes", "glow", "dots", "start", "done">>

BootOrder ==
  <<"state", "load", "register", "listen", "glow", "scenes", "dots", "start", "done">>

Down == boot = 0

PanelOff == onGlass = "none" /\ dots = "none"

ConfigOff ==
  /\ boot = 0 /\ ram = Default /\ nvs = <<>>
  /\ writes = {} /\ unsaved = {} /\ rx = <<>>
  /\ known = FALSE /\ lamp = "none" /\ latched = FALSE /\ bounced = FALSE
  /\ PanelOff

ConfigInit ==
  /\ boot = 1 /\ ram = Default /\ nvs = <<>>
  /\ writes = {} /\ unsaved = {} /\ rx = <<>>
  /\ known = FALSE /\ lamp = "none" /\ latched = FALSE /\ bounced = FALSE
  /\ PanelOff

Stage(s) == ~Down /\ BootOrder[boot] = s /\ boot' = boot + 1
Past(s) == \A i \in DOMAIN BootOrder : BootOrder[i] = s => i < boot

-----------------------------------------------------------------------------
(* app_main *)

\* nvs_flash_init, which may find no room and erase everything, and then
\* agent_state_init and theme_init.
StateInit ==
  /\ Stage("state")
  /\ ram' = Default
  /\ nvs' \in {nvs, <<>>}
  /\ UNCHANGED <<writes, unsaved, rx, known, lamp, latched, bounced, views>>

\* What is on flash, as the settings it makes.
Over(f, g) == [s \in DOMAIN f |-> IF s \in DOMAIN g THEN g[s] ELSE f[s]]
Loaded(flash) == Over(Default, flash)

\* agent_commands_load_config; the namespace may fail to open.
LoadConfig ==
  /\ Stage("load")
  /\ \/ ram' = Loaded(nvs) /\ unsaved' = {}
     \/ UNCHANGED ram /\ unsaved' = Settings
  /\ UNCHANGED <<nvs, writes, rx, known, lamp, latched, bounced, views>>

Register ==
  /\ Stage("register") /\ known' = TRUE
  /\ UNCHANGED <<ram, nvs, writes, unsaved, rx, lamp, latched, bounced, views>>

Listen == Stage("listen") /\ UNCHANGED <<ram, nvs, writes, unsaved, rx, known, lamp, latched, bounced, views>>

GlowUp ==
  /\ Stage("glow") /\ lamp' = "dark"
  /\ UNCHANGED <<ram, nvs, writes, unsaved, rx, known, latched, bounced, views>>

\* nav_dots_set_scene: nothing before the dots are made.
DotFor(v) == IF dots = "none" THEN dots ELSE v

\* A switch to the view on the glass does nothing, any other ends in
\* on_scene_changed.
View(v) ==
  /\ onGlass' = v
  /\ dots' = IF v = onGlass THEN dots ELSE DotFor(v)

\* The first view registered is shown at once.
ScenesUp ==
  /\ Stage("scenes") /\ View("dashboard")
  /\ UNCHANGED <<ram, nvs, writes, unsaved, rx, known, lamp, latched, bounced>>

DotsUp ==
  /\ Stage("dots") /\ dots' = "dark"
  /\ UNCHANGED <<ram, nvs, writes, unsaved, rx, known, lamp, latched, bounced, onGlass>>

\* default_scene, a text of the settings, when it names a view there is.
StartView ==
  /\ Stage("start")
  /\ \E v \in Starts : View(v)
  /\ UNCHANGED <<ram, nvs, writes, unsaved, rx, known, lamp, latched, bounced>>

\* A key, which has no router before.  (A line may change the view from "scenes" on:
\* it is left out, as a view shown before the dots are made already is.)
ChangeView ==
  /\ Past("dots")
  /\ \E v \in Starts : v # onGlass /\ View(v)
  /\ UNCHANGED <<boot, ram, nvs, writes, unsaved, rx, known, lamp, latched, bounced>>

\* status_bar_tick finds the host lost, once; ui_glow_sustain without a canvas
\* does nothing.
FirstTick ==
  /\ Past("scenes") /\ ~latched
  /\ latched' = TRUE
  /\ lamp' = IF lamp = "none" THEN lamp ELSE "lost"
  /\ UNCHANGED <<boot, ram, nvs, writes, unsaved, rx, known, bounced, views>>

\* The power goes, and comes again.
PowerCut ==
  /\ ~Down
  /\ boot' = 1 /\ ram' = Default /\ writes' = {} /\ rx' = <<>> /\ unsaved' = {}
  /\ known' = FALSE /\ lamp' = "none" /\ latched' = FALSE
  /\ onGlass' = "none" /\ dots' = "none"
  /\ UNCHANGED <<nvs, bounced>>

-----------------------------------------------------------------------------
(* dash config *)

\* The bridge sends as soon as it is connected; the line waits in the buffer.
HostSends(words) ==
  /\ ~Down /\ rx = <<>>
  /\ rx' = <<words>>
  /\ UNCHANGED <<boot, ram, nvs, writes, unsaved, known, lamp, latched, bounced, views>>

Unclamped(n) == n            \* mutant: the slot on flash is eight bits

Clamp(n) == IF n < 0 THEN 0 ELSE IF n > 255 THEN 255 ELSE n

\* What cmd_config makes of a line: a theme it does not know is left out.
Taken(words) ==
  [s \in {u \in DOMAIN words : u = "theme" => words[u] \in Themes} |->
     IF s = "minutes" THEN Clamp(words[s]) ELSE words[s]]

Rank == [name |-> 1, theme |-> 2, minutes |-> 3]

\* The order of the calls at the end of cmd_config.
First(s) == s \in writes /\ \A u \in writes : Rank[s] <= Rank[u]

\* cmd_config: all of RAM at once, then the flash.
CmdConfig ==
  /\ Past("listen") /\ rx # <<>> /\ writes = {}
  /\ rx' = <<>>
  /\ IF known
     THEN LET new == Taken(Head(rx))
          IN  /\ ram' = Over(ram, new)
              /\ writes' = DOMAIN new
              /\ UNCHANGED bounced
     ELSE bounced' = TRUE /\ UNCHANGED <<ram, writes>>
  /\ UNCHANGED <<boot, nvs, unsaved, known, lamp, latched, views>>

\* persist_string, persist_u8: the cast to eight bits, or a flash that does not
\* open and is not reported.
Persist ==
  /\ \E s \in writes :
       LET v == IF s = "minutes" THEN ram[s] % 256 ELSE ram[s]
       IN  /\ First(s) /\ writes' = writes \ {s}
           /\ \/ /\ nvs' = [u \in DOMAIN nvs \union {s} |-> IF u = s THEN v ELSE nvs[u]]
                 /\ unsaved' = unsaved \ {s}
              \/ UNCHANGED nvs /\ unsaved' = unsaved \union {s}
  /\ UNCHANGED <<boot, ram, rx, known, lamp, latched, bounced, views>>

BootNext ==
  \/ StateInit \/ LoadConfig \/ Register \/ Listen \/ GlowUp \/ ScenesUp \/ FirstTick
  \/ DotsUp \/ StartView \/ PowerCut

ConfigNext ==
  \/ BootNext \/ CmdConfig \/ Persist
  \/ \E words \in Given : HostSends(words)

PanelNext == BootNext \/ ChangeView

\* What the panel runs on is what it would run on after a power cut, but for the
\* settings still to be written and those the flash has refused: no setting
\* comes back changed, by the width of its slot or by a default of the load that
\* is not the default of the boot.
DurableAsShown ==
  Past("load") =>
    \A s \in Settings \ (unsaved \union writes) : Loaded(nvs)[s] = ram[s]

\* Nothing that comes while the panel boots is lost: a line sent the moment the
\* port opens finds its handler, a host that is lost from the start is seen
\* around the edge, however early the first tick comes, and a view has its dot lit,
\* but for one shown before there are dots: nobody tells them of it when they are
\* made, and a switch to the view on the glass does not either.
NothingLostAtBoot ==
  /\ ~bounced
  /\ latched => lamp = "lost"
  /\ \/ dots = onGlass
     \/ onGlass = "dashboard" /\ dots \in {"none", "dark"}
=============================================================================
