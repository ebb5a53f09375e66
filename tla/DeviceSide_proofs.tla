-------------------------- MODULE DeviceSide_proofs --------------------------
(***************************************************************************)
(* Theorems about the parts of the device: the settings across power cuts  *)
(* and the order of app_main (Config), the host's clock and waits across   *)
(* the wrap of the panel's tick (HostData), the depth of the edge light's  *)
(* ink in every moment of a ping (GlowInk), and the slot table under       *)
(* snapshots of any length (AgentSlots).                                   *)
(***************************************************************************)
EXTENDS DeviceSide, FiniteSetTheorems, SequenceTheorems, TLAPS

-----------------------------------------------------------------------------
(* Config: where app_main stands *)

LEMMA OrderIs ==
  /\ DOMAIN BootOrder = 1 .. 9
  /\ BootOrder[1] = "state" /\ BootOrder[2] = "load" /\ BootOrder[3] = "register"
  /\ BootOrder[4] = "listen" /\ BootOrder[5] = "glow" /\ BootOrder[6] = "scenes"
  /\ BootOrder[7] = "dots" /\ BootOrder[8] = "start" /\ BootOrder[9] = "done"
BY DEF BootOrder

LEMMA WhereInBoot ==
  ASSUME boot \in 0 .. 9
  PROVE  /\ Past("load") <=> boot > 2
         /\ Past("listen") <=> boot > 4
         /\ Past("scenes") <=> boot > 6
         /\ Past("dots") <=> boot > 7
BY OrderIs DEF Past

LEMMA StageIs ==
  ASSUME boot \in 0 .. 9
  PROVE  /\ Stage("state") => boot = 1 /\ boot' = 2
         /\ Stage("load") => boot = 2 /\ boot' = 3
         /\ Stage("register") => boot = 3 /\ boot' = 4
         /\ Stage("listen") => boot = 4 /\ boot' = 5
         /\ Stage("glow") => boot = 5 /\ boot' = 6
         /\ Stage("scenes") => boot = 6 /\ boot' = 7
         /\ Stage("dots") => boot = 7 /\ boot' = 8
         /\ Stage("start") => boot = 8 /\ boot' = 9
<1>1. ~Down => boot \in 1 .. 9
  BY DEF Down
<1>2. QED
  BY <1>1, OrderIs DEF Stage

-----------------------------------------------------------------------------
(* Config: settings *)

Byte == 0 .. 255

\* What is in RAM fits its slot on flash, so the cast to eight bits takes nothing
\* from it; and a line is persisted only by a console that listens, after the load.
SettingsInv ==
  /\ boot \in 0 .. 9
  /\ DOMAIN ram = Settings /\ ram["minutes"] \in Byte
  /\ "minutes" \in DOMAIN nvs => nvs["minutes"] \in Byte
  /\ writes \subseteq Settings /\ (writes # {} => boot > 4)
  /\ rx = <<>> \/ \E words \in Given : rx = <<words>>
  /\ DurableAsShown

LEMMA GivenIs ==
  ASSUME NEW words \in Given
  PROVE  /\ DOMAIN words \subseteq Settings
         /\ "minutes" \in DOMAIN words => words["minutes"] \in Int
<1>1. PICK S \in SUBSET Settings, v \in Values : words = [s \in S |-> v[s]]
  BY DEF Given
<1>2. v["minutes"] \in Int
  BY DEF Values
<1>3. QED
  BY <1>1, <1>2

\* What a line makes of the settings it gives fits, and it leaves the others alone.
LEMMA TakenFits ==
  ASSUME NEW words \in Given
  PROVE  /\ DOMAIN Taken(words) \subseteq Settings
         /\ "minutes" \in DOMAIN Taken(words) => Taken(words)["minutes"] \in Byte
<1> DEFINE D == {u \in DOMAIN words : u = "theme" => words[u] \in Themes}
<1>1. Taken(words) = [s \in D |-> IF s = "minutes" THEN Clamp(words[s]) ELSE words[s]]
  BY DEF Taken
<1>2. DOMAIN Taken(words) = D /\ D \subseteq Settings
  BY <1>1, GivenIs
<1>3. ASSUME "minutes" \in D PROVE Taken(words)["minutes"] \in Byte
  <2>1. Taken(words)["minutes"] = Clamp(words["minutes"])
    BY <1>1, <1>3
  <2>2. words["minutes"] \in Int
    BY <1>3, GivenIs
  <2>3. QED
    BY <2>1, <2>2 DEF Clamp, Byte
<1>4. QED
  BY <1>2, <1>3

LEMMA OverIs ==
  ASSUME NEW f, NEW g
  PROVE  /\ DOMAIN Over(f, g) = DOMAIN f
         /\ \A s \in DOMAIN f : Over(f, g)[s] = IF s \in DOMAIN g THEN g[s] ELSE f[s]
BY DEF Over

LEMMA DefaultIs == DOMAIN Default = Settings /\ Default["minutes"] \in Byte
BY DEF Default, Settings, Byte

LEMMA SettingsStart ==
  ASSUME ConfigInit \/ ConfigOff
  PROVE  SettingsInv
<1>1. boot \in 0 .. 1 /\ ram = Default /\ nvs = <<>> /\ writes = {} /\ rx = <<>>
  BY DEF ConfigInit, ConfigOff
<1>2. ~Past("load")
  BY <1>1, WhereInBoot
<1>3. DOMAIN nvs = {}
  BY <1>1
<1>4. QED
  BY <1>1, <1>2, <1>3, DefaultIs DEF SettingsInv, DurableAsShown

LEMMA SettingsBoot ==
  ASSUME SettingsInv, BootNext
  PROVE  SettingsInv'
<1> USE DEF SettingsInv
<1>1. boot \in 0 .. 9
  OBVIOUS
<1>2. CASE StateInit
  <2>1. boot = 1 /\ boot' = 2 /\ ram' = Default /\ nvs' \in {nvs, <<>>} /\ UNCHANGED <<writes, rx>>
    BY <1>1, <1>2, StageIs DEF StateInit
  <2>2. ~Past("load")'
    BY <2>1, OrderIs DEF Past
  <2>3. writes = {}
    BY <2>1
  <2>4. "minutes" \in DOMAIN nvs' => nvs'["minutes"] \in Byte
    <3>1. CASE nvs' = nvs
      BY <3>1
    <3>2. CASE nvs' = <<>>
      BY <3>2
    <3>3. QED
      BY <2>1, <3>1, <3>2
  <2>5. QED
    BY <2>1, <2>2, <2>3, <2>4, DefaultIs DEF DurableAsShown
<1>3. CASE LoadConfig
  <2>1. boot = 2 /\ boot' = 3 /\ UNCHANGED <<nvs, writes, rx>>
    BY <1>1, <1>3, StageIs DEF LoadConfig
  <2>2. writes = {}
    BY <2>1
  <2>3. CASE ram' = Loaded(nvs) /\ unsaved' = {}
    <3>1. DOMAIN ram' = Settings /\ ram'["minutes"] \in Byte
      <4>1. DOMAIN ram' = Settings
        BY <2>3, DefaultIs, OverIs DEF Loaded
      <4>2. "minutes" \in Settings
        BY DEF Settings
      <4>3. ram'["minutes"] = IF "minutes" \in DOMAIN nvs THEN nvs["minutes"] ELSE Default["minutes"]
        BY <2>3, <4>2, DefaultIs, OverIs DEF Loaded
      <4>4. QED
        BY <4>1, <4>3, DefaultIs
    <3>2. DurableAsShown'
      BY <2>1, <2>3 DEF DurableAsShown, Loaded
    <3>3. QED
      BY <2>1, <2>2, <3>1, <3>2
  <2>4. CASE UNCHANGED ram /\ unsaved' = Settings
    BY <2>1, <2>2, <2>4 DEF DurableAsShown
  <2>5. QED
    BY <1>3, <2>3, <2>4 DEF LoadConfig
<1>4. CASE PowerCut
  <2>1. boot' = 1 /\ ram' = Default /\ writes' = {} /\ rx' = <<>> /\ nvs' = nvs
    BY <1>4 DEF PowerCut
  <2>2. ~Past("load")'
    BY <2>1, OrderIs DEF Past
  <2>3. QED
    BY <2>1, <2>2, DefaultIs DEF DurableAsShown
<1> DEFINE Later == Register \/ Listen \/ GlowUp \/ ScenesUp \/ FirstTick \/ DotsUp \/ StartView
<1>5. CASE Later
  <2>1. UNCHANGED <<ram, nvs, writes, unsaved, rx>>
    BY <1>5 DEF Register, Listen, GlowUp, ScenesUp, FirstTick, DotsUp, StartView
  <2>2. boot' \in 0 .. 9 /\ boot' >= boot /\ (boot' > 2 => boot > 2)
    BY <1>1, <1>5, StageIs DEF Register, Listen, GlowUp, ScenesUp, FirstTick, DotsUp, StartView
  <2>3. (Past("load") <=> boot > 2) /\ (Past("load")' <=> boot' > 2)
    BY <1>1, <2>2, OrderIs DEF Past
  <2>4. DurableAsShown'
    BY <2>1, <2>2, <2>3 DEF DurableAsShown, Loaded
  <2>5. QED
    BY <2>1, <2>2, <2>4
<1>6. QED
  BY <1>2, <1>3, <1>4, <1>5 DEF BootNext

LEMMA SettingsCommand ==
  ASSUME SettingsInv, CmdConfig
  PROVE  SettingsInv'
<1> USE DEF SettingsInv
<1>1. boot > 4 /\ writes = {} /\ rx' = <<>> /\ UNCHANGED <<boot, nvs, unsaved>>
  BY WhereInBoot DEF CmdConfig
<1>2. Past("load")
  BY <1>1, WhereInBoot
<1>3. CASE known
  <2>1. PICK words \in Given : rx = <<words>>
    BY DEF CmdConfig
  <2> DEFINE new == Taken(words)
  <2>2. ram' = Over(ram, new) /\ writes' = DOMAIN new
    BY <1>3, <2>1 DEF CmdConfig
  <2>3. DOMAIN new \subseteq Settings /\ ("minutes" \in DOMAIN new => new["minutes"] \in Byte)
    BY TakenFits
  <2> HIDE DEF new
  <2>4. DOMAIN ram' = Settings
    BY <2>2, OverIs
  <2>5. \A s \in Settings : ram'[s] = IF s \in DOMAIN new THEN new[s] ELSE ram[s]
    BY <2>2, OverIs
  <2>6. ram'["minutes"] \in Byte
    BY <2>3, <2>5 DEF Settings
  <2>7. DurableAsShown'
    <3>1. \A s \in Settings \ (unsaved \union writes') : Loaded(nvs)[s] = ram'[s]
      BY <1>1, <1>2, <2>2, <2>5 DEF DurableAsShown
    <3>2. QED
      BY <1>1, <3>1 DEF DurableAsShown, Loaded
  <2>8. QED
    BY <1>1, <2>2, <2>3, <2>4, <2>6, <2>7
<1>4. CASE ~known
  <2>1. UNCHANGED <<ram, writes>>
    BY <1>4 DEF CmdConfig
  <2>2. DurableAsShown'
    BY <1>1, <2>1, <1>2 DEF DurableAsShown, Loaded
  <2>3. QED
    BY <1>1, <2>1, <2>2
<1>5. QED
  BY <1>3, <1>4

LEMMA SettingsPersist ==
  ASSUME SettingsInv, Persist
  PROVE  SettingsInv'
<1> USE DEF SettingsInv
<1>1. UNCHANGED <<boot, ram, rx>>
  BY DEF Persist
<1> DEFINE v(s) == IF s = "minutes" THEN ram[s] % 256 ELSE ram[s]
<1>2. PICK s \in writes :
        /\ writes' = writes \ {s}
        /\ \/ /\ nvs' = [u \in DOMAIN nvs \union {s} |-> IF u = s THEN v(s) ELSE nvs[u]]
              /\ unsaved' = unsaved \ {s}
           \/ UNCHANGED nvs /\ unsaved' = unsaved \union {s}
  BY DEF Persist
<1>3. Past("load") /\ boot > 4
  BY WhereInBoot
<1>4. \A u \in Settings \ (unsaved \union writes) : Loaded(nvs)[u] = ram[u]
  BY <1>3 DEF DurableAsShown
<1>5. v(s) = ram[s]
  <2>1. \A n \in Byte : n % 256 = n
    BY DEF Byte
  <2>2. CASE s = "minutes"
    BY <2>1, <2>2
  <2>3. CASE s # "minutes"
    BY <2>3
  <2>4. QED
    BY <2>2, <2>3
<1> HIDE DEF v
<1>6. CASE /\ nvs' = [u \in DOMAIN nvs \union {s} |-> IF u = s THEN v(s) ELSE nvs[u]]
           /\ unsaved' = unsaved \ {s}
  <2>1. "minutes" \in DOMAIN nvs' => nvs'["minutes"] \in Byte
    BY <1>5, <1>6
  <2>2. \A u \in Settings : Loaded(nvs')[u] = IF u = s THEN ram[s] ELSE Loaded(nvs)[u]
    <3>1. \A f : \A u \in Settings : Loaded(f)[u] = IF u \in DOMAIN f THEN f[u] ELSE Default[u]
      BY OverIs, DefaultIs DEF Loaded
    <3>2. QED
      BY <3>1, <1>5, <1>6
  <2>3. ASSUME NEW u \in Settings \ (unsaved' \union writes')
        PROVE  Loaded(nvs')[u] = ram[u]
    <3>1. CASE u = s
      BY <2>2, <3>1
    <3>2. CASE u # s
      <4>1. u \in Settings \ (unsaved \union writes)
        BY <1>2, <1>6, <3>2
      <4>2. QED
        BY <1>4, <2>2, <3>2, <4>1
    <3>3. QED
      BY <3>1, <3>2
  <2>4. QED
    BY <1>1, <1>2, <1>3, <2>1, <2>3 DEF DurableAsShown
<1>7. CASE UNCHANGED nvs /\ unsaved' = unsaved \union {s}
  <2>1. \A u \in Settings \ (unsaved' \union writes') : Loaded(nvs)[u] = ram[u]
    BY <1>2, <1>4, <1>7
  <2>2. QED
    BY <1>1, <1>2, <1>3, <1>7, <2>1 DEF DurableAsShown, Loaded
<1>8. QED
  BY <1>2, <1>6, <1>7

LEMMA SettingsStay ==
  ASSUME SettingsInv, UNCHANGED <<boot, ram, nvs, writes, unsaved>>, UNCHANGED rx \/ \E words \in Given : rx' = <<words>>
  PROVE  SettingsInv'
BY DEF SettingsInv, DurableAsShown, Loaded, Past

LEMMA SettingsStep ==
  ASSUME SettingsInv, ConfigNext \/ PanelNext \/ UNCHANGED config
  PROVE  SettingsInv'
<1>1. CASE BootNext
  BY <1>1, SettingsBoot
<1>2. CASE CmdConfig
  BY <1>2, SettingsCommand
<1>3. CASE Persist
  BY <1>3, SettingsPersist
<1>4. CASE (\E words \in Given : HostSends(words)) \/ ChangeView \/ UNCHANGED config
  BY <1>4, SettingsStay DEF HostSends, ChangeView, config
<1>5. QED
  BY <1>1, <1>2, <1>3, <1>4 DEF ConfigNext, PanelNext

-----------------------------------------------------------------------------
(* Config: the boot *)

\* How far app_main has come decides what there is: the commands before the port
\* opens, the light before the first tick, a view before the dots, the dots
\* before any other view.
BootInv ==
  /\ boot \in 0 .. 9
  /\ boot > 3 => known
  /\ boot > 5 => lamp # "none"
  /\ latched => boot > 6 /\ lamp = "lost"
  /\ boot <= 6 => onGlass = "none" /\ dots = "none"
  /\ boot = 7 => onGlass = "dashboard" /\ dots = "none"
  /\ boot > 7 => \/ dots = onGlass /\ onGlass # "none"
                 \/ onGlass = "dashboard" /\ dots = "dark"
  /\ ~bounced

LEMMA BootStart ==
  ASSUME ConfigInit \/ ConfigOff
  PROVE  BootInv
BY DEF ConfigInit, ConfigOff, PanelOff, BootInv

LEMMA BootStep ==
  ASSUME BootInv, ConfigNext \/ PanelNext \/ UNCHANGED config
  PROVE  BootInv'
<1> USE DEF BootInv
<1>1. boot \in 0 .. 9
  OBVIOUS
<1>2. CASE StateInit \/ LoadConfig \/ Register \/ Listen
  <2>1. /\ boot \in 1 .. 4 /\ boot' = boot + 1 /\ (boot = 3 => known') /\ (boot # 3 => known' = known)
        /\ UNCHANGED <<lamp, latched, bounced, onGlass, dots>>
    BY <1>1, <1>2, StageIs DEF StateInit, LoadConfig, Register, Listen, views
  <2>2. QED
    BY <2>1
<1>3. CASE GlowUp
  <2>1. /\ boot = 5 /\ boot' = 6 /\ lamp' = "dark"
        /\ UNCHANGED <<known, latched, bounced, onGlass, dots>>
    BY <1>1, <1>3, StageIs DEF GlowUp, views
  <2>2. QED
    BY <2>1
<1>4. CASE ScenesUp
  BY <1>1, <1>4, StageIs DEF ScenesUp, View, DotFor
<1>5. CASE FirstTick
  BY <1>1, <1>5, WhereInBoot DEF FirstTick, views
<1>6. CASE DotsUp
  BY <1>1, <1>6, StageIs DEF DotsUp
<1>7. CASE StartView
  BY <1>1, <1>7, StageIs DEF StartView, View, DotFor, Starts
<1>8. CASE PowerCut
  BY <1>8 DEF PowerCut
<1>9. CASE ChangeView
  BY <1>1, <1>9, WhereInBoot DEF ChangeView, View, DotFor, Starts
<1>10. CASE CmdConfig
  BY <1>1, <1>10, WhereInBoot DEF CmdConfig, views
<1>11. CASE Persist \/ \E words \in Given : HostSends(words)
  BY <1>11 DEF Persist, HostSends, views
<1>12. CASE UNCHANGED config
  BY <1>12 DEF config, views
<1>13. QED
  BY <1>2, <1>3, <1>4, <1>5, <1>6, <1>7, <1>8, <1>9, <1>10, <1>11, <1>12
     DEF ConfigNext, PanelNext, BootNext

LEMMA BootSays == BootInv => NothingLostAtBoot
BY DEF BootInv, NothingLostAtBoot

-----------------------------------------------------------------------------
(* Config: theorems *)

LEMMA DeviceConfig ==
  /\ DeviceInit => ConfigInit \/ ConfigOff
  /\ [DeviceNext]_<<part, vars, keyVars, glow, deco, config, json, hostData, meters>>
       => ConfigNext \/ PanelNext \/ UNCHANGED config
BY DEF DeviceInit, DeviceNext, Merging, Pressing, Glowing, Drawing, Configuring, Scanning,
       Telling, Metering

\* What the panel runs on is what it would run on after a power cut, but for the
\* settings still to be written and those the flash has refused, wherever the power
\* goes in app_main, cmd_config or between two of its persists.
THEOREM SettingsDurable == DeviceSpec => []DurableAsShown
<1>1. DeviceInit => SettingsInv
  BY DeviceConfig, SettingsStart
<1>2. SettingsInv /\ [DeviceNext]_<<part, vars, keyVars, glow, deco, config, json, hostData, meters>>
        => SettingsInv'
  BY DeviceConfig, SettingsStep
<1>3. SettingsInv => DurableAsShown
  BY DEF SettingsInv
<1>4. QED
  BY <1>1, <1>2, <1>3, PTL DEF DeviceSpec

\* The order of app_main loses nothing: a line finds its handler, a host lost from
\* the start is seen around the edge, the view on the glass has its dot, but for
\* the one shown before there were dots; however ticks, keys, lines and power
\* cuts fall among its steps.
THEOREM BootLosesNothing == DeviceSpec => []NothingLostAtBoot
<1>1. DeviceInit => BootInv
  BY DeviceConfig, BootStart
<1>2. BootInv /\ [DeviceNext]_<<part, vars, keyVars, glow, deco, config, json, hostData, meters>>
        => BootInv'
  BY DeviceConfig, BootStep
<1>3. QED
  BY <1>1, <1>2, BootSays, PTL DEF DeviceSpec

-----------------------------------------------------------------------------
(* A counter that wraps *)

LEMMA ModIs ==
  ASSUME NEW W \in Nat \ {0}, NEW a \in Int
  PROVE  /\ a % W \in 0 .. W - 1
         /\ \E q \in Int : a = q * W + (a % W)
<1>1. a = (a \div W) * W + (a % W)
  OBVIOUS
<1>2. a \div W \in Int
  OBVIOUS
<1>3. a % W \in 0 .. W - 1
  OBVIOUS
<1>4. QED
  BY <1>1, <1>2, <1>3

LEMMA ModUnique ==
  ASSUME NEW W \in Nat \ {0}, NEW q \in Int, NEW r \in 0 .. W - 1
  PROVE  (q * W + r) % W = r
<1> DEFINE a == q * W + r
<1>1. a \in Int /\ a % W \in 0 .. W - 1
  BY ModIs
<1>2. PICK p \in Int : a = p * W + (a % W)
  BY <1>1, ModIs
<1>3. (q - p) * W = (a % W) - r
  BY <1>1, <1>2
<1>4. CASE q - p >= 1
  <2>1. (q - p) * W >= W
    BY <1>4
  <2>2. QED
    BY <2>1, <1>1, <1>3
<1>5. CASE q - p <= -1
  <2>1. (q - p) * W <= -W
    BY <1>5
  <2>2. QED
    BY <2>1, <1>1, <1>3
<1>6. CASE q = p
  BY <1>1, <1>3, <1>6
<1>7. QED
  BY <1>4, <1>5, <1>6

LEMMA ModLess ==
  ASSUME NEW W \in Nat \ {0}, NEW a \in Nat
  PROVE  a % W <= a /\ (a < W => a % W = a)
<1>1. a < W => (0 * W + a) % W = a
  BY ModUnique
<1>2. a >= W => a % W <= a
  BY ModIs
<1>3. QED
  BY <1>1, <1>2

\* Two readings of a counter that wraps are as far apart as what it counts, up to a wrap.
LEMMA ModDifference ==
  ASSUME NEW W \in Nat \ {0}, NEW a \in Int, NEW b \in Int
  PROVE  ((a % W) - (b % W)) % W = (a - b) % W
<1> DEFINE d == (a % W) - (b % W)
<1>1. d \in Int /\ a % W \in Int /\ b % W \in Int
  BY ModIs
<1>2. PICK p \in Int : a = p * W + (a % W)
  BY ModIs
<1>3. PICK q \in Int : b = q * W + (b % W)
  BY ModIs
<1>4. PICK k \in Int : d = k * W + (d % W)
  BY <1>1, ModIs
<1>5. d % W \in 0 .. W - 1
  BY <1>1, ModIs
<1>6. a - b = (p - q) * W + d
  <2>1. (p - q) * W = p * W - q * W
    OBVIOUS
  <2>2. QED
    BY <2>1, <1>1, <1>2, <1>3
<1> DEFINE r == d % W
<1>7. a - b = (p - q + k) * W + r
  <2>1. (p - q + k) * W = (p - q) * W + k * W
    OBVIOUS
  <2> HIDE DEF d
  <2>2. QED
    BY <2>1, <1>1, <1>4, <1>5, <1>6
<1> HIDE DEF r
<1>8. ((p - q + k) * W + r) % W = r
  BY <1>5, ModUnique DEF r
<1>9. QED
  BY <1>7, <1>8 DEF r

-----------------------------------------------------------------------------
(* HostData *)

LEMMA SinceIs ==
  ASSUME host \in Nat, start \in Nat, NEW t \in Nat, start <= t, t <= host
  PROVE  LET gone == Since((t - start) % TickWrap)
         IN  /\ gone \in Nat /\ gone <= (host - t) \div 2
             /\ host - t < TickWrap => gone = (host - t) \div 2
<1> DEFINE w == (host - t) % TickWrap
<1>1. TickWrap \in Nat \ {0}
  BY Widths
<1>2. (((host - start) % TickWrap) - ((t - start) % TickWrap)) % TickWrap = w
  <2>1. (host - start) - (t - start) = host - t
    OBVIOUS
  <2>2. host - start \in Int /\ t - start \in Int
    OBVIOUS
  <2>3. QED
    BY <2>1, <2>2, <1>1, ModDifference
<1>3. Since((t - start) % TickWrap) = w \div 2
  BY <1>2 DEF Since, Tick
<1>4. host - t \in Nat
  OBVIOUS
<1>5. w \in Nat /\ w <= host - t /\ (host - t < TickWrap => w = host - t)
  <2>1. ASSUME NEW g \in Nat
        PROVE  g % TickWrap \in Nat /\ g % TickWrap <= g /\ (g < TickWrap => g % TickWrap = g)
    BY <1>1, ModIs, ModLess
  <2>2. QED
    BY <1>4, <2>1
<1> HIDE DEF w
<1>6. QED
  BY <1>3, <1>4, <1>5

\* A line is at most MaxDelay old; the host's time was received since the start, from
\* such a line; a wait has a stamp of when it was entered.
MailInv ==
  mail # <<>> =>
    \E left, says \in Nat, about \in {"time", "turn"} :
      /\ mail = <<[about |-> about, left |-> left, says |-> says]>>
      /\ 2 <= left /\ left <= host /\ host - left <= MaxDelay
      /\ about = "time" => says = Sec(left)

ClockInv ==
  \/ taken = 0 /\ clock = NoClock
  \/ /\ taken \in Nat /\ start <= taken /\ taken <= host
     /\ clock.stamp = (taken - start) % TickWrap
     /\ \E left \in Nat : /\ 2 <= left /\ left <= taken /\ taken - left <= MaxDelay
                          /\ clock.epoch = Sec(left)

TurnInv ==
  \/ entered = 0 /\ turn = NoTurn
  \/ /\ entered \in Nat /\ start <= entered /\ entered <= host
     /\ turn.waits = TRUE /\ turn.since \in Nat \ {0}
     /\ turn.stamp = (entered - start) % TickWrap

HostInv ==
  /\ host \in Nat /\ start \in Nat /\ 2 <= start /\ start <= host
  /\ asking \in Nat
  /\ MailInv /\ ClockInv /\ TurnInv

LEMMA HostStart == HostOff => HostInv
BY DEF HostOff, HostInv, MailInv, ClockInv, TurnInv

LEMMA HostStep ==
  ASSUME HostInv, HostNext \/ UNCHANGED <<host, asking, mail, start, clock, turn, taken, entered>>
  PROVE  HostInv'
<1> USE DEF HostInv
<1>1. CASE Passes
  <2>1. host' = host + 1 /\ UNCHANGED <<asking, mail, start, clock, turn, taken, entered>>
    BY <1>1 DEF Passes
  <2>2. MailInv'
    <3>1. CASE mail = <<>>
      BY <2>1, <3>1 DEF MailInv
    <3>2. CASE mail # <<>>
      <4>1. PICK left, says \in Nat, about \in {"time", "turn"} :
              /\ mail = <<[about |-> about, left |-> left, says |-> says]>>
              /\ 2 <= left /\ left <= host /\ host - left <= MaxDelay
              /\ about = "time" => says = Sec(left)
        BY <3>2 DEF MailInv
      <4>2. host - left < MaxDelay
        BY <1>1, <4>1 DEF Passes
      <4>3. left <= host' /\ host' - left <= MaxDelay
        BY <2>1, <4>1, <4>2, Widths
      <4>4. QED
        BY <2>1, <4>1, <4>3 DEF MailInv, Sec
    <3>3. QED
      BY <3>1, <3>2
  <2>3. ClockInv' /\ TurnInv'
    BY <2>1 DEF ClockInv, TurnInv, Sec
  <2>4. QED
    BY <2>1, <2>2, <2>3
<1>2. CASE AgentAsks
  BY <1>2 DEF AgentAsks, MailInv, ClockInv, TurnInv, Sec
<1>3. ASSUME NEW about \in {"time", "turn"}, Sends(about)
      PROVE  HostInv'
  <2>1. UNCHANGED <<host, asking, start, clock, turn, taken, entered>>
    BY <1>3 DEF Sends
  <2> DEFINE says == Sec(IF about = "time" THEN host ELSE asking)
  <2>2. mail' = <<[about |-> about, left |-> host, says |-> says]>>
    BY <1>3 DEF Sends
  <2>3. says \in Nat /\ (about = "time" => says = Sec(host))
    BY DEF Sec
  <2> HIDE DEF says
  <2>4. MailInv'
    BY <2>1, <2>2, <2>3, Widths DEF MailInv, Sec
  <2>5. QED
    BY <2>1, <2>4 DEF ClockInv, TurnInv, Sec
<1>4. CASE Restart
  BY <1>4 DEF Restart, MailInv, ClockInv, TurnInv
<1>5. CASE CmdTime
  <2>1. /\ taken' = host /\ mail' = <<>> /\ UNCHANGED <<host, asking, start, turn, entered>>
        /\ mail # <<>> /\ Head(mail).about = "time"
    BY <1>5 DEF CmdTime
  <2>2. PICK left, says \in Nat, about \in {"time", "turn"} :
          /\ mail = <<[about |-> about, left |-> left, says |-> says]>>
          /\ 2 <= left /\ left <= host /\ host - left <= MaxDelay
          /\ about = "time" => says = Sec(left)
    BY <2>1 DEF MailInv
  <2>3. clock' = [epoch |-> Sec(left), stamp |-> (host - start) % TickWrap]
    BY <1>5, <2>1, <2>2 DEF CmdTime, TakeTime, Tick
  <2>4. ClockInv'
    BY <2>1, <2>2, <2>3 DEF ClockInv, Sec
  <2>5. QED
    BY <2>1, <2>4 DEF MailInv, TurnInv
<1>6. CASE SetAwaiting
  <2>1. mail' = <<>> /\ mail # <<>> /\ UNCHANGED <<host, asking, start, clock, taken>>
    BY <1>6 DEF SetAwaiting
  <2>2. TurnInv'
    <3>1. CASE Head(mail).says = 0
      BY <1>6, <3>1 DEF SetAwaiting, TurnInv
    <3>2. CASE Head(mail).says # 0 /\ turn.waits
      <4>1. /\ turn' = [waits |-> TRUE, since |-> Head(mail).says, stamp |-> turn.stamp]
            /\ entered' = entered
        BY <1>6, <3>2 DEF SetAwaiting
      <4>2. Head(mail).says \in Nat
        BY <2>1 DEF MailInv
      <4>3. QED
        BY <2>1, <3>2, <4>1, <4>2 DEF TurnInv, NoTurn
    <3>3. CASE Head(mail).says # 0 /\ ~turn.waits
      <4>1. /\ turn' = [waits |-> TRUE, since |-> Head(mail).says, stamp |-> (host - start) % TickWrap]
            /\ entered' = host
        BY <1>6, <3>3 DEF SetAwaiting, Tick
      <4>2. Head(mail).says \in Nat
        BY <2>1 DEF MailInv
      <4>3. QED
        BY <2>1, <3>3, <4>1, <4>2 DEF TurnInv
    <3>4. QED
      BY <3>1, <3>2, <3>3
  <2>3. QED
    BY <2>1, <2>2 DEF MailInv, ClockInv, Sec
<1>7. CASE UNCHANGED <<host, asking, mail, start, clock, turn, taken, entered>>
  BY <1>7 DEF MailInv, ClockInv, TurnInv, Sec
<1>8. QED
  BY <1>1, <1>2, <1>3, <1>4, <1>5, <1>6, <1>7 DEF HostNext

LEMMA SecIs ==
  \A t \in Nat : Sec(t) \in Nat /\ 2 * Sec(t) <= t /\ t <= 2 * Sec(t) + 1
BY DEF Sec

\* What whole seconds lose over a line's delay and a time since.
LEMMA SecSum ==
  ASSUME NEW x \in Nat, NEW y \in Nat, NEW z \in Nat, NEW most \in Nat, y <= most
  PROVE  Sec(x + y + z) - (Sec(x) + Sec(z)) \in 0 .. Sec(most) + 1
<1>1. Sec(x) \in Nat /\ 2 * Sec(x) <= x /\ x <= 2 * Sec(x) + 1
  BY SecIs
<1>2. Sec(z) \in Nat /\ 2 * Sec(z) <= z /\ z <= 2 * Sec(z) + 1
  BY SecIs
<1>3. Sec(most) \in Nat /\ 2 * Sec(most) <= most /\ most <= 2 * Sec(most) + 1
  BY SecIs
<1>4. x + y + z \in Nat
  OBVIOUS
<1>5. Sec(x + y + z) \in Nat /\ 2 * Sec(x + y + z) <= x + y + z /\ x + y + z <= 2 * Sec(x + y + z) + 1
  BY <1>4, SecIs
<1>6. QED
  BY <1>1, <1>2, <1>3, <1>5

\* With a time received, and a counter that has not come round since, the clock on
\* the panel is behind the host's by no more than the line was and what whole seconds lose.
LEMMA ClockIs == HostInv => ClockRight
<1> SUFFICES ASSUME HostInv, Young PROVE Sec(host) - Reading \in 0 .. Lag
  BY DEF ClockRight
<1> USE DEF HostInv
<1>1. /\ taken \in Nat /\ start <= taken /\ taken <= host /\ host - taken < TickWrap
      /\ clock.stamp = (taken - start) % TickWrap
  BY DEF Young, ClockInv
<1>2. PICK left \in Nat : 2 <= left /\ left <= taken /\ taken - left <= MaxDelay /\ clock.epoch = Sec(left)
  BY DEF Young, ClockInv
<1>3. Reading = Sec(left) + Sec(host - taken)
  BY <1>1, <1>2, SinceIs DEF Reading, Sec
<1> HIDE DEF HostInv
<1>4. host \in Nat /\ host - taken \in Nat
  BY <1>1 DEF HostInv
<1>5. MaxDelay \in Nat
  BY Widths
<1>6. Lag = Sec(MaxDelay) + 1
  BY DEF Lag, Sec
<1> DEFINE delay == taken - left
           gone == host - taken
<1>7. delay \in Nat /\ gone \in Nat /\ delay <= MaxDelay /\ host = left + delay + gone
  BY <1>1, <1>2, <1>4
<1> HIDE DEF delay, gone
<1>8. Sec(left + delay + gone) - (Sec(left) + Sec(gone)) \in 0 .. Sec(MaxDelay) + 1
  BY <1>2, <1>5, <1>7, SecSum
<1>9. Reading = Sec(left) + Sec(gone)
  BY <1>3 DEF gone
<1>10. QED
  BY <1>6, <1>7, <1>8, <1>9

LEMMA WaitIs == HostInv => WaitRight
<1> SUFFICES ASSUME HostInv, turn.waits, Young, Sec(entered) >= turn.since
             PROVE  (Sec(host) - turn.since) - Elapsed \in 0 .. Lag
  BY DEF WaitRight
<1> USE DEF HostInv
<1>1. /\ entered \in Nat /\ start <= entered /\ entered <= host
      /\ turn.since \in Nat \ {0} /\ turn.stamp = (entered - start) % TickWrap
  BY DEF TurnInv, NoTurn
<1>2. Sec(host) - Reading \in 0 .. Lag
  BY ClockIs DEF ClockRight
<1>3. Reading \in Int /\ clock.epoch # 0
  <2>1. taken \in Nat /\ start <= taken /\ taken <= host /\ clock.stamp = (taken - start) % TickWrap
    BY DEF Young, ClockInv
  <2>2. PICK left \in Nat : 2 <= left /\ clock.epoch = Sec(left)
    BY DEF Young, ClockInv
  <2>3. QED
    BY <2>1, <2>2, SinceIs DEF Reading, Sec
<1>4. Since(turn.stamp) \in Nat /\ Since(turn.stamp) <= Sec(host - entered)
  BY <1>1, SinceIs DEF Sec
<1> HIDE DEF HostInv
<1>5. host \in Nat /\ Lag \in Nat
  BY Widths DEF HostInv, Lag
<1>6. Sec(host - entered) <= Sec(host) - Sec(entered)
  <2> DEFINE gone == host - entered
  <2>1. gone \in Nat /\ host = entered + 0 + gone
    BY <1>1, <1>5
  <2> HIDE DEF gone
  <2>2. Sec(entered + 0 + gone) - (Sec(entered) + Sec(gone)) \in 0 .. Sec(0) + 1
    BY <1>1, <2>1, SecSum
  <2>3. Sec(gone) \in Nat /\ Sec(entered) \in Nat /\ Sec(host) \in Nat
    BY <1>1, <1>5, <2>1, SecIs
  <2>4. Sec(gone) <= Sec(host) - Sec(entered)
    BY <2>1, <2>2, <2>3
  <2>5. QED
    BY <2>4 DEF gone
<1>7. Sec(host) \in Nat /\ Sec(entered) \in Nat /\ Sec(host - entered) \in Nat
  <2>1. host - entered \in Nat
    BY <1>1, <1>5
  <2>2. QED
    BY <1>1, <1>5, <2>1, SecIs
<1>8. CASE Reading >= turn.since
  <2>1. Elapsed = Reading - turn.since
    BY <1>1, <1>3, <1>8 DEF Elapsed
  <2>2. QED
    BY <1>1, <1>2, <1>3, <1>7, <2>1
<1>9. CASE ~(Reading >= turn.since)
  <2>1. Elapsed \in Nat /\ Elapsed <= Sec(host) - Sec(entered)
    <3>1. Elapsed = IF turn.stamp # 0 THEN Since(turn.stamp) ELSE 0
      BY <1>9 DEF Elapsed
    <3>2. QED
      BY <1>4, <1>6, <1>7, <3>1
  <2>2. QED
    BY <1>1, <1>2, <1>3, <1>5, <1>7, <1>9, <2>1
<1>10. QED
  BY <1>8, <1>9

LEMMA DeviceHost ==
  /\ DeviceInit => HostOff
  /\ [DeviceNext]_<<part, vars, keyVars, glow, deco, config, json, hostData, meters>>
       => HostNext \/ UNCHANGED <<host, asking, mail, start, clock, turn, taken, entered>>
<1>1. SkyNext => UNCHANGED <<host, asking, mail, start, clock, turn, taken, entered>>
  BY DEF SkyNext, CmdWeather
<1>2. QED
  BY <1>1 DEF DeviceInit, DeviceNext, Merging, Pressing, Glowing, Drawing, Configuring, Scanning,
              Telling, Metering, hostData

-----------------------------------------------------------------------------
(* HostData: the forecast *)

\* The objects of a report's list, and the place of the k-th of them.
Objects(words) == {i \in DOMAIN words.list : words.list[i] # 0}
NthDay(words, k) == CHOOSE i \in Objects(words) : Cardinality({j \in Objects(words) : j <= i}) = k

LEMMA ReadIs ==
  ASSUME NEW words
  PROVE  Read(words) =
    [k \in 1 .. (IF Cardinality(Objects(words)) < Days THEN Cardinality(Objects(words)) ELSE Days) |->
       <<words.of, words.list[NthDay(words, k)]>>]
BY DEF Read, Objects, NthDay

LEMMA ReadOf ==
  ASSUME NEW words, NEW n \in Nat,
         n = IF Cardinality(Objects(words)) < Days THEN Cardinality(Objects(words)) ELSE Days
  PROVE  Read(words) = [k \in 1 .. n |-> <<words.of, words.list[NthDay(words, k)]>>]
BY ReadIs, Zenon

LEMMA ReadFive ==
  ASSUME NEW words,
         5 = IF Cardinality(Objects(words)) < Days THEN Cardinality(Objects(words)) ELSE Days,
         \A k \in 1 .. 5 : words.list[NthDay(words, k)] = k
  PROVE  Read(words) = [i \in 1 .. Days |-> <<words.of, i>>]
<1> DEFINE day(k) == <<words.of, words.list[NthDay(words, k)]>>
<1>1. Read(words) = [k \in 1 .. 5 |-> day(k)]
  BY ReadOf
<1>2. \A k \in 1 .. 5 : day(k) = <<words.of, k>>
  OBVIOUS
<1> HIDE DEF day
<1>3. [k \in 1 .. 5 |-> day(k)] = [k \in 1 .. 5 |-> <<words.of, k>>]
  BY <1>2
<1> QED BY <1>1, <1>3 DEF Days

LEMMA CountUpTo == \A k \in Nat : IsFiniteSet(1 .. k) /\ Cardinality(1 .. k) = k
BY FS_Interval

\* Without a gap the k-th object is in the k-th place.
LEMMA NoGap ==
  ASSUME NEW words, NEW n \in Nat, Objects(words) = 1 .. n, NEW k \in 1 .. n
  PROVE  NthDay(words, k) = k
<1>1. \A i \in 1 .. n : Cardinality({j \in Objects(words) : j <= i}) = i
  <2> SUFFICES ASSUME NEW i \in 1 .. n PROVE Cardinality({j \in Objects(words) : j <= i}) = i
    OBVIOUS
  <2>1. {j \in Objects(words) : j <= i} = 1 .. i /\ i \in Nat
    OBVIOUS
  <2> QED BY <2>1, CountUpTo, Zenon
<1> QED BY <1>1 DEF NthDay

\* With its only gap in the third place the objects behind it are one place on.
LEMMA OneGap ==
  ASSUME NEW words, Objects(words) = (1 .. 6) \ {3}
  PROVE  /\ Cardinality(Objects(words)) = 5
         /\ \A k \in 1 .. 5 : NthDay(words, k) = IF k < 3 THEN k ELSE k + 1
<1>1. \A i \in (1 .. 6) \ {3} :
        Cardinality({j \in Objects(words) : j <= i}) = IF i < 3 THEN i ELSE i - 1
  <2> SUFFICES ASSUME NEW i \in (1 .. 6) \ {3}
               PROVE  Cardinality({j \in Objects(words) : j <= i}) = IF i < 3 THEN i ELSE i - 1
    OBVIOUS
  <2>1. CASE i < 3
    <3>1. {j \in Objects(words) : j <= i} = 1 .. i
      BY <2>1
    <3> QED BY <3>1, <2>1, CountUpTo
  <2>2. CASE i > 3
    <3>1. {j \in Objects(words) : j <= i} = (1 .. i) \ {3} /\ 3 \in 1 .. i /\ i \in Nat
      BY <2>2
    <3>2. IsFiniteSet(1 .. i) /\ Cardinality(1 .. i) = i
      BY <3>1, CountUpTo
    <3>3. Cardinality((1 .. i) \ {3}) = i - 1
      <4> DEFINE Span == 1 .. i
      <4>1. IsFiniteSet(Span) /\ Cardinality(Span) = i /\ 3 \in Span
        BY <3>1, <3>2
      <4> HIDE DEF Span
      <4>2. Cardinality(Span \ {3}) = i - 1
        BY <4>1, FS_RemoveElement
      <4> QED BY <4>2 DEF Span
    <3> QED BY <3>1, <3>3, <2>2
  <2> QED BY <2>1, <2>2
<1>2. Cardinality(Objects(words)) = 5
  <2> DEFINE Span == 1 .. 6
  <2>1. 3 \in Span /\ Objects(words) = Span \ {3} /\ 6 \in Nat
    OBVIOUS
  <2>2. IsFiniteSet(Span) /\ Cardinality(Span) = 6
    BY <2>1, CountUpTo, Zenon
  <2> HIDE DEF Span
  <2> QED BY <2>1, <2>2, FS_RemoveElement
<1>3. ASSUME NEW k \in 1 .. 5 PROVE NthDay(words, k) = IF k < 3 THEN k ELSE k + 1
  BY <1>1 DEF NthDay
<1> QED BY <1>2, <1>3

\* What is read of a report that is taken over: its five days, in order.
LEMMA ReadWhole ==
  ASSUME NEW words \in Reports, Len(Read(words)) = Days
  PROVE  Read(words) = [i \in 1 .. Days |-> <<words.of, i>>]
<1>1. words.list \in Lists
  BY DEF Reports
<1>2. CASE words.list = <<1, 2, 3, 4, 5>>
  <2>1. Objects(words) = 1 .. 5 /\ \A i \in 1 .. 5 : words.list[i] = i
    BY <1>2 DEF Objects
  <2>2. Cardinality(Objects(words)) = 5
    BY <2>1, CountUpTo
  <2>3. \A k \in 1 .. 5 : NthDay(words, k) = k
    BY <2>1, NoGap
  <2> QED BY <2>1, <2>2, <2>3, ReadFive DEF Days
<1>3. CASE words.list = <<1, 2, 3, 4, 5, 6>>
  <2>1. Objects(words) = 1 .. 6 /\ \A i \in 1 .. 6 : words.list[i] = i
    BY <1>3 DEF Objects
  <2>2. Cardinality(Objects(words)) = 6
    BY <2>1, CountUpTo
  <2>3. \A k \in 1 .. 6 : NthDay(words, k) = k
    BY <2>1, NoGap
  <2>4. \A k \in 1 .. 5 : words.list[NthDay(words, k)] = k
    BY <2>1, <2>3
  <2>5. 5 = IF Cardinality(Objects(words)) < Days THEN Cardinality(Objects(words)) ELSE Days
    BY <2>2 DEF Days
  <2> QED BY <2>4, <2>5, ReadFive
<1>4. CASE words.list = <<1, 2, 0, 3, 4, 5>>
  <2>1. Objects(words) = (1 .. 6) \ {3}
    BY <1>4 DEF Objects
  <2>2. \A k \in 1 .. 5 : words.list[IF k < 3 THEN k ELSE k + 1] = k
    BY <1>4
  <2>3. /\ 5 = IF Cardinality(Objects(words)) < Days THEN Cardinality(Objects(words)) ELSE Days
        /\ \A k \in 1 .. 5 : words.list[NthDay(words, k)] = k
    BY <2>1, <2>2, OneGap DEF Days
  <2> QED BY <2>3, ReadFive, Zenon
<1>5. CASE words.list = <<1, 2, 3, 4>>
  <2>1. Objects(words) = 1 .. 4
    BY <1>5 DEF Objects
  <2>2. Cardinality(Objects(words)) = 4
    BY <2>1, CountUpTo
  <2>3. Read(words) = [k \in 1 .. 4 |-> <<words.of, words.list[NthDay(words, k)]>>]
    <3>1. 4 = IF Cardinality(Objects(words)) < Days THEN Cardinality(Objects(words)) ELSE Days
      BY <2>2 DEF Days
    <3> QED BY <3>1, ReadOf
  <2> DEFINE S == {<<words.of, words.list[NthDay(words, k)]>> : k \in 1 .. 4}
  <2>4. Read(words) \in [1 .. 4 -> S]
    BY <2>3
  <2> HIDE DEF S
  <2>5. Read(words) \in Seq(S) /\ DOMAIN Read(words) = 1 .. 4
    BY <2>4, SeqDef
  <2>6. DOMAIN Read(words) = 1 .. Len(Read(words)) /\ Len(Read(words)) \in Nat
    BY <2>5, LenProperties
  <2>7. 1 .. Len(Read(words)) = 1 .. 4
    BY <2>5, <2>6, Zenon
  <2>8. Len(Read(words)) = 4
    BY <2>6, <2>7, CountUpTo, 4 \in Nat, Zenon
  <2> QED BY <2>8 DEF Days
<1> QED BY <1>1, <1>2, <1>3, <1>4, <1>5 DEF Lists

LEMMA SkyStep ==
  ForecastWhole /\ SkyNext => ForecastWhole'
<1> SUFFICES ASSUME ForecastWhole, NEW words \in Reports, CmdWeather(words) PROVE ForecastWhole'
  BY DEF SkyNext
<1>1. CASE words.figures /\ Len(Read(words)) = Days
  BY <1>1, ReadWhole DEF CmdWeather, ForecastWhole
<1>2. CASE ~(words.figures /\ Len(Read(words)) = Days)
  BY <1>2 DEF CmdWeather, ForecastWhole
<1> QED BY <1>1, <1>2

LEMMA DeviceSky ==
  /\ DeviceInit => ForecastWhole
  /\ ForecastWhole /\ [DeviceNext]_<<part, vars, keyVars, glow, deco, config, json, hostData, meters>>
       => ForecastWhole'
<1>1. (sky = NoSky => ForecastWhole) /\ (sky' = NoSky => ForecastWhole')
  <2>1. ~NoSky.valid
    BY Zenon DEF NoSky
  <2> QED BY <2>1, Zenon DEF ForecastWhole
<1>2. DeviceInit => sky = NoSky
  BY DEF DeviceInit, HostOff
<1>3. [DeviceNext]_<<part, vars, keyVars, glow, deco, config, json, hostData, meters>>
        => SkyNext \/ sky' = NoSky \/ sky' = sky
  <2>1. Passes \/ AgentAsks \/ Restart \/ CmdTime \/ SetAwaiting => sky' = NoSky \/ sky' = sky
    BY DEF Passes, AgentAsks, Restart, CmdTime, TakeTime, SetAwaiting
  <2>2. ASSUME NEW about \in {"time", "turn"}, Sends(about) PROVE sky' = sky
    BY <2>2 DEF Sends
  <2>3. HostNext => sky' = NoSky \/ sky' = sky
    BY <2>1, <2>2 DEF HostNext
  <2> QED
    BY <2>3 DEF DeviceNext, Merging, Pressing, Glowing, Drawing, Configuring, Scanning, Telling,
                Metering, hostData
<1>4. ForecastWhole /\ sky' = sky => ForecastWhole'
  BY DEF ForecastWhole
<1> QED
  BY <1>1, <1>2, <1>3, <1>4, SkyStep

\* The time on the panel is the host's but for the lag of a line and of whole seconds,
\* and the length of a wait is the host's too, for every width of the panel's counter
\* and every delay below it, whenever the panel restarts and whichever line comes first;
\* and a forecast on the panel is one report's, whole and in order.
THEOREM HostIsBelieved == DeviceSpec => []AsTheHostSays
<1>1. DeviceInit => HostInv /\ ForecastWhole
  BY DeviceHost, DeviceSky, HostStart
<1>2. HostInv /\ ForecastWhole
        /\ [DeviceNext]_<<part, vars, keyVars, glow, deco, config, json, hostData, meters>>
        => HostInv' /\ ForecastWhole'
  BY DeviceHost, DeviceSky, HostStep
<1>3. HostInv /\ ForecastWhole => AsTheHostSays
  BY ClockIs, WaitIs DEF AsTheHostSays
<1>4. QED
  BY <1>1, <1>2, <1>3, PTL DEF DeviceSpec

-----------------------------------------------------------------------------
(* GlowInk: the rings *)

LEMMA SinesAre ==
  /\ \A k \in 1 .. 91 : Sines[k] \in 0 .. 99
  /\ Sines[1] = 0 /\ Sines[2] = 1 /\ Sines[73] = 95
  /\ \A k \in 4 .. 11 : Sines[k] >= 5
<1>1. \A k \in 1 .. 91 : Sines[k] \in 0 .. 99
  BY SMTT(60) DEF Sines
<1>2. Sines[1] = 0
  BY DEF Sines
<1>3. Sines[2] = 1
  BY DEF Sines
<1>4. Sines[73] = 95
  BY DEF Sines
<1>5. \A k \in 4 .. 11 : Sines[k] >= 5
  BY DEF Sines
<1>6. QED
  BY <1>1, <1>2, <1>3, <1>4, <1>5

LEMMA WaveIs ==
  ASSUME NEW phase \in Nat
  PROVE  LET deg == (phase % 3600) \div 10
         IN  /\ Wave(phase) \in -99 .. 99
             /\ deg <= 90 => Wave(phase) = Sines[1 + deg] /\ Wave(phase) >= 0
<1> DEFINE deg == (phase % 3600) \div 10
           place == IF deg % 180 <= 90 THEN deg % 180 ELSE 180 - (deg % 180)
<1>1. deg \in 0 .. 359
  OBVIOUS
<1>2. place \in 0 .. 90 /\ (deg <= 90 => place = deg)
  <2> HIDE DEF deg
  <2>1. QED
    BY <1>1
<1>3. Wave(phase) = IF deg < 180 THEN Sines[1 + place] ELSE -Sines[1 + place]
  BY DEF Wave
<1> HIDE DEF place, deg
<1>4. 1 + place \in 1 .. 91
  BY <1>2
<1>5. Sines[1 + place] \in 0 .. 99
  BY <1>4, SinesAre
<1>6. Wave(phase) \in -99 .. 99 /\ (deg <= 90 => Wave(phase) = Sines[1 + deg] /\ Wave(phase) >= 0)
  BY <1>1, <1>2, <1>3, <1>5
<1>7. QED
  BY <1>6 DEF deg

\* Sets of numbers with a largest one.
HasMost(S) == S \subseteq Int /\ \E m \in S : \A y \in S : y <= m

LEMMA MostIs ==
  ASSUME NEW S, HasMost(S)
  PROVE  Largest(S) \in S /\ Largest(S) \in Int /\ \A y \in S : y <= Largest(S)
BY DEF HasMost, Largest

LEMMA MostJoins ==
  ASSUME NEW S, HasMost(S), NEW x \in Int, NEW T \in {{}, {x}}
  PROVE  HasMost(S \union T)
<1>1. PICK m \in S : \A y \in S : y <= m
  BY DEF HasMost
<1>2. S \subseteq Int
  BY DEF HasMost
<1>3. CASE T = {}
  BY <1>3, <1>1, <1>2 DEF HasMost
<1>4. CASE T = {x}
  <2>1. CASE x <= m
    BY <1>1, <1>2, <1>4, <2>1 DEF HasMost
  <2>2. CASE m <= x
    <3>1. \A y \in S \union {x} : y <= x
      BY <1>1, <1>2, <2>2
    <3>2. QED
      BY <1>2, <1>4, <3>1 DEF HasMost
  <2>3. QED
    BY <1>1, <1>2, <2>1, <2>2
<1>5. QED
  BY <1>3, <1>4

LEMMA PairHasMost ==
  ASSUME NEW x \in Int, NEW y \in Int, NEW z \in Int
  PROVE  HasMost({x}) /\ HasMost({x, y}) /\ HasMost({x, y, z})
<1>1. HasMost({x})
  BY DEF HasMost
<1>2. HasMost({x} \union {y})
  BY <1>1, MostJoins
<1>3. HasMost(({x} \union {y}) \union {z})
  BY <1>2, MostJoins
<1>4. {x} \union {y} = {x, y} /\ ({x} \union {y}) \union {z} = {x, y, z}
  OBVIOUS
<1>5. QED
  BY <1>1, <1>2, <1>3, <1>4

LEMMA RingsHaveMost ==
  ASSUME NEW T \in SUBSET Rings, NEW f, \A i \in T : f[i] \in Int
  PROVE  HasMost({0} \union {f[i] : i \in T})
<1> DEFINE F(i) == {f[j] : j \in T \intersect {i}}
           All == ((((({0} \union F(0)) \union F(1)) \union F(2)) \union F(3)) \union F(4))
<1>1. ASSUME NEW S, HasMost(S), NEW i \in Rings
      PROVE  HasMost(S \union F(i))
  <2>1. CASE i \in T
    <3>1. F(i) = {f[i]} /\ f[i] \in Int
      BY <2>1
    <3>2. QED
      BY <1>1, <3>1, MostJoins
  <2>2. CASE i \notin T
    <3>1. F(i) = {} /\ 0 \in Int
      BY <2>2
    <3>2. QED
      BY <1>1, <3>1, MostJoins
  <2>3. QED
    BY <2>1, <2>2
<1>2. HasMost({0})
  BY PairHasMost
<1>3. {0} \union {f[i] : i \in T} = All
  BY DEF Rings
<1> HIDE DEF F
<1> USE DEF Rings
<1>4. HasMost({0} \union F(0))
  BY <1>2, <1>1, 0 \in Rings, Zenon
<1>5. HasMost(({0} \union F(0)) \union F(1))
  BY <1>4, <1>1, 1 \in Rings, Zenon
<1>6. HasMost((({0} \union F(0)) \union F(1)) \union F(2))
  BY <1>5, <1>1, 2 \in Rings, Zenon
<1>7. HasMost(((({0} \union F(0)) \union F(1)) \union F(2)) \union F(3))
  BY <1>6, <1>1, 3 \in Rings, Zenon
<1>8. HasMost(All)
  BY <1>7, <1>1, 4 \in Rings, Zenon
<1>9. QED
  BY <1>3, <1>8

\* Where a ring of a ping stands: its place, pushed outward by no more than
\* MaxExpand, and no further in than its width and its shift; and only the outermost
\* ring, in the first moments, can have its sides off the panel.
LEMMA PingRingIs ==
  ASSUME NEW t \in 0 .. 1000, NEW i \in Rings
  PROVE  LET r == PingRing(t, i)
         IN  /\ r.inset \in i * 8 - 8 .. i * 8
             /\ r.width \in {7, 11} /\ r.disp \in 0 .. 5
             /\ r.inset + r.width + r.disp <= 0 => i = 0 /\ t <= 12
<1> DEFINE angle == Part(t, 36, 100) + Phase(i) * 2
           r == PingRing(t, i)
<1> USE DEF Rings
<1>1. /\ r.inset = i * 8 - Expand(t)
      /\ r.width = IF Defocus(t, i) > 500 THEN 11 ELSE 7
      /\ r.disp = Largest({Shift(t, angle), Shift(t, angle + 900)})
  BY DEF PingRing, Step, Width, MaxBlur
<1>2. Expand(t) \in 0 .. 8 /\ (Expand(t) >= 7 => t <= 12 \/ t >= 900)
  BY DEF Expand, Part, MaxExpand
<1>3. t >= 900 => Defocus(t, 0) > 500
  BY DEF Defocus, Part, Clip
<1>4. SpreadAmp(t) \in 0 .. 5
  <2>1. CASE t < 250
    <3>1. Part(900, t, 250) \in 0 .. 899
      BY <2>1 DEF Part
    <3> DEFINE phase == Part(900, t, 250)
    <3>0. phase \in Nat /\ (phase % 3600) \div 10 <= 90
      BY <3>1
    <3> HIDE DEF phase
    <3>2. Wave(phase) \in -99 .. 99 /\ Wave(phase) >= 0
      BY <3>0, WaveIs
    <3>3. Wave(phase) \in 0 .. 99
      BY <3>2
    <3> USE DEF phase
    <3>4. QED
      BY <2>1, <3>3 DEF SpreadAmp, Part, MaxDisp
  <2>2. CASE t >= 250
    BY <2>2 DEF SpreadAmp, MaxDisp
  <2>3. QED
    BY <2>1, <2>2
<1>5. ASSUME NEW turned \in Nat
      PROVE  Shift(t, turned) \in 0 .. 5
  <2>1. Size(Wave(turned)) \in 0 .. 99
    BY WaveIs DEF Size
  <2> DEFINE a == SpreadAmp(t)
             w == Size(Wave(turned))
  <2>2. a \in {0, 1, 2, 3, 4, 5}
    BY <1>4
  <2>3. Shift(t, turned) = (a * w) \div 100
    BY DEF Shift, Part
  <2> HIDE DEF a, w
  <2>4. w \in 0 .. 99
    BY <2>1 DEF w
  <2>5. QED
    BY <2>2, <2>3, <2>4
<1>6. angle \in Nat
  BY DEF Part, Phase
<1> HIDE DEF angle
<1>7. r.disp \in 0 .. 5
  <2>1. Shift(t, angle) \in 0 .. 5 /\ Shift(t, angle + 900) \in 0 .. 5
    BY <1>5, <1>6
  <2>2. HasMost({Shift(t, angle), Shift(t, angle + 900)})
    <3> DEFINE x == Shift(t, angle)
               y == Shift(t, angle + 900)
    <3>1. x \in Int /\ y \in Int
      BY <2>1
    <3> HIDE DEF x, y
    <3>2. HasMost({x, y})
      BY <3>1, PairHasMost
    <3>3. QED
      BY <3>2 DEF x, y
  <2>3. QED
    BY <1>1, <2>1, <2>2, MostIs
<1> HIDE DEF r
<1>8. r.inset + r.width + r.disp <= 0 => i = 0 /\ t <= 12
  <2>1. r.inset + r.width + r.disp <= 0 => i = 0 /\ Expand(t) >= 7 /\ r.width = 7
    BY <1>1, <1>2, <1>7
  <2>2. QED
    BY <1>1, <1>2, <1>3, <2>1
<1>9. QED
  BY <1>1, <1>2, <1>7, <1>8 DEF r

\* In the first moments the outermost ring is not lit before the next one is, but for
\* one of them.
LEMMA FirstMoments ==
  ASSUME NEW t \in 0 .. 12, t # 3, PingRing(t, 0).opa >= Floor
  PROVE  PingRing(t, 1).opa >= Floor
<1>1. Gain(t) = Wave(9 * t) * 10
  BY DEF Gain
<1>2. (9 * t) % 3600 = 9 * t
  OBVIOUS
<1> DEFINE deg == (9 * t) \div 10
<1>3. deg \in 0 .. 10 /\ (t < 3 => deg \in 0 .. 1) /\ (t > 3 => deg >= 3)
  OBVIOUS
<1>4. Wave(9 * t) = Sines[1 + deg]
  BY <1>2, <1>3, WaveIs
<1> HIDE DEF deg
<1>5. Defocus(t, 0) = 0 /\ Defocus(t, 1) = 0
  BY DEF Defocus, Part, Clip
<1>6. ASSUME t < 3 PROVE FALSE
  <2>1. Gain(t) \in 0 .. 10
    BY <1>1, <1>3, <1>4, <1>6, SinesAre
  <2> DEFINE full == Part(Part(Key.peak, Gain(t), 1000), Part(255 - 0 * 32, 255 - 0 * 32, 255), 255)
             swung == Part(full, 100 + Swing(t, 0), 100)
  <2>2. full \in 0 .. 2
    BY <2>1 DEF Part, Key
  <2>3. Swing(t, 0) \in -30 .. 30
    <3>1. Part(t, 72, 100) + Phase(0) \in Nat
      BY DEF Part, Phase
    <3>2. QED
      BY <3>1, WaveIs DEF Swing, Part
  <2> HIDE DEF full
  <2>4. swung \in 0 .. 2
    <3>1. full \in {0, 1, 2}
      BY <2>2
    <3>2. QED
      BY <2>3, <3>1 DEF Part
  <2>5. PingRing(t, 0).opa = Lit(Key, 0, Part(swung, 1000, 1000 + (0 \div 2)))
    BY <1>5 DEF PingRing, full
  <2> HIDE DEF swung
  <2>6. PingRing(t, 0).opa \in 0 .. 2
    BY <2>4, <2>5 DEF Lit, Part, Clip, Key
  <2>7. QED
    BY <2>6 DEF Floor
<1>7. CASE t > 3
  <2>1. Gain(t) \in 50 .. 990
    <3>1. 1 + deg \in 4 .. 11
      BY <1>3, <1>7
    <3>2. Sines[1 + deg] \in 5 .. 99
      BY <3>1, SinesAre
    <3>3. QED
      BY <1>1, <1>4, <3>2
  <2> DEFINE full == Part(Part(Key.peak, Gain(t), 1000), Part(255 - 1 * 32, 255 - 1 * 32, 255), 255)
             swung == Part(full, 100 + Swing(t, 1), 100)
  <2>2. full \in Nat /\ full >= 7
    BY <2>1 DEF Part, Key
  <2>3. Swing(t, 1) = 28
    <3>1. Part(t, 72, 100) + Phase(1) \in 720 .. 729
      BY DEF Part, Phase
    <3>2. ((Part(t, 72, 100) + Phase(1)) % 3600) \div 10 = 72
      BY <3>1
    <3>3. Wave(Part(t, 72, 100) + Phase(1)) = 95
      BY <3>1, <3>2, WaveIs, SinesAre
    <3>4. QED
      BY <3>3 DEF Swing, Part
  <2> HIDE DEF full
  <2>4. swung \in Nat /\ swung >= 8
    BY <2>2, <2>3 DEF Part
  <2>5. PingRing(t, 1).opa = Lit(Key, 1, Part(swung, 1000, 1000 + (0 \div 2)))
    BY <1>5 DEF PingRing, full
  <2> HIDE DEF swung
  <2>6. PingRing(t, 1).opa \in Int /\ PingRing(t, 1).opa >= 8
    BY <2>4, <2>5 DEF Lit, Part, Clip, Key
  <2>7. QED
    BY <2>6 DEF Floor
<1>8. t < 3 \/ t > 3
  OBVIOUS
<1>9. QED
  BY <1>8, <1>6, <1>7

LEMMA RingOfPing ==
  ASSUME NEW t, NEW i
  PROVE  RingOf(Ping(t), i) = PingRing(t, i)
<1>1. Ping(t)[1] = "ping" /\ Ping(t)[2] = t /\ Dark[1] = "dark"
  BY DEF Ping, Dark
<1>2. QED
  BY <1>1 DEF RingOf

LEMMA SeenRingIs ==
  ASSUME NEW x \in Inks, NEW i \in Seen(x)
  PROVE  LET r == RingOf(x, i)
         IN  /\ i \in Rings
             /\ r.inset \in i * 8 - 8 .. i * 8
             /\ r.width \in {7, 11} /\ r.disp \in 0 .. 5
<1>1. i \in Rings /\ RingOf(x, i).opa >= Floor
  BY DEF Seen
<1>2. CASE x[1] = "ping"
  <2>1. PICK t \in 0 .. 1000 : x = Ping(t)
    BY <1>2 DEF Inks, Dark
  <2>2. RingOf(x, i) = PingRing(t, i)
    BY <2>1, RingOfPing
  <2> DEFINE r == PingRing(t, i)
  <2>3. r.inset \in i * 8 - 8 .. i * 8 /\ r.width \in {7, 11} /\ r.disp \in 0 .. 5
    BY <1>1, PingRingIs
  <2> HIDE DEF r
  <2>4. RingOf(x, i) = r
    BY <2>2 DEF r
  <2>5. QED
    BY <1>1, <2>3, <2>4
<1>3. CASE x = Dark
  BY <1>1, <1>3 DEF RingOf, Dark, DarkRing, Floor
<1>4. CASE x[1] # "ping" /\ x # Dark
  <2>1. RingOf(x, i) = StatusRing(i)
    BY <1>4 DEF RingOf
  <2>2. /\ StatusRing(i).inset \in i * 8 - 8 .. i * 8
        /\ StatusRing(i).width = 7 /\ StatusRing(i).disp = 0
    BY <1>1 DEF StatusRing, Step, Width, Rings
  <2>3. QED
    BY <1>1, <2>1, <2>2
<1>5. QED
  BY <1>2, <1>3, <1>4

\* Where there is ink in a corner there is ink along the sides, but for that moment.
LEMMA SidesToo ==
  ASSUME NEW x \in Inks, x # Ping(3), Seen(x) # {}
  PROVE  \E i \in Seen(x) : RingOf(x, i).inset + RingOf(x, i).width + RingOf(x, i).disp >= 1
<1> DEFINE side(i) == RingOf(x, i).inset + RingOf(x, i).width + RingOf(x, i).disp
<1>1. PICK i \in Seen(x) : TRUE
  OBVIOUS
<1>2. i \in Rings /\ side(i) \in Int
  BY SeenRingIs DEF Rings
<1>3. CASE side(i) >= 1
  BY <1>3
<1>4. CASE side(i) <= 0
  <2>1. CASE x[1] = "ping"
    <3>1. PICK t \in 0 .. 1000 : x = Ping(t)
      BY <2>1 DEF Inks, Dark
    <3>2. \A j \in Rings : RingOf(x, j) = PingRing(t, j)
      BY <3>1, RingOfPing
    <3>3. i = 0 /\ t \in 0 .. 12 /\ t # 3
      <4>1. i = 0 /\ t <= 12
        BY <1>2, <1>4, <3>2, PingRingIs
      <4>2. QED
        BY <4>1, <3>1
    <3>4. 1 \in Rings
      BY DEF Rings
    <3>5. 1 \in Seen(x)
      BY <3>2, <3>3, <3>4, FirstMoments DEF Seen
    <3>6. side(1) >= 1
      <4>1. side(1) \in Int
        BY <3>5, SeenRingIs
      <4>2. side(1) = PingRing(t, 1).inset + PingRing(t, 1).width + PingRing(t, 1).disp
        BY <3>2, <3>4
      <4>3. ~(PingRing(t, 1).inset + PingRing(t, 1).width + PingRing(t, 1).disp <= 0)
        <5>1. PingRing(t, 1).inset + PingRing(t, 1).width + PingRing(t, 1).disp <= 0 => 1 = 0
          BY <3>4, PingRingIs, Zenon
        <5>2. QED
          BY <5>1
      <4> HIDE DEF side
      <4>4. ~(side(1) <= 0)
        BY <4>2, <4>3
      <4>5. QED
        BY <4>1, <4>4
    <3>7. QED
      BY <3>5, <3>6
  <2>2. CASE x = Dark
    BY <1>1, <2>2 DEF Seen, RingOf, Dark, DarkRing, Floor
  <2>3. CASE x[1] # "ping" /\ x # Dark
    <3>1. RingOf(x, i) = StatusRing(i)
      BY <2>3 DEF RingOf
    <3>2. StatusRing(i).inset = i * 8 /\ StatusRing(i).width = 7 /\ StatusRing(i).disp = 0
      BY DEF StatusRing, Step, Width
    <3>3. QED
      BY <1>2, <1>4, <3>1, <3>2 DEF Rings
  <2>4. QED
    BY <2>1, <2>2, <2>3
<1>5. QED
  BY <1>2, <1>3, <1>4

\* A corner's arc of a ring no deeper than the strip's measure is within the strip.
LEMMA CornerInBand ==
  ASSUME NEW most \in 1 .. 48, NEW i \in Rings, NEW r,
         r.inset \in i * 8 - 8 .. i * 8, r.width \in {7, 11}, r.disp \in 0 .. 5,
         r.inset + r.width + r.disp <= most
  PROVE  /\ Reach(r, i) \in Nat
         /\ Reach(r, i) <= 1000 * (Radius - Part(Clip(Radius - most, 0, Radius), 707, 1000) + 6)
<1> DEFINE w == r.width
           p == r.disp
           side == 1000 * (r.inset + w + p)
           arc == 1000 * (r.inset + 76 - i * 8 + p) - 707 * (76 - i * 8 - w)
           band == 1000 * (76 - ((76 - most) * 707) \div 1000 + 6)
<1>1. Reach(r, i) = Largest({side, arc, 0})
  BY DEF Reach, Radius, Step
<1>2. Radius - Part(Clip(Radius - most, 0, Radius), 707, 1000) + 6 = 76 - ((76 - most) * 707) \div 1000 + 6
  BY DEF Radius, Part, Clip
<1>3. band >= 28268 + 707 * most
  OBVIOUS
<1>4. side \in Int /\ side <= band
  BY <1>3 DEF Rings
<1>5. arc \in Int /\ arc <= band
  <2>1. arc <= 28268 + 707 * (r.inset + w + p)
    BY DEF Rings
  <2>2. QED
    BY <1>3, <2>1 DEF Rings
<1>6. band \in Nat
  OBVIOUS
<1> HIDE DEF side, arc, band
<1>7. Largest({side, arc, 0}) \in {side, arc, 0} /\ Largest({side, arc, 0}) >= 0 /\ Largest({side, arc, 0}) \in Int
  <2>1. 0 \in Int
    OBVIOUS
  <2>2. HasMost({side, arc, 0})
    BY <1>4, <1>5, <2>1, PairHasMost, Zenon
  <2>3. QED
    BY <2>2, MostIs, Zenon
<1>8. Largest({side, arc, 0}) <= band
  BY <1>4, <1>5, <1>6, <1>7
<1>9. QED
  BY <1>1, <1>2, <1>7, <1>8 DEF band

\* ink_band: the strips hold the ink.
LEMMA BandHolds ==
  ASSUME NEW x \in Inks
  PROVE  /\ Depth[x] \in Nat /\ Band[x] \in Nat
         /\ x # Ping(3) => Depth[x] <= 1000 * Band[x]
         /\ Seen(x) = {} => Depth[x] = 0
<1> DEFINE end == [i \in Seen(x) |-> RingOf(x, i).inset + RingOf(x, i).width + RingOf(x, i).disp]
           reach == [i \in Seen(x) |-> Reach(RingOf(x, i), i)]
           D == Deepest(x)
<1>1. Seen(x) \subseteq Rings
  BY DEF Seen
<1>2. \A i \in Seen(x) : end[i] \in -8 .. 48
  <2> TAKE i \in Seen(x)
  <2>1. RingOf(x, i).inset \in i * 8 - 8 .. i * 8
    BY SeenRingIs
  <2>2. RingOf(x, i).width \in {7, 11} /\ RingOf(x, i).disp \in 0 .. 5 /\ i \in 0 .. 4
    BY <1>1, SeenRingIs DEF Rings
  <2>3. QED
    BY <2>1, <2>2
<1>3. D = Largest({0} \union {end[i] : i \in Seen(x)})
  BY DEF Deepest
<1>4. HasMost({0} \union {end[i] : i \in Seen(x)})
  <2>1. \A i \in Seen(x) : end[i] \in Int
    BY <1>2
  <2> HIDE DEF end
  <2>2. QED
    BY <1>1, <2>1, RingsHaveMost
<1>5. D \in 0 .. 48 /\ \A i \in Seen(x) : end[i] <= D
  BY <1>2, <1>3, <1>4, MostIs
<1>6. Depth[x] = Largest({0} \union {reach[i] : i \in Seen(x)})
  BY DEF Depth
<1>7. Band[x] = IF D = 0 THEN 0 ELSE Radius - Part(Clip(Radius - D, 0, Radius), 707, 1000) + 6
  BY DEF Band
<1>8. Band[x] \in Nat
  BY <1>5, <1>7 DEF Radius, Part, Clip
<1> HIDE DEF D, reach
<1>9. ASSUME NEW i \in Seen(x)
      PROVE  reach[i] \in Nat /\ (D >= 1 => reach[i] <= 1000 * Band[x])
  <2>1. RingOf(x, i).inset \in i * 8 - 8 .. i * 8
    BY SeenRingIs
  <2>2. RingOf(x, i).width \in {7, 11} /\ RingOf(x, i).disp \in 0 .. 5 /\ i \in Rings
    BY SeenRingIs
  <2> DEFINE r == RingOf(x, i)
  <2>3. r.inset + r.width + r.disp <= D /\ r.inset + r.width + r.disp <= 48
    BY <1>2, <1>5
  <2>4. reach[i] = Reach(r, i)
    BY DEF reach
  <2>5. r.inset \in i * 8 - 8 .. i * 8 /\ r.width \in {7, 11} /\ r.disp \in 0 .. 5
    BY <2>1, <2>2
  <2> HIDE DEF r, end
  <2>7. Reach(r, i) \in Nat
    <3>1. 48 \in 1 .. 48
      OBVIOUS
    <3>2. QED
      BY <2>2, <2>3, <2>5, <3>1, CornerInBand
  <2>8. ASSUME D >= 1 PROVE Reach(r, i) <= 1000 * Band[x]
    <3>1. D \in 1 .. 48
      BY <1>5, <2>8
    <3>2. Reach(r, i) <= 1000 * (Radius - Part(Clip(Radius - D, 0, Radius), 707, 1000) + 6)
      BY <2>2, <2>3, <2>5, <3>1, CornerInBand
    <3>3. QED
      BY <1>7, <2>8, <3>1, <3>2
  <2>9. QED
    BY <2>4, <2>7, <2>8
<1>10. HasMost({0} \union {reach[i] : i \in Seen(x)})
  <2>1. \A i \in Seen(x) : reach[i] \in Int
    BY <1>9
  <2>2. QED
    BY <1>1, <2>1, RingsHaveMost
<1>11. Depth[x] \in Nat /\ Depth[x] \in {0} \union {reach[i] : i \in Seen(x)}
  <2> DEFINE S == {0} \union {reach[i] : i \in Seen(x)}
  <2>1. Depth[x] \in S
    BY <1>6, <1>10, MostIs, Zenon
  <2>2. S \subseteq Nat
    BY <1>9
  <2>3. QED
    BY <2>1, <2>2
<1>12. x # Ping(3) => Depth[x] <= 1000 * Band[x]
  <2> SUFFICES ASSUME x # Ping(3) PROVE Depth[x] <= 1000 * Band[x]
    OBVIOUS
  <2>1. CASE Depth[x] = 0
    BY <1>8, <2>1
  <2>2. CASE Depth[x] # 0
    <3>1. PICK i \in Seen(x) : Depth[x] = reach[i]
      BY <1>11, <2>2
    <3>2. PICK j \in Seen(x) : end[j] >= 1
      BY <3>1, SidesToo
    <3>3. D >= 1
      BY <1>2, <1>5, <3>2
    <3>4. QED
      BY <1>9, <3>1, <3>3
  <2>3. QED
    BY <2>1, <2>2
<1>13. QED
  BY <1>8, <1>11, <1>12

\* What is on the panel and what is drawn are inks, the band kept is that of the
\* drawn one, and the strips hold both.
InkInv ==
  /\ ink \in Inks \ {Ping(3)} /\ panel \in Inks \ {Ping(3)}
  /\ lastBand = Band[ink] /\ dirty \in Nat
  /\ InkErased

LEMMA InksAre ==
  /\ Dark \in Inks \ {Ping(3)}
  /\ \A light \in {"amber", "red"} : <<light, 0>> \in Inks \ {Ping(3)}
  /\ \A t \in 0 .. 1000 : t # 3 => Ping(t) \in Inks \ {Ping(3)}
<1>1. Dark \in Inks /\ \A light \in {"amber", "red"} : <<light, 0>> \in Inks
  BY DEF Inks
<1>2. \A t \in 0 .. 1000 : Ping(t) \in Inks
  BY DEF Inks
<1>3. Ping(3)[1] = "ping" /\ Dark[1] = "dark" /\ \A light \in {"amber", "red"} : <<light, 0>>[1] = light
  BY DEF Ping, Dark
<1>4. \A t \in 0 .. 1000 : t # 3 => Ping(t) # Ping(3)
  <2> SUFFICES ASSUME NEW t \in 0 .. 1000, Ping(t) = Ping(3)
               PROVE  t = 3
    OBVIOUS
  <2>1. Ping(t)[2] = t /\ Ping(3)[2] = 3
    BY DEF Ping
  <2> QED BY <2>1
<1>5. Dark # Ping(3) /\ \A light \in {"amber", "red"} : <<light, 0>> # Ping(3)
  BY <1>3
<1> QED BY <1>1, <1>2, <1>4, <1>5

LEMMA DarkIs == Seen(Dark) = {} /\ Depth[Dark] = 0 /\ Band[Dark] = 0
<1>1. Seen(Dark) = {}
  BY DEF Seen, RingOf, Dark, DarkRing, Floor
<1>2. Deepest(Dark) = Largest({0})
  <2>1. Deepest(Dark) = Largest({0} \union {LET r == RingOf(Dark, i) IN r.inset + r.width + r.disp : i \in {}})
    BY <1>1 DEF Deepest
  <2>2. QED
    BY <2>1
<1>3. Largest({0}) = 0
  BY DEF Largest
<1>4. QED
  BY <1>1, <1>2, <1>3, InksAre, BandHolds DEF Band

LEMMA ShowKeeps ==
  ASSUME InkInv, NEW x \in Inks \ {Ping(3)}, Show(x)
  PROVE  InkInv'
<1> USE DEF InkInv
<1>1. ink' = x /\ lastBand' = Band[x] /\ panel' = panel /\ dirty' = Largest({dirty, Band[x], lastBand})
  BY DEF Show
<1>2. Band[x] \in Nat /\ Depth[x] \in Nat /\ Depth[x] <= 1000 * Band[x]
  BY BandHolds
<1>3. Band[ink] \in Nat /\ Depth[ink] \in Nat /\ Depth[ink] <= 1000 * Band[ink] /\ Depth[panel] \in Nat
  BY BandHolds
<1>4. dirty' \in Nat /\ dirty' >= dirty /\ dirty' >= Band[x] /\ dirty' >= Band[ink]
  <2> DEFINE a == Band[x]
             b == Band[ink]
             S == {dirty, a, b}
  <2>1. a \in Nat /\ b \in Nat /\ dirty \in Nat
    BY <1>2, <1>3
  <2>2. dirty' = Largest(S)
    BY <1>1
  <2> HIDE DEF a, b
  <2>3. HasMost(S)
    <3>1. dirty \in Int /\ a \in Int /\ b \in Int
      BY <2>1
    <3>2. QED
      BY <3>1, PairHasMost, Zenon
  <2>4. Largest(S) \in S /\ \A y \in S : y <= Largest(S)
    BY <2>3, MostIs, Zenon
  <2>5. dirty' \in Nat /\ dirty' >= dirty /\ dirty' >= a /\ dirty' >= b
    BY <2>1, <2>2, <2>4
  <2>6. QED
    BY <2>5 DEF a, b
<1>5. Depth[panel] <= 1000 * dirty'
  <2>1. CASE panel = ink
    BY <1>3, <1>4, <2>1
  <2>2. CASE panel # ink
    BY <1>3, <1>4, <2>2 DEF InkErased
  <2>3. QED
    BY <2>1, <2>2
<1>6. Depth[x] <= 1000 * dirty'
  BY <1>2, <1>4
<1>7. InkErased'
  BY <1>1, <1>5, <1>6 DEF InkErased
<1>8. QED
  BY <1>1, <1>4, <1>7

LEMMA InkStart == GlowInit => InkInv
BY DarkIs, InksAre DEF GlowInit, InkInv, InkErased

LEMMA InkStep ==
  ASSUME InkInv, 3 \notin Frozen, GlowNext \/ UNCHANGED glow,
         sustain \in {"none", "amber", "red"}
  PROVE  InkInv' /\ sustain' \in {"none", "amber", "red"}
<1> DEFINE Lights == {"none", "amber", "red"}
<1>1. Rest \in Inks \ {Ping(3)}
  BY InksAre DEF Rest
<1>2. ASSUME UNCHANGED <<ink, dirty, lastBand, panel>>
      PROVE  InkInv'
  BY <1>2 DEF InkInv, InkErased
<1>3. CASE StartPing
  <2>1. Ping(0) \in Inks \ {Ping(3)}
    BY InksAre
  <2>2. QED
    BY <1>3, <2>1, ShowKeeps DEF StartPing
<1>4. CASE PlayOn
  <2>1. PICK b \in Beats :
          IF ink[2] + b < 1000 THEN Show(Ping(ink[2] + b)) /\ UNCHANGED playing
                               ELSE Show(Rest) /\ playing' = FALSE
    BY <1>4 DEF PlayOn
  <2>2. ink[2] \in Nat
    BY DEF InkInv, Inks, Ping, Dark
  <2>3. b \in Nat /\ b >= 9
    BY Moments
  <2> DEFINE t == ink[2] + b
  <2>4. CASE t < 1000
    <3>1. t \in 0 .. 1000
      <4>1. t \in Nat
        BY <2>2, <2>3
      <4> HIDE DEF t
      <4>2. QED
        BY <2>4, <4>1
    <3>2. t # 3
      BY <2>2, <2>3
    <3>3. Ping(t) \in Inks \ {Ping(3)}
      BY <3>1, <3>2, InksAre
    <3>4. QED
      BY <1>4, <2>1, <2>4, <3>3, ShowKeeps DEF PlayOn
  <2>5. CASE ~(t < 1000)
    BY <1>1, <1>4, <2>1, <2>5, ShowKeeps DEF PlayOn
  <2>6. QED
    BY <2>4, <2>5
<1>5. ASSUME NEW light \in {"amber", "red"}, SustainOn(light)
      PROVE  InkInv' /\ sustain' \in Lights
  <2>1. <<light, 0>> \in Inks \ {Ping(3)}
    BY InksAre
  <2>2. QED
    BY <1>2, <1>5, <2>1, ShowKeeps DEF SustainOn
<1>6. CASE SustainClear
  BY <1>2, <1>6, InksAre, ShowKeeps DEF SustainClear
<1>7. ASSUME NEW t \in Frozen, Freeze(t)
      PROVE  InkInv' /\ sustain' \in Lights
  <2>1. Ping(t) \in Inks \ {Ping(3)}
    BY Moments, InksAre
  <2>2. QED
    BY <1>7, <2>1, ShowKeeps DEF Freeze
<1>8. CASE Unfreeze
  BY <1>1, <1>8, ShowKeeps DEF Unfreeze
<1>9. CASE Frame
  BY <1>9 DEF Frame, InkInv, InkErased
<1>10. CASE UNCHANGED glow
  BY <1>2, <1>10 DEF glow
<1>11. QED
  BY <1>3, <1>4, <1>5, <1>6, <1>7, <1>8, <1>9, <1>10 DEF GlowNext

LEMMA DeviceGlow ==
  /\ DeviceInit => GlowInit
  /\ [DeviceNext]_<<part, vars, keyVars, glow, deco, config, json, hostData, meters>>
       => GlowNext \/ UNCHANGED glow
BY DEF DeviceInit, DeviceNext, Merging, Pressing, Glowing, Drawing, Configuring, Scanning,
       Telling, Metering

\* The strips the next frame draws hold all the ink on the panel and all that comes
\* (ink_band, invalidate_bands), at every moment of a ping, whatever lights follow each
\* other between two frames: but for a ping frozen at its third thousandth, whose one
\* ring has only corners.
THEOREM InkIsErased ==
  ASSUME 3 \notin Frozen
  PROVE  DeviceSpec => []InkErased
<1> DEFINE Inv == InkInv /\ sustain \in {"none", "amber", "red"}
<1>1. DeviceInit => Inv
  BY DeviceGlow, InkStart DEF GlowInit
<1>2. Inv /\ [DeviceNext]_<<part, vars, keyVars, glow, deco, config, json, hostData, meters>>
        => Inv'
  BY DeviceGlow, InkStep
<1>3. Inv => InkErased
  BY DEF InkInv
<1>4. QED
  BY <1>1, <1>2, <1>3, PTL DEF DeviceSpec

-----------------------------------------------------------------------------
(* AgentSlots: induction over the agents of a snapshot *)

\* The numbers are what 0 and the successor reach: a set closed under both, but for some
\* k, would map 0 .. k without it into itself less k, which the pigeonhole excludes.
LEMMA NatSetInduction ==
  ASSUME NEW T \in SUBSET Nat, 0 \in T, \A n \in T : n + 1 \in T
  PROVE  T = Nat
<1> SUFFICES ASSUME NEW k \in Nat \ T PROVE FALSE
  OBVIOUS
<1> DEFINE U == (0 .. k) \ T
           D == U \ {k}
           down == [i \in U |-> i - 1]
<1>1. IsFiniteSet(U) /\ k \in U /\ IsFiniteSet(D) /\ Cardinality(D) = Cardinality(U) - 1
      /\ Cardinality(U) \in Nat
  <2>1. IsFiniteSet(U)
    <3>1. IsFiniteSet(0 .. k) BY FS_Interval
    <3> QED BY <3>1, FS_Subset
  <2>2. k \in U OBVIOUS
  <2> HIDE DEF U
  <2> QED BY <2>1, <2>2, FS_RemoveElement, FS_CardinalityType
<1>2. down \in [U -> D]
  <2> SUFFICES ASSUME NEW i \in U PROVE i - 1 \in D
    OBVIOUS
  <2>1. i # 0 /\ i \in Nat OBVIOUS
  <2>2. i - 1 \in Nat /\ (i - 1) + 1 = i BY <2>1
  <2> QED BY <2>1, <2>2
<1>3. \A i, j \in U : i # j => down[i] # down[j]
  OBVIOUS
<1> HIDE DEF U, D, down
<1>4. Cardinality(D) < Cardinality(U) BY <1>1
<1>5. \E x, y \in U : x # y /\ down[x] = down[y]
  BY <1>1, <1>2, <1>4, FS_PigeonHole
<1> QED BY <1>3, <1>5

\* The table before the first agent of a snapshot.
Unmerged == [slots |-> slots, marked |-> marked, pushed |-> FALSE]

\* Some function is what merging the first n agents one after the other makes.
LEMMA MergesExist ==
  ASSUME NEW q, NEW m \in Nat
  PROVE  \E u : u = [n \in 0 .. m |-> IF n = 0 THEN Unmerged ELSE Merge(u[n - 1], q[n])]
<1> DEFINE By(u, j) == u = [n \in 0 .. j |-> IF n = 0 THEN Unmerged ELSE Merge(u[n - 1], q[n])]
           T == {k \in Nat : \E u : By(u, k)}
<1>1. 0 \in T
  <2> DEFINE u == [n \in 0 .. 0 |-> Unmerged]
  <2>1. By(u, 0)
    OBVIOUS
  <2> QED BY <2>1
<1>2. ASSUME NEW k \in T PROVE k + 1 \in T
  <2>1. PICK u : By(u, k)
    OBVIOUS
  <2> DEFINE v == [n \in 0 .. k + 1 |-> IF n = k + 1 THEN Merge(u[k], q[n]) ELSE u[n]]
  <2>2. ASSUME NEW n \in 0 .. k + 1
        PROVE  v[n] = IF n = 0 THEN Unmerged ELSE Merge(v[n - 1], q[n])
    <3>1. CASE n = k + 1
      <4>1. n - 1 \in 0 .. k + 1 /\ n - 1 # k + 1 /\ n # 0 /\ n - 1 = k
        BY <3>1
      <4>2. v[n - 1] = u[k]
        BY <4>1
      <4> QED BY <4>1, <4>2, <3>1
    <3>2. CASE n = 0
      <4>1. v[n] = u[0] /\ 0 \in 0 .. k
        BY <3>2
      <4> QED BY <4>1, <3>2, <2>1
    <3>3. CASE n # 0 /\ n # k + 1
      <4>1. /\ n \in 0 .. k /\ n - 1 \in 0 .. k /\ n - 1 # k + 1
            /\ n - 1 \in 0 .. k + 1
        BY <3>3
      <4>2. v[n] = u[n] /\ v[n - 1] = u[n - 1]
        BY <4>1, <3>3
      <4>3. u[n] = Merge(u[n - 1], q[n])
        BY <4>1, <3>3, <2>1
      <4> QED BY <4>2, <4>3, <3>3
    <3> QED BY <3>1, <3>2, <3>3
  <2>3. v = [n \in 0 .. k + 1 |-> v[n]]
    OBVIOUS
  <2> HIDE DEF v
  <2>4. By(v, k + 1)
    BY <2>2, <2>3
  <2> QED BY <2>4
<1>3. T = Nat
  <2>1. T \in SUBSET Nat
    OBVIOUS
  <2> HIDE DEF T
  <2> QED BY <2>1, <1>1, <1>2, NatSetInduction
<1> QED BY <1>3

\* What holds before the first merge and is kept by each, with what number the agent has,
\* holds after the last.
LEMMA MergesKeep ==
  ASSUME NEW q, Len(q) \in Nat, NEW G, <<0, Unmerged>> \in G,
         \A n \in 1 .. Len(q) : \A st : <<n - 1, st>> \in G => <<n, Merge(st, q[n])>> \in G
  PROVE  <<Len(q), Merged(q)>> \in G
<1> DEFINE By(u) == u = [n \in 0 .. Len(q) |-> IF n = 0 THEN Unmerged ELSE Merge(u[n - 1], q[n])]
           upTo == CHOOSE u : By(u)
           T == {n \in Nat : n <= Len(q) => <<n, upTo[n]>> \in G}
<1>1. By(upTo)
  <2>1. \E u : By(u)
    BY MergesExist
  <2> QED BY <2>1
<1>2. Merged(q) = upTo[Len(q)]
  BY DEF Merged, Unmerged
<1> HIDE DEF upTo
<1>3. 0 \in T
  BY <1>1
<1>4. ASSUME NEW n \in T PROVE n + 1 \in T
  <2> SUFFICES ASSUME n + 1 <= Len(q) PROVE <<n + 1, upTo[n + 1]>> \in G
    OBVIOUS
  <2>1. n + 1 \in 1 .. Len(q) /\ (n + 1) - 1 = n /\ n + 1 # 0 /\ n + 1 \in 0 .. Len(q)
    OBVIOUS
  <2>2. <<n, upTo[n]>> \in G
    BY <2>1
  <2>3. upTo[n + 1] = Merge(upTo[n], q[n + 1])
    BY <2>1, <1>1
  <2>4. <<n + 1, Merge(upTo[n], q[n + 1])>> \in G
    BY <2>1, <2>2
  <2> QED BY <2>3, <2>4
<1>5. T = Nat
  <2>1. T \in SUBSET Nat
    OBVIOUS
  <2> HIDE DEF T
  <2> QED BY <2>1, <1>3, <1>4, NatSetInduction
<1>6. Len(q) \in T
  BY <1>5
<1> QED BY <1>2, <1>6

-----------------------------------------------------------------------------
(* AgentSlots: tables *)

LEMMA LowestIs ==
  ASSUME NEW S \in SUBSET Nat, S # {}
  PROVE  Lowest(S) \in S /\ \A j \in S : Lowest(S) <= j
<1>1. \E i \in S : \A j \in S : i <= j
  <2> SUFFICES ASSUME \A i \in S : \E j \in S : ~(i <= j) PROVE FALSE
    OBVIOUS
  <2> DEFINE T == {n \in Nat : \A k \in S : n <= k}
  <2>1. 0 \in T
    OBVIOUS
  <2>2. ASSUME NEW n \in T PROVE n + 1 \in T
    <3>1. n \notin S
      OBVIOUS
    <3>2. \A k \in S : n <= k /\ n # k /\ k \in Nat
      BY <3>1
    <3>3. \A k \in S : n + 1 <= k
      BY <3>2
    <3> QED BY <3>3
  <2>3. T = Nat
    <3>1. T \in SUBSET Nat
      OBVIOUS
    <3> HIDE DEF T
    <3> QED BY <3>1, <2>1, <2>2, NatSetInduction
  <2>4. PICK k \in S : TRUE
    OBVIOUS
  <2>5. k + 1 \in T
    BY <2>3
  <2> QED BY <2>4, <2>5
<1> QED BY <1>1 DEF Lowest

\* Who sends, as the wire has it: a session's kind is its own; and an agent of a snapshot.
IsSender(a) ==
  /\ a.sid \in Sids \union {NoSid} /\ a.kind \in Kinds
  /\ a.sid # NoSid => a.kind = KindOf(a.sid)

Agent ==
  {a \in [sid : Sids \union {NoSid}, kind : Kinds, awaiting : Waits, entries : {"none", "some"}] :
     IsSender(a)}

\* A slot in use, with waits up to a rank, and a table of such.
Row(top) ==
  {s \in [sid : Sids \union {NoSid}, kind : Kinds, awaiting : Waits, since : 0 .. top,
          entries : {"none", "some"}] :
     /\ s.sid # NoSid => s.kind = KindOf(s.sid)
     /\ s.awaiting = "none" <=> s.since = 0}

Table(top) == [Index -> {Free} \union Row(top)]

\* No agent is in two slots, and a slot without a session is the only one of its kind.
Apart(t) == \A i, j \in Used(t) : Matches(t[i], t[j]) => i = j

LEMMA FreeIsNoRow == \A top : Free \notin Row(top)
BY DEF Free, Row, Kinds

LEMMA UsedIs ==
  ASSUME NEW top, NEW t \in Table(top)
  PROVE  /\ Used(t) \in SUBSET Index
         /\ \A i \in Used(t) : t[i] \in Row(top)
         /\ \A i \in Index : i \notin Used(t) => t[i] = Free
BY FreeIsNoRow DEF Used, Table

LEMMA Acquired ==
  ASSUME NEW t, NEW a
  PROVE  \/ /\ Acquire(t, a) \in Used(t)
            /\ Matches(t[Acquire(t, a)], a)
         \/ /\ Acquire(t, a) \in Index \ Used(t)
            /\ \A j \in Used(t) : ~Matches(t[j], a)
         \/ /\ Acquire(t, a) = 0 /\ Used(t) = Index
            /\ \A j \in Used(t) : ~Matches(t[j], a)
<1> DEFINE hits == {i \in Used(t) : Matches(t[i], a)}
           free == Index \ Used(t)
<1>1. hits \in SUBSET Nat /\ free \in SUBSET Nat
  BY DEF Used, Index
<1>2. CASE hits # {}
  <2>1. Acquire(t, a) = Lowest(hits)
    BY <1>2 DEF Acquire
  <2>2. Lowest(hits) \in hits
    <3> HIDE DEF hits
    <3> QED BY <1>1, <1>2, LowestIs
  <2> QED BY <2>1, <2>2
<1>3. CASE hits = {} /\ free # {}
  <2>1. Acquire(t, a) = Lowest(free)
    BY <1>3 DEF Acquire
  <2>2. Lowest(free) \in free
    <3> HIDE DEF free
    <3> QED BY <1>1, <1>3, LowestIs
  <2> QED BY <2>1, <2>2, <1>3
<1>4. CASE hits = {} /\ free = {}
  <2>1. Acquire(t, a) = 0
    BY <1>4 DEF Acquire
  <2>2. Used(t) = Index
    BY <1>4 DEF Used
  <2> QED BY <2>1, <2>2, <1>4
<1> QED BY <1>2, <1>3, <1>4

LEMMA HeldIs ==
  ASSUME NEW top \in Nat, NEW t \in Table(top), NEW a, IsSender(a), Acquire(t, a) # 0
  PROVE  LET i == Acquire(t, a) IN
         /\ i \in Index
         /\ Held(t, i, a) \in Row(top)
         /\ Held(t, i, a).kind = a.kind
         /\ i \in Used(t) => Held(t, i, a) = t[i]
         /\ i \notin Used(t) => Held(t, i, a).sid = a.sid /\ Held(t, i, a).awaiting = "none"
         /\ a.sid # NoSid /\ Held(t, i, a).sid # NoSid => Held(t, i, a).sid = a.sid
<1> DEFINE i == Acquire(t, a)
<1>1. CASE i \in Used(t) /\ Matches(t[i], a)
  <2>1. i \in Index /\ t[i] \in Row(top) /\ t[i] # Free
    BY <1>1, UsedIs DEF Used
  <2>2. Held(t, i, a) = t[i]
    BY <2>1 DEF Held
  <2>3. t[i].kind = a.kind /\ (a.sid # NoSid /\ t[i].sid # NoSid => t[i].sid = a.sid)
    <3> DEFINE s == t[i]
    <3>1. s \in Row(top) /\ Matches(s, a)
      BY <1>1, <2>1
    <3> HIDE DEF s
    <3>2. s.kind = a.kind /\ (a.sid # NoSid /\ s.sid # NoSid => s.sid = a.sid)
      BY <3>1 DEF Matches, Row, IsSender
    <3> QED BY <3>2 DEF s
  <2> QED BY <1>1, <2>1, <2>2, <2>3
<1>2. CASE i \in Index \ Used(t)
  <2>1. t[i] = Free
    BY <1>2, UsedIs
  <2>2. Held(t, i, a) = [Free EXCEPT !.kind = a.kind, !.sid = a.sid]
    BY <2>1 DEF Held, Fresh
  <2>3. Held(t, i, a) = [sid |-> a.sid, kind |-> a.kind, awaiting |-> "none", since |-> 0, entries |-> "none"]
    BY <2>2 DEF Free
  <2>4. Held(t, i, a) \in Row(top)
    BY <2>3 DEF Row, IsSender, Waits
  <2> QED BY <1>2, <2>3, <2>4
<1> QED BY <1>1, <1>2, Acquired

LEMMA MatchesBoth ==
  ASSUME NEW s, NEW a
  PROVE  Matches(s, a) <=> Matches(a, s)
BY DEF Matches

\* The slot an agent is given, filled for it, leaves the table apart.
LEMMA Placing ==
  ASSUME NEW top \in Nat, NEW t \in Table(top), Apart(t), NEW a, IsSender(a),
         Acquire(t, a) # 0, NEW new \in Row(top), new.kind = a.kind,
         \/ new.sid = Held(t, Acquire(t, a), a).sid
         \/ a.sid # NoSid /\ new.sid = a.sid
  PROVE  LET i == Acquire(t, a)
             t2 == [t EXCEPT ![i] = new]
         IN  /\ t2 \in Table(top) /\ Apart(t2)
             /\ Used(t2) = Used(t) \union {i}
             /\ \A j \in Used(t) : t[j].sid # NoSid => t2[j].sid = t[j].sid
<1> DEFINE i == Acquire(t, a)
           t2 == [t EXCEPT ![i] = new]
<1>1. i \in Index
  BY HeldIs
<1>2. t2 \in Table(top)
  <2> HIDE DEF i
  <2> QED BY <1>1 DEF Table
<1>3. t2[i] = new /\ (\A j \in Index : j # i => t2[j] = t[j])
  <2> HIDE DEF i
  <2> QED BY <1>1 DEF Table
<1>4. Used(t2) = Used(t) \union {i}
  <2>1. new # Free
    BY FreeIsNoRow
  <2> HIDE DEF i, t2
  <2> QED BY <1>1, <1>3, <2>1 DEF Used
<1>5. ASSUME NEW j \in Used(t), j # i
      PROVE  ~Matches(t[j], new)
  <2>1. j \in Index /\ t[j] \in Row(top)
    BY UsedIs
  <2>2. CASE i \in Used(t) /\ Matches(t[i], a)
    <3>1. ~Matches(t[j], t[i]) /\ t[i] \in Row(top) /\ Held(t, i, a) = t[i]
      BY <1>5, <2>2, HeldIs, UsedIs DEF Apart
    <3> DEFINE s == t[j]
               old == t[i]
    <3>2. /\ s \in Row(top) /\ old \in Row(top) /\ ~Matches(s, old) /\ old.kind = a.kind
          /\ a.sid # NoSid /\ old.sid # NoSid => old.sid = a.sid
          /\ new.sid = old.sid \/ (a.sid # NoSid /\ new.sid = a.sid)
      BY <2>1, <3>1, HeldIs
    <3> HIDE DEF s, old
    <3>3. ~Matches(s, new)
      BY <3>2 DEF Matches, Row, IsSender
    <3> QED BY <3>3 DEF s
  <2>3. CASE ~Matches(t[j], a) /\ i \in Index \ Used(t)
    <3>1. new.sid = a.sid
      BY <2>3, HeldIs
    <3> DEFINE s == t[j]
    <3> HIDE DEF s
    <3>2. ~Matches(s, a) => ~Matches(s, new)
      BY <3>1 DEF Matches
    <3> QED BY <2>3, <3>2 DEF s
  <2> QED BY <2>2, <2>3, Acquired
<1>6. Apart(t2)
  <2> SUFFICES ASSUME NEW j \in Used(t2), NEW k \in Used(t2), Matches(t2[j], t2[k])
               PROVE  j = k
    BY DEF Apart
  <2> HIDE DEF i, t2
  <2>1. CASE j # i /\ k # i
    <3>1. j \in Used(t) /\ k \in Used(t) /\ t2[j] = t[j] /\ t2[k] = t[k]
      BY <2>1, <1>3, <1>4, UsedIs
    <3> QED BY <3>1 DEF Apart
  <2>2. CASE j # i /\ k = i
    <3>1. j \in Used(t) /\ t2[j] = t[j] /\ t2[k] = new
      BY <2>2, <1>3, <1>4, UsedIs
    <3> QED BY <3>1, <2>2, <1>5
  <2>3. CASE j = i /\ k # i
    <3>1. k \in Used(t) /\ t2[k] = t[k] /\ t2[j] = new
      BY <2>3, <1>3, <1>4, UsedIs
    <3> QED BY <3>1, <2>3, <1>5, MatchesBoth
  <2> QED BY <2>1, <2>2, <2>3
<1>7. ASSUME NEW j \in Used(t), t[j].sid # NoSid PROVE t2[j].sid = t[j].sid
  <2>1. CASE j # i
    BY <2>1, <1>3, UsedIs
  <2>2. CASE j = i
    <3>1. new.sid = t[i].sid \/ (a.sid # NoSid /\ new.sid = a.sid)
      BY <2>2, HeldIs
    <3>2. a.sid # NoSid => t[i].sid = a.sid
      BY <2>2, <1>7, HeldIs
    <3> QED BY <3>1, <3>2, <2>2, <1>3
  <2> QED BY <2>1, <2>2
<1> QED BY <1>2, <1>4, <1>6, <1>7

\* What the table can be while a snapshot is merged: the waits it begins have the rank
\* M + 1 until the ranks are made anew.
Stages == [slots : Table(M + 1), marked : SUBSET Index, pushed : BOOLEAN]

\* What merging an agent makes of the slot it is given.
FilledFor(t, a) ==
  LET old == Held(t, Acquire(t, a), a)
  IN  [Wait(old, a.awaiting) EXCEPT
         !.kind = a.kind,
         !.sid = IF a.sid = NoSid THEN old.sid ELSE a.sid,
         !.entries = IF a.entries = "some" THEN "some" ELSE old.entries]

LEMMA RowFilled ==
  ASSUME NEW t \in Table(M + 1), NEW a \in Agent, Acquire(t, a) # 0
  PROVE  LET old == Held(t, Acquire(t, a), a)
             new == FilledFor(t, a)
         IN  /\ new \in Row(M + 1) /\ new.kind = a.kind
             /\ new.sid = IF a.sid = NoSid THEN old.sid ELSE a.sid
             /\ new.awaiting = a.awaiting
             /\ a.awaiting = old.awaiting /\ a.awaiting # "none" => new.since = old.since
<1> DEFINE old == Held(t, Acquire(t, a), a)
           new == FilledFor(t, a)
<1>1. M \in Nat /\ M + 1 \in Nat
  BY SlotMax
<1>2. old \in Row(M + 1) /\ old.kind = a.kind /\ IsSender(a)
  BY <1>1, HeldIs DEF Agent
<1>3. a.sid # NoSid /\ old.sid # NoSid => old.sid = a.sid
  BY <1>1, <1>2, HeldIs
<1>4. new = [sid |-> IF a.sid = NoSid THEN old.sid ELSE a.sid, kind |-> a.kind,
             awaiting |-> a.awaiting,
             since |-> IF a.awaiting = "none" THEN 0
                       ELSE IF a.awaiting = old.awaiting THEN old.since ELSE M + 1,
             entries |-> IF a.entries = "some" THEN "some" ELSE old.entries]
  <2> HIDE DEF old
  <2> DEFINE since == IF a.awaiting = "none" THEN 0
                      ELSE IF a.awaiting = old.awaiting THEN old.since ELSE M + 1
             waits == [sid |-> old.sid, kind |-> old.kind, awaiting |-> a.awaiting,
                       since |-> since, entries |-> old.entries]
  <2>1. old = [sid |-> old.sid, kind |-> old.kind, awaiting |-> old.awaiting,
               since |-> old.since, entries |-> old.entries]
    BY <1>2 DEF Row
  <2>2. Wait(old, a.awaiting) = [old EXCEPT !.awaiting = a.awaiting, !.since = since]
    BY DEF Wait, Now
  <2>3. Wait(old, a.awaiting) = waits
    <3> HIDE DEF since
    <3> QED BY <2>1, <2>2
  <2>4. new = [waits EXCEPT !.kind = a.kind,
                            !.sid = IF a.sid = NoSid THEN old.sid ELSE a.sid,
                            !.entries = IF a.entries = "some" THEN "some" ELSE old.entries]
    <3> HIDE DEF waits
    <3> QED BY <2>3 DEF FilledFor, old
  <2> DEFINE sid == IF a.sid = NoSid THEN old.sid ELSE a.sid
             entries == IF a.entries = "some" THEN "some" ELSE old.entries
  <2>5. new = [waits EXCEPT !.kind = a.kind, !.sid = sid, !.entries = entries]
    BY <2>4
  <2> HIDE DEF since, sid, entries
  <2>6. new = [sid |-> sid, kind |-> a.kind, awaiting |-> a.awaiting, since |-> since,
               entries |-> entries]
    <3> HIDE DEF new
    <3> QED BY <2>5
  <2> QED BY <2>6 DEF sid, entries, since
<1> HIDE DEF old, new
<1>5. new \in Row(M + 1)
  BY <1>1, <1>2, <1>4 DEF Row, Agent, IsSender
<1>6. new.kind = a.kind /\ new.sid = (IF a.sid = NoSid THEN old.sid ELSE a.sid)
      /\ new.awaiting = a.awaiting
  BY <1>4
<1>7. a.awaiting = old.awaiting /\ a.awaiting # "none" => new.since = old.since
  BY <1>4
<1> QED BY <1>5, <1>6, <1>7 DEF old, new

LEMMA MergeIs ==
  ASSUME NEW st \in Stages, Apart(st.slots), st.marked \subseteq Used(st.slots), NEW a \in Agent
  PROVE  LET t == st.slots
             i == Acquire(t, a)
             next == Merge(st, a)
             t2 == next.slots
         IN  /\ next \in Stages /\ Apart(t2) /\ next.marked \subseteq Used(t2)
             /\ st.marked \subseteq next.marked
             /\ i = 0 => next = st
             /\ i # 0 =>
                  /\ i \in Index
                  /\ Used(t2) = Used(t) \union {i}
                  /\ next.marked = st.marked \union {i}
                  /\ \A j \in Index : j # i => t2[j] = t[j]
                  /\ t2[i] = FilledFor(t, a)
             /\ \A j \in Used(t) : j \in Used(t2) /\ (t[j].sid # NoSid => t2[j].sid = t[j].sid)
<1> DEFINE t == st.slots
           i == Acquire(t, a)
<1>0. t \in Table(M + 1) /\ M + 1 \in Nat /\ st.marked \in SUBSET Index /\ st.pushed \in BOOLEAN
      /\ IsSender(a)
  BY SlotMax DEF Stages, Agent
<1>1. CASE i = 0
  BY <1>1, <1>0 DEF Merge
<1>2. CASE i # 0
  <2> DEFINE t2 == [t EXCEPT ![i] = FilledFor(t, a)]
  <2>1. Merge(st, a) = [slots |-> t2, marked |-> st.marked \union {i},
                        pushed |-> (st.pushed \/ a.entries = "some")]
    BY <1>2 DEF Merge, FilledFor
  <2>2. i \in Index
    BY <1>0, <1>2, HeldIs
  <2>3. /\ t2 \in Table(M + 1) /\ Apart(t2)
        /\ Used(t2) = Used(t) \union {i}
        /\ \A j \in Used(t) : t[j].sid # NoSid => t2[j].sid = t[j].sid
    <3>1. LET old == Held(t, i, a)
              new == FilledFor(t, a)
          IN  /\ new \in Row(M + 1) /\ new.kind = a.kind
              /\ new.sid = IF a.sid = NoSid THEN old.sid ELSE a.sid
      BY <1>0, <1>2, RowFilled
    <3>2. LET new == FilledFor(t, a)
          IN new.sid = Held(t, i, a).sid \/ (a.sid # NoSid /\ new.sid = a.sid)
      BY <3>1
    <3> DEFINE new == FilledFor(t, a)
    <3>3. /\ Apart(t) /\ new \in Row(M + 1) /\ new.kind = a.kind
          /\ new.sid = Held(t, Acquire(t, a), a).sid \/ (a.sid # NoSid /\ new.sid = a.sid)
      BY <3>1, <3>2
    <3> HIDE DEF t, new
    <3>4. LET u == [t EXCEPT ![Acquire(t, a)] = new]
          IN  /\ u \in Table(M + 1) /\ Apart(u)
              /\ Used(u) = Used(t) \union {Acquire(t, a)}
              /\ \A j \in Used(t) : t[j].sid # NoSid => u[j].sid = t[j].sid
      BY <1>0, <1>2, <3>3, Placing
    <3> QED BY <3>4 DEF new
  <2>4. t2[i] = FilledFor(t, a) /\ \A j \in Index : j # i => t2[j] = t[j]
    <3> HIDE DEF i
    <3> QED BY <2>2, <1>0 DEF Table
  <2>5. Merge(st, a) \in Stages
    <3>1. st.marked \union {i} \in SUBSET Index
      BY <1>0, <2>2
    <3> HIDE DEF t2, i
    <3> QED BY <2>1, <2>3, <3>1, <1>0 DEF Stages
  <2>6. Merge(st, a).slots = t2 /\ Merge(st, a).marked = st.marked \union {i}
    BY <2>1
  <2> HIDE DEF t2
  <2> QED BY <1>2, <2>2, <2>3, <2>4, <2>5, <2>6
<1> QED BY <1>1, <1>2

LEMMA PruneIs ==
  ASSUME NEW st \in Stages, Apart(st.slots), st.marked \subseteq Used(st.slots)
  PROVE  LET t == Prune(st).slots
         IN  /\ t \in Table(M + 1) /\ Apart(t) /\ Used(t) = st.marked
             /\ \A i \in st.marked : t[i] = st.slots[i]
             /\ Prune(st).marked = {}
<1> DEFINE t == [i \in Index |-> IF i \in st.marked THEN st.slots[i] ELSE Free]
<1>1. Prune(st).slots = t /\ Prune(st).marked = {}
  BY DEF Prune
<1>2. st.slots \in Table(M + 1) /\ st.marked \in SUBSET Index
  BY DEF Stages
<1>3. t \in Table(M + 1)
  BY <1>2 DEF Table
<1>4. \A i \in st.marked : t[i] = st.slots[i]
  BY <1>2
<1>5. Used(t) = st.marked
  BY <1>2, <1>4 DEF Used
<1>6. Apart(t)
  <2> HIDE DEF t
  <2> QED BY <1>4, <1>5 DEF Apart
<1> HIDE DEF t
<1> QED BY <1>1, <1>3, <1>4, <1>5, <1>6

-----------------------------------------------------------------------------
(* AgentSlots: the ranks of the waits *)

Begun(t) == {t[j].since : j \in Index} \ {0}
WaitRank(t, x) == Cardinality({r \in Begun(t) : r <= x})

LEMMA IndexIs == IsFiniteSet(Index) /\ Cardinality(Index) = M
BY SlotMax, FS_Interval DEF Index

LEMMA BegunIs ==
  ASSUME NEW t \in Table(M + 1)
  PROVE  /\ Begun(t) \in SUBSET (1 .. M + 1)
         /\ IsFiniteSet(Begun(t)) /\ Cardinality(Begun(t)) \in 0 .. M
<1>1. \A j \in Index : t[j].since \in 0 .. M + 1
  <2> TAKE j \in Index
  <2>1. t[j] = Free \/ t[j] \in Row(M + 1)
    BY DEF Table
  <2>2. Free.since = 0 /\ M + 1 \in Nat
    BY SlotMax DEF Free
  <2>3. t[j] \in Row(M + 1) => t[j].since \in 0 .. M + 1
    BY DEF Row
  <2> QED BY <2>1, <2>2, <2>3
<1>2. Begun(t) \in SUBSET (1 .. M + 1)
  BY <1>1, SlotMax DEF Begun
<1> DEFINE img == {t[j].since : j \in Index}
<1>3. IsFiniteSet(img) /\ Cardinality(img) <= M /\ Cardinality(img) \in Nat
  <2> DEFINE f == [j \in Index |-> t[j].since]
  <2>1. f \in [Index -> img] /\ \A y \in img : \E j \in Index : f[j] = y
    OBVIOUS
  <2> HIDE DEF f, img
  <2>2. f \in Surjection(Index, img)
    BY <2>1 DEF Surjection
  <2>3. IsFiniteSet(img) /\ Cardinality(img) <= Cardinality(Index)
    BY <2>2, IndexIs, FS_Surjection
  <2> QED BY <2>3, IndexIs, FS_CardinalityType
<1>4. Begun(t) \subseteq img
  BY DEF Begun
<1> HIDE DEF img
<1>5. IsFiniteSet(Begun(t)) /\ Cardinality(Begun(t)) <= Cardinality(img)
  BY <1>3, <1>4, FS_Subset
<1>6. Cardinality(Begun(t)) \in Nat
  BY <1>5, FS_CardinalityType
<1>7. Cardinality(Begun(t)) \in 0 .. M
  BY <1>3, <1>5, <1>6, SlotMax
<1> QED BY <1>2, <1>5, <1>7

LEMMA RankIs ==
  ASSUME NEW t \in Table(M + 1)
  PROVE  /\ WaitRank(t, 0) = 0
         /\ \A x \in Nat : WaitRank(t, x) \in 0 .. M
         /\ \A x \in Begun(t) : WaitRank(t, x) > 0
         /\ \A x \in Nat, y \in Begun(t) : WaitRank(t, y) <= WaitRank(t, x) <=> y <= x
<1> DEFINE upTo(x) == {r \in Begun(t) : r <= x}
<1>1. \A x \in Nat : IsFiniteSet(upTo(x)) /\ Cardinality(upTo(x)) \in 0 .. M
  <2> TAKE x \in Nat
  <2>1. upTo(x) \subseteq Begun(t)
    OBVIOUS
  <2> HIDE DEF upTo
  <2>2. IsFiniteSet(upTo(x)) /\ Cardinality(upTo(x)) <= Cardinality(Begun(t))
        /\ Cardinality(upTo(x)) \in Nat
    BY <2>1, BegunIs, FS_Subset, FS_CardinalityType
  <2> QED BY <2>2, BegunIs, SlotMax
<1>2. WaitRank(t, 0) = 0
  <2>1. upTo(0) = {}
    BY BegunIs, SlotMax
  <2> QED BY <2>1, FS_EmptySet DEF WaitRank
<1>3. ASSUME NEW x \in Nat, NEW y \in Begun(t), y <= x PROVE Cardinality(upTo(y)) <= Cardinality(upTo(x))
  <2>1. upTo(y) \subseteq upTo(x) /\ y \in Nat /\ x \in Nat
    BY <1>3, BegunIs, SlotMax
  <2> HIDE DEF upTo
  <2> QED BY <2>1, <1>1, FS_Subset
<1>4. ASSUME NEW x \in Nat, NEW y \in Begun(t), ~(y <= x)
      PROVE  Cardinality(upTo(x)) < Cardinality(upTo(y))
  <2>1. upTo(x) \subseteq upTo(y) /\ y \in upTo(y) /\ y \notin upTo(x) /\ y \in Nat
    BY <1>4, BegunIs, SlotMax
  <2> HIDE DEF upTo
  <2>2. IsFiniteSet(upTo(y)) /\ upTo(x) # upTo(y)
    BY <2>1, <1>1
  <2>3. Cardinality(upTo(x)) <= Cardinality(upTo(y)) /\ Cardinality(upTo(x)) # Cardinality(upTo(y))
    BY <2>1, <2>2, FS_Subset
  <2>4. Cardinality(upTo(x)) \in Nat /\ Cardinality(upTo(y)) \in Nat
    BY <1>1, <2>1, SlotMax
  <2> QED BY <2>3, <2>4
<1>5. \A x : WaitRank(t, x) = Cardinality(upTo(x))
  BY DEF WaitRank
<1> HIDE DEF upTo
<1>6. \A y \in Begun(t) : y \in Nat /\ ~(y <= 0)
  BY BegunIs, SlotMax
<1>7. \A x \in Nat, y \in Begun(t) : WaitRank(t, y) <= WaitRank(t, x) <=> y <= x
  <2> TAKE x \in Nat, y \in Begun(t)
  <2>1. /\ y <= x => WaitRank(t, y) <= WaitRank(t, x)
        /\ ~(y <= x) => WaitRank(t, x) < WaitRank(t, y)
    BY <1>3, <1>4, <1>5
  <2>2. WaitRank(t, x) \in Int /\ WaitRank(t, y) \in Int
    BY <1>1, <1>5, <1>6, SlotMax
  <2> QED BY <2>1, <2>2
<1>8. \A y \in Begun(t) : WaitRank(t, y) > 0
  <2> TAKE y \in Begun(t)
  <2>1. WaitRank(t, 0) < WaitRank(t, y)
    BY <1>4, <1>5, <1>6
  <2> QED BY <2>1, <1>2
<1> QED BY <1>1, <1>2, <1>5, <1>7, <1>8

LEMMA RankedIs ==
  ASSUME NEW t \in Table(M + 1), Apart(t)
  PROVE  /\ Ranked(t) \in Table(M) /\ Apart(Ranked(t)) /\ Used(Ranked(t)) = Used(t)
         /\ \A i \in Index : /\ Ranked(t)[i].sid = t[i].sid
                             /\ Ranked(t)[i].awaiting = t[i].awaiting
                             /\ Ranked(t)[i].since = WaitRank(t, t[i].since)
<1> DEFINE u == Ranked(t)
<1>1. u = [i \in Index |-> [t[i] EXCEPT !.since = WaitRank(t, t[i].since)]]
  BY DEF Ranked, WaitRank, Begun
<1>2. \A i \in Index : u[i] = [t[i] EXCEPT !.since = WaitRank(t, t[i].since)]
  BY <1>1
<1> HIDE DEF u
<1>3. ASSUME NEW i \in Index, i \notin Used(t)
      PROVE  u[i] = Free /\ u[i].since = WaitRank(t, t[i].since)
  <2>1. t[i] = Free /\ Free.since = 0
    BY <1>3, UsedIs DEF Free
  <2>2. u[i] = [Free EXCEPT !.since = 0]
    BY <2>1, <1>2, RankIs
  <2> QED BY <2>1, <2>2, RankIs DEF Free
<1>4. ASSUME NEW i \in Index, i \in Used(t)
      PROVE  /\ u[i] \in Row(M) /\ u[i].sid = t[i].sid /\ u[i].kind = t[i].kind
             /\ u[i].awaiting = t[i].awaiting
             /\ u[i].since = WaitRank(t, t[i].since)
  <2> DEFINE s == t[i]
             r == WaitRank(t, t[i].since)
  <2>1. s \in Row(M + 1) /\ u[i] = [s EXCEPT !.since = r]
    BY <1>4, <1>2, UsedIs
  <2>2. r \in 0 .. M /\ (r = 0 <=> s.since = 0)
    <3>1. s.since \in Nat
      BY <2>1, SlotMax DEF Row
    <3>2. s.since # 0 => s.since \in Begun(t)
      BY DEF Begun
    <3> QED BY <3>1, <3>2, RankIs, SlotMax
  <2> HIDE DEF s, r
  <2>3. [s EXCEPT !.since = r] = [sid |-> s.sid, kind |-> s.kind, awaiting |-> s.awaiting,
                                  since |-> r, entries |-> s.entries]
    BY <2>1 DEF Row
  <2>4. [s EXCEPT !.since = r] \in Row(M)
    BY <2>1, <2>2, <2>3 DEF Row
  <2> QED BY <2>1, <2>3, <2>4 DEF s, r
<1>5. u \in Table(M)
  BY <1>1, <1>3, <1>4 DEF Table
<1>6. Used(u) = Used(t)
  <2>1. Used(u) \in SUBSET Index /\ Used(t) \in SUBSET Index
    BY DEF Used
  <2>2. \A i \in Index : i \in Used(u) <=> u[i] # Free
    BY DEF Used
  <2> QED BY <2>1, <2>2, <1>3, <1>4, FreeIsNoRow
<1>7. Apart(u)
  <2> SUFFICES ASSUME NEW i \in Used(t), NEW j \in Used(t), Matches(u[i], u[j]) PROVE i = j
    BY <1>6 DEF Apart
  <2>1. i \in Index /\ j \in Index
    BY UsedIs
  <2>2. Matches(t[i], t[j])
    BY <1>4, <2>1 DEF Matches
  <2> QED BY <2>2 DEF Apart
<1>8. \A i \in Index : u[i].sid = t[i].sid /\ u[i].awaiting = t[i].awaiting
                       /\ u[i].since = WaitRank(t, t[i].since)
  <2>1. \A i \in Index : i \notin Used(t) => t[i] = Free
    BY UsedIs
  <2> QED BY <1>3, <1>4, <2>1
<1> QED BY <1>5, <1>6, <1>7, <1>8 DEF u

-----------------------------------------------------------------------------
(* AgentSlots: snapshots *)

\* What the merge relies on of a snapshot: its agents are senders, each once.
Rostered(q) ==
  /\ Len(q) \in Nat /\ DOMAIN q = 1 .. Len(q)
  /\ \A n \in 1 .. Len(q) : q[n] \in Agent
  /\ \A k, n \in 1 .. Len(q) : q[k].sid = q[n].sid => k = n
  /\ \A n \in 1 .. Len(q) : q[n].sid = NoSid => Len(q) = 1

LEMMA SnapshotIs ==
  ASSUME NEW q \in Snapshots
  PROVE  Rostered(q)
<1>1. CASE q \in Flat
  <2>1. PICK e \in {"none", "some"} :
          q = <<[sid |-> NoSid, kind |-> "claude-code", awaiting |-> "none", entries |-> e]>>
    BY <1>1 DEF Flat
  <2> DEFINE a == [sid |-> NoSid, kind |-> "claude-code", awaiting |-> "none", entries |-> e]
  <2>2. a \in Agent
    BY DEF Agent, IsSender, Kinds, Waits
  <2> HIDE DEF a
  <2>3. q = <<a>>
    BY <2>1 DEF a
  <2>4. Len(q) = 1 /\ DOMAIN q = 1 .. 1 /\ q[1] = a
    BY <2>3
  <2> QED BY <2>2, <2>4 DEF Rostered
<1>2. CASE q \in Agentful
  <2>0. PICK o \in Orders :
          \E waits \in [DOMAIN o -> Waits], e \in {"none", "some"} : q = Listing(o, waits, e)
    BY <1>2 DEF Agentful
  <2>1. PICK waits \in [DOMAIN o -> Waits], e \in {"none", "some"} : q = Listing(o, waits, e)
    BY <2>0
  <2>2. PICK n \in 0 .. MaxAgents : o \in [1 .. n -> Sids]
    BY <2>1 DEF Orders
  <2>3. n \in Nat /\ DOMAIN o = 1 .. n
    BY <2>2, SlotMax
  <2> DEFINE row(i) == [sid |-> o[i], kind |-> KindOf(o[i]), awaiting |-> waits[i], entries |-> e]
  <2>4. q = [i \in 1 .. n |-> row(i)]
    BY <2>1, <2>3 DEF Listing
  <2>5. \A i \in 1 .. n : row(i) \in Agent /\ row(i).sid = o[i]
    <3> TAKE i \in 1 .. n
    <3>1. o[i] \in Sids /\ waits[i] \in Waits /\ KindOf(o[i]) \in Kinds
      BY <2>2, <2>3 DEF KindOf, Kinds
    <3> QED BY <3>1, SessionIds DEF Agent, IsSender
  <2>6. \A i \in 1 .. n : q[i] = row(i)
    BY <2>4
  <2> HIDE DEF row
  <2>7. q \in [1 .. n -> Agent]
    BY <2>4, <2>5
  <2>8. q \in Seq(Agent) /\ DOMAIN q = 1 .. n
    BY <2>3, <2>7, SeqDef
  <2>9. Len(q) = n
    <3>1. DOMAIN q = 1 .. Len(q) /\ Len(q) \in Nat
      BY <2>8, LenProperties
    <3>2. 1 .. Len(q) = 1 .. n
      BY <2>8, <3>1, Zenon
    <3> QED BY <3>1, <3>2, <2>3, CountUpTo, Zenon
  <2>10. \A i, j \in 1 .. n : o[i] = o[j] => i = j
    BY <2>1, <2>3 DEF Orders
  <2>11. Len(q) \in Nat /\ DOMAIN q = 1 .. Len(q)
    BY <2>3, <2>8, <2>9
  <2>12. \A i \in 1 .. Len(q) : q[i] \in Agent /\ q[i].sid = o[i]
    BY <2>5, <2>6, <2>9
  <2>13. \A i \in 1 .. Len(q) : o[i] # NoSid
    BY <2>2, <2>9, SessionIds
  <2> QED BY <2>9, <2>10, <2>11, <2>12, <2>13 DEF Rostered
<1> QED BY <1>1, <1>2 DEF Snapshots

\* The snapshot names every agent of the table and fits it.
Fits(q) ==
  /\ Len(q) <= M /\ NoSid \notin SidsOf(q)
  /\ \A i \in Used(slots) : slots[i].sid \in SidsOf(q)

\* After n agents of q have been merged: what became of the slots there were, of their
\* waits, and of the agents.
Kept(st) ==
  \A i \in Used(slots) :
    /\ i \in Used(st.slots)
    /\ slots[i].sid # NoSid => st.slots[i].sid = slots[i].sid

WaitsKept(q, n, st) ==
  \A i \in Used(slots) :
    slots[i].sid # NoSid /\ slots[i].awaiting # "none" =>
      /\ st.slots[i].awaiting = slots[i].awaiting => st.slots[i].since = slots[i].since
      /\ (\A k \in 1 .. n : q[k].sid # NoSid /\ q[k].sid # slots[i].sid)
           => st.slots[i].awaiting = slots[i].awaiting

OnlyListed(q, st) ==
  /\ NoSid \notin SidsOf(q) => \A i \in st.marked \ marked : st.slots[i].sid \in SidsOf(q)
  /\ Fits(q) => \A i \in Used(st.slots) : st.slots[i].sid \in SidsOf(q)

AllThere(q, n, st) ==
  Fits(q) => \A k \in 1 .. n : \E i \in st.marked :
                st.slots[i].sid = q[k].sid /\ st.slots[i].awaiting = q[k].awaiting

\* What holds of the table after each agent merged.
MergeInv(q, n, st) ==
  /\ st \in Stages /\ Apart(st.slots) /\ st.marked \subseteq Used(st.slots)
  /\ marked \subseteq st.marked
  /\ Kept(st) /\ WaitsKept(q, n, st) /\ OnlyListed(q, st) /\ AllThere(q, n, st)

\* The table between two commands: what makes Converges inductive is that the first
\* delivery of a snapshot clears the marks and the second leaves its agents only, so
\* that the third finds room for all of them.
SlotsInv ==
  /\ slots \in Table(M) /\ Apart(slots)
  /\ slotCount = Cardinality(Used(slots))
  /\ marked \subseteq Used(slots)
  /\ activity \in {"touched", "kept"} /\ repeats \in -1 .. 2
  /\ repeats >= 0 => lastSnap \in Snapshots /\ marked = {}
  /\ repeats >= 1 /\ NoSid \notin SidsOf(lastSnap) =>
       \A i \in Used(slots) : slots[i].sid \in SidsOf(lastSnap)
  /\ Converges

LEMMA MergeBegins ==
  ASSUME SlotsInv, NEW q \in Snapshots
  PROVE  MergeInv(q, 0, Unmerged)
<1>1. slots \in Table(M + 1)
  <2>1. Row(M) \subseteq Row(M + 1)
    BY SlotMax DEF Row
  <2> QED BY <2>1 DEF SlotsInv, Table
<1>2. Unmerged \in Stages
  BY <1>1 DEF Unmerged, Stages, SlotsInv, Used
<1>3. Unmerged.slots = slots /\ Unmerged.marked = marked
  BY DEF Unmerged
<1> HIDE DEF Unmerged
<1> QED BY <1>2, <1>3 DEF MergeInv, SlotsInv, Kept, WaitsKept, OnlyListed, AllThere, Fits

LEMMA MergeGoesOn ==
  ASSUME SlotsInv, NEW q, Rostered(q), NEW n \in 1 .. Len(q), NEW st, MergeInv(q, n - 1, st)
  PROVE  MergeInv(q, n, Merge(st, q[n]))
<1> DEFINE a == q[n]
           t == st.slots
           i == Acquire(t, a)
           next == Merge(st, a)
           t2 == next.slots
<1>1. a \in Agent /\ IsSender(a) /\ n \in Nat /\ n - 1 \in Nat /\ n \in DOMAIN q /\ a.sid \in SidsOf(q)
  BY DEF Rostered, SidsOf, Agent
<1>2. /\ st \in Stages /\ Apart(t) /\ st.marked \subseteq Used(t) /\ t \in Table(M + 1)
      /\ M + 1 \in Nat
  BY SlotMax DEF MergeInv, Stages
<1>3. /\ next \in Stages /\ Apart(t2) /\ next.marked \subseteq Used(t2)
      /\ st.marked \subseteq next.marked
      /\ i = 0 => next = st
      /\ i # 0 =>
           /\ i \in Index
           /\ Used(t2) = Used(t) \union {i}
           /\ next.marked = st.marked \union {i}
           /\ \A j \in Index : j # i => t2[j] = t[j]
           /\ t2[i] = FilledFor(t, a)
      /\ \A j \in Used(t) : j \in Used(t2) /\ (t[j].sid # NoSid => t2[j].sid = t[j].sid)
  BY <1>1, <1>2, MergeIs
<1>4. i # 0 => LET old == Held(t, i, a) IN
        /\ t2[i].sid = IF a.sid = NoSid THEN old.sid ELSE a.sid
        /\ t2[i].awaiting = a.awaiting
        /\ a.awaiting = old.awaiting /\ a.awaiting # "none" => t2[i].since = old.since
        /\ i \in Used(t) => old = t[i]
        /\ a.sid # NoSid /\ old.sid # NoSid => old.sid = a.sid
  BY <1>1, <1>2, <1>3, RowFilled, HeldIs
<1>5. \A j \in Used(t) : j \in Index
  BY DEF Used
<1> HIDE DEF a, t, i, next, t2
<1>6. marked \subseteq next.marked
  BY <1>3 DEF MergeInv
<1>7. Kept(next)
  BY <1>3 DEF MergeInv, Kept, t, t2
<1>8. WaitsKept(q, n, next)
  <2> SUFFICES ASSUME NEW j \in Used(slots), slots[j].sid # NoSid, slots[j].awaiting # "none"
               PROVE  /\ t2[j].awaiting = slots[j].awaiting => t2[j].since = slots[j].since
                      /\ (\A k \in 1 .. n : q[k].sid # NoSid /\ q[k].sid # slots[j].sid)
                           => t2[j].awaiting = slots[j].awaiting
    BY DEF WaitsKept, t2
  <2>1. /\ j \in Used(t) /\ t[j].sid = slots[j].sid /\ j \in Index
        /\ t[j].awaiting = slots[j].awaiting => t[j].since = slots[j].since
        /\ (\A k \in 1 .. n - 1 : q[k].sid # NoSid /\ q[k].sid # slots[j].sid)
             => t[j].awaiting = slots[j].awaiting
    BY <1>5 DEF MergeInv, Kept, WaitsKept, t
  <2>2. (\A k \in 1 .. n : q[k].sid # NoSid /\ q[k].sid # slots[j].sid)
          => /\ a.sid # NoSid /\ a.sid # slots[j].sid
             /\ \A k \in 1 .. n - 1 : q[k].sid # NoSid /\ q[k].sid # slots[j].sid
    BY <1>1 DEF a
  <2>3. CASE i = 0 \/ j # i
    <3>1. t2[j] = t[j]
      BY <2>1, <2>3, <1>3 DEF t, t2
    <3> QED BY <3>1, <2>1, <2>2
  <2>4. CASE i # 0 /\ j = i
    <3>1. /\ t2[j].awaiting = a.awaiting
          /\ a.awaiting = t[j].awaiting /\ a.awaiting # "none" => t2[j].since = t[j].since
          /\ a.sid # NoSid => a.sid = slots[j].sid
      BY <2>1, <2>4, <1>4
    <3>2. \A k \in 1 .. n - 1 : q[k].sid # NoSid /\ q[k].sid # slots[j].sid
      <4> TAKE k \in 1 .. n - 1
      <4>1. k \in 1 .. Len(q) /\ k # n /\ Len(q) # 1
        BY <1>1 DEF Rostered
      <4>2. q[k].sid # NoSid /\ a.sid # NoSid /\ q[k].sid # a.sid
        BY <4>1 DEF Rostered, a
      <4> QED BY <4>2, <3>1
    <3> QED BY <3>1, <3>2, <2>1, <2>2
  <2> QED BY <2>3, <2>4
<1>9. NoSid \notin SidsOf(q) => a.sid # NoSid /\ (i # 0 => t2[i].sid = a.sid)
  BY <1>1, <1>4
<1>10. OnlyListed(q, next)
  <2>1. ASSUME NoSid \notin SidsOf(q), NEW j \in next.marked \ marked
        PROVE  t2[j].sid \in SidsOf(q)
    <3>1. CASE i # 0 /\ j = i
      BY <3>1, <2>1, <1>9, <1>1
    <3>2. CASE i = 0 \/ j # i
      <4>1. j \in st.marked \ marked /\ t2[j] = t[j]
        BY <3>2, <2>1, <1>2, <1>3, <1>5 DEF t, t2
      <4> QED BY <4>1, <2>1 DEF MergeInv, OnlyListed, t
    <3> QED BY <3>1, <3>2
  <2>2. ASSUME Fits(q), NEW j \in Used(t2)
        PROVE  t2[j].sid \in SidsOf(q)
    <3>1. CASE i # 0 /\ j = i
      BY <3>1, <2>2, <1>9, <1>1 DEF Fits
    <3>2. CASE i = 0 \/ j # i
      <4>1. j \in Used(t) /\ t2[j] = t[j]
        BY <3>2, <2>2, <1>2, <1>3, <1>5 DEF t, t2
      <4> QED BY <4>1, <2>2 DEF MergeInv, OnlyListed, t
    <3> QED BY <3>1, <3>2
  <2> QED BY <2>1, <2>2 DEF OnlyListed, t2
<1>11. Fits(q) => i # 0
  <2> SUFFICES ASSUME Fits(q), i = 0 PROVE FALSE
    OBVIOUS
  <2>1. Used(t) = Index /\ \A j \in Index : ~Matches(t[j], a)
    <3>1. 0 \notin Index /\ Used(t) \subseteq Index
      BY DEF Index, Used
    <3> QED BY <3>1, Acquired DEF i
  <2> DEFINE Others == (1 .. Len(q)) \ {n}
             f == [j \in Index |-> CHOOSE k \in Others : q[k].sid = t[j].sid]
  <2>2. ASSUME NEW j \in Index
        PROVE  t[j].sid # NoSid /\ \E k \in Others : q[k].sid = t[j].sid
    <3>1. t[j].sid \in SidsOf(q) /\ NoSid \notin SidsOf(q)
      BY <2>1 DEF MergeInv, OnlyListed, Fits, t
    <3>2. PICK k \in 1 .. Len(q) : q[k].sid = t[j].sid
      BY <3>1 DEF SidsOf, Rostered
    <3>3. t[j].sid # a.sid
      BY <2>1, <3>1, <1>1 DEF Matches
    <3> QED BY <3>1, <3>2, <3>3 DEF a
  <2>3. f \in [Index -> Others] /\ \A j \in Index : q[f[j]].sid = t[j].sid
    BY <2>2
  <2>4. \A j, k \in Index : f[j] = f[k] => j = k
    <3> SUFFICES ASSUME NEW j \in Index, NEW k \in Index, f[j] = f[k] PROVE j = k
      OBVIOUS
    <3> HIDE DEF f
    <3>1. t[j].sid = t[k].sid /\ t[j].sid # NoSid
      BY <2>2, <2>3
    <3>2. Matches(t[j], t[k])
      BY <3>1 DEF Matches
    <3> QED BY <3>2, <2>1, <1>2 DEF Apart
  <2>5. f \in Injection(Index, Others)
    <3> HIDE DEF f, Others
    <3> QED BY <2>3, <2>4 DEF Injection, IsInjective
  <2>6. IsFiniteSet(Others) /\ Cardinality(Others) = Len(q) - 1 /\ Len(q) \in Nat
    <3> DEFINE All == 1 .. Len(q)
    <3>1. Len(q) \in Nat
      BY DEF Rostered
    <3>2. IsFiniteSet(All) /\ Cardinality(All) = Len(q)
      BY <3>1, CountUpTo, Zenon
    <3>3. Others = All \ {n} /\ n \in All
      OBVIOUS
    <3> HIDE DEF All, Others
    <3> QED BY <3>1, <3>2, <3>3, FS_RemoveElement
  <2> HIDE DEF f, Others
  <2>7. Cardinality(Index) <= Cardinality(Others)
    BY <2>5, <2>6, FS_Injection
  <2> QED BY <2>6, <2>7, IndexIs, SlotMax DEF Fits
<1>12. AllThere(q, n, next)
  <2> SUFFICES ASSUME Fits(q), NEW k \in 1 .. n
               PROVE  \E j \in next.marked : t2[j].sid = q[k].sid /\ t2[j].awaiting = q[k].awaiting
    BY DEF AllThere, t2
  <2>1. CASE k = n
    <3>1. i # 0 /\ i \in next.marked /\ t2[i].sid = a.sid /\ t2[i].awaiting = a.awaiting
      BY <1>3, <1>4, <1>9, <1>11 DEF Fits
    <3> QED BY <3>1, <2>1 DEF a
  <2>2. CASE k # n
    <3>1. k \in 1 .. n - 1 /\ k \in 1 .. Len(q) /\ k \in DOMAIN q
      BY <2>2, <1>1 DEF Rostered
    <3>2. PICK j \in st.marked : t[j].sid = q[k].sid /\ t[j].awaiting = q[k].awaiting
      BY <3>1 DEF MergeInv, AllThere, t
    <3>3. j \in Used(t) /\ j \in Index /\ j \in next.marked
      BY <1>2, <1>3, <1>5
    <3>4. j # i
      <4> SUFFICES ASSUME j = i PROVE FALSE
        OBVIOUS
      <4>1. a.sid # NoSid /\ q[k].sid # NoSid /\ i # 0
        BY <1>9, <1>11, <3>1 DEF Fits, SidsOf
      <4>2. a.sid = q[k].sid
        BY <4>1, <1>4, <3>2, <3>3
      <4> QED BY <4>2, <3>1, <2>2 DEF Rostered, a
    <3>5. t2[j] = t[j]
      BY <3>3, <3>4, <1>3, <1>11
    <3> QED BY <3>2, <3>3, <3>5
  <2> QED BY <2>1, <2>2
<1>13. Apart(next.slots) /\ next.marked \subseteq Used(next.slots) /\ next \in Stages
  BY <1>3 DEF t2
<1>14. MergeInv(q, n, next)
  BY <1>6, <1>7, <1>8, <1>10, <1>12, <1>13 DEF MergeInv
<1> QED BY <1>14 DEF next, a

\* The merge of a whole snapshot.
LEMMA MergedIs ==
  ASSUME SlotsInv, NEW q \in Snapshots
  PROVE  MergeInv(q, Len(q), Merged(q))
<1> DEFINE G == {x \in (0 .. Len(q)) \X Stages : MergeInv(q, x[1], x[2])}
<1>1. Rostered(q) /\ Len(q) \in Nat
  BY SnapshotIs DEF Rostered
<1>2. <<0, Unmerged>> \in G
  <2>1. MergeInv(q, 0, Unmerged) /\ Unmerged \in Stages
    BY MergeBegins DEF MergeInv
  <2> QED BY <2>1, <1>1
<1>3. ASSUME NEW n \in 1 .. Len(q), NEW st, <<n - 1, st>> \in G
      PROVE  <<n, Merge(st, q[n])>> \in G
  <2>1. MergeInv(q, n - 1, st)
    BY <1>3
  <2>2. MergeInv(q, n, Merge(st, q[n]))
    BY <2>1, <1>1, MergeGoesOn
  <2>3. Merge(st, q[n]) \in Stages
    BY <2>2 DEF MergeInv
  <2> QED BY <2>2, <2>3
<1> HIDE DEF G
<1>4. <<Len(q), Merged(q)>> \in G
  BY <1>1, <1>2, <1>3, MergesKeep
<1> QED BY <1>4 DEF G

\* What a snapshot makes of the table: the merged one without the slots it left unmarked.
LEMMA Applied ==
  ASSUME SlotsInv, NEW q \in Snapshots, ApplySnapshot(q)
  PROVE  LET m == Merged(q) IN
         /\ MergeInv(q, Len(q), m) /\ Rostered(q)
         /\ slots' \in Table(M) /\ Apart(slots') /\ Used(slots') = m.marked /\ marked' = {}
         /\ \A i \in m.marked : /\ i \in Index
                                /\ slots'[i].sid = m.slots[i].sid
                                /\ slots'[i].awaiting = m.slots[i].awaiting
         /\ \E t \in Table(M + 1) : \A i \in m.marked :
              t[i] = m.slots[i] /\ slots'[i].since = WaitRank(t, t[i].since)
<1> DEFINE m == Merged(q)
           t == Prune(m).slots
<1>1. MergeInv(q, Len(q), m) /\ Rostered(q)
  BY MergedIs, SnapshotIs
<1>2. m \in Stages /\ Apart(m.slots) /\ m.marked \subseteq Used(m.slots)
  BY <1>1 DEF MergeInv
<1>3. slots' = Ranked(t) /\ marked' = Prune(m).marked
  BY DEF ApplySnapshot
<1> HIDE DEF m
<1>4. /\ t \in Table(M + 1) /\ Apart(t) /\ Used(t) = m.marked
      /\ \A i \in m.marked : t[i] = m.slots[i]
      /\ Prune(m).marked = {}
  BY <1>2, PruneIs
<1> HIDE DEF t
<1>5. /\ slots' \in Table(M) /\ Apart(slots') /\ Used(slots') = Used(t)
      /\ \A i \in Index : /\ slots'[i].sid = t[i].sid
                          /\ slots'[i].awaiting = t[i].awaiting
                          /\ slots'[i].since = WaitRank(t, t[i].since)
  BY <1>3, <1>4, RankedIs
<1>6. \A i \in m.marked : i \in Index
  BY <1>2 DEF Used
<1> QED BY <1>1, <1>3, <1>4, <1>5, <1>6 DEF m

\* As many slots as agents, when each agent has one and each slot is an agent's.
LEMMA AsManySlots ==
  ASSUME NEW t, NEW q, Apart(t), Rostered(q), NoSid \notin SidsOf(q),
         \A i \in Used(t) : t[i].sid \in SidsOf(q),
         \A k \in 1 .. Len(q) : \E i \in Used(t) : t[i].sid = q[k].sid
  PROVE  Cardinality(Used(t)) = Len(q)
<1> DEFINE All == 1 .. Len(q)
           U == Used(t)
           f == [i \in U |-> CHOOSE k \in All : q[k].sid = t[i].sid]
           g == [k \in All |-> CHOOSE i \in U : t[i].sid = q[k].sid]
<1>1. Len(q) \in Nat /\ DOMAIN q = All
  BY DEF Rostered
<1>2. IsFiniteSet(All) /\ Cardinality(All) = Len(q)
  BY <1>1, CountUpTo
<1>3. IsFiniteSet(U)
  <2>1. U \subseteq Index
    BY DEF Used
  <2> QED BY <2>1, IndexIs, FS_Subset
<1>4. f \in [U -> All] /\ \A i \in U : q[f[i]].sid = t[i].sid
  <2>1. \A i \in U : \E k \in All : q[k].sid = t[i].sid
    BY <1>1 DEF SidsOf
  <2> HIDE DEF U, All
  <2> QED BY <2>1
<1>5. g \in [All -> U] /\ \A k \in All : t[g[k]].sid = q[k].sid
  <2>1. \A k \in All : \E i \in U : t[i].sid = q[k].sid
    OBVIOUS
  <2> HIDE DEF U, All
  <2> QED BY <2>1
<1> HIDE DEF f, g
<1>6. f \in Injection(U, All)
  <2>1. ASSUME NEW i \in U, NEW j \in U, f[i] = f[j] PROVE i = j
    <3>1. t[i].sid = t[j].sid /\ t[i].sid # NoSid
      BY <2>1, <1>4
    <3>2. Matches(t[i], t[j])
      BY <3>1 DEF Matches
    <3> QED BY <3>2 DEF Apart
  <2> HIDE DEF U, All
  <2> QED BY <2>1, <1>4 DEF Injection, IsInjective
<1>7. g \in Injection(All, U)
  <2>1. ASSUME NEW k \in All, NEW n \in All, g[k] = g[n] PROVE k = n
    BY <2>1, <1>5 DEF Rostered
  <2> HIDE DEF U, All
  <2> QED BY <2>1, <1>5 DEF Injection, IsInjective
<1> HIDE DEF U, All
<1>8. Cardinality(U) <= Cardinality(All) /\ Cardinality(All) <= Cardinality(U)
      /\ Cardinality(U) \in Nat
  BY <1>2, <1>3, <1>6, <1>7, FS_Injection, FS_CardinalityType
<1> QED BY <1>1, <1>2, <1>8 DEF U

LEMMA SlotsCounted ==
  ASSUME NEW S, NEW T, NEW V, IsFiniteSet(T), S \subseteq T, V \subseteq T
  PROVE  Cardinality(S) + Cardinality(T \ S) - Cardinality(T \ V) = Cardinality(V)
<1>1. IsFiniteSet(S) /\ IsFiniteSet(V) /\ T \cap S = S /\ T \cap V = V
  BY FS_Subset
<1>2. Cardinality(T \ S) = Cardinality(T) - Cardinality(S)
  BY <1>1, FS_Difference
<1>3. Cardinality(T \ V) = Cardinality(T) - Cardinality(V)
  BY <1>1, FS_Difference
<1>4. Cardinality(T) \in Nat /\ Cardinality(S) \in Nat /\ Cardinality(V) \in Nat
  BY <1>1, FS_CardinalityType
<1> QED BY <1>2, <1>3, <1>4

LEMMA SnapshotSlots ==
  ASSUME SlotsInv, NEW q \in Snapshots, ApplySnapshot(q)
  PROVE  SlotsInv'
<1> DEFINE m == Merged(q)
<1>1. /\ MergeInv(q, Len(q), m) /\ Rostered(q)
      /\ slots' \in Table(M) /\ Apart(slots') /\ Used(slots') = m.marked /\ marked' = {}
      /\ \A i \in m.marked : /\ i \in Index
                             /\ slots'[i].sid = m.slots[i].sid
                             /\ slots'[i].awaiting = m.slots[i].awaiting
  BY Applied
<1>2. slotCount' = slotCount + Cardinality(Used(m.slots) \ Used(slots))
                     - Cardinality(Used(m.slots) \ Used(Prune(m).slots))
  BY DEF ApplySnapshot
<1>3. Used(Prune(m).slots) = m.marked
  BY <1>1, PruneIs DEF MergeInv
<1>4. /\ lastSnap' = q
      /\ repeats' \in -1 .. 2
      /\ repeats' >= 1 => repeats >= 0 /\ q = lastSnap
      /\ repeats' = 2 => repeats >= 1
      /\ activity' \in {"touched", "kept"}
  BY DEF ApplySnapshot, SlotsInv
<1> HIDE DEF m
<1>5. slotCount' = Cardinality(Used(slots'))
  <2>1. Used(slots) \subseteq Used(m.slots) /\ m.marked \subseteq Used(m.slots)
    BY <1>1 DEF MergeInv, Kept
  <2>2. IsFiniteSet(Used(m.slots))
    <3>1. Used(m.slots) \subseteq Index
      BY DEF Used
    <3> QED BY <3>1, IndexIs, FS_Subset
  <2>3. slotCount = Cardinality(Used(slots))
    BY DEF SlotsInv
  <2> QED BY <2>1, <2>2, <2>3, <1>1, <1>2, <1>3, SlotsCounted
<1>6. ASSUME repeats' >= 1, NoSid \notin SidsOf(q)
      PROVE  \A i \in Used(slots') : slots'[i].sid \in SidsOf(q)
  <2>1. marked = {}
    BY <1>4, <1>6 DEF SlotsInv
  <2> QED BY <2>1, <1>1, <1>6 DEF MergeInv, OnlyListed
<1>7. Converges'
  <2> SUFFICES ASSUME repeats' = 2, Len(q) <= M, NoSid \notin SidsOf(q)
               PROVE  /\ Cardinality(Used(slots')) = Len(q)
                      /\ \A n \in DOMAIN q : \E i \in Used(slots') :
                           /\ slots'[i].sid = q[n].sid
                           /\ slots'[i].awaiting = q[n].awaiting
    BY <1>4 DEF Converges
  <2>1. Fits(q)
    BY <1>4 DEF SlotsInv, Fits
  <2>2. \A n \in 1 .. Len(q) : \E i \in Used(slots') :
          slots'[i].sid = q[n].sid /\ slots'[i].awaiting = q[n].awaiting
    BY <2>1, <1>1 DEF MergeInv, AllThere
  <2>3. repeats' >= 1
    BY <1>4
  <2>4. Cardinality(Used(slots')) = Len(q)
    BY <1>1, <1>6, <2>2, <2>3, AsManySlots
  <2> QED BY <2>2, <2>4, <1>1 DEF Rostered
<1> QED
  BY <1>1, <1>4, <1>5, <1>6, <1>7 DEF SlotsInv

\* What an event or a sample makes of the table: the slot of its sender is taken or kept.
LEMMA LinePlaced ==
  ASSUME SlotsInv, NEW a, IsSender(a), NEW pushed \in BOOLEAN, AcquireAndChange(a, pushed)
  PROVE  \/ UNCHANGED <<slots, marked, slotCount>>
         \/ \E i \in Index :
              /\ slots' \in Table(M) /\ Apart(slots')
              /\ Used(slots') = Used(slots) \union {i}
              /\ marked' = marked \union {i}
              /\ slotCount' = IF i \in Used(slots) THEN slotCount ELSE slotCount + 1
              /\ \A j \in Used(slots) : /\ slots[j].sid # NoSid => slots'[j].sid = slots[j].sid
                                        /\ slots'[j].awaiting = slots[j].awaiting
                                        /\ slots'[j].since = slots[j].since
              /\ i \notin Used(slots) => slots'[i].awaiting = "none"
              /\ \A j \in Index : j # i => slots'[j] = slots[j]
<1> DEFINE i == Acquire(slots, a)
           old == Held(slots, i, a)
           new == IF pushed THEN [old EXCEPT !.entries = "some"] ELSE old
<1>1. CASE i = 0
  BY <1>1 DEF AcquireAndChange
<1>2. CASE i # 0
  <2>1. /\ slots' = [slots EXCEPT ![i] = new] /\ marked' = marked \union {i}
        /\ slotCount' = IF slots[i] = Free THEN slotCount + 1 ELSE slotCount
    BY <1>2 DEF AcquireAndChange
  <2>2. M \in Nat /\ slots \in Table(M) /\ Apart(slots)
    BY SlotMax DEF SlotsInv
  <2>3. /\ i \in Index /\ old \in Row(M) /\ old.kind = a.kind
        /\ i \in Used(slots) => old = slots[i]
        /\ i \notin Used(slots) => old.sid = a.sid /\ old.awaiting = "none"
    BY <1>2, <2>2, HeldIs
  <2>4. /\ new \in Row(M) /\ new.kind = old.kind /\ new.sid = old.sid
        /\ new.awaiting = old.awaiting /\ new.since = old.since
    <3> HIDE DEF old
    <3>1. old = [sid |-> old.sid, kind |-> old.kind, awaiting |-> old.awaiting,
                 since |-> old.since, entries |-> old.entries]
      BY <2>3 DEF Row
    <3>2. [old EXCEPT !.entries = "some"] =
            [sid |-> old.sid, kind |-> old.kind, awaiting |-> old.awaiting,
             since |-> old.since, entries |-> "some"]
      BY <3>1
    <3>3. [old EXCEPT !.entries = "some"] \in Row(M)
      BY <2>3, <3>2 DEF Row
    <3> QED BY <2>3, <3>2, <3>3
  <2> HIDE DEF new
  <2>5. /\ slots' \in Table(M) /\ Apart(slots') /\ Used(slots') = Used(slots) \union {i}
        /\ \A j \in Used(slots) : slots[j].sid # NoSid => slots'[j].sid = slots[j].sid
    <3>1. /\ Apart(slots) /\ Acquire(slots, a) # 0 /\ new.kind = a.kind
          /\ new.sid = Held(slots, Acquire(slots, a), a).sid
      BY <1>2, <2>2, <2>3, <2>4
    <3>2. LET u == [slots EXCEPT ![Acquire(slots, a)] = new]
          IN  /\ u \in Table(M) /\ Apart(u)
              /\ Used(u) = Used(slots) \union {Acquire(slots, a)}
              /\ \A j \in Used(slots) : slots[j].sid # NoSid => u[j].sid = slots[j].sid
      BY <2>2, <2>4, <3>1, Placing
    <3> QED BY <2>1, <3>2
  <2>6. slots'[i] = new /\ \A j \in Index : j # i => slots'[j] = slots[j]
    <3> HIDE DEF i
    <3> QED BY <2>1, <2>2, <2>3 DEF Table
  <2>7. i \in Used(slots) <=> slots[i] # Free
    BY <2>3 DEF Used
  <2>8. ASSUME NEW j \in Used(slots)
        PROVE  slots'[j].awaiting = slots[j].awaiting /\ slots'[j].since = slots[j].since
    <3>1. j \in Index
      BY DEF Used
    <3>2. CASE j = i
      BY <3>2, <2>3, <2>4, <2>6
    <3>3. CASE j # i
      BY <3>1, <3>3, <2>6
    <3> QED BY <3>2, <3>3
  <2> HIDE DEF i, old
  <2> QED BY <2>1, <2>3, <2>4, <2>5, <2>6, <2>7, <2>8
<1> QED BY <1>1, <1>2

LEMMA LineSlots ==
  ASSUME SlotsInv, NEW a, IsSender(a), NEW pushed \in BOOLEAN, AcquireAndChange(a, pushed),
         activity' \in {"touched", "kept"}
  PROVE  SlotsInv'
<1>1. repeats' = -1 /\ lastSnap' = <<>>
  BY DEF AcquireAndChange
<1>2. CASE UNCHANGED <<slots, marked, slotCount>>
  BY <1>1, <1>2 DEF SlotsInv, Converges
<1>3. ASSUME NEW i \in Index,
             slots' \in Table(M), Apart(slots'),
             Used(slots') = Used(slots) \union {i},
             marked' = marked \union {i},
             slotCount' = IF i \in Used(slots) THEN slotCount ELSE slotCount + 1
      PROVE  SlotsInv'
  <2>1. IsFiniteSet(Used(slots))
    <3>1. Used(slots) \subseteq Index
      BY DEF Used
    <3> QED BY <3>1, IndexIs, FS_Subset
  <2>2. slotCount' = Cardinality(Used(slots'))
    <3> DEFINE U == Used(slots)
    <3>1. slotCount = Cardinality(U) /\ IsFiniteSet(U)
      BY <2>1 DEF SlotsInv
    <3> HIDE DEF U
    <3>2. Cardinality(U \union {i}) = IF i \in U THEN Cardinality(U) ELSE Cardinality(U) + 1
      BY <3>1, FS_AddElement
    <3> QED BY <1>3, <3>1, <3>2 DEF U
  <2>3. marked' \subseteq Used(slots')
    BY <1>3 DEF SlotsInv
  <2> QED BY <1>1, <1>3, <2>2, <2>3 DEF SlotsInv, Converges
<1> QED BY <1>2, <1>3, LinePlaced

LEMMA SendersAre == \A a \in Senders : IsSender(a)
BY SessionIds DEF Senders, IsSender, Kinds, KindOf

LEMMA SlotsStart == Init => SlotsInv
<1> SUFFICES ASSUME Init PROVE SlotsInv
  OBVIOUS
<1>1. Used(slots) = {}
  BY DEF Init, Used
<1>2. Cardinality(Used(slots)) = 0
  BY <1>1, FS_EmptySet
<1> QED
  BY <1>1, <1>2 DEF Init, SlotsInv, Table, Apart, Converges

LEMMA SlotsStep == SlotsInv /\ [Next]_vars => SlotsInv'
<1> SUFFICES ASSUME SlotsInv, [Next]_vars PROVE SlotsInv'
  OBVIOUS
<1>1. CASE UNCHANGED vars
  BY <1>1 DEF vars, SlotsInv, Converges
<1>2. ASSUME NEW q \in Snapshots, ApplySnapshot(q) PROVE SlotsInv'
  BY <1>2, SnapshotSlots
<1>3. ASSUME NEW a \in Senders, EventLine(a) PROVE SlotsInv'
  BY <1>3, LineSlots, SendersAre DEF EventLine
<1>4. ASSUME NEW a \in Senders, TokenSample(a) PROVE SlotsInv'
  BY <1>4, LineSlots, SendersAre DEF TokenSample
<1> QED BY <1>1, <1>2, <1>3, <1>4 DEF Next

LEMMA SlotsTyped == SlotsInv => TypeOK
<1>1. Row(M) \subseteq [sid : Sids \union {NoSid}, kind : Kinds, awaiting : Waits,
                         since : 0 .. M, entries : {"none", "some"}]
  BY DEF Row
<1>2. Table(M) \subseteq [Index -> {Free} \union
        [sid : Sids \union {NoSid}, kind : Kinds, awaiting : Waits,
         since : 0 .. M, entries : {"none", "some"}]]
  BY <1>1 DEF Table
<1> QED BY <1>2 DEF SlotsInv, TypeOK

\* Whoever is shown under a session's name before and after a step is in one place.
LEMMA NamesStay ==
  ASSUME SlotsInv, Next,
         NEW i \in Used(slots), NEW j \in Used(slots'),
         slots[i].sid # NoSid, slots[i].sid = slots'[j].sid
  PROVE  i = j
<1>1. ASSUME NEW q \in Snapshots, ApplySnapshot(q) PROVE i = j
  <2> DEFINE m == Merged(q)
  <2>1. /\ MergeInv(q, Len(q), m) /\ Used(slots') = m.marked
        /\ \A k \in m.marked : slots'[k].sid = m.slots[k].sid
    BY <1>1, Applied
  <2> HIDE DEF m
  <2>2. /\ Apart(m.slots) /\ m.marked \subseteq Used(m.slots)
        /\ i \in Used(m.slots) /\ m.slots[i].sid = slots[i].sid
    BY <2>1 DEF MergeInv, Kept
  <2>3. j \in Used(m.slots) /\ m.slots[j].sid = slots'[j].sid
    BY <2>1, <2>2
  <2>4. Matches(m.slots[i], m.slots[j])
    BY <2>2, <2>3 DEF Matches
  <2> QED BY <2>2, <2>3, <2>4 DEF Apart
<1>2. ASSUME NEW a, IsSender(a), NEW pushed \in BOOLEAN, AcquireAndChange(a, pushed)
      PROVE  i = j
  <2>1. CASE UNCHANGED <<slots, marked, slotCount>>
    <3>1. Matches(slots[i], slots[j]) /\ j \in Used(slots)
      BY <2>1 DEF Matches, Used
    <3> QED BY <3>1 DEF SlotsInv, Apart
  <2>2. CASE /\ Apart(slots') /\ Used(slots) \subseteq Used(slots')
             /\ \A k \in Used(slots) : slots[k].sid # NoSid => slots'[k].sid = slots[k].sid
    <3>1. Matches(slots'[i], slots'[j]) /\ i \in Used(slots')
      BY <2>2 DEF Matches
    <3> QED BY <3>1, <2>2 DEF Apart
  <2>3. \/ UNCHANGED <<slots, marked, slotCount>>
        \/ /\ Apart(slots') /\ Used(slots) \subseteq Used(slots')
           /\ \A k \in Used(slots) : slots[k].sid # NoSid => slots'[k].sid = slots[k].sid
    BY <1>2, LinePlaced
  <2> QED BY <2>1, <2>2, <2>3
<1>3. ASSUME NEW a \in Senders, EventLine(a) \/ TokenSample(a) PROVE i = j
  BY <1>2, <1>3, SendersAre DEF EventLine, TokenSample
<1> QED BY <1>1, <1>3 DEF Next

\* The waits of those who wait on keep their order.
LEMMA OrderStays ==
  ASSUME SlotsInv, Next,
         NEW j \in Used(slots), NEW k \in Used(slots),
         j \in Used(slots'), k \in Used(slots'),
         slots[j].sid # NoSid, slots[k].sid # NoSid,
         slots[j].awaiting # "none", slots[k].awaiting # "none",
         slots'[j].awaiting = slots[j].awaiting, slots'[k].awaiting = slots[k].awaiting
  PROVE  slots'[j].since <= slots'[k].since <=> slots[j].since <= slots[k].since
<1>1. ASSUME NEW q \in Snapshots, ApplySnapshot(q)
      PROVE  slots'[j].since <= slots'[k].since <=> slots[j].since <= slots[k].since
  <2> DEFINE m == Merged(q)
  <2>1. /\ MergeInv(q, Len(q), m) /\ Used(slots') = m.marked
        /\ \A i \in m.marked : i \in Index /\ slots'[i].awaiting = m.slots[i].awaiting
    BY <1>1, Applied
  <2>2. PICK t \in Table(M + 1) : \A i \in m.marked :
          t[i] = m.slots[i] /\ slots'[i].since = WaitRank(t, t[i].since)
    BY <1>1, Applied
  <2> HIDE DEF m
  <2>3. ASSUME NEW i \in {j, k}
        PROVE  /\ m.slots[i].since = slots[i].since
               /\ slots'[i].since = WaitRank(t, slots[i].since)
               /\ slots[i].since \in Begun(t) /\ slots[i].since \in Nat
    <3>1. /\ i \in m.marked /\ i \in Used(slots) /\ i \in Index
          /\ slots[i].sid # NoSid /\ slots[i].awaiting # "none"
          /\ m.slots[i].awaiting = slots[i].awaiting
      BY <2>1, <2>3
    <3>2. m.slots[i].since = slots[i].since
      BY <3>1, <2>1 DEF MergeInv, WaitsKept
    <3>3. t[i].since = slots[i].since /\ slots'[i].since = WaitRank(t, slots[i].since)
      BY <3>1, <3>2, <2>2
    <3>4. slots[i] \in Row(M)
      BY <3>1, UsedIs DEF SlotsInv
    <3>5. slots[i].since # 0 /\ slots[i].since \in Nat
      BY <3>1, <3>4 DEF Row
    <3> QED BY <3>1, <3>2, <3>3, <3>5 DEF Begun
  <2> DEFINE x == slots[j].since
             y == slots[k].since
  <2>4. /\ slots'[j].since = WaitRank(t, x) /\ slots'[k].since = WaitRank(t, y)
        /\ x \in Begun(t) /\ y \in Nat
    BY <2>3
  <2> HIDE DEF x, y
  <2>5. WaitRank(t, x) <= WaitRank(t, y) <=> x <= y
    BY <2>4, RankIs
  <2> QED BY <2>4, <2>5 DEF x, y
<1>2. ASSUME NEW a, IsSender(a), NEW pushed \in BOOLEAN, AcquireAndChange(a, pushed)
      PROVE  slots'[j].since = slots[j].since /\ slots'[k].since = slots[k].since
  <2>1. \/ UNCHANGED <<slots, marked, slotCount>>
        \/ \A i \in Used(slots) : slots'[i].since = slots[i].since
    BY <1>2, LinePlaced
  <2> QED BY <2>1
<1>3. ASSUME NEW a \in Senders, EventLine(a) \/ TokenSample(a)
      PROVE  slots'[j].since = slots[j].since /\ slots'[k].since = slots[k].since
  BY <1>2, <1>3, SendersAre DEF EventLine, TokenSample
<1> QED BY <1>1, <1>3 DEF Next

Waiting(t) == {i \in Index : t[i].awaiting # "none"}

LEMMA WaitingIs ==
  ASSUME NEW top \in Nat, NEW t \in Table(top), NEW i \in Waiting(t)
  PROVE  i \in Used(t) /\ i \in Index /\ t[i].since \in 0 .. top
<1>1. i \in Index /\ t[i] # Free
  BY DEF Waiting, Free
<1>2. i \in Used(t)
  BY <1>1 DEF Used
<1>3. t[i] \in Row(top)
  BY <1>2, UsedIs
<1> QED BY <1>1, <1>2, <1>3 DEF Row

LEMMA AnchorIs ==
  ASSUME NEW top \in Nat, NEW t \in Table(top), Waiting(t) # {}
  PROVE  /\ Anchor(t) \in Waiting(t)
         /\ \A j \in Waiting(t) : t[j].since <= t[Anchor(t)].since
         /\ \A i \in Waiting(t) :
              (\A j \in Waiting(t) : t[j].since <= t[i].since) => Anchor(t) <= i
<1> DEFINE last == {i \in Waiting(t) : \A j \in Waiting(t) : t[j].since <= t[i].since}
           left == {top - t[i].since : i \in Waiting(t)}
<1>1. \A i \in Waiting(t) : t[i].since \in 0 .. top /\ i \in Nat
  BY WaitingIs DEF Index
<1>2. left \in SUBSET Nat /\ left # {}
  BY <1>1
<1>3. Lowest(left) \in left /\ \A x \in left : Lowest(left) <= x
  <2> HIDE DEF left
  <2> QED BY <1>2, LowestIs
<1>4. PICK i \in Waiting(t) : \A j \in Waiting(t) : top - t[i].since <= top - t[j].since
  <2>1. PICK i \in Waiting(t) : Lowest(left) = top - t[i].since
    BY <1>3
  <2>2. \A j \in Waiting(t) : top - t[j].since \in left
    OBVIOUS
  <2> HIDE DEF left
  <2> QED BY <1>3, <2>1, <2>2
<1>5. \A j \in Waiting(t) : t[j].since <= t[i].since
  BY <1>1, <1>4
<1>6. last \in SUBSET Nat /\ last # {}
  BY <1>1, <1>5
<1>7. Anchor(t) = Lowest(last)
  BY DEF Anchor, Waiting
<1>8. Lowest(last) \in last /\ \A j \in last : Lowest(last) <= j
  <2> HIDE DEF last
  <2> QED BY <1>6, LowestIs
<1> QED BY <1>7, <1>8

LEMMA AnchorKept ==
  ASSUME SlotsInv, SlotsInv', Next, ~Anonymous(slots),
         Anchor(slots) # 0,
         \E j \in Index : /\ slots'[j].sid = slots[Anchor(slots)].sid
                          /\ slots'[j].awaiting = slots[Anchor(slots)].awaiting,
         \A j \in Index : slots'[j].awaiting # "none" =>
           \E i \in Index : slots[i].sid = slots'[j].sid /\ slots[i].awaiting = slots'[j].awaiting
  PROVE  slots'[Anchor(slots')].sid = slots[Anchor(slots)].sid
<1> DEFINE a == Anchor(slots)
           b == Anchor(slots')
           W == Waiting(slots)
           V == Waiting(slots')
<1>1. M \in Nat /\ slots \in Table(M) /\ slots' \in Table(M)
  BY SlotMax DEF SlotsInv
<1>2. W # {}
  BY DEF Anchor, Waiting
<1>3. /\ a \in W /\ \A j \in W : slots[j].since <= slots[a].since
      /\ \A i \in W : (\A j \in W : slots[j].since <= slots[i].since) => a <= i
  BY <1>1, <1>2, AnchorIs
<1>4. \A i \in W : i \in Used(slots) /\ i \in Index /\ slots[i].since \in 0 .. M /\ slots[i].sid # NoSid
                   /\ slots[i].awaiting # "none"
  BY <1>1, WaitingIs DEF Anonymous, Waiting
<1>5. \A i \in V : i \in Used(slots') /\ i \in Index /\ slots'[i].since \in 0 .. M
                   /\ slots'[i].awaiting # "none"
  BY <1>1, WaitingIs DEF Waiting
<1> HIDE DEF a, b
<1>6. ASSUME NEW j \in V
      PROVE  j \in W /\ slots[j].sid = slots'[j].sid /\ slots[j].awaiting = slots'[j].awaiting
  <2>1. PICK i \in Index : slots[i].sid = slots'[j].sid /\ slots[i].awaiting = slots'[j].awaiting
    BY <1>5
  <2>2. i \in W
    BY <2>1, <1>5 DEF Waiting
  <2>3. i = j
    BY <2>1, <2>2, <1>4, <1>5, NamesStay
  <2> QED BY <2>1, <2>2, <2>3
<1>7. a \in V
  <2>1. PICK j \in Index : slots'[j].sid = slots[a].sid /\ slots'[j].awaiting = slots[a].awaiting
    BY DEF a
  <2>2. j \in V
    BY <2>1, <1>3, <1>4 DEF Waiting
  <2>3. a = j
    BY <2>1, <2>2, <1>3, <1>4, <1>5, NamesStay
  <2> QED BY <2>2, <2>3
<1>8. /\ b \in V /\ \A j \in V : slots'[j].since <= slots'[b].since
      /\ \A i \in V : (\A j \in V : slots'[j].since <= slots'[i].since) => b <= i
  BY <1>1, <1>7, AnchorIs DEF b
<1>9. \A j, k \in V : slots'[j].since <= slots'[k].since <=> slots[j].since <= slots[k].since
  BY <1>4, <1>5, <1>6, OrderStays
<1> HIDE DEF W, V
<1>10. a \in Nat /\ b \in Nat
  BY <1>3, <1>4, <1>5, <1>8 DEF Index
<1>11. b <= a
  <2>1. \A j \in V : slots'[j].since <= slots'[a].since
    BY <1>3, <1>6, <1>7, <1>9
  <2> QED BY <2>1, <1>7, <1>8
<1>12. a <= b
  <2>1. slots[a].since <= slots[b].since
    BY <1>7, <1>8, <1>9
  <2>2. b \in W
    BY <1>6, <1>8
  <2>3. \A j \in W : slots[j].since <= slots[b].since
    BY <2>1, <2>2, <1>3, <1>4
  <2> QED BY <2>2, <2>3, <1>3
<1>13. a = b
  BY <1>10, <1>11, <1>12
<1> QED BY <1>6, <1>7, <1>13 DEF a, b

-----------------------------------------------------------------------------
(* AgentSlots: theorems *)

LEMMA DeviceSlots ==
  /\ DeviceInit => Init
  /\ [DeviceNext]_<<part, vars, keyVars, glow, deco, config, json, hostData, meters>> => [Next]_vars
BY DEF DeviceInit, DeviceNext, Merging, Pressing, Glowing, Drawing, Configuring, Scanning,
       Telling, Metering

\* The table is as its type says, and the count of agent_state.c is that of the slots in
\* use, through every merge, prune and acquisition.
THEOREM SlotsTypeCorrect == DeviceSpec => []TypeOK
<1>1. DeviceInit => SlotsInv
  BY DeviceSlots, SlotsStart
<1>2. SlotsInv /\ [DeviceNext]_<<part, vars, keyVars, glow, deco, config, json, hostData, meters>>
        => SlotsInv'
  BY DeviceSlots, SlotsStep
<1>3. QED
  BY <1>1, <1>2, SlotsTyped, PTL DEF DeviceSpec

\* Whatever events, samples and older snapshots left in the table and in the marks, the
\* third delivery of a snapshot that fits finds its agents in it,
\* each once and with its own wait: for every number of slots, of sessions and of agents.
THEOREM SlotsConverge == DeviceSpec => []Converges
<1>1. DeviceInit => SlotsInv
  BY DeviceSlots, SlotsStart
<1>2. SlotsInv /\ [DeviceNext]_<<part, vars, keyVars, glow, deco, config, json, hostData, meters>>
        => SlotsInv'
  BY DeviceSlots, SlotsStep
<1>3. SlotsInv => Converges
  BY DEF SlotsInv
<1>4. QED
  BY <1>1, <1>2, <1>3, PTL DEF DeviceSpec

LEMMA PlaceStep ==
  ASSUME SlotsInv, [Next]_vars, ~Anonymous(slots), NEW i \in Index, NEW j \in Index,
         i \in Used(slots), j \in Used(slots'), slots[i].sid = slots'[j].sid, vars' # vars
  PROVE  i = j
<1>1. slots[i].sid # NoSid
  BY DEF Anonymous
<1> QED BY <1>1, NamesStay

\* No handler moves an agent that stays on the panel to another slot, for every number of
\* slots and of sessions.
THEOREM PlacesKept == DeviceSpec => PlaceKept
<1>1. DeviceInit => SlotsInv
  BY DeviceSlots, SlotsStart
<1>2. SlotsInv /\ [DeviceNext]_<<part, vars, keyVars, glow, deco, config, json, hostData, meters>>
        => SlotsInv'
  BY DeviceSlots, SlotsStep
<1>3. SlotsInv /\ [DeviceNext]_<<part, vars, keyVars, glow, deco, config, json, hostData, meters>>
        => [~Anonymous(slots) =>
              \A i, j \in Index :
                /\ i \in Used(slots) /\ j \in Used(slots')
                /\ slots[i].sid = slots'[j].sid
                => i = j]_vars
  BY DeviceSlots, PlaceStep
<1>4. QED
  BY <1>1, <1>2, <1>3, PTL DEF DeviceSpec, PlaceKept

\* The agent whose wait the panel shows is not displaced by a snapshot that re-affirms it,
\* nor by the end of other waits or a line about any agent.
THEOREM AnchorsStay == DeviceSpec => AnchorStays
<1>1. DeviceInit => SlotsInv
  BY DeviceSlots, SlotsStart
<1>2. SlotsInv /\ [DeviceNext]_<<part, vars, keyVars, glow, deco, config, json, hostData, meters>>
        => SlotsInv'
  BY DeviceSlots, SlotsStep
<1>3. SlotsInv /\ SlotsInv' /\ [DeviceNext]_<<part, vars, keyVars, glow, deco, config, json, hostData, meters>>
        => [LET a == Anchor(slots) b == Anchor(slots') IN
              /\ a # 0 /\ ~Anonymous(slots)
              /\ \E j \in Index : slots'[j].sid = slots[a].sid /\ slots'[j].awaiting = slots[a].awaiting
              /\ \A j \in Index : slots'[j].awaiting # "none" =>
                   \E i \in Index : slots[i].sid = slots'[j].sid /\ slots[i].awaiting = slots'[j].awaiting
              => slots'[b].sid = slots[a].sid]_vars
  BY DeviceSlots, AnchorKept
<1>4. QED
  BY <1>1, <1>2, <1>3, PTL DEF DeviceSpec, AnchorStays
=============================================================================
