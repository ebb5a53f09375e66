------------------------------ MODULE HostData -------------------------------
(***************************************************************************)
(* What the panel makes of the host's clock, waits and weather: `dash      *)
(* time' and `dash weather' in main/harness/agent_commands.c, the wait of  *)
(* an agent in main/agent_state.c, and the readers that add the time gone  *)
(* by since.  The panel has no clock of its own: a 32 bit counter of       *)
(* milliseconds that starts with it and wraps.                             *)
(*                                                                         *)
(* Time passes in half seconds, so that the host's whole seconds lose      *)
(* something.  The time zone is added to every reading and left out.       *)
(***************************************************************************)
EXTENDS Integers, Sequences, FiniteSets

CONSTANTS
  TickWrap,    \* the width of lv_tick_get, in half seconds
  MaxDelay,    \* bound: how long a line is under way
  MaxTime      \* bound: how long the host runs

ASSUME Widths == TickWrap \in Nat \ {0} /\ MaxDelay \in Nat /\ MaxDelay < TickWrap

VARIABLES
  host,      \* the host's time
  asking,    \* host: when the agent's wait began, 0 when it works
  mail,      \* the line under way and when it left
  start,     \* when the panel was started last
  clock,     \* host_epoch_unix, host_clock_received_ms
  turn,      \* the slot's awaiting_since_unix and awaiting_entered_ms
  sky,       \* agent_state.weather
  taken,     \* history: when the host's clock was taken over, 0 since the start
  entered    \* history: when the slot's wait was entered

hostData == <<host, asking, mail, start, clock, turn, sky, taken, entered>>

Sec(t) == t \div 2

Tick == (host - start) % TickWrap
Since(stamp) == ((Tick - stamp) % TickWrap) \div 2

NoClock == [epoch |-> 0, stamp |-> 0]
NoTurn == [waits |-> FALSE, since |-> 0, stamp |-> 0]
NoSky == [valid |-> FALSE, loc |-> "", temp |-> "", days |-> ""]

HostOff ==
  /\ host = 2 /\ asking = 0 /\ mail = <<>> /\ start = 2
  /\ clock = NoClock /\ turn = NoTurn /\ sky = NoSky
  /\ taken = 0 /\ entered = 0

-----------------------------------------------------------------------------
(* The host *)

Passes ==
  /\ host < MaxTime
  /\ \A i \in DOMAIN mail : host - mail[i].left < MaxDelay
  /\ host' = host + 1
  /\ UNCHANGED <<asking, mail, start, clock, turn, sky, taken, entered>>

AgentAsks ==
  /\ asking' = IF asking = 0 THEN host ELSE 0
  /\ UNCHANGED <<host, mail, start, clock, turn, sky, taken, entered>>

\* A snapshot with the wait as it is, or the time, in whole seconds.
Sends(about) ==
  /\ mail = <<>>
  /\ mail' = <<[about |-> about, left |-> host,
                says |-> Sec(IF about = "time" THEN host ELSE asking)]>>
  /\ UNCHANGED <<host, asking, start, clock, turn, sky, taken, entered>>

-----------------------------------------------------------------------------
(* The panel *)

Restart ==
  /\ start' = host
  /\ clock' = NoClock /\ turn' = NoTurn /\ sky' = NoSky
  /\ mail' = <<>> /\ taken' = 0 /\ entered' = 0
  /\ UNCHANGED <<host, asking>>

TakeTimeKeepsStamp(epoch) == \* mutant: it counts from the first time received
  clock' = [epoch |-> epoch, stamp |-> IF clock.epoch = 0 THEN Tick ELSE clock.stamp]

TakeTime(epoch) == clock' = [epoch |-> epoch, stamp |-> Tick]

CmdTime ==
  /\ mail # <<>> /\ Head(mail).about = "time"
  /\ TakeTime(Head(mail).says)
  /\ taken' = host /\ mail' = <<>>
  /\ UNCHANGED <<host, asking, start, turn, sky, entered>>

\* agent_state_set_awaiting and agent_state_clear_awaiting: a wait that goes on
\* keeps its entry; its beginning is what the host says.
SetAwaiting ==
  /\ mail # <<>> /\ Head(mail).about = "turn"
  /\ LET since == Head(mail).says
     IN  IF since = 0 THEN turn' = NoTurn /\ entered' = 0
         ELSE /\ turn' = [waits |-> TRUE, since |-> since,
                          stamp |-> IF turn.waits THEN turn.stamp ELSE Tick]
              /\ entered' = IF turn.waits THEN entered ELSE host
  /\ mail' = <<>>
  /\ UNCHANGED <<host, asking, start, clock, sky, taken>>

Days == 5    \* WEATHER_DAYS

\* The list of a report: its days by number, 0 for what is not an object.
Lists == {<<1, 2, 3, 4, 5>>, <<1, 2, 3, 4>>, <<1, 2, 3, 4, 5, 6>>, <<1, 2, 0, 3, 4, 5>>}

Reports == [of : {"a", "b"}, list : Lists, figures : BOOLEAN, loc : {"", "home"}]

\* The objects of the list, in its order, as far as there is room.
Read(words) ==
  LET there == {i \in DOMAIN words.list : words.list[i] # 0}
      n == Cardinality(there)
      nth(k) == CHOOSE i \in there : Cardinality({j \in there : j <= i}) = k
  IN  [k \in 1 .. (IF n < Days THEN n ELSE Days) |-> <<words.of, words.list[nth(k)]>>]

\* cmd_weather: refused without both figures or with too few days; a place that
\* is not named stays.
CmdWeather(words) ==
  /\ sky' = IF words.figures /\ Len(Read(words)) = Days
             THEN [valid |-> TRUE, temp |-> words.of, days |-> Read(words),
                   loc |-> IF words.loc = "" THEN sky.loc ELSE words.loc]
             ELSE sky
  /\ UNCHANGED <<host, asking, mail, start, clock, turn, taken, entered>>

HostNext ==
  \/ Passes \/ AgentAsks \/ \E about \in {"time", "turn"} : Sends(about)
  \/ Restart \/ CmdTime \/ SetAwaiting

\* The weather shares nothing with the time and is played apart.
SkyNext == \E words \in Reports : CmdWeather(words)

-----------------------------------------------------------------------------
(* The readers *)

\* status_bar_format_time and local_now; no time before the first line.
Reading == clock.epoch + Since(clock.stamp)

\* awaiting_elapsed_s: by the host's clock when it is known and has reached the
\* beginning of the wait, else by the panel's own; a stamp of zero means none.
Elapsed ==
  IF turn.since # 0 /\ clock.epoch # 0 /\ Reading >= turn.since
    THEN Reading - turn.since
  ELSE IF turn.stamp # 0 THEN Since(turn.stamp) ELSE 0

\* A line is at most this old when it is read, and the host's seconds are whole.
Lag == MaxDelay \div 2 + 1

\* The counter has not come round since the time was received.
Young == taken # 0 /\ host - taken < TickWrap

\* The time on the panel is the host's: never ahead and at most the lag behind.
ClockRight == Young => Sec(host) - Reading \in 0 .. Lag

\* The length of a wait is the host's too, over restarts of the panel and
\* whichever of its lines comes first, where the panel's own entry of the wait
\* is not older than the wait.
WaitRight ==
  turn.waits /\ Young /\ Sec(entered) >= turn.since =>
    (Sec(host) - turn.since) - Elapsed \in 0 .. Lag

\* A forecast that is shown is one report, whole and in order, whatever the list
\* of a report has too few or too many of, or that is not a day (cmd_weather).
ForecastWhole ==
  sky.valid => sky.days = [i \in 1 .. Days |-> <<sky.temp, i>>]

\* What the panel says of time, waits and weather is what the host has said.
AsTheHostSays == ClockRight /\ WaitRight /\ ForecastWhole
=============================================================================
