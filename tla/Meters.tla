------------------------------- MODULE Meters --------------------------------
(***************************************************************************)
(* main/perf_mon.c: the counters behind `?perf'.  The LVGL task counts as  *)
(* the display refreshes, the console task on the other core reports what  *)
(* was counted since its last report and starts over.  The accumulators    *)
(* are taken over and cleared inside a critical section, as are the        *)
(* display's own updates, but for the count of flushes, which the code     *)
(* lets tear: it is a load and a store with anything in between.           *)
(*                                                                         *)
(* Times are left out but for whether a cycle took longer than its period, *)
(* as are the maxima; sums of times are added where draw_n is.             *)
(***************************************************************************)
EXTENDS Integers

CONSTANT MaxFrames    \* bound: cycles, and flushes

VARIABLES
  stage,     \* the LVGL task: "rest", "cycle", or at its call of a counter
  drew,      \* s_cyc_drew
  tally,     \* s_w: the accumulators
  mux,       \* who is in the critical section: "lvgl", "console" or "nobody"
  loaded,    \* the flushes as the LVGL task has loaded them
  copied,    \* w: what the console task has copied, while it is inside
  reported,  \* history: the sums over all reports
  counted    \* history: the cycles there were

meters == <<stage, drew, tally, mux, loaded, copied, reported, counted>>

Zero == [refr |-> 0, draw |-> 0, overrun |-> 0, flush |-> 0]

Plus(a, b) == [c \in DOMAIN a |-> a[c] + b[c]]

MetersOff ==
  /\ stage = "rest" /\ drew = FALSE /\ tally = Zero /\ mux = "nobody" /\ loaded = 0
  /\ copied = Zero /\ reported = Zero /\ counted = Zero

-----------------------------------------------------------------------------
(* on_disp_event *)

RefrStart ==
  /\ stage = "rest" /\ counted.refr < MaxFrames
  /\ stage' = "cycle" /\ drew' = FALSE
  /\ UNCHANGED <<tally, mux, loaded, copied, reported, counted>>

RenderStart ==
  /\ stage = "cycle" /\ drew' = TRUE
  /\ UNCHANGED <<stage, tally, mux, loaded, copied, reported, counted>>

FlushLoad ==
  /\ stage = "cycle" /\ drew /\ counted.flush < MaxFrames
  /\ stage' = "flush" /\ loaded' = tally.flush
  /\ UNCHANGED <<drew, tally, mux, copied, reported, counted>>

FlushStore ==
  /\ stage = "flush"
  /\ stage' = "cycle" /\ tally' = [tally EXCEPT !.flush = loaded + 1]
  /\ counted' = [counted EXCEPT !.flush = @ + 1]
  /\ UNCHANGED <<drew, mux, loaded, copied, reported>>

\* What a cycle adds: an idle one is no frame.
Cycle(late) ==
  [refr |-> 1, draw |-> IF drew THEN 1 ELSE 0,
   overrun |-> IF drew /\ late THEN 1 ELSE 0, flush |-> 0]

EnterUnlocked ==             \* mutant: the cycle is added outside the section
  /\ stage = "cycle" /\ stage' = "ready"
  /\ UNCHANGED <<drew, tally, mux, loaded, copied, reported, counted>>

\* LV_EVENT_REFR_READY: into the critical section, and out with the cycle added.
Enter ==
  /\ stage = "cycle" /\ mux = "nobody"
  /\ stage' = "ready" /\ mux' = "lvgl"
  /\ UNCHANGED <<drew, tally, loaded, copied, reported, counted>>

RefrReady ==
  /\ stage = "ready" /\ stage' = "rest"
  /\ \E late \in BOOLEAN :
       tally' = Plus(tally, Cycle(late)) /\ counted' = Plus(counted, Cycle(late))
  /\ mux' = IF mux = "lvgl" THEN "nobody" ELSE mux
  /\ UNCHANGED <<drew, loaded, copied, reported>>

-----------------------------------------------------------------------------
(* cmd_perf *)

Copy ==
  /\ mux = "nobody"
  /\ mux' = "console" /\ copied' = tally
  /\ UNCHANGED <<stage, drew, tally, loaded, reported, counted>>

\* win_reset_locked, and the report of the copy.
Reset ==
  /\ mux = "console" /\ mux' = "nobody"
  /\ tally' = Zero /\ copied' = Zero /\ reported' = Plus(reported, copied)
  /\ UNCHANGED <<stage, drew, loaded, counted>>

MetersNext ==
  \/ RefrStart \/ RenderStart \/ FlushLoad \/ FlushStore \/ Enter \/ RefrReady
  \/ Copy \/ Reset

MetersSpec == MetersOff /\ [][MetersNext]_meters

-----------------------------------------------------------------------------
(* Properties *)

\* Whatever the two cores do to each other, every cycle, every frame and every
\* late one is in exactly one report, or will be in the next.  Flushes are not:
\* one may be lost to a report under way, or all of them reported again.
EachFrameOnce ==
  mux # "console" =>
    \A c \in {"refr", "draw", "overrun"} : reported[c] + tally[c] = counted[c]
=============================================================================
