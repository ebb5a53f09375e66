------------------------- MODULE SnapshotLink_proofs -------------------------
(***************************************************************************)
(* The link, for every set of snapshots: its types, that the opens of the  *)
(* port are single-flight, and that the publisher is right about the panel *)
(* it dedupes against.                                                     *)
(***************************************************************************)
EXTENDS SnapshotLink, TLAPS

LEMMA LinkInit == Init => TypeOK /\ SingleFlight
BY Distinct DEF Init, TypeOK, SingleFlight

\* What the two threads at the port do.
LEMMA OpenStep ==
  ASSUME TypeOK, SingleFlight, NEW w \in {"main", "rec"}, Open(w)
  PROVE  TypeOK' /\ SingleFlight'
BY DEF TypeOK, SingleFlight, Open, publisher, world

LEMMA WorkerStep ==
  ASSUME TypeOK, SingleFlight, WorkerEnds
  PROVE  TypeOK' /\ SingleFlight'
BY DEF TypeOK, SingleFlight, WorkerEnds, Joined, publisher, world

LEMMA TimeoutStep ==
  ASSUME TypeOK, SingleFlight, NEW w \in {"main", "rec"}, JoinTimesOut(w)
  PROVE  TypeOK' /\ SingleFlight'
BY DEF TypeOK, SingleFlight, JoinTimesOut, publisher, link, world

\* What may start the reconnect thread, which it does only when that one has ended.
LEMMA ScheduleStep ==
  ASSUME TypeOK, SingleFlight, Notice \/ PollReconnects
  PROVE  TypeOK' /\ SingleFlight'
BY Distinct DEF TypeOK, SingleFlight, Notice, PollReconnects, Scheduled, Serving, publisher, link, world

LEMMA TickStep ==
  ASSUME TypeOK, SingleFlight, Tick
  PROVE  TypeOK' /\ SingleFlight'
<1>1. CASE TickStart
  BY <1>1, Distinct DEF TypeOK, SingleFlight, TickStart, link, world
<1>2. CASE PushGrab
  BY <1>2 DEF TypeOK, SingleFlight, PushGrab, Scheduled, link, world
<1>3. CASE PushWrite
  BY <1>3 DEF TypeOK, SingleFlight, PushWrite, Write, Scheduled, link
<1>4. CASE TickSent
  BY <1>4 DEF TypeOK, SingleFlight, TickSent, link, world
<1>5. CASE TickFailed
  BY <1>5 DEF TypeOK, SingleFlight, TickFailed, link, world
<1> QED
  BY <1>1, <1>2, <1>3, <1>4, <1>5 DEF Tick

\* The reconnect thread: its own open is OpenStep.
LEMMA RecStep ==
  ASSUME TypeOK, SingleFlight, Rec
  PROVE  TypeOK' /\ SingleFlight'
<1>1. CASE RecCloses
  BY <1>1 DEF TypeOK, SingleFlight, RecCloses, world
<1>2. CASE Open("rec")
  BY <1>2, OpenStep
<1>3. CASE RecRetries
  BY <1>3 DEF TypeOK, SingleFlight, RecRetries, publisher, link, world
<1>4. CASE RecHook
  BY <1>4 DEF TypeOK, SingleFlight, RecHook, PushConfig, ForcePush, link
<1>5. CASE RecTakes
  BY <1>5, Distinct DEF TypeOK, SingleFlight, RecTakes, link, world
<1>6. CASE RecReplays
  BY <1>6, Distinct DEF TypeOK, SingleFlight, RecReplays, Write, publisher, link
<1> QED
  BY <1>1, <1>2, <1>3, <1>4, <1>5, <1>6 DEF Rec

LEMMA MainStep ==
  ASSUME TypeOK, SingleFlight, DeadlinePasses \/ MainRetries \/ MainHook
  PROVE  TypeOK' /\ SingleFlight'
<1>1. CASE DeadlinePasses
  BY <1>1 DEF TypeOK, SingleFlight, DeadlinePasses, publisher, link, world
<1>2. CASE MainRetries
  BY <1>2 DEF TypeOK, SingleFlight, MainRetries, publisher, link, world
<1>3. CASE MainHook
  BY <1>3 DEF TypeOK, SingleFlight, MainHook, PushConfig, publisher, link
<1> QED
  BY <1>1, <1>2, <1>3

\* Poller and late timer: what they force is pushed by the publisher.
LEMMA ResyncStep ==
  ASSUME TypeOK, SingleFlight, PollTells \/ TimerRipens \/ TimerFires
  PROVE  TypeOK' /\ SingleFlight'
<1>1. CASE PollTells
  BY <1>1 DEF TypeOK, SingleFlight, PollTells, ForcePush, link
<1>2. CASE TimerRipens
  BY <1>2 DEF TypeOK, SingleFlight, TimerRipens, publisher, link, world
<1>3. CASE TimerFires
  BY <1>3 DEF TypeOK, SingleFlight, TimerFires, PushConfig, ForcePush, Scheduled, link
<1> QED
  BY <1>1, <1>2, <1>3

LEMMA WorldStep ==
  ASSUME TypeOK, SingleFlight, PortLost \/ PortBack \/ SilentBoot \/ Booted
  PROVE  TypeOK' /\ SingleFlight'
<1>1. CASE PortLost
  BY <1>1 DEF TypeOK, SingleFlight, PortLost, Boot, publisher
<1>2. CASE PortBack
  BY <1>2 DEF TypeOK, SingleFlight, PortBack, publisher, link
<1>3. CASE SilentBoot
  BY <1>3 DEF TypeOK, SingleFlight, SilentBoot, Boot, publisher, link
<1>4. CASE Booted
  BY <1>4 DEF TypeOK, SingleFlight, Booted, publisher, link
<1> QED
  BY <1>1, <1>2, <1>3, <1>4

LEMMA RegistryStep ==
  ASSUME TypeOK, SingleFlight, (\E s \in Snaps : Change(s)) \/ Bump \/ KeepaliveDue
  PROVE  TypeOK' /\ SingleFlight'
<1>1. CASE \E s \in Snaps : Change(s)
  BY <1>1 DEF TypeOK, SingleFlight, Change, publisher, link, world
<1>2. CASE Bump
  BY <1>2 DEF TypeOK, SingleFlight, Bump, publisher, link, world
<1>3. CASE KeepaliveDue
  BY <1>3 DEF TypeOK, SingleFlight, KeepaliveDue, link, world
<1> QED
  BY <1>1, <1>2, <1>3

LEMMA LinkStep ==
  TypeOK /\ SingleFlight /\ [Next]_vars => TypeOK' /\ SingleFlight'
<1> SUFFICES ASSUME TypeOK, SingleFlight, [Next]_vars
             PROVE  TypeOK' /\ SingleFlight'
  OBVIOUS
<1>1. CASE UNCHANGED vars
  BY <1>1 DEF TypeOK, SingleFlight, vars, publisher, link, world
<1>2. CASE (\E s \in Snaps : Change(s)) \/ Bump \/ KeepaliveDue
  BY <1>2, RegistryStep
<1>3. CASE Tick
  BY <1>3, TickStep
<1>4. CASE Open("main")
  BY <1>4, OpenStep
<1>5. CASE WorkerEnds
  BY <1>5, WorkerStep
<1>6. CASE \E w \in {"main", "rec"} : JoinTimesOut(w)
  BY <1>6, TimeoutStep
<1>7. CASE DeadlinePasses \/ MainRetries \/ MainHook
  BY <1>7, MainStep
<1>8. CASE Rec
  BY <1>8, RecStep
<1>9. CASE Notice \/ PollReconnects
  BY <1>9, ScheduleStep
<1>10. CASE PollTells \/ TimerRipens \/ TimerFires
  BY <1>10, ResyncStep
<1>11. CASE PortLost \/ PortBack \/ SilentBoot \/ Booted
  BY <1>11, WorldStep
<1> QED
  BY <1>1, <1>2, <1>3, <1>4, <1>5, <1>6, <1>7, <1>8, <1>9, <1>10, <1>11 DEF Next

-----------------------------------------------------------------------------

LEMMA LinkInvariant == Spec => [](TypeOK /\ SingleFlight)
BY LinkInit, LinkStep, PTL DEF Spec

\* TypeOK: every field that the threads of SnapshotPublisher and DevicePusher
\* share keeps its type, the publisher holds a snapshot exactly while it ticks
\* and the reconnect thread one exactly while it replays.
THEOREM TypeCorrect == Spec => []TypeOK
BY LinkInvariant, PTL

\* SingleFlight: whoever waits in _open_session waits for the worker he has
\* started, however many opens hang or time out.
THEOREM OneOpenAtATime == Spec => []SingleFlight
BY LinkInvariant, PTL
-----------------------------------------------------------------------------
(* What the bridge believes of the panel *)

\* Nobody knows what the panel shows: the session is not open, or its
\* reconnect has not yet come to the hook; a boot is not yet told; or the
\* late resync may still overlap what was under way when it was set.
Unsure ==
  \/ session # "open"
  \/ pc.rec \in {"loop", "open", "join", "backoff", "hook"}
  \/ untold = "yes"
  \/ timer = "set"

\* What makes BeliefHolds inductive.  A boot and a replay only happen while the
\* panel is unsure, a session can only come up to such a state or to one where
\* nothing has been pushed, and what a sure write has put on the panel is there.
BeliefInv ==
  /\ device = "booting" => untold = "yes" \/ timer = "set"
  /\ pc.rec \in {"take", "replay"} => timer = "set"
  /\ session = "none" =>
       /\ pc.rec \in {"dead", "loop", "open", "join", "backoff"}
       /\ pc.rec = "dead" => lastJson = Nothing /\ tick \notin {"write", "sent"}
  /\ ~Unsure =>
       /\ tick = "sent" => panel = snap
       /\ timer = "none" /\ tick # "sent" /\ lastJson # Nothing => panel = lastJson

LEMMA BeliefInit == Init => BeliefInv
BY Distinct DEF Init, BeliefInv, Unsure

\* A step that starts from a sure panel, or ends in an unsure one, is all that
\* the last conjunct is about.
LEMMA BeliefTick ==
  ASSUME TypeOK, BeliefInv, Tick
  PROVE  BeliefInv'
<1> USE DEF TypeOK, BeliefInv, Unsure
<1>1. CASE TickStart
  BY <1>1 DEF TickStart, link, world
<1>2. CASE PushGrab
  BY <1>2 DEF PushGrab, Scheduled, link, world
<1>3. CASE PushWrite
  BY <1>3 DEF PushWrite, Write, Scheduled, link
<1>4. CASE TickSent
  BY <1>4 DEF TickSent, link, world
<1>5. CASE TickFailed
  BY <1>5 DEF TickFailed, link, world
<1> QED
  BY <1>1, <1>2, <1>3, <1>4, <1>5 DEF Tick

LEMMA BeliefRec ==
  ASSUME TypeOK, BeliefInv, Rec
  PROVE  BeliefInv'
<1> USE DEF TypeOK, BeliefInv, Unsure
<1>1. CASE RecCloses
  BY <1>1 DEF RecCloses, world
<1>2. CASE Open("rec")
  BY <1>2 DEF Open, publisher, world
<1>3. CASE RecRetries
  BY <1>3 DEF RecRetries, publisher, link, world
<1>4. CASE RecHook
  BY <1>4 DEF RecHook, PushConfig, ForcePush, link
<1>5. CASE RecTakes
  BY <1>5, Distinct DEF RecTakes, link, world
<1>6. CASE RecReplays
  BY <1>6, Distinct DEF RecReplays, Write, publisher, link
<1> QED
  BY <1>1, <1>2, <1>3, <1>4, <1>5, <1>6 DEF Rec

LEMMA BeliefOpen ==
  ASSUME TypeOK, SingleFlight, BeliefInv,
         Open("main") \/ WorkerEnds \/ \E w \in {"main", "rec"} : JoinTimesOut(w)
  PROVE  BeliefInv'
<1> USE DEF TypeOK, SingleFlight, BeliefInv, Unsure
<1>1. CASE Open("main")
  BY <1>1 DEF Open, publisher, world
<1>2. CASE WorkerEnds
  BY <1>2 DEF WorkerEnds, Joined, publisher, world
<1>3. ASSUME NEW w \in {"main", "rec"}, JoinTimesOut(w)
      PROVE  BeliefInv'
  BY <1>3 DEF JoinTimesOut, publisher, link, world
<1> QED
  BY <1>1, <1>2, <1>3

LEMMA BeliefResync ==
  ASSUME TypeOK, BeliefInv, Notice \/ PollReconnects \/ PollTells \/ TimerRipens \/ TimerFires
  PROVE  BeliefInv'
<1> USE DEF TypeOK, BeliefInv, Unsure
<1>1. CASE Notice \/ PollReconnects
  BY <1>1 DEF Notice, PollReconnects, Scheduled, publisher, link, world
<1>2. CASE PollTells
  BY <1>2 DEF PollTells, ForcePush, link
<1>3. CASE TimerRipens
  BY <1>3 DEF TimerRipens, publisher, link, world
<1>4. CASE TimerFires
  BY <1>4 DEF TimerFires, PushConfig, ForcePush, Scheduled, link
<1> QED
  BY <1>1, <1>2, <1>3, <1>4

LEMMA BeliefRest ==
  ASSUME TypeOK, BeliefInv,
         \/ (\E s \in Snaps : Change(s)) \/ Bump \/ KeepaliveDue
         \/ DeadlinePasses \/ MainRetries \/ MainHook
         \/ PortLost \/ PortBack \/ SilentBoot \/ Booted
  PROVE  BeliefInv'
<1> USE DEF TypeOK, BeliefInv, Unsure
<1>1. CASE (\E s \in Snaps : Change(s)) \/ Bump \/ KeepaliveDue
  BY <1>1 DEF Change, Bump, KeepaliveDue, publisher, link, world
<1>2. CASE DeadlinePasses \/ MainRetries
  BY <1>2 DEF DeadlinePasses, MainRetries, publisher, link, world
<1>3. CASE MainHook
  BY <1>3 DEF MainHook, PushConfig, publisher, link
<1>4. CASE PortLost
  BY <1>4 DEF PortLost, Boot, publisher
<1>5. CASE PortBack \/ SilentBoot \/ Booted
  BY <1>5 DEF PortBack, SilentBoot, Booted, Boot, publisher, link
<1> QED
  BY <1>1, <1>2, <1>3, <1>4, <1>5

LEMMA BeliefStep ==
  TypeOK /\ SingleFlight /\ BeliefInv /\ [Next]_vars => BeliefInv'
<1> SUFFICES ASSUME TypeOK, SingleFlight, BeliefInv, [Next]_vars
             PROVE  BeliefInv'
  OBVIOUS
<1>1. CASE UNCHANGED vars
  BY <1>1 DEF BeliefInv, Unsure, vars, publisher, link, world
<1>2. CASE Next
  BY <1>2, BeliefTick, BeliefRec, BeliefOpen, BeliefResync, BeliefRest DEF Next
<1> QED
  BY <1>1, <1>2

LEMMA BeliefFollows == BeliefInv => BeliefHolds
BY DEF BeliefInv, Unsure, BeliefHolds, Settled

\* BeliefHolds: what SnapshotPublisher dedupes against is what the panel shows,
\* whenever the link is at rest and the late resync is over, for every set of
\* snapshots and however ticks, replays, reconnects, boots and losses cross.
THEOREM BeliefCorrect == Spec => []BeliefHolds
BY LinkInit, LinkStep, BeliefInit, BeliefStep, BeliefFollows, PTL DEF Spec
=============================================================================
