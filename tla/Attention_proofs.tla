--------------------------- MODULE Attention_proofs ---------------------------
(***************************************************************************)
(* Who decides the view, for any agents and any number of key presses      *)
(* under way: a key goes where it says (of several pending together the    *)
(* first), a returned turn's pull stands, and the poll does not grab back  *)
(* what the user has dismissed.                                            *)
(***************************************************************************)
EXTENDS Attention, FiniteSetTheorems, SequenceTheorems, TLAPS

-----------------------------------------------------------------------------
(* The transition machine, as the deciders see it *)

\* A target is pending during the whole of an outro and never when idle: what
\* SceneTrans_proofs needs of any number of scenes.
MachineOK ==
  /\ Trans!TypeOK
  /\ state = "IDLE" => pending = None
  /\ state = "OUTRO" => pending # None

LEMMA ThreeScenes ==
  /\ Scenes = {Dash, Weather, Clock} /\ None \notin Scenes /\ None = -1
  /\ Dash = 0 /\ Weather = 1 /\ Clock = 2
BY DEF Scenes, None, Trans!Scenes, Trans!None, Dash, Weather, Clock

LEMMA HoldTyped ==
  ASSUME Trans!TypeOK, Trans!RefrHold \/ Trans!RefrDrop \/ UNCHANGED Trans!tier
  PROVE  /\ holding' \in SUBSET {"scene_trans"} /\ holders' \in Nat
         /\ period' \in {"active", "idle"}
<1>1. CASE UNCHANGED Trans!tier
  BY <1>1 DEF Trans!tier, Trans!TypeOK
<1>2. CASE Trans!MotionHold("scene_trans")
  BY <1>2 DEF Trans!MotionHold, Trans!TypeOK
<1>3. CASE Trans!MotionRelease("scene_trans")
  BY <1>3 DEF Trans!MotionRelease, Trans!TypeOK
<1> QED
  BY <1>1, <1>2, <1>3 DEF Trans!RefrHold, Trans!RefrDrop

\* A switch to t makes t the target; a switch to the scene shown by an idle
\* display is no switch.
LEMMA SwitchIs ==
  ASSUME MachineOK, NEW t \in Scenes, Trans!Switch(t)
  PROVE  MachineOK' /\ Target' = t
<1> USE ThreeScenes DEF MachineOK, Trans!TypeOK, Target, Trans!Target, Scenes, None
<1>1. CASE Trans!StartTransition(t)
  <2>1. holding' \in SUBSET {"scene_trans"} /\ holders' \in Nat /\ period' \in {"active", "idle"}
    BY <1>1, HoldTyped DEF Trans!StartTransition, Trans!CutTo
  <2> QED
    BY <1>1, <2>1 DEF Trans!StartTransition, Trans!PlayOutro, Trans!CutTo
<1>2. CASE Trans!Retarget(t)
  BY <1>2 DEF Trans!Retarget, Trans!PlayOutro, Trans!tier
<1> QED
  BY <1>1, <1>2 DEF Trans!Switch

\* The machine's own steps leave the target alone.
LEMMA StepIs ==
  ASSUME MachineOK, Trans!Step
  PROVE  MachineOK' /\ Target' = Target
<1> USE ThreeScenes DEF MachineOK, Trans!TypeOK, Target, Trans!Target, Scenes, None
<1>1. CASE Trans!EndOutro
  <2>1. holding' \in SUBSET {"scene_trans"} /\ holders' \in Nat /\ period' \in {"active", "idle"}
    BY <1>1, HoldTyped DEF Trans!EndOutro
  <2> QED
    BY <1>1, <2>1 DEF Trans!EndOutro, Trans!CutTo, Trans!Courses
<1>2. CASE Trans!EndIntro
  <2>1. holding' \in SUBSET {"scene_trans"} /\ holders' \in Nat /\ period' \in {"active", "idle"}
    BY <1>2, HoldTyped DEF Trans!EndIntro
  <2> QED
    BY <1>2, <2>1 DEF Trans!EndIntro, Trans!PlayOutro
<1> QED
  BY <1>1, <1>2 DEF Trans!Step

LEMMA Rests ==
  ASSUME MachineOK, UNCHANGED trans
  PROVE  MachineOK' /\ Target' = Target
BY DEF MachineOK, trans, Trans!TypeOK, Target, Trans!Target

-----------------------------------------------------------------------------
(* The invariant *)

\* What makes KeyDecides inductive: while keys are queued, the one that will be
\* run last is the first that was handed over.  And NoRegrab: a turn is
\* dismissed only after the poll has seen its edge, so that its next poll is not
\* an edge again.
FirstRunsLast ==
  firstKey # None =>
    IF queue = <<>> THEN Target = firstKey ELSE queue[Len(queue)] = firstKey

SeenBeforeDismissed == dismissed = "yes" => prevEff = "yes"

\* TypeOK without the count of keys.
PlainTypes ==
  /\ awaiting \subseteq Agents
  /\ link \in {"up", "lost"}
  /\ due \subseteq {"idle", "offline"}
  /\ prevEff \in {"no", "yes"}
  /\ covered \in Scenes \union {None}
  /\ press \in [Scenes -> {"up", "touched", "consumed"}]
  /\ queue \in Seq(Scenes) /\ drain \in {"on", "off"}
  /\ firstKey \in Scenes \union {None}
  /\ pulled \in {"none", "settled", "leaving"}
  /\ dismissed \in {"no", "yes"}

DecidersInv ==
  /\ MachineOK
  /\ PlainTypes
  /\ InFlight <= MaxPresses
  /\ FirstRunsLast
  /\ PullStands
  /\ SeenBeforeDismissed

LEMMA DecidersInit == Init => DecidersInv
<1> SUFFICES ASSUME Init PROVE DecidersInv
  OBVIOUS
<1> USE ThreeScenes DEF Init, Trans!Init, Scenes, None
<1>1. MachineOK
  BY DEF MachineOK, Trans!TypeOK
<1>2. PlainTypes
  BY DEF PlainTypes
<1>3. {k \in Scenes : press[k] # "up"} = {}
  OBVIOUS
<1>4. InFlight <= MaxPresses
  BY <1>3, FS_EmptySet, SomeAgents DEF InFlight
<1> QED
  BY <1>1, <1>2, <1>4 DEF DecidersInv, FirstRunsLast, PullStands, SeenBeforeDismissed

\* A queue loses its first key and keeps its last.
LEMMA TailKeepsLast ==
  ASSUME NEW q \in Seq(Scenes), q # <<>>
  PROVE  /\ Head(q) \in Scenes /\ Tail(q) \in Seq(Scenes)
         /\ Len(Tail(q)) = Len(q) - 1 /\ Len(q) \in Nat \ {0}
         /\ Tail(q) = <<>> => q[Len(q)] = Head(q)
         /\ Tail(q) # <<>> => Tail(q)[Len(Tail(q))] = q[Len(q)]
<1>1. Len(q) \in Nat \ {0} /\ Head(q) = q[1] /\ Head(q) \in Scenes /\ Tail(q) \in Seq(Scenes)
      /\ Len(Tail(q)) = Len(q) - 1
  OBVIOUS
<1>2. ASSUME Tail(q) # <<>> PROVE Tail(q)[Len(Tail(q))] = q[Len(q)]
  <2>1. Len(Tail(q)) \in 1 .. Len(Tail(q))
    BY <1>1, <1>2
  <2> QED
    BY <1>1, <2>1
<1>3. ASSUME Tail(q) = <<>> PROVE Len(q) = 1
  <2>1. Len(Tail(q)) = 0
    BY <1>3, EmptySeq
  <2>2. PICK n \in Nat : Len(q) = n
    BY <1>1
  <2>3. n - 1 = 0
    BY <1>1, <2>1, <2>2
  <2> QED
    BY <2>2, <2>3
<1> QED
  BY <1>1, <1>2, <1>3

\* A queue that gains a key at its head keeps its last, if it had one.
LEMMA PushKeepsLast ==
  ASSUME NEW q \in Seq(Scenes), NEW k \in Scenes
  PROVE  /\ <<k>> \o q \in Seq(Scenes) /\ <<k>> \o q # <<>>
         /\ Len(<<k>> \o q) = Len(q) + 1 /\ Len(q) \in Nat
         /\ (<<k>> \o q)[Len(q) + 1] = IF q = <<>> THEN k ELSE q[Len(q)]
<1>1. <<k>> \in Seq(Scenes) /\ Len(<<k>>) = 1 /\ <<k>>[1] = k /\ Len(q) \in Nat
  OBVIOUS
<1>2. /\ <<k>> \o q \in Seq(Scenes) /\ Len(<<k>> \o q) = Len(q) + 1
      /\ \A i \in 1 .. Len(<<k>>) + Len(q) :
           (<<k>> \o q)[i] = IF i <= Len(<<k>>) THEN <<k>>[i] ELSE q[i - Len(<<k>>)]
  BY <1>1, ConcatProperties
<1>3. (<<k>> \o q)[Len(q) + 1] = IF Len(q) + 1 <= 1 THEN k ELSE q[Len(q) + 1 - 1]
  BY <1>1, <1>2
<1>4. q = <<>> <=> Len(q) = 0
  OBVIOUS
<1>5. <<k>> \o q # <<>>
  BY <1>1, <1>2
<1> QED
  BY <1>1, <1>2, <1>3, <1>4, <1>5

\* A key moves: the count of the keys under way.
LEMMA HeldFinite == IsFiniteSet({k \in Scenes : press[k] # "up"})
<1>1. IsFiniteSet(Scenes)
  <2>1. Scenes = 0 .. 2
    BY DEF Scenes, Trans!Scenes
  <2>2. \A n, m \in Int : IsFiniteSet(n .. m)
    BY FS_Interval
  <2>3. 0 \in Int /\ 2 \in Int
    OBVIOUS
  <2> QED
    BY <2>1, <2>2, <2>3, Zenon
<1> QED
  BY <1>1, FS_Subset

\* Whoever decides: the poll and the host switch in the same way.
LEMMA OtherSwitches ==
  ASSUME DecidersInv, NEW t \in Scenes, SwitchByOther(t), UNCHANGED queue
  PROVE  /\ MachineOK' /\ Target' = t /\ FirstRunsLast'
         /\ firstKey' \in Scenes \union {None}
BY SwitchIs DEF DecidersInv, SwitchByOther, FirstRunsLast, PlainTypes

-----------------------------------------------------------------------------
(* Steps *)

LEMMA AgentStep ==
  ASSUME DecidersInv, (\E a \in SUBSET Agents : ApplySnapshot(a)) \/ Touch \/ TimePasses
  PROVE  DecidersInv'
<1>1. UNCHANGED <<trans, prevEff, covered, keys, history>>
  BY DEF ApplySnapshot, Touch, TimePasses
<1>2. awaiting' \subseteq Agents /\ link' \in {"up", "lost"} /\ due' \subseteq {"idle", "offline"}
  BY DEF DecidersInv, PlainTypes, ApplySnapshot, Touch, TimePasses
<1>3. MachineOK' /\ Target' = Target
  BY <1>1, Rests DEF DecidersInv
<1> QED
  BY <1>1, <1>2, <1>3 DEF DecidersInv, PlainTypes, keys, history, InFlight, FirstRunsLast,
     PullStands, SeenBeforeDismissed

LEMMA HostStep ==
  ASSUME DecidersInv, NEW t \in Scenes, HostSwitch(t)
  PROVE  DecidersInv'
<1>1. UNCHANGED <<agentState, prevEff, covered, keys, dismissed>> /\ pulled' = "none"
      /\ SwitchByOther(t)
  BY DEF HostSwitch
<1>2. MachineOK' /\ FirstRunsLast' /\ firstKey' \in Scenes \union {None}
  BY <1>1, OtherSwitches DEF keys
<1> QED
  BY <1>1, <1>2 DEF DecidersInv, PlainTypes, agentState, keys, InFlight, PullStands,
     SeenBeforeDismissed

LEMMA PressStep ==
  ASSUME DecidersInv, NEW k \in Scenes, PressTouch(k) \/ PressConsume(k) \/ PressEnqueue(k)
  PROVE  DecidersInv'
<1> DEFINE held == {j \in Scenes : press[j] # "up"}
           heldN == {j \in Scenes : press'[j] # "up"}
<1>0. /\ IsFiniteSet(held) /\ Cardinality(held) \in Nat /\ Len(queue) \in Nat
      /\ InFlight = Cardinality(held) + Len(queue)
      /\ InFlight' = Cardinality(heldN) + Len(queue')
      /\ press \in [Scenes -> {"up", "touched", "consumed"}]
      /\ InFlight <= MaxPresses /\ MaxPresses \in Nat
  BY HeldFinite, FS_CardinalityType, SomeAgents DEF DecidersInv, PlainTypes, InFlight
<1>1. MachineOK' /\ Target' = Target
  BY Rests DEF DecidersInv, PressTouch, PressConsume, PressEnqueue
<1>2. CASE PressTouch(k)
  <2>1. /\ press' = [press EXCEPT ![k] = "touched"] /\ press[k] = "up" /\ InFlight < MaxPresses
        /\ due' = {} /\ UNCHANGED <<awaiting, link, prevEff, covered, queue, drain, history>>
    BY <1>2 DEF PressTouch
  <2>2. heldN = held \union {k} /\ k \notin held
    BY <1>0, <2>1
  <2>3. Cardinality(heldN) = Cardinality(held) + 1
    BY <1>0, <2>2, FS_AddElement
  <2>4. InFlight' <= MaxPresses
    BY <1>0, <2>1, <2>3
  <2> QED
    BY <1>1, <2>1, <2>4 DEF DecidersInv, PlainTypes, history, FirstRunsLast, PullStands,
       SeenBeforeDismissed
<1>3. CASE PressConsume(k)
  <2>1. /\ press' = [press EXCEPT ![k] = "consumed"] /\ press[k] = "touched"
        /\ covered' = None /\ UNCHANGED <<agentState, prevEff, queue, drain, history>>
    BY <1>3 DEF PressConsume
  <2>2. heldN = held
    BY <1>0, <2>1
  <2>3. InFlight' <= MaxPresses
    BY <1>0, <2>1, <2>2
  <2> QED
    BY <1>1, <2>1, <2>3 DEF DecidersInv, PlainTypes, agentState, history, FirstRunsLast,
       PullStands, SeenBeforeDismissed
<1>4. CASE PressEnqueue(k)
  <2>1. /\ press' = [press EXCEPT ![k] = "up"] /\ press[k] = "consumed"
        /\ queue' = <<k>> \o queue /\ firstKey' = IF queue = <<>> THEN k ELSE firstKey
        /\ UNCHANGED <<agentState, prevEff, covered, drain, pulled, dismissed>>
    BY <1>4 DEF PressEnqueue
  <2>2. heldN = held \ {k} /\ k \in held
    BY <1>0, <2>1
  <2>3. Cardinality(heldN) = Cardinality(held) - 1
    BY <1>0, <2>2, FS_RemoveElement
  <2>4. queue' \in Seq(Scenes) /\ queue' # <<>> /\ Len(queue') = Len(queue) + 1
        /\ queue'[Len(queue')] = IF queue = <<>> THEN k ELSE queue[Len(queue)]
    BY <2>1, PushKeepsLast DEF DecidersInv, PlainTypes
  <2>5. InFlight' <= MaxPresses
    BY <1>0, <2>3, <2>4
  <2> QED
    BY <1>1, <2>1, <2>4, <2>5 DEF DecidersInv, PlainTypes, agentState, FirstRunsLast,
       PullStands, SeenBeforeDismissed
<1> QED
  BY <1>2, <1>3, <1>4

LEMMA GoSceneStep ==
  ASSUME DecidersInv, GoScene
  PROVE  DecidersInv'
<1>1. /\ queue # <<>> /\ queue' = Tail(queue) /\ queue \in Seq(Scenes)
      /\ UNCHANGED <<agentState, prevEff, covered, press, firstKey>> /\ drain' \in {"on", "off"}
  BY DEF GoScene, DecidersInv, PlainTypes
<1>2. /\ MachineOK' /\ Target' = Head(queue)
      /\ \/ UNCHANGED <<pulled, dismissed>> /\ Target' = Target
         \/ pulled' = "none" /\ dismissed' \in {"yes", "no"} /\ (dismissed' = "yes" => prevEff = "yes")
  BY <1>1, TailKeepsLast, SwitchIs, Rests DEF GoScene, DecidersInv
<1>3. FirstRunsLast'
  BY <1>1, <1>2, TailKeepsLast DEF DecidersInv, FirstRunsLast
<1>4. InFlight' <= MaxPresses
  <2>1. Cardinality({k \in Scenes : press[k] # "up"}) \in Nat
    BY HeldFinite, FS_CardinalityType
  <2>2. InFlight' = Cardinality({k \in Scenes : press[k] # "up"}) + Len(Tail(queue))
    BY <1>1 DEF InFlight
  <2> QED
    BY <1>1, <2>1, <2>2, TailKeepsLast, SomeAgents DEF InFlight, DecidersInv
<1>5. PlainTypes'
  BY <1>1, <1>2, TailKeepsLast DEF DecidersInv, PlainTypes, agentState
<1> QED
  BY <1>1, <1>2, <1>3, <1>4, <1>5 DEF DecidersInv, PullStands, SeenBeforeDismissed

\* While an agent awaits on a live link, no road leads into the saver.
LEMMA NoSaverWhileAwaiting == EffAwaiting => ~SaverWanted
BY DEF EffAwaiting, SaverWanted

\* What the second half of the poll may do to the display.
LEMMA SaverIs ==
  ASSUME DecidersInv, Saver, UNCHANGED queue
  PROVE  /\ MachineOK' /\ FirstRunsLast'
         /\ firstKey' \in Scenes \union {None} /\ covered' \in Scenes \union {None}
         /\ ~SaverWanted => Target' = Target
<1> USE DEF DecidersInv
<1>1. CASE UNCHANGED <<trans, firstKey>> /\ covered' \in {covered, None}
  BY <1>1, Rests DEF FirstRunsLast, PlainTypes
<1>2. CASE covered' = current /\ SwitchByOther(Clock) /\ SaverWanted
  <2>1. current \in Scenes /\ Clock \in Scenes
    BY ThreeScenes DEF MachineOK, Trans!TypeOK, Scenes
  <2> QED
    BY <1>2, <2>1, OtherSwitches
<1> QED
  BY <1>1, <1>2 DEF Saver

LEMMA PollStep ==
  ASSUME DecidersInv, Poll
  PROVE  /\ DecidersInv'
         /\ dismissed = "yes" /\ dismissed' = "yes" /\ Target # Dash => Target' # Dash
<1>1. /\ prevEff' = IF EffAwaiting THEN "yes" ELSE "no"
      /\ pulled' = IF ~EffAwaiting THEN "none"
                   ELSE IF Edge THEN IF Target = current THEN "settled" ELSE "leaving"
                   ELSE pulled
      /\ dismissed' = IF EffAwaiting THEN dismissed ELSE "no"
      /\ UNCHANGED <<agentState, keys>>
      /\ IF Edge /\ current # Dash
           THEN SwitchByOther(Dash) /\ UNCHANGED covered
           ELSE Saver
  BY DEF Poll
<1>2. /\ MachineOK' /\ FirstRunsLast'
      /\ firstKey' \in Scenes \union {None} /\ covered' \in Scenes \union {None}
      /\ Edge /\ current # Dash => Target' = Dash
      /\ EffAwaiting /\ ~(Edge /\ current # Dash) => Target' = Target
  <2>1. CASE Edge /\ current # Dash
    <3>1. Dash \in Scenes
      BY ThreeScenes
    <3> QED
      BY <1>1, <2>1, <3>1, OtherSwitches DEF DecidersInv, PlainTypes, keys
  <2>2. CASE ~(Edge /\ current # Dash)
    BY <1>1, <2>2, SaverIs, NoSaverWhileAwaiting DEF keys
  <2> QED
    BY <2>1, <2>2
<1>3. PlainTypes'
  <2>1. pulled' \in {"none", "settled", "leaving"} /\ prevEff' \in {"no", "yes"}
        /\ dismissed' \in {"no", "yes"}
    BY <1>1 DEF DecidersInv, PlainTypes
  <2> QED
    BY <1>1, <1>2, <2>1 DEF DecidersInv, PlainTypes, agentState, keys
<1>4. InFlight' <= MaxPresses
  BY <1>1 DEF DecidersInv, InFlight, keys
<1>5. PullStands'
  <2> SUFFICES ASSUME pulled' = "settled" PROVE Target' = Dash
    BY DEF PullStands
  <2>1. EffAwaiting /\ (Edge => Target = current) /\ (~Edge => Target = Dash)
    BY <1>1 DEF DecidersInv, PullStands
  <2> QED
    BY <1>2, <2>1
<1>6. SeenBeforeDismissed'
  BY <1>1 DEF SeenBeforeDismissed
<1>7. ASSUME dismissed = "yes", dismissed' = "yes", Target # Dash
      PROVE  Target' # Dash
  <2>1. EffAwaiting /\ ~Edge
    BY <1>1, <1>7 DEF DecidersInv, SeenBeforeDismissed, Edge
  <2> QED
    BY <1>2, <1>7, <2>1
<1> QED
  BY <1>2, <1>3, <1>4, <1>5, <1>6, <1>7 DEF DecidersInv

LEMMA TransStepKeeps ==
  ASSUME DecidersInv, TransStep
  PROVE  DecidersInv'
<1>1. MachineOK' /\ Target' = Target
  BY StepIs DEF DecidersInv, TransStep
<1>2. UNCHANGED <<agentState, prevEff, covered, keys, history>>
  BY DEF TransStep
<1> QED
  BY <1>1, <1>2 DEF DecidersInv, PlainTypes, agentState, keys, history, InFlight, FirstRunsLast,
     PullStands, SeenBeforeDismissed

LEMMA DecidersStep == DecidersInv /\ [Next]_vars => DecidersInv'
<1> SUFFICES ASSUME DecidersInv, [Next]_vars PROVE DecidersInv'
  OBVIOUS
<1>1. CASE UNCHANGED vars
  <2>1. MachineOK' /\ Target' = Target
    BY <1>1, Rests DEF vars, DecidersInv
  <2> QED
    BY <1>1, <2>1 DEF vars, DecidersInv, PlainTypes, agentState, keys, history, InFlight,
       FirstRunsLast, PullStands, SeenBeforeDismissed
<1>2. CASE Next
  BY <1>2, AgentStep, HostStep, PressStep, GoSceneStep, PollStep, TransStepKeeps DEF Next
<1> QED
  BY <1>1, <1>2

LEMMA DecidersInvariant == Spec => []DecidersInv
BY DecidersInit, DecidersStep, PTL DEF Spec

\* TypeOK: the deciders' state is well typed, and no more than MaxPresses key
\* presses are ever under way or queued.
THEOREM TypeCorrect == Spec => []TypeOK
<1>1. DecidersInv => TypeOK
  BY DEF DecidersInv, MachineOK, PlainTypes, TypeOK
<1> QED
  BY DecidersInvariant, <1>1, PTL

\* KeyDecides: however the touches, consumptions, callbacks and pings of any
\* number of keys fall into transitions and polls, once no callback is pending the
\* display heads for the key pressed, of keys pending together for the first.
THEOREM KeyAlwaysDecides == Spec => []KeyDecides
<1>1. DecidersInv => KeyDecides
  BY DEF DecidersInv, FirstRunsLast, KeyDecides
<1> QED
  BY DecidersInvariant, <1>1, PTL

\* PullStands: a turn that comes back to a settled display brings the
\* dashboard, and nothing but a key or the host takes it away during that turn.
THEOREM PullAlwaysStands == Spec => []PullStands
<1>1. DecidersInv => PullStands
  BY DEF DecidersInv
<1> QED
  BY DecidersInvariant, <1>1, PTL

\* NoRegrab: the poll does not bring back the dashboard the user has left
\* during the same turn.
THEOREM PollNeverRegrabs == Spec => NoRegrab
<1>1. DecidersInv /\ [Next]_vars
        => [Poll /\ dismissed = "yes" /\ dismissed' = "yes" /\ Target # Dash
              => Target' # Dash]_vars
  BY PollStep
<1> QED
  BY DecidersInvariant, <1>1, PTL DEF Spec, NoRegrab
=============================================================================
