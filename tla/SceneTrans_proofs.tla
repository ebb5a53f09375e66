-------------------------- MODULE SceneTrans_proofs --------------------------
(***************************************************************************)
(* The transition state machine, for every number of scenes and every set  *)
(* of other holders of the refresh period: the invariants of SceneTrans,   *)
(* and that each of its steps is a step of DisplayContract or a stutter.   *)
(***************************************************************************)
EXTENDS SceneTrans, FiniteSetTheorems, TLAPS

\* What makes the invariants inductive: a target is pending during the whole
\* of an outro and never when idle.  Without it a cut could have nothing to
\* cut to, and an idle display could be promised to another scene.
PendingFits ==
  /\ state = "IDLE" => pending = None
  /\ state = "OUTRO" => pending # None

MachineInv ==
  /\ TypeOK
  /\ PendingFits
  /\ TargetIsLastAsked
  /\ HeldAgreement
  /\ BusyIsArmed

-----------------------------------------------------------------------------
(* The state machine *)

LEMMA NoneIsNoScene == None \notin Scenes
BY SceneCount DEF None, Scenes

\* Holding and releasing keep the refresh part well typed.
LEMMA TierTyped ==
  ASSUME TypeOK, RefrHold \/ RefrDrop \/ UNCHANGED tier
  PROVE  holding' \in SUBSET Clients /\ holders' \in Nat /\ period' \in {"active", "idle"}
BY FiniteClients DEF TypeOK, RefrHold, RefrDrop, MotionHold, MotionRelease, tier

LEMMA MachineInit == Init => MachineInv
<1>1. 0 \in Scenes
  BY SceneCount DEF Scenes
<1>2. QED
BY <1>1 DEF Init, MachineInv, TypeOK, PendingFits, TargetIsLastAsked, Target,
   HeldAgreement, BusyIsArmed

\* Every step keeps the machine's invariant, one action at a time.
LEMMA MachineStep == MachineInv /\ [Next]_vars => MachineInv'
<1> SUFFICES ASSUME MachineInv, [Next]_vars PROVE MachineInv'
  OBVIOUS
<1> USE NoneIsNoScene DEF MachineInv, TypeOK, PendingFits, TargetIsLastAsked, Target,
        HeldAgreement, BusyIsArmed
<1>1. ASSUME NEW t \in Scenes, StartTransition(t)
      PROVE  MachineInv'
  <2>1. holding' \in SUBSET Clients /\ holders' \in Nat /\ period' \in {"active", "idle"}
    BY <1>1, TierTyped DEF StartTransition, CutTo
  <2>2. QED
    BY <1>1, <2>1 DEF StartTransition, PlayOutro, CutTo
<1>2. ASSUME NEW t \in Scenes, Retarget(t)
      PROVE  MachineInv'
  BY <1>2 DEF Retarget, PlayOutro, tier
<1>3. CASE EndOutro
  <2>1. holding' \in SUBSET Clients /\ holders' \in Nat /\ period' \in {"active", "idle"}
    BY <1>3, TierTyped DEF EndOutro
  <2>2. QED
    BY <1>3, <2>1 DEF EndOutro, CutTo, Courses
<1>4. CASE EndIntro
  <2>1. holding' \in SUBSET Clients /\ holders' \in Nat /\ period' \in {"active", "idle"}
    BY <1>4, TierTyped DEF EndIntro
  <2>2. QED
    BY <1>4, <2>1 DEF EndIntro, PlayOutro
<1>5. CASE SetMotion
  BY <1>5 DEF SetMotion, machine, tier
<1>6. ASSUME NEW c \in Clients \ {Self}, ClientHold(c) \/ ClientRelease(c)
      PROVE  MachineInv'
  BY <1>6 DEF ClientHold, ClientRelease, MotionHold, MotionRelease, machine
<1>7. CASE UNCHANGED vars
  BY <1>7 DEF vars, machine, tier
<1>8. QED
  BY <1>1, <1>2, <1>3, <1>4, <1>5, <1>6, <1>7 DEF Next, Switch, Step

\* The state machine is well typed in every reachable state.
THEOREM TypeCorrect == Spec => []TypeOK
<1>1. MachineInv => TypeOK
  BY DEF MachineInv
<1>2. QED
  BY MachineInit, MachineStep, <1>1, PTL DEF Spec

\* In every window of a transition the announced target is the scene asked
\* for last, the shared elements were judged against the scene that will
\* appear, and the timer that moves the transition on is running.
THEOREM TransitionSafe == Spec => [](TargetIsLastAsked /\ HeldAgreement /\ BusyIsArmed)
<1>1. MachineInv => TargetIsLastAsked /\ HeldAgreement /\ BusyIsArmed
  BY DEF MachineInv
<1>2. QED
  BY MachineInit, MachineStep, <1>1, PTL DEF Spec
-----------------------------------------------------------------------------
(* The refresh tier *)

\* A hold by a client that has none, and a release by one that has, keep it so.
LEMMA HoldCounted ==
  ASSUME TypeOK, TierCounted, NEW c \in Clients, c \notin holding, MotionHold(c)
  PROVE  TierCounted' /\ holding' = holding \union {c}
<1>1. IsFiniteSet(holding)
  BY FiniteClients, FS_Subset DEF TypeOK
<1>2. Cardinality(holding') = Cardinality(holding) + 1
  BY <1>1, FS_AddElement DEF MotionHold
<1>3. QED
  BY <1>2 DEF TierCounted, TypeOK, MotionHold

LEMMA ReleaseCounted ==
  ASSUME TypeOK, TierCounted, NEW c \in Clients, c \in holding, MotionRelease(c)
  PROVE  TierCounted' /\ holding' = holding \ {c}
<1>1. IsFiniteSet(holding)
  BY FiniteClients, FS_Subset DEF TypeOK
<1>2. Cardinality(holding') = Cardinality(holding) - 1
  BY <1>1, FS_RemoveElement DEF MotionRelease
<1>3. holders # 0
  BY <1>1, FS_EmptySet DEF TierCounted
<1>4. QED
  BY <1>2, <1>3 DEF TierCounted, TypeOK, MotionRelease

\* refr_hold and refr_drop are idempotent holds and releases of this module.
LEMMA HoldPaired ==
  ASSUME TypeOK, TierCounted, RefrHold
  PROVE  TierCounted' /\ Self \in holding'
<1>1. CASE Self \in holding
  BY <1>1 DEF RefrHold, TierCounted, tier
<1>2. CASE Self \notin holding
  BY <1>2, HoldCounted, FiniteClients DEF RefrHold
<1>3. QED
  BY <1>1, <1>2

LEMMA DropPaired ==
  ASSUME TypeOK, TierCounted, RefrDrop
  PROVE  TierCounted' /\ Self \notin holding'
<1>1. CASE Self \in holding
  BY <1>1, ReleaseCounted, FiniteClients DEF RefrDrop
<1>2. CASE Self \notin holding
  BY <1>2 DEF RefrDrop, TierCounted, tier
<1>3. QED
  BY <1>1, <1>2

LEMMA TierKept ==
  ASSUME TierCounted, UNCHANGED tier
  PROVE  TierCounted' /\ holding' = holding
BY DEF TierCounted, tier

LEMMA TierInit == Init => RefreshTier
BY FS_EmptySet DEF Init, RefreshTier, TierCounted

\* Holds and releases stay paired: this module's flag changes with its state,
\* the clients' flags with their set, the count with both.
LEMMA TierStep ==
  MachineInv /\ RefreshTier /\ [Next]_vars => RefreshTier'
<1> SUFFICES ASSUME MachineInv, RefreshTier, [Next]_vars PROVE RefreshTier'
  OBVIOUS
<1> DEFINE n == Cardinality(holding)
<1>0. IsFiniteSet(holding) /\ n \in Nat
  BY FiniteClients, FS_Subset, FS_CardinalityType DEF MachineInv, TypeOK
<1>1. ASSUME NEW t \in Scenes, StartTransition(t)
      PROVE  RefreshTier'
  BY <1>1, HoldPaired, TierKept DEF StartTransition, CutTo, MachineInv, RefreshTier
<1>2. ASSUME NEW t \in Scenes, Retarget(t)
      PROVE  RefreshTier'
  BY <1>2, TierKept DEF Retarget, RefreshTier
<1>3. CASE EndOutro
  BY <1>3, DropPaired, TierKept DEF EndOutro, CutTo, MachineInv, RefreshTier
<1>4. CASE EndIntro
  BY <1>4, DropPaired, TierKept DEF EndIntro, MachineInv, RefreshTier
<1>5. CASE SetMotion
  BY <1>5, TierKept DEF SetMotion, RefreshTier, machine
<1>6. ASSUME NEW c \in Clients \ {Self}, ClientHold(c) \/ ClientRelease(c)
      PROVE  RefreshTier'
  BY <1>6, HoldCounted, ReleaseCounted
     DEF ClientHold, ClientRelease, MachineInv, RefreshTier, machine
<1>7. CASE UNCHANGED vars
  BY <1>7, TierKept DEF vars, machine, RefreshTier
<1>8. QED
  BY <1>1, <1>2, <1>3, <1>4, <1>5, <1>6, <1>7 DEF Next, Switch, Step

\* The display refreshes fast exactly while a transition, a glow or a
\* decoration moves: no interleaving leaks a hold or releases one twice.
THEOREM TierPaired == Spec => []RefreshTier
<1>1. Init => MachineInv /\ RefreshTier
  BY MachineInit, TierInit
<1>2. MachineInv /\ RefreshTier /\ [Next]_vars => (MachineInv /\ RefreshTier)'
  BY MachineStep, TierStep
<1>3. QED
  BY <1>1, <1>2, PTL DEF Spec
-----------------------------------------------------------------------------
(* The contract *)

LEMMA ContractInit == Init => Promise!Init
BY SceneCount DEF Init, Promise!Init, Scenes

\* A call of scene_trans_switch is a request, the cut is the arrival of the
\* scene asked for last, and nothing else is seen on the glass.
LEMMA ContractStep ==
  MachineInv /\ [Next]_vars => [Promise!Next]_<<asked, current>>
<1> SUFFICES ASSUME MachineInv, [Next]_vars
             PROVE  Promise!Next \/ UNCHANGED <<asked, current>>
  OBVIOUS
<1> USE DEF Promise!Next, Promise!Request, Promise!Arrive
<1>1. ASSUME NEW t \in Scenes, StartTransition(t)
      PROVE  Promise!Next
  BY <1>1 DEF StartTransition, CutTo
<1>2. ASSUME NEW t \in Scenes, Retarget(t)
      PROVE  Promise!Next
  BY <1>2 DEF Retarget
<1>3. CASE EndOutro
  BY <1>3 DEF EndOutro, CutTo, MachineInv, PendingFits, TargetIsLastAsked, Target
<1>4. CASE EndIntro
  BY <1>4 DEF EndIntro
<1>5. CASE SetMotion \/ \E c \in Clients \ {Self} : ClientHold(c) \/ ClientRelease(c)
  BY <1>5 DEF SetMotion, ClientHold, ClientRelease, machine
<1>6. CASE UNCHANGED vars
  BY <1>6 DEF vars, machine
<1>7. QED
  BY <1>1, <1>2, <1>3, <1>4, <1>5, <1>6 DEF Next, Switch, Step

\* The safety half of Contract: the glass never shows a scene other than the
\* one it showed or the one asked for last.
THEOREM LastRequestWins ==
  Spec => Promise!Init /\ [][Promise!Next]_<<asked, current>>
BY MachineInit, MachineStep, ContractInit, ContractStep, PTL DEF Spec
=============================================================================
