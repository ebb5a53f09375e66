------------------------------ MODULE HostSide ------------------------------
(***************************************************************************)
(* Three parts of the host that share no state: the hook processes and the *)
(* bridges they start, the session registry, and the trimming of the       *)
(* snapshot.  A behaviour is one of `part'; the others stay at their       *)
(* beginning.                                                              *)
(***************************************************************************)
EXTENDS HookDispatch, WireTrim

CONSTANTS Sids, Threads, MaxTools

VARIABLES
  part,
  sess, thread, sweep, running, last      \* SessionRegistry

\* Agents of every kind the stages tell apart: some entries or none, a path or
\* none, and of those that wait, the older or the younger wait, with or without
\* long texts.
Idle == [since : {0}, entries : {0, 2}, cwd : {0, 1}, context : {0}, text : {0}, options : {0}]

Asking ==
  UNION {[since : {1, 2}, entries : {n}, cwd : {c}, context : {2 * n}, text : {2 * c}, options : {c}] :
         n \in {0, 1}, c \in {0, 1}}

\* Three agents at most; each of three is the one active last, first and between
\* once.  Other orders and ties are left to the theorem of WireTrim_proofs.
SmallRegistries ==
  UNION {{[i \in 1 .. n |->
             [since |-> kinds[i].since, entries |-> kinds[i].entries, cwd |-> kinds[i].cwd,
              context |-> kinds[i].context, text |-> kinds[i].text,
              options |-> kinds[i].options, id |-> i, active |-> order[i]]] :
          kinds \in [1 .. n -> Idle \union Asking],
          order \in {<<1, 2, 3>>, <<2, 3, 1>>, <<3, 1, 2>>}} : n \in 0 .. 3}

Sessions == INSTANCE SessionRegistry

registry == <<sess, thread, sweep, running, last>>
all == <<part, vars, registry, trim>>

HostInit ==
  /\ Init /\ Sessions!Init
  /\ \/ part \in {"hooks", "sessions"} /\ agents = <<>> /\ snap = <<>> /\ stage = 1 /\ attempts = 0
     \/ part = "trim" /\ TrimInit

Hooking == part = "hooks" /\ Next /\ UNCHANGED <<part, registry, trim>>

Registering == part = "sessions" /\ Sessions!Next /\ UNCHANGED <<part, vars, trim>>

Trimming ==
  /\ part = "trim"
  /\ TrimStep \/ Again
  /\ UNCHANGED <<part, vars, registry>>

HostNext == Hooking \/ Registering \/ Trimming

\* The fairness of each part's own specification.
HostSpec ==
  /\ HostInit /\ [][HostNext]_all
  /\ \A h \in Hooks : WF_vars(part = "hooks" /\ Reply(h))
  /\ \A b \in Bridges : WF_vars(part = "hooks" /\ BridgeStep(b))
  /\ WF_vars(part = "hooks" /\ Pass)
  /\ WF_registry(part = "sessions" /\ Sessions!Tick)
  /\ \A h \in Threads : WF_registry(part = "sessions" /\ Sessions!Call(h))
  /\ \A s \in Sids : WF_registry(part = "sessions" /\ Sessions!Silence(s))

CorpsesVanish == Sessions!CorpsesVanish
=============================================================================
