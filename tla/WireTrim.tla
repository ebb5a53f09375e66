------------------------------ MODULE WireTrim ------------------------------
(***************************************************************************)
(* SessionRegistry.snapshot_v1 of tools/claude_buddy_bridge.py: the        *)
(* snapshot of all agents, cut down stage by stage until its line fits the *)
(* panel's console.  It works on copies of its own, so a round of a loop   *)
(* is an action and nothing comes between.  An agent is a record of what   *)
(* the stages look at; lengths in bytes are small numbers, and an entry    *)
(* is one byte.                                                            *)
(*                                                                         *)
(*   id       the session                                                  *)
(*   since    awaiting_since, 0 when awaiting_kind is not there            *)
(*   active   last_active_unix                                             *)
(*   entries, context, cwd   the bytes of entries, awaiting_context, cwd   *)
(*   text     those of awaiting_summary and msg                            *)
(*   options  those of awaiting_options                                    *)
(*                                                                         *)
(* The totals, counted again from what is left, are left out.              *)
(***************************************************************************)
EXTENDS Integers, Sequences, SequencesExt

CONSTANTS
  Registries, \* bound: the agents there may be, sequences of such records
  WireMax,    \* WIRE_MAX_BYTES
  Base,       \* the bytes of an agent's other fields; bound: they fit with its context
  Attempts    \* how many entries step 1 may take: 64

VARIABLES
  agents,     \* the registry's list
  snap,       \* snap["agents"]
  stage,      \* the step the method is at: 1 to 6, or Sent
  attempts

trim == <<agents, snap, stage, attempts>>

Agent ==
  [id : Nat, since : Nat, active : Nat, entries : Nat, context : Nat, cwd : Nat, text : Nat,
   options : Nat]

\* What the constants stand for: no two agents of a registry have one id, and
\* a line has room for an agent with its context, a few short lines.
ASSUME Sizes ==
  /\ WireMax \in Nat /\ Base \in Nat /\ Attempts \in Nat
  /\ \A q \in Registries :
       /\ q \in Seq(Agent)
       /\ \A i, j \in DOMAIN q : q[i].id = q[j].id => i = j
       /\ \A i \in DOMAIN q : Base + q[i].context <= WireMax

TrimInit ==
  /\ agents \in Registries
  /\ snap = agents /\ stage = 1 /\ attempts = 0

Bytes(a) == Base + a.entries + a.context + a.cwd + a.text + a.options

WireSize(q) == FoldLeft(LAMBDA n, a : n + Bytes(a), 0, q)

Fits(q) == WireSize(q) <= WireMax

\* most_recent_waiting_idx, the first of those that began last; 0 when no
\* agent waits.
Anchor(q) ==
  LET waits == {i \in DOMAIN q : q[i].since # 0}
  IN  IF waits = {} THEN 0
      ELSE CHOOSE i \in waits :
             \A j \in waits : q[j].since < q[i].since \/ (q[j].since = q[i].since /\ i <= j)

\* The first of the agents in S that have been silent longest.
Oldest(q, S) ==
  CHOOSE i \in S :
    \A j \in S : q[j].active > q[i].active \/ (q[j].active = q[i].active /\ i <= j)

\* The first of the agents that have most entries.
Biggest(q) ==
  CHOOSE i \in DOMAIN q :
    \A j \in DOMAIN q :
      q[j].entries < q[i].entries \/ (q[j].entries = q[i].entries /\ i <= j)

AllButAnchor(q) == DOMAIN q \ {Anchor(q)}

Unwaiting(q) == {i \in AllButAnchor(q) : q[i].since = 0}

Sent == 7

GoTo(n) == stage' = n

-----------------------------------------------------------------------------
(* The stages *)

\* Step 1: entries go one by one, from the agent that has most.
ShrinkEntries ==
  /\ stage = 1
  /\ LET i == Biggest(snap)
     IN  IF Fits(snap) \/ attempts >= Attempts \/ snap = <<>> \/ snap[i].entries = 0
           THEN GoTo(2) /\ UNCHANGED <<snap, attempts>>
           ELSE /\ snap' = [snap EXCEPT ![i].entries = @ - 1]
                /\ attempts' = attempts + 1
                /\ UNCHANGED stage
  /\ UNCHANGED agents

\* Steps 2 and 3: contexts, then paths, of all agents but the anchor.
Strip(field) ==
  IF Fits(snap) THEN snap
  ELSE [i \in DOMAIN snap |->
          IF i = Anchor(snap) THEN snap[i] ELSE [snap[i] EXCEPT ![field] = 0]]

StripContexts ==
  /\ stage = 2
  /\ snap' = Strip("context") /\ GoTo(3)
  /\ UNCHANGED <<agents, attempts>>

StripPaths ==
  /\ stage = 3
  /\ snap' = Strip("cwd") /\ GoTo(4)
  /\ UNCHANGED <<agents, attempts>>

\* Steps 4 and 5: the agents longest silent go, first those that do not wait,
\* then any but the anchor; the last agent stays.
DropOne(n, droppable) ==
  /\ stage = n
  /\ IF Fits(snap) \/ Len(snap) <= 1 \/ droppable = {}
       THEN GoTo(n + 1) /\ UNCHANGED snap
       ELSE snap' = RemoveAt(snap, Oldest(snap, droppable)) /\ UNCHANGED stage
  /\ UNCHANGED <<agents, attempts>>

DropUnwaiting == DropOne(4, Unwaiting(snap))

DropFirstListed ==           \* mutant: step 5 does not spare the anchor
  DropOne(5, DOMAIN snap)

DropAny == DropOne(5, AllButAnchor(snap))

\* The last resort, for the one agent that is left: its texts and its path go
\* as far as needed, then its options and its entries whole.
Cut(q, field) ==
  LET excess == WireSize(q) - WireMax
  IN  IF Fits(q) THEN q
      ELSE [q EXCEPT ![1][field] = IF excess < @ THEN @ - excess ELSE 0]

Pop(q, field) == IF Fits(q) THEN q ELSE [q EXCEPT ![1][field] = 0]

ShrinkTexts ==
  /\ stage = 6
  /\ snap' = IF snap = <<>> THEN snap
             ELSE Pop(Pop(Cut(Cut(snap, "text"), "cwd"), "options"), "entries")
  /\ GoTo(Sent)
  /\ UNCHANGED <<agents, attempts>>

TrimStep ==
  \/ ShrinkEntries \/ StripContexts \/ StripPaths
  \/ DropUnwaiting \/ DropAny \/ ShrinkTexts

\* The keepalive's snapshot, of the same agents.
Again ==
  /\ stage = Sent
  /\ snap' = agents /\ stage' = 1 /\ attempts' = 0
  /\ UNCHANGED agents

-----------------------------------------------------------------------------
(* What the trimming is for *)

\* Agent i is worth more on the panel than agent j: the turn that came back
\* last, then who waits, then who did something later, the one listed later
\* when they did it in the same second.
Outranks(q, i, j) ==
  LET waits(k) == q[k].since # 0
  IN  \/ i = Anchor(q)
      \/ /\ j # Anchor(q)
         /\ \/ waits(i) /\ ~waits(j)
            \/ /\ waits(i) <=> waits(j)
               /\ q[i].active > q[j].active \/ (q[i].active = q[j].active /\ i > j)

Ids(q) == {q[i].id : i \in DOMAIN q}

LeftOut == {j \in DOMAIN agents : agents[j].id \notin Ids(snap)}

Lean(a) == [a EXCEPT !.context = 0, !.cwd = 0]

\* The snapshot that is sent fits the console; it carries the agents worth
\* most, each of which outranks all that are left out, and, unless it is one
\* agent's, as many as fit: the best of those left out would be too much; and
\* a registry that fits is sent as it is.
GoodSnapshot ==
  stage = Sent =>
    /\ Fits(snap)
    /\ \A i \in DOMAIN agents \ LeftOut, j \in LeftOut : Outranks(agents, i, j)
    /\ \A j \in LeftOut :
         Len(snap) > 1 /\ (\A k \in LeftOut : ~Outranks(agents, k, j)) =>
           WireSize(snap) + Bytes(Lean(agents[j])) > WireMax
    /\ Fits(agents) => snap = agents
=============================================================================
