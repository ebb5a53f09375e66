----------------------------- MODULE AgentSlots ------------------------------
(***************************************************************************)
(* main/agent_state.c and main/harness/agent_snapshot_apply.c: the table   *)
(* of AGENT_SLOT_MAX slots the panel renders, the merge-and-prune of a     *)
(* snapshot, the `dash event' and `dash tokens' lines, and the digest that *)
(* tells a snapshot that changed something from a keepalive.               *)
(*                                                                         *)
(* Only the console's reader task writes the slots, one line at a time and *)
(* under the state lock, so a handler is one action. Texts, tokens, paths  *)
(* and the wire's totals are copied and never decide anything; they are    *)
(* left out. The tick at which a wait began is kept as its rank among the  *)
(* waits, which is all that is ever compared. The sequence number of a     *)
(* slot's entries only matters to the digest: whether it moved, and        *)
(* whether it is zero.                                                     *)
(***************************************************************************)
EXTENDS Integers, Sequences, FiniteSets

CONSTANTS
  M,           \* AGENT_SLOT_MAX
  Sids,        \* session ids
  CodexSids,   \* those of Codex sessions; the others are Claude Code's
  NoSid,       \* the empty session id of a sender that gives none
  MaxAgents    \* bound: agents in one snapshot

ASSUME SlotMax == M \in Nat \ {0} /\ MaxAgents \in Nat
ASSUME SessionIds == CodexSids \subseteq Sids /\ NoSid \notin Sids

Kinds == {"claude-code", "codex"}
KindOf(sid) == IF sid \in CodexSids THEN "codex" ELSE "claude-code"

Waits == {"none", "continue"}    \* awaiting_kind, one kind standing for all

VARIABLES
  slots,      \* s_state.slots
  slotCount,  \* s_state.slot_count
  marked,     \* the indices set in s_marked
  activity,   \* "touched" when the last command moved last_activity_ms
  lastSnap,   \* history: the last snapshot, when no other command came since
  repeats     \* history: how often it has been applied again up to 2;
              \* -1 when another command came

vars == <<slots, slotCount, marked, activity, lastSnap, repeats>>

Index == 1 .. M

Free == [sid |-> NoSid, kind |-> "none", awaiting |-> "none", since |-> 0, entries |-> "none"]

Used(t) == {i \in Index : t[i] # Free}

Init ==
  /\ slots = [i \in Index |-> Free] /\ slotCount = 0 /\ marked = {}
  /\ activity = "touched"
  /\ lastSnap = <<>> /\ repeats = -1

-----------------------------------------------------------------------------
(* Finding and acquiring a slot *)

Lowest(S) == CHOOSE i \in S : \A j \in S : i <= j

\* agent_state_find_slot: by session id when both sides have one, else by kind.
Matches(s, a) ==
  IF a.sid # NoSid /\ s.sid # NoSid THEN s.sid = a.sid ELSE s.kind = a.kind

\* agent_state_acquire_slot: the first match, else the first free slot, 0 when
\* there is neither.
AcquireFreeFirst(t, a) ==    \* mutant: the table is searched for room first
  LET free == Index \ Used(t)
  IN  IF free # {} THEN Lowest(free)
      ELSE LET hits == {i \in Used(t) : Matches(t[i], a)}
           IN  IF hits # {} THEN Lowest(hits) ELSE 0

Acquire(t, a) ==
  LET hits == {i \in Used(t) : Matches(t[i], a)}
      free == Index \ Used(t)
  IN  IF hits # {} THEN Lowest(hits)
      ELSE IF free # {} THEN Lowest(free)
      ELSE 0

Fresh(a) == [Free EXCEPT !.kind = a.kind, !.sid = a.sid]

\* The slot handed out at i, zeroed and named when it was free.
Held(t, i, a) == IF t[i] = Free THEN Fresh(a) ELSE t[i]

\* Ranks of waits after a change: 0 for none, ties kept.
Ranked(t) ==
  LET begun == {t[j].since : j \in Index} \ {0}
  IN  [i \in Index |->
        [t[i] EXCEPT !.since = Cardinality({r \in begun : r <= t[i].since})]]

Now == M + 1    \* later than every rank

-----------------------------------------------------------------------------
(* dash snapshot *)

\* agent_state_set_awaiting and agent_state_clear_awaiting: a wait begins when
\* the kind changes; a snapshot that re-affirms it keeps its beginning.
WaitBeginsAgain(s, wait) ==  \* mutant: every snapshot begins the wait anew
  [s EXCEPT !.awaiting = wait, !.since = IF wait = "none" THEN 0 ELSE Now]

Wait(s, wait) ==
  [s EXCEPT !.awaiting = wait,
            !.since = IF wait = "none" THEN 0
                      ELSE IF wait = s.awaiting THEN s.since ELSE Now]

\* merge_agent_object; an agent that finds no slot is dropped.
Merge(st, a) ==
  LET i == Acquire(st.slots, a)
      old == Held(st.slots, i, a)
      new == [Wait(old, a.awaiting) EXCEPT
                !.kind = a.kind,
                !.sid = IF a.sid = NoSid THEN old.sid ELSE a.sid,
                !.entries = IF a.entries = "some" THEN "some" ELSE old.entries]
  IN  IF i = 0 THEN st
      ELSE [slots  |-> [st.slots EXCEPT ![i] = new],
            marked |-> st.marked \union {i},
            pushed |-> st.pushed \/ a.entries = "some"]

\* agent_state_prune_unmarked: unmarked slots are zeroed, all marks cleared.
PruneKeepsMarks(st) ==       \* mutant: the marks of the kept slots stay
  [slots  |-> [i \in Index |-> IF i \in st.marked THEN st.slots[i] ELSE Free],
   marked |-> st.marked]

Prune(st) ==
  [slots  |-> [i \in Index |-> IF i \in st.marked THEN st.slots[i] ELSE Free],
   marked |-> {}]

\* state_fingerprint_locked: over the slots in use, in order.
Digest(t) ==
  LET used == SelectSeq(t, LAMBDA s : s # Free)
  IN  [i \in DOMAIN used |-> <<used[i].entries, used[i].awaiting>>]

\* v1: at most one agent per session, in the order of the bridge's registry;
\* the entries are all there or all trimmed away.
Orders ==
  {o \in UNION {[1 .. n -> Sids] : n \in 0 .. MaxAgents} :
     \A i, j \in DOMAIN o : i # j => o[i] # o[j]}

Listing(o, waits, e) ==
  [i \in DOMAIN o |->
     [sid |-> o[i], kind |-> KindOf(o[i]), awaiting |-> waits[i], entries |-> e]]

Agentful ==
  UNION {{Listing(o, waits, e) : waits \in [DOMAIN o -> Waits], e \in {"none", "some"}} :
           o \in Orders}

\* v0: one flat agent without a session id.
Flat ==
  {<<[sid |-> NoSid, kind |-> "claude-code", awaiting |-> "none", entries |-> e]>> :
     e \in {"none", "some"}}

Snapshots == Agentful \union Flat

SidsOf(q) == {q[i].sid : i \in DOMAIN q}

\* agent_snapshot_apply_json: every agent of the snapshot is merged, in order.
Merged(q) ==
  LET upTo[n \in 0 .. Len(q)] ==
        IF n = 0 THEN [slots |-> slots, marked |-> marked, pushed |-> FALSE]
                 ELSE Merge(upTo[n - 1], q[n])
  IN  upTo[Len(q)]

\* cmd_snapshot: merge, prune, and count the difference of the digests as
\* activity.  Entries that were pushed move entry_seq.
ApplySnapshot(q) ==
  LET merged == Merged(q)
      pruned == Prune(merged)
      taken == Used(merged.slots) \ Used(slots)
      freed == Used(merged.slots) \ Used(pruned.slots)
  IN  /\ slots' = Ranked(pruned.slots)
      /\ marked' = pruned.marked
      /\ slotCount' = slotCount + Cardinality(taken) - Cardinality(freed)
      /\ activity' = IF merged.pushed \/ Digest(pruned.slots) # Digest(slots)
                      THEN "touched" ELSE "kept"
      /\ lastSnap' = q
      /\ repeats' = IF q # lastSnap \/ repeats = -1 THEN 0
                     ELSE IF repeats < 2 THEN repeats + 1 ELSE 2

-----------------------------------------------------------------------------
(* dash event, dash tokens *)

\* Both acquire a slot, and so mark it; `pushed' tells whether an entry goes in.
AcquireAndChange(a, pushed) ==
  LET i == Acquire(slots, a)
  IN  /\ IF i = 0 THEN UNCHANGED <<slots, marked, slotCount>>
         ELSE /\ slots' = [slots EXCEPT ![i] = IF pushed
                                              THEN [Held(slots, i, a) EXCEPT !.entries = "some"]
                                              ELSE Held(slots, i, a)]
              /\ marked' = marked \union {i}
              /\ slotCount' = IF slots[i] = Free THEN slotCount + 1 ELSE slotCount
      /\ lastSnap' = <<>> /\ repeats' = -1

\* The session id is optional on the wire, and without one the kind decides.
Senders ==
  {[sid |-> s, kind |-> KindOf(s)] : s \in Sids} \union {[sid |-> NoSid, kind |-> k] : k \in Kinds}

\* cmd_event: one transcript line, always activity.
EventLine(a) ==
  /\ AcquireAndChange(a, TRUE)
  /\ activity' = "touched"

\* cmd_tokens: one sample, never activity.
TokenSample(a) ==
  /\ AcquireAndChange(a, FALSE)
  /\ activity' = "kept"

Next ==
  \/ \E q \in Snapshots : ApplySnapshot(q)
  \/ \E a \in Senders : EventLine(a) \/ TokenSample(a)

Spec == Init /\ [][Next]_vars

-----------------------------------------------------------------------------
(* Properties *)

TypeOK ==
  /\ slots \in [Index -> {Free} \union
       [sid : Sids \union {NoSid}, kind : Kinds, awaiting : Waits,
        since : 0 .. M, entries : {"none", "some"}]]
  /\ slotCount = Cardinality(Used(slots))
  /\ marked \subseteq Used(slots)
  /\ activity \in {"touched", "kept"}
  /\ repeats \in -1 .. 2

\* Slots without a session id: made by a sender that gave none.
Anonymous(t) == \E i \in Used(t) : t[i].sid = NoSid

\* The panel converges on what the host repeats: whatever events, samples and
\* older snapshots left in the table, the third delivery of a snapshot that
\* fits finds exactly its agents shown, each once and with its own wait.
Converges ==
  repeats = 2 /\ Len(lastSnap) <= M /\ NoSid \notin SidsOf(lastSnap) =>
    /\ Cardinality(Used(slots)) = Len(lastSnap)
    /\ \A n \in DOMAIN lastSnap : \E i \in Used(slots) :
         /\ slots[i].sid = lastSnap[n].sid
         /\ slots[i].awaiting = lastSnap[n].awaiting

\* An agent keeps its place on the panel for as long as it is shown: neither a
\* snapshot nor a line about another agent moves it.  A slot without a session
\* id is captured by the next agent of its kind and can.
PlaceKept ==
  [][~Anonymous(slots) =>
       \A i, j \in Index :
         /\ i \in Used(slots) /\ j \in Used(slots')
         /\ slots[i].sid = slots'[j].sid
         => i = j]_vars

\* agent_state_most_recent_awaiting: the wait that began last, the first slot
\* of those that began together; 0 when nobody waits.
Anchor(t) ==
  LET waiting == {i \in Index : t[i].awaiting # "none"}
  IN  IF waiting = {} THEN 0
      ELSE Lowest({i \in waiting : \A j \in waiting : t[j].since <= t[i].since})

\* The agent in the limelight stays there while it waits, until another one
\* begins to wait: a snapshot that re-affirms waits, or ends others, does not
\* move it.
AnchorStays ==
  [][LET a == Anchor(slots) b == Anchor(slots') IN
       /\ a # 0 /\ ~Anonymous(slots)
       /\ \E j \in Index : slots'[j].sid = slots[a].sid /\ slots'[j].awaiting = slots[a].awaiting
       /\ \A j \in Index : slots'[j].awaiting # "none" =>
            \E i \in Index : slots[i].sid = slots'[j].sid /\ slots[i].awaiting = slots'[j].awaiting
       => slots'[b].sid = slots[a].sid]_vars

\* What PROTOCOL.md, agent_state.h and the comment of the digest say of a
\* keepalive, the re-push of the state the panel already shows.
KeepaliveIsQuiet == repeats = 2 => activity = "kept"
=============================================================================
