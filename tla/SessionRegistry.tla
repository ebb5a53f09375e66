--------------------------- MODULE SessionRegistry ---------------------------
(***************************************************************************)
(* tools/claude_buddy_bridge.py: SessionRegistry, the bridge's record of   *)
(* every live agent session, under the handler threads of Bridge._dispatch *)
(* and the sweeps the publisher thread makes before every snapshot.        *)
(*                                                                         *)
(* Each registry method holds the lock from its first read to its last     *)
(* write, so a method call is atomic; an event's handler is a sequence of  *)
(* such calls, and other handlers and the sweeps run between any two of    *)
(* them.  A handler is therefore kept as the calls it still has to make;   *)
(* an event is taken as arriving with the first of them.  What the calls   *)
(* store for display only (entries, texts, tokens, paths) is left out;     *)
(* time is kept as the limits a session has passed.                        *)
(***************************************************************************)
EXTENDS Integers, Sequences, FiniteSets

CONSTANTS
  Sids,       \* the sessions, as kind:session_id keys
  Threads,    \* handler threads; bound: events handled at the same time
  MaxTools    \* tools of one session that run in parallel

VARIABLES
  sess,       \* SessionRegistry._sessions, Absent where a key has none
  thread,     \* whose event each handler thread handles, and the calls left
  sweep,      \* the sweep the publisher thread makes next
  running,    \* history: PreToolUse calls of a session without their PostToolUse
  last        \* history: what a session's record has to show: its last "prompt"
              \* or "stop", a prompt that was "demoted", a stop that the "late" end
              \* of a permission request undid, or something "other"

vars == <<sess, thread, sweep, running, last>>

\* wait is awaiting_kind and awaiting_weak together: "weak" (continue), or
\* "strong" for any real question.
\* age is the time since last_active_unix: "silent" beyond IDLE_TURN_S, "stale"
\* beyond the limit of sweep_stale for its kind of session.
Records ==
  [status : {"running", "waiting", "done", "idle"},
   wait : {"none", "weak", "strong"},
   tool : {"off", "on"},         \* tool_in_flight
   prompt : {"none", "pending"}, \* pending_prompt
   age : {"recent", "silent", "stale"}]

\* A new AgentSession.
New == [status |-> "running", wait |-> "none", tool |-> "off", prompt |-> "none", age |-> "recent"]

Absent == [New EXCEPT !.status = "absent"]

Present == {s \in Sids : sess[s] # Absent}

Free == [sid |-> "none", todo |-> <<>>]

Init ==
  /\ sess = [s \in Sids |-> Absent]
  /\ thread = [h \in Threads |-> Free]
  /\ sweep = "idle_turns"
  /\ running = [s \in Sids |-> 0]
  /\ last = [s \in Sids |-> "other"]

-----------------------------------------------------------------------------
(* The methods, as functions of the record of the session they are called  *)
(* for.  The setters without "no-create" make a session that is not there. *)

Found(r) == IF r = Absent THEN New ELSE r

Upsert(r, status) == [Found(r) EXCEPT !.status = status, !.age = "recent"]

UpsertKeep(r) == [Found(r) EXCEPT !.age = "recent"]    \* without a status

SetPendingKeepsPrompt(r, prompt) ==    \* mutant: the prompt outlives its answer
  [Found(r) EXCEPT !.prompt = IF prompt = "none" THEN @ ELSE prompt, !.age = "recent",
                   !.status = IF prompt = "pending" THEN "waiting" ELSE "running"]

SetPending(r, prompt) ==
  [Found(r) EXCEPT !.prompt = prompt, !.age = "recent",
                   !.status = IF prompt = "pending" THEN "waiting" ELSE "running"]

SetAwaiting(r, wait) ==
  [Found(r) EXCEPT !.wait = wait, !.status = "waiting", !.age = "recent"]

ClearAwaiting(r) == IF r = Absent THEN r ELSE [r EXCEPT !.wait = "none"]

SetTool(r, tool) == IF r = Absent THEN r ELSE [r EXCEPT !.tool = tool]

DemoteStrongToo(r) ==        \* mutant: presence silences questions as well
  IF r.wait # "none" THEN [r EXCEPT !.wait = "none", !.status = "done"] ELSE r

\* demote_weak_awaiting for a session that is not excepted.
Demote(r) ==
  IF r.wait = "weak" THEN [r EXCEPT !.wait = "none", !.status = "done"] ELSE r

-----------------------------------------------------------------------------
(* Bridge._dispatch: the calls of each event's handler, in their order.    *)
(* The publisher's bump after them only brings its next tick forward.      *)

PromptKeepsAwaiting ==       \* mutant: the wait of the last turn is not cleared
  <<"upsert_running", "tool_off", "demote_others">>

PromptSubmit == <<"upsert_running", "clear", "tool_off", "demote_others">>

\* A permission-gated tool asks the device and blocks for the answer, the
\* device's refusal or the timeout: "answer" is the call after it.
Gate ==
  <<"upsert_running", "clear", "tool_on", "ask", "await_strong", "answer", "clear">>

\* Stop's classifier calls the turn's end weak or finds a question in it.
Stop == <<"upsert_waiting", "tool_off", "await_weak">>

StopAsking == <<"upsert_waiting", "tool_off", "await_strong">>

Handler ==
  [session_start      |-> <<"upsert_idle">>,
   session_end        |-> <<"drop">>,
   user_prompt_submit |-> PromptSubmit,
   pre_tool_use       |-> <<"upsert_running", "clear", "tool_on">>,
   permission         |-> Gate,          \* pre_tool_use, gated
   post_tool_use      |-> <<"upsert_running", "tool_off">>,
   notification       |-> <<"upsert_waiting", "await_strong">>,
   stop               |-> Stop,
   stop_asking        |-> StopAsking,    \* stop, with a question in it
   assistant_event    |-> <<"upsert_running">>,
   tokens             |-> <<"upsert">>]

Events == DOMAIN Handler
ToolEvents == {"pre_tool_use", "permission", "post_tool_use"}

\* What a call does to the record of its own session.
Effect(call, r) ==
  CASE call = "upsert"         -> UpsertKeep(r)
    [] call = "upsert_idle"    -> Upsert(r, "idle")
    [] call = "upsert_running" -> Upsert(r, "running")
    [] call = "upsert_waiting" -> Upsert(r, "waiting")
    [] call = "clear"          -> ClearAwaiting(r)
    [] call = "tool_on"        -> SetTool(r, "on")
    [] call = "tool_off"       -> SetTool(r, "off")
    [] call = "await_strong"   -> SetAwaiting(r, "strong")
    [] call = "await_weak"     -> SetAwaiting(r, "weak")
    [] call = "ask"            -> SetPending(r, "pending")
    [] call = "answer"         -> SetPending(r, "none")
    [] call = "drop"           -> Absent
    [] OTHER                   -> r

Busy(s) == \E h \in Threads : thread[h].sid = s

\* The hook that asked gives up after CLAUDE_BUDDY_PROMPT_TIMEOUT, long before
\* the bridge does, and its session goes on.
Late == {<<"answer", "clear">>, <<"clear">>}

\* What a tool event's handler may have left to do.
InTool ==
  UNION {{SubSeq(Handler[e], i, Len(Handler[e])) : i \in 2 .. Len(Handler[e])} : e \in ToolEvents}

\* The tool of a PreToolUse is under way from "tool_on" to the "tool_off" of
\* its PostToolUse; a prompt or the turn's end leaves no tool running.
Starting(s) ==
  Cardinality({h \in Threads : thread[h].sid = s /\
                 \E i \in DOMAIN thread[h].todo : thread[h].todo[i] = "tool_on"})

Tools(call, rest, n, r) ==
  CASE call = "tool_on" -> IF r = Absent THEN 0 ELSE n + 1
    [] call = "tool_off" /\ rest = <<>> /\ n > 0 -> n - 1
    [] call \in {"tool_off", "drop"} -> 0
    [] OTHER -> n

\* What the handler of a turn's end has left to do: it has not stored its wait.
TurnEnds ==
  {<<"tool_off", "await_weak">>, <<"await_weak">>, <<"tool_off", "await_strong">>, <<"await_strong">>}

Awaits(s) == \E h \in Threads : thread[h].sid = s /\ thread[h].todo \in TurnEnds

\* What session s has to show after a step of others that makes its record r.
\* Before its wait is stored, a turn's end still comes true; a prompt finds the
\* weak wait it has not cleared yet demoted; later, others' steps have the say.
Overtaken(s, r) ==
  CASE r = sess[s] -> last[s]
    [] r # sess[s] /\ last[s] = "stop" /\ Awaits(s) -> "stop"
    [] r # sess[s] /\ last[s] = "prompt" /\ r = Demote(sess[s]) -> "demoted"
    [] OTHER -> "other"

\* And after a call of the late end of a permission request of its own, which
\* sets it running and clears its wait: a prompt has set it running, too.
LateEnd(s) ==
  CASE last[s] = "prompt" \/ (last[s] = "stop" /\ Awaits(s)) -> last[s]
    [] last[s] = "late" \/ (last[s] = "stop" /\ ~Awaits(s)) -> "late"
    [] OTHER -> "other"

\* Thread h makes the first of `calls', a handler of session s.
MakeCall(h, s, calls) ==
  LET call == Head(calls)
      rest == Tail(calls)
  IN  /\ sess' = [o \in Sids |-> IF o = s THEN Effect(call, sess[s])
                                  ELSE IF call = "demote_others" THEN Demote(sess[o])
                                  ELSE sess[o]]
      /\ thread' = [thread EXCEPT ![h] = IF rest = <<>> THEN Free ELSE [sid |-> s, todo |-> rest]]
      /\ running' = [running EXCEPT ![s] = Tools(call, rest, @, sess[s])]
      /\ UNCHANGED sweep

\* An event arrives.  A session sends its next event when the hook of the one
\* before has returned; only tools run in parallel.
Receive(h, s, e) ==
  /\ thread[h] = Free
  /\ \A g \in Threads : thread[g].sid = s =>
       \/ thread[g].todo \in Late
       \/ MaxTools > 1 /\ e \in ToolEvents /\ thread[g].todo \in InTool
  /\ e \in {"pre_tool_use", "permission"} => running[s] + Starting(s) < MaxTools
  /\ MakeCall(h, s, Handler[e])
  /\ last' = [last EXCEPT ![s] =
                CASE e = "user_prompt_submit" -> "prompt"
                  [] e \in {"stop", "stop_asking"} -> "stop"
                  [] e = "tokens" -> @
                  [] OTHER -> "other"]

\* A handler goes on.
Call(h) ==
  /\ thread[h] # Free
  /\ MakeCall(h, thread[h].sid, thread[h].todo)
  /\ last' = [s \in Sids |-> IF s # thread[h].sid THEN Overtaken(s, sess'[s])
                            ELSE IF thread[h].todo \in Late THEN LateEnd(s) ELSE last[s]]

-----------------------------------------------------------------------------
(* SnapshotPublisher._tick: four sweeps, each one call, before a snapshot  *)

NextSweep ==
  [name \in {"idle_turns", "dead", "stale", "decay"} |->
     CASE name = "idle_turns" -> "dead"
       [] name = "dead" -> "stale"
       [] name = "stale" -> "decay"
       [] name = "decay" -> "idle_turns"]

Swept(name, new) ==
  /\ sweep = name
  /\ sweep' = NextSweep[name]
  /\ sess' = new
  /\ last' = [s \in Sids |-> Overtaken(s, new[s])]
  /\ running' = [s \in Sids |-> IF new[s] = Absent THEN 0 ELSE running[s]]
  /\ UNCHANGED thread

\* Silent working sessions become "your turn", but for those whose transcript
\* is still being written.
SweepIdleTurns ==
  LET silent == {s \in Present : /\ sess[s].status = "running" /\ sess[s].wait = "none"
                                 /\ sess[s].tool = "off" /\ sess[s].age # "recent"}
  IN  \E thinking \in SUBSET silent :
        Swept("idle_turns", [s \in Sids |->
          IF s \in silent \ thinking THEN [sess[s] EXCEPT !.status = "waiting", !.wait = "weak"]
          ELSE sess[s]])

\* Sessions whose host process is known to be gone.
SweepDead ==
  \E gone \in SUBSET Present :
    Swept("dead", [s \in Sids |-> IF s \in gone THEN Absent ELSE sess[s]])

StaleSparesAwaiting ==       \* mutant: whoever awaits is never given up
  Swept("stale", [s \in Sids |->
    IF sess[s].age = "stale" /\ sess[s].wait = "none" THEN Absent ELSE sess[s]])

SweepStale ==
  Swept("stale", [s \in Sids |-> IF sess[s].age = "stale" THEN Absent ELSE sess[s]])

\* Weak waits older than WEAK_AWAITING_DECAY_S.
DecayOfWeak ==
  \E old \in SUBSET {s \in Sids : sess[s].wait = "weak"} :
    Swept("decay", [s \in Sids |-> IF s \in old THEN Demote(sess[s]) ELSE sess[s]])

Tick == SweepIdleTurns \/ SweepDead \/ SweepStale \/ DecayOfWeak

-----------------------------------------------------------------------------
(* Time: the limits are minutes and a handler takes milliseconds, but for  *)
(* the wait for an answer, which is shorter than the limit of sweep_stale. *)

Silence(s) ==
  /\ s \in Present
  /\ \/ /\ sess[s].age = "recent"
        /\ \A h \in Threads : thread[h].sid = s => thread[h].todo \in Late
        /\ sess' = [sess EXCEPT ![s].age = "silent"]
     \/ /\ sess[s].age = "silent"
        /\ ~Busy(s)
        /\ sess' = [sess EXCEPT ![s].age = "stale"]
  /\ UNCHANGED <<thread, sweep, running, last>>

Next ==
  \/ \E h \in Threads, s \in Sids, e \in Events : Receive(h, s, e)
  \/ \E h \in Threads : Call(h)
  \/ Tick
  \/ \E s \in Sids : Silence(s)

\* The publisher's tick recurs with the keepalive, request_permission ends by
\* its timeout, and time passes.
Fairness ==
  /\ WF_vars(Tick)
  /\ \A h \in Threads : WF_vars(Call(h))
  /\ \A s \in Sids : WF_vars(Silence(s))

Spec == Init /\ [][Next]_vars /\ Fairness

-----------------------------------------------------------------------------
(* Properties *)

TypeOK ==
  /\ sess \in [Sids -> Records \union {Absent}]
  /\ \A h \in Threads : thread[h] # Free => thread[h].sid \in Sids /\ thread[h].todo # <<>>
  /\ sweep \in DOMAIN NextSweep
  /\ running \in [Sids -> 0 .. MaxTools]
  /\ last \in [Sids -> {"prompt", "stop", "demoted", "late", "other"}]

\* A real question (strong awaiting) is only taken back by its own session's
\* events: neither presence elsewhere nor time nor a sweep silences it; at most
\* the session itself is given up as dead.
QuestionStands ==
  [][\A s \in Sids :
       sess[s].wait = "strong" /\ sess'[s].wait # "strong" =>
         \/ sess'[s] = Absent
         \/ \E h \in Threads : thread[h].sid = s /\ thread'[h] # thread[h]]_vars

\* The outcome of a prompt or of a turn's end is what the registry shows once
\* the session's handlers are through, whatever other sessions' handlers, the
\* sweeps and the late ends of permission requests did between its calls:
\* nobody's work shows as a turn that came back, and no turn that came back as
\* work.  There are two ways in which the code breaks this, and no other.  A
\* prompt whose old weak wait is demoted between its upsert and its clear is
\* done; a turn's end that is stored before the late end of a permission request
\* of its session has lost its wait.
\* Demotions and sweeps after the handler are meant to have the say.
OutcomeHolds ==
  \A s \in Present : ~Busy(s) =>
    /\ last[s] = "prompt" =>
         sess[s].status = "running" /\ sess[s].wait = "none" /\ sess[s].tool = "off"
    /\ last[s] = "stop" =>
         sess[s].status = "waiting" /\ sess[s].wait # "none" /\ sess[s].tool = "off"
    /\ last[s] = "demoted" => sess[s].status = "done" /\ sess[s].wait = "none"
    /\ last[s] = "late" => sess[s].status \in {"running", "waiting"} /\ sess[s].wait = "none"

\* A prompt is on a session only while a handler waits for its answer: no
\* ending of the wait, and no sweep or session end during it, leaves a prompt
\* that nobody will take back.
PromptHasAsker ==
  \A s \in Sids : sess[s].prompt = "pending" =>
    \E h \in Threads : thread[h].sid = s /\ "answer" \in {thread[h].todo[i] : i \in DOMAIN thread[h].todo}

\* A session that sends nothing any more is finally gone, whatever it was
\* waiting for and even when the late end of a permission request revives it.
CorpsesVanish ==
  \A s \in Sids :
    <>[][\A h \in Threads, e \in Events : ~Receive(h, s, e)]_vars => <>[](sess[s] = Absent)

\* What the comment on IDLE_TURN_S says: a session with a tool running, its
\* PreToolUse not yet followed by the PostToolUse, is never turned into "your
\* turn" by the sweep.
ToolsAreExempt ==
  [][\A s \in Sids : SweepIdleTurns /\ running[s] > 0 => sess'[s] = sess[s]]_vars
=============================================================================
