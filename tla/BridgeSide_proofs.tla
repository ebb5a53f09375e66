-------------------------- MODULE BridgeSide_proofs --------------------------
(***************************************************************************)
(* The session registry under its handler threads and sweeps, for any      *)
(* number of sessions, threads and parallel tools: what a prompt or a      *)
(* turn's end leaves on its session, who takes a prompt back, and who may  *)
(* silence a question; then the two halves of the bridge together.         *)
(***************************************************************************)
EXTENDS BridgeSide, Sequences, SnapshotLink_proofs

\* What a handler may have left to do after its first call, by what it is for.
PromptLeft ==
  {<<"clear", "tool_off", "demote_others">>, <<"tool_off", "demote_others">>, <<"demote_others">>}

StopLeft ==
  {<<"tool_off", "await_weak">>, <<"await_weak">>,
   <<"tool_off", "await_strong">>, <<"await_strong">>}

AskLeft ==
  {<<"clear", "tool_on", "ask", "await_strong", "answer", "clear">>,
   <<"tool_on", "ask", "await_strong", "answer", "clear">>,
   <<"ask", "await_strong", "answer", "clear">>,
   <<"await_strong", "answer", "clear">>,
   <<"answer", "clear">>}

ToolLeft == {<<"clear", "tool_on">>, <<"tool_on">>, <<"tool_off">>, <<"clear">>}

Left == PromptLeft \union StopLeft \union AskLeft \union ToolLeft

FirstCalls == {"upsert", "upsert_idle", "upsert_running", "upsert_waiting", "drop"}
LaterCalls ==
  {"clear", "tool_on", "tool_off", "await_strong", "await_weak", "ask", "answer", "demote_others"}

HasAnswer(todo) == "answer" \in {todo[i] : i \in DOMAIN todo}

LEMMA LeftNonEmpty == <<>> \notin Left
BY DEF Left, PromptLeft, StopLeft, AskLeft, ToolLeft

LEMMA PromptCalls ==
  ASSUME NEW todo \in PromptLeft
  PROVE  /\ ~HasAnswer(todo)
         /\ \/ todo = <<"clear", "tool_off", "demote_others">> /\ Head(todo) = "clear"
              /\ Tail(todo) = <<"tool_off", "demote_others">>
            \/ todo = <<"tool_off", "demote_others">> /\ Head(todo) = "tool_off"
              /\ Tail(todo) = <<"demote_others">>
            \/ todo = <<"demote_others">> /\ Head(todo) = "demote_others" /\ Tail(todo) = <<>>
<1>1. CASE todo = <<"clear", "tool_off", "demote_others">>
  BY <1>1 DEF HasAnswer
<1>2. CASE todo = <<"tool_off", "demote_others">>
  BY <1>2 DEF HasAnswer
<1>3. CASE todo = <<"demote_others">>
  BY <1>3 DEF HasAnswer
<1> QED
  BY <1>1, <1>2, <1>3 DEF PromptLeft

LEMMA StopCalls ==
  ASSUME NEW todo \in StopLeft
  PROVE  /\ ~HasAnswer(todo)
         /\ \/ /\ todo \in {<<"tool_off", "await_weak">>, <<"tool_off", "await_strong">>}
               /\ Head(todo) = "tool_off"
               /\ Tail(todo) \in {<<"await_weak">>, <<"await_strong">>}
            \/ /\ todo \in {<<"await_weak">>, <<"await_strong">>}
               /\ Head(todo) \in {"await_weak", "await_strong"} /\ Tail(todo) = <<>>
<1>1. CASE todo = <<"tool_off", "await_weak">>
  BY <1>1 DEF HasAnswer
<1>2. CASE todo = <<"await_weak">>
  BY <1>2 DEF HasAnswer
<1>3. CASE todo = <<"tool_off", "await_strong">>
  BY <1>3 DEF HasAnswer
<1>4. CASE todo = <<"await_strong">>
  BY <1>4 DEF HasAnswer
<1> QED
  BY <1>1, <1>2, <1>3, <1>4 DEF StopLeft

LEMMA AskCalls ==
  ASSUME NEW todo \in AskLeft
  PROVE  /\ HasAnswer(todo)
         /\ \/ todo = <<"answer", "clear">> /\ Head(todo) = "answer" /\ Tail(todo) = <<"clear">>
            \/ Head(todo) \in {"clear", "tool_on", "ask", "await_strong"} /\ Tail(todo) \in AskLeft
<1>1. CASE todo = <<"clear", "tool_on", "ask", "await_strong", "answer", "clear">>
  BY <1>1 DEF AskLeft, HasAnswer
<1>2. CASE todo = <<"tool_on", "ask", "await_strong", "answer", "clear">>
  BY <1>2 DEF AskLeft, HasAnswer
<1>3. CASE todo = <<"ask", "await_strong", "answer", "clear">>
  BY <1>3 DEF AskLeft, HasAnswer
<1>4. CASE todo = <<"await_strong", "answer", "clear">>
  BY <1>4 DEF AskLeft, HasAnswer
<1>5. CASE todo = <<"answer", "clear">>
  BY <1>5 DEF HasAnswer
<1> QED
  BY <1>1, <1>2, <1>3, <1>4, <1>5 DEF AskLeft

LEMMA ToolCalls ==
  ASSUME NEW todo \in ToolLeft
  PROVE  /\ ~HasAnswer(todo)
         /\ \/ Head(todo) = "clear" /\ Tail(todo) = <<"tool_on">>
            \/ Head(todo) \in {"clear", "tool_on", "tool_off"} /\ Tail(todo) = <<>>
<1>1. CASE todo = <<"clear", "tool_on">>
  BY <1>1 DEF HasAnswer
<1>2. CASE todo = <<"tool_on">>
  BY <1>2 DEF HasAnswer
<1>3. CASE todo = <<"tool_off">>
  BY <1>3 DEF HasAnswer
<1>4. CASE todo = <<"clear">>
  BY <1>4 DEF HasAnswer
<1> QED
  BY <1>1, <1>2, <1>3, <1>4 DEF ToolLeft

\* Every call leaves a handler with less, and only "answer" ends its asking.
LEMMA LeftCalls ==
  ASSUME NEW todo \in Left
  PROVE  /\ Head(todo) \in LaterCalls
         /\ Tail(todo) = <<>> \/ Tail(todo) \in Left
         /\ HasAnswer(todo) /\ Head(todo) # "answer" => Tail(todo) # <<>> /\ HasAnswer(Tail(todo))
         /\ Head(todo) = "ask" => HasAnswer(todo)
<1>1. CASE todo \in PromptLeft
  BY <1>1, PromptCalls DEF Left, PromptLeft, LaterCalls
<1>2. CASE todo \in StopLeft
  BY <1>2, StopCalls DEF Left, StopLeft, LaterCalls
<1>3. CASE todo \in AskLeft
  <2>1. CASE todo = <<"answer", "clear">>
    BY <1>3, <2>1, AskCalls DEF Left, ToolLeft, LaterCalls
  <2>2. CASE Tail(todo) \in AskLeft
    <3>1. HasAnswer(Tail(todo)) /\ Tail(todo) \in Left
      BY <2>2, AskCalls DEF Left
    <3> QED
      BY <1>3, <3>1, AskCalls, LeftNonEmpty DEF LaterCalls
  <2> QED
    BY <1>3, <2>1, <2>2, AskCalls
<1>4. CASE todo \in ToolLeft
  BY <1>4, ToolCalls DEF Left, ToolLeft, LaterCalls
<1> QED
  BY <1>1, <1>2, <1>3, <1>4 DEF Left

LEMMA FirstCallOf ==
  ASSUME NEW e \in Sessions!Events
  PROVE  /\ Head(Sessions!Handler[e]) \in FirstCalls
         /\ Tail(Sessions!Handler[e]) = <<>> \/ Tail(Sessions!Handler[e]) \in Left
         /\ e = "user_prompt_submit" =>
              /\ Head(Sessions!Handler[e]) = "upsert_running"
              /\ Tail(Sessions!Handler[e]) = <<"clear", "tool_off", "demote_others">>
         /\ e \in {"stop", "stop_asking"} =>
              /\ Head(Sessions!Handler[e]) = "upsert_waiting"
              /\ Tail(Sessions!Handler[e]) \in
                   {<<"tool_off", "await_weak">>, <<"tool_off", "await_strong">>}
         /\ e = "tokens" =>
              Head(Sessions!Handler[e]) = "upsert" /\ Tail(Sessions!Handler[e]) = <<>>
<1> USE DEF Sessions!Handler, Sessions!PromptSubmit, Sessions!Gate, Sessions!Stop,
            Sessions!StopAsking, FirstCalls, Left
<1>1. CASE e = "session_start"
  BY <1>1
<1>9. CASE e = "session_end"
  BY <1>9
<1>10. CASE e = "assistant_event"
  BY <1>10
<1>11. CASE e = "tokens"
  BY <1>11
<1>2. CASE e = "user_prompt_submit"
  BY <1>2 DEF PromptLeft
<1>3. CASE e = "pre_tool_use"
  BY <1>3 DEF ToolLeft
<1>4. CASE e = "permission"
  BY <1>4 DEF AskLeft
<1>5. CASE e = "post_tool_use"
  BY <1>5 DEF ToolLeft
<1>6. CASE e = "notification"
  BY <1>6 DEF StopLeft
<1>7. CASE e = "stop"
  BY <1>7 DEF StopLeft
<1>8. CASE e = "stop_asking"
  BY <1>8 DEF StopLeft
<1> QED
  BY <1>1, <1>2, <1>3, <1>4, <1>5, <1>6, <1>7, <1>8, <1>9, <1>10, <1>11
  DEF Sessions!Events

-----------------------------------------------------------------------------
(* What a call does to a record.  Absent has the fields of a new record but *)
(* for its status.                                                          *)

Recs == Sessions!Records \union {Sessions!Absent}

LEMMA EffectIs ==
  ASSUME NEW r \in Recs, NEW call \in FirstCalls \union LaterCalls
  PROVE  /\ Sessions!Effect(call, r) \in Recs
         /\ Sessions!Effect(call, r).prompt =
              IF call = "ask" THEN "pending"
              ELSE IF call \in {"answer", "drop"} THEN "none" ELSE r.prompt
         /\ Sessions!Effect(call, r).wait =
              CASE call \in {"clear", "drop"} -> "none"
                [] call = "await_strong" -> "strong"
                [] call = "await_weak" -> "weak"
                [] OTHER -> r.wait
         /\ Sessions!Effect(call, r).tool =
              CASE call \in {"tool_off", "drop"} -> "off"
                [] call = "tool_on" -> IF r = Sessions!Absent THEN "off" ELSE "on"
                [] OTHER -> r.tool
         /\ call \in {"upsert_running", "answer"} => Sessions!Effect(call, r).status = "running"
         /\ call \in {"upsert_waiting", "await_strong", "await_weak"} =>
              Sessions!Effect(call, r).status = "waiting"
         /\ call \in {"clear", "tool_on", "tool_off", "demote_others"} =>
              Sessions!Effect(call, r).status = r.status
         /\ call = "upsert" /\ r # Sessions!Absent => Sessions!Effect(call, r).status = r.status
<1> USE DEF Sessions!Effect, Sessions!Upsert, Sessions!UpsertKeep, Sessions!SetPending,
            Sessions!SetAwaiting, Sessions!ClearAwaiting, Sessions!SetTool, Sessions!Found,
            Sessions!New, Sessions!Absent, Sessions!Records, Recs
<1>1. CASE call = "upsert"
  BY <1>1
<1>2. CASE call = "upsert_idle"
  BY <1>2
<1>3. CASE call = "upsert_running"
  BY <1>3
<1>4. CASE call = "upsert_waiting"
  BY <1>4
<1>5. CASE call = "drop"
  BY <1>5
<1>6. CASE call = "clear"
  BY <1>6
<1>7. CASE call = "tool_on"
  BY <1>7
<1>8. CASE call = "tool_off"
  BY <1>8
<1>9. CASE call = "await_strong"
  BY <1>9
<1>10. CASE call = "await_weak"
  BY <1>10
<1>11. CASE call = "ask"
  BY <1>11
<1>12. CASE call = "answer"
  BY <1>12
<1>13. CASE call = "demote_others"
  BY <1>13
<1> QED
  BY <1>1, <1>2, <1>3, <1>4, <1>5, <1>6, <1>7, <1>8, <1>9, <1>10, <1>11, <1>12, <1>13 DEF FirstCalls, LaterCalls

\* A demotion takes a weak wait and the turn with it, and leaves all else.
LEMMA DemoteIs ==
  ASSUME NEW r \in Recs
  PROVE  /\ Sessions!Demote(r) \in Recs
         /\ Sessions!Demote(r).prompt = r.prompt
         /\ Sessions!Demote(r).tool = r.tool
         /\ r.wait = "strong" => Sessions!Demote(r) = r
BY DEF Sessions!Demote, Sessions!Records, Sessions!Absent, Sessions!New, Recs

-----------------------------------------------------------------------------
(* The invariant: types, the asker of every prompt, and how far the handler *)
(* of a prompt or of a turn's end has come.                                 *)

Jobs == [sid : Sids, todo : Left]

Shows == {"prompt", "stop", "demoted", "late", "other"}

RegType ==
  /\ sess \in [Sids -> Recs]
  /\ thread \in [Threads -> Jobs \union {Sessions!Free}]
  /\ sweep \in {"idle_turns", "dead", "stale", "decay"}
  /\ last \in [Sids -> Shows]

Asked ==
  \A s \in Sids : sess[s].prompt = "pending" =>
    \E h \in Threads : thread[h].sid = s /\ HasAnswer(thread[h].todo)

\* Some handler of session s has just this left to do.
Has(s, todos) == \E h \in Threads : thread[h].sid = s /\ thread[h].todo \in todos

Only(s, todos) == \A h \in Threads : thread[h].sid = s => thread[h].todo \in todos

\* What the handler of the last prompt has stored, and what it has left; beside
\* it only the late ends of permission requests are under way.
PromptOf(s) ==
  /\ sess[s].status = "running"
  /\ Only(s, PromptLeft \union Sessions!Late)
  /\ \/ sess[s].wait = "none"
     \/ Has(s, {<<"clear", "tool_off", "demote_others">>})
  /\ \/ sess[s].tool = "off"
     \/ Has(s, {<<"clear", "tool_off", "demote_others">>, <<"tool_off", "demote_others">>})

\* Until the handler of a turn's end has stored its wait, others may change the
\* record as they like, but for the tool: nobody else starts one.
StopOf(s) ==
  /\ Only(s, StopLeft \union Sessions!Late)
  /\ \/ sess[s].status = "waiting"
     \/ Has(s, StopLeft)
  /\ \/ sess[s].wait # "none"
     \/ Has(s, StopLeft)
  /\ \/ sess[s].tool = "off"
     \/ Has(s, {<<"tool_off", "await_weak">>, <<"tool_off", "await_strong">>})

\* The rest of a prompt's handler does not undo a demotion.
DemotedOf(s) ==
  /\ sess[s].status = "done"
  /\ sess[s].wait = "none"
  /\ Only(s, PromptLeft \union Sessions!Late)

LateOf(s) ==
  /\ sess[s].status \in {"running", "waiting"}
  /\ Only(s, Sessions!Late)
  /\ \/ sess[s].wait = "none"
     \/ Has(s, {<<"clear">>})

Shown(s) ==
  /\ last[s] = "prompt" => PromptOf(s)
  /\ last[s] = "stop" => StopOf(s)
  /\ last[s] = "demoted" => DemotedOf(s)
  /\ last[s] = "late" => LateOf(s)

Outcome == \A s \in Sids : Shown(s)

RegInv == RegType /\ Asked /\ Outcome

LEMMA RegistryInit == Sessions!Init => RegInv
BY Bounds DEF Sessions!Init, Sessions!Free, Sessions!Absent, Sessions!New, Recs,
     RegInv, RegType, Shows, Asked, Outcome, Shown

\* A free thread is nobody's.
LEMMA FreeThread ==
  ASSUME RegType, NEW h \in Threads
  PROVE  /\ thread[h] = Sessions!Free \/ (thread[h].sid \in Sids /\ thread[h].todo \in Left
              /\ thread[h] # Sessions!Free /\ thread[h] = [sid |-> thread[h].sid, todo |-> thread[h].todo])
         /\ thread[h] = Sessions!Free => thread[h].sid \notin Sids
BY Bounds, LeftNonEmpty DEF RegType, Jobs, Sessions!Free

\* What a call of thread h for session s, with `todo' left after it, makes of
\* the records and of the threads.
LEMMA MakeCallIs ==
  ASSUME RegType, NEW h \in Threads, NEW s \in Sids, NEW calls,
         Head(calls) \in FirstCalls \union LaterCalls,
         Tail(calls) = <<>> \/ Tail(calls) \in Left,
         Sessions!MakeCall(h, s, calls)
  PROVE  /\ sess' \in [Sids -> Recs]
         /\ sess'[s] = Sessions!Effect(Head(calls), sess[s])
         /\ \A o \in Sids : o # s =>
              /\ sess'[o] = sess[o] \/ sess'[o] = Sessions!Demote(sess[o])
              /\ Head(calls) # "demote_others" => sess'[o] = sess[o]
         /\ thread' \in [Threads -> Jobs \union {Sessions!Free}]
         /\ thread'[h] = IF Tail(calls) = <<>> THEN Sessions!Free
                         ELSE [sid |-> s, todo |-> Tail(calls)]
         /\ \A g \in Threads : g # h => thread'[g] = thread[g]
         /\ sweep' = sweep
<1>1. sess[s] \in Recs /\ \A o \in Sids : sess[o] \in Recs
  BY DEF RegType
<1>2. Sessions!Effect(Head(calls), sess[s]) \in Recs
  BY <1>1, EffectIs
<1>3. \A o \in Sids : Sessions!Demote(sess[o]) \in Recs
  BY <1>1, DemoteIs
<1>4. sess' = [o \in Sids |-> IF o = s THEN Sessions!Effect(Head(calls), sess[s])
                              ELSE IF Head(calls) = "demote_others" THEN Sessions!Demote(sess[o])
                              ELSE sess[o]]
  BY DEF Sessions!MakeCall
<1>5. thread' = [thread EXCEPT ![h] = IF Tail(calls) = <<>> THEN Sessions!Free
                                      ELSE [sid |-> s, todo |-> Tail(calls)]]
  BY DEF Sessions!MakeCall
<1>6. sess' \in [Sids -> Recs] /\ sess'[s] = Sessions!Effect(Head(calls), sess[s])
      /\ \A o \in Sids : o # s =>
           /\ sess'[o] = sess[o] \/ sess'[o] = Sessions!Demote(sess[o])
           /\ Head(calls) # "demote_others" => sess'[o] = sess[o]
  BY <1>1, <1>2, <1>3, <1>4
<1>7. thread' \in [Threads -> Jobs \union {Sessions!Free}]
  BY <1>5 DEF RegType, Jobs
<1> QED
  BY <1>5, <1>6, <1>7 DEF RegType, Sessions!MakeCall

\* The threads of other sessions are not thread h's to move.
LEMMA OthersKept ==
  ASSUME RegType, NEW h \in Threads, NEW s \in Sids, NEW o \in Sids \ {s}, NEW todos,
         thread[h] = Sessions!Free \/ thread[h].sid = s,
         thread'[h] = Sessions!Free \/ thread'[h].sid = s,
         \A g \in Threads : g # h => thread'[g] = thread[g]
  PROVE  /\ Only(o, todos) => Only(o, todos)'
         /\ Has(o, todos) => Has(o, todos)'
<1>1. thread[h].sid # o /\ thread'[h].sid # o
  BY Bounds DEF Sessions!Free
<1> QED
  BY <1>1 DEF Only, Has

\* What a session shows stands while its record and its handlers do.
LEMMA OutcomeKept ==
  ASSUME NEW o \in Sids,
         sess'[o].status = sess[o].status, sess'[o].wait = sess[o].wait,
         sess'[o].tool = sess[o].tool,
         \A todos : (Only(o, todos) => Only(o, todos)') /\ (Has(o, todos) => Has(o, todos)')
  PROVE  /\ PromptOf(o) => PromptOf(o)'
         /\ StopOf(o) => StopOf(o)'
         /\ DemotedOf(o) => DemotedOf(o)'
         /\ LateOf(o) => LateOf(o)'
<1> USE DEF PromptOf, StopOf, DemotedOf, LateOf
<1>1. /\ Only(o, PromptLeft \union Sessions!Late) => Only(o, PromptLeft \union Sessions!Late)'
      /\ Only(o, StopLeft \union Sessions!Late) => Only(o, StopLeft \union Sessions!Late)'
      /\ Only(o, Sessions!Late) => Only(o, Sessions!Late)'
  OBVIOUS
<1>2. /\ Has(o, {<<"clear", "tool_off", "demote_others">>})
           => Has(o, {<<"clear", "tool_off", "demote_others">>})'
      /\ Has(o, {<<"clear", "tool_off", "demote_others">>, <<"tool_off", "demote_others">>})
           => Has(o, {<<"clear", "tool_off", "demote_others">>, <<"tool_off", "demote_others">>})'
      /\ Has(o, StopLeft) => Has(o, StopLeft)'
      /\ Has(o, {<<"tool_off", "await_weak">>, <<"tool_off", "await_strong">>})
           => Has(o, {<<"tool_off", "await_weak">>, <<"tool_off", "await_strong">>})'
      /\ Has(o, {<<"clear">>}) => Has(o, {<<"clear">>})'
  OBVIOUS
<1> HIDE DEF Only, Has, Sessions!Late, PromptLeft, StopLeft
<1>3. PromptOf(o) => PromptOf(o)'
  BY <1>1, <1>2
<1>4. StopOf(o) => StopOf(o)'
  BY <1>1, <1>2
<1>5. (DemotedOf(o) => DemotedOf(o)') /\ (LateOf(o) => LateOf(o)')
  BY <1>1, <1>2
<1> QED
  BY <1>3, <1>4, <1>5

\* A step of others, which starts no tool of session o's.
LEMMA OvertakenShown ==
  ASSUME RegType, Outcome, NEW o \in Sids,
         sess'[o].tool \in {sess[o].tool, "off"},
         last'[o] = Sessions!Overtaken(o, sess'[o]),
         \A todos : (Only(o, todos) => Only(o, todos)') /\ (Has(o, todos) => Has(o, todos)')
  PROVE  last'[o] \in Shows /\ Shown(o)'
<1>0. Shown(o) /\ last[o] \in Shows /\ sess[o] \in Recs
  BY DEF Outcome, RegType
<1>1. CASE sess'[o] = sess[o]
  <2>1. last'[o] = last[o]
    BY <1>1 DEF Sessions!Overtaken
  <2> QED
    BY <1>0, <1>1, <2>1, OutcomeKept DEF Shown
<1>2. CASE sess'[o] # sess[o] /\ last[o] = "stop" /\ Sessions!Awaits(o)
  <2>1. last'[o] = "stop"
    BY <1>2 DEF Sessions!Overtaken
  <2>2. StopOf(o) /\ Has(o, StopLeft)
    BY <1>0, <1>2 DEF Shown, Sessions!Awaits, Sessions!TurnEnds, Has, StopLeft
  <2>3. /\ Only(o, StopLeft \union Sessions!Late)'
        /\ Has(o, StopLeft)'
        /\ \/ sess[o].tool = "off"
           \/ Has(o, {<<"tool_off", "await_weak">>, <<"tool_off", "await_strong">>})'
    BY <2>2 DEF StopOf
  <2>4. StopOf(o)'
    BY <2>3 DEF StopOf
  <2> QED
    BY <2>1, <2>4 DEF Shown, Shows
<1>3. CASE sess'[o] # sess[o] /\ last[o] = "prompt" /\ sess'[o] = Sessions!Demote(sess[o])
  <2>1. last'[o] = "demoted"
    BY <1>3 DEF Sessions!Overtaken
  <2>2. Only(o, PromptLeft \union Sessions!Late)'
    BY <1>0, <1>3 DEF Shown, PromptOf
  <2>3. sess'[o].status = "done" /\ sess'[o].wait = "none"
    BY <1>0, <1>3 DEF Sessions!Demote, Recs, Sessions!Records, Sessions!Absent, Sessions!New
  <2> QED
    BY <2>1, <2>2, <2>3 DEF Shown, Shows, DemotedOf
<1>4. CASE /\ sess'[o] # sess[o]
           /\ ~(last[o] = "stop" /\ Sessions!Awaits(o))
           /\ ~(last[o] = "prompt" /\ sess'[o] = Sessions!Demote(sess[o]))
  <2>1. last'[o] = "other"
    BY <1>4 DEF Sessions!Overtaken
  <2> QED
    BY <2>1 DEF Shown, Shows
<1> QED
  BY <1>1, <1>2, <1>3, <1>4

\* A handler goes on: prompts.
LEMMA CallAsked ==
  ASSUME RegInv, NEW h \in Threads, Sessions!Call(h)
  PROVE  Asked'
<1> DEFINE s == thread[h].sid
           todo == thread[h].todo
<1>1. s \in Sids /\ todo \in Left /\ Sessions!MakeCall(h, s, todo)
  BY FreeThread DEF Sessions!Call, RegInv
<1>2. Head(todo) \in LaterCalls /\ (Tail(todo) = <<>> \/ Tail(todo) \in Left)
  BY <1>1, LeftCalls
<1>3. /\ sess[s] \in Recs
      /\ sess'[s] = Sessions!Effect(Head(todo), sess[s])
      /\ \A o \in Sids : o # s => sess'[o] = sess[o] \/ sess'[o] = Sessions!Demote(sess[o])
      /\ thread'[h] = IF Tail(todo) = <<>> THEN Sessions!Free ELSE [sid |-> s, todo |-> Tail(todo)]
      /\ \A g \in Threads : g # h => thread'[g] = thread[g]
  <2>1. RegType /\ sess[s] \in Recs
    BY <1>1 DEF RegInv, RegType
  <2> HIDE DEF s, todo
  <2> QED
    BY <1>1, <1>2, <2>1, MakeCallIs
<1>4. ASSUME HasAnswer(todo), Head(todo) # "answer"
      PROVE  thread'[h].sid = s /\ HasAnswer(thread'[h].todo)
  <2>1. Tail(todo) # <<>> /\ HasAnswer(Tail(todo))
    BY <1>1, <1>4, LeftCalls
  <2>2. thread'[h] = [sid |-> s, todo |-> Tail(todo)]
    BY <1>3, <2>1
  <2> QED
    BY <2>1, <2>2
<1>5. ASSUME NEW o \in Sids, sess'[o].prompt = "pending"
      PROVE  \E g \in Threads : thread'[g].sid = o /\ HasAnswer(thread'[g].todo)
  <2>1. CASE o # s
    <3>1. sess[o].prompt = "pending"
      BY <1>3, <1>5, <2>1, DemoteIs DEF RegInv, RegType
    <3>2. PICK g \in Threads : thread[g].sid = o /\ HasAnswer(thread[g].todo)
      BY <3>1 DEF RegInv, Asked
    <3> QED
      BY <1>3, <2>1, <3>2
  <2>2. CASE o = s /\ Head(todo) = "ask"
    BY <1>1, <1>4, <2>2, LeftCalls
  <2>3. CASE o = s /\ Head(todo) # "ask"
    <3>1. Head(todo) \notin {"answer", "drop"} /\ sess[s].prompt = "pending"
      BY <1>2, <1>3, <1>5, <2>3, EffectIs
    <3>2. PICK g \in Threads : thread[g].sid = s /\ HasAnswer(thread[g].todo)
      BY <1>1, <3>1 DEF RegInv, Asked
    <3>3. CASE g = h
      BY <1>4, <2>3, <3>1, <3>2, <3>3
    <3>4. CASE g # h
      BY <1>3, <2>3, <3>2, <3>4
    <3> QED
      BY <3>3, <3>4
  <2> QED
    BY <2>1, <2>2, <2>3
<1> QED
  BY <1>5 DEF Asked, HasAnswer

\* What is true of a session's handlers while one of them, thread h, moves on.
LEMMA OwnMoves ==
  ASSUME NEW h \in Threads, NEW s, NEW todos,
         \A g \in Threads : g # h => thread'[g] = thread[g]
  PROVE  /\ thread[h].todo \notin todos /\ Has(s, todos) => Has(s, todos)'
         /\ Only(s, todos) /\ (thread'[h].sid = s => thread'[h].todo \in todos) => Only(s, todos)'
         /\ thread'[h].sid = s /\ thread'[h].todo \in todos => Has(s, todos)'
BY DEF Has, Only

\* A handler goes on: outcomes.
LEMMA CallOutcome ==
  ASSUME RegInv, NEW h \in Threads, Sessions!Call(h)
  PROVE  RegType' /\ Outcome'
<1>1. RegType /\ Outcome
  BY DEF RegInv
<1>2. PICK s \in Sids, todo \in Left :
        /\ thread[h].sid = s /\ thread[h].todo = todo /\ thread[h] # Sessions!Free
        /\ Sessions!MakeCall(h, s, todo) /\ sess[s] \in Recs
        /\ last' = [o \in Sids |-> IF o # s THEN Sessions!Overtaken(o, sess'[o])
                                  ELSE IF todo \in Sessions!Late THEN Sessions!LateEnd(s)
                                  ELSE last[s]]
  BY <1>1, FreeThread DEF Sessions!Call, RegType
<1>3. Head(todo) \in LaterCalls /\ (Tail(todo) = <<>> \/ Tail(todo) \in Left)
  BY LeftCalls
<1>4. /\ sess' \in [Sids -> Recs]
      /\ sess'[s] = Sessions!Effect(Head(todo), sess[s])
      /\ \A o \in Sids : o # s => sess'[o] = sess[o] \/ sess'[o] = Sessions!Demote(sess[o])
      /\ thread' \in [Threads -> Jobs \union {Sessions!Free}]
      /\ thread'[h] = IF Tail(todo) = <<>> THEN Sessions!Free ELSE [sid |-> s, todo |-> Tail(todo)]
      /\ \A g \in Threads : g # h => thread'[g] = thread[g]
      /\ sweep' = sweep
  BY <1>1, <1>2, <1>3, MakeCallIs
<1>5. /\ \A o \in Sids : o # s => last'[o] = Sessions!Overtaken(o, sess'[o])
      /\ todo \in Sessions!Late => last'[s] = Sessions!LateEnd(s)
      /\ todo \notin Sessions!Late => last'[s] = last[s]
  BY <1>2
<1>6. thread'[h] = Sessions!Free \/ thread'[h].sid = s
  BY <1>4
<1>7. ASSUME NEW o \in Sids, o # s
      PROVE  last'[o] \in Shows /\ Shown(o)'
  <2>1. \A todos : (Only(o, todos) => Only(o, todos)') /\ (Has(o, todos) => Has(o, todos)')
    BY <1>1, <1>2, <1>4, <1>6, <1>7, OthersKept
  <2>2. sess'[o].tool = sess[o].tool
    BY <1>1, <1>4, <1>7 DEF RegType, Sessions!Demote, Recs, Sessions!Records, Sessions!Absent,
         Sessions!New
  <2> QED
    BY <1>1, <1>5, <1>7, <2>1, <2>2, OvertakenShown
<1>8. ASSUME last[s] = "prompt", todo \notin Sessions!Late
       PROVE  PromptOf(s)'
  <2>1. PromptOf(s) /\ todo \notin Sessions!Late
    BY <1>1, <1>2, <1>8 DEF Outcome, Shown
  <2>2. todo \in PromptLeft
    BY <1>2, <2>1 DEF PromptOf, Only
  <2>3. CASE todo = <<"clear", "tool_off", "demote_others">>
    <3>1. Head(todo) = "clear" /\ Tail(todo) = <<"tool_off", "demote_others">>
      BY <2>3
    <3>2. thread'[h] = [sid |-> s, todo |-> <<"tool_off", "demote_others">>]
      BY <1>4, <3>1, LeftNonEmpty DEF Left, PromptLeft
    <3>3. sess'[s].status = "running" /\ sess'[s].wait = "none"
      BY <1>2, <1>4, <2>1, <3>1, EffectIs DEF PromptOf, LaterCalls
    <3>4. Only(s, PromptLeft \union Sessions!Late)'
      BY <1>4, <2>1, <3>2 DEF PromptOf, Only, PromptLeft
    <3>5. Has(s, {<<"clear", "tool_off", "demote_others">>, <<"tool_off", "demote_others">>})'
      BY <3>2 DEF Has
    <3> QED
      BY <3>3, <3>4, <3>5 DEF PromptOf
  <2>4. CASE todo = <<"tool_off", "demote_others">>
    <3>1. Head(todo) = "tool_off" /\ Tail(todo) = <<"demote_others">>
      BY <2>4
    <3>2. thread'[h] = [sid |-> s, todo |-> <<"demote_others">>]
      BY <1>4, <3>1, LeftNonEmpty DEF Left, PromptLeft
    <3>3. sess'[s].status = "running" /\ sess'[s].wait = sess[s].wait /\ sess'[s].tool = "off"
      BY <1>2, <1>4, <2>1, <3>1, EffectIs DEF PromptOf, LaterCalls
    <3>4. Only(s, PromptLeft \union Sessions!Late)'
      BY <1>4, <2>1, <3>2 DEF PromptOf, Only, PromptLeft
    <3>5. todo # <<"clear", "tool_off", "demote_others">>
      BY <2>4
    <3>6. Has(s, {<<"clear", "tool_off", "demote_others">>})
            => Has(s, {<<"clear", "tool_off", "demote_others">>})'
      BY <1>2, <1>4, <3>5, OwnMoves
    <3> QED
      BY <2>1, <3>3, <3>4, <3>6 DEF PromptOf
  <2>5. CASE todo = <<"demote_others">>
    <3>1. Head(todo) = "demote_others" /\ Tail(todo) = <<>>
      BY <2>5
    <3>2. thread'[h] = Sessions!Free /\ thread'[h].sid # s
      BY <1>2, <1>4, <3>1, Bounds DEF Sessions!Free
    <3>3. sess'[s].status = "running" /\ sess'[s].wait = sess[s].wait
          /\ sess'[s].tool = sess[s].tool
      BY <1>2, <1>4, <2>1, <3>1, EffectIs DEF PromptOf, LaterCalls
    <3>4. Only(s, PromptLeft \union Sessions!Late)'
      BY <1>4, <2>1, <3>2 DEF PromptOf, Only
    <3>5. todo \notin {<<"clear", "tool_off", "demote_others">>, <<"tool_off", "demote_others">>}
      BY <2>5
    <3>6. /\ Has(s, {<<"clear", "tool_off", "demote_others">>})
               => Has(s, {<<"clear", "tool_off", "demote_others">>})'
          /\ Has(s, {<<"clear", "tool_off", "demote_others">>, <<"tool_off", "demote_others">>})
               => Has(s, {<<"clear", "tool_off", "demote_others">>, <<"tool_off", "demote_others">>})'
      BY <1>2, <1>4, <3>5, OwnMoves
    <3> QED
      BY <2>1, <3>3, <3>4, <3>6 DEF PromptOf
  <2> QED
    BY <2>2, <2>3, <2>4, <2>5 DEF PromptLeft
<1>9. ASSUME last[s] = "stop", todo \notin Sessions!Late
       PROVE  StopOf(s)'
  <2>1. StopOf(s) /\ todo \notin Sessions!Late
    BY <1>1, <1>2, <1>9 DEF Outcome, Shown
  <2>2. todo \in StopLeft
    BY <1>2, <2>1 DEF StopOf, Only
  <2>3. CASE todo \in {<<"tool_off", "await_weak">>, <<"tool_off", "await_strong">>}
    <3>1. Head(todo) = "tool_off" /\ Tail(todo) \in {<<"await_weak">>, <<"await_strong">>}
      BY <2>2, <2>3, StopCalls
    <3>2. thread'[h] = [sid |-> s, todo |-> Tail(todo)] /\ Tail(todo) \in StopLeft
      BY <1>4, <3>1 DEF StopLeft
    <3>3. sess'[s].tool = "off"
      BY <1>2, <1>4, <2>1, <3>1, EffectIs DEF StopOf, LaterCalls
    <3>4. Only(s, StopLeft \union Sessions!Late)' /\ Has(s, StopLeft)'
      <4>1. thread'[h].todo \in StopLeft \union Sessions!Late /\ thread'[h].todo \in StopLeft
        BY <3>2
      <4>2. thread'[h].sid = s
        BY <3>2
      <4> QED
        BY <1>4, <2>1, <4>1, <4>2, OwnMoves DEF StopOf
    <3> QED
      BY <3>3, <3>4 DEF StopOf
  <2>4. CASE todo \in {<<"await_weak">>, <<"await_strong">>}
    <3>1. Head(todo) \in {"await_weak", "await_strong"} /\ Tail(todo) = <<>>
      BY <2>2, <2>4, StopCalls
    <3>2. thread'[h] = Sessions!Free /\ thread'[h].sid # s
      BY <1>2, <1>4, <3>1, Bounds DEF Sessions!Free
    <3>3. sess'[s].status = "waiting" /\ sess'[s].tool = sess[s].tool /\ sess'[s].wait # "none"
      BY <1>2, <1>4, <2>1, <3>1, EffectIs DEF StopOf, LaterCalls
    <3>4. Only(s, StopLeft \union Sessions!Late)'
      BY <1>4, <2>1, <3>2 DEF StopOf, Only
    <3>5. todo \notin {<<"tool_off", "await_weak">>, <<"tool_off", "await_strong">>}
      BY <2>4
    <3>6. Has(s, {<<"tool_off", "await_weak">>, <<"tool_off", "await_strong">>})
            => Has(s, {<<"tool_off", "await_weak">>, <<"tool_off", "await_strong">>})'
      BY <1>2, <1>4, <3>5, OwnMoves
    <3> QED
      BY <2>1, <3>3, <3>4, <3>6 DEF StopOf
  <2> QED
    BY <2>2, <2>3, <2>4 DEF StopLeft
<1>10. ASSUME last[s] = "demoted", todo \notin Sessions!Late
       PROVE  DemotedOf(s)'
  <2>1. DemotedOf(s) /\ todo \in PromptLeft
    BY <1>1, <1>2, <1>10 DEF Outcome, Shown, DemotedOf, Only
  <2>2. /\ Head(todo) \in {"clear", "tool_off", "demote_others"}
        /\ Tail(todo) = <<>> \/ Tail(todo) \in PromptLeft
    BY <2>1, PromptCalls DEF PromptLeft
  <2>3. sess'[s].status = "done" /\ sess'[s].wait = "none"
    BY <1>2, <1>4, <2>1, <2>2, EffectIs DEF DemotedOf, LaterCalls
  <2>4. thread'[h].sid = s => thread'[h].todo \in PromptLeft \union Sessions!Late
    BY <1>2, <1>4, <2>2, Bounds DEF Sessions!Free
  <2>5. Only(s, PromptLeft \union Sessions!Late)'
    BY <1>4, <2>1, <2>4, OwnMoves DEF DemotedOf
  <2> QED
    BY <2>3, <2>5 DEF DemotedOf
<1>11. ASSUME last[s] = "late"
       PROVE  todo \in Sessions!Late
  BY <1>1, <1>2, <1>11 DEF Outcome, Shown, LateOf, Only
<1>12. ASSUME todo \in Sessions!Late
       PROVE  last'[s] \in Shows /\ Shown(s)'
  <2>1. last'[s] = Sessions!LateEnd(s)
    BY <1>5, <1>12
  <2>2. /\ \/ todo = <<"answer", "clear">> /\ Head(todo) = "answer" /\ Tail(todo) = <<"clear">>
           \/ todo = <<"clear">> /\ Head(todo) = "clear" /\ Tail(todo) = <<>>
        /\ todo \notin PromptLeft /\ todo \notin StopLeft
    <3>1. CASE todo = <<"answer", "clear">>
      BY <3>1 DEF PromptLeft, StopLeft
    <3>2. CASE todo = <<"clear">>
      BY <3>2 DEF PromptLeft, StopLeft
    <3> QED
      BY <1>12, <3>1, <3>2 DEF Sessions!Late
  <2>3. thread'[h].sid = s => thread'[h].todo \in Sessions!Late
    BY <1>2, <1>4, <2>2, Bounds DEF Sessions!Free, Sessions!Late
  <2>4. /\ sess'[s].tool = sess[s].tool
        /\ Head(todo) = "answer" => sess'[s].status = "running" /\ sess'[s].wait = sess[s].wait
        /\ Head(todo) = "clear" => sess'[s].status = sess[s].status /\ sess'[s].wait = "none"
    BY <1>2, <1>3, <1>4, <2>2, EffectIs
  <2>5. \A todos : thread[h].todo \notin todos /\ Has(s, todos) => Has(s, todos)'
    BY <1>4, OwnMoves
  <2>6. /\ Only(s, PromptLeft \union Sessions!Late) => Only(s, PromptLeft \union Sessions!Late)'
        /\ Only(s, StopLeft \union Sessions!Late) => Only(s, StopLeft \union Sessions!Late)'
        /\ Only(s, Sessions!Late) => Only(s, Sessions!Late)'
    BY <1>4, <2>3, OwnMoves
  <2>7. Head(todo) = "answer" => Has(s, {<<"clear">>})'
    <3>1. CASE todo = <<"answer", "clear">>
      <4>1. Tail(todo) = <<"clear">> /\ Tail(todo) # <<>>
        BY <2>2, <3>1, LeftNonEmpty DEF Left, ToolLeft
      <4>2. thread'[h].sid = s /\ thread'[h].todo = <<"clear">>
        BY <1>4, <4>1
      <4> QED
        BY <4>2 DEF Has
    <3>2. CASE todo # <<"answer", "clear">>
      BY <2>2, <3>2
    <3> QED
      BY <3>1, <3>2
  <2>8. CASE last[s] = "prompt"
    <3>1. PromptOf(s) /\ last'[s] = "prompt"
      BY <1>1, <2>1, <2>8 DEF Outcome, Shown, Sessions!LateEnd
    <3>2. todo \notin {<<"clear", "tool_off", "demote_others">>, <<"tool_off", "demote_others">>}
      BY <2>2 DEF PromptLeft
    <3>3. /\ Has(s, {<<"clear", "tool_off", "demote_others">>})
               => Has(s, {<<"clear", "tool_off", "demote_others">>})'
          /\ Has(s, {<<"clear", "tool_off", "demote_others">>, <<"tool_off", "demote_others">>})
               => Has(s, {<<"clear", "tool_off", "demote_others">>, <<"tool_off", "demote_others">>})'
      BY <1>2, <2>5, <3>2
    <3>4. PromptOf(s)'
      BY <2>2, <2>4, <2>6, <3>1, <3>3 DEF PromptOf
    <3> QED
      BY <3>1, <3>4 DEF Shown, Shows
  <2>9. CASE last[s] = "stop" /\ Sessions!Awaits(s)
    <3>1. StopOf(s) /\ last'[s] = "stop" /\ Has(s, StopLeft)
      BY <1>1, <2>1, <2>9 DEF Outcome, Shown, Sessions!LateEnd, Sessions!Awaits, Sessions!TurnEnds,
           Has, StopLeft
    <3>2. todo \notin {<<"tool_off", "await_weak">>, <<"tool_off", "await_strong">>}
      BY <2>2 DEF StopLeft
    <3>3. /\ Has(s, StopLeft)'
          /\ Has(s, {<<"tool_off", "await_weak">>, <<"tool_off", "await_strong">>})
               => Has(s, {<<"tool_off", "await_weak">>, <<"tool_off", "await_strong">>})'
      BY <1>2, <2>2, <2>5, <3>1, <3>2
    <3>4. StopOf(s)'
      BY <2>4, <2>6, <3>1, <3>3 DEF StopOf
    <3> QED
      BY <3>1, <3>4 DEF Shown, Shows
  <2>10. CASE last[s] = "stop" /\ ~Sessions!Awaits(s)
    <3>1. last'[s] = "late"
      BY <2>1, <2>10 DEF Sessions!LateEnd
    <3>2. StopOf(s) /\ ~Has(s, StopLeft)
      BY <1>1, <2>10 DEF Outcome, Shown, Sessions!Awaits, Sessions!TurnEnds, Has, StopLeft
    <3>3. Only(s, Sessions!Late)
      BY <3>2 DEF StopOf, Only, Has
    <3>4. sess[s].status = "waiting"
      BY <3>2 DEF StopOf
    <3>5. Only(s, Sessions!Late)'
      BY <2>6, <3>3
    <3>6. LateOf(s)'
      BY <2>2, <2>4, <2>7, <3>4, <3>5 DEF LateOf
    <3> QED
      BY <3>1, <3>6 DEF Shown, Shows
  <2>11. CASE last[s] = "late"
    <3>1. last'[s] = "late" /\ LateOf(s)
      BY <1>1, <2>1, <2>11 DEF Outcome, Shown, Sessions!LateEnd
    <3>2. Only(s, Sessions!Late)'
      BY <2>6, <3>1 DEF LateOf
    <3>3. LateOf(s)'
      BY <2>2, <2>4, <2>7, <3>1, <3>2 DEF LateOf
    <3> QED
      BY <3>1, <3>3 DEF Shown, Shows
  <2>12. CASE last[s] \notin {"prompt", "stop", "late"}
    <3>1. last'[s] = "other"
      BY <2>1, <2>12 DEF Sessions!LateEnd
    <3> QED
      BY <3>1 DEF Shown, Shows
  <2> QED
    BY <2>8, <2>9, <2>10, <2>11, <2>12
<1>13. last'[s] \in Shows /\ Shown(s)'
  <2>1. CASE todo \notin Sessions!Late
    <3>1. last'[s] = last[s] /\ last[s] \in Shows
      BY <1>1, <1>5, <2>1 DEF RegType
    <3> QED
      BY <1>8, <1>9, <1>10, <1>11, <2>1, <3>1 DEF Shown
  <2> QED
    BY <1>12, <2>1
<1>14. \A o \in Sids : last'[o] \in Shows /\ Shown(o)'
  BY <1>7, <1>13
<1>15. last' \in [Sids -> Shows]
  <2>1. DOMAIN last' = Sids /\ last' = [o \in Sids |-> last'[o]]
    BY <1>2
  <2> QED
    BY <1>14, <2>1
<1>16. RegType'
  BY <1>1, <1>4, <1>15 DEF RegType
<1> QED
  BY <1>16, <1>14 DEF Outcome

\* An event arrives.  Its handler's first call stores no wait and no prompt.
LEMMA ReceiveStep ==
  ASSUME RegInv, NEW h \in Threads, NEW s \in Sids, NEW e \in Sessions!Events,
         Sessions!Receive(h, s, e)
  PROVE  RegInv'
<1> DEFINE calls == Sessions!Handler[e]
<1>0. RegType /\ Asked /\ Outcome /\ sess[s] \in Recs
  BY DEF RegInv, RegType
<1>1. /\ Head(calls) \in FirstCalls
      /\ Tail(calls) = <<>> \/ Tail(calls) \in Left
      /\ Sessions!MakeCall(h, s, calls)
  BY FirstCallOf DEF Sessions!Receive
<1>2. /\ thread[h] = Sessions!Free
      /\ last' = [last EXCEPT ![s] =
                    CASE e = "user_prompt_submit" -> "prompt"
                      [] e \in {"stop", "stop_asking"} -> "stop"
                      [] e = "tokens" -> @
                      [] OTHER -> "other"]
      /\ e \in {"user_prompt_submit", "stop", "stop_asking", "tokens"} =>
           \A g \in Threads : thread[g].sid = s => thread[g].todo \in Sessions!Late
  BY DEF Sessions!Receive, Sessions!ToolEvents
<1>3. /\ e = "user_prompt_submit" =>
           /\ Head(calls) = "upsert_running"
           /\ Tail(calls) = <<"clear", "tool_off", "demote_others">>
      /\ e \in {"stop", "stop_asking"} =>
           /\ Head(calls) = "upsert_waiting"
           /\ Tail(calls) \in {<<"tool_off", "await_weak">>, <<"tool_off", "await_strong">>}
      /\ e = "tokens" => Head(calls) = "upsert" /\ Tail(calls) = <<>>
  BY FirstCallOf
<1> HIDE DEF calls
<1>4. /\ sess' \in [Sids -> Recs]
      /\ sess'[s] = Sessions!Effect(Head(calls), sess[s])
      /\ \A o \in Sids : o # s => sess'[o] = sess[o]
      /\ thread' \in [Threads -> Jobs \union {Sessions!Free}]
      /\ thread'[h] = IF Tail(calls) = <<>> THEN Sessions!Free ELSE [sid |-> s, todo |-> Tail(calls)]
      /\ \A g \in Threads : g # h => thread'[g] = thread[g]
      /\ sweep' = sweep
  <2>1. Head(calls) # "demote_others"
    BY <1>1 DEF FirstCalls
  <2> QED
    BY <1>0, <1>1, <2>1, MakeCallIs
<1>5. /\ last' \in [Sids -> Shows]
      /\ \A o \in Sids \ {s} : last'[o] = last[o]
      /\ last'[s] = CASE e = "user_prompt_submit" -> "prompt"
                      [] e \in {"stop", "stop_asking"} -> "stop"
                      [] e = "tokens" -> last[s]
                      [] OTHER -> "other"
  BY <1>0, <1>2 DEF RegType, Shows
<1>6. RegType'
  BY <1>0, <1>4, <1>5 DEF RegType
<1>7. thread[h].sid # s /\ thread[h].sid \notin Sids
  BY <1>2, Bounds DEF Sessions!Free
<1>8. sess'[s].prompt \in {sess[s].prompt, "none"}
  BY <1>0, <1>1, <1>4, EffectIs DEF FirstCalls
<1>9. Asked'
  <2> SUFFICES ASSUME NEW o \in Sids, sess'[o].prompt = "pending"
               PROVE  \E g \in Threads : thread'[g].sid = o /\ HasAnswer(thread'[g].todo)
    BY DEF Asked, HasAnswer
  <2>1. sess[o].prompt = "pending"
    BY <1>4, <1>8
  <2>2. PICK g \in Threads : thread[g].sid = o /\ HasAnswer(thread[g].todo)
    BY <1>0, <2>1 DEF Asked
  <2> QED
    BY <1>4, <1>7, <2>2
<1>10. ASSUME NEW o \in Sids, o # s
       PROVE  Shown(o)'
  <2>1. \A todos : (Only(o, todos) => Only(o, todos)') /\ (Has(o, todos) => Has(o, todos)')
    <3>1. thread'[h] = Sessions!Free \/ thread'[h].sid = s
      BY <1>4
    <3> QED
      BY <1>0, <1>2, <1>4, <1>10, <3>1, OthersKept
  <2> QED
    BY <1>0, <1>4, <1>5, <1>10, <2>1, OutcomeKept DEF Outcome, Shown
<1>11. CASE e = "user_prompt_submit"
  <2>0. Tail(calls) = <<"clear", "tool_off", "demote_others">> /\ Tail(calls) # <<>>
    BY <1>3, <1>11, LeftNonEmpty DEF Left, PromptLeft
  <2>1. /\ thread'[h] = [sid |-> s, todo |-> <<"clear", "tool_off", "demote_others">>]
        /\ sess'[s].status = "running"
    <3>1. Head(calls) = "upsert_running" /\ Head(calls) \in FirstCalls
      BY <1>1, <1>3, <1>11
    <3>2. sess'[s].status = "running"
      BY <1>0, <1>4, <3>1, EffectIs
    <3> QED
      BY <1>4, <2>0, <3>2
  <2>2. Has(s, {<<"clear", "tool_off", "demote_others">>})'
        /\ Has(s, {<<"clear", "tool_off", "demote_others">>, <<"tool_off", "demote_others">>})'
    BY <2>1 DEF Has
  <2>3. Only(s, PromptLeft \union Sessions!Late)'
    BY <1>2, <1>4, <1>11, <2>1 DEF Only, PromptLeft
  <2>4. PromptOf(s)' /\ last'[s] = "prompt"
    BY <1>5, <1>11, <2>1, <2>2, <2>3 DEF PromptOf
  <2> QED
    BY <1>6, <1>9, <1>10, <2>4 DEF RegInv, Outcome, Shown
<1>12. CASE e \in {"stop", "stop_asking"}
  <2>1. Tail(calls) \in StopLeft /\ Tail(calls) # <<>>
    BY <1>3, <1>12, LeftNonEmpty DEF Left, StopLeft
  <2>2. thread'[h].sid = s /\ thread'[h].todo = Tail(calls)
        /\ sess'[s].status = "waiting"
    BY <1>0, <1>1, <1>3, <1>4, <1>12, <2>1, EffectIs
  <2>3. Has(s, StopLeft)'
        /\ Has(s, {<<"tool_off", "await_weak">>, <<"tool_off", "await_strong">>})'
    BY <1>3, <1>12, <2>1, <2>2 DEF Has
  <2>4. Only(s, StopLeft \union Sessions!Late)'
    BY <1>2, <1>4, <1>12, <2>1, <2>2 DEF Only
  <2>5. StopOf(s)' /\ last'[s] = "stop"
    BY <1>5, <1>12, <2>2, <2>3, <2>4 DEF StopOf
  <2> QED
    BY <1>6, <1>9, <1>10, <2>5 DEF RegInv, Outcome, Shown
<1>13. CASE e = "tokens"
  <2>1. thread'[h] = Sessions!Free /\ thread'[h].sid # s
    BY <1>3, <1>4, <1>13, Bounds DEF Sessions!Free
  <2>2. \A todos : (Only(s, todos) => Only(s, todos)') /\ (Has(s, todos) => Has(s, todos)')
    BY <1>4, <1>7, <2>1 DEF Only, Has
  <2>3. last'[s] = last[s]
    BY <1>5, <1>13
  <2>4. sess[s] # Sessions!Absent =>
          /\ sess'[s].status = sess[s].status
          /\ sess'[s].wait = sess[s].wait
          /\ sess'[s].tool = sess[s].tool
    BY <1>0, <1>1, <1>3, <1>4, <1>13, EffectIs
  <2>5. PromptOf(s) \/ DemotedOf(s) \/ LateOf(s) => sess[s] # Sessions!Absent
    BY DEF PromptOf, DemotedOf, LateOf, Sessions!Absent, Sessions!New
  <2>6. /\ PromptOf(s) => PromptOf(s)'
        /\ DemotedOf(s) => DemotedOf(s)'
        /\ LateOf(s) => LateOf(s)'
    BY <2>2, <2>4, <2>5, OutcomeKept
  <2>7. StopOf(s) => StopOf(s)'
    <3>1. \A g \in Threads : thread[g].sid = s => thread[g].todo \in Sessions!Late
      BY <1>2, <1>13
    <3>2. Sessions!Late \intersect StopLeft = {}
      <4>1. <<"clear">> \notin StopLeft /\ <<"answer", "clear">> \notin StopLeft
        BY DEF StopLeft
      <4> QED
        BY <4>1 DEF Sessions!Late
    <3>3. StopOf(s) => sess[s].status = "waiting"
      BY <3>1, <3>2 DEF StopOf, Has
    <3>4. StopOf(s) => sess[s] # Sessions!Absent
      BY <3>3 DEF Sessions!Absent, Sessions!New
    <3> QED
      BY <2>2, <2>4, <3>4, OutcomeKept
  <2> QED
    BY <1>0, <1>6, <1>9, <1>10, <2>3, <2>6, <2>7 DEF RegInv, Outcome, Shown
<1>14. CASE e \notin {"user_prompt_submit", "stop", "stop_asking", "tokens"}
  BY <1>5, <1>6, <1>9, <1>10, <1>14 DEF RegInv, Outcome, Shown
<1> QED
  BY <1>11, <1>12, <1>13, <1>14

\* A sweep that asks nothing of anybody.
LEMMA SweptStep ==
  ASSUME RegInv, NEW name \in {"idle_turns", "dead", "stale", "decay"}, NEW new \in [Sids -> Recs],
         \A s \in Sids : /\ new[s].prompt = "pending" => sess[s].prompt = "pending"
                         /\ new[s].tool \in {sess[s].tool, "off"},
         Sessions!Swept(name, new)
  PROVE  RegInv'
<1>0. RegType /\ Asked /\ Outcome
  BY DEF RegInv
<1>1. sess' = new /\ thread' = thread /\ sweep' = Sessions!NextSweep[name]
  BY DEF Sessions!Swept
<1>2. last' = [o \in Sids |-> Sessions!Overtaken(o, sess'[o])]
  BY <1>1 DEF Sessions!Swept
<1>3. Asked'
  BY <1>0, <1>1 DEF Asked, HasAnswer
<1>4. ASSUME NEW o \in Sids
      PROVE  last'[o] \in Shows /\ Shown(o)'
  <2>1. \A todos : (Only(o, todos) => Only(o, todos)') /\ (Has(o, todos) => Has(o, todos)')
    BY <1>1 DEF Only, Has
  <2>2. last'[o] = Sessions!Overtaken(o, sess'[o]) /\ sess'[o].tool \in {sess[o].tool, "off"}
    BY <1>1, <1>2
  <2> QED
    BY <1>0, <2>1, <2>2, OvertakenShown
<1>5. last' \in [Sids -> Shows]
  <2>1. last' = [o \in Sids |-> last'[o]]
    BY <1>2
  <2> QED
    BY <1>4, <2>1
<1>6. RegType'
  BY <1>0, <1>1, <1>5 DEF RegType, Sessions!NextSweep
<1> QED
  BY <1>6, <1>3, <1>4 DEF RegInv, Outcome

LEMMA TickKeeps ==
  ASSUME RegInv, Sessions!Tick
  PROVE  RegInv'
<1>0. \A s \in Sids : sess[s] \in Recs
  BY DEF RegInv, RegType
<1>a. Sessions!Absent \in Recs /\ Sessions!Absent.prompt = "none" /\ Sessions!Absent.tool = "off"
  BY DEF Recs, Sessions!Absent, Sessions!New
<1>1. CASE Sessions!SweepIdleTurns
  <2> DEFINE silent == {s \in Sessions!Present : /\ sess[s].status = "running" /\ sess[s].wait = "none"
                                                 /\ sess[s].tool = "off" /\ sess[s].age # "recent"}
             new(thinking) == [s \in Sids |->
               IF s \in silent \ thinking THEN [sess[s] EXCEPT !.status = "waiting", !.wait = "weak"]
               ELSE sess[s]]
  <2>1. PICK thinking \in SUBSET silent : Sessions!Swept("idle_turns", new(thinking))
    BY <1>1 DEF Sessions!SweepIdleTurns
  <2>2. new(thinking) \in [Sids -> Recs]
    BY <1>0 DEF Sessions!Present, Recs, Sessions!Records
  <2>3. \A s \in Sids : new(thinking)[s].prompt = sess[s].prompt /\ new(thinking)[s].tool = sess[s].tool
    BY <1>0 DEF Sessions!Present, Recs, Sessions!Records, Sessions!Absent, Sessions!New
  <2> HIDE DEF new
  <2> QED
    BY <2>1, <2>2, <2>3, SweptStep
<1>2. CASE Sessions!SweepDead
  <2> DEFINE new(gone) == [s \in Sids |-> IF s \in gone THEN Sessions!Absent ELSE sess[s]]
  <2>1. PICK gone \in SUBSET Sessions!Present : Sessions!Swept("dead", new(gone))
    BY <1>2 DEF Sessions!SweepDead
  <2>2. new(gone) \in [Sids -> Recs] 
        /\ \A s \in Sids : /\ new(gone)[s].prompt = "pending" => sess[s].prompt = "pending"
                           /\ new(gone)[s].tool \in {sess[s].tool, "off"}
    BY <1>0, <1>a
  <2> HIDE DEF new
  <2> QED
    BY <2>1, <2>2, SweptStep
<1>3. CASE Sessions!SweepStale
  <2> DEFINE new == [s \in Sids |-> IF sess[s].age = "stale" THEN Sessions!Absent ELSE sess[s]]
  <2>1. Sessions!Swept("stale", new)
    BY <1>3 DEF Sessions!SweepStale
  <2>2. new \in [Sids -> Recs] 
        /\ \A s \in Sids : /\ new[s].prompt = "pending" => sess[s].prompt = "pending"
                           /\ new[s].tool \in {sess[s].tool, "off"}
    BY <1>0, <1>a
  <2> HIDE DEF new
  <2> QED
    BY <2>1, <2>2, SweptStep
<1>4. CASE Sessions!DecayOfWeak
  <2> DEFINE new(old) == [s \in Sids |-> IF s \in old THEN Sessions!Demote(sess[s]) ELSE sess[s]]
  <2>1. PICK old \in SUBSET {s \in Sids : sess[s].wait = "weak"} : Sessions!Swept("decay", new(old))
    BY <1>4 DEF Sessions!DecayOfWeak
  <2>2. new(old) \in [Sids -> Recs] 
        /\ \A s \in Sids : new(old)[s].prompt = sess[s].prompt /\ new(old)[s].tool = sess[s].tool
    BY <1>0, DemoteIs
  <2> HIDE DEF new
  <2> QED
    BY <2>1, <2>2, SweptStep
<1> QED
  BY <1>1, <1>2, <1>3, <1>4 DEF Sessions!Tick

LEMMA SilenceKeeps ==
  ASSUME RegInv, NEW s \in Sids, Sessions!Silence(s)
  PROVE  RegInv'
<1>0. RegType /\ Asked /\ Outcome
  BY DEF RegInv
<1>1. /\ sess[s] \in Sessions!Records
      /\ \E age \in {"silent", "stale"} : sess' = [sess EXCEPT ![s].age = age]
      /\ thread' = thread /\ sweep' = sweep /\ last' = last
  BY <1>0 DEF Sessions!Silence, Sessions!Present, RegType, Recs
<1>2. /\ sess' \in [Sids -> Recs]
      /\ \A o \in Sids : /\ sess'[o].prompt = sess[o].prompt
                         /\ sess'[o].status = sess[o].status
                         /\ sess'[o].wait = sess[o].wait
                         /\ sess'[o].tool = sess[o].tool
  BY <1>0, <1>1 DEF RegType, Recs, Sessions!Records
<1>3. RegType'
  BY <1>0, <1>1, <1>2 DEF RegType
<1>4. Asked'
  BY <1>0, <1>1, <1>2 DEF Asked, HasAnswer
<1>5. ASSUME NEW o \in Sids
      PROVE  Shown(o)'
  <2>1. \A todos : (Only(o, todos) => Only(o, todos)') /\ (Has(o, todos) => Has(o, todos)')
    BY <1>1 DEF Only, Has
  <2> QED
    BY <1>0, <1>1, <1>2, <2>1, OutcomeKept DEF Outcome, Shown
<1> QED
  BY <1>3, <1>4, <1>5 DEF RegInv, Outcome

LEMMA RegistryKeeps ==
  RegInv /\ [Sessions!Next]_registry => RegInv'
<1> SUFFICES ASSUME RegInv, [Sessions!Next]_registry PROVE RegInv'
  OBVIOUS
<1>1. ASSUME NEW h \in Threads, Sessions!Call(h)
      PROVE  RegInv'
  BY <1>1, CallAsked, CallOutcome DEF RegInv
<1>2. CASE UNCHANGED registry
  BY <1>2 DEF registry, RegInv, RegType, Asked, HasAnswer, Outcome, Shown, PromptOf,
       StopOf, DemotedOf, LateOf, Only, Has
<1> QED
  BY <1>1, <1>2, ReceiveStep, TickKeeps, SilenceKeeps DEF Sessions!Next

LEMMA RegistryInvariant == Sessions!Spec => []RegInv
<1>1. RegInv /\ [Sessions!Next]_registry => RegInv'
  BY RegistryKeeps
<1>2. RegInv /\ [Sessions!Next]_(Sessions!vars) => RegInv'
  BY <1>1 DEF registry, Sessions!vars
<1> QED
  BY RegistryInit, <1>2, PTL DEF Sessions!Spec

LEMMA OutcomeFollows == RegInv => OutcomeHolds
<1> SUFFICES ASSUME RegInv, NEW s \in Sids, ~Sessions!Busy(s)
             PROVE  /\ last[s] = "prompt" =>
                         sess[s].status = "running" /\ sess[s].wait = "none" /\ sess[s].tool = "off"
                    /\ last[s] = "stop" =>
                         sess[s].status = "waiting" /\ sess[s].wait # "none" /\ sess[s].tool = "off"
                    /\ last[s] = "demoted" => sess[s].status = "done" /\ sess[s].wait = "none"
                    /\ last[s] = "late" =>
                         sess[s].status \in {"running", "waiting"} /\ sess[s].wait = "none"
  BY DEF OutcomeHolds, Sessions!OutcomeHolds, Sessions!Present
<1>1. \A todos : ~Has(s, todos)
  BY DEF Has, Sessions!Busy
<1>2. Shown(s)
  BY DEF RegInv, Outcome
<1> HIDE DEF Has
<1> QED
  BY <1>1, <1>2 DEF Shown, PromptOf, StopOf, DemotedOf, LateOf

LEMMA AskerFollows == RegInv => PromptHasAsker
BY DEF RegInv, Asked, HasAnswer, PromptHasAsker, Sessions!PromptHasAsker

\* A call is made once.
LEMMA CallIsSpent ==
  ASSUME NEW todo \in Left
  PROVE  Tail(todo) # todo
<1>1. CASE todo \in PromptLeft
  <2>1. CASE todo = <<"clear", "tool_off", "demote_others">>
    BY <2>1
  <2>2. CASE todo = <<"tool_off", "demote_others">>
    BY <2>2
  <2>3. CASE todo = <<"demote_others">>
    BY <2>3
  <2> QED
    BY <1>1, <2>1, <2>2, <2>3 DEF PromptLeft
<1>2. CASE todo \in StopLeft
  <2>1. CASE todo = <<"tool_off", "await_weak">>
    BY <2>1
  <2>2. CASE todo = <<"await_weak">>
    BY <2>2
  <2>3. CASE todo = <<"tool_off", "await_strong">>
    BY <2>3
  <2>4. CASE todo = <<"await_strong">>
    BY <2>4
  <2> QED
    BY <1>2, <2>1, <2>2, <2>3, <2>4 DEF StopLeft
<1>3. CASE todo \in AskLeft
  <2>1. CASE todo = <<"clear", "tool_on", "ask", "await_strong", "answer", "clear">>
    BY <2>1
  <2>2. CASE todo = <<"tool_on", "ask", "await_strong", "answer", "clear">>
    BY <2>2
  <2>3. CASE todo = <<"ask", "await_strong", "answer", "clear">>
    BY <2>3
  <2>4. CASE todo = <<"await_strong", "answer", "clear">>
    BY <2>4
  <2>5. CASE todo = <<"answer", "clear">>
    BY <2>5
  <2> QED
    BY <1>3, <2>1, <2>2, <2>3, <2>4, <2>5 DEF AskLeft
<1>4. CASE todo \in ToolLeft
  <2>1. CASE todo = <<"clear", "tool_on">>
    BY <2>1
  <2>2. CASE todo = <<"tool_on">>
    BY <2>2
  <2>3. CASE todo = <<"tool_off">>
    BY <2>3
  <2>4. CASE todo = <<"clear">>
    BY <2>4
  <2> QED
    BY <1>4, <2>1, <2>2, <2>3, <2>4 DEF ToolLeft
<1> QED
  BY <1>1, <1>2, <1>3, <1>4 DEF Left

LEMMA QuestionStep ==
  ASSUME RegInv, [Sessions!Next]_registry, NEW s \in Sids,
         sess[s].wait = "strong", sess'[s].wait # "strong"
  PROVE  \/ sess'[s] = Sessions!Absent
         \/ \E h \in Threads : thread[h].sid = s /\ thread'[h] # thread[h]
<1>0. RegType /\ sess[s] \in Recs /\ sess[s] # Sessions!Absent /\ Sessions!Absent.wait = "none"
  BY DEF RegInv, RegType, Sessions!Absent, Sessions!New
<1>1. ASSUME NEW h \in Threads, NEW o \in Sids, NEW e \in Sessions!Events, Sessions!Receive(h, o, e)
      PROVE  sess'[s] = Sessions!Absent
  <2>1. PICK calls : /\ calls = Sessions!Handler[e]
                     /\ Head(calls) \in FirstCalls
                     /\ Tail(calls) = <<>> \/ Tail(calls) \in Left
                     /\ Sessions!MakeCall(h, o, calls)
    BY <1>1, FirstCallOf DEF Sessions!Receive
  <2>2. Head(calls) # "demote_others"
    BY <2>1 DEF FirstCalls
  <2>3. sess'[o] = Sessions!Effect(Head(calls), sess[o])
    BY <1>0, <2>1, MakeCallIs
  <2>5. o # s => sess'[s] = sess[s]
    BY <1>0, <2>1, <2>2, MakeCallIs
  <2>4. o = s /\ Head(calls) = "drop"
    BY <1>0, <2>1, <2>2, <2>3, <2>5, EffectIs DEF FirstCalls
  <2> QED
    BY <2>3, <2>4 DEF Sessions!Effect
<1>2. ASSUME NEW h \in Threads, Sessions!Call(h)
      PROVE  thread[h].sid = s /\ thread'[h] # thread[h]
  <2>1. PICK o \in Sids, todo \in Left :
          /\ thread[h].sid = o /\ thread[h].todo = todo /\ thread[h] # Sessions!Free
          /\ Sessions!MakeCall(h, o, todo)
    BY <1>0, <1>2, FreeThread DEF Sessions!Call
  <2>2. Head(todo) \in LaterCalls /\ (Tail(todo) = <<>> \/ Tail(todo) \in Left)
    BY LeftCalls
  <2>3. /\ \A p \in Sids : p # o => sess'[p] = sess[p] \/ sess'[p] = Sessions!Demote(sess[p])
        /\ thread'[h] = IF Tail(todo) = <<>> THEN Sessions!Free ELSE [sid |-> o, todo |-> Tail(todo)]
    BY <1>0, <2>1, <2>2, MakeCallIs
  <2>4. o = s
    BY <1>0, <2>3, DemoteIs
  <2> QED
    BY <2>1, <2>3, <2>4, CallIsSpent
<1>3. ASSUME Sessions!Tick
      PROVE  sess'[s] = Sessions!Absent
  <2>1. CASE Sessions!SweepIdleTurns
    BY <1>0, <2>1 DEF Sessions!SweepIdleTurns, Sessions!Swept
  <2>2. CASE Sessions!SweepDead
    BY <1>0, <2>2 DEF Sessions!SweepDead, Sessions!Swept
  <2>3. CASE Sessions!SweepStale
    BY <1>0, <2>3 DEF Sessions!SweepStale, Sessions!Swept
  <2>4. CASE Sessions!DecayOfWeak
    BY <1>0, <2>4, DemoteIs DEF Sessions!DecayOfWeak, Sessions!Swept
  <2> QED
    BY <1>3, <2>1, <2>2, <2>3, <2>4 DEF Sessions!Tick
<1>4. ASSUME NEW o \in Sids, Sessions!Silence(o)
      PROVE  FALSE
  <2>1. \E age : sess' = [sess EXCEPT ![o].age = age]
    BY <1>4 DEF Sessions!Silence
  <2> QED
    BY <1>0, <2>1 DEF RegType, Recs, Sessions!Records
<1>5. ~UNCHANGED registry
  BY DEF registry
<1> QED
  BY <1>1, <1>2, <1>3, <1>4, <1>5 DEF Sessions!Next

\* OutcomeHolds: whatever handlers, sweeps and late ends of permission requests
\* interleave, also between a handler's own calls, for any number of sessions,
\* handler threads and parallel tools, a prompt's session ends up working and a
\* turn's end ends up waiting, but for the two ways in which the code gets it
\* wrong, and what the session shows then.
THEOREM OutcomeAlwaysHolds == Sessions!Spec => []OutcomeHolds
BY RegistryInvariant, OutcomeFollows, PTL

\* PromptHasAsker: no prompt is on a session without a handler that will take
\* it back.
THEOREM PromptAlwaysHasAsker == Sessions!Spec => []PromptHasAsker
BY RegistryInvariant, AskerFollows, PTL

\* QuestionStands: no step of another session's handler, of a sweep or of time
\* takes back a real question, other than by giving its session up.
THEOREM QuestionsStand == Sessions!Spec => QuestionStands
<1> DEFINE Stands ==
      \A s \in Sids : sess[s].wait = "strong" /\ sess'[s].wait # "strong" =>
        \/ sess'[s] = Sessions!Absent
        \/ \E h \in Threads : thread[h].sid = s /\ thread'[h] # thread[h]
<1>1. RegInv /\ [Sessions!Next]_(Sessions!vars) => [Stands]_(Sessions!vars)
  BY QuestionStep DEF registry, Sessions!vars
<1>2. QuestionStands <=> [][Stands]_(Sessions!vars)
  BY DEF QuestionStands, Sessions!QuestionStands
<1> QED
  BY RegistryInvariant, <1>1, <1>2, PTL DEF Sessions!Spec

-----------------------------------------------------------------------------
(* Both halves *)

\* The half that is not played keeps its beginning; the invariants of the half
\* that is played are its own.
BridgeInv ==
  /\ RegInv
  /\ \/ part = "link" /\ TypeOK /\ SingleFlight /\ BeliefInv
     \/ part = "registry" /\ NoLink

LEMMA BridgeStart == BridgeInit => BridgeInv
BY RegistryInit, LinkInit, BeliefInit DEF BridgeInit, BridgeInv

LEMMA BridgeStep == BridgeInv /\ [BridgeNext]_<<part, vars, registry>> => BridgeInv'
<1> SUFFICES ASSUME BridgeInv, [BridgeNext]_<<part, vars, registry>> PROVE BridgeInv'
  OBVIOUS
<1>1. ASSUME UNCHANGED registry PROVE RegInv'
  BY <1>1, RegistryKeeps DEF BridgeInv
<1>2. ASSUME UNCHANGED vars PROVE /\ NoLink => NoLink'
                                  /\ TypeOK /\ SingleFlight /\ BeliefInv => (TypeOK /\ SingleFlight /\ BeliefInv)'
  <2>1. NoLink => NoLink'
    BY <1>2 DEF vars, publisher, link, world, NoLink
  <2> QED
    BY <1>2, <2>1, LinkStep, BeliefStep
<1>3. CASE Linking
  BY <1>1, <1>3, LinkStep, BeliefStep DEF Linking, BridgeInv
<1>4. CASE Registering
  <2>1. RegInv'
    BY <1>4, RegistryKeeps DEF Registering, BridgeInv
  <2> QED
    BY <1>2, <1>4, <2>1 DEF Registering, BridgeInv
<1>5. CASE UNCHANGED <<part, vars, registry>>
  BY <1>1, <1>2, <1>5 DEF BridgeInv
<1> QED
  BY <1>3, <1>4, <1>5 DEF BridgeNext

\* What the run of the two halves checks on two snapshots, two sessions and two
\* threads holds of any: single-flight opens, a panel the publisher is right
\* about, outcomes that hold and prompts that are asked for.
THEOREM BridgeCorrect ==
  BridgeSpec => [](SingleFlight /\ BeliefHolds /\ OutcomeHolds /\ PromptHasAsker)
<1>1. BridgeInv => SingleFlight /\ BeliefHolds /\ OutcomeHolds /\ PromptHasAsker
  <2>1. ASSUME NoLink PROVE SingleFlight /\ BeliefHolds
    BY <2>1 DEF NoLink, SingleFlight, BeliefHolds
  <2>2. ASSUME TypeOK, BeliefInv PROVE BeliefHolds
    BY <2>2, BeliefFollows
  <2> QED
    BY <2>1, <2>2, OutcomeFollows, AskerFollows DEF BridgeInv
<1> QED
  BY BridgeStart, BridgeStep, <1>1, PTL DEF BridgeSpec
=============================================================================
