---------------------------- MODULE ThreadMessages ----------------------------
(***************************************************************************)
(* The messages of a thread: what _restorable_thread_messages makes of the *)
(* history a client sends with a run, the assistant message it appends, and *)
(* what becomes of them over runs, lost streams, edits and reloads.         *)
(***************************************************************************)
EXTENDS Subsequences

CONSTANTS
    Runs,       \* run ids; the assistant message of run r has the id r
    Plans,      \* what a run may be planned to, see Plan
    Histories,  \* the message lists a tab may start from
    MaxSteps,   \* bound on the steps of a plan
    Values,     \* what clients write for the ids of messages and calls, and for results
    None

Plan == [text : BOOLEAN, steps : 0..MaxSteps]

VARIABLES
    store,   \* ThreadRecord.messages, or None before the thread exists
    tab,     \* the messages of the tab, which it sends with the next run
    open,    \* the runs that may still start
    ran,     \* the runs started; a client chooses the ids, so it may repeat one
    agreed,  \* history variable: the tab saw the last run that stored the thread
    sent     \* history variable: the messages the last run was sent with

vars == <<store, tab, open, ran, agreed, sent>>

------------------------------------------------------------------------------
(* Messages.  A client may write tool calls as parts of the content or as    *)
(* toolCalls, and results as attributes of the part or as tool messages.     *)
Part(type, call, result, error) ==
    [type |-> type, call |-> call, result |-> result, error |-> error]
Text == Part("text", None, None, FALSE)
Known == {"text", "tool-call", "data", "file", "image", "reasoning", "source"}

Stored == {"system", "user", "assistant"}

Message(role, id, parts, calls) ==
    [role |-> role, id |-> id, parts |-> parts, calls |-> calls,
     call |-> None, result |-> None, error |-> FALSE]
ToolMessage(call, result, error) ==
    [Message("tool", call, <<>>, <<>>) EXCEPT
        !.call = call, !.result = result, !.error = error]

IsCall(part) == part.type = "tool-call"
CallsOf(parts) == {parts[k].call : k \in {k \in DOMAIN parts : IsCall(parts[k])}}

\* _normalize_assistant_message: a call is added once, and not when a part has it.
Normalized(m) ==
    LET parts == Keep(m.parts, {k \in DOMAIN m.parts : m.parts[k].type \in Known})
        added == Keep(m.calls, {i \in DOMAIN m.calls :
                    /\ m.calls[i] \notin CallsOf(parts)
                    /\ \A j \in 1..(i - 1) : m.calls[j] # m.calls[i]})
    IN Message("assistant", m.id,
           parts \o [i \in DOMAIN added |-> Part("tool-call", added[i], None, FALSE)], <<>>)

(* A part sent without an id is given a new one, and a result without an id  *)
(* is not merged: None never finds a call.                                  *)
IsCallTo(part, call) == IsCall(part) /\ part.call = call /\ call # None

\* The tool-call parts with the id, as pairs of positions.
Matches(messages, call) ==
    UNION {{<<i, k>> : k \in {k \in DOMAIN messages[i].parts :
                IsCallTo(messages[i].parts[k], call)}} :
           i \in {i \in DOMAIN messages : messages[i].role = "assistant"}}

Earlier(x, y) == x[1] < y[1] \/ (x[1] = y[1] /\ x[2] < y[2])

\* Mutant: the first call with the id takes the result.
FirstMatch(messages, call) ==
    {x \in Matches(messages, call) : \A y \in Matches(messages, call) : ~Earlier(y, x)}

\* Both lists are searched backwards.
LastMatch(messages, call) ==
    {x \in Matches(messages, call) : \A y \in Matches(messages, call) : ~Earlier(x, y)}

\* _merge_tool_result; a result without its call is dropped.
WithResult(part, t) == [part EXCEPT !.result = t.result, !.error = @ \/ t.error]

Merged(messages, t) ==
    IF LastMatch(messages, t.call) = {} THEN messages
    ELSE LET x == CHOOSE x \in LastMatch(messages, t.call) : TRUE IN
         [messages EXCEPT ![x[1]].parts[x[2]] = WithResult(@, t)]

\* _normalize_thread_message, and what the loop over the messages does with it.
Added(restorable, m) ==
    CASE m.role = "tool" -> Merged(restorable, m)
      [] m.role = "assistant" -> Append(restorable, Normalized(m))
      [] m.role \in Stored \ {"assistant"} ->
            Append(restorable, Message(m.role, m.id, <<>>, <<>>))
      [] OTHER -> restorable

Restored(messages) ==
    LET restorable[n \in 0..Len(messages)] ==
            IF n = 0 THEN <<>> ELSE Added(restorable[n - 1], messages[n])
    IN restorable[Len(messages)]

\* Mutant: a message with the id of the new one is kept.
WithAppended(messages, m) == IF m = None THEN messages ELSE Append(messages, m)

WithAssistant(messages, m) ==
    IF m = None THEN messages
    ELSE Append(Keep(messages, {i \in DOMAIN messages : messages[i].id # m.id}), m)

(* _restorable_thread_messages *)
Restorable(messages, m) == WithAssistant(Restored(messages), m)

CallId(r, i) == <<r, i>>
PlannedCalls(r, p) ==
    [i \in 1..p.steps |-> Part("tool-call", CallId(r, i), "planned", FALSE)]

Texts(p) == IF p.text THEN <<Text>> ELSE <<>>
Answer(r, p) == Message("assistant", r, Texts(p) \o PlannedCalls(r, p), <<>>)

\* Mutant: the calls of the plan are stored without their results.
AssistantWithoutResults(r, p) ==
    Message("assistant", r,
        Texts(p) \o [i \in 1..p.steps |-> Part("tool-call", CallId(r, i), None, FALSE)], <<>>)

\* _assistant_thread_message: nothing when there is nothing to say.
Assistant(r, p) == IF ~p.text /\ p.steps = 0 THEN None ELSE Answer(r, p)

(* The same turn as the tab built it from the events of the stream.         *)
LiveTurn(r, p) ==
    {<<Answer(r, p)>>,
     <<Message("assistant", r, Texts(p), [i \in 1..p.steps |-> CallId(r, i)])>>
        \o [i \in 1..p.steps |-> ToolMessage(CallId(r, i), "planned", FALSE)]}

(* What clients send.  A run's id is new: the client draws it at random, and *)
(* the ids of the other messages are not of this kind.                      *)
SentPart ==
    [type : Known \cup {"unknown"}, call : Values \cup {None},
     result : Values \cup {None}, error : BOOLEAN]

SentMessage ==
    [role : Stored \cup {"tool", "other"}, id : Values, parts : Seq(SentPart),
     calls : Seq(Values), call : Values \cup {None}, result : Values \cup {None},
     error : BOOLEAN]

ASSUME MessagesAssumption ==
    /\ MaxSteps \in Nat /\ Plans \subseteq Plan
    /\ Histories \subseteq Seq(SentMessage)
    /\ \A r \in Runs : r \notin Values /\ <<"user", r>> \notin Runs /\ <<r>> \notin Runs
    /\ \A r \in Runs, p \in Plans : Answer(r, p) # None
    /\ \A r \in Runs : \A i \in 1..MaxSteps : CallId(r, i) # None

------------------------------------------------------------------------------
Init ==
    /\ store = None
    /\ tab \in Histories
    /\ open \in SUBSET Runs
    /\ ran = {}
    /\ agreed = FALSE
    /\ sent = <<>>

\* The user asks; the run stores the thread and the tab may lose its stream.
Run(r) ==
    /\ r \in open
    /\ \E p \in Plans :
         LET history == Append(tab, Message("user", <<"user", r>>, <<>>, <<>>)) IN
         /\ store' = Restorable(history, Assistant(r, p))
         /\ sent' = history
         /\ \/ tab' = history /\ agreed' = FALSE
            \/ \E turn \in LiveTurn(r, p) : tab' = history \o turn /\ agreed' = TRUE
    /\ open' = open \ {r} /\ ran' = ran \cup {r}

\* The run is sent again under its id, once, and its stream is lost.
Repeat(r) ==
    /\ r \in ran
    /\ \E p \in Plans : store' = Restorable(tab, Assistant(r, p))
    /\ sent' = tab
    /\ agreed' = FALSE
    /\ ran' = ran \ {r}
    /\ UNCHANGED <<tab, open>>

\* POST /workflows/plan for the thread, without messages: the stored ones count.
PlanDirectly(r) ==
    /\ r \in open
    /\ \E p \in Plans :
         LET history == IF store = None THEN <<>> ELSE store IN
         /\ store' = Restorable(history, Assistant(<<r>>, [p EXCEPT !.text = FALSE]))
         /\ sent' = history
    /\ agreed' = FALSE
    /\ open' = open \ {r}
    /\ UNCHANGED <<tab, ran>>

\* The tab is loaded anew, or restores the thread after a run.
Reload ==
    /\ store # None
    /\ tab' = store /\ agreed' = TRUE
    /\ UNCHANGED <<store, open, ran, sent>>

\* The user goes back to an earlier message, to edit or repeat it.
GoBack ==
    /\ \E n \in 0..(Len(tab) - 1) : tab' = SubSeq(tab, 1, n)
    /\ agreed' = FALSE
    /\ UNCHANGED <<store, open, ran, sent>>

Done == open = {} /\ UNCHANGED vars

Next ==
    \/ \E r \in Runs : Run(r) \/ Repeat(r) \/ PlanDirectly(r)
    \/ Reload \/ GoBack \/ Done

Spec == Init /\ [][Next]_vars

------------------------------------------------------------------------------
TypeOK ==
    /\ store # None => \A i \in DOMAIN store :
         store[i].role \in Stored /\ store[i].calls = <<>>
    /\ open \subseteq Runs /\ ran \subseteq Runs \ open
    /\ agreed \in BOOLEAN
    /\ \A i \in DOMAIN tab : tab[i].role \in Stored \cup {"tool", "other"}

(* A reload shows the turn that was streamed: what the tab built from the    *)
(* events and what the store holds are the same messages, except that an     *)
(* empty turn is not stored.                                                *)
Spoken(messages) ==
    Keep(messages, {i \in DOMAIN messages :
        messages[i].role = "assistant" /\ messages[i].id \in Runs => messages[i].parts # <<>>})

ReloadShowsStream == agreed => Spoken(Restored(tab)) = Spoken(store)

(* A run has one message in its thread, also when it is repeated under its   *)
(* id with a history that holds its first answer.                           *)
OneMessagePerRun ==
    /\ TypeOK
    /\ store # None =>
        \A i, j \in DOMAIN store :
            store[i].id = store[j].id /\ store[i].id \in Runs => i = j

(* A result is attached to the latest call with its id that precedes it, the *)
(* latest result wins, and a result without such a call is dropped.          *)
Place(j) == Rank({i \in DOMAIN sent : sent[i].role \in Stored}, j)

Reaches(parts, j, k, t) ==
    /\ sent[t].role = "tool" /\ IsCallTo(parts[j][k], sent[t].call)
    /\ \A i \in (j + 1)..(t - 1) :
         sent[i].role = "assistant" => sent[t].call \notin CallsOf(parts[i])
    /\ \A l \in DOMAIN parts[j] : l > k => ~IsCallTo(parts[j][l], sent[t].call)

ResultsAtTheirCall ==
    LET parts == [i \in DOMAIN sent |-> Normalized(sent[i]).parts]
        restored == Restored(sent)
    IN \A j \in DOMAIN sent : sent[j].role = "assistant" =>
        \A k \in DOMAIN parts[j] :
            LET part == parts[j][k]
                hits == {t \in (j + 1)..Len(sent) : Reaches(parts, j, k, t)}
            IN restored[Place(j)].parts[k].result =
                   IF hits = {} THEN part.result
                   ELSE sent[CHOOSE t \in hits : \A u \in hits : u <= t].result
==============================================================================
