--------------------------- MODULE MCAgentService ---------------------------
(* Small instances of AgentService for TLC.                                 *)
EXTENDS AgentServiceInvariant, TLC

CONSTANTS w1, t1, k1, s1

Mcp == [mcp |-> TRUE, scopes |-> {s1}]
Local == [mcp |-> FALSE, scopes |-> {}]

Plan(steps, hitl, thread, token) ==
    [wf |-> w1, steps |-> steps, hitl |-> hitl, text |-> FALSE, thread |-> thread,
     token |-> token]

\* One mutating step, no thread.
Bare == {Plan(<<Mcp>>, TRUE, None, k1)}
\* One mutating step in a thread: every request maps to the same workflow id.
OneStep == {Plan(<<Mcp>>, TRUE, t1, k1)}
\* The shapes a dispatch can have: two steps, a step without MCP target, no step.
Shapes == Bare \cup {Plan(<<Mcp, Mcp>>, TRUE, None, k1), Plan(<<Mcp, Local>>, TRUE, None, k1),
           Plan(<<>>, FALSE, t1, None)}

\* In a thread without messages, a history without runs does what none does.
NewHistory ==
    \A p \in Plans : history[p].sent /\ history[p].runs = {} =>
        \E o \in Plans \ {p} : content[o] # None /\ content[o].thread = content[p].thread

\* Either two plans of one step and no thread, or one plan of any shape.
RaceOrShape ==
    /\ NewHistory
    /\ \/ \A p \in Plans : content[p] \in Bare \cup {None}
       \/ Cardinality({p \in Plans : content[p] # None}) <= 1

TwoSteps == {Plan(<<Mcp, Mcp>>, TRUE, None, k1)}
Silent == Plan(<<>>, FALSE, t1, None)
Threaded == {Plan(<<Mcp>>, TRUE, t1, k1), Silent, [Silent EXCEPT !.text = TRUE]} \cup TwoSteps

(* Requests one after another.  Either several of them share a thread and    *)
(* the clock stands, or it runs and there is one plan of two steps and one   *)
(* approval of it.                                                          *)
Begun == {h \in Handlers : pc[h] # "idle"}
Timed == /\ Cardinality(Begun \cap Plans) <= 1 /\ Cardinality(Begun \cap Approvals) <= 1
         /\ \A p \in Plans : content[p] \in TwoSteps \cup {None}
Untimed == \A p \in Plans : content[p] \notin TwoSteps

OneScenario == NewHistory /\ IF now > 0 THEN Timed ELSE Untimed \/ Timed

Symmetry == Permutations(Plans) \cup Permutations(Approvals)
=============================================================================
