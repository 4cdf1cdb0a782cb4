------------------------------- MODULE Dispatch -------------------------------
(***************************************************************************)
(* From the language model's proposals to a plan: the provider's parser,    *)
(* the redaction of the run (or the coordinator's dedupe of a planning      *)
(* request), and the loop of ToolIntentDispatcher.dispatch, one iteration   *)
(* per step.                                                                *)
(***************************************************************************)
EXTENDS ToolCatalog, Subsequences, SequencesExt

CONSTANTS
    Payloads,     \* the items of tool_intents a model may write
    MaxPayloads,  \* bound on their number
    AllowLists,   \* the allow-lists of sessions, None for no list
    TokenScopes   \* the scopes of sessions' tokens

Payload == [tool : Tools \cup {"unknown", "malformed"}, value : STRING, server : STRING]

ASSUME DispatchAssumption ==
    /\ Payloads \subseteq Payload
    /\ MaxPayloads \in Nat
    /\ \A a \in AllowLists : a = None \/ a \subseteq STRING

VARIABLES
    request,  \* what the session and the model give: entry, allowed, issued, payloads
    phase,    \* "propose", "dispatch" or "done"
    intents,  \* the intents handed to dispatch
    pos,      \* how many of them the loop has seen
    steps,    \* DispatchResult.steps, one validated intent each
    policy    \* requires_hitl of the evaluated policy

vars == <<request, phase, intents, pos, steps, policy>>

Request ==
    [entry : {"run", "plan"}, allowed : AllowLists, issued : TokenScopes,
     payloads : BoundedSeq(Payloads, MaxPayloads)]

Init ==
    /\ request \in Request
    /\ phase = "propose"
    /\ intents = <<>>
    /\ pos = 0
    /\ steps = <<>>
    /\ policy = FALSE

------------------------------------------------------------------------------
Audience(tool) == IF Catalog[tool].audience = None THEN "workflow-runtime" ELSE Catalog[tool].audience

(* _parse_tool_intents_from_text: what is no proposal for a tool of the      *)
(* catalog is left out; without a server the catalog's is taken.            *)
Parse(payloads) ==
    LET parsed == Keep(payloads, {i \in DOMAIN payloads : payloads[i].tool \in Tools}) IN
    [i \in DOMAIN parsed |->
        [parsed[i] EXCEPT !.server = IF @ = "" THEN Audience(parsed[i].tool) ELSE @]]

\* _redact_runtime_result: the token reference is replaced inside arguments.
Redact(value) == IF value = "tokenref" THEN "[REDACTED]" ELSE value
RedactAll(seq) == [i \in DOMAIN seq |-> [seq[i] EXCEPT !.value = Redact(@)]]

\* _dedupe_intents: agent and reason do not count, the server does.
Dedupe(seq) == Keep(seq, {i \in DOMAIN seq : \A j \in 1..(i - 1) : seq[j] # seq[i]})

Propose ==
    /\ phase = "propose"
    /\ LET parsed == Parse(request.payloads) IN
       intents' = IF request.entry = "run" THEN RedactAll(parsed) ELSE Dedupe(parsed)
    /\ phase' = "dispatch"
    /\ UNCHANGED <<request, pos, steps, policy>>

------------------------------------------------------------------------------
\* normalize_tool_intent
Normalized(intent) == [intent EXCEPT !.server = Audience(intent.tool)]

Allowed(intent) == request.allowed # None => intent.tool \in request.allowed

\* _intent_material of a validated intent is in the set seen.
Material(intent) == <<intent.tool, intent.value, intent.server>>

\* Mutant: calls are told apart by their tool.
SeenTool(intent) == \E i \in DOMAIN steps : steps[i].tool = intent.tool

Seen(intent) == \E i \in DOMAIN steps : Material(steps[i]) = Material(intent)

Accepted(intent) ==
    /\ Allowed(intent)
    /\ ~Seen(Normalized(intent))
    /\ Materializable(intent.tool, request.issued, intent.value)

\* Mutant: the step is numbered by the intent.
StepByPosition(intent) ==
    [id |-> pos + 1, tool |-> intent.tool, value |-> intent.value, server |-> intent.server,
     scopes |-> RequiredScopes(intent.tool, request.issued, intent.value)]

\* step_from_intent
StepFrom(intent) ==
    [id |-> Len(steps) + 1, tool |-> intent.tool, value |-> intent.value, server |-> intent.server,
     scopes |-> RequiredScopes(intent.tool, request.issued, intent.value)]

\* One iteration that ends in a continue.
Drop ==
    /\ phase = "dispatch" /\ pos < Len(intents)
    /\ ~Accepted(intents[pos + 1])
    /\ pos' = pos + 1
    /\ UNCHANGED <<request, phase, intents, steps, policy>>

Accept ==
    /\ phase = "dispatch" /\ pos < Len(intents)
    /\ Accepted(intents[pos + 1])
    /\ steps' = Append(steps, StepFrom(Normalized(intents[pos + 1])))
    /\ pos' = pos + 1
    /\ UNCHANGED <<request, phase, intents, policy>>

Return ==
    /\ phase = "dispatch" /\ pos = Len(intents)
    /\ policy' = RequiresHitl([i \in DOMAIN steps |-> steps[i].tool])
    /\ phase' = "done"
    /\ UNCHANGED <<request, intents, pos, steps>>

Done == phase = "done" /\ UNCHANGED vars

Next == Propose \/ Drop \/ Accept \/ Return \/ Done

Spec == Init /\ [][Next]_vars

------------------------------------------------------------------------------
TypeOK ==
    /\ request \in Request
    /\ phase \in {"propose", "dispatch", "done"}
    /\ pos \in 0..Len(intents)
    /\ \A i \in DOMAIN intents : intents[i].tool \in Tools
    /\ \A i \in DOMAIN steps : steps[i].id \in Nat /\ steps[i].tool \in Tools
    /\ policy \in BOOLEAN

(* The plan is the proposals in their order and nothing else: step i has the *)
(* id i, and the steps stand for different proposals, in their order, that   *)
(* the session allows, with the arguments that were proposed.  So no call is *)
(* planned twice, although models repeat themselves and name other servers   *)
(* for the same tool.                                                       *)
Proposed(step) ==
    {i \in 1..pos : intents[i].tool = step.tool /\ intents[i].value = step.value}

FirstProposed(step) == CHOOSE i \in Proposed(step) : \A j \in Proposed(step) : i <= j

PlanIsProposed ==
    \A i \in DOMAIN steps :
        /\ steps[i].id = i
        /\ Proposed(steps[i]) # {}
        /\ request.allowed # None => steps[i].tool \in request.allowed
        /\ \A j \in 1..(i - 1) : FirstProposed(steps[j]) < FirstProposed(steps[i])

(* The loop of dispatch leaves a proposal whose scopes cannot be rendered out *)
(* of the plan and goes on (PlanningFails is what agent-service.md says).  So  *)
(* what is left out costs no other proposal its step: each one that is allowed *)
(* and whose scopes can be rendered is in the plan.                          *)
NothingElseDropped ==
    \A i \in 1..pos :
        Allowed(intents[i]) /\ Materializable(intents[i].tool, request.issued, intents[i].value)
        => \E k \in DOMAIN steps :
              steps[k].tool = intents[i].tool /\ steps[k].value = intents[i].value

(* The planning request fails "if a proposal cannot supply the required scope *)
(* argument": one that was answered with a plan had no allowed proposal whose *)
(* scopes cannot be rendered.                                               *)
PlanningFails ==
    phase = "done" /\ request.entry = "plan" =>
        \A i \in DOMAIN intents :
            Allowed(intents[i]) =>
                Materializable(intents[i].tool, request.issued, intents[i].value)

(* A scope that names an argument names the one the step will be executed    *)
(* with, after redaction, and a scope that names none was issued.            *)
ScopesFitStep ==
    \A i \in DOMAIN steps : \A s \in steps[i].scopes :
        \/ s.value = steps[i].value /\ s.name = Catalog[steps[i].tool].template
        \/ s.value = None /\ (s.name \in request.issued \/ request.issued = {})
==============================================================================
