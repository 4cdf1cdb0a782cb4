----------------------------- MODULE TokenBroker -----------------------------
(***************************************************************************)
(* The token broker, composed with the dispatch that made the plan: the     *)
(* scopes and the audience an approved plan is exchanged for, what Auth0     *)
(* issues and how much of it the answer tells, what the client makes of the  *)
(* answer, and the steps executed with it.                                  *)
(***************************************************************************)
EXTENDS Dispatch, FiniteSets

CONSTANTS
    Approved,         \* bound: the requests whose plans are approved
    Configured,       \* the scopes a service may ask for in its own name
    Audiences,        \* the audiences a token can be for
    ServerAudience,   \* the <SERVER>_AUDIENCE variables, None if unset
    DefaultAudience   \* AUTH0_OBO_DOWNSTREAM_AUDIENCE

Servers == {Catalog[t].audience : t \in Tools} \ {None}

ASSUME BrokerAssumption ==
    /\ None \notin Audiences /\ DefaultAudience \in Audiences
    /\ ServerAudience \in [Servers -> Audiences \cup {None}]

VARIABLES
    client,    \* "obo" asks for a user's plan, "m2m" for the service itself
    asked,     \* the scopes and the audience of the token request
    pc,
    token,     \* the token that was issued, as Auth0 knows it
    response,  \* the JSON of Auth0's answer
    report,    \* WorkflowTokenExchangeResponse, or what the other client returns
    next,      \* the steps executed so far
    calls      \* the steps that passed the egress gateway

brokerVars == <<client, asked, pc, token, response, report, next, calls>>

Granted(t) == t.scopes \cup t.permissions
NoToken == [scopes |-> {}, permissions |-> {}, auds |-> {}, jwt |-> FALSE]
NoReport == [scopes |-> {}, audience |-> None]

------------------------------------------------------------------------------
(* A scope goes over the wire in a list separated by spaces: one whose       *)
(* argument holds a space arrives as two.                                   *)
Words(scope) ==
    IF scope.value = "two words"
    THEN {Scope(scope.name, "two"), Scope("words", None)}
    ELSE {scope}

OnTheWire(scopes) == UNION {Words(s) : s \in scopes}

\* _obo_requested_scopes
Requested ==
    UNION {steps[i].scopes \cup {Scope(s, None) : s \in Catalog[steps[i].tool].candidates} :
           i \in DOMAIN steps}

PlanServers == {Catalog[steps[i].tool].audience : i \in DOMAIN steps} \ {None}

\* Mutant: the audience of any server of the plan will do.
AudienceOfAny ==
    LET mapped == {ServerAudience[s] : s \in PlanServers} \ {None} IN
    IF mapped # {} THEN CHOOSE a \in mapped : TRUE ELSE DefaultAudience

(* _requested_audience: the audience of the server, if the plan has one       *)
(* server and it has an audience of its own.                                *)
Expected ==
    IF Cardinality(PlanServers) = 1 /\ {ServerAudience[s] : s \in PlanServers} # {None}
    THEN ServerAudience[CHOOSE s \in PlanServers : TRUE]
    ELSE DefaultAudience

BrokerInit ==
    /\ Init
    /\ client = None /\ pc = "idle"
    /\ asked = NoReport /\ token = NoToken /\ response = NoReport /\ report = NoReport
    /\ next = 0
    /\ calls = {}

Ask(who, scopes, audience) ==
    /\ pc = "idle"
    /\ client' = who
    /\ asked' = [scopes |-> scopes, audience |-> audience]
    /\ pc' = "ask"
    /\ UNCHANGED <<vars, token, response, report, next, calls>>

\* The plan was approved.
AskForPlan ==
    /\ phase = "done" /\ request \in Approved
    /\ Ask("obo", Requested, Expected)

\* A service asks in its own name, with no plan; the model has it ask once.
AskForService ==
    /\ phase = "propose" /\ request.payloads = <<>>
    /\ \E scopes \in Configured, audience \in Audiences \cup {None} :
         Ask("m2m", scopes, audience)

(* Auth0 issues what the user may have of what was asked for, perhaps for    *)
(* another audience, and says as much of it as it likes.  Only the service's  *)
(* own client looks at the lifetime and the type.                           *)
Issue ==
    /\ pc = "ask"
    /\ \E scopes \in SUBSET OnTheWire(asked.scopes),
          audience \in (SUBSET Audiences) \ {{}}, jwt \in BOOLEAN :
         \E permissions \in SUBSET scopes :
            token' = [scopes |-> scopes \ permissions, permissions |-> permissions,
                      auds |-> audience, jwt |-> jwt]
    /\ response' \in [scope : {None, token'.scopes}, auds : {{}} \cup {token'.auds},
                      lifetime : IF client = "m2m" THEN {None, 0, 1} ELSE {None},
                      bearer : IF client = "m2m" THEN BOOLEAN ELSE {TRUE}]
    /\ pc' = "answered"
    /\ UNCHANGED <<vars, client, asked, report, next, calls>>

\* An HTTP error, a timeout, or an answer without an access token.
IssueFails ==
    /\ pc = "ask"
    /\ pc' = "failed"
    /\ UNCHANGED <<vars, client, asked, token, response, report, next, calls>>

------------------------------------------------------------------------------
Told == IF response.scope = None THEN {} ELSE response.scope
Claimed == IF token.jwt THEN Granted(token) ELSE {}

(* _scopes_from_response: the answer, else the claims, else, for the service  *)
(* itself, what was asked for.                                              *)
ReportedScopes ==
    IF Told # {} THEN Told
    ELSE IF Claimed # {} THEN Claimed
    ELSE IF client = "m2m" THEN asked.scopes ELSE {}

\* Mutant: an answer that is silent about the audience confirms it.
ConfirmedOrSilent ==
    asked.audience \in response.auds \cup (IF token.jwt THEN token.auds ELSE {asked.audience})

\* _audience_from_response, compared with the expected audience.
Confirmed == asked.audience \in response.auds \cup (IF token.jwt THEN token.auds ELSE {})

\* The client raises for the other answers.
Usable ==
    IF client = "obo" THEN Confirmed ELSE response.bearer /\ response.lifetime # 0

Read ==
    /\ pc = "answered"
    /\ \/ /\ Usable
          /\ report' = [scopes |-> ReportedScopes, audience |-> asked.audience]
          /\ pc' = IF client = "obo" THEN "execute" ELSE "done"
       \/ /\ ~Usable
          /\ pc' = "failed" /\ UNCHANGED report
    /\ UNCHANGED <<vars, client, asked, token, response, next, calls>>

(* _execute_approved_steps and the gateway's check of the grant.             *)
Passes(step) ==
    /\ Catalog[step.tool].audience # None
    /\ step.scopes \subseteq report.scopes

Execute ==
    /\ pc = "execute" /\ next < Len(steps)
    /\ LET step == steps[next + 1] IN
         \/ /\ Passes(step)
            /\ calls' = calls \cup {step}
            /\ next' = next + 1
            /\ UNCHANGED pc
         \/ /\ ~Passes(step)
            /\ pc' = "failed" /\ UNCHANGED <<next, calls>>
    /\ UNCHANGED <<vars, client, asked, token, response, report>>

Finish ==
    /\ pc = "execute" /\ next = Len(steps)
    /\ pc' = "done"
    /\ UNCHANGED <<vars, client, asked, token, response, report, next, calls>>

Answered == pc \in {"done", "failed"} /\ UNCHANGED <<vars, brokerVars>>

Broker == AskForPlan \/ AskForService \/ Issue \/ IssueFails \/ Read \/ Execute \/ Finish

BrokerNext ==
    \/ pc = "idle" /\ Next /\ UNCHANGED brokerVars
    \/ Broker
    \/ Answered

BrokerSpec == BrokerInit /\ [][BrokerNext]_<<vars, brokerVars>>

------------------------------------------------------------------------------
BrokerTypeOK ==
    /\ TypeOK
    /\ client \in {None, "obo", "m2m"}
    /\ pc \in {"idle", "ask", "answered", "execute", "done", "failed"}
    /\ report.audience \in Audiences \cup {None}
    /\ report.scopes \subseteq asked.scopes \cup OnTheWire(asked.scopes)
    /\ next \in 0..Len(steps)
    /\ calls \subseteq {steps[i] : i \in DOMAIN steps}

(* What a client reports was granted, unless the client credentials answer   *)
(* said nothing at all; and a call runs only with a token that really carries *)
(* its scopes, bound to its argument, and is really for the audience the      *)
(* grant names.  The clients and the gateway never see the token's own record *)
(* and have only the answer to go by, however little it told.                *)
CallsWithinToken ==
    /\ \/ report.scopes \subseteq Granted(token)
       \/ client = "m2m" /\ Told = {} /\ Claimed = {}
    /\ \A step \in calls :
         step.scopes \subseteq Granted(token) /\ report.audience \in token.auds

(* A server is never called with a token asked for another server.           *)
NoForeignToken ==
    /\ BrokerTypeOK
    /\ \A step \in calls :
        report.audience \in {ServerAudience[Catalog[step.tool].audience], DefaultAudience}
==============================================================================
