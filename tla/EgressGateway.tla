---------------------------- MODULE EgressGateway ----------------------------
(***************************************************************************)
(* The egress gateway: POST /egress/mcp checks a signed execution grant    *)
(* against the request, the trusted session context, the clock and the     *)
(* scopes of the on-behalf-of token, and then calls the downstream MCP     *)
(* server.  The check and the call are separated by an await, and the      *)
(* caller may have stopped waiting before either of them happens.          *)
(*                                                                         *)
(* An approval has at most one request outstanding, so the requests on     *)
(* their way to the gateway are a function of the approval.                *)
(***************************************************************************)
EXTENDS Naturals, Sequences

CONSTANTS
    Approvals,  \* approval ids: one per POST /workflows/{id}/approve
    Plans,      \* plan hashes: one per planning request
    Scopes,     \* OAuth scopes
    None        \* the Python None

ASSUME NoneAssumption == None \notin Plans \cup Approvals

VARIABLES
    now,    \* the wall clock, in ticks
    wire,   \* wire[a]: the egress request of approval a and what became of it
    calls   \* calls[a]: the tool calls the MCP servers executed under approval a

egressVars == <<wire, calls>>

(* What the agent service sends.  The grant and the request body are built  *)
(* from the same values, so one record stands for both: "plan" and "step"   *)
(* for workflow, tool, arguments, method and target, "need" for the grant's *)
(* required_scopes, "have" for the token_scopes of the body, "expires" for  *)
(* the grant, "ctxExpires" for the signed session context.  "authorized"    *)
(* is the time at which the gateway let the request pass.                   *)
Message ==
    [st : {"none", "sent", "calling", "completed", "failed", "http_error"},
     plan : Plans \cup {None}, step : Nat,
     need : SUBSET Scopes, have : SUBSET Scopes,
     expires : Nat, ctxExpires : Nat, authorized : Nat]

NoMessage ==
    [st |-> "none", plan |-> None, step |-> 0, need |-> {}, have |-> {},
     expires |-> 0, ctxExpires |-> 0, authorized |-> 0]

\* One executed tool call: what ran, with which scopes, whether the tool succeeded.
Call == [plan : Plans \cup {None}, step : Nat, have : SUBSET Scopes,
         authorized : Nat, ok : BOOLEAN]

EgressTypeOK ==
    /\ wire \in [Approvals -> Message]
    /\ calls \in [Approvals -> Seq(Call)]

EgressInit ==
    /\ wire = [a \in Approvals |-> NoMessage]
    /\ calls = [a \in Approvals |-> <<>>]

------------------------------------------------------------------------------
\* verify_session_context: a context is expired at its expiry time already.
ContextValid(m) == m.ctxExpires > now

\* Mutant: the expiry of the grant is not looked at.
GrantScopesOnly(m) == m.need \subseteq m.have

\* _assert_grant_matches_request: the grant is live and the token carries its scopes.
GrantMatchesRequest(m) ==
    /\ m.expires > now
    /\ m.need \subseteq m.have

Authorized(m) == ContextValid(m) /\ GrantMatchesRequest(m)

\* The 401 and 403 answers: no call is made.
EgressRefuse(a) ==
    /\ wire[a].st = "sent"
    /\ ~Authorized(wire[a])
    /\ wire' = [wire EXCEPT ![a].st = "http_error"]
    /\ UNCHANGED calls

\* derive_outbound_request passed: the gateway now awaits _call_mcp_tool.
EgressAuthorize(a) ==
    /\ wire[a].st = "sent"
    /\ Authorized(wire[a])
    /\ wire' = [wire EXCEPT ![a].st = "calling", ![a].authorized = now]
    /\ UNCHANGED calls

Executed(a, ok) ==
    Append(calls[a], [plan |-> wire[a].plan, step |-> wire[a].step,
                      have |-> wire[a].have,
                      authorized |-> wire[a].authorized, ok |-> ok])

\* The MCP server runs the tool; is_error becomes status "failed" in a 200 answer.
McpCall(a) ==
    /\ wire[a].st = "calling"
    /\ \E ok \in BOOLEAN :
         /\ calls' = [calls EXCEPT ![a] = Executed(a, ok)]
         /\ wire' = [wire EXCEPT ![a].st = IF ok THEN "completed" ELSE "failed"]

\* The transport to the MCP server fails, before or after the tool ran: 502.
McpTransportFails(a) ==
    /\ wire[a].st = "calling"
    /\ \/ UNCHANGED calls
       \/ \E ok \in BOOLEAN : calls' = [calls EXCEPT ![a] = Executed(a, ok)]
    /\ wire' = [wire EXCEPT ![a].st = "http_error"]

EgressStep(a) ==
    \/ EgressRefuse(a)
    \/ EgressAuthorize(a)
    \/ McpCall(a)
    \/ McpTransportFails(a)

\* No request is on its way or being executed.
EgressIdle == \A a \in Approvals : wire[a].st \notin {"sent", "calling"}
==============================================================================
