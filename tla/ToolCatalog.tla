----------------------------- MODULE ToolCatalog -----------------------------
(***************************************************************************)
(* TOOL_AUTHORIZATION_CATALOG and the pure functions over it: which scopes  *)
(* a tool call needs, given the scopes the user's token was issued, and     *)
(* whether a plan needs a human's approval.                                 *)
(***************************************************************************)
EXTENDS Naturals, Sequences

CONSTANT None

Tool(op, blast, audience, arg, template, candidates) ==
    [op |-> op, blast |-> blast, audience |-> audience, arg |-> arg,
     template |-> template, candidates |-> candidates]

Catalog == [
    get_identity_profile |-> Tool("READ", "low", None, "subject_user_id", "read:user",
        {"read:identity", "read:users", "profile", "email"}),
    get_developer_app |-> Tool("READ", "low", None, "appid", "read:client",
        {"read:developer_apps", "read:apps", "read:developer"}),
    get_account_balance |-> Tool("READ", "low", None, "account_id", "read:account",
        {"read:billing", "read:accounts"}),
    propose_workflow_plan |-> Tool("READ", "none", None, None, "plan:workflow",
        {"plan:workflow", "read:workflow"}),
    inspect_dns_record |-> Tool("READ", "low", "network-mcp", "record_name", "read:dns",
        {"read:network", "read:dns"}),
    update_firewall_rule |-> Tool("WRITE", "high", "network-mcp", "rule_id", "write:firewall",
        {"write:network", "write:firewall"}),
    rotate_vpn_credential |-> Tool("ADMIN", "high", "network-mcp", "credential_id", "admin:vpn",
        {"admin:network", "admin:vpn"}),
    inspect_vm |-> Tool("READ", "low", "cloud-mcp", "vm_id", "read:vm",
        {"read:cloud", "read:vm"}),
    restart_vm |-> Tool("WRITE", "medium", "cloud-mcp", "vm_id", "write:vm",
        {"write:cloud", "write:vm"}),
    update_iam_binding |-> Tool("ADMIN", "high", "cloud-mcp", "principal_id", "admin:iam",
        {"admin:cloud", "admin:iam"})]

Tools == DOMAIN Catalog

------------------------------------------------------------------------------
(* A required scope: a name and the argument value bound to it.  The value   *)
(* of the tool's scope argument is all a call's arguments are told apart by; *)
(* "absent" and "null" are those a scope cannot be rendered from.           *)
Scope(name, value) == [name |-> name, value |-> value]
Unrenderable == {"absent", "null"}

\* Mutant: the catalog's own scopes are asked for when none of them was issued.
SelectedInvented(tool, issued) ==
    LET preferred == Catalog[tool].candidates \cap issued IN
    IF preferred # {} THEN preferred ELSE Catalog[tool].candidates

\* select_auth0_scopes_for_tool: the candidates issued, or else all issued.
Selected(tool, issued) ==
    LET preferred == Catalog[tool].candidates \cap issued IN
    IF preferred # {} THEN preferred ELSE issued

(* scope_requirements_for_auth0_token, and the templates when nothing is     *)
(* known to be issued: a template is bound to the argument.                  *)
UsesTemplate(tool, issued) ==
    \/ issued = {}
    \/ Catalog[tool].arg # None /\ Catalog[tool].candidates \cap issued # {}

\* materialize_scopes raises ScopeMaterializationError otherwise.
Materializable(tool, issued, value) ==
    UsesTemplate(tool, issued) /\ Catalog[tool].arg # None => value \notin Unrenderable

RequiredScopes(tool, issued, value) ==
    IF UsesTemplate(tool, issued)
    THEN {Scope(Catalog[tool].template, IF Catalog[tool].arg = None THEN None ELSE value)}
    ELSE {Scope(s, None) : s \in Selected(tool, issued)}

------------------------------------------------------------------------------
(* evaluate_workflow_policy *)
BlastRank == [none |-> 0, low |-> 1, medium |-> 2, high |-> 3]
Mutating == {"WRITE", "ADMIN"}

RequiresHitl(tools) ==
    \E i \in DOMAIN tools :
        \/ Catalog[tools[i]].op \in Mutating
        \/ BlastRank[Catalog[tools[i]].blast] >= BlastRank["medium"]
==============================================================================
