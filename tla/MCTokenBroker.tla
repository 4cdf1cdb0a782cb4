---------------------------- MODULE MCTokenBroker ----------------------------
(* Instances of TokenBroker, and so of Dispatch, for TLC.                   *)
EXTENDS TokenBroker, TLC

CONSTANTS network, cloud, own

P(t, v, s) == [tool |-> t, value |-> v, server |-> s]

Sample ==
    {P("inspect_vm", "vm1", ""), P("inspect_vm", "vm1", "elsewhere"),
     P("inspect_vm", "tokenref", ""), P("inspect_vm", "[REDACTED]", ""),
     P("inspect_vm", "null", ""), P("inspect_dns_record", "two words", ""),
     P("inspect_dns_record", "a", ""), P("restart_vm", "vm1", ""), P("restart_vm", "absent", ""),
     P("get_developer_app", "app1", ""), P("propose_workflow_plan", "absent", ""),
     P("unknown", "vm1", ""), P("malformed", "", "")}

Lists == {None, {"inspect_vm", "restart_vm"}, {"get_developer_app", "propose_workflow_plan"}}

IssuedScopes == {{}, {"read:vm", "email"}, {"write:cloud"}}

(* One server, both servers, a tool without a server, an argument that a     *)
(* scope cannot hold.                                                       *)
SomeApproved ==
    [entry : {"run"}, allowed : {None}, issued : IssuedScopes,
     payloads :
        {<<P("inspect_vm", "vm1", "")>>, <<P("inspect_dns_record", "two words", "")>>,
         <<P("inspect_dns_record", "a", ""), P("restart_vm", "vm1", "")>>,
         <<P("propose_workflow_plan", "absent", "")>>}]

AllAudiences == {network, cloud, own}

\* Only the network server has an audience of its own.
OneMapped == ("network-mcp" :> network) @@ ("cloud-mcp" :> None)

SomeConfigured == {{}, {Scope("read:vm", None), Scope("read:dns", None)}}
=============================================================================
