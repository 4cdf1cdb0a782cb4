---------------------- MODULE AgentServiceExecutionProofs ---------------------
(*****************************************************************************)
(* What AgentService executes, for every number of plans and approvals:    *)
(* the inductive invariant IInv and the safety properties it implies.  Then *)
(* AgentService with one request at a time, as from one browser tab whose   *)
(* buttons are disabled while a request is submitted: for every number of   *)
(* plans, approvals, threads and faults.  What a handler has read from the   *)
(* store is then still there when it writes.  The gateway is not serial: a   *)
(* request that its handler gave up on may be executed at any later time.    *)
(*****************************************************************************)
EXTENDS AgentServiceProofs, FiniteSetTheorems

------------------------------------------------------------------------------
(* One approval: its request on the wire, its progress and its calls.       *)
ExecOk(a) == WireOk(a) /\ ProgressOk(a) /\ CallsOk(a)

\* Dispatched plans keep their content.
ContentKept == \A x : Planned(x) => Planned(x)' /\ content'[x] = content[x]

\* What an approval's calls depend on is left alone.
Untouched(b) ==
    /\ wire'[b] = wire[b] /\ calls'[b] = calls[b] /\ asked'[b] = asked[b]
    /\ expires'[b] = expires[b] /\ next'[b] = next[b] /\ rec'[b] = rec[b]
    /\ pc'[b] = pc[b] \/ pc'[b] = "done"

(* Calls already made stay in order while their approval is not touched.    *)
LEMMA CallsKept ==
  ASSUME NEW b \in Approvals, CallsOk(b), ContentKept,
         calls'[b] = calls[b], asked'[b] = asked[b], expires'[b] = expires[b]
  PROVE  CallsOk(b)'
  BY DEF CallsOk, CallOk, ContentKept

(* An approval that a step does not touch, except to stop it, stays well.   *)
LEMMA ExecKept ==
  ASSUME Control, NEW b \in Approvals, ExecOk(b), ContentKept, Untouched(b)
  PROVE  ExecOk(b)'
  <1>0. HandlerOk(b)
    BY DEF Control, HandlerInv
  <1>1. CallsOk(b)'
    BY CallsKept DEF ExecOk, Untouched
  <1>2. WireOk(b)'
    BY DEF ExecOk, Untouched, WireOk, ContentKept, Late
  <1>3. ProgressOk(b)'
    <2>1. pc[b] = "dispatch" => Planned(rec[b].plan)
      BY <1>0 DEF HandlerOk, Holding, Executing
    <2>. QED
      BY <2>1 DEF ExecOk, Untouched, ProgressOk, AllOk, ContentKept
  <1>. QED
    BY <1>1, <1>2, <1>3 DEF ExecOk

(* Moves of an approval keep the content of the plans.                      *)
LEMMA MovesKeep ==
  ASSUME NEW a, NEW l, NEW r, Moves(a, l, r)
  PROVE  ContentKept
  BY DEF Moves, planVars, ContentKept, Planned

(* An approval that has sent nothing and goes on to send nothing.           *)
LEMMA ExecUnsent ==
  ASSUME NEW a \in Approvals, wire[a].st = "none", calls[a] = <<>>,
         wire'[a] = wire[a], calls'[a] = calls[a], pc'[a] \notin {"dispatch", "await"}
  PROVE  ExecOk(a)'
  <1>1. WireOk(a)' /\ ProgressOk(a)'
    BY DEF WireOk, ProgressOk
  <1>2. CallsOk(a)'
    BY DEF CallsOk
  <1>. QED
    BY <1>1, <1>2 DEF ExecOk

(* An approval that stops waiting for the gateway, or is past its calls.    *)
LEMMA ExecLate ==
  ASSUME NEW a \in Approvals, ExecOk(a), pc[a] \in {"dispatch", "await"} \cup Late,
         NEW l, NEW r, Moves(a, l, r),
         wire'[a] = wire[a] \/ wire'[a] = NoMessage, calls'[a] = calls[a],
         asked'[a] = asked[a], expires'[a] = expires[a],
         a \in Handlers, l \in Late,
         l = "save" => r.status \in {"completed", "failed"}
  PROVE  ExecOk(a)'
  <1>0. ContentKept
    BY MovesKeep
  <1>1. CallsOk(a)'
    BY <1>0, CallsKept DEF ExecOk
  <1>2. pc'[a] = l /\ rec'[a] = r
    BY DEF Moves
  <1>3. WireOk(a)'
    <2>1. CASE wire'[a] = wire[a]
      BY <1>0, <1>2, <2>1 DEF ExecOk, WireOk, ContentKept
    <2>2. CASE wire'[a] = NoMessage
      BY <2>2 DEF WireOk, NoMessage
    <2>. QED
      BY <2>1, <2>2
  <1>4. ProgressOk(a)'
    <2>1. pc'[a] \in Late /\ (pc'[a] = "save" => rec'[a].status \in {"completed", "failed"})
      BY <1>2
    <2>2. CASE wire'[a] = wire[a]
      BY <2>1, <2>2 DEF ExecOk, ProgressOk, AllOk, Late
    <2>3. CASE wire'[a] = NoMessage
      BY <2>1, <2>3 DEF ProgressOk, NoMessage, Late
    <2>. QED
      BY <2>2, <2>3
  <1>. QED
    BY <1>1, <1>3, <1>4 DEF ExecOk

(* An approval sends a step of its plan.                                    *)
LEMMA ExecSends ==
  ASSUME Control, NEW a \in Approvals, ExecOk(a), pc[a] = "dispatch",
         next[a] <= Len(content[rec[a].plan].steps),
         content[rec[a].plan].steps[next[a]].mcp,
         wire'[a] = EgressRequest(a, content[rec[a].plan].steps[next[a]]),
         calls'[a] = calls[a], asked'[a] = asked[a], expires'[a] = expires[a],
         next'[a] = next[a], Moves(a, "await", rec[a])
  PROVE  ExecOk(a)'
  <1> DEFINE p == rec[a].plan
             s == content[p].steps[next[a]]
             m == EgressRequest(a, s)
  <1>0. ContentKept /\ HandlerOk(a) /\ next[a] \in Nat /\ a \in Handlers
    BY MovesKeep DEF Control, HandlerInv, TypeOK, Handlers
  <1>1. CallsOk(a)'
    BY <1>0, CallsKept DEF ExecOk
  <1>2. /\ asked[a] \in ApprovalRequest /\ asked[a].approved /\ p = asked[a].hash
        /\ Planned(p) /\ next[a] > 0
    BY <1>0 DEF HandlerOk, Holding, Executing
  <1>3. /\ p \in Plans /\ content'[p] \in PlanInputs /\ content'[p] = content[p]
        /\ pc'[a] = "await"
    BY <1>0, <1>2 DEF ContentKept, Moves, Planned
  <1>4. /\ m.st = "sent" /\ m.plan = p /\ m.step = next[a] /\ m.need = s.scopes
        /\ m.expires = expires[a]
    BY DEF EgressRequest
  <1>5. content[p].steps \in Seq(Step)
    BY <1>2, PlanInputsAssumption DEF Planned, PlanInput
  <1>6. next[a] \in 1 .. Len(content[p].steps)
    BY <1>0, <1>2, <1>5
  <1>7. WireOk(a)'
    <2> HIDE DEF m, p
    <2>1. s.mcp /\ wire'[a] = m
      BY DEF m, p
    <2>. QED
      BY <1>2, <1>3, <1>4, <1>6, <2>1 DEF WireOk, Planned
  <1>8. ProgressOk(a)'
    <2>1. Len(calls[a]) = next[a] - 1 /\ AllOk(a)
      BY DEF ExecOk, ProgressOk
    <2>2. AllOk(a)'
      BY <2>1 DEF AllOk
    <2> HIDE DEF m
    <2>3. wire'[a] = m
      BY DEF m
    <2>. QED
      BY <1>3, <1>4, <2>1, <2>2, <2>3 DEF ProgressOk
  <1>. QED
    BY <1>1, <1>7, <1>8 DEF ExecOk

(* An approval receives a success and goes on to its next step.             *)
LEMMA ExecReceives ==
  ASSUME Control, NEW a \in Approvals, ExecOk(a), pc[a] = "await",
         wire[a].st = "completed", wire'[a] = NoMessage,
         calls'[a] = calls[a], asked'[a] = asked[a], expires'[a] = expires[a],
         next'[a] = next[a] + 1, Moves(a, "dispatch", rec[a])
  PROVE  ExecOk(a)'
  <1> DEFINE p == rec[a].plan
  <1>0. ContentKept /\ HandlerOk(a) /\ next[a] \in Nat /\ a \in Handlers
    BY MovesKeep DEF Control, HandlerInv, TypeOK, Handlers
  <1>1. CallsOk(a)'
    BY <1>0, CallsKept DEF ExecOk
  <1>2. WireOk(a)' /\ wire'[a].st = "none"
    BY DEF WireOk, NoMessage
  <1>3. p = asked[a].hash /\ Planned(p)
    BY <1>0 DEF HandlerOk, Holding, Executing
  <1>4. content'[p] = content[p] /\ pc'[a] = "dispatch" /\ rec'[a] = rec[a]
    BY <1>0, <1>3 DEF ContentKept, Moves
  <1>5. Len(calls[a]) = next[a] /\ AllOk(a) /\ next[a] \in 1 .. Len(content[p].steps)
    BY <1>3 DEF ExecOk, ProgressOk, WireOk
  <1>6. content[p].steps \in Seq(Step)
    BY <1>3, PlanInputsAssumption DEF Planned, PlanInput
  <1>7. AllOk(a)'
    BY <1>5 DEF AllOk
  <1>8. Len(calls'[a]) = next'[a] - 1 /\ next'[a] - 1 <= Len(content'[p].steps)
    BY <1>0, <1>4, <1>5, <1>6
  <1>9. ProgressOk(a)'
    BY <1>2, <1>4, <1>7, <1>8 DEF ProgressOk
  <1>. QED
    BY <1>1, <1>2, <1>9 DEF ExecOk

(* An approval has obtained its token and starts its first step.            *)
LEMMA ExecStarts ==
  ASSUME Control, NEW a \in Approvals, ExecOk(a), pc[a] = "exchange",
         wire'[a] = wire[a], calls'[a] = calls[a],
         next'[a] = 1, Moves(a, "dispatch", rec[a])
  PROVE  ExecOk(a)'
  <1> DEFINE p == rec[a].plan
  <1>0. ContentKept /\ HandlerOk(a) /\ a \in Handlers
    BY MovesKeep DEF Control, HandlerInv, Handlers
  <1>1. wire[a].st = "none" /\ calls[a] = <<>>
    BY DEF ExecOk, ProgressOk
  <1>2. CallsOk(a)' /\ WireOk(a)' /\ AllOk(a)'
    BY <1>1 DEF CallsOk, WireOk, AllOk
  <1>3. Planned(p) /\ content'[p] = content[p] /\ pc'[a] = "dispatch" /\ rec'[a] = rec[a]
    BY <1>0 DEF HandlerOk, Holding, Executing, ContentKept, Moves
  <1>4. content[p].steps \in Seq(Step)
    BY <1>3, PlanInputsAssumption DEF Planned, PlanInput
  <1>5. Len(calls'[a]) = next'[a] - 1 /\ next'[a] - 1 <= Len(content'[p].steps)
    BY <1>1, <1>3, <1>4
  <1>6. ProgressOk(a)'
    BY <1>1, <1>2, <1>3, <1>5 DEF ProgressOk
  <1>. QED
    BY <1>2, <1>6 DEF ExecOk

(* The steps of an approval request keep its own calls in order.            *)
LEMMA ExecApprove ==
  ASSUME Claims, NEW a \in Approvals, ExecOk(a), StartApprove(a) \/ ApproveStep(a)
  PROVE  ExecOk(a)'
  <1>0. /\ Control /\ ClaimOk(a) /\ HandlerOk(a) /\ rec[a] \in WorkflowRecord
        /\ a \in Handlers
    BY ClaimTypes DEF Claims, ClaimInv, Control, HandlerInv
  <1>1. CASE StartApprove(a)
    <2>1. /\ pc[a] = "idle" /\ pc'[a] = "require"
          /\ wire'[a] = wire[a] /\ calls'[a] = calls[a]
      BY <1>0, <1>1, StartEffect DEF Moves, egressVars
    <2>. QED
      BY <2>1, ExecUnsent DEF ExecOk, ProgressOk
  <1>2. CASE RequireWorkflow(a)
    <2>1. /\ pc[a] = "require" /\ pc'[a] \notin {"dispatch", "await"}
          /\ wire'[a] = wire[a] /\ calls'[a] = calls[a]
      BY <1>0, <1>2, RequireEffect DEF Moves, Required, egressVars
    <2>. QED
      BY <2>1, ExecUnsent DEF ExecOk, ProgressOk
  <1>3. CASE GetAuthContext(a)
    <2>1. /\ pc[a] = "authctx" /\ pc'[a] \notin {"dispatch", "await"}
          /\ wire'[a] = wire[a] /\ calls'[a] = calls[a]
      BY <1>0, <1>3, AuthEffect DEF Moves, egressVars
    <2>. QED
      BY <2>1, ExecUnsent DEF ExecOk, ProgressOk
  <1>4. CASE SaveWorkflow(a)
    <2> DEFINE l == IF rec[a].status = "executing" THEN "exchange" ELSE "threadGet"
    <2>1. /\ pc[a] = "save" /\ Moves(a, l, rec[a])
          /\ wire'[a] = wire[a] /\ calls'[a] = calls[a]
          /\ asked'[a] = asked[a] /\ expires'[a] = expires[a]
      BY <1>0, <1>4, SaveEffect DEF egressVars
    <2>2. CASE rec[a].status = "executing"
      <3>1. pc'[a] = "exchange"
        BY <1>0, <2>1, <2>2 DEF Moves
      <3>. QED
        BY <2>1, <2>2, <3>1, ExecUnsent DEF ExecOk, ProgressOk
    <2>3. CASE rec[a].status # "executing"
      <3>1. Moves(a, "threadGet", rec[a])
        BY <2>1, <2>3
      <3>. QED
        BY <1>0, <2>1, <3>1, ExecLate DEF Late
    <2>. QED
      BY <2>2, <2>3
  <1>5. CASE ExchangeToken(a)
    <2>1. /\ pc[a] = "exchange" /\ wire'[a] = wire[a] /\ calls'[a] = calls[a]
          /\ \/ Moves(a, "dispatch", rec[a]) /\ next'[a] = 1
             \/ pc'[a] = "save"
      BY <1>0, <1>5, ExchangeEffect DEF egressVars, Moves
    <2>. QED
      BY <1>0, <2>1, ExecStarts, ExecUnsent DEF ExecOk, ProgressOk
  <1>6. CASE DispatchStep(a)
    <2> DEFINE st == content[rec[a].plan].steps
    <2>1. /\ pc[a] = "dispatch" /\ calls'[a] = calls[a] /\ asked'[a] = asked[a]
          /\ expires'[a] = expires[a] /\ next'[a] = next[a]
          /\ \/ /\ wire'[a] = wire[a]
                /\ \E x \in {"completed", "failed"} :
                     Moves(a, "save", [rec[a] EXCEPT !.status = x])
             \/ /\ next[a] <= Len(st) /\ st[next[a]].mcp
                /\ wire'[a] = EgressRequest(a, st[next[a]])
                /\ Moves(a, "await", rec[a])
      BY <1>0, <1>6, DispatchEffect DEF Failed
    <2>2. ASSUME NEW x \in {"completed", "failed"}, wire'[a] = wire[a],
                 Moves(a, "save", [rec[a] EXCEPT !.status = x])
          PROVE  ExecOk(a)'
      <3> DEFINE r == [rec[a] EXCEPT !.status = x]
      <3>1. r.status \in {"completed", "failed"}
        BY <1>0 DEF WorkflowRecord
      <3> HIDE DEF r
      <3>2. Moves(a, "save", r)
        BY <2>2 DEF r
      <3>. QED
        BY <1>0, <2>1, <2>2, <3>1, <3>2, ExecLate DEF Late
    <2>. QED
      BY <1>0, <2>1, <2>2, ExecSends
  <1>7. CASE ReceiveReply(a) \/ EgressTimeout(a)
    <2>1. /\ pc[a] = "await" /\ calls'[a] = calls[a] /\ asked'[a] = asked[a]
          /\ expires'[a] = expires[a]
          /\ \/ /\ wire[a].st = "completed" /\ wire'[a] = NoMessage
                /\ Moves(a, "dispatch", rec[a]) /\ next'[a] = next[a] + 1
             \/ /\ wire'[a] = wire[a] \/ wire'[a] = NoMessage
                /\ Moves(a, "save", Failed(a))
      BY <1>0, <1>7, ReceiveEffect, TimeoutEffect DEF egressVars
    <2>2. Failed(a).status = "failed"
      BY <1>0 DEF Failed, WorkflowRecord
    <2>. QED
      BY <1>0, <2>1, <2>2, ExecReceives, ExecLate DEF Late
  <1>8. CASE GetThread(a) \/ SaveThread(a)
    <2>1. /\ pc[a] \in {"threadGet", "threadPut"}
          /\ wire'[a] = wire[a] /\ calls'[a] = calls[a]
          /\ asked'[a] = asked[a] /\ expires'[a] = expires[a]
          /\ \E l \in {"done", "threadPut"} : Moves(a, l, rec[a])
      BY <1>0, <1>8, ThreadEffect DEF egressVars
    <2>. QED
      BY <1>0, <2>1, ExecLate DEF Late
  <1>. QED
    BY <1>1, <1>2, <1>3, <1>4, <1>5, <1>6, <1>7, <1>8 DEF ApproveStep

(* The message m that the gateway leaves on the wire differs in its state   *)
(* and the time it was let pass.                                            *)
Answered(a, st) ==
    /\ \A b \in Approvals \ {a} : wire'[b] = wire[b] /\ calls'[b] = calls[b]
    /\ wire'[a].st = st
    /\ wire'[a].plan = wire[a].plan /\ wire'[a].step = wire[a].step
    /\ wire'[a].need = wire[a].need /\ wire'[a].have = wire[a].have
    /\ wire'[a].expires = wire[a].expires

\* The call that wire[a] stands for.
CallOn(a, ok) ==
    [plan |-> wire[a].plan, step |-> wire[a].step, have |-> wire[a].have,
     authorized |-> wire[a].authorized, ok |-> ok]

(* The steps of the gateway, field by field.                                *)
LEMMA AnswerEffect ==
  ASSUME Control, NEW a \in Approvals, EgressStep(a)
  PROVE  \/ wire[a].st \in {"sent", "calling"} /\ Answered(a, "http_error") /\ UNCHANGED calls
         \/ /\ wire[a].st = "sent" /\ Answered(a, "calling") /\ UNCHANGED calls
            /\ wire[a].need \subseteq wire[a].have
            /\ wire'[a].authorized = now /\ now < wire[a].expires
         \/ /\ wire[a].st = "calling"
            /\ \E ok \in BOOLEAN :
                 /\ calls'[a] = Append(calls[a], CallOn(a, ok))
                 /\ \/ Answered(a, "http_error")
                    \/ Answered(a, "completed") /\ ok
                    \/ Answered(a, "failed")
  <1>0. /\ wire \in [Approvals -> Message] /\ calls \in [Approvals -> Seq(Call)]
        /\ now \in Nat
    BY DEF Control, TypeOK, EgressTypeOK
  <1>1. \A st : wire' = [wire EXCEPT ![a].st = st] =>
           /\ \A b \in Approvals \ {a} : wire'[b] = wire[b]
           /\ wire'[a] = [wire[a] EXCEPT !.st = st]
    BY <1>0
  <1>2. ASSUME NEW st, wire' = [wire EXCEPT ![a].st = st],
               \A b \in Approvals \ {a} : calls'[b] = calls[b]
        PROVE  Answered(a, st)
    BY <1>0, <1>1, <1>2 DEF Answered, Message
  <1>3. \A c : calls' = [calls EXCEPT ![a] = c] =>
           calls'[a] = c /\ \A b \in Approvals \ {a} : calls'[b] = calls[b]
    BY <1>0
  <1>4. CASE EgressRefuse(a)
    BY <1>2, <1>4 DEF EgressRefuse
  <1>5. CASE EgressAuthorize(a)
    <2>1. /\ \A b \in Approvals \ {a} : wire'[b] = wire[b]
          /\ wire'[a] = [[wire[a] EXCEPT !.st = "calling"] EXCEPT !.authorized = now]
      BY <1>0, <1>5 DEF EgressAuthorize
    <2>2. Answered(a, "calling") /\ wire'[a].authorized = now
      BY <1>0, <1>5, <2>1 DEF Answered, Message, EgressAuthorize
    <2>3. wire[a].expires \in Nat
      BY <1>0 DEF Message
    <2>. QED
      BY <1>0, <1>5, <2>2, <2>3 DEF EgressAuthorize, Authorized, GrantMatchesRequest
  <1>6. CASE McpCall(a)
    <2>1. PICK ok \in BOOLEAN :
             /\ calls' = [calls EXCEPT ![a] = Append(calls[a], CallOn(a, ok))]
             /\ wire' = [wire EXCEPT ![a].st = IF ok THEN "completed" ELSE "failed"]
      BY <1>6 DEF McpCall, Executed, CallOn
    <2>2. Answered(a, IF ok THEN "completed" ELSE "failed")
      BY <1>2, <1>3, <2>1
    <2>. QED
      BY <1>3, <1>6, <2>1, <2>2 DEF McpCall
  <1>7. CASE McpTransportFails(a)
    <2>1. CASE UNCHANGED calls
      BY <1>2, <1>7, <2>1 DEF McpTransportFails
    <2>2. CASE \E ok \in BOOLEAN :
                 calls' = [calls EXCEPT ![a] = Append(calls[a], CallOn(a, ok))]
      BY <1>2, <1>3, <1>7, <2>2 DEF McpTransportFails
    <2>. QED
      BY <1>7, <2>1, <2>2 DEF McpTransportFails, Executed, CallOn
  <1>. QED
    BY <1>4, <1>5, <1>6, <1>7 DEF EgressStep

(* A call is made only where the previous ones ended well, and is in order. *)
LEMMA ExecCalls ==
  ASSUME Control, NEW a \in Approvals, ExecOk(a), wire[a].st = "calling",
         UNCHANGED <<planVars, asked, expires>>,
         NEW ok \in BOOLEAN, calls'[a] = Append(calls[a], CallOn(a, ok))
  PROVE  /\ CallsOk(a)'
         /\ Len(calls'[a]) = wire[a].step
         /\ ok => AllOk(a)'
  <1> DEFINE c == CallOn(a, ok)
  <1>0. /\ calls[a] \in Seq(Call) /\ wire[a] \in Message
        /\ expires[a] \in Nat
    BY DEF Control, TypeOK, EgressTypeOK
  <1>n. PICK n \in Nat : n = Len(calls[a])
    BY <1>0
  <1>1. n = wire[a].step - 1 /\ AllOk(a)
    BY <1>n DEF ExecOk, ProgressOk
  <1>2. c \in Call
    BY <1>0 DEF CallOn, Call, Message
  <1>3. /\ n \in Nat /\ Len(calls'[a]) = n + 1 /\ DOMAIN calls'[a] = 1 .. (n + 1)
        /\ calls'[a][n + 1] = c
        /\ \A i \in 1 .. n : i \in DOMAIN calls[a] /\ calls'[a][i] = calls[a][i]
    BY <1>0, <1>2, <1>n
  <1>4. n + 1 = wire[a].step
    BY <1>0, <1>1, <1>3 DEF Message
  <1>5. /\ c.plan = wire[a].plan /\ c.step = n + 1 /\ c.have = wire[a].have
        /\ c.authorized = wire[a].authorized /\ c.ok = ok
    BY <1>4 DEF CallOn
  <1>6. CallOk(a, n + 1)'
    <2>1. /\ asked'[a] \in ApprovalRequest /\ asked'[a].approved
          /\ wire[a].plan = asked'[a].hash
          /\ wire[a].plan \in Plans /\ content'[wire[a].plan] \in PlanInputs
      BY DEF ExecOk, WireOk, Planned, planVars
    <2>2. /\ content'[wire[a].plan].steps[n + 1].mcp
          /\ content'[wire[a].plan].steps[n + 1].scopes \subseteq wire[a].have
          /\ wire[a].authorized < expires'[a]
      BY <1>4 DEF ExecOk, WireOk, planVars
    <2> HIDE DEF c
    <2>. QED
      BY <1>3, <1>5, <2>1, <2>2 DEF CallOk, Planned
  <1>7. ASSUME NEW i \in 1 .. n PROVE CallOk(a, i)'
    <2>1. CallOk(a, i) /\ calls'[a][i] = calls[a][i] /\ calls[a][i].ok
      BY <1>1, <1>3 DEF ExecOk, CallsOk, AllOk
    <2>. QED
      BY <1>3, <1>n, <2>1 DEF CallOk, Planned, planVars
  <1>8. CallsOk(a)'
    <2> SUFFICES ASSUME NEW i \in 1 .. (n + 1) PROVE CallOk(a, i)'
      BY <1>3 DEF CallsOk
    <2>1. i \in 1 .. n \/ i = n + 1
      BY <1>3
    <2>. QED
      BY <1>6, <1>7, <2>1
  <1>9. ok => AllOk(a)'
    <2> HIDE DEF c
    <2>1. \A i \in 1 .. (n + 1) : i \in 1 .. n \/ i = n + 1
      BY <1>3
    <2>. QED
      BY <1>1, <1>3, <1>5, <2>1 DEF AllOk
  <1>. QED
    BY <1>3, <1>4, <1>8, <1>9

(* The steps of the gateway keep the calls of the approval in order.        *)
LEMMA ExecEgress ==
  ASSUME Control, NEW a \in Approvals, ExecOk(a), EgressNext(a)
  PROVE  ExecOk(a)'
  <1>0. /\ UNCHANGED <<planVars, asked, expires, next, rec, pc, now>>
        /\ ContentKept /\ EgressStep(a)
    BY EgressEffect DEF apprVars, ContentKept, Planned, planVars, EgressNext
  <1>1. ASSUME NEW st, Answered(a, st), wire[a].st # "none",
               st = "calling" => wire[a].need \subseteq wire[a].have
                                 /\ wire'[a].authorized < expires[a]
        PROVE  WireOk(a)'
    BY <1>0, <1>1 DEF ExecOk, WireOk, Answered, ContentKept
  <1>2. wire[a].st # "none" =>
           /\ pc[a] \in Late \cup {"await"} /\ wire[a].expires = expires[a]
           /\ pc[a] = "await" => wire[a].step = next[a]
           /\ pc[a] = "save" => rec[a].status \notin {"cancelled", "executing"}
    BY DEF ExecOk, WireOk, ProgressOk
  <1>3. CASE wire[a].st \in {"sent", "calling"} /\ Answered(a, "http_error") /\ UNCHANGED calls
    <2>1. CallsOk(a)'
      BY <1>0, <1>3, CallsKept DEF ExecOk
    <2>2. WireOk(a)'
      BY <1>1, <1>3
    <2>3. ProgressOk(a)'
      BY <1>0, <1>2, <1>3 DEF ProgressOk, Answered, Late
    <2>. QED
      BY <2>1, <2>2, <2>3 DEF ExecOk
  <1>4. CASE /\ wire[a].st = "sent" /\ Answered(a, "calling") /\ UNCHANGED calls
             /\ wire[a].need \subseteq wire[a].have
             /\ wire'[a].authorized = now /\ now < wire[a].expires
    <2>1. CallsOk(a)'
      BY <1>0, <1>4, CallsKept DEF ExecOk
    <2>2. WireOk(a)'
      BY <1>1, <1>2, <1>4
    <2>3. ProgressOk(a)'
      BY <1>0, <1>2, <1>4 DEF ExecOk, ProgressOk, Answered, Late, AllOk
    <2>. QED
      BY <2>1, <2>2, <2>3 DEF ExecOk
  <1>5. CASE /\ wire[a].st = "calling"
             /\ \E ok \in BOOLEAN :
                  /\ calls'[a] = Append(calls[a], CallOn(a, ok))
                  /\ \/ Answered(a, "http_error")
                     \/ Answered(a, "completed") /\ ok
                     \/ Answered(a, "failed")
    <2>1. PICK ok \in BOOLEAN :
             /\ calls'[a] = Append(calls[a], CallOn(a, ok))
             /\ \/ Answered(a, "http_error")
                \/ Answered(a, "completed") /\ ok
                \/ Answered(a, "failed")
      BY <1>5
    <2>2. CallsOk(a)' /\ Len(calls'[a]) = wire[a].step /\ (ok => AllOk(a)')
      BY <1>0, <1>5, <2>1, ExecCalls
    <2>3. WireOk(a)'
      BY <1>1, <1>5, <2>1
    <2>4. ProgressOk(a)'
      BY <1>0, <1>2, <1>5, <2>1, <2>2 DEF ProgressOk, Answered, Late
    <2>. QED
      BY <2>2, <2>3, <2>4 DEF ExecOk
  <1>. QED
    BY <1>0, <1>3, <1>4, <1>5, AnswerEffect

(* Every step of an approval request is a move of it that leaves the        *)
(* requests and the calls of the others alone.                              *)
LEMMA ApproveMoves ==
  ASSUME Control, NEW a \in Approvals, StartApprove(a) \/ ApproveStep(a)
  PROVE  /\ \E l, r : Moves(a, l, r)
         /\ UNCHANGED calls
         /\ \A b \in Approvals \ {a} : wire'[b] = wire[b]
  <1>1. CASE StartApprove(a) \/ RequireWorkflow(a) \/ GetAuthContext(a) \/ SaveWorkflow(a)
    BY <1>1, StartEffect, RequireEffect, AuthEffect, SaveEffect DEF egressVars
  <1>2. CASE ExchangeToken(a) \/ EgressTimeout(a) \/ GetThread(a) \/ SaveThread(a)
    BY <1>2, ExchangeEffect, TimeoutEffect, ThreadEffect DEF egressVars
  <1>3. CASE DispatchStep(a)
    BY <1>3, DispatchEffect
  <1>4. CASE ReceiveReply(a)
    BY <1>4, ReceiveEffect
  <1>. QED
    BY <1>1, <1>2, <1>3, <1>4 DEF ApproveStep

(* Every step keeps the calls of every approval in order.                   *)
LEMMA ExecStep ==
  ASSUME Claims, [Next]_vars, \A b \in Approvals : ExecOk(b)
  PROVE  \A b \in Approvals : ExecOk(b)'
  <1> SUFFICES ASSUME NEW b \in Approvals PROVE ExecOk(b)'
    OBVIOUS
  <1>0. Control /\ b \in Handlers /\ b \notin Plans
    BY PlanInputsAssumption DEF Claims, Handlers
  <1>1. ASSUME NEW p \in Plans, StartPlan(p) \/ PlanStep(p) \/ CancelRun(p)
        PROVE  ExecOk(b)'
    <2>1. ContentKept /\ Untouched(b)
      BY <1>0, <1>1, PlanEffect DEF ContentKept, Untouched, egressVars, apprVars
    <2>. QED
      BY <1>0, <2>1, ExecKept
  <1>2. ASSUME NEW a \in Approvals, StartApprove(a) \/ ApproveStep(a)
        PROVE  ExecOk(b)'
    <2>1. CASE a = b
      BY <1>2, <2>1, ExecApprove
    <2>2. CASE a # b
      <3>1. /\ \E l, r : Moves(a, l, r)
            /\ wire'[b] = wire[b] /\ calls'[b] = calls[b]
        BY <1>0, <1>2, <2>2, ApproveMoves
      <3>2. PICK l, r : Moves(a, l, r)
        BY <3>1
      <3>3. ContentKept
        BY <3>2, MovesKeep
      <3>4. /\ pc'[b] = pc[b] /\ rec'[b] = rec[b] /\ asked'[b] = asked[b]
            /\ expires'[b] = expires[b] /\ next'[b] = next[b]
        BY <1>0, <2>2, <3>2 DEF Moves
      <3>. QED
        BY <1>0, <3>1, <3>3, <3>4, ExecKept DEF Untouched
    <2>. QED
      BY <2>1, <2>2
  <1>3. ASSUME NEW a \in Approvals, EgressNext(a) PROVE ExecOk(b)'
    <2>1. CASE a = b
      BY <1>0, <1>3, <2>1, ExecEgress
    <2>2. CASE a # b
      <3>1. wire'[b] = wire[b] /\ calls'[b] = calls[b]
        BY <1>0, <1>3, <2>2, AnswerEffect DEF Answered, EgressNext
      <3>2. ContentKept /\ Untouched(b)
        BY <1>0, <1>3, <3>1, EgressEffect
        DEF ContentKept, Untouched, apprVars, planVars, Planned
      <3>. QED
        BY <1>0, <3>2, ExecKept
    <2>. QED
      BY <2>1, <2>2
  <1>4. ASSUME NEW h \in Handlers, StoreFails(h) PROVE ExecOk(b)'
    <2>1. ContentKept /\ Untouched(b)
      BY <1>0, <1>4, StoreFailsEffect
      DEF ContentKept, Untouched, apprVars, planVars, egressVars, Planned
    <2>. QED
      BY <1>0, <2>1, ExecKept
  <1>5. CASE Environment
    <2>1. ContentKept /\ Untouched(b)
      BY <1>0, <1>5, EnvironmentEffect
      DEF ContentKept, Untouched, apprVars, planVars, egressVars, Planned
    <2>. QED
      BY <1>0, <2>1, ExecKept
  <1>. QED
    BY <1>1, <1>2, <1>3, <1>4, <1>5, StepKinds

------------------------------------------------------------------------------
(* Completed records.                                                       *)
Execution == Claims /\ \A a \in Approvals : ExecOk(a)

\* Every record the store, its threads and the handlers hold.
Sources ==
    {workflows[w] : w \in Workflows} \cup {threads[t].workflow : t \in Threads}
      \cup {rec[a] : a \in Approvals} \cup {thr[h].workflow : h \in Handlers}

(* An approval that has ended stays ended, and makes no further call.       *)
LEMMA EndedKept ==
  ASSUME Execution, [Next]_vars, NEW b \in Approvals, Ended(b)
  PROVE  Ended(b)' /\ calls'[b] = calls[b]
  <1>0. /\ Claims /\ Control /\ b \in Handlers /\ b \notin Plans /\ ClaimOk(b)
        /\ Approvals \subseteq Handlers
        /\ b \in claimed /\ pc[b] \in Late /\ wire[b].st = "none" /\ AllOk(b)
    BY PlanInputsAssumption DEF Execution, Claims, ClaimInv, Handlers, Ended
  <1>1. (b \in claimed' /\ pc'[b] \in Late /\ wire'[b].st = "none" /\ calls'[b] = calls[b])
           => Ended(b)' /\ calls'[b] = calls[b]
    BY <1>0 DEF Ended, AllOk
  <1>2. ASSUME NEW p \in Plans, StartPlan(p) \/ PlanStep(p) \/ CancelRun(p)
        PROVE  Ended(b)' /\ calls'[b] = calls[b]
    BY <1>0, <1>1, <1>2, PlanEffect DEF egressVars
  <1>3. ASSUME NEW a \in Approvals, StartApprove(a) \/ ApproveStep(a)
        PROVE  Ended(b)' /\ calls'[b] = calls[b]
    <2>1. claimed \subseteq claimed'
      <3>1. CASE SaveWorkflow(a)
        BY <1>0, <3>1, SaveEffect
      <3>2. CASE StartApprove(a) \/ RequireWorkflow(a) \/ GetAuthContext(a)
        BY <1>0, <3>2, StartEffect, RequireEffect, AuthEffect
      <3>3. CASE ExchangeToken(a) \/ DispatchStep(a) \/ ReceiveReply(a) \/ EgressTimeout(a)
        BY <1>0, <3>3, ExchangeEffect, DispatchEffect, ReceiveEffect, TimeoutEffect
      <3>4. CASE GetThread(a) \/ SaveThread(a)
        BY <1>0, <3>4, ThreadEffect
      <3>. QED
        BY <1>3, <3>1, <3>2, <3>3, <3>4 DEF ApproveStep
    <2>2. CASE a # b
      <3>1. PICK l, r : Moves(a, l, r)
        BY <1>0, <1>3, ApproveMoves
      <3>2. pc'[b] = pc[b]
        BY <1>0, <2>2, <3>1 DEF Moves
      <3>3. wire'[b] = wire[b] /\ calls'[b] = calls[b]
        BY <1>0, <1>3, <2>2, ApproveMoves
      <3>. QED
        BY <1>0, <1>1, <2>1, <3>2, <3>3
    <2>3. CASE a = b
      <3>1. SaveWorkflow(b) \/ GetThread(b) \/ SaveThread(b)
        BY <1>0, <1>3, <2>3
        DEF StartApprove, ApproveStep, Late, RequireWorkflow, GetAuthContext,
            ExchangeToken, DispatchStep, ReceiveReply, EgressTimeout
      <3>2. pc'[b] \in Late /\ UNCHANGED egressVars
        BY <1>0, <3>1, SaveEffect, ThreadEffect DEF Moves, ClaimOk, Late
      <3>. QED
        BY <1>0, <1>1, <2>1, <3>2 DEF egressVars
    <2>. QED
      BY <2>2, <2>3
  <1>4. ASSUME NEW a \in Approvals, EgressNext(a)
        PROVE  Ended(b)' /\ calls'[b] = calls[b]
    <2>1. wire'[b] = wire[b] /\ calls'[b] = calls[b]
      BY <1>0, <1>4, AnswerEffect DEF Answered, EgressNext
    <2>. QED
      BY <1>0, <1>1, <1>4, <2>1, EgressEffect
  <1>5. ASSUME NEW h \in Handlers, StoreFails(h)
        PROVE  Ended(b)' /\ calls'[b] = calls[b]
    BY <1>0, <1>1, <1>5, StoreFailsEffect DEF RecordStored, Late, egressVars
  <1>6. CASE Environment
    BY <1>0, <1>1, <1>6, EnvironmentEffect DEF Late, egressVars
  <1>. QED
    BY <1>2, <1>3, <1>4, <1>5, <1>6, StepKinds

(* Dispatched plans keep their content in every step.                       *)
LEMMA ContentStep ==
  ASSUME Control, [Next]_vars
  PROVE  ContentKept
  <1>1. ASSUME NEW p \in Plans, StartPlan(p) \/ PlanStep(p) \/ CancelRun(p)
        PROVE  ContentKept
    BY <1>1, PlanEffect DEF ContentKept
  <1>2. ASSUME NEW a \in Approvals, StartApprove(a) \/ ApproveStep(a)
        PROVE  ContentKept
    BY <1>2, ApproveMoves, MovesKeep
  <1>3. ASSUME UNCHANGED planVars PROVE ContentKept
    BY <1>3 DEF ContentKept, Planned, planVars
  <1>. QED
    BY <1>1, <1>2, <1>3, StepKinds, EgressEffect, StoreFailsEffect, EnvironmentEffect

(* The records a step leaves behind are those it found, records that are    *)
(* not completed, or the completed record of the approval at its loop's end.*)
Inherited(r) == r \in Sources \/ r.status # "completed"

Finishes(a) ==
    /\ DispatchStep(a)
    /\ next[a] > Len(content[rec[a].plan].steps)
    /\ rec' = [rec EXCEPT ![a].status = "completed"]
    /\ UNCHANGED <<wire, storeVars>>

(* A move of a handler copies a thread or lets it go.                       *)
LEMMA ThreadMoves ==
  ASSUME TypeOK, NEW h \in Handlers, NEW g \in Handlers
  PROVE  /\ \A l : Goto(h, l) => thr'[g] = thr[g]
         /\ \A c : Reply(h, c) => thr'[g] \in {thr[g], NoThread}
         /\ \A t : HoldThread(h, t) => thr'[g] \in {thr[g], threads[t]}
  BY DEF TypeOK, Goto, Reply, HoldThread

(* Writing a record or a thread spreads only records that are held.         *)
LEMMA WriteSources ==
  ASSUME Control, NEW h \in Handlers, WriteSession(h) \/ WriteWorkflow(h) \/ WriteThread(h)
  PROVE  /\ \A w \in Workflows : Inherited(workflows'[w])
         /\ \A t \in Threads : Inherited(threads'[t].workflow)
  <1>0. TypeOK
    BY DEF Control
  <1>1. ASSUME NEW p \in Plans
        PROVE  Inherited(PlannedRecord(p)) /\ PlannedThread(p).workflow = PlannedRecord(p)
    BY DEF Inherited, PlannedRecord, PlannedThread
  <1>2. ASSUME NEW a \in Approvals
        PROVE  Inherited(rec[a]) /\ RepointedThread(a).workflow = rec[a]
    <2>1. thr[a] \in ThreadRecord
      BY <1>0 DEF TypeOK, Handlers
    <2>. QED
      BY <2>1 DEF Inherited, Sources, RepointedThread, ThreadRecord
  <1>3. Inherited(RecordOf(h)) /\ Inherited(ThreadOf(h).workflow)
    BY <1>1, <1>2 DEF RecordOf, ThreadOf, Handlers
  <1>4. \A w \in Workflows : Inherited(workflows[w])
    BY DEF Inherited, Sources
  <1>5. \A t \in Threads : Inherited(threads[t].workflow)
    BY DEF Inherited, Sources
  <1>6. CASE WriteSession(h)
    BY <1>4, <1>5, <1>6 DEF WriteSession
  <1>7. CASE WriteWorkflow(h)
    <2>1. \A w \in Workflows : workflows'[w] \in {workflows[w], RecordOf(h)}
      BY <1>0, <1>7 DEF WriteWorkflow, TypeOK
    <2>. QED
      BY <1>3, <1>4, <1>5, <1>7, <2>1 DEF WriteWorkflow
  <1>8. CASE WriteThread(h)
    <2>1. \A t \in Threads : threads'[t] \in {threads[t], ThreadOf(h)}
      BY <1>0, <1>8 DEF WriteThread, TypeOK
    <2>. QED
      BY <1>3, <1>4, <1>5, <1>8, <2>1 DEF WriteThread
  <1>. QED
    BY <1>6, <1>7, <1>8

StoreCarried ==
    /\ \A w \in Workflows : Inherited(workflows'[w])
    /\ \A t \in Threads : Inherited(threads'[t].workflow)

ThreadsCarried == \A g \in Handlers : Inherited(thr'[g].workflow)

RecordsCarried ==
    \A b \in Approvals :
        \/ Inherited(rec'[b])
        \/ Finishes(b) /\ rec'[b] = [rec[b] EXCEPT !.status = "completed"]

(* What is not written is carried on.                                       *)
LEMMA Unwritten ==
  /\ UNCHANGED <<workflows, threads>> => StoreCarried
  /\ UNCHANGED rec => RecordsCarried
  /\ (\A g \in Handlers :
        \/ thr'[g] = thr[g] \/ thr'[g] = NoThread
        \/ \E t \in Threads : thr'[g] = threads[t]) => ThreadsCarried
  BY DEF StoreCarried, ThreadsCarried, RecordsCarried, Inherited, Sources, NoThread,
         NoWorkflow

(* The steps of a planning request carry every record on.                   *)
LEMMA PlanCarries ==
  ASSUME Control, NEW p \in Plans, StartPlan(p) \/ PlanStep(p) \/ CancelRun(p)
  PROVE  StoreCarried /\ ThreadsCarried /\ RecordsCarried
  <1>0. TypeOK /\ p \in Handlers
    BY DEF Control, Handlers
  <1>1. RecordsCarried
    BY PlanEffect, Unwritten DEF apprVars
  <1>2. StoreCarried
    <2>1. CASE PlanUpsertSession(p) \/ PlanSaveWorkflow(p) \/ PlanSaveThread(p)
      BY <1>0, <2>1, WriteSources
      DEF StoreCarried, PlanUpsertSession, PlanSaveWorkflow, PlanSaveThread
    <2>2. CASE StartPlan(p) \/ PlanGetThread(p) \/ CancelRun(p)
      BY <2>2, Unwritten DEF StartPlan, PlanGetThread, CancelRun, storeVars
    <2>. QED
      BY <2>1, <2>2 DEF PlanStep
  <1>3. ThreadsCarried
    <2>1. CASE PlanGetThread(p)
      <3>1. HoldThread(p, content[p].thread) /\ content[p].thread \in Threads
        BY <2>1, PlanInputsAssumption
        DEF PlanGetThread, Control, PlanInv, Planned, PlanInput
      <3>. QED
        BY <1>0, <3>1, ThreadMoves, Unwritten
    <2>2. CASE ~PlanGetThread(p)
      <3>1. (\E l : Goto(p, l)) \/ (\E c : Reply(p, c))
        BY <2>2
        DEF StartPlan, PlanStep, CancelRun, PlanUpsertSession, PlanSaveWorkflow,
            PlanSaveThread
      <3>. QED
        BY <1>0, <3>1, ThreadMoves, Unwritten
    <2>. QED
      BY <2>1, <2>2
  <1>. QED
    BY <1>1, <1>2, <1>3

(* The steps of an approval request carry every record on.                  *)
LEMMA ApproveCarries ==
  ASSUME Control, NEW a \in Approvals, StartApprove(a) \/ ApproveStep(a)
  PROVE  StoreCarried /\ ThreadsCarried /\ RecordsCarried
  <1>0. TypeOK /\ a \in Handlers
    BY DEF Control, Handlers
  <1>1. StoreCarried
    <2>1. CASE SaveWorkflow(a) \/ SaveThread(a)
      BY <1>0, <2>1, WriteSources DEF StoreCarried, SaveWorkflow, SaveThread
    <2>2. CASE \/ StartApprove(a) \/ RequireWorkflow(a) \/ GetAuthContext(a)
               \/ ExchangeToken(a) \/ DispatchStep(a) \/ ReceiveReply(a)
               \/ EgressTimeout(a) \/ GetThread(a)
      BY <2>2, Unwritten
      DEF StartApprove, RequireWorkflow, GetAuthContext, ExchangeToken, DispatchStep,
          ReceiveReply, EgressTimeout, GetThread, storeVars
    <2>. QED
      BY <2>1, <2>2 DEF ApproveStep
  <1>2. ThreadsCarried
    <2>1. CASE GetThread(a)
      <3>2. content[rec[a].plan].thread \in Threads \cup {None}
        BY <2>1, PlanInputsAssumption
        DEF GetThread, Control, HandlerInv, HandlerOk, Holding, Planned, PlanInput
      <3>3. (\E t \in Threads : HoldThread(a, t)) \/ (\E c : Reply(a, c))
        BY <2>1, <3>2 DEF GetThread, ThreadStored
      <3>. QED
        BY <1>0, <3>3, ThreadMoves, Unwritten
    <2>2. CASE ~GetThread(a)
      <3>1. (\E l : Goto(a, l)) \/ (\E c : Reply(a, c))
        BY <2>2
        DEF StartApprove, ApproveStep, RequireWorkflow, GetAuthContext, SaveWorkflow,
            ExchangeToken, DispatchStep, ReceiveReply, EgressTimeout, SaveThread, Fail
      <3>. QED
        BY <1>0, <3>1, ThreadMoves, Unwritten
    <2>. QED
      BY <2>1, <2>2
  <1>3. RecordsCarried
    <2>0. \A b \in Approvals : Inherited(rec[b])
      BY DEF Inherited, Sources
    <2>1. ASSUME NEW l, NEW r, Moves(a, l, r), Inherited(r)
          PROVE  RecordsCarried
      BY <2>0, <2>1 DEF Moves, RecordsCarried
    <2>2. Inherited(rec[a]) /\ Inherited(Failed(a))
      BY <1>0, <2>0 DEF Inherited, Failed, TypeOK, WorkflowRecord
    <2>3. CASE StartApprove(a) \/ SaveWorkflow(a) \/ GetThread(a) \/ SaveThread(a)
      BY <2>1, <2>2, <2>3, StartEffect, SaveEffect, ThreadEffect
    <2>4. CASE RequireWorkflow(a)
      <3> DEFINE s == workflows[asked[a].wf]
      <3>1. \/ Moves(a, "done", rec[a])
            \/ \E l, r : Moves(a, l, r) /\ Required(a, s, l, r)
        BY <2>4, RequireEffect
      <3>2. asked[a].wf \in Workflows /\ s \in WorkflowRecord
        BY <2>4, RequireEffect, HandlerReads
      <3>3. \A l, r : Required(a, s, l, r) => Inherited(r)
        BY <3>2 DEF Required, Inherited, Sources, WorkflowRecord
      <3>. QED
        BY <2>1, <2>2, <3>1, <3>3
    <2>5. CASE GetAuthContext(a)
      <3> DEFINE r == [rec[a] EXCEPT !.status = "executing", !.approval = a]
      <3>1. Inherited(r)
        BY <1>0 DEF Inherited, TypeOK, WorkflowRecord
      <3> HIDE DEF r
      <3>2. Moves(a, "done", rec[a]) \/ Moves(a, "save", r)
        BY <2>5, AuthEffect DEF r
      <3>. QED
        BY <2>1, <2>2, <3>1, <3>2
    <2>6. CASE ExchangeToken(a) \/ ReceiveReply(a) \/ EgressTimeout(a)
      BY <2>1, <2>2, <2>6, ExchangeEffect, ReceiveEffect, TimeoutEffect
    <2>7. CASE DispatchStep(a)
      <3>1. CASE Finishes(a)
        <4>1. \A b \in Approvals :
                 rec'[b] = IF b = a THEN [rec[a] EXCEPT !.status = "completed"] ELSE rec[b]
          BY <1>0, <3>1 DEF Finishes, TypeOK
        <4>. QED
          BY <2>0, <3>1, <4>1 DEF RecordsCarried
      <3>2. CASE ~Finishes(a)
        <4>1. UNCHANGED rec \/ Fail(a)
          BY <2>7, <3>2 DEF DispatchStep, Finishes
        <4>2. \A b \in Approvals : rec'[b] = rec[b] \/ (b = a /\ rec'[b] = Failed(a))
          BY <1>0, <4>1 DEF Fail, Failed, TypeOK
        <4>. QED
          BY <2>0, <2>2, <4>2 DEF RecordsCarried
      <3>. QED
        BY <3>1, <3>2
    <2>. QED
      BY <2>3, <2>4, <2>5, <2>6, <2>7 DEF ApproveStep
  <1>. QED
    BY <1>1, <1>2, <1>3

(* Every step carries every record on, or completes one.                    *)
LEMMA Carries ==
  ASSUME Control, [Next]_vars
  PROVE  StoreCarried /\ ThreadsCarried /\ RecordsCarried
  <1>0. TypeOK
    BY DEF Control
  <1>1. ASSUME NEW a \in Approvals, EgressNext(a)
        PROVE  StoreCarried /\ ThreadsCarried /\ RecordsCarried
    BY <1>1, Unwritten DEF EgressNext, storeVars, localVars, apprVars
  <1>2. ASSUME NEW h \in Handlers, StoreFails(h)
        PROVE  StoreCarried /\ ThreadsCarried /\ RecordsCarried
    <2>1. UNCHANGED rec /\ \A g \in Handlers : thr'[g] \in {thr[g], NoThread}
      BY <1>0, <1>2, ThreadMoves DEF StoreFails, apprVars
    <2>2. StoreCarried
      BY <1>2, WriteSources, Unwritten DEF StoreFails, StoreCarried, storeVars
    <2>. QED
      BY <2>1, <2>2, Unwritten
  <1>3. CASE Environment
    <2>1. UNCHANGED rec
      BY <1>3, EnvironmentEffect DEF Control, apprVars
    <2>2. \A g \in Handlers : thr'[g] \in {thr[g], NoThread}
      BY <1>3
      DEF Environment, RegisterTokenContext, CreateThread, Tick, Crash, ExpireKey, vars,
          localVars
    <2>3. \A w \in Workflows : workflows'[w] \in {workflows[w], NoWorkflow}
      BY <1>3, EnvironmentEffect
    <2>4. \A t \in Threads : \/ threads'[t] = threads[t]
                             \/ threads'[t].workflow = NoWorkflow
      BY <1>0, <1>3
      DEF Environment, RegisterTokenContext, CreateThread, Tick, Crash, ExpireKey, vars,
          storeVars, NoThread, TypeOK
    <2>5. StoreCarried
      BY <2>3, <2>4 DEF StoreCarried, Inherited, Sources, NoWorkflow
    <2>. QED
      BY <2>1, <2>2, <2>5, Unwritten
  <1>. QED
    BY <1>1, <1>2, <1>3, PlanCarries, ApproveCarries, StepKinds

(* Every completed record stays true: what it says has been executed has.   *)
LEMMA CompleteStep ==
  ASSUME Execution, CompleteInv, [Next]_vars
  PROVE  CompleteInv'
  <1>0. Control /\ Claims
    BY DEF Execution, Claims
  <1>1. ContentKept
    BY <1>0, ContentStep
  <1>2. \A b \in Approvals : Ended(b) => Ended(b)' /\ calls'[b] = calls[b]
    BY EndedKept
  <1>3. claimed \subseteq Approvals
    BY <1>0, ClaimTypes
  <1>4. ASSUME NEW r, Inherited(r), r.status = "completed"
        PROVE  /\ Ended(r.approval)'
               /\ r.plan \in Plans /\ content'[r.plan] \in PlanInputs
               /\ Len(calls'[r.approval]) = Len(content'[r.plan].steps)
    <2>1. Complete(r)
      BY <1>4 DEF Inherited, Sources, CompleteInv
    <2>2. /\ Ended(r.approval) /\ r.approval \in Approvals /\ Planned(r.plan)
          /\ Len(calls[r.approval]) = Len(content[r.plan].steps)
      BY <1>3, <1>4, <2>1 DEF Complete, Ended
    <2>3. Ended(r.approval)' /\ calls'[r.approval] = calls[r.approval]
      BY <1>2, <2>2
    <2>. QED
      BY <1>1, <2>2, <2>3 DEF ContentKept, Planned
  <1>5. ASSUME NEW a \in Approvals, Finishes(a),
               rec'[a] = [rec[a] EXCEPT !.status = "completed"]
        PROVE  Complete(rec[a])'
    <2>0. /\ TypeOK /\ a \in Handlers /\ rec[a] \in WorkflowRecord
          /\ ClaimOk(a) /\ HandlerOk(a) /\ ExecOk(a)
      BY <1>0 DEF Control, TypeOK, Handlers, Claims, ClaimInv, HandlerInv, Execution
    <2>1. pc[a] = "dispatch" /\ calls'[a] = calls[a] /\ claimed' = claimed /\ wire'[a] = wire[a]
      BY <1>5 DEF Finishes, DispatchStep
    <2>2. pc'[a] = "save"
      <3>1. rec[a].status # "completed"
        BY <2>0, <2>1 DEF ClaimOk, Executing
      <3>2. ~Moves(a, "await", rec[a])
        BY <1>5, <2>0, <3>1 DEF Moves, WorkflowRecord
      <3>. QED
        BY <1>0, <1>5, <2>0, <3>2, DispatchEffect DEF Finishes, Moves
    <2>3. /\ a \in claimed /\ rec[a].approval = a /\ Planned(rec[a].plan)
      BY <2>0, <2>1 DEF ClaimOk, HandlerOk, Executing, Holding
    <2>4. /\ wire[a].st = "none" /\ AllOk(a)
          /\ Len(calls[a]) = next[a] - 1
          /\ next[a] - 1 <= Len(content[rec[a].plan].steps)
      BY <2>0, <2>1 DEF ExecOk, ProgressOk
    <2>5. content[rec[a].plan].steps \in Seq(Step) /\ next[a] \in Nat
      BY <2>0, <2>3, PlanInputsAssumption DEF Planned, PlanInput, TypeOK
    <2>6. Len(calls[a]) = Len(content[rec[a].plan].steps)
      BY <1>5, <2>4, <2>5 DEF Finishes
    <2>7. Planned(rec[a].plan)' /\ content'[rec[a].plan] = content[rec[a].plan]
      BY <1>1, <1>5, <2>0, <2>3 DEF ContentKept, Planned, WorkflowRecord
    <2>8. rec'[a].approval = a /\ rec'[a].plan = rec[a].plan
      BY <1>5, <2>0, <2>3 DEF WorkflowRecord
    <2>9. Ended(a)'
      BY <2>1, <2>2, <2>3, <2>4 DEF Ended, Late, AllOk
    <2>. QED
      BY <2>1, <2>6, <2>7, <2>8, <2>9 DEF Complete
  <1>6. StoreCarried /\ ThreadsCarried /\ RecordsCarried
    BY <1>0, Carries
  <1>7. \A w \in Workflows : Complete(workflows[w])'
    BY <1>4, <1>6 DEF StoreCarried, Complete, Planned
  <1>8. \A t \in Threads : Complete(threads[t].workflow)'
    BY <1>4, <1>6 DEF StoreCarried, Complete, Planned
  <1>9. \A a \in Approvals : Complete(rec[a])'
    BY <1>4, <1>5, <1>6 DEF RecordsCarried, Complete, Planned
  <1>10. \A h \in Handlers : Complete(thr[h].workflow)'
    BY <1>4, <1>6 DEF ThreadsCarried, Complete, Planned
  <1>. QED
    BY <1>7, <1>8, <1>9, <1>10 DEF CompleteInv

------------------------------------------------------------------------------
(* The inductive invariant.                                                 *)
LEMMA InvariantParts == IInv <=> (Execution /\ CompleteInv)
  <1>1. (\A a \in Approvals : ExecOk(a)) <=> (WireInv /\ ProgressInv /\ CallsInv)
    BY DEF ExecOk, WireInv, ProgressInv, CallsInv
  <1>2. Claims <=> /\ TypeOK /\ PlanInv /\ StoreInv /\ HandlerInv
                   /\ ClaimInv /\ PendingInv /\ OwnerInv
    BY DEF Claims, Control
  <1>. QED
    BY <1>1, <1>2 DEF IInv, Execution

(* The inductive invariant holds at the start.                              *)
LEMMA InvariantInit == Init => IInv
  <1> SUFFICES ASSUME Init PROVE IInv
    OBVIOUS
  <1>1. ASSUME NEW a \in Approvals PROVE ExecOk(a)
    <2>1. pc[a] = "idle" /\ wire[a].st = "none" /\ calls[a] = <<>>
      BY DEF Init, EgressInit, NoMessage, Handlers
    <2>2. WireOk(a) /\ ProgressOk(a)
      BY <2>1 DEF WireOk, ProgressOk
    <2>3. CallsOk(a)
      BY <2>1 DEF CallsOk
    <2>. QED
      BY <2>2, <2>3 DEF ExecOk
  <1>2. CompleteInv
    BY DEF Init, CompleteInv, Complete, NoWorkflow, NoThread
  <1>. QED
    BY <1>1, <1>2, ClaimsInit, InvariantParts DEF Execution

(* Every step keeps the inductive invariant.                                *)
LEMMA InvariantStep == IInv /\ [Next]_vars => IInv'
  <1> SUFFICES ASSUME IInv, [Next]_vars PROVE IInv'
    OBVIOUS
  <1>1. Execution /\ CompleteInv
    BY InvariantParts
  <1>2. Claims' /\ \A a \in Approvals : ExecOk(a)'
    BY <1>1, ClaimStep, ExecStep DEF Execution
  <1>3. CompleteInv'
    BY <1>1, CompleteStep
  <1>. QED
    BY <1>2, <1>3
    DEF IInv, Claims, Control, ExecOk, WireInv, ProgressInv, CallsInv

(* IInv holds in every reachable state.                                     *)
LEMMA InvariantAlways == Spec => []IInv
  BY InvariantInit, InvariantStep, PTL DEF Spec

(* Every tool call an MCP server executes under an approval is a call of    *)
(* the plan whose hash the approving request carried, it has a downstream   *)
(* target, and it ran with a token holding the scopes the plan asked for.   *)
THEOREM OnlyApprovedCalls == Spec => []ExecutedAsApproved
  <1>1. IInv => ExecutedAsApproved
    BY DEF IInv, CallsInv, CallsOk, CallOk, ExecutedAsApproved
  <1>. QED
    BY <1>1, InvariantAlways, PTL

(* Under one approval the steps run in plan order and at most once each,    *)
(* and none runs after one that failed, however late the gateway is.        *)
THEOREM CallsInOrder == Spec => []StepsInOrder
  <1>1. IInv => StepsInOrder
    BY DEF IInv, CallsInv, CallsOk, CallOk, StepsInOrder
  <1>. QED
    BY <1>1, InvariantAlways, PTL

(* No call passes the gateway after the approval's expiry, although the     *)
(* request for it may have been on its way for any length of time.          *)
THEOREM CallsInTime == Spec => []AuthorizedInTime
  <1>1. IInv => AuthorizedInTime
    BY DEF IInv, CallsInv, CallsOk, CallOk, AuthorizedInTime
  <1>. QED
    BY <1>1, InvariantAlways, PTL

(* A record or a thread snapshot that says "completed" tells the truth:     *)
(* under the approval it names, every step of its plan ran and succeeded.   *)
THEOREM CompletedTruthful == Spec => []CompletedMeansExecuted
  <1>1. IInv => CompletedMeansExecuted
    BY DEF IInv, CompleteInv, Complete, Ended, AllOk, CompletedMeansExecuted,
           CompletedRecordOk
  <1>. QED
    BY <1>1, InvariantAlways, PTL

------------------------------------------------------------------------------
(* A request starts only when none is running.                              *)
LEMMA StartsAlone ==
  ASSUME MaxInFlight = 1, Alone, Cardinality(InFlight) < MaxInFlight
  PROVE  InFlight = {}
<1> SUFFICES ASSUME NEW h \in InFlight PROVE FALSE
  OBVIOUS
<1>1. InFlight = {h}
  BY DEF Alone
<1>2. Cardinality({h}) = 1
  BY FS_Singleton
<1> QED
  BY <1>1, <1>2

(* The handler that takes a step was running, or starts alone.               *)
Acts(h) ==
    /\ \A g \in Handlers \ {h} : pc'[g] = pc[g]
    /\ h \in InFlight \/ InFlight = {}

(* A step of a request is a step of that request's handler.                  *)
LEMMA PlanActs ==
  ASSUME Control, Alone, MaxInFlight = 1,
         NEW p \in Plans, StartPlan(p) \/ PlanStep(p) \/ CancelRun(p)
  PROVE  Acts(p)
<1>1. TypeOK /\ p \in Handlers
  BY DEF Control, Handlers
<1>2. \A g \in Handlers \ {p} : pc'[g] = pc[g]
  BY <1>1, MoveFacts
  DEF StartPlan, PlanStep, PlanUpsertSession, PlanSaveWorkflow, PlanGetThread,
      PlanSaveThread, CancelRun
<1>3. CASE StartPlan(p)
  BY <1>2, <1>3, StartsAlone DEF StartPlan, Acts
<1>4. CASE PlanStep(p) \/ CancelRun(p)
  <2>1. p \in InFlight
    BY <1>1, <1>4
    DEF PlanStep, PlanUpsertSession, PlanSaveWorkflow, PlanGetThread, PlanSaveThread, CancelRun,
        WriteSession, WriteWorkflow, WriteThread, InFlight
  <2> QED
    BY <1>2, <2>1 DEF Acts
<1> QED
  BY <1>3, <1>4

LEMMA ApproveActs ==
  ASSUME Control, Alone, MaxInFlight = 1,
         NEW a \in Approvals, StartApprove(a) \/ ApproveStep(a)
  PROVE  Acts(a)
<1>1. a \in Handlers
  BY DEF Handlers
<1>2. \A g \in Handlers \ {a} : pc'[g] = pc[g]
  <2>1. CASE StartApprove(a)
    BY <2>1, StartEffect DEF Moves
  <2>2. CASE RequireWorkflow(a)
    BY <2>2, RequireEffect DEF Moves
  <2>3. CASE GetAuthContext(a)
    BY <2>3, AuthEffect DEF Moves
  <2>4. CASE SaveWorkflow(a)
    BY <2>4, SaveEffect DEF Moves
  <2>5. CASE ExchangeToken(a) \/ DispatchStep(a)
    BY <2>5, ExchangeEffect, DispatchEffect DEF Moves
  <2>6. CASE ReceiveReply(a) \/ EgressTimeout(a)
    BY <2>6, ReceiveEffect, TimeoutEffect DEF Moves
  <2>7. CASE GetThread(a) \/ SaveThread(a)
    BY <2>7, ThreadEffect DEF Moves
  <2> QED
    BY <2>1, <2>2, <2>3, <2>4, <2>5, <2>6, <2>7 DEF ApproveStep
<1>3. CASE StartApprove(a)
  BY <1>2, <1>3, StartsAlone DEF StartApprove, Acts
<1>4. CASE ApproveStep(a)
  <2>1. a \in InFlight
    BY <1>1, <1>4
    DEF ApproveStep, RequireWorkflow, GetAuthContext, SaveWorkflow, WriteWorkflow,
        ExchangeToken, DispatchStep, ReceiveReply, EgressTimeout, GetThread, SaveThread,
        WriteThread, InFlight
  <2> QED
    BY <1>2, <2>1 DEF Acts
<1> QED
  BY <1>3, <1>4

(* At most one request stays in flight.                                      *)
LEMMA AloneStep ==
  ASSUME Control, Alone, MaxInFlight = 1, [Next]_vars
  PROVE  Alone'
<1>1. ASSUME NEW h \in Handlers, Acts(h) PROVE Alone'
  BY <1>1 DEF Acts, Alone, InFlight
<1>2. ASSUME NEW p \in Plans, StartPlan(p) \/ PlanStep(p) \/ CancelRun(p) PROVE Alone'
  BY <1>1, <1>2, PlanActs DEF Handlers
<1>3. ASSUME NEW a \in Approvals, StartApprove(a) \/ ApproveStep(a) PROVE Alone'
  BY <1>1, <1>3, ApproveActs DEF Handlers
<1>4. ASSUME NEW a \in Approvals, EgressNext(a) PROVE Alone'
  BY <1>4, EgressEffect DEF Alone, InFlight
<1>5. ASSUME NEW h \in Handlers, StoreFails(h) PROVE Alone'
  BY <1>5, StoreFailsEffect DEF Alone, InFlight
<1>6. CASE Environment
  BY <1>6, EnvironmentEffect DEF Alone, InFlight
<1> QED
  BY <1>2, <1>3, <1>4, <1>5, <1>6, StepKinds
------------------------------------------------------------------------------
(* What the claims exclude, but for Alone.                                  *)
ClaimsApart ==
    Fresh /\ OneClaim /\ CancelledUnclaimed /\ \A a \in Approvals : Asking(a)

(* A handler moves before its claim, or without one.                        *)
LEMMA ApartEarly ==
  ASSUME Claims, SerialClaims, NEW a \in Approvals, a \notin claimed,
         NEW l, NEW r, Moves(a, l, r), UNCHANGED <<workflows, claimed, wire, calls>>,
         l \in {"authctx", "save"} => \A b \in claimed : rec[b].plan # r.plan
  PROVE  ClaimsApart'
<1>0. claimed \subseteq Approvals /\ Approvals \subseteq Handlers
  BY ClaimTypes
<1>1. \A b \in Approvals \ {a} : pc'[b] = pc[b] /\ rec'[b] = rec[b] /\ asked'[b] = asked[b]
  BY <1>0 DEF Moves
<1>2. pc'[a] = l /\ rec'[a] = r
  BY <1>0 DEF Moves
<1>3. Fresh'
  BY <1>0, <1>1, <1>2 DEF SerialClaims, Fresh
<1>4. OneClaim' /\ CancelledUnclaimed'
  BY <1>0, <1>1 DEF SerialClaims, OneClaim, CancelledUnclaimed
<1>5. \A b \in Approvals : Asking(b)'
  BY <1>1 DEF SerialClaims, Asking
<1> QED
  BY <1>3, <1>4, <1>5 DEF ClaimsApart

(* A handler moves after its claim, with the plan it claimed.               *)
LEMMA ApartLate ==
  ASSUME Claims, SerialClaims, NEW a \in Approvals, a \in claimed,
         NEW l, NEW r, Moves(a, l, r), UNCHANGED <<workflows, claimed, asked>>,
         \A b \in Approvals \ {a} : wire'[b] = wire[b] /\ calls'[b] = calls[b],
         l # "authctx", r.plan = rec[a].plan
  PROVE  ClaimsApart'
<1>0. claimed \subseteq Approvals /\ Approvals \subseteq Handlers
  BY ClaimTypes
<1>1. \A b \in Approvals \ {a} : pc'[b] = pc[b] /\ rec'[b] = rec[b]
  BY <1>0 DEF Moves
<1>2. pc'[a] = l /\ rec'[a] = r
  BY <1>0 DEF Moves
<1>3. \A b \in Approvals : rec'[b].plan = rec[b].plan
  BY <1>1, <1>2
<1>4. Fresh'
  BY <1>0, <1>1, <1>2, <1>3 DEF SerialClaims, Fresh
<1>5. OneClaim' /\ CancelledUnclaimed'
  BY <1>0, <1>3 DEF SerialClaims, OneClaim, CancelledUnclaimed
<1>6. \A b \in Approvals : Asking(b)'
  BY <1>1, <1>2, <1>3 DEF SerialClaims, Asking
<1> QED
  BY <1>4, <1>5, <1>6 DEF ClaimsApart

(* A handler stores its record, and may claim its plan with it.             *)
LEMMA ApartSaved ==
  ASSUME Claims, SerialClaims, NEW a \in Approvals, RecordStored(a),
         UNCHANGED <<rec, asked, wire, calls>>,
         \A b \in Approvals \ {a} : pc'[b] = pc[b], pc'[a] \notin {"authctx", "save"}
  PROVE  ClaimsApart'
<1>0. claimed \subseteq Approvals /\ Approvals \subseteq Handlers /\ a \in InFlight
  BY ClaimTypes DEF RecordStored, InFlight
<1>1. ASSUME NEW b \in Approvals, b # a PROVE pc'[b] \notin {"authctx", "save"}
  BY <1>0, <1>1 DEF SerialClaims, Alone, InFlight
<1>2. Fresh'
  BY <1>1 DEF Fresh
<1>3. ClaimOk(a) /\ HandlerOk(a)
  BY DEF Claims, ClaimInv, Control, HandlerInv
<1>4. a \notin claimed => \A b \in claimed : rec[b].plan # rec[a].plan
  BY DEF RecordStored, SerialClaims, Fresh
<1>5. rec[a].status \in {"executing", "cancelled"} => a \notin claimed
  BY <1>3 DEF ClaimOk, RecordStored
<1>6. ASSUME NEW b \in claimed', NEW c \in claimed', rec[b].plan = rec[c].plan PROVE b = c
  BY <1>4, <1>5, <1>6 DEF RecordStored, SerialClaims, OneClaim
<1>7. OneClaim'
  BY <1>6 DEF OneClaim
<1>8. ASSUME NEW w \in Workflows, workflows'[w].status = "cancelled", NEW b \in claimed'
      PROVE  rec[b].plan # workflows'[w].plan
  <2>1. CASE w = content[rec[a].plan].wf
    <3>1. workflows'[w] = rec[a] /\ rec[a].status = "cancelled" /\ claimed' = claimed
      BY <1>8, <2>1 DEF RecordStored
    <3> QED
      BY <1>4, <1>5, <1>8, <3>1
  <2>2. CASE w # content[rec[a].plan].wf
    <3>1. workflows'[w] = workflows[w]
      BY <2>2 DEF RecordStored
    <3>2. workflows[w].plan # rec[a].plan
      BY <1>8, <2>2, <3>1 DEF Claims, Control, StoreInv
    <3>3. b \in claimed \/ b = a
      BY DEF RecordStored
    <3> QED
      BY <1>8, <3>1, <3>2, <3>3 DEF SerialClaims, CancelledUnclaimed
  <2> QED
    BY <2>1, <2>2
<1>9. CancelledUnclaimed'
  BY <1>8 DEF CancelledUnclaimed
<1>10. \A b \in Approvals : Asking(b)'
  <2>1. rec[a].plan = asked[a].hash
    BY <1>3 DEF HandlerOk, RecordStored, Holding
  <2> QED
    BY <2>1 DEF SerialClaims, Asking, RecordStored
<1> QED
  BY <1>2, <1>7, <1>9, <1>10 DEF ClaimsApart

(* Handlers stop, records vanish, and the gateway works on what was sent.    *)
LEMMA ApartStops ==
  ASSUME Claims, SerialClaims, UNCHANGED <<rec, asked, claimed>>,
         \A b \in Approvals : pc'[b] = pc[b] \/ pc'[b] = "done",
         \A w \in Workflows : workflows'[w].status = "cancelled" => workflows'[w] = workflows[w],
         \A b \in Approvals : wire[b].st = "none" => wire'[b] = wire[b] /\ calls'[b] = calls[b]
  PROVE  ClaimsApart'
<1>0. claimed \subseteq Approvals
  BY ClaimTypes
<1>1. Fresh'
  BY DEF SerialClaims, Fresh
<1>2. OneClaim' /\ CancelledUnclaimed'
  BY DEF SerialClaims, OneClaim, CancelledUnclaimed
<1>3. \A b \in Approvals : Asking(b)'
  BY DEF SerialClaims, Asking
<1> QED
  BY <1>1, <1>2, <1>3 DEF ClaimsApart

(* The steps of an approval request keep the claims apart.                   *)
LEMMA ApartApprove ==
  ASSUME Execution, SerialClaims, NEW a \in Approvals, StartApprove(a) \/ ApproveStep(a)
  PROVE  ClaimsApart'
<1>0. /\ Claims /\ Control /\ ClaimOk(a) /\ HandlerOk(a) /\ rec[a] \in WorkflowRecord
      /\ a \in Handlers
  BY ClaimTypes DEF Execution, Claims, ClaimInv, Control, HandlerInv
<1>1. CASE StartApprove(a)
  BY <1>0, <1>1, StartEffect, ClaimUnmade, ApartEarly DEF storeVars, egressVars
<1>2. CASE RequireWorkflow(a)
  <2>1. a \notin claimed /\ UNCHANGED <<workflows, claimed, wire, calls>>
    BY <1>0, <1>2, RequireEffect, ClaimUnmade DEF storeVars, egressVars
  <2>2. CASE Moves(a, "done", rec[a])
    BY <1>0, <2>1, <2>2, ApartEarly
  <2>3. ASSUME NEW l, NEW r, Moves(a, l, r), Required(a, workflows[asked[a].wf], l, r)
        PROVE  ClaimsApart'
    <3>1. asked[a].wf \in Workflows
      BY <1>0, <1>2, RequireEffect
    <3>2. l \in {"authctx", "save"} =>
            workflows[asked[a].wf].status \in Pending /\ r.plan = workflows[asked[a].wf].plan
      BY <1>0, <2>3, <3>1, ClaimTypes DEF Required, WorkflowRecord
    <3>3. l \in {"authctx", "save"} => \A b \in claimed : rec[b].plan # r.plan
      BY <1>0, <3>1, <3>2 DEF Claims, PendingInv
    <3> QED
      BY <1>0, <2>1, <2>3, <3>3, ApartEarly
  <2> QED
    BY <1>0, <1>2, <2>2, <2>3, RequireEffect
<1>3. CASE GetAuthContext(a)
  <2> DEFINE r == [rec[a] EXCEPT !.status = "executing", !.approval = a]
  <2>1. /\ pc[a] = "authctx" /\ a \notin claimed /\ UNCHANGED <<workflows, claimed, wire, calls>>
        /\ Moves(a, "done", rec[a]) \/ Moves(a, "save", r)
    BY <1>0, <1>3, AuthEffect, ClaimUnmade DEF storeVars, egressVars
  <2>2. r.plan = rec[a].plan
    BY <1>0 DEF WorkflowRecord
  <2>3. \A b \in claimed : rec[b].plan # r.plan
    BY <2>1, <2>2 DEF SerialClaims, Fresh
  <2> HIDE DEF r
  <2> QED
    BY <1>0, <2>1, <2>3, ApartEarly
<1>4. CASE SaveWorkflow(a)
  <2>1. RecordStored(a) /\ UNCHANGED <<asked, wire, calls>>
    BY <1>0, <1>4, SaveEffect DEF RecordStored, egressVars
  <2>2. UNCHANGED rec
    BY <1>4 DEF SaveWorkflow, apprVars
  <2>3. /\ \A b \in Approvals \ {a} : pc'[b] = pc[b]
        /\ pc'[a] \notin {"authctx", "save"}
    <3>1. Moves(a, IF rec[a].status = "executing" THEN "exchange" ELSE "threadGet", rec[a])
      BY <1>0, <1>4, SaveEffect
    <3> QED
      BY <1>0, <3>1, ClaimTypes DEF Moves
  <2> QED
    BY <1>0, <2>1, <2>2, <2>3, ApartSaved
<1>5. CASE ExchangeToken(a) \/ DispatchStep(a) \/ ReceiveReply(a) \/ EgressTimeout(a)
  <2>1. /\ pc[a] \in Executing /\ UNCHANGED <<workflows, claimed, asked>>
        /\ \A b \in Approvals \ {a} : wire'[b] = wire[b] /\ calls'[b] = calls[b]
        /\ \/ \E l \in Executing : Moves(a, l, rec[a])
           \/ \E st \in {"completed", "failed"} : Moves(a, "save", [rec[a] EXCEPT !.status = st])
    BY <1>0, <1>5, ExchangeEffect, DispatchEffect, ReceiveEffect, TimeoutEffect
    DEF storeVars, egressVars, Executing, Failed
  <2>2. a \in claimed
    BY <1>0, <2>1 DEF ClaimOk
  <2>3. ASSUME NEW l \in Executing, Moves(a, l, rec[a]) PROVE ClaimsApart'
    BY <1>0, <2>1, <2>2, <2>3, ApartLate DEF Executing
  <2>4. ASSUME NEW st \in {"completed", "failed"}, Moves(a, "save", [rec[a] EXCEPT !.status = st])
        PROVE  ClaimsApart'
    <3>1. PICK r : r = [rec[a] EXCEPT !.status = st]
      OBVIOUS
    <3>2. r.plan = rec[a].plan /\ Moves(a, "save", r)
      BY <1>0, <2>4, <3>1 DEF WorkflowRecord
    <3> QED
      BY <1>0, <2>1, <2>2, <3>2, ApartLate
  <2> QED
    BY <2>1, <2>3, <2>4
<1>6. CASE GetThread(a) \/ SaveThread(a)
  <2>1. /\ UNCHANGED <<workflows, claimed, asked, wire, calls>>
        /\ Moves(a, "done", rec[a]) \/ Moves(a, "threadPut", rec[a])
    BY <1>0, <1>6, ThreadEffect DEF egressVars
  <2> QED
    BY <1>0, <2>1, ApartEarly, ApartLate
<1> QED
  BY <1>1, <1>2, <1>3, <1>4, <1>5, <1>6 DEF ApproveStep

(* Requests one at a time keep their claims apart.                           *)
LEMMA SerialStep ==
  ASSUME MaxInFlight = 1, IInv, SerialClaims, [Next]_vars
  PROVE  SerialClaims'
<1>0. Execution /\ Claims /\ Control /\ Approvals \subseteq Handlers
  BY InvariantParts, ClaimTypes DEF Execution, Claims
<1>1. Alone'
  BY <1>0, AloneStep DEF SerialClaims
<1>2. ASSUME NEW p \in Plans, StartPlan(p) \/ PlanStep(p) \/ CancelRun(p) PROVE ClaimsApart'
  <2>1. /\ UNCHANGED <<rec, asked, claimed, wire, calls>>
        /\ \A b \in Approvals : pc'[b] = pc[b]
        /\ UNCHANGED workflows \/ PlanStored(p)
    BY <1>0, <1>2, PlanEffect DEF apprVars, egressVars
  <2>2. \A w \in Workflows : workflows'[w].status = "cancelled" => workflows'[w] = workflows[w]
    BY <2>1 DEF PlanStored, PlannedRecord
  <2> QED
    BY <1>0, <2>1, <2>2, ApartStops
<1>3. ASSUME NEW a \in Approvals, StartApprove(a) \/ ApproveStep(a) PROVE ClaimsApart'
  BY <1>0, <1>3, ApartApprove
<1>4. ASSUME NEW a \in Approvals, EgressNext(a) PROVE ClaimsApart'
  <2>1. UNCHANGED <<workflows, pc, rec, asked, claimed>>
    BY <1>0, <1>4, EgressEffect DEF apprVars
  <2>2. \A b \in Approvals : wire[b].st = "none" => wire'[b] = wire[b] /\ calls'[b] = calls[b]
    BY <1>0, <1>4
    DEF Control, TypeOK, EgressTypeOK, EgressNext, EgressStep, EgressRefuse, EgressAuthorize,
        McpCall, McpTransportFails
  <2> QED
    BY <1>0, <2>1, <2>2, ApartStops
<1>5. ASSUME NEW h \in Handlers, StoreFails(h) PROVE ClaimsApart'
  <2>1. /\ UNCHANGED <<rec, asked, wire, calls>>
        /\ \A b \in Handlers : pc'[b] = IF b = h THEN "done" ELSE pc[b]
        /\ \/ UNCHANGED <<workflows, claimed>>
           \/ h \in Plans /\ PlanStored(h) /\ UNCHANGED claimed
           \/ h \in Approvals /\ RecordStored(h)
    BY <1>0, <1>5, StoreFailsEffect DEF apprVars, egressVars
  <2>2. CASE h \in Approvals /\ RecordStored(h)
    BY <1>0, <2>1, <2>2, ApartSaved
  <2>3. CASE UNCHANGED claimed /\ (UNCHANGED workflows \/ PlanStored(h))
    <3>1. \A w \in Workflows : workflows'[w].status = "cancelled" => workflows'[w] = workflows[w]
      BY <2>3 DEF PlanStored, PlannedRecord
    <3> QED
      BY <1>0, <2>1, <2>3, <3>1, ApartStops
  <2> QED
    BY <2>1, <2>2, <2>3
<1>6. ASSUME Environment PROVE ClaimsApart'
  <2>1. /\ UNCHANGED <<rec, asked, claimed, wire, calls>>
        /\ \A b \in Approvals : pc'[b] = pc[b] \/ pc'[b] = "done"
        /\ \A w \in Workflows : workflows'[w] \in {workflows[w], NoWorkflow}
    BY <1>0, <1>6, EnvironmentEffect DEF apprVars, egressVars
  <2>2. \A w \in Workflows : workflows'[w].status = "cancelled" => workflows'[w] = workflows[w]
    BY <2>1 DEF NoWorkflow
  <2> QED
    BY <1>0, <2>1, <2>2, ApartStops
<1>7. ClaimsApart'
  BY <1>2, <1>3, <1>4, <1>5, <1>6, StepKinds
<1> QED
  BY <1>1, <1>7 DEF SerialClaims, ClaimsApart

(* No claim has been made when the program starts.                           *)
LEMMA SerialInit == Init => SerialClaims
  BY DEF Init, EgressInit, NoMessage, NoWorkflow, SerialClaims, Alone, InFlight, Fresh, OneClaim,
         CancelledUnclaimed, Asking, Handlers

(* The two invariants hold in every reachable state.                         *)
LEMMA SerialAlways ==
  ASSUME MaxInFlight = 1
  PROVE  Spec => [](IInv /\ SerialClaims)
<1>1. Init => IInv /\ SerialClaims
  BY InvariantInit, SerialInit
<1>2. IInv /\ SerialClaims /\ [Next]_vars => (IInv /\ SerialClaims)'
  BY InvariantStep, SerialStep
<1> QED
  BY <1>1, <1>2, PTL DEF Spec

(* What was called under an approval is the plan it claimed.                 *)
LEMMA CallsAreClaimed ==
  ASSUME IInv, SerialClaims, NEW a \in Approvals, NEW i \in DOMAIN calls[a]
  PROVE  a \in claimed /\ calls[a][i].plan = rec[a].plan
<1>1. a \in claimed
  <2>1. calls[a] # <<>>
    OBVIOUS
  <2> QED
    BY <2>1 DEF SerialClaims, Asking
<1>2. calls[a][i].plan = asked[a].hash
  BY DEF IInv, CallsInv, CallsOk, CallOk
<1> QED
  BY <1>1, <1>2 DEF SerialClaims, Asking

(* With requests one at a time a plan is executed under one approval only:   *)
(* the status that approve_workflow reads is that of the last approval that   *)
(* claimed the plan, in spite of crashes, lost keys and late gateways.       *)
THEOREM PlansRunOnce ==
  ASSUME MaxInFlight = 1
  PROVE  Spec => []DispatchedOnce
<1>1. IInv /\ SerialClaims => DispatchedOnce
  BY CallsAreClaimed DEF DispatchedOnce, SerialClaims, OneClaim
<1> QED
  BY <1>1, SerialAlways, PTL

(* With requests one at a time no call of a plan whose record says cancelled  *)
(* was ever made, by a gateway however late: approve_workflow stores a       *)
(* rejection only of a record that no approval has claimed.                  *)
THEOREM CancelledStaysUnrun ==
  ASSUME MaxInFlight = 1
  PROVE  Spec => []CancelledNeverExecuted
<1>1. IInv /\ SerialClaims => CancelledNeverExecuted
  BY CallsAreClaimed DEF CancelledNeverExecuted, SerialClaims, CancelledUnclaimed
<1> QED
  BY <1>1, SerialAlways, PTL

------------------------------------------------------------------------------
(* Threads.  A step keeps every snapshot right.                              *)
SnapshotsStay == \A t \in Threads : SnapshotOk(t)' /\ Agrees(t)'

\* A step writes record r under the id v.
Stores(v, r) == \A w \in Workflows : workflows'[w] = IF w = v THEN r ELSE workflows[w]

(* A step of h keeps the threads right if it keeps the snapshots right and   *)
(* leaves h with what is stored: no one else runs.                           *)
LEMMA ThreadsFrame ==
  ASSUME Control, Alone, ThreadsOk, NEW h \in Handlers, Acts(h),
         \A p \in Plans \ {h} : resp'[p] = resp[p] /\ content'[p] = content[p],
         SnapshotsStay,
         HeldOk(h)'
  PROVE  ThreadsOk'
<1>1. \A g \in Handlers \ {h} : pc'[g] = pc[g] /\ pc[g] \in {"idle", "done"}
  BY DEF Alone, Acts, InFlight
<1>2. ASSUME NEW g \in Handlers \ {h} PROVE HeldOk(g)'
  BY <1>1, <1>2 DEF HeldOk
<1> QED
  BY <1>2 DEF ThreadsOk, SnapshotsStay

(* The only handler that can be behind with a thread is the one that acts.   *)
LEMMA OnlyActorBehind ==
  ASSUME Alone, NEW h \in Handlers, Acts(h), NEW t \in Threads, Agrees(t),
         threads[t].workflow.plan # None,
         workflows[content[threads[t].workflow.plan].wf].plan = threads[t].workflow.plan,
         workflows[content[threads[t].workflow.plan].wf] # threads[t].workflow
  PROVE  h \in Approvals /\ pc[h] \in Updating /\ rec[h].plan = threads[t].workflow.plan
<1>1. \A a \in Approvals : pc[a] \in Updating => a = h
  BY DEF Updating, Executing, Alone, Acts, InFlight, Handlers
<1>2. PICK a \in Approvals : pc[a] \in Updating /\ rec[a].plan = threads[t].workflow.plan
  BY DEF Agrees
<1> QED
  BY <1>1, <1>2

(* A step that writes neither records nor threads keeps the snapshots, if    *)
(* the handler that was behind is behind still, or no thread showed its plan. *)
LEMMA SnapshotsKept ==
  ASSUME Control, Alone, ThreadsOk, NEW h \in Handlers, Acts(h),
         UNCHANGED <<workflows, threads>>,
         \A x : Planned(x) => Planned(x)' /\ content'[x] = content[x],
         h \in Plans /\ pc[h] \in Shown => pc'[h] \in Shown,
         h \in Approvals /\ pc[h] \in Updating =>
            \/ pc'[h] \in Updating /\ rec'[h].plan = rec[h].plan
            \/ \A t \in Threads : threads[t].workflow.plan # rec[h].plan
  PROVE  SnapshotsStay
<1> SUFFICES ASSUME NEW t \in Threads PROVE SnapshotOk(t)' /\ Agrees(t)'
  BY DEF SnapshotsStay
<1>1. SnapshotOk(t) /\ Agrees(t)
  BY DEF ThreadsOk
<1>2. \A g \in Plans : pc[g] \in Shown => pc'[g] \in Shown
  BY DEF Acts, Handlers
<1>3. SnapshotOk(t)'
  BY <1>1, <1>2 DEF SnapshotOk, Planned
<1>4. Agrees(t)'
  <2> SUFFICES ASSUME NEW q, q = threads[t].workflow.plan, q # None,
                      workflows[content'[q].wf].plan = q,
                      workflows[content'[q].wf] # threads[t].workflow
               PROVE  \E a \in Approvals : pc'[a] \in Updating /\ rec'[a].plan = q
    BY DEF Agrees
  <2>1. content'[q] = content[q]
    BY <1>1 DEF SnapshotOk
  <2>2. h \in Approvals /\ pc[h] \in Updating /\ rec[h].plan = q
    BY <1>1, <2>1, OnlyActorBehind
  <2> QED
    BY <2>2
<1> QED
  BY <1>3, <1>4

(* A record written under the id of its plan keeps the snapshots, if no      *)
(* thread shows that plan, or its approval goes on to the thread.            *)
LEMMA RecordWritten ==
  ASSUME Control, Alone, ThreadsOk, NEW h \in Handlers, Acts(h),
         UNCHANGED <<threads, content>>,
         NEW r, NEW v \in Workflows,
         Stores(v, r),
         h \in Plans => pc'[h] \in Shown,
         h \in Approvals => rec[h].plan = r.plan,
         \A t \in Threads : threads[t].workflow.plan = r.plan =>
            h \in Approvals /\ pc'[h] \in Updating /\ rec'[h].plan = r.plan
  PROVE  SnapshotsStay
<1> SUFFICES ASSUME NEW t \in Threads PROVE SnapshotOk(t)' /\ Agrees(t)'
  BY DEF SnapshotsStay
<1>1. SnapshotOk(t) /\ Agrees(t)
  BY DEF ThreadsOk
<1>2. \A g \in Plans : pc[g] \in Shown => pc'[g] \in Shown
  BY DEF Acts, Handlers
<1>3. SnapshotOk(t)'
  BY <1>1, <1>2 DEF SnapshotOk, Planned
<1>4. Agrees(t)'
  <2>1. CASE threads[t].workflow.plan = r.plan
    BY <2>1 DEF Agrees
  <2>2. CASE threads[t].workflow.plan # r.plan /\ threads[t].workflow.plan # None
    <3>1. content[threads[t].workflow.plan].wf \in Workflows
      BY <1>1, <2>2, PlanInputsAssumption DEF SnapshotOk, Planned, PlanInput
    <3> QED
      BY <1>1, <2>2, <3>1, OnlyActorBehind DEF Agrees, Stores
  <2>3. CASE threads[t].workflow.plan = None
    BY <2>3 DEF Agrees
  <2> QED
    BY <2>1, <2>2, <2>3
<1> QED
  BY <1>3, <1>4

(* A thread written with the stored record of a plan of its own is right.    *)
LEMMA ThreadWritten ==
  ASSUME Control, Alone, ThreadsOk, NEW h \in Handlers, Acts(h),
         UNCHANGED <<workflows, content>>,
         NEW n, NEW u \in Threads,
         \A t \in Threads : threads'[t] = IF t = u THEN n ELSE threads[t],
         n.present,
         Planned(n.workflow.plan), content[n.workflow.plan].thread = u,
         workflows[content[n.workflow.plan].wf] = n.workflow,
         h \in Approvals => rec[h].plan = n.workflow.plan,
         pc'[h] = "done", pc'[n.workflow.plan] \in Shown
  PROVE  SnapshotsStay
<1> SUFFICES ASSUME NEW t \in Threads PROVE SnapshotOk(t)' /\ Agrees(t)'
  BY DEF SnapshotsStay
<1>1. SnapshotOk(t) /\ Agrees(t)
  BY DEF ThreadsOk
<1>2. \A g \in Plans : pc[g] \in Shown => pc'[g] \in Shown
  BY DEF Acts, Handlers, Shown
<1>3. CASE t = u
  <2>1. threads'[t] = n
    BY <1>3
  <2> QED
    BY <1>3, <2>1 DEF SnapshotOk, Agrees, Planned
<1>4. CASE t # u
  <2>1. threads'[t] = threads[t]
    BY <1>4
  <2>2. SnapshotOk(t)'
    BY <1>1, <1>2, <2>1 DEF SnapshotOk, Planned
  <2>3. threads[t].workflow.plan # None => threads[t].workflow.plan # n.workflow.plan
    BY <1>1, <1>4 DEF SnapshotOk
  <2>4. Agrees(t)'
    <3> SUFFICES ASSUME NEW q, q = threads[t].workflow.plan, q # None,
                        workflows[content[q].wf].plan = q,
                        workflows[content[q].wf] # threads[t].workflow
                 PROVE  FALSE
      BY <2>1 DEF Agrees
    <3>1. h \in Approvals /\ rec[h].plan = q
      BY <1>1, OnlyActorBehind
    <3> QED
      BY <2>3, <3>1
  <2> QED
    BY <2>1, <2>2, <2>4
<1> QED
  BY <1>3, <1>4

(* The steps of a planning request keep the threads right.                   *)
LEMMA ThreadsPlan ==
  ASSUME Control, Alone, ThreadsOk, MaxInFlight = 1,
         NEW p \in Plans, StartPlan(p) \/ PlanStep(p) \/ CancelRun(p)
  PROVE  ThreadsOk'
<1>0. /\ TypeOK /\ p \in Handlers /\ p \notin Approvals /\ Acts(p)
      /\ \A x : Planned(x) => Planned(x)' /\ content'[x] = content[x]
      /\ HeldOk(p)
  BY PlanInputsAssumption, PlanActs, PlanEffect DEF Control, Handlers, ThreadsOk
<1>1. CASE StartPlan(p)
  <2>1. \A x \in Plans \ {p} : content'[x] = content[x]
    BY <1>0, <1>1 DEF StartPlan, TypeOK
  <2>2. /\ pc[p] = "idle" /\ pc'[p] = "session" /\ resp' = resp
        /\ UNCHANGED <<workflows, threads>>
    BY <1>0, <1>1 DEF StartPlan, Goto, TypeOK, storeVars
  <2>3. HeldOk(p)'
    BY <2>2 DEF HeldOk
  <2>4. SnapshotsStay
    BY <1>0, <2>2, SnapshotsKept DEF Shown
  <2> QED
    BY <1>0, <2>1, <2>2, <2>3, <2>4, ThreadsFrame
<1>2. ASSUME UNCHANGED planVars, \A x \in Plans \ {p} : resp'[x] = resp[x],
             SnapshotsStay,
             HeldOk(p)'
      PROVE  ThreadsOk'
  BY <1>0, <1>2, ThreadsFrame DEF planVars
<1>3. CASE PlanUpsertSession(p) \/ CancelRun(p)
  <2>1. /\ UNCHANGED planVars /\ UNCHANGED <<workflows, threads>>
        /\ pc[p] \notin {"idle", "done"}
        /\ \/ pc[p] = "session" /\ pc'[p] = "save" /\ resp'[p] = resp[p]
           \/ pc'[p] = "done" /\ resp'[p] = "lost"
        /\ \A x \in Plans \ {p} : resp'[x] = resp[x]
    BY <1>0, <1>3, MoveFacts
    DEF PlanUpsertSession, WriteSession, CancelRun, InFlight, storeVars, planVars, Handlers
  <2>2. HeldOk(p)'
    BY <2>1 DEF HeldOk
  <2>3. SnapshotsStay
    BY <1>0, <2>1, SnapshotsKept DEF Shown
  <2> QED
    BY <1>2, <2>1, <2>2, <2>3
<1>4. CASE PlanGetThread(p)
  <2>1. /\ UNCHANGED planVars /\ UNCHANGED <<workflows, threads>>
        /\ pc[p] = "threadGet" /\ pc'[p] = "threadPut" /\ resp' = resp
        /\ thr'[p] = threads[content[p].thread]
    BY <1>0, <1>4 DEF PlanGetThread, HoldThread, TypeOK, storeVars, planVars
  <2>2. HeldOk(p)'
    BY <1>0, <2>1 DEF HeldOk, PlanOf, RecordOf, PlannedRecord, planVars
  <2>3. SnapshotsStay
    BY <1>0, <2>1, SnapshotsKept DEF Shown
  <2> QED
    BY <1>2, <2>1, <2>2, <2>3
<1>5. CASE PlanSaveWorkflow(p)
  <2>1. PlanStored(p)
    BY <1>0, <1>5, WriteWorkflowEffect DEF PlanSaveWorkflow
  <2>2. /\ UNCHANGED planVars /\ UNCHANGED threads /\ pc[p] = "save"
        /\ \/ content[p].thread = None /\ pc'[p] = "done"
           \/ pc'[p] = "threadGet" /\ resp'[p] = resp[p]
        /\ \A x \in Plans \ {p} : resp'[x] = resp[x]
    BY <1>0, <1>5, MoveFacts
    DEF PlanSaveWorkflow, WriteWorkflow, planVars, Handlers
  <2>3. HeldOk(p)'
    BY <1>0, <2>1, <2>2 DEF HeldOk, PlanStored, PlanOf, RecordOf, PlannedRecord, planVars
  <2>4. \A t \in Threads : threads[t].workflow.plan # p
    BY <2>2, NoneAssumption DEF ThreadsOk, SnapshotOk, Shown
  <2>5. PICK r : r = PlannedRecord(p)
    OBVIOUS
  <2>6. r.plan = p
    BY <2>5 DEF PlannedRecord
  <2>7. SnapshotsStay
    <3>1. /\ content[p].wf \in Workflows
          /\ Stores(content[p].wf, r)
      BY <2>1, <2>5 DEF PlanStored, Stores
    <3>2. UNCHANGED <<threads, content>> /\ pc'[p] \in Shown
      BY <2>2 DEF Shown, planVars
    <3> QED
      BY <1>0, <2>4, <2>6, <3>1, <3>2, RecordWritten
  <2> QED
    BY <1>2, <2>2, <2>3, <2>7
<1>6. CASE PlanSaveThread(p)
  <2> DEFINE u == content[p].thread
  <2>1. /\ UNCHANGED planVars /\ UNCHANGED workflows
        /\ pc[p] = "threadPut" /\ pc'[p] = "done" /\ resp'[p] = "200"
        /\ \A x \in Plans \ {p} : resp'[x] = resp[x]
        /\ threads' = [threads EXCEPT ![u] = PlannedThread(p)]
    BY <1>0, <1>6, MoveFacts
    DEF PlanSaveThread, WriteThread, PlanOf, ThreadOf, planVars, Handlers
  <2>2. Planned(p) /\ u # None
    BY <2>1 DEF Control, PlanInv
  <2>3. u \in Threads
    BY <2>2, PlanInputsAssumption DEF Planned, PlanInput
  <2>4. PICK n : n = PlannedThread(p)
    OBVIOUS
  <2>5. n.present /\ n.workflow = PlannedRecord(p) /\ n.workflow.plan = p
    BY <2>4 DEF PlannedThread, PlannedRecord
  <2>6. workflows[content[p].wf] = n.workflow
    BY <1>0, <2>1, <2>5 DEF HeldOk, PlanOf, RecordOf
  <2>7. \A t \in Threads : threads'[t] = IF t = u THEN n ELSE threads[t]
    BY <1>0, <2>1, <2>3, <2>4 DEF TypeOK
  <2>8. SnapshotsStay
    BY <1>0, <2>1, <2>2, <2>3, <2>5, <2>6, <2>7, ThreadWritten DEF Shown, planVars
  <2>9. HeldOk(p)'
    BY <2>1 DEF HeldOk
  <2> QED
    BY <1>2, <2>1, <2>8, <2>9
<1> QED
  BY <1>1, <1>3, <1>4, <1>5, <1>6 DEF PlanStep

(* The steps of an approval request keep the threads right.                  *)
LEMMA ThreadsApprove ==
  ASSUME Control, Alone, ThreadsOk, MaxInFlight = 1,
         NEW a \in Approvals, StartApprove(a) \/ ApproveStep(a)
  PROVE  ThreadsOk'
<1>0. /\ TypeOK /\ a \in Handlers /\ a \notin Plans /\ Acts(a)
      /\ HeldOk(a) /\ HandlerOk(a) /\ rec[a] \in WorkflowRecord
  BY PlanInputsAssumption, ApproveActs DEF Control, Handlers, ThreadsOk, HandlerInv, TypeOK
<1>1. ASSUME NEW l, NEW r, Moves(a, l, r), SnapshotsStay, HeldOk(a)' PROVE ThreadsOk'
  BY <1>0, <1>1, ThreadsFrame DEF Moves, planVars, Handlers
<1>2. ASSUME NEW l, NEW r, Moves(a, l, r), UNCHANGED storeVars,
             pc[a] \in Updating => l \in Updating /\ r.plan = rec[a].plan
      PROVE  SnapshotsStay
  <2>1. pc'[a] = l /\ rec'[a] = r
    BY <1>0, <1>2 DEF Moves
  <2>2. \A x : Planned(x) => Planned(x)' /\ content'[x] = content[x]
    BY <1>2 DEF Moves, planVars, Planned
  <2> QED
    BY <1>0, <1>2, <2>1, <2>2, SnapshotsKept DEF storeVars
<1>3. ASSUME NEW l, NEW r, Moves(a, l, r), UNCHANGED storeVars, l \notin {"threadGet", "threadPut"},
             pc[a] \in Updating => l \in Updating /\ r.plan = rec[a].plan
      PROVE  ThreadsOk'
  <2>1. HeldOk(a)'
    BY <1>0, <1>3 DEF Moves, HeldOk
  <2> QED
    BY <1>1, <1>2, <1>3, <2>1
<1>4. CASE StartApprove(a) \/ GetAuthContext(a)
  <2>1. /\ pc[a] \in {"idle", "authctx"} /\ UNCHANGED storeVars
        /\ \E l \in {"require", "save", "done"} : \E r : Moves(a, l, r)
    BY <1>4, StartEffect, AuthEffect
  <2>2. PICK l \in {"require", "save", "done"} : \E r : Moves(a, l, r)
    BY <2>1
  <2>3. PICK r : Moves(a, l, r)
    BY <2>2
  <2>4. pc[a] \notin Updating /\ l \notin {"threadGet", "threadPut"}
    BY <2>1 DEF Updating, Executing
  <2> QED
    BY <1>3, <2>1, <2>3, <2>4
<1>5. CASE RequireWorkflow(a)
  <2> DEFINE s == workflows[asked[a].wf]
  <2>1. /\ pc[a] \notin Updating /\ UNCHANGED storeVars /\ asked[a].wf \in Workflows
        /\ \/ Moves(a, "done", rec[a])
           \/ \E l, r : Moves(a, l, r) /\ Required(a, s, l, r)
    BY <1>5, RequireEffect DEF Updating, Executing
  <2>2. CASE Moves(a, "done", rec[a])
    BY <1>3, <2>1, <2>2
  <2>3. ASSUME NEW l, NEW r, Moves(a, l, r), Required(a, s, l, r) PROVE ThreadsOk'
    <3>1. CASE l = "threadGet"
      <4>1. /\ pc'[a] = "threadGet" /\ rec'[a] = s /\ UNCHANGED content
            /\ s.status # "absent"
        BY <1>0, <2>3, <3>1 DEF Moves, Required, planVars
      <4>2. content[s.plan].wf = asked[a].wf
        BY <2>1, <4>1 DEF Control, StoreInv
      <4>3. HeldOk(a)'
        <5>1. UNCHANGED workflows
          BY <2>1 DEF storeVars
        <5>2. workflows'[content'[rec'[a].plan].wf] = rec'[a]
          BY <4>1, <4>2, <5>1
        <5> QED
          BY <1>0, <4>1, <5>2 DEF HeldOk, PlanOf, RecordOf
      <4>4. SnapshotsStay
        BY <1>2, <2>1, <2>3
      <4> QED
        BY <1>1, <2>3, <4>3, <4>4
    <3>2. CASE l # "threadGet"
      BY <1>3, <2>1, <2>3, <3>2 DEF Required
    <3> QED
      BY <3>1, <3>2
  <2> QED
    BY <2>1, <2>2, <2>3
<1>6. CASE ExchangeToken(a) \/ DispatchStep(a) \/ ReceiveReply(a) \/ EgressTimeout(a)
  <2>1. /\ UNCHANGED storeVars
        /\ \/ \E l \in Executing : Moves(a, l, rec[a])
           \/ \E st \in {"completed", "failed"} : Moves(a, "save", [rec[a] EXCEPT !.status = st])
    BY <1>6, ExchangeEffect, DispatchEffect, ReceiveEffect, TimeoutEffect DEF Executing, Failed
  <2>2. ASSUME NEW l \in Executing, Moves(a, l, rec[a]) PROVE ThreadsOk'
    BY <1>3, <2>1, <2>2 DEF Executing, Updating
  <2>3. ASSUME NEW st \in {"completed", "failed"}, Moves(a, "save", [rec[a] EXCEPT !.status = st])
        PROVE  ThreadsOk'
    <3>1. PICK r : r = [rec[a] EXCEPT !.status = st]
      OBVIOUS
    <3>2. r.plan = rec[a].plan /\ Moves(a, "save", r)
      BY <1>0, <2>3, <3>1 DEF WorkflowRecord
    <3> QED
      BY <1>3, <2>1, <3>2 DEF Updating
  <2> QED
    BY <2>1, <2>2, <2>3
<1>7. CASE SaveWorkflow(a)
  <2> DEFINE v == content[rec[a].plan].wf
             l == IF rec[a].status = "executing" THEN "exchange" ELSE "threadGet"
  <2>1. /\ UNCHANGED threads /\ v \in Workflows /\ Stores(v, rec[a]) /\ Moves(a, l, rec[a])
    BY <1>7, SaveEffect DEF Stores
  <2>2. /\ pc'[a] = l /\ rec'[a] = rec[a] /\ UNCHANGED content
    BY <1>0, <2>1 DEF Moves, planVars
  <2>3. l \in Updating
    BY DEF Updating, Executing
  <2>4. HeldOk(a)'
    <3>1. workflows'[v] = rec[a]
      BY <2>1 DEF Stores
    <3> QED
      BY <1>0, <2>2, <3>1 DEF HeldOk, PlanOf, RecordOf
  <2> HIDE DEF v, l
  <2>5. SnapshotsStay
    BY <1>0, <2>1, <2>2, <2>3, RecordWritten
  <2> QED
    BY <1>1, <2>1, <2>4, <2>5
<1>8. CASE GetThread(a)
  <2> DEFINE u == content[rec[a].plan].thread
  <2>1. /\ UNCHANGED storeVars /\ UNCHANGED content /\ pc[a] = "threadGet" /\ rec' = rec
        /\ \/ ~ThreadStored(u) /\ Moves(a, "done", rec[a])
           \/ /\ ThreadStored(u) /\ Moves(a, "threadPut", rec[a])
              /\ thr'[a] = threads[u] /\ pc'[a] = "threadPut"
    <3>1. /\ UNCHANGED storeVars /\ UNCHANGED planVars /\ UNCHANGED apprVars
          /\ pc[a] = "threadGet"
          /\ \/ ~ThreadStored(u) /\ Reply(a, Answer(a))
             \/ ThreadStored(u) /\ HoldThread(a, u)
      BY <1>8 DEF GetThread
    <3>2. \/ ~ThreadStored(u) /\ Moves(a, "done", rec[a])
          \/ ThreadStored(u) /\ Moves(a, "threadPut", rec[a])
      BY <1>0, <3>1, MoveEffect DEF apprVars
    <3> QED
      BY <1>0, <3>1, <3>2 DEF HoldThread, TypeOK, planVars, apprVars
  <2>2. CASE ~ThreadStored(u) /\ Moves(a, "done", rec[a])
    <3>1. \A t \in Threads : threads[t].workflow.plan # rec[a].plan
      <4>1. rec[a].plan # None
        BY <1>0, <2>1, NoneAssumption DEF HandlerOk, Holding, Planned
      <4> SUFFICES ASSUME NEW t \in Threads, threads[t].workflow.plan = rec[a].plan PROVE FALSE
        OBVIOUS
      <4>2. SnapshotOk(t)
        BY DEF ThreadsOk
      <4>3. u = t /\ threads[t].present
        BY <4>1, <4>2 DEF SnapshotOk, NoThread, NoWorkflow
      <4> QED
        BY <2>2, <4>3, PlanInputsAssumption DEF ThreadStored
    <3>2. SnapshotsStay
      <4>1. \A x : Planned(x) => Planned(x)' /\ content'[x] = content[x]
        BY <2>1 DEF Planned
      <4> QED
        BY <1>0, <2>1, <3>1, <4>1, SnapshotsKept DEF storeVars
    <3>3. HeldOk(a)'
      BY <1>0, <2>2 DEF Moves, HeldOk
    <3> QED
      BY <1>1, <2>2, <3>2, <3>3
  <2>3. CASE /\ ThreadStored(u) /\ Moves(a, "threadPut", rec[a])
             /\ thr'[a] = threads[u] /\ pc'[a] = "threadPut"
    <3>1. HeldOk(a)'
      BY <1>0, <2>1, <2>3 DEF HeldOk, PlanOf, RecordOf, ThreadStored, storeVars
    <3> QED
      BY <1>1, <1>2, <2>1, <2>3, <3>1 DEF Updating
  <2> QED
    BY <2>1, <2>2, <2>3
<1>9. CASE SaveThread(a)
  <2> DEFINE u == content[rec[a].plan].thread
  <2>1. /\ UNCHANGED workflows /\ UNCHANGED content
        /\ pc[a] = "threadPut" /\ pc'[a] = "done"
        /\ threads' = [threads EXCEPT ![u] = RepointedThread(a)]
        /\ Moves(a, "done", rec[a])
    <3>1. /\ UNCHANGED workflows /\ UNCHANGED planVars /\ UNCHANGED apprVars
          /\ pc[a] = "threadPut" /\ Reply(a, Answer(a))
          /\ threads' = [threads EXCEPT ![u] = RepointedThread(a)]
      BY <1>0, <1>9 DEF SaveThread, WriteThread, PlanOf, ThreadOf
    <3>2. Moves(a, "done", rec[a])
      BY <1>0, <3>1, MoveEffect DEF apprVars
    <3> QED
      BY <1>0, <3>1, <3>2 DEF Moves, planVars
  <2>2. Planned(rec[a].plan) /\ u # None
    BY <1>0, <2>1 DEF HandlerOk, Holding
  <2>3. u \in Threads
    BY <2>2, PlanInputsAssumption DEF Planned, PlanInput
  <2>4. PICK n : n = RepointedThread(a)
    OBVIOUS
  <2>5. n.workflow = rec[a] /\ n.present
    <3>1. thr[a] \in ThreadRecord
      BY <1>0 DEF TypeOK
    <3>2. n.workflow = rec[a] /\ n.present = thr[a].present
      BY <2>4, <3>1 DEF RepointedThread, ThreadRecord
    <3> QED
      BY <1>0, <2>1, <3>2 DEF HeldOk, PlanOf
  <2>6. workflows[content[rec[a].plan].wf] = rec[a]
    BY <1>0, <2>1 DEF HeldOk, PlanOf, RecordOf
  <2>7. \A t \in Threads : threads'[t] = IF t = u THEN n ELSE threads[t]
    BY <1>0, <2>1, <2>3, <2>4 DEF TypeOK
  <2>8. pc'[rec[a].plan] \in Shown
    <3>1. rec[a].plan \in Plans /\ pc[rec[a].plan] \in Shown
      BY <2>2 DEF Planned, Control, PlanInv, Shown
    <3> QED
      BY <1>0, <3>1 DEF Acts, Handlers
  <2>9. SnapshotsStay
    BY <1>0, <2>1, <2>2, <2>3, <2>5, <2>6, <2>7, <2>8, ThreadWritten
  <2>10. HeldOk(a)'
    BY <2>1 DEF HeldOk
  <2> QED
    BY <1>1, <2>1, <2>9, <2>10
<1> QED
  BY <1>4, <1>5, <1>6, <1>7, <1>8, <1>9 DEF ApproveStep

(* Without a fault only CreateThread touches, outside the requests, what a   *)
(* thread shows: a new thread is as empty as the absent one was.             *)
LEMMA ThreadsCreated ==
  ASSUME Control, ThreadsOk, NEW t \in Threads, CreateThread(t)
  PROVE  ThreadsOk'
<1>1. /\ UNCHANGED workflows /\ UNCHANGED <<pc, resp, thr, content, history, rec>>
      /\ threads' = [threads EXCEPT ![t] = [NoThread EXCEPT !.present = TRUE]]
      /\ ~threads[t].present /\ TypeOK
  BY DEF CreateThread, localVars, planVars, apprVars, Control
<1>2. threads[t] = NoThread
  BY <1>1 DEF ThreadsOk, SnapshotOk
<1>3. PICK n : n = [NoThread EXCEPT !.present = TRUE]
  OBVIOUS
<1>4. n.present /\ n.workflow = NoThread.workflow
  BY <1>3 DEF NoThread
<1>5. \A u \in Threads : /\ threads'[u].workflow = threads[u].workflow
                         /\ ~threads'[u].present => threads'[u] = threads[u] /\ ~threads[u].present
  BY <1>1, <1>2, <1>3, <1>4 DEF TypeOK
<1>6. \A u \in Threads : SnapshotOk(u)' /\ Agrees(u)'
  BY <1>1, <1>5 DEF ThreadsOk, SnapshotOk, Agrees, Planned
<1>7. ASSUME NEW p \in Plans, content[p].thread # None, pc[p] # "idle"
      PROVE  content[p].thread \in Threads
  BY <1>7, PlanInputsAssumption DEF Control, PlanInv, Planned, PlanInput
<1>8. \A h \in Handlers : HeldOk(h)'
  <2> SUFFICES ASSUME NEW h \in Handlers PROVE HeldOk(h)'
    OBVIOUS
  <2>1. HeldOk(h)
    BY DEF ThreadsOk
  <2>2. pc[h] = "threadPut" => content[PlanOf(h)].thread \in Threads
    <3>1. CASE h \in Plans
      BY <1>7, <3>1 DEF Control, PlanInv, PlanOf
    <3>2. CASE h \in Approvals
      BY <3>2, PlanInputsAssumption
      DEF Control, HandlerInv, HandlerOk, Holding, PlanOf, Planned, PlanInput
    <3> QED
      BY <3>1, <3>2 DEF Handlers
  <2>3. PlanOf(h)' = PlanOf(h) /\ RecordOf(h)' = RecordOf(h)
    BY <1>1 DEF PlanOf, RecordOf, PlannedRecord
  <2> QED
    BY <1>1, <1>5, <2>1, <2>2, <2>3 DEF HeldOk
<1> QED
  BY <1>6, <1>8 DEF ThreadsOk

(* A fault never becomes undone.                                             *)
LEMMA FaultsStay ==
  ASSUME TypeOK, [Next]_vars, faults' = 0
  PROVE  faults = 0 /\ ~Fault
<1>1. ASSUME NEW p \in Plans, StartPlan(p) \/ PlanStep(p) \/ CancelRun(p) PROVE faults' = faults
  BY <1>1
  DEF StartPlan, PlanStep, PlanUpsertSession, PlanSaveWorkflow, PlanGetThread, PlanSaveThread,
      CancelRun, envVars
<1>2. ASSUME NEW a \in Approvals, StartApprove(a) \/ ApproveStep(a) PROVE faults' = faults
  BY <1>2
  DEF StartApprove, ApproveStep, RequireWorkflow, GetAuthContext, SaveWorkflow, ExchangeToken,
      DispatchStep, ReceiveReply, EgressTimeout, GetThread, SaveThread, envVars
<1>3. ASSUME NEW a \in Approvals, EgressNext(a) PROVE faults' = faults
  BY <1>3 DEF EgressNext, envVars
<1>4. ASSUME NEW h \in Handlers, StoreFails(h) PROVE faults' = faults + 1
  BY <1>4 DEF StoreFails, Fault
<1>5. ASSUME Environment PROVE faults' = faults \/ faults' = faults + 1
  BY <1>5
  DEF Environment, RegisterTokenContext, CreateThread, Tick, Crash, ExpireKey, Fault, vars, envVars
<1>6. faults' = faults \/ faults' = faults + 1
  BY <1>1, <1>2, <1>3, <1>4, <1>5, StepKinds
<1> QED
  BY <1>6 DEF TypeOK, Fault

(* Every step keeps the threads right as long as no fault has happened.      *)
LEMMA ThreadsStep ==
  ASSUME MaxInFlight = 1, Control, Alone, SerialThreads, [Next]_vars
  PROVE  SerialThreads'
<1> SUFFICES ASSUME faults' = 0 PROVE ThreadsOk'
  BY DEF SerialThreads
<1>0. ThreadsOk /\ ~Fault
  BY FaultsStay DEF SerialThreads, Control
<1>1. ASSUME NEW p \in Plans, StartPlan(p) \/ PlanStep(p) \/ CancelRun(p) PROVE ThreadsOk'
  BY <1>0, <1>1, ThreadsPlan
<1>2. ASSUME NEW a \in Approvals, StartApprove(a) \/ ApproveStep(a) PROVE ThreadsOk'
  BY <1>0, <1>2, ThreadsApprove
<1>3. ASSUME NEW t \in Threads, CreateThread(t) PROVE ThreadsOk'
  BY <1>0, <1>3, ThreadsCreated
<1>4. ASSUME UNCHANGED <<workflows, threads, pc, resp, thr, content, history, rec>>
      PROVE  ThreadsOk'
  <2>1. \A t \in Threads : SnapshotOk(t)' /\ Agrees(t)'
    BY <1>0, <1>4 DEF ThreadsOk, SnapshotOk, Agrees, Planned
  <2>2. \A h \in Handlers : HeldOk(h)'
    BY <1>0, <1>4 DEF ThreadsOk, HeldOk, PlanOf, RecordOf, PlannedRecord
  <2> QED
    BY <2>1, <2>2 DEF ThreadsOk
<1>5. ASSUME NEW a \in Approvals, EgressNext(a) PROVE ThreadsOk'
  BY <1>4, <1>5 DEF EgressNext, storeVars, localVars, planVars, apprVars
<1>6. CASE (\E t \in TokenRefs : RegisterTokenContext(t)) \/ Tick \/ UNCHANGED vars
  BY <1>4, <1>6
  DEF RegisterTokenContext, Tick, vars, storeVars, localVars, planVars, apprVars
<1>7. ~(\E h \in Handlers : StoreFails(h)) /\ ~Crash /\ ~ExpireKey
  BY <1>0 DEF StoreFails, Crash, ExpireKey
<1> QED
  BY <1>1, <1>2, <1>3, <1>5, <1>6, <1>7, StepKinds DEF Environment

(* There is nothing to disagree about when the program starts.               *)
LEMMA ThreadsInit == Init => SerialThreads
<1> SUFFICES ASSUME Init PROVE ThreadsOk
  BY DEF SerialThreads
<1>1. \A t \in Threads : SnapshotOk(t) /\ Agrees(t)
  BY DEF Init, SnapshotOk, Agrees, NoThread, NoWorkflow
<1>2. \A h \in Handlers : HeldOk(h)
  BY DEF Init, HeldOk
<1> QED
  BY <1>1, <1>2 DEF ThreadsOk

(* The three invariants hold in every reachable state.                       *)
LEMMA ThreadsAlways ==
  ASSUME MaxInFlight = 1
  PROVE  Spec => [](Control /\ SerialThreads /\ Alone)
<1>1. Control /\ Alone /\ SerialThreads /\ [Next]_vars => SerialThreads'
  BY ThreadsStep
<1>2. IInv /\ SerialClaims => Control /\ Alone
  BY InvariantParts DEF SerialClaims, Execution, Claims
<1> QED
  BY <1>1, <1>2, ThreadsInit, SerialAlways, PTL DEF Spec

(* With requests one at a time and no fault, a thread shows, whenever no      *)
(* request runs, the workflow it names exactly as the store has it: every    *)
(* save_workflow of approve_workflow is followed by its save_thread.         *)
THEOREM ThreadsAgree ==
  ASSUME MaxInFlight = 1
  PROVE  Spec => []ThreadAgrees
<1>1. ASSUME SerialThreads PROVE ThreadAgrees
  <2> SUFFICES ASSUME InFlight = {}, NEW t \in Threads,
                      threads[t].workflow.plan # None,
                      workflows[content[threads[t].workflow.plan].wf].plan
                        = threads[t].workflow.plan,
                      faults = 0
               PROVE  workflows[content[threads[t].workflow.plan].wf] = threads[t].workflow
    BY DEF ThreadAgrees
  <2>1. Agrees(t)
    BY <1>1 DEF SerialThreads, ThreadsOk
  <2>2. \A a \in Approvals : pc[a] \notin Updating
    BY DEF InFlight, Handlers, Updating, Executing
  <2> QED
    BY <2>1, <2>2 DEF Agrees
<1> QED
  BY <1>1, ThreadsAlways, PTL

------------------------------------------------------------------------------
(* Messages.  What a step of handler h does to the threads: it writes the    *)
(* one it holds, takes hold of one, or does neither.                         *)
PutsThread(h) == WriteThread(h) /\ pc'[h] = "done"

TakesThread(h) ==
    /\ UNCHANGED threads
    /\ \E t \in Threads : thr'[h] = threads[t] /\ (content[PlanOf(h)].thread)' = t

LeavesThreads(h) == UNCHANGED threads /\ pc'[h] # "threadPut"

TouchesThreads(h) == PutsThread(h) \/ TakesThread(h) \/ LeavesThreads(h)

(* The thread a handler is about to write is a thread.                       *)
LEMMA ThreadNamed ==
  ASSUME Control, NEW h \in Handlers, pc[h] = "threadPut"
  PROVE  content[PlanOf(h)].thread \in Threads
<1>1. Planned(PlanOf(h)) /\ content[PlanOf(h)].thread # None
  BY DEF Control, PlanInv, HandlerInv, HandlerOk, Holding, PlanOf, Handlers
<1> QED
  BY <1>1, PlanInputsAssumption DEF Planned, PlanInput

(* A planning request answers 200 for a thread only when it has written it.  *)
LEMMA PlanTouches ==
  ASSUME Control, NEW p \in Plans, StartPlan(p) \/ PlanStep(p) \/ CancelRun(p)
  PROVE  /\ TouchesThreads(p)
         /\ \A q \in Plans : resp[q] # "200" /\ resp'[q] = "200" =>
              q = p /\ (PutsThread(p) \/ content[p].thread = None)
<1>0. TypeOK /\ p \in Handlers /\ Plans \subseteq Handlers
  BY DEF Control, Handlers
<1>1. CASE StartPlan(p) \/ PlanUpsertSession(p) \/ CancelRun(p)
  BY <1>0, <1>1, MoveFacts
  DEF StartPlan, PlanUpsertSession, WriteSession, CancelRun, storeVars, TouchesThreads,
      LeavesThreads
<1>2. CASE PlanSaveWorkflow(p)
  BY <1>0, <1>2, MoveFacts
  DEF PlanSaveWorkflow, WriteWorkflow, TouchesThreads, LeavesThreads
<1>3. CASE PlanGetThread(p)
  <2>1. /\ pc[p] = "threadGet" /\ UNCHANGED threads /\ UNCHANGED content
        /\ thr'[p] = threads[content[p].thread] /\ resp' = resp
    BY <1>0, <1>3 DEF PlanGetThread, HoldThread, TypeOK, storeVars, planVars
  <2>2. content[p].thread \in Threads
    BY <2>1, PlanInputsAssumption DEF Control, PlanInv, Planned, PlanInput
  <2>3. TakesThread(p)
    BY <2>1, <2>2 DEF TakesThread, PlanOf
  <2> QED
    BY <2>1, <2>3 DEF TouchesThreads
<1>4. CASE PlanSaveThread(p)
  BY <1>0, <1>4, MoveFacts DEF PlanSaveThread, TouchesThreads, PutsThread
<1> QED
  BY <1>1, <1>2, <1>3, <1>4 DEF PlanStep

(* An approval request touches the threads in its last two steps only.       *)
LEMMA ApproveTouches ==
  ASSUME Control, NEW a \in Approvals, StartApprove(a) \/ ApproveStep(a)
  PROVE  TouchesThreads(a) /\ \A q \in Plans : resp'[q] = resp[q]
<1>0. /\ TypeOK /\ a \in Handlers /\ a \notin Plans /\ HandlerOk(a)
      /\ Plans \subseteq Handlers
  BY PlanInputsAssumption DEF Control, Handlers, HandlerInv
<1>1. \A q \in Plans : resp'[q] = resp[q]
  BY <1>0, ApproveMoves DEF Moves
<1> SUFFICES TouchesThreads(a)
  BY <1>1
<1>2. ASSUME pc'[a] # "threadPut", UNCHANGED threads PROVE TouchesThreads(a)
  BY <1>2 DEF TouchesThreads, LeavesThreads
<1>3. \A l, r : Moves(a, l, r) => pc'[a] = l
  BY <1>0 DEF Moves
<1>4. CASE StartApprove(a) \/ GetAuthContext(a)
  BY <1>2, <1>3, <1>4, StartEffect, AuthEffect DEF storeVars
<1>5. CASE RequireWorkflow(a) \/ SaveWorkflow(a)
  <2>1. CASE RequireWorkflow(a)
    BY <1>2, <1>3, <2>1, RequireEffect DEF Required, storeVars
  <2>2. CASE SaveWorkflow(a)
    BY <1>2, <1>3, <2>2, SaveEffect
  <2> QED
    BY <1>5, <2>1, <2>2
<1>6. CASE ExchangeToken(a) \/ DispatchStep(a) \/ ReceiveReply(a) \/ EgressTimeout(a)
  <2>1. /\ UNCHANGED storeVars
        /\ \/ \E l \in Executing : Moves(a, l, rec[a])
           \/ \E st \in {"completed", "failed"} : Moves(a, "save", [rec[a] EXCEPT !.status = st])
    BY <1>6, ExchangeEffect, DispatchEffect, ReceiveEffect, TimeoutEffect DEF Executing, Failed
  <2> QED
    BY <1>2, <1>3, <2>1 DEF Executing, storeVars
<1>7. CASE GetThread(a)
  <2> DEFINE t == content[rec[a].plan].thread
  <2>1. CASE Reply(a, Answer(a))
    BY <1>0, <1>7, <2>1, MoveFacts DEF GetThread, storeVars, TouchesThreads, LeavesThreads
  <2>2. CASE ThreadStored(t) /\ HoldThread(a, t)
    <3>1. /\ UNCHANGED threads /\ thr'[a] = threads[t]
          /\ UNCHANGED <<content, rec>> /\ pc[a] = "threadGet"
      BY <1>0, <1>7, <2>2 DEF GetThread, HoldThread, TypeOK, storeVars, planVars, apprVars
    <3>2. t \in Threads
      BY <1>0, <2>2, <3>1, PlanInputsAssumption
      DEF ThreadStored, HandlerOk, Holding, Planned, PlanInput
    <3> QED
      BY <1>0, <3>1, <3>2 DEF TouchesThreads, TakesThread, PlanOf
  <2> QED
    BY <1>7, <2>1, <2>2 DEF GetThread
<1>8. CASE SaveThread(a)
  BY <1>0, <1>8, MoveFacts DEF SaveThread, TouchesThreads, PutsThread
<1> QED
  BY <1>4, <1>5, <1>6, <1>7, <1>8 DEF ApproveStep

(* A failing store command may have written the thread; it answers 500.      *)
LEMMA FailureTouches ==
  ASSUME Control, Alone, NEW h \in Handlers, StoreFails(h)
  PROVE  TouchesThreads(h) /\ Acts(h) /\ \A q \in Plans : resp'[q] # resp[q] => resp'[q] = "500"
<1>1. /\ pc[h] \notin {"idle", "done"} /\ pc'[h] = "done"
      /\ \A g \in Handlers \ {h} : pc'[g] = pc[g]
      /\ \A q \in Plans : resp'[q] # resp[q] => resp'[q] = "500"
  BY StoreFailsEffect DEF Handlers
<1>2. UNCHANGED threads \/ WriteThread(h)
  BY DEF StoreFails, WriteSession, WriteWorkflow, storeVars
<1> QED
  BY <1>1, <1>2 DEF Acts, InFlight, TouchesThreads, PutsThread, LeavesThreads

(* Nobody else takes hold of a thread; keys may vanish, threads be created.  *)
ThreadsUntouched ==
    /\ \A t \in Threads :
         \/ threads'[t] \in {threads[t], NoThread}
         \/ ~threads[t].present /\ threads'[t].present /\ threads'[t].msgs = {}
    /\ \A h \in Handlers : pc'[h] = "threadPut" => pc[h] = "threadPut" /\ thr'[h] = thr[h]
    /\ UNCHANGED <<content, rec>>
    /\ \A q \in Plans : resp'[q] # resp[q] => resp'[q] = "lost"

LEMMA OthersTouch ==
  ASSUME Control, Environment \/ \E a \in Approvals : EgressNext(a)
  PROVE  ThreadsUntouched
<1>0. TypeOK
  BY DEF Control
<1>1. CASE \E a \in Approvals : EgressNext(a)
  BY <1>1 DEF EgressNext, storeVars, localVars, planVars, apprVars, ThreadsUntouched
<1>2. CASE Environment
  <2>1. UNCHANGED <<content, rec>> /\ \A q \in Plans : resp'[q] # resp[q] => resp'[q] = "lost"
    BY <1>2, EnvironmentEffect DEF planVars, apprVars, Handlers
  <2>2. \A h \in Handlers : pc'[h] = "threadPut" => pc[h] = "threadPut" /\ thr'[h] = thr[h]
    <3>1. CASE Crash
      BY <3>1 DEF Crash, InFlight
    <3>2. CASE ~Crash
      BY <1>2, <3>2
      DEF Environment, RegisterTokenContext, CreateThread, Tick, ExpireKey, vars, localVars
    <3> QED
      BY <3>1, <3>2
  <2>3. ASSUME NEW t \in Threads
        PROVE  \/ threads'[t] \in {threads[t], NoThread}
               \/ ~threads[t].present /\ threads'[t].present /\ threads'[t].msgs = {}
    <3>1. CASE ExpireKey
      BY <1>0, <3>1 DEF ExpireKey, TypeOK
    <3>2. ASSUME NEW u \in Threads, CreateThread(u)
          PROVE  \/ threads'[t] = threads[t]
                 \/ ~threads[t].present /\ threads'[t].present /\ threads'[t].msgs = {}
      <4>1. /\ ~threads[u].present
            /\ threads' = [threads EXCEPT ![u] = [NoThread EXCEPT !.present = TRUE]]
        BY <3>2 DEF CreateThread
      <4>2. LET n == [NoThread EXCEPT !.present = TRUE] IN n.present /\ n.msgs = {}
        BY DEF NoThread
      <4> QED
        BY <1>0, <4>1, <4>2 DEF TypeOK
    <3>3. CASE UNCHANGED threads
      BY <3>3
    <3> QED
      BY <1>2, <3>1, <3>2, <3>3
      DEF Environment, RegisterTokenContext, Tick, Crash, vars, storeVars
  <2> QED
    BY <2>1, <2>2, <2>3 DEF ThreadsUntouched
<1> QED
  BY <1>1, <1>2

(* The thread a handler writes is whole, and keeps what it holds unless a    *)
(* client's own history says otherwise.                                      *)
LEMMA PutMessages ==
  ASSUME Control, ThreadHeld, NEW h \in Handlers, PutsThread(h), NEW t \in Threads
  PROVE  /\ Whole(threads'[t])
         /\ \/ threads[t].msgs \subseteq threads'[t].msgs
            \/ /\ h \in Plans /\ content[h].thread = t /\ history[h].sent
               /\ history[h].runs \subseteq threads'[t].msgs
         /\ h \in Plans /\ content[h].thread = t => Said(h) \subseteq threads'[t].msgs
<1> DEFINE u == content[PlanOf(h)].thread
<1>0. TypeOK /\ pc[h] = "threadPut" /\ u \in Threads
  BY ThreadNamed DEF Control, PutsThread, WriteThread
<1>1. Whole(thr[h]) /\ threads[u].msgs \subseteq thr[h].msgs /\ Whole(threads[t])
  BY <1>0 DEF ThreadHeld
<1>2. threads'[t] = IF t = u THEN ThreadOf(h) ELSE threads[t]
  BY <1>0 DEF PutsThread, WriteThread, TypeOK
<1>3. CASE h \in Plans
  <2>1. PlanOf(h) = h /\ ThreadOf(h) = PlannedThread(h)
    BY <1>3 DEF PlanOf, ThreadOf
  <2>2. /\ PlannedThread(h).present
        /\ PlannedThread(h).msgs =
             (IF history[h].sent THEN history[h].runs ELSE thr[h].msgs) \cup Said(h)
    BY DEF PlannedThread
  <2> QED
    BY <1>1, <1>2, <1>3, <2>1, <2>2 DEF Whole
<1>4. CASE h \notin Plans
  <2>1. h \in Approvals /\ thr[h] \in ThreadRecord /\ ThreadOf(h) = RepointedThread(h)
    BY <1>0, <1>4 DEF Handlers, TypeOK, ThreadOf
  <2>2. /\ RepointedThread(h).present = thr[h].present
        /\ RepointedThread(h).msgs = thr[h].msgs
    BY <2>1 DEF RepointedThread, ThreadRecord
  <2> QED
    BY <1>1, <1>2, <1>4, <2>1, <2>2 DEF Whole
<1> QED
  BY <1>3, <1>4

(* With requests one at a time, whoever holds a thread holds all of it.      *)
LEMMA HeldStep ==
  ASSUME MaxInFlight = 1, Control, Alone, ThreadHeld, [Next]_vars
  PROVE  ThreadHeld'
<1>1. ASSUME NEW h \in Handlers, Acts(h), TouchesThreads(h) PROVE ThreadHeld'
  <2>1. \A t \in Threads : Whole(threads'[t])
    BY <1>1, PutMessages DEF ThreadHeld, TouchesThreads, TakesThread, LeavesThreads
  <2>2. \A g \in Handlers \ {h} : pc'[g] # "threadPut"
    BY <1>1 DEF Acts, Alone, InFlight
  <2>3. pc'[h] = "threadPut" =>
          /\ Whole(thr'[h])
          /\ threads'[(content[PlanOf(h)].thread)'].msgs \subseteq thr'[h].msgs
    BY <1>1 DEF ThreadHeld, TouchesThreads, PutsThread, TakesThread, LeavesThreads
  <2> QED
    BY <2>1, <2>2, <2>3 DEF ThreadHeld
<1>2. ASSUME NEW p \in Plans, StartPlan(p) \/ PlanStep(p) \/ CancelRun(p) PROVE ThreadHeld'
  BY <1>1, <1>2, PlanActs, PlanTouches DEF Handlers
<1>3. ASSUME NEW a \in Approvals, StartApprove(a) \/ ApproveStep(a) PROVE ThreadHeld'
  BY <1>1, <1>3, ApproveActs, ApproveTouches DEF Handlers
<1>4. ASSUME NEW h \in Handlers, StoreFails(h) PROVE ThreadHeld'
  BY <1>1, <1>4, FailureTouches
<1>5. ASSUME ThreadsUntouched PROVE ThreadHeld'
  <2>1. NoThread.msgs = {}
    BY DEF NoThread
  <2>2. \A t \in Threads :
          Whole(threads'[t]) /\ (threads'[t].msgs = {} \/ threads'[t] = threads[t])
    BY <1>5, <2>1 DEF ThreadsUntouched, ThreadHeld, Whole
  <2>3. ASSUME NEW h \in Handlers, pc'[h] = "threadPut"
        PROVE  Whole(thr'[h]) /\ threads'[content'[PlanOf(h)'].thread].msgs \subseteq thr'[h].msgs
    <3>1. /\ pc[h] = "threadPut" /\ thr'[h] = thr[h]
          /\ PlanOf(h)' = PlanOf(h) /\ content' = content
      BY <1>5, <2>3 DEF ThreadsUntouched, PlanOf
    <3>2. content[PlanOf(h)].thread \in Threads
      BY <3>1, ThreadNamed
    <3> QED
      BY <2>2, <3>1, <3>2 DEF ThreadHeld
  <2> QED
    BY <2>2, <2>3 DEF ThreadHeld
<1> QED
  BY <1>2, <1>3, <1>4, <1>5, OthersTouch, StepKinds

(* At the start no thread holds anything.                                    *)
LEMMA HeldAlways ==
  ASSUME MaxInFlight = 1
  PROVE  Spec => [](Control /\ Alone /\ ThreadHeld)
<1>1. Init => ThreadHeld
  BY DEF Init, ThreadHeld, Whole, NoThread
<1>2. Control /\ Alone /\ ThreadHeld /\ [Next]_vars => ThreadHeld'
  BY HeldStep
<1>3. IInv /\ SerialClaims => Control /\ Alone
  BY InvariantParts DEF SerialClaims, Execution, Claims
<1> QED
  BY <1>1, <1>2, <1>3, SerialAlways, PTL DEF Spec

(* With requests one at a time, under every fault and whatever messages the  *)
(* clients send, an answered run that said something has its message in its  *)
(* thread, and no message leaves a thread but with the key itself or by a    *)
(* client's own history: neither the thread rebuilt around a new plan nor    *)
(* the copy re-pointed by an approval ever drops one.                        *)
THEOREM MessagesStay ==
  ASSUME MaxInFlight = 1
  PROVE  Spec => MessagesKept
<1> DEFINE Kept(t, p) ==
      /\ p \in threads[t].msgs =>
           p \in threads'[t].msgs \/ ~threads'[t].present \/ LeftOut(p, t)
      /\ resp[p] # "200" /\ resp'[p] = "200" /\ content[p].thread = t =>
           Said(p) \subseteq threads'[t].msgs
    Keeps == \A t \in Threads, p \in Plans : Kept(t, p)
<1>1. ASSUME Control, Alone, ThreadHeld, [Next]_vars PROVE Keeps
  <2> SUFFICES ASSUME NEW t \in Threads, NEW p \in Plans
               PROVE  Kept(t, p)
    OBVIOUS
  <2>0. t # None /\ p \in Handlers
    BY PlanInputsAssumption DEF Handlers
  <2>1. ASSUME NEW h \in Handlers, TouchesThreads(h), p \in threads[t].msgs
        PROVE  p \in threads'[t].msgs \/ LeftOut(p, t)
    <3>1. CASE PutsThread(h)
      <4>1. pc[h] = "threadPut" /\ pc'[h] = "done"
        BY <3>1 DEF PutsThread, WriteThread
      <4>2. \/ threads[t].msgs \subseteq threads'[t].msgs
            \/ /\ h \in Plans /\ content[h].thread = t /\ history[h].sent
               /\ history[h].runs \subseteq threads'[t].msgs
        BY <1>1, <3>1, PutMessages
      <4> QED
        BY <2>1, <4>1, <4>2 DEF LeftOut
    <3>2. CASE UNCHANGED threads
      BY <2>1, <3>2
    <3> QED
      BY <2>1, <3>1, <3>2 DEF TouchesThreads, TakesThread, LeavesThreads
  <2>2. ASSUME NEW q \in Plans, StartPlan(q) \/ PlanStep(q) \/ CancelRun(q) PROVE Kept(t, p)
    <3>1. TouchesThreads(q) /\ q \in Handlers
      BY <1>1, <2>2, PlanTouches DEF Handlers
    <3>2. ASSUME resp[p] # "200", resp'[p] = "200", content[p].thread = t
          PROVE  Said(p) \subseteq threads'[t].msgs
      <4>1. PutsThread(p)
        BY <1>1, <2>0, <2>2, <3>2, PlanTouches
      <4> QED
        BY <1>1, <2>0, <3>2, <4>1, PutMessages
    <3> QED
      BY <2>1, <3>1, <3>2
  <2>3. ASSUME NEW a \in Approvals, StartApprove(a) \/ ApproveStep(a) PROVE Kept(t, p)
    BY <1>1, <2>1, <2>3, ApproveTouches DEF Handlers
  <2>4. ASSUME NEW h \in Handlers, StoreFails(h) PROVE Kept(t, p)
    BY <1>1, <2>1, <2>4, FailureTouches
  <2>5. ASSUME ThreadsUntouched PROVE Kept(t, p)
    <3>1. ~NoThread.present
      BY DEF NoThread
    <3>2. Whole(threads[t])
      BY <1>1 DEF ThreadHeld
    <3> QED
      BY <2>5, <3>1, <3>2 DEF ThreadsUntouched, Whole
  <2> QED
    BY <1>1, <2>2, <2>3, <2>4, <2>5, OthersTouch, StepKinds
<1>2. [][Keeps]_vars <=> MessagesKept
  BY DEF MessagesKept
<1> QED
  BY <1>1, <1>2, HeldAlways, PTL DEF Spec
===============================================================================
