-------------------------- MODULE AgentServiceProofs --------------------------
(*****************************************************************************)
(* Types, control and claims of AgentService, for every number of plans and *)
(* approvals: what each step does to the fields an invariant reads, and     *)
(* which of the requests about a plan may still act on it.                  *)
(*****************************************************************************)
EXTENDS AgentServiceInvariant, TLAPS

Control == TypeOK /\ PlanInv /\ StoreInv /\ HandlerInv

(* The missing record and the missing thread have their types.              *)
LEMMA NullTypes == NoWorkflow \in WorkflowRecord /\ NoThread \in ThreadRecord
  BY DEF NoWorkflow, WorkflowRecord, NoThread, ThreadRecord

(* A move of a handler keeps the types of what it moves.                    *)
LEMMA MoveTypes ==
  ASSUME TypeOK, NEW h \in Handlers
  PROVE  /\ \A l \in PCs : Goto(h, l) =>
              pc' \in [Handlers -> PCs] /\ resp' \in [Handlers -> Answers]
                /\ thr' \in [Handlers -> ThreadRecord]
         /\ \A c \in Answers : Reply(h, c) =>
              pc' \in [Handlers -> PCs] /\ resp' \in [Handlers -> Answers]
                /\ thr' \in [Handlers -> ThreadRecord]
         /\ \A t \in Threads : HoldThread(h, t) =>
              pc' \in [Handlers -> PCs] /\ resp' \in [Handlers -> Answers]
                /\ thr' \in [Handlers -> ThreadRecord]
  BY NullTypes DEF TypeOK, Goto, Reply, HoldThread, PCs

(* What a planning request writes has its type.                             *)
LEMMA PlannedTypes ==
  ASSUME TypeOK, NEW p \in Plans
  PROVE  PlannedRecord(p) \in WorkflowRecord /\ PlannedThread(p) \in ThreadRecord
  <1>1. PlannedRecord(p) \in WorkflowRecord
    BY DEF PlannedRecord, WorkflowRecord, Pending
  <1>2. thr[p] \in ThreadRecord /\ history[p] \in History
    BY DEF TypeOK, Handlers
  <1>3. thr[p].msgs \subseteq Plans /\ history[p].runs \subseteq Plans /\ Said(p) \subseteq Plans
    BY <1>2 DEF ThreadRecord, History, Said
  <1>. QED
    BY <1>1, <1>3 DEF PlannedThread, ThreadRecord

(* What any handler writes has its type.                                    *)
LEMMA RecordTypes ==
  ASSUME TypeOK, NEW h \in Handlers
  PROVE  RecordOf(h) \in WorkflowRecord /\ ThreadOf(h) \in ThreadRecord
  <1>1. CASE h \in Plans
    BY <1>1, PlannedTypes DEF RecordOf, ThreadOf
  <1>2. CASE h \notin Plans
    <2>1. rec[h] \in WorkflowRecord /\ thr[h] \in ThreadRecord
      BY <1>2 DEF TypeOK, Handlers
    <2>2. RepointedThread(h) \in ThreadRecord
      BY <2>1 DEF RepointedThread, ThreadRecord
    <2>. QED
      BY <1>2, <2>1, <2>2 DEF RecordOf, ThreadOf
  <1>. QED
    BY <1>1, <1>2

(* The three store writes keep the types of the store.                      *)
LEMMA WriteTypes ==
  ASSUME Control, NEW h \in Handlers,
         WriteSession(h) \/ WriteWorkflow(h) \/ WriteThread(h)
  PROVE  /\ workflows' \in [Workflows -> WorkflowRecord]
         /\ threads' \in [Threads -> ThreadRecord]
         /\ tokens' \subseteq TokenRefs
         /\ session' \in TokenRefs \cup {None}
         /\ claimed' \subseteq Approvals
  <1>0. TypeOK
    BY DEF Control
  <1>1. CASE WriteSession(h)
    <2>1. h \in Plans /\ content[h] \in PlanInputs
      BY <1>1 DEF Control, WriteSession, PlanInv, HandlerInv, HandlerOk, Handlers, Planned
    <2>2. content[h].token \in TokenRefs \cup {None}
      BY <2>1, PlanInputsAssumption DEF PlanInput
    <2>. QED
      BY <1>0, <1>1, <2>2 DEF TypeOK, WriteSession
  <1>2. CASE WriteWorkflow(h)
    <2>1. RecordOf(h).status = "executing" => h \in Approvals
      BY DEF RecordOf, PlannedRecord, Handlers
    <2>. QED
      BY <1>0, <1>2, <2>1, RecordTypes DEF TypeOK, WriteWorkflow
  <1>3. CASE WriteThread(h)
    BY <1>0, <1>3, RecordTypes DEF TypeOK, WriteThread
  <1>. QED
    BY <1>1, <1>2, <1>3

(* An approval past its start names a known workflow and plan.              *)
LEMMA HandlerReads ==
  ASSUME Control, NEW a \in Approvals
  PROVE  /\ pc[a] # "idle" => asked[a].wf \in Workflows /\ asked[a].hash \in Plans
         /\ pc[a] # "idle" => workflows[asked[a].wf] \in WorkflowRecord
         /\ rec[a] \in WorkflowRecord
  BY DEF Control, TypeOK, HandlerInv, HandlerOk, ApprovalRequest

(* The steps of a planning request keep the types.                          *)
LEMMA TypePlan ==
  ASSUME Control, NEW p \in Plans, StartPlan(p) \/ PlanStep(p) \/ CancelRun(p)
  PROVE  TypeOK'
  <1>0. TypeOK /\ p \in Handlers
    BY DEF Control, Handlers
  <1>1. CASE StartPlan(p)
    <2>1. ASSUME NEW t, NEW m \in Histories(t) PROVE m \in History
      <3>1. NoHistory \in History /\ RunsOf(t) \subseteq Plans
        BY DEF NoHistory, History, RunsOf
      <3>2. CASE m # NoHistory
        <4>1. PICK S \in SUBSET RunsOf(t) : m = [sent |-> TRUE, runs |-> S]
          BY <2>1, <3>2 DEF Histories
        <4>. QED
          BY <3>1, <4>1 DEF History
      <3>. QED
        BY <3>1, <3>2
    <2>. QED
      BY <1>0, <1>1, <2>1, MoveTypes
      DEF TypeOK, EgressTypeOK, StartPlan, PCs, envVars, egressVars, storeVars, apprVars
  <1>2. CASE PlanUpsertSession(p)
    BY <1>0, <1>2, MoveTypes, WriteTypes
    DEF TypeOK, EgressTypeOK, PlanUpsertSession, PCs, envVars, egressVars, planVars, apprVars
  <1>3. CASE PlanSaveWorkflow(p)
    BY <1>0, <1>3, MoveTypes, WriteTypes
    DEF TypeOK, EgressTypeOK, PlanSaveWorkflow, PCs, Answers, envVars, egressVars,
        planVars, apprVars
  <1>4. CASE PlanGetThread(p)
    <2>1. content[p].thread \in Threads
      BY <1>4, PlanInputsAssumption DEF Control, PlanInv, Planned, PlanGetThread, PlanInput
    <2>. QED
      BY <1>0, <1>4, <2>1, MoveTypes
      DEF TypeOK, EgressTypeOK, PlanGetThread, envVars, egressVars, storeVars, planVars,
          apprVars
  <1>5. CASE PlanSaveThread(p)
    BY <1>0, <1>5, MoveTypes, WriteTypes
    DEF TypeOK, EgressTypeOK, PlanSaveThread, Answers, envVars, egressVars, planVars,
        apprVars
  <1>6. CASE CancelRun(p)
    BY <1>0, <1>6, MoveTypes
    DEF TypeOK, EgressTypeOK, CancelRun, Answers, envVars, egressVars, storeVars,
        planVars, apprVars
  <1>. QED
    BY <1>1, <1>2, <1>3, <1>4, <1>5, <1>6 DEF PlanStep

(* The steps of an approval request keep the types.                         *)
LEMMA TypeApprove ==
  ASSUME Control, NEW a \in Approvals, StartApprove(a) \/ ApproveStep(a)
  PROVE  TypeOK'
  <1>0. TypeOK /\ a \in Handlers
    BY DEF Control, Handlers
  <1>1. CASE StartApprove(a)
    BY <1>0, <1>1, MoveTypes
    DEF TypeOK, EgressTypeOK, StartApprove, PCs, envVars, egressVars, storeVars, planVars
  <1>2. CASE RequireWorkflow(a)
    <2>1. workflows[asked[a].wf] \in WorkflowRecord
      BY <1>2, HandlerReads DEF RequireWorkflow
    <2>2. [workflows[asked[a].wf] EXCEPT !.status = "cancelled"] \in WorkflowRecord
      BY <2>1 DEF WorkflowRecord, Settled
    <2>3. rec' \in [Approvals -> WorkflowRecord]
      BY <1>0, <1>2, <2>1, <2>2 DEF TypeOK, RequireWorkflow
    <2>4. /\ pc' \in [Handlers -> PCs] /\ resp' \in [Handlers -> Answers]
          /\ thr' \in [Handlers -> ThreadRecord]
      BY <1>0, <1>2, MoveTypes DEF RequireWorkflow, PCs, Answers
    <2>. QED
      BY <1>0, <1>2, <2>3, <2>4
      DEF TypeOK, EgressTypeOK, RequireWorkflow, envVars, egressVars, storeVars, planVars
  <1>3. CASE GetAuthContext(a)
    <2>1. now + ApprovalTTL \in Nat
      BY <1>0, BoundsAssumption DEF TypeOK
    <2>2. [rec[a] EXCEPT !.status = "executing", !.approval = a] \in WorkflowRecord
      BY HandlerReads DEF WorkflowRecord, Settled
    <2>3. rec' \in [Approvals -> WorkflowRecord] /\ expires' \in [Approvals -> Nat]
      BY <1>0, <1>3, <2>1, <2>2 DEF TypeOK, GetAuthContext
    <2>. QED
      BY <1>0, <1>3, <2>3, MoveTypes
      DEF TypeOK, EgressTypeOK, GetAuthContext, PCs, Answers, envVars, egressVars,
          storeVars, planVars
  <1>4. CASE SaveWorkflow(a)
    BY <1>0, <1>4, MoveTypes, WriteTypes
    DEF TypeOK, EgressTypeOK, SaveWorkflow, PCs, envVars, egressVars, planVars, apprVars
  <1>f. Fail(a) => /\ rec' \in [Approvals -> WorkflowRecord]
                   /\ pc' \in [Handlers -> PCs] /\ resp' \in [Handlers -> Answers]
                   /\ thr' \in [Handlers -> ThreadRecord]
    <2>1. [rec[a] EXCEPT !.status = "failed"] \in WorkflowRecord
      BY HandlerReads DEF WorkflowRecord, Settled
    <2>. QED
      BY <1>0, <2>1, MoveTypes DEF TypeOK, Fail, PCs
  <1>5. CASE ExchangeToken(a)
    <2>1. /\ rec' \in [Approvals -> WorkflowRecord]
          /\ pc' \in [Handlers -> PCs] /\ resp' \in [Handlers -> Answers]
          /\ thr' \in [Handlers -> ThreadRecord]
      BY <1>0, <1>5, <1>f, MoveTypes DEF TypeOK, ExchangeToken, PCs
    <2>2. scopes' \in [Approvals -> SUBSET Scopes] /\ next' \in [Approvals -> Nat]
      BY <1>0, <1>5 DEF TypeOK, ExchangeToken
    <2>. QED
      BY <1>0, <1>5, <2>1, <2>2
      DEF TypeOK, EgressTypeOK, ExchangeToken, envVars, egressVars, storeVars, planVars
  <1>6. CASE DispatchStep(a)
    <2>1. /\ rec' \in [Approvals -> WorkflowRecord]
          /\ pc' \in [Handlers -> PCs] /\ resp' \in [Handlers -> Answers]
          /\ thr' \in [Handlers -> ThreadRecord]
      <3>1. [rec[a] EXCEPT !.status = "completed"] \in WorkflowRecord
        BY HandlerReads DEF WorkflowRecord, Settled
      <3>. QED
        BY <1>0, <1>6, <1>f, <3>1, MoveTypes DEF TypeOK, DispatchStep, PCs
    <2>2. wire' \in [Approvals -> Message]
      <3>1. CASE UNCHANGED wire
        BY <1>0, <3>1 DEF TypeOK, EgressTypeOK
      <3>2. CASE wire # wire'
        <4> DEFINE steps == content[rec[a].plan].steps
                   s == steps[next[a]]
        <4>1. steps \in Seq(Step)
          BY <1>6, PlanInputsAssumption
          DEF Control, HandlerInv, HandlerOk, Planned, Holding, Executing, DispatchStep, PlanInput
        <4>2. wire' = [wire EXCEPT ![a] = EgressRequest(a, s)] /\ next[a] <= Len(steps)
              /\ s.mcp
          BY <1>6, <3>2 DEF DispatchStep
        <4>3. next[a] \in 1 .. Len(steps)
          BY <1>0, <1>6, <4>1, <4>2 DEF TypeOK, Control, HandlerInv, HandlerOk, DispatchStep
        <4>4. s \in Step
          BY <4>1, <4>3
        <4>5. EgressRequest(a, s) \in Message
          <5>1. rec[a].plan \in Plans /\ next[a] \in Nat /\ s.scopes \subseteq Scopes
            BY <1>0, <1>6, <4>4
            DEF TypeOK, Control, HandlerInv, HandlerOk, Planned, Holding, Executing, DispatchStep, Step
          <5>2. scopes[a] \subseteq Scopes /\ expires[a] \in Nat /\ now + ContextTTL \in Nat
            BY <1>0, BoundsAssumption DEF TypeOK
          <5>. QED
            BY <5>1, <5>2 DEF EgressRequest, Message
        <4>. QED
          BY <1>0, <4>2, <4>5 DEF TypeOK, EgressTypeOK
      <3>. QED
        BY <3>1, <3>2
    <2>. QED
      BY <1>0, <1>6, <2>1, <2>2
      DEF TypeOK, EgressTypeOK, DispatchStep, envVars, storeVars, planVars
  <1>7. CASE ReceiveReply(a)
    <2>1. NoMessage \in Message
      BY DEF NoMessage, Message
    <2>2. /\ rec' \in [Approvals -> WorkflowRecord]
          /\ pc' \in [Handlers -> PCs] /\ resp' \in [Handlers -> Answers]
          /\ thr' \in [Handlers -> ThreadRecord]
      BY <1>0, <1>7, <1>f, MoveTypes DEF TypeOK, ReceiveReply, PCs
    <2>3. wire' \in [Approvals -> Message]
      BY <1>0, <1>7, <2>1 DEF TypeOK, EgressTypeOK, ReceiveReply
    <2>4. next' \in [Approvals -> Nat]
      <3>1. next \in [Approvals -> Nat] /\ next[a] + 1 \in Nat
        BY <1>0 DEF TypeOK
      <3>. QED
        BY <1>7, <3>1 DEF ReceiveReply
    <2>. QED
      BY <1>0, <1>7, <2>2, <2>3, <2>4
      DEF TypeOK, EgressTypeOK, ReceiveReply, envVars, storeVars, planVars
  <1>8. CASE EgressTimeout(a)
    BY <1>0, <1>8, <1>f
    DEF TypeOK, EgressTypeOK, EgressTimeout, envVars, egressVars, storeVars, planVars
  <1>9. CASE GetThread(a)
    <2>1. content[rec[a].plan].thread \in Threads \cup {None}
      BY <1>9, PlanInputsAssumption DEF Control, HandlerInv, HandlerOk, Planned, Holding, GetThread, PlanInput
    <2>. QED
      BY <1>0, <1>9, <2>1, MoveTypes
      DEF TypeOK, EgressTypeOK, GetThread, ThreadStored, Answer, Answers, envVars,
          egressVars, storeVars, planVars, apprVars
  <1>10. CASE SaveThread(a)
    BY <1>0, <1>10, MoveTypes, WriteTypes
    DEF TypeOK, EgressTypeOK, SaveThread, Answer, Answers, envVars, egressVars, planVars,
        apprVars
  <1>. QED
    BY <1>1, <1>2, <1>3, <1>4, <1>5, <1>6, <1>7, <1>8, <1>9, <1>10 DEF ApproveStep

(* The steps of the gateway keep the types.                                 *)
LEMMA TypeEgress ==
  ASSUME TypeOK, NEW a \in Approvals, EgressStep(a)
  PROVE  EgressTypeOK'
  <1>0. wire[a] \in Message /\ calls[a] \in Seq(Call) /\ now \in Nat
        /\ wire \in [Approvals -> Message] /\ calls \in [Approvals -> Seq(Call)]
    BY DEF TypeOK, EgressTypeOK
  <1>1. \A ok \in BOOLEAN : Executed(a, ok) \in Seq(Call)
    <2>1. \A ok \in BOOLEAN :
            [plan |-> wire[a].plan, step |-> wire[a].step, have |-> wire[a].have,
             authorized |-> wire[a].authorized, ok |-> ok] \in Call
      BY <1>0 DEF Message, Call
    <2>. QED
      BY <1>0, <2>1 DEF Executed
  <1>2. calls' \in [Approvals -> Seq(Call)]
    BY <1>0, <1>1
    DEF EgressStep, EgressRefuse, EgressAuthorize, McpCall, McpTransportFails
  <1>3. wire' \in [Approvals -> Message]
    <2>1. \A x \in {"calling", "completed", "failed", "http_error"} :
            [wire[a] EXCEPT !.st = x] \in Message
      BY <1>0 DEF Message
    <2>2. [wire[a] EXCEPT !.st = "calling", !.authorized = now] \in Message
      BY <1>0 DEF Message
    <2>. QED
      BY <1>0, <2>1, <2>2
      DEF EgressStep, EgressRefuse, EgressAuthorize, McpCall, McpTransportFails
  <1>. QED
    BY <1>2, <1>3 DEF EgressTypeOK

(* Every step keeps the types.                                              *)
LEMMA TypeStep == Control /\ [Next]_vars => TypeOK'
  <1> SUFFICES ASSUME Control, [Next]_vars PROVE TypeOK'
    OBVIOUS
  <1>0. TypeOK
    BY DEF Control
  <1>1. CASE \E p \in Plans : StartPlan(p) \/ PlanStep(p) \/ CancelRun(p)
    BY <1>1, TypePlan
  <1>2. CASE \E a \in Approvals : StartApprove(a) \/ ApproveStep(a)
    BY <1>2, TypeApprove
  <1>3. CASE \E a \in Approvals : EgressNext(a)
    BY <1>0, <1>3, TypeEgress
    DEF TypeOK, EgressNext, envVars, storeVars, localVars, planVars, apprVars
  <1>4. CASE \E t \in TokenRefs : RegisterTokenContext(t)
    BY <1>0, <1>4
    DEF TypeOK, EgressTypeOK, RegisterTokenContext, envVars, egressVars, localVars,
        planVars, apprVars
  <1>5. CASE \E t \in Threads : CreateThread(t)
    <2>1. [NoThread EXCEPT !.present = TRUE] \in ThreadRecord
      BY NullTypes DEF ThreadRecord
    <2>. QED
      BY <1>0, <1>5, <2>1
      DEF TypeOK, EgressTypeOK, CreateThread, envVars, egressVars, localVars, planVars,
          apprVars
  <1>6. CASE \E h \in Handlers : StoreFails(h)
    BY <1>0, <1>6, MoveTypes, WriteTypes
    DEF TypeOK, EgressTypeOK, StoreFails, Fault, Answers, egressVars, storeVars,
        planVars, apprVars
  <1>7. CASE Tick
    BY <1>0, <1>7
    DEF TypeOK, EgressTypeOK, Tick, egressVars, storeVars, localVars, planVars, apprVars
  <1>8. CASE Crash
    BY <1>0, <1>8, NullTypes
    DEF TypeOK, EgressTypeOK, Crash, Fault, PCs, Answers, egressVars, storeVars, planVars,
        apprVars
  <1>9. CASE ExpireKey
    <2>1. /\ workflows' \in [Workflows -> WorkflowRecord]
          /\ threads' \in [Threads -> ThreadRecord]
      BY <1>0, <1>9, NullTypes DEF TypeOK, ExpireKey
    <2>2. tokens' \subseteq TokenRefs /\ session' \in TokenRefs \cup {None}
      BY <1>0, <1>9 DEF TypeOK, ExpireKey
    <2>3. faults' \in Nat
      BY <1>0, <1>9 DEF TypeOK, ExpireKey, Fault
    <2>. QED
      BY <1>0, <1>9, <2>1, <2>2, <2>3
      DEF TypeOK, EgressTypeOK, ExpireKey, egressVars, localVars, planVars, apprVars
  <1>10. CASE UNCHANGED vars
    BY <1>0, <1>10
    DEF TypeOK, EgressTypeOK, vars, envVars, egressVars, storeVars, localVars, planVars,
        apprVars
  <1>. QED
    BY <1>1, <1>2, <1>3, <1>4, <1>5, <1>6, <1>7, <1>8, <1>9, <1>10 DEF Next, Finished

(* A move of a handler leaves pc and resp of the others alone.              *)
LEMMA MoveFacts ==
  ASSUME TypeOK, NEW h \in Handlers
  PROVE  /\ \A l : Goto(h, l) =>
              \A g \in Handlers : /\ pc'[g] = IF g = h THEN l ELSE pc[g]
                                  /\ resp'[g] = resp[g]
         /\ \A c : Reply(h, c) =>
              \A g \in Handlers : /\ pc'[g] = IF g = h THEN "done" ELSE pc[g]
                                  /\ resp'[g] = IF g = h THEN c ELSE resp[g]
         /\ \A t : HoldThread(h, t) =>
              \A g \in Handlers : /\ pc'[g] = IF g = h THEN "threadPut" ELSE pc[g]
                                  /\ resp'[g] = resp[g]
  BY DEF TypeOK, Goto, Reply, HoldThread

(* The steps of a planning request keep the control invariants.             *)
LEMMA ControlPlan ==
  ASSUME Control, NEW p \in Plans, StartPlan(p) \/ PlanStep(p) \/ CancelRun(p)
  PROVE  PlanInv' /\ StoreInv' /\ HandlerInv'
  <1>0. TypeOK /\ p \in Handlers /\ p \notin Approvals
    BY PlanInputsAssumption DEF Control, Handlers
  <1>. USE DEF Handlers
  <1>1. CASE StartPlan(p)
    <2>0. PICK q \in PlanInputs : content' = [content EXCEPT ![p] = q]
      BY <1>1 DEF StartPlan
    <2>1. /\ \A x \in Plans : content'[x] = IF x = p THEN q ELSE content[x]
          /\ UNCHANGED <<workflows, asked, rec, next>>
          /\ pc[p] = "idle" /\ ~Planned(p)
          /\ \A g \in Handlers : pc'[g] = IF g = p THEN "session" ELSE pc[g]
      BY <1>0, <1>1, <2>0, MoveFacts
      DEF StartPlan, TypeOK, storeVars, apprVars, Control, PlanInv
    <2>2. \A x : Planned(x)' <=> Planned(x) \/ x = p
      BY <2>0, <2>1 DEF Planned
    <2>3. PlanInv'
      BY <1>0, <2>1, <2>2 DEF Control, PlanInv
    <2>4. StoreInv'
      BY <1>0, <2>1, <2>2 DEF Control, StoreInv, Planned
    <2>5. HandlerInv'
      BY <1>0, <2>1, <2>2 DEF Control, HandlerInv, HandlerOk, Planned, Holding
    <2>. QED
      BY <2>3, <2>4, <2>5
  <1>2. ASSUME UNCHANGED workflows, UNCHANGED planVars, UNCHANGED apprVars,
               NEW l \in {"save", "threadGet", "threadPut", "done"},
               pc[p] # "idle",
               l = "save" => pc[p] = "session",
               l \in {"threadGet", "threadPut"} => content[p].thread # None,
               \A g \in Handlers : pc'[g] = IF g = p THEN l ELSE pc[g]
        PROVE  PlanInv' /\ StoreInv' /\ HandlerInv'
    <2>1. \A x : Planned(x)' <=> Planned(x)
      BY <1>2 DEF Planned, planVars
    <2>2. PlanInv'
      BY <1>0, <1>2, <2>1 DEF Control, PlanInv, planVars, apprVars
    <2>3. StoreInv' /\ HandlerInv'
      BY <1>0, <1>2, <2>1 DEF Control, StoreInv, HandlerInv, HandlerOk, planVars, apprVars
    <2>. QED
      BY <2>2, <2>3
  <1>3. CASE PlanUpsertSession(p)
    BY <1>0, <1>2, <1>3, MoveFacts DEF PlanUpsertSession, WriteSession
  <1>4. CASE PlanSaveWorkflow(p)
    <2>1. /\ pc[p] = "save" /\ Planned(p)
          /\ UNCHANGED <<content, asked, rec, next>>
          /\ workflows' = [workflows EXCEPT ![content[p].wf] = PlannedRecord(p)]
      BY <1>0, <1>4
      DEF PlanSaveWorkflow, WriteWorkflow, PlanOf, RecordOf, planVars, apprVars, Control,
          PlanInv
    <2>2. PICK l \in {"done", "threadGet"} :
            /\ \A g \in Handlers : pc'[g] = IF g = p THEN l ELSE pc[g]
            /\ l = "threadGet" => content[p].thread # None
      BY <1>0, <1>4, MoveFacts DEF PlanSaveWorkflow
    <2>3. /\ \A w \in Workflows : workflows'[w] =
                IF w = content[p].wf THEN PlannedRecord(p) ELSE workflows[w]
          /\ PlannedRecord(p).plan = p
      BY <1>0, <2>1 DEF TypeOK, PlannedRecord
    <2>4. \A x : Planned(x)' <=> Planned(x)
      BY <2>1 DEF Planned
    <2>5. PlanInv'
      BY <1>0, <2>1, <2>2, <2>3, <2>4 DEF Control, PlanInv
    <2>6. StoreInv' /\ HandlerInv'
      BY <1>0, <2>1, <2>2, <2>3, <2>4 DEF Control, StoreInv, HandlerInv, HandlerOk
    <2>. QED
      BY <2>5, <2>6
  <1>5. CASE PlanGetThread(p)
    BY <1>0, <1>2, <1>5, MoveFacts DEF PlanGetThread, storeVars, Control, PlanInv
  <1>6. CASE PlanSaveThread(p)
    BY <1>0, <1>2, <1>6, MoveFacts DEF PlanSaveThread, WriteThread
  <1>7. CASE CancelRun(p)
    BY <1>0, <1>2, <1>7, MoveFacts DEF CancelRun, InFlight, storeVars
  <1>. QED
    BY <1>1, <1>3, <1>4, <1>5, <1>6, <1>7 DEF PlanStep

(* A step that leaves the plans and the other handlers alone, and writes at  *)
(* most the record that approval a holds.                                   *)
Frame(a) ==
    /\ UNCHANGED planVars
    /\ \A g \in Handlers \ {a} : pc'[g] = pc[g]
    /\ \A b \in Approvals \ {a} :
         asked'[b] = asked[b] /\ rec'[b] = rec[b] /\ next'[b] = next[b]
    /\ rec'[a].plan = rec[a].plan \/ \E w \in Workflows :
         rec'[a].plan = workflows[w].plan
    /\ \A w \in Workflows :
         \/ workflows'[w] = workflows[w]
         \/ /\ workflows'[w] = rec[a]
            /\ Planned(rec[a].plan) /\ w = content[rec[a].plan].wf

(* Such a step keeps the invariants if it keeps those of a.                  *)
LEMMA ControlFrame ==
  ASSUME Control, NEW a \in Approvals, Frame(a), HandlerOk(a)'
  PROVE  PlanInv' /\ StoreInv' /\ HandlerInv'
  <1>0. TypeOK /\ a \in Handlers /\ Plans \cap Approvals = {}
    BY PlanInputsAssumption DEF Control, Handlers
  <1>1. \A x : Planned(x)' <=> Planned(x)
    BY DEF Planned, planVars, Frame
  <1>2. PlanInv'
    BY <1>0, <1>1 DEF Control, PlanInv, planVars, Handlers, Frame
  <1>3. StoreInv'
    BY <1>1 DEF Control, StoreInv, planVars, Frame
  <1>4. HandlerInv'
    BY <1>0, <1>1 DEF Control, HandlerInv, HandlerOk, planVars, Handlers, Frame
  <1>. QED
    BY <1>2, <1>3, <1>4

(* The steps of an approval request keep the control invariants.            *)
LEMMA ControlApprove ==
  ASSUME Control, NEW a \in Approvals, StartApprove(a) \/ ApproveStep(a)
  PROVE  PlanInv' /\ StoreInv' /\ HandlerInv'
  <1>0. TypeOK /\ a \in Handlers /\ HandlerOk(a)
    BY DEF Control, Handlers, HandlerInv
  <1>1. CASE StartApprove(a)
    <2>1. /\ UNCHANGED planVars /\ UNCHANGED <<workflows, rec, next>>
          /\ \A g \in Handlers : pc'[g] = IF g = a THEN "require" ELSE pc[g]
          /\ \A b \in Approvals \ {a} : asked'[b] = asked[b]
          /\ asked'[a] \in ApprovalRequest
      BY <1>0, <1>1, MoveFacts DEF StartApprove, TypeOK, storeVars
    <2>2. HandlerOk(a)'
      BY <1>0, <2>1 DEF HandlerOk, Holding, Executing
    <2>3. Frame(a)
      BY <2>1 DEF Frame
    <2>. QED
      BY <2>2, <2>3, ControlFrame
  <1>2. CASE RequireWorkflow(a)
    <2> DEFINE r == workflows[asked[a].wf]
    <2>1. /\ UNCHANGED planVars /\ UNCHANGED <<workflows, asked, next>>
          /\ asked[a] \in ApprovalRequest /\ r \in WorkflowRecord
      BY <1>0, <1>2, HandlerReads DEF RequireWorkflow, storeVars, HandlerOk
    <2>2. PICK l \in {"done", "threadGet", "save", "authctx"} :
            /\ \A g \in Handlers : pc'[g] = IF g = a THEN l ELSE pc[g]
            /\ l = "done" => UNCHANGED rec
            /\ l # "done" => /\ r.status # "absent" /\ HashMatches(a)
                             /\ rec' = [rec EXCEPT ![a] =
                                  IF l = "save" THEN [r EXCEPT !.status = "cancelled"]
                                                ELSE r]
            /\ l = "authctx" => asked[a].approved
      <3>1. \A l : Goto(a, l) =>
              \A g \in Handlers : pc'[g] = IF g = a THEN l ELSE pc[g]
        BY <1>0, MoveFacts
      <3>2. \A c : Reply(a, c) =>
              \A g \in Handlers : pc'[g] = IF g = a THEN "done" ELSE pc[g]
        BY <1>0, MoveFacts
      <3>3. CASE UNCHANGED rec /\ \E c : Reply(a, c)
        BY <3>2, <3>3
      <3>4. CASE /\ r.status # "absent" /\ HashMatches(a)
                 /\ rec' = [rec EXCEPT ![a] = r] /\ Goto(a, "threadGet")
        BY <3>1, <3>4
      <3>5. CASE /\ r.status # "absent" /\ HashMatches(a)
                 /\ rec' = [rec EXCEPT ![a] = [r EXCEPT !.status = "cancelled"]]
                 /\ Goto(a, "save")
        BY <3>1, <3>5
      <3>6. CASE /\ r.status # "absent" /\ HashMatches(a) /\ asked[a].approved
                 /\ rec' = [rec EXCEPT ![a] = r] /\ Goto(a, "authctx")
        BY <3>1, <3>6
      <3>. QED
        BY <1>2, <3>3, <3>4, <3>5, <3>6 DEF RequireWorkflow
    <2>3. \A b \in Approvals \ {a} : rec'[b] = rec[b]
      BY <1>0, <2>2 DEF TypeOK
    <2>4. l # "done" => /\ rec'[a].plan = r.plan /\ Planned(r.plan)
                        /\ r.plan = asked[a].hash
                        /\ l = "save" => rec'[a].status = "cancelled"
      BY <1>0, <2>1, <2>2
      DEF TypeOK, WorkflowRecord, HashMatches, Control, StoreInv, ApprovalRequest
    <2>5. HandlerOk(a)'
      BY <1>0, <2>1, <2>2, <2>4
      DEF HandlerOk, Holding, Executing, Settled, Planned, planVars
    <2>6. rec'[a].plan = rec[a].plan \/ \E w \in Workflows :
             rec'[a].plan = workflows[w].plan
      BY <2>1, <2>2, <2>4 DEF ApprovalRequest
    <2>7. Frame(a)
      BY <2>1, <2>2, <2>3, <2>6 DEF Frame
    <2>. QED
      BY <2>5, <2>7, ControlFrame
  (* The other steps start from a held record and keep its plan.              *)
  <1>3. ASSUME pc[a] \in Holding, UNCHANGED <<planVars, workflows, asked>>,
               NEW l \in Holding \cup {"done"},
               l \in Executing => pc[a] \in Executing \cup {"authctx"},
               l = "threadPut" => content[rec[a].plan].thread # None,
               l = "save" => rec'[a].status \in Settled,
               l = "save" => pc[a] \in Executing \cup {"authctx"},
               l = "dispatch" => next'[a] > 0,
               l # "authctx",
               \A g \in Handlers : pc'[g] = IF g = a THEN l ELSE pc[g],
               \A b \in Approvals \ {a} : rec'[b] = rec[b] /\ next'[b] = next[b],
               rec'[a].plan = rec[a].plan
        PROVE  PlanInv' /\ StoreInv' /\ HandlerInv'
    <2>1. Frame(a)
      BY <1>3 DEF Frame
    <2>2. HandlerOk(a)'
      BY <1>0, <1>3 DEF HandlerOk, Holding, Executing, Planned, planVars
    <2>. QED
      BY <2>1, <2>2, ControlFrame
  <1>m. /\ \A l : Goto(a, l) =>
             \A g \in Handlers : pc'[g] = IF g = a THEN l ELSE pc[g]
        /\ \A c : Reply(a, c) =>
             \A g \in Handlers : pc'[g] = IF g = a THEN "done" ELSE pc[g]
        /\ \A t : HoldThread(a, t) =>
             \A g \in Handlers : pc'[g] = IF g = a THEN "threadPut" ELSE pc[g]
    BY <1>0, MoveFacts
  <1>r. rec[a] \in WorkflowRecord /\ rec \in [Approvals -> WorkflowRecord]
    BY <1>0 DEF TypeOK
  <1>f. Fail(a) => /\ \A g \in Handlers : pc'[g] = IF g = a THEN "save" ELSE pc[g]
                   /\ \A b \in Approvals \ {a} : rec'[b] = rec[b]
                   /\ rec'[a].plan = rec[a].plan /\ rec'[a].status \in Settled
    BY <1>m, <1>r DEF Fail, WorkflowRecord, Settled
  <1>4. CASE GetAuthContext(a)
    <2>1. pc[a] = "authctx" /\ UNCHANGED <<planVars, workflows, asked, next>>
      BY <1>4 DEF GetAuthContext, storeVars
    <2>2. CASE UNCHANGED rec /\ Reply(a, "400")
      BY <1>3, <1>m, <2>1, <2>2 DEF Holding, Executing
    <2>3. CASE /\ rec' = [rec EXCEPT ![a] =
                    [rec[a] EXCEPT !.status = "executing", !.approval = a]]
               /\ Goto(a, "save")
      <3>1. \A g \in Handlers : pc'[g] = IF g = a THEN "save" ELSE pc[g]
        BY <1>m, <2>3
      <3>2. /\ \A b \in Approvals \ {a} : rec'[b] = rec[b]
            /\ rec'[a].plan = rec[a].plan /\ rec'[a].status = "executing"
        BY <1>r, <2>3 DEF WorkflowRecord
      <3>. QED
        BY <1>3, <2>1, <3>1, <3>2 DEF Holding, Executing, Settled
    <2>. QED
      BY <1>4, <2>2, <2>3 DEF GetAuthContext
  <1>5. CASE SaveWorkflow(a)
    <2>0. a \notin Plans
      BY PlanInputsAssumption
    <2>1. /\ pc[a] = "save" /\ UNCHANGED <<planVars, asked, rec, next>>
          /\ workflows' = [workflows EXCEPT ![content[rec[a].plan].wf] = rec[a]]
      BY <1>5, <2>0 DEF SaveWorkflow, WriteWorkflow, PlanOf, RecordOf, apprVars
    <2>2. Planned(rec[a].plan) /\ rec[a].plan = asked[a].hash /\ asked[a] \in ApprovalRequest
      BY <1>0, <2>1 DEF HandlerOk, Holding
    <2>3. PICK l \in {"exchange", "threadGet"} :
            /\ \A g \in Handlers : pc'[g] = IF g = a THEN l ELSE pc[g]
            /\ l = "exchange" => rec[a].status = "executing"
      BY <1>5, <1>m DEF SaveWorkflow
    <2>4. Frame(a)
      BY <1>0, <1>r, <2>1, <2>2, <2>3 DEF Frame, TypeOK
    <2>5. HandlerOk(a)'
      BY <1>0, <2>1, <2>2, <2>3 DEF HandlerOk, Holding, Executing, Planned, planVars
    <2>. QED
      BY <2>4, <2>5, ControlFrame
  <1>6. CASE ExchangeToken(a)
    <2>1. pc[a] = "exchange" /\ UNCHANGED <<planVars, workflows, asked>>
      BY <1>6 DEF ExchangeToken, storeVars
    <2>2. CASE UNCHANGED rec /\ next' = [next EXCEPT ![a] = 1] /\ Goto(a, "dispatch")
      <3>1. next'[a] > 0 /\ \A b \in Approvals \ {a} : next'[b] = next[b]
        BY <1>0, <2>2 DEF TypeOK
      <3>. QED
        BY <1>3, <1>m, <2>1, <2>2, <3>1 DEF Holding, Executing
    <2>3. CASE Fail(a) /\ UNCHANGED next
      BY <1>3, <1>f, <2>1, <2>3 DEF Holding, Executing
    <2>. QED
      BY <1>6, <2>2, <2>3 DEF ExchangeToken
  <1>7. CASE DispatchStep(a)
    <2>1. pc[a] = "dispatch" /\ UNCHANGED <<planVars, workflows, asked, next>>
      BY <1>7 DEF DispatchStep, storeVars
    <2>2. CASE rec' = [rec EXCEPT ![a].status = "completed"] /\ Goto(a, "save")
      <3>1. /\ \A b \in Approvals \ {a} : rec'[b] = rec[b]
            /\ rec'[a].plan = rec[a].plan /\ rec'[a].status = "completed"
        BY <1>r, <2>2 DEF WorkflowRecord
      <3>. QED
        BY <1>3, <1>m, <2>1, <2>2, <3>1 DEF Holding, Executing, Settled
    <2>3. CASE Fail(a)
      BY <1>3, <1>f, <2>1, <2>3 DEF Holding, Executing
    <2>4. CASE UNCHANGED rec /\ Goto(a, "await")
      BY <1>3, <1>m, <2>1, <2>4 DEF Holding, Executing
    <2>. QED
      BY <1>7, <2>2, <2>3, <2>4 DEF DispatchStep
  <1>8. CASE ReceiveReply(a)
    <2>1. pc[a] = "await" /\ UNCHANGED <<planVars, workflows, asked>>
      BY <1>8 DEF ReceiveReply, storeVars
    <2>2. CASE UNCHANGED rec /\ next' = [next EXCEPT ![a] = next[a] + 1] /\ Goto(a, "dispatch")
      <3>1. next'[a] > 0 /\ \A b \in Approvals \ {a} : next'[b] = next[b]
        BY <1>0, <2>2 DEF TypeOK
      <3>. QED
        BY <1>3, <1>m, <2>1, <2>2, <3>1 DEF Holding, Executing
    <2>3. CASE Fail(a) /\ UNCHANGED next
      BY <1>3, <1>f, <2>1, <2>3 DEF Holding, Executing
    <2>. QED
      BY <1>8, <2>2, <2>3 DEF ReceiveReply
  <1>9. CASE EgressTimeout(a)
    <2>1. pc[a] = "await" /\ UNCHANGED <<planVars, workflows, asked, next>> /\ Fail(a)
      BY <1>9 DEF EgressTimeout, storeVars
    <2>. QED
      BY <1>3, <1>f, <2>1 DEF Holding, Executing
  <1>10. CASE GetThread(a)
    <2>1. pc[a] = "threadGet" /\ UNCHANGED <<planVars, workflows, asked, rec, next>>
      BY <1>10 DEF GetThread, storeVars, apprVars
    <2>2. CASE Reply(a, Answer(a))
      BY <1>3, <1>m, <2>1, <2>2 DEF Holding, Executing
    <2>3. CASE /\ content[rec[a].plan].thread # None
               /\ HoldThread(a, content[rec[a].plan].thread)
      BY <1>3, <1>m, <2>1, <2>3 DEF Holding, Executing
    <2>. QED
      BY <1>10, <2>2, <2>3 DEF GetThread, ThreadStored
  <1>11. CASE SaveThread(a)
    <2>1. /\ pc[a] = "threadPut" /\ UNCHANGED <<planVars, workflows, asked, rec, next>>
          /\ Reply(a, Answer(a))
      BY <1>11 DEF SaveThread, WriteThread, apprVars
    <2>. QED
      BY <1>3, <1>m, <2>1 DEF Holding, Executing
  <1>. QED
    BY <1>1, <1>2, <1>4, <1>5, <1>6, <1>7, <1>8, <1>9, <1>10, <1>11 DEF ApproveStep

(* Control does not look at the clock, the egress, the tokens, the threads  *)
(* or the session.                                                          *)
LEMMA ControlKept ==
  ASSUME Control,
         UNCHANGED <<planVars, asked, rec, next>>,
         \A g \in Handlers : pc'[g] = pc[g] \/ (pc[g] # "idle" /\ pc'[g] = "done"),
         \A w \in Workflows : workflows'[w] = workflows[w] \/ workflows'[w] = NoWorkflow
  PROVE  PlanInv' /\ StoreInv' /\ HandlerInv'
  <1>1. \A x : Planned(x)' <=> Planned(x)
    BY DEF Planned, planVars
  <1>2. /\ NoWorkflow.status = "absent" /\ NoWorkflow.plan = None
        /\ None \notin Plans /\ Plans \subseteq Handlers /\ Approvals \subseteq Handlers
    BY NoneAssumption DEF NoWorkflow, Handlers
  <1>3. PlanInv'
    BY <1>1, <1>2 DEF Control, PlanInv, planVars
  <1>4. StoreInv'
    BY <1>1, <1>2 DEF Control, StoreInv, planVars
  <1>5. HandlerInv'
    BY <1>1, <1>2 DEF Control, HandlerInv, HandlerOk, Holding, Executing, planVars
  <1>. QED
    BY <1>3, <1>4, <1>5

(* A Redis error after a write leaves what the write itself left.           *)
LEMMA ControlStoreFails ==
  ASSUME Control, NEW h \in Handlers, StoreFails(h)
  PROVE  PlanInv' /\ StoreInv' /\ HandlerInv'
  <1>0. TypeOK /\ Plans \cap Approvals = {}
    BY PlanInputsAssumption DEF Control
  <1>1. /\ UNCHANGED <<planVars, asked, rec, next>>
        /\ \A g \in Handlers : pc'[g] = IF g = h THEN "done" ELSE pc[g]
        /\ pc[h] # "idle"
    BY <1>0, MoveFacts
    DEF StoreFails, apprVars, WriteSession, WriteWorkflow, WriteThread
  <1>2. CASE UNCHANGED workflows
    BY <1>1, <1>2, ControlKept
  <1>3. CASE WriteWorkflow(h) /\ h \in Approvals
    <2>1. /\ pc[h] = "save"
          /\ workflows' = [workflows EXCEPT ![content[rec[h].plan].wf] = rec[h]]
      BY <1>0, <1>3 DEF WriteWorkflow, PlanOf, RecordOf
    <2>2. HandlerOk(h)
      BY <1>3 DEF Control, HandlerInv
    <2>3. Planned(rec[h].plan)
      BY <2>1, <2>2 DEF HandlerOk, Holding
    <2>4. Frame(h)
      BY <1>0, <1>1, <2>1, <2>3 DEF Frame, TypeOK
    <2>5. HandlerOk(h)'
      BY <1>1, <2>2 DEF HandlerOk, Holding, Executing
    <2>. QED
      BY <1>3, <2>4, <2>5, ControlFrame
  <1>4. CASE WriteWorkflow(h) /\ h \in Plans
    <2>1. /\ pc[h] = "save" /\ Planned(h)
          /\ workflows' = [workflows EXCEPT ![content[h].wf] = PlannedRecord(h)]
      BY <1>0, <1>4 DEF WriteWorkflow, PlanOf, RecordOf, Control, PlanInv
    <2>2. \A w \in Workflows : workflows'[w] =
             IF w = content[h].wf THEN PlannedRecord(h) ELSE workflows[w]
      BY <1>0, <2>1 DEF TypeOK
    <2>3. PlannedRecord(h).plan = h
      BY DEF PlannedRecord
    <2>4. \A x : Planned(x)' <=> Planned(x)
      BY <1>1 DEF Planned, planVars
    <2>5. PlanInv'
      BY <1>0, <1>1, <1>4, <2>1, <2>2, <2>3, <2>4 DEF Control, PlanInv, planVars, Handlers
    <2>6. StoreInv'
      BY <1>1, <2>1, <2>2, <2>3, <2>4 DEF Control, StoreInv, planVars
    <2>7. HandlerInv'
      BY <1>0, <1>1, <1>4, <2>4 DEF Control, HandlerInv, HandlerOk, planVars, Handlers
    <2>. QED
      BY <2>5, <2>6, <2>7
  <1>. QED
    BY <1>2, <1>3, <1>4 DEF StoreFails, WriteSession, WriteThread, storeVars, Handlers

(* Every step keeps the control invariants.                                 *)
LEMMA ControlStep == Control /\ [Next]_vars => Control'
  <1> SUFFICES ASSUME Control, [Next]_vars PROVE PlanInv' /\ StoreInv' /\ HandlerInv'
    BY TypeStep DEF Control
  <1>0. TypeOK
    BY DEF Control
  <1>1. CASE \E p \in Plans : StartPlan(p) \/ PlanStep(p) \/ CancelRun(p)
    BY <1>1, ControlPlan
  <1>2. CASE \E a \in Approvals : StartApprove(a) \/ ApproveStep(a)
    BY <1>2, ControlApprove
  <1>3. CASE \E h \in Handlers : StoreFails(h)
    BY <1>3, ControlStoreFails
  <1>4. CASE Crash
    <2>1. \A h \in Handlers : pc'[h] = IF h \in InFlight THEN "done" ELSE pc[h]
      BY <1>4 DEF Crash
    <2>2. UNCHANGED <<planVars, asked, rec, next>> /\ UNCHANGED workflows
      BY <1>4 DEF Crash, apprVars, storeVars
    <2>3. \A h \in InFlight : pc[h] # "idle"
      BY DEF InFlight
    <2>. QED
      BY <2>1, <2>2, <2>3, ControlKept
  <1>5. CASE ExpireKey
    <2>1. UNCHANGED <<planVars, asked, rec, next, pc>>
      BY <1>5 DEF ExpireKey, localVars, apprVars
    <2>2. \A w \in Workflows : workflows'[w] = workflows[w] \/ workflows'[w] = NoWorkflow
      BY <1>0, <1>5 DEF ExpireKey, TypeOK
    <2>. QED
      BY <2>1, <2>2, ControlKept
  <1>6. CASE \/ \E a \in Approvals : EgressNext(a)
             \/ \E t \in TokenRefs : RegisterTokenContext(t)
             \/ \E t \in Threads : CreateThread(t)
             \/ Tick \/ UNCHANGED vars
    <2>1. UNCHANGED <<planVars, asked, rec, next, pc, workflows>>
      BY <1>6
      DEF EgressNext, RegisterTokenContext, CreateThread, Tick, vars, storeVars, localVars,
          apprVars
    <2>. QED
      BY <2>1, ControlKept
  <1>. QED
    BY <1>1, <1>2, <1>3, <1>4, <1>5, <1>6 DEF Next, Finished

(* The control invariants hold at the start.                                *)
LEMMA ControlInit == Init => Control
  <1> SUFFICES ASSUME Init PROVE Control
    OBVIOUS
  <1>1. TypeOK
    <2>1. EgressTypeOK
      BY DEF Init, EgressInit, EgressTypeOK, NoMessage, Message
    <2>2. NoHistory \in History
      BY DEF NoHistory, History
    <2>. QED
      BY <2>1, <2>2, NullTypes DEF Init, TypeOK, PCs, Answers
  <1>2. None \notin Plans /\ None \notin PlanInputs
    BY NoneAssumption, PlanInputsAssumption
  <1>3. PlanInv
    BY <1>2 DEF Init, PlanInv, Planned, NoWorkflow, Handlers
  <1>4. StoreInv /\ HandlerInv
    BY DEF Init, StoreInv, HandlerInv, HandlerOk, NoWorkflow, Holding, Executing, Handlers
  <1>. QED
    BY <1>1, <1>3, <1>4 DEF Control

(* The control invariants hold in every reachable state.                    *)
LEMMA ControlAlways == Spec => []Control
  BY ControlInit, ControlStep, PTL DEF Spec

(* Type correctness: every variable of the agent service, the store records *)
(* it reads back and the requests it has on the wire keep their types in    *)
(* every reachable state, for any numbers of plans, approvals and faults.   *)
THEOREM TypeCorrect == Spec => []TypeOK
  <1>1. Control => TypeOK
    BY DEF Control
  <1>. QED
    BY <1>1, ControlAlways, PTL

------------------------------------------------------------------------------
(* What each step does, field by field, under the control invariants: the    *)
(* facts from which the other proof modules argue.                          *)

(* Approval a goes on to l, holding r; nothing moves in any other handler.   *)
Moves(a, l, r) ==
    /\ UNCHANGED planVars
    /\ \A g \in Handlers : pc'[g] = IF g = a THEN l ELSE pc[g]
    /\ \A g \in Handlers \ {a} : resp'[g] = resp[g] /\ thr'[g] = thr[g]
    /\ \A b \in Approvals : rec'[b] = IF b = a THEN r ELSE rec[b]
    /\ \A b \in Approvals \ {a} :
         asked'[b] = asked[b] /\ expires'[b] = expires[b] /\ next'[b] = next[b]

(* The three kinds of move of a handler, seen from an approval.              *)
LEMMA MoveEffect ==
  ASSUME TypeOK, NEW a \in Approvals,
         UNCHANGED planVars,
         \A b \in Approvals \ {a} :
            asked'[b] = asked[b] /\ expires'[b] = expires[b] /\ next'[b] = next[b],
         NEW r, \A b \in Approvals : rec'[b] = IF b = a THEN r ELSE rec[b]
  PROVE  /\ \A l : Goto(a, l) => Moves(a, l, r) /\ resp'[a] = resp[a]
         /\ \A c : Reply(a, c) => Moves(a, "done", r) /\ resp'[a] = c
         /\ \A t : HoldThread(a, t) => Moves(a, "threadPut", r) /\ resp'[a] = resp[a]
  <1>1. a \in Handlers
    BY DEF Handlers
  <1>. QED
    BY <1>1 DEF Moves, TypeOK, Goto, Reply, HoldThread

(* Fail sends the approval to the saving of its record as failed.           *)
LEMMA FailEffect ==
  ASSUME TypeOK, NEW a \in Approvals, Fail(a),
         UNCHANGED planVars,
         \A b \in Approvals \ {a} :
            asked'[b] = asked[b] /\ expires'[b] = expires[b] /\ next'[b] = next[b]
  PROVE  Moves(a, "save", [rec[a] EXCEPT !.status = "failed"])
  <1>1. \A b \in Approvals :
           rec'[b] = IF b = a THEN [rec[a] EXCEPT !.status = "failed"] ELSE rec[b]
    BY DEF Fail, TypeOK
  <1>2. Goto(a, "save")
    BY DEF Fail
  <1>. QED
    BY <1>1, <1>2, MoveEffect

(* A new approval request sets only what it asks for, and goes to require.  *)
LEMMA StartEffect ==
  ASSUME Control, NEW a \in Approvals, StartApprove(a)
  PROVE  /\ pc[a] = "idle" /\ Moves(a, "require", rec[a])
         /\ UNCHANGED <<now, egressVars, storeVars, claimed>>
         /\ asked'[a] \in ApprovalRequest
         /\ expires'[a] = expires[a] /\ next'[a] = next[a]
  <1>1. TypeOK
    BY DEF Control
  <1>2. /\ UNCHANGED planVars /\ UNCHANGED <<rec, expires, next>>
        /\ \A b \in Approvals \ {a} : asked'[b] = asked[b]
        /\ asked'[a] \in ApprovalRequest
    BY <1>1 DEF StartApprove, TypeOK
  <1>3. Goto(a, "require")
    BY DEF StartApprove
  <1>4. Moves(a, "require", rec[a])
    BY <1>1, <1>2, <1>3, MoveEffect
  <1>. QED
    BY <1>2, <1>4 DEF StartApprove, envVars

(* The record s that RequireWorkflow read and the one r it goes on with.     *)
Required(a, s, l, r) ==
    /\ s.status # "absent" /\ s.plan = asked[a].hash
    /\ \/ l = "threadGet" /\ r = s
       \/ /\ l = "save" /\ s.status \in Pending
          /\ r = [s EXCEPT !.status = "cancelled"]
       \/ l = "authctx" /\ s.status \in Pending /\ r = s /\ asked[a].approved

(* Reading the record ends the request, or goes on with a matching record.  *)
LEMMA RequireEffect ==
  ASSUME Control, NEW a \in Approvals, RequireWorkflow(a)
  PROVE  /\ pc[a] = "require"
         /\ UNCHANGED <<now, egressVars, storeVars, claimed, asked, expires, next>>
         /\ asked[a].wf \in Workflows
         /\ \/ Moves(a, "done", rec[a])
            \/ \E l, r : Moves(a, l, r) /\ Required(a, workflows[asked[a].wf], l, r)
  <1> DEFINE s == workflows[asked[a].wf]
  <1>1. TypeOK
    BY DEF Control
  <1>2. /\ pc[a] = "require" /\ UNCHANGED planVars
        /\ UNCHANGED <<now, egressVars, storeVars, claimed, asked, expires, next>>
    BY DEF RequireWorkflow, envVars
  <1>3. asked[a].wf \in Workflows /\ s \in WorkflowRecord
    BY <1>2, HandlerReads
  <1>4. s.status \in Pending \cup Settled \cup {"absent"}
    BY <1>3 DEF WorkflowRecord
  <1>5. \A r : rec' = [rec EXCEPT ![a] = r] =>
           \A b \in Approvals : rec'[b] = IF b = a THEN r ELSE rec[b]
    BY <1>1 DEF TypeOK
  <1>6. \A r, l : rec' = [rec EXCEPT ![a] = r] /\ Goto(a, l) => Moves(a, l, r)
    BY <1>1, <1>2, <1>5, MoveEffect
  <1>7. ASSUME UNCHANGED rec, NEW c, Reply(a, c) PROVE Moves(a, "done", rec[a])
    BY <1>1, <1>2, <1>7, MoveEffect
  <1>8. CASE UNCHANGED rec /\ \E c : Reply(a, c)
    BY <1>2, <1>3, <1>7, <1>8
  <1>9. CASE /\ s.status # "absent" /\ HashMatches(a)
             /\ rec' = [rec EXCEPT ![a] = s] /\ Goto(a, "threadGet")
    <2>1. Moves(a, "threadGet", s) /\ Required(a, s, "threadGet", s)
      BY <1>6, <1>9 DEF Required, HashMatches
    <2>. QED
      BY <1>2, <1>3, <2>1
  <1>10. CASE /\ s.status # "absent" /\ HashMatches(a) /\ ~AlreadySettled(s.status)
              /\ rec' = [rec EXCEPT ![a] = [s EXCEPT !.status = "cancelled"]]
              /\ Goto(a, "save")
    <2> DEFINE c == [s EXCEPT !.status = "cancelled"]
    <2>1. Moves(a, "save", c)
      BY <1>6, <1>10
    <2>2. Required(a, s, "save", c)
      BY <1>4, <1>10 DEF Required, HashMatches, AlreadySettled
    <2> HIDE DEF c
    <2>. QED
      BY <1>2, <1>3, <2>1, <2>2
  <1>11. CASE /\ s.status # "absent" /\ HashMatches(a) /\ ~AlreadySettled(s.status)
              /\ asked[a].approved
              /\ rec' = [rec EXCEPT ![a] = s] /\ Goto(a, "authctx")
    <2>1. Moves(a, "authctx", s) /\ Required(a, s, "authctx", s)
      BY <1>4, <1>6, <1>11 DEF Required, HashMatches, AlreadySettled
    <2>. QED
      BY <1>2, <1>3, <2>1
  <1>. QED
    BY <1>8, <1>9, <1>10, <1>11 DEF RequireWorkflow

(* get_auth_context ends the request, or makes it save its own claim.       *)
LEMMA AuthEffect ==
  ASSUME Control, NEW a \in Approvals, GetAuthContext(a)
  PROVE  /\ pc[a] = "authctx"
         /\ UNCHANGED <<now, egressVars, storeVars, claimed, asked, next>>
         /\ \/ Moves(a, "done", rec[a]) /\ expires'[a] = expires[a]
            \/ /\ Moves(a, "save", [rec[a] EXCEPT !.status = "executing", !.approval = a])
               /\ expires'[a] = now + ApprovalTTL
  <1> DEFINE r == [rec[a] EXCEPT !.status = "executing", !.approval = a]
  <1>1. TypeOK
    BY DEF Control
  <1>2. /\ pc[a] = "authctx" /\ UNCHANGED planVars
        /\ UNCHANGED <<now, egressVars, storeVars, claimed, asked, next>>
    BY DEF GetAuthContext, envVars
  <1>3. CASE UNCHANGED <<rec, expires>> /\ Reply(a, "400")
    BY <1>1, <1>2, <1>3, MoveEffect
  <1>4. CASE /\ expires' = [expires EXCEPT ![a] = now + ApprovalTTL]
             /\ rec' = [rec EXCEPT ![a] = r] /\ Goto(a, "save")
    <2>1. \A b \in Approvals : rec'[b] = IF b = a THEN r ELSE rec[b]
      BY <1>1, <1>4 DEF TypeOK
    <2>2. /\ expires'[a] = now + ApprovalTTL
          /\ \A b \in Approvals \ {a} : expires'[b] = expires[b]
      BY <1>1, <1>4 DEF TypeOK
    <2> HIDE DEF r
    <2>3. Moves(a, "save", r)
      BY <1>1, <1>2, <1>4, <2>1, <2>2, MoveEffect
    <2>. QED
      BY <1>2, <2>2, <2>3 DEF r
  <1>. QED
    BY <1>3, <1>4 DEF GetAuthContext

(* save_workflow stores the held record, and claims if it is executing.     *)
LEMMA SaveEffect ==
  ASSUME Control, NEW a \in Approvals, SaveWorkflow(a)
  PROVE  /\ pc[a] = "save"
         /\ UNCHANGED <<now, egressVars, threads, asked, expires, next>>
         /\ Planned(rec[a].plan) /\ content[rec[a].plan].wf \in Workflows
         /\ \A w \in Workflows : workflows'[w] =
               IF w = content[rec[a].plan].wf THEN rec[a] ELSE workflows[w]
         /\ Moves(a, IF rec[a].status = "executing" THEN "exchange" ELSE "threadGet", rec[a])
         /\ claimed' = IF rec[a].status = "executing" THEN claimed \cup {a} ELSE claimed
  <1>1. TypeOK /\ a \notin Plans
    BY PlanInputsAssumption DEF Control
  <1>2. /\ pc[a] = "save" /\ UNCHANGED planVars
        /\ UNCHANGED <<now, egressVars, threads, asked, rec, expires, next>>
        /\ workflows' = [workflows EXCEPT ![content[rec[a].plan].wf] = rec[a]]
        /\ claimed' = IF rec[a].status = "executing" THEN claimed \cup {a} ELSE claimed
    BY <1>1 DEF SaveWorkflow, WriteWorkflow, PlanOf, RecordOf, envVars, apprVars
  <1>3. Planned(rec[a].plan)
    BY <1>2 DEF Control, HandlerInv, HandlerOk, Holding
  <1>4. content[rec[a].plan].wf \in Workflows
    BY <1>3, PlanInputsAssumption DEF Planned, PlanInput
  <1>5. Goto(a, IF rec[a].status = "executing" THEN "exchange" ELSE "threadGet")
    BY DEF SaveWorkflow
  <1>6. Moves(a, IF rec[a].status = "executing" THEN "exchange" ELSE "threadGet", rec[a])
    BY <1>1, <1>2, <1>5, MoveEffect
  <1>7. \A w \in Workflows : workflows'[w] =
           IF w = content[rec[a].plan].wf THEN rec[a] ELSE workflows[w]
    BY <1>1, <1>2 DEF TypeOK
  <1>. QED
    BY <1>2, <1>3, <1>4, <1>6, <1>7

Failed(a) == [rec[a] EXCEPT !.status = "failed"]

(* The token exchange starts the first step, or fails the approval.         *)
LEMMA ExchangeEffect ==
  ASSUME Control, NEW a \in Approvals, ExchangeToken(a)
  PROVE  /\ pc[a] = "exchange"
         /\ UNCHANGED <<now, egressVars, storeVars, claimed, asked, expires>>
         /\ \/ Moves(a, "dispatch", rec[a]) /\ next'[a] = 1
            \/ Moves(a, "save", Failed(a)) /\ next'[a] = next[a]
  <1>1. TypeOK
    BY DEF Control
  <1>2. /\ pc[a] = "exchange" /\ UNCHANGED planVars
        /\ UNCHANGED <<now, egressVars, storeVars, claimed, asked, expires>>
    BY DEF ExchangeToken, envVars
  <1>3. CASE next' = [next EXCEPT ![a] = 1] /\ UNCHANGED rec /\ Goto(a, "dispatch")
    <2>1. next'[a] = 1 /\ \A b \in Approvals \ {a} : next'[b] = next[b]
      BY <1>1, <1>3 DEF TypeOK
    <2>2. Moves(a, "dispatch", rec[a])
      BY <1>1, <1>2, <1>3, <2>1, MoveEffect
    <2>. QED
      BY <1>2, <2>1, <2>2
  <1>4. CASE Fail(a) /\ UNCHANGED next
    BY <1>1, <1>2, <1>4, FailEffect DEF Failed
  <1>. QED
    BY <1>3, <1>4 DEF ExchangeToken

(* The loop head completes, fails, or sends the next step of the plan.      *)
LEMMA DispatchEffect ==
  ASSUME Control, NEW a \in Approvals, DispatchStep(a)
  PROVE  LET steps == content[rec[a].plan].steps IN
         /\ pc[a] = "dispatch"
         /\ UNCHANGED <<now, calls, storeVars, claimed, asked, expires, next>>
         /\ \/ /\ next[a] > Len(steps) /\ UNCHANGED wire
               /\ Moves(a, "save", [rec[a] EXCEPT !.status = "completed"])
            \/ UNCHANGED wire /\ Moves(a, "save", Failed(a))
            \/ /\ next[a] <= Len(steps) /\ steps[next[a]].mcp /\ now < expires[a]
               /\ \A b \in Approvals : wire'[b] =
                     IF b = a THEN EgressRequest(a, steps[next[a]]) ELSE wire[b]
               /\ Moves(a, "await", rec[a])
  <1> DEFINE steps == content[rec[a].plan].steps
             r == [rec[a] EXCEPT !.status = "completed"]
             m == EgressRequest(a, steps[next[a]])
  <1>1. TypeOK
    BY DEF Control
  <1>2. /\ pc[a] = "dispatch" /\ UNCHANGED planVars
        /\ UNCHANGED <<now, calls, storeVars, claimed, asked, expires, next>>
    BY DEF DispatchStep, envVars
  <1>3. CASE /\ next[a] > Len(steps) /\ UNCHANGED wire
             /\ rec' = [rec EXCEPT ![a].status = "completed"] /\ Goto(a, "save")
    <2>1. \A b \in Approvals : rec'[b] = IF b = a THEN r ELSE rec[b]
      BY <1>1, <1>3 DEF TypeOK
    <2> HIDE DEF r
    <2>2. Moves(a, "save", r)
      BY <1>1, <1>2, <1>3, <2>1, MoveEffect
    <2>. QED
      BY <1>2, <1>3, <2>2 DEF r
  <1>4. CASE UNCHANGED wire /\ Fail(a)
    BY <1>1, <1>2, <1>4, FailEffect DEF Failed
  <1>5. CASE /\ next[a] <= Len(steps) /\ ~ApprovalExpired(a) /\ steps[next[a]].mcp
             /\ wire' = [wire EXCEPT ![a] = m] /\ UNCHANGED rec /\ Goto(a, "await")
    <2>1. \A b \in Approvals : wire'[b] = IF b = a THEN m ELSE wire[b]
      BY <1>1, <1>5 DEF TypeOK, EgressTypeOK
    <2>2. now < expires[a]
      BY <1>1, <1>5 DEF TypeOK, ApprovalExpired
    <2> HIDE DEF m
    <2>3. Moves(a, "await", rec[a])
      BY <1>1, <1>2, <1>5, MoveEffect
    <2>. QED
      BY <1>2, <1>5, <2>1, <2>2, <2>3 DEF m
  <1>. QED
    BY <1>3, <1>4, <1>5 DEF DispatchStep

(* An answer of the gateway leads to the next step, or fails the approval.  *)
LEMMA ReceiveEffect ==
  ASSUME Control, NEW a \in Approvals, ReceiveReply(a)
  PROVE  /\ pc[a] = "await" /\ wire[a].st \notin {"sent", "calling"}
         /\ UNCHANGED <<now, calls, storeVars, claimed, asked, expires>>
         /\ \A b \in Approvals : wire'[b] = IF b = a THEN NoMessage ELSE wire[b]
         /\ \/ /\ wire[a].st = "completed"
               /\ Moves(a, "dispatch", rec[a]) /\ next'[a] = next[a] + 1
            \/ Moves(a, "save", Failed(a)) /\ next'[a] = next[a]
  <1>1. TypeOK
    BY DEF Control
  <1>2. /\ pc[a] = "await" /\ wire[a].st \notin {"sent", "calling"} /\ UNCHANGED planVars
        /\ UNCHANGED <<now, calls, storeVars, claimed, asked, expires>>
        /\ wire' = [wire EXCEPT ![a] = NoMessage]
    BY DEF ReceiveReply, envVars
  <1>3. \A b \in Approvals : wire'[b] = IF b = a THEN NoMessage ELSE wire[b]
    BY <1>1, <1>2 DEF TypeOK, EgressTypeOK
  <1>4. CASE /\ ReplySucceeded(a) /\ next' = [next EXCEPT ![a] = next[a] + 1]
             /\ UNCHANGED rec /\ Goto(a, "dispatch")
    <2>1. next'[a] = next[a] + 1 /\ \A b \in Approvals \ {a} : next'[b] = next[b]
      BY <1>1, <1>4 DEF TypeOK
    <2>2. Moves(a, "dispatch", rec[a])
      BY <1>1, <1>2, <1>4, <2>1, MoveEffect
    <2>. QED
      BY <1>2, <1>3, <1>4, <2>1, <2>2 DEF ReplySucceeded
  <1>5. CASE Fail(a) /\ UNCHANGED next
    BY <1>1, <1>2, <1>3, <1>5, FailEffect DEF Failed
  <1>. QED
    BY <1>4, <1>5 DEF ReceiveReply

(* A timeout fails the approval and leaves its request on the wire.         *)
LEMMA TimeoutEffect ==
  ASSUME Control, NEW a \in Approvals, EgressTimeout(a)
  PROVE  /\ pc[a] = "await"
         /\ UNCHANGED <<now, egressVars, storeVars, claimed, asked, expires, next>>
         /\ Moves(a, "save", Failed(a))
  <1>1. TypeOK
    BY DEF Control
  <1>2. /\ pc[a] = "await" /\ UNCHANGED planVars /\ Fail(a)
        /\ UNCHANGED <<now, egressVars, storeVars, claimed, asked, expires, next>>
    BY DEF EgressTimeout, envVars
  <1>. QED
    BY <1>1, <1>2, FailEffect DEF Failed

(* The thread update changes no record and no request.                      *)
LEMMA ThreadEffect ==
  ASSUME Control, NEW a \in Approvals, GetThread(a) \/ SaveThread(a)
  PROVE  /\ pc[a] \in {"threadGet", "threadPut"}
         /\ UNCHANGED <<now, egressVars, workflows, claimed, asked, expires, next>>
         /\ Moves(a, "done", rec[a]) \/ Moves(a, "threadPut", rec[a])
  <1>1. TypeOK
    BY DEF Control
  <1>2. /\ pc[a] \in {"threadGet", "threadPut"} /\ UNCHANGED planVars
        /\ UNCHANGED <<now, egressVars, workflows, claimed, asked, rec, expires, next>>
    BY DEF GetThread, SaveThread, WriteThread, envVars, storeVars, apprVars
  <1>3. \/ \E c : Reply(a, c)
        \/ \E t : HoldThread(a, t)
    BY DEF GetThread, SaveThread
  <1>. QED
    BY <1>1, <1>2, <1>3, MoveEffect

(* A planning request stores the record of p.                                *)
PlanStored(p) ==
    /\ pc[p] = "save" /\ Planned(p) /\ content[p].wf \in Workflows
    /\ \A w \in Workflows : workflows'[w] =
         IF w = content[p].wf THEN PlannedRecord(p) ELSE workflows[w]

(* An approval stores the record it holds, and claims the plan with it.      *)
RecordStored(a) ==
    /\ pc[a] = "save" /\ Planned(rec[a].plan) /\ content[rec[a].plan].wf \in Workflows
    /\ \A w \in Workflows : workflows'[w] =
         IF w = content[rec[a].plan].wf THEN rec[a] ELSE workflows[w]
    /\ claimed' = IF rec[a].status = "executing" THEN claimed \cup {a} ELSE claimed

(* A record that a handler writes lies under the id of its plan.            *)
LEMMA WriteWorkflowEffect ==
  ASSUME Control, NEW h \in Handlers, WriteWorkflow(h)
  PROVE  /\ h \in Plans => PlanStored(h) /\ UNCHANGED claimed
         /\ h \in Approvals => RecordStored(h)
  <1>0. TypeOK /\ Plans \cap Approvals = {}
    BY PlanInputsAssumption DEF Control
  <1>1. ASSUME h \in Plans PROVE PlanStored(h) /\ UNCHANGED claimed
    <2>1. /\ pc[h] = "save" /\ Planned(h)
          /\ workflows' = [workflows EXCEPT ![content[h].wf] = PlannedRecord(h)]
      BY <1>1 DEF WriteWorkflow, PlanOf, RecordOf, Control, PlanInv
    <2>2. content[h].wf \in Workflows
      BY <2>1, PlanInputsAssumption DEF Planned, PlanInput
    <2>3. UNCHANGED claimed
      BY <1>1 DEF WriteWorkflow, RecordOf, PlannedRecord
    <2>4. \A w \in Workflows : workflows'[w] =
             IF w = content[h].wf THEN PlannedRecord(h) ELSE workflows[w]
      BY <1>0, <2>1 DEF TypeOK
    <2>. QED
      BY <2>1, <2>2, <2>3, <2>4 DEF PlanStored
  <1>2. ASSUME h \in Approvals PROVE RecordStored(h)
    <2>1. /\ pc[h] = "save"
          /\ workflows' = [workflows EXCEPT ![content[rec[h].plan].wf] = rec[h]]
          /\ claimed' = IF rec[h].status = "executing" THEN claimed \cup {h} ELSE claimed
      BY <1>0, <1>2 DEF WriteWorkflow, PlanOf, RecordOf
    <2>2. Planned(rec[h].plan)
      BY <1>2, <2>1 DEF Control, HandlerInv, HandlerOk, Holding
    <2>3. content[rec[h].plan].wf \in Workflows
      BY <2>2, PlanInputsAssumption DEF Planned, PlanInput
    <2>4. \A w \in Workflows : workflows'[w] =
             IF w = content[rec[h].plan].wf THEN rec[h] ELSE workflows[w]
      BY <1>0, <2>1 DEF TypeOK
    <2>. QED
      BY <2>1, <2>2, <2>3, <2>4 DEF RecordStored
  <1>. QED
    BY <1>1, <1>2

(* A planning request touches no approval; it may store its own record.     *)
LEMMA PlanEffect ==
  ASSUME Control, NEW p \in Plans, StartPlan(p) \/ PlanStep(p) \/ CancelRun(p)
  PROVE  /\ UNCHANGED <<now, egressVars, apprVars, claimed>>
         /\ \A b \in Approvals : pc'[b] = pc[b] /\ resp'[b] = resp[b]
         /\ \A x : Planned(x) => Planned(x)' /\ content'[x] = content[x]
         /\ UNCHANGED workflows \/ PlanStored(p)
  <1>0. TypeOK /\ p \in Handlers /\ p \notin Approvals /\ Approvals \subseteq Handlers
    BY PlanInputsAssumption DEF Control, Handlers
  <1>1. \A b \in Approvals : pc'[b] = pc[b] /\ resp'[b] = resp[b]
    BY <1>0, MoveFacts
    DEF StartPlan, PlanStep, PlanUpsertSession, PlanSaveWorkflow, PlanGetThread,
        PlanSaveThread, CancelRun
  <1>2. CASE StartPlan(p)
    <2>1. ~Planned(p)
      BY <1>2 DEF StartPlan, Control, PlanInv
    <2>2. PICK q \in PlanInputs : content' = [content EXCEPT ![p] = q]
      BY <1>2 DEF StartPlan
    <2>3. \A x \in Plans \ {p} : content'[x] = content[x]
      BY <1>0, <2>2 DEF TypeOK
    <2>4. \A x : Planned(x) => Planned(x)' /\ content'[x] = content[x]
      BY <2>1, <2>3 DEF Planned
    <2>. QED
      BY <1>1, <1>2, <2>4 DEF StartPlan, envVars, storeVars
  <1>3. CASE PlanStep(p) \/ CancelRun(p)
    <2>1. UNCHANGED planVars /\ UNCHANGED <<now, egressVars, apprVars>>
      BY <1>3
      DEF PlanStep, PlanUpsertSession, PlanSaveWorkflow, PlanGetThread, PlanSaveThread,
          CancelRun, envVars
    <2>2. UNCHANGED <<workflows, claimed>> \/ (PlanStored(p) /\ UNCHANGED claimed)
      BY <1>0, <1>3, WriteWorkflowEffect
      DEF PlanStep, PlanUpsertSession, PlanSaveWorkflow, PlanGetThread, PlanSaveThread,
          CancelRun, WriteSession, WriteThread, storeVars
    <2>3. \A x : Planned(x) => Planned(x)' /\ content'[x] = content[x]
      BY <2>1 DEF Planned, planVars
    <2>. QED
      BY <1>1, <2>1, <2>2, <2>3
  <1>. QED
    BY <1>2, <1>3

(* A Redis error answers 500; the write was applied or was not.             *)
LEMMA StoreFailsEffect ==
  ASSUME Control, NEW h \in Handlers, StoreFails(h)
  PROVE  /\ UNCHANGED <<now, egressVars, planVars, apprVars>>
         /\ pc[h] \in {"session", "require", "authctx", "save", "threadGet", "threadPut"}
         /\ \A g \in Handlers : /\ pc'[g] = IF g = h THEN "done" ELSE pc[g]
                                /\ resp'[g] = IF g = h THEN "500" ELSE resp[g]
         /\ \/ UNCHANGED <<workflows, claimed>>
            \/ h \in Plans /\ PlanStored(h) /\ UNCHANGED claimed
            \/ h \in Approvals /\ RecordStored(h)
  <1>1. /\ UNCHANGED <<now, egressVars, planVars, apprVars>>
        /\ pc[h] \in {"session", "require", "authctx", "save", "threadGet", "threadPut"}
    BY DEF StoreFails, WriteSession, WriteWorkflow, WriteThread
  <1>2. \A g \in Handlers : /\ pc'[g] = IF g = h THEN "done" ELSE pc[g]
                            /\ resp'[g] = IF g = h THEN "500" ELSE resp[g]
    BY MoveFacts DEF StoreFails, Control
  <1>3. UNCHANGED <<workflows, claimed>> \/ WriteWorkflow(h)
    BY DEF StoreFails, WriteSession, WriteThread, storeVars
  <1>. QED
    BY <1>1, <1>2, <1>3, WriteWorkflowEffect DEF Handlers

(* The steps that no request takes: they may only stop handlers, make keys   *)
(* disappear and let time pass.                                              *)
Environment ==
    \/ \E t \in TokenRefs : RegisterTokenContext(t)
    \/ \E t \in Threads : CreateThread(t)
    \/ Tick \/ Crash \/ ExpireKey \/ UNCHANGED vars

(* What no request does: handlers stop, keys vanish, time passes.           *)
LEMMA EnvironmentEffect ==
  ASSUME Control, Environment
  PROVE  /\ UNCHANGED <<egressVars, planVars, apprVars, claimed>>
         /\ now' \in Nat /\ now <= now'
         /\ \A g \in Handlers :
              \/ pc'[g] = pc[g] /\ resp'[g] = resp[g]
              \/ pc[g] \notin {"idle", "done"} /\ pc'[g] = "done" /\ resp'[g] = "lost"
         /\ \A w \in Workflows : workflows'[w] \in {workflows[w], NoWorkflow}
  <1>0. TypeOK
    BY DEF Control
  <1>1. UNCHANGED <<egressVars, planVars, apprVars, claimed>>
    BY DEF Environment, RegisterTokenContext, CreateThread, Tick, Crash, ExpireKey, vars,
           localVars
  <1>2. now' \in Nat /\ now <= now'
    BY <1>0
    DEF TypeOK, Environment, RegisterTokenContext, CreateThread, Tick, Crash, ExpireKey,
        vars, envVars
  <1>3. \A g \in Handlers :
          \/ pc'[g] = pc[g] /\ resp'[g] = resp[g]
          \/ pc[g] \notin {"idle", "done"} /\ pc'[g] = "done" /\ resp'[g] = "lost"
    <2>1. CASE Crash
      BY <2>1 DEF Crash, InFlight
    <2>2. CASE ~Crash
      BY <2>2
      DEF Environment, RegisterTokenContext, CreateThread, Tick, ExpireKey, vars, localVars
    <2>. QED
      BY <2>1, <2>2
  <1>4. \A w \in Workflows : workflows'[w] \in {workflows[w], NoWorkflow}
    <2>1. CASE ExpireKey
      BY <1>0, <2>1 DEF ExpireKey, TypeOK
    <2>2. CASE ~ExpireKey
      BY <2>2
      DEF Environment, RegisterTokenContext, CreateThread, Tick, Crash, vars, storeVars
    <2>. QED
      BY <2>1, <2>2
  <1>. QED
    BY <1>1, <1>2, <1>3, <1>4

(* The gateway touches nothing of the agent service.                        *)
LEMMA EgressEffect ==
  ASSUME Control, NEW a \in Approvals, EgressNext(a)
  PROVE  UNCHANGED <<now, workflows, pc, resp, planVars, apprVars, claimed>>
  BY DEF EgressNext, envVars, storeVars, localVars

(* Every step is one of those above.                                         *)
LEMMA StepKinds ==
  ASSUME [Next]_vars
  PROVE  \/ \E p \in Plans : StartPlan(p) \/ PlanStep(p) \/ CancelRun(p)
         \/ \E a \in Approvals : StartApprove(a) \/ ApproveStep(a)
         \/ \E a \in Approvals : EgressNext(a)
         \/ \E h \in Handlers : StoreFails(h)
         \/ Environment
  BY DEF Next, Finished, Environment

------------------------------------------------------------------------------
(* Claims.                                                                  *)
Claims == Control /\ ClaimInv /\ PendingInv /\ OwnerInv

(* What the claims are about has its type.                                  *)
LEMMA ClaimTypes ==
  ASSUME Claims
  PROVE  /\ claimed \subseteq Approvals /\ Approvals \subseteq Handlers
         /\ \A b \in Approvals : rec[b] \in WorkflowRecord
         /\ \A w \in Workflows : workflows[w] \in WorkflowRecord
         /\ Plans \cap Approvals = {}
  BY PlanInputsAssumption DEF Claims, Control, TypeOK, Handlers

(* Approval a moves before its claim.                                       *)
LEMMA ClaimEarly ==
  ASSUME Claims, NEW a \in Approvals, a \notin claimed, NEW l, NEW r, Moves(a, l, r),
         UNCHANGED <<workflows, claimed>>, l \notin Executing,
         l = "save" => r.status = "cancelled" \/ (r.status = "executing" /\ r.approval = a)
  PROVE  ClaimInv' /\ PendingInv' /\ OwnerInv'
  <1>0. \A x : Planned(x)' <=> Planned(x)
    BY DEF Moves, planVars, Planned
  <1>1. ClaimOk(a)'
    BY ClaimTypes DEF Moves, ClaimOk
  <1>2. ClaimInv'
    BY <1>0, <1>1, ClaimTypes DEF Moves, Claims, ClaimInv, ClaimOk
  <1>3. PendingInv'
    BY ClaimTypes DEF Moves, Claims, PendingInv
  <1>4. OwnerInv'
    BY ClaimTypes DEF Moves, Claims, OwnerInv
  <1>. QED
    BY <1>2, <1>3, <1>4

(* Approval a moves between its claim and the saving of its outcome.        *)
LEMMA ClaimExecuting ==
  ASSUME Claims, NEW a \in Approvals, pc[a] \in Executing, NEW l, NEW r, Moves(a, l, r),
         UNCHANGED <<workflows, claimed>>,
         r.plan = rec[a].plan, r.approval = rec[a].approval,
         \/ l \in Executing /\ r = rec[a]
         \/ l = "save" /\ r.status \in {"completed", "failed"}
  PROVE  ClaimInv' /\ PendingInv' /\ OwnerInv'
  <1>0. \A x : Planned(x)' <=> Planned(x)
    BY DEF Moves, planVars, Planned
  <1>c. ClaimOk(a)
    BY DEF Claims, ClaimInv
  <1>d. /\ a \in claimed /\ claimed' = claimed
        /\ rec[a].status = "executing" /\ rec[a].approval = a /\ Planned(rec[a].plan)
    BY <1>c DEF ClaimOk
  <1>e. pc'[a] = l /\ rec'[a] = r /\ Planned(rec[a].plan)'
    BY <1>0, <1>d, ClaimTypes DEF Moves
  <1>1. ClaimOk(a)'
    BY <1>d, <1>e DEF ClaimOk, Executing, Late
  <1>2. ClaimInv'
    BY <1>0, <1>1, ClaimTypes DEF Moves, Claims, ClaimInv, ClaimOk
  <1>3. PendingInv'
    BY ClaimTypes DEF Moves, Claims, PendingInv
  <1>4. OwnerInv'
    BY ClaimTypes DEF Moves, Claims, OwnerInv, Executing
  <1>. QED
    BY <1>2, <1>3, <1>4

(* Approval a moves after its outcome is saved.                             *)
LEMMA ClaimLate ==
  ASSUME Claims, NEW a \in Approvals, pc[a] \in {"threadGet", "threadPut"},
         NEW l \in {"done", "threadPut"}, Moves(a, l, rec[a]),
         UNCHANGED <<workflows, claimed>>
  PROVE  ClaimInv' /\ PendingInv' /\ OwnerInv'
  <1>0. \A x : Planned(x)' <=> Planned(x)
    BY DEF Moves, planVars, Planned
  <1>c. ClaimOk(a)
    BY DEF Claims, ClaimInv
  <1>1. ClaimOk(a)'
    BY <1>0, <1>c, ClaimTypes DEF Moves, ClaimOk, Executing, Late
  <1>2. ClaimInv'
    BY <1>0, <1>1, ClaimTypes DEF Moves, Claims, ClaimInv, ClaimOk
  <1>3. PendingInv'
    BY ClaimTypes DEF Moves, Claims, PendingInv
  <1>4. OwnerInv'
    BY ClaimTypes DEF Moves, Claims, OwnerInv, Executing
  <1>. QED
    BY <1>2, <1>3, <1>4

(* Approval a saves its record, and is answered 500 if that failed.         *)
LEMMA ClaimSaved ==
  ASSUME Claims, NEW a \in Approvals, RecordStored(a), NEW l,
         UNCHANGED <<planVars, rec>>,
         \A g \in Handlers : pc'[g] = IF g = a THEN l ELSE pc[g],
         \A g \in Handlers \ {a} : resp'[g] = resp[g],
         \/ l = "done" /\ resp'[a] = "500"
         \/ l = IF rec[a].status = "executing" THEN "exchange" ELSE "threadGet"
  PROVE  ClaimInv' /\ PendingInv' /\ OwnerInv'
  <1>0. \A x : Planned(x)' <=> Planned(x)
    BY DEF planVars, Planned
  <1>c. ClaimOk(a) /\ HandlerOk(a)
    BY DEF Claims, ClaimInv, Control, HandlerInv
  <1>s. pc[a] = "save" /\ rec[a].status \in Settled /\ Planned(rec[a].plan)
    BY <1>c DEF RecordStored, HandlerOk
  <1>1. ClaimOk(a)'
    BY <1>0, <1>c, <1>s, ClaimTypes DEF RecordStored, ClaimOk, Executing, Late
  <1>2. ClaimInv'
    <2>1. \A b \in Approvals \ {a} : b \in claimed' <=> b \in claimed
      BY DEF RecordStored
    <2>. QED
      BY <1>0, <1>1, <2>1, ClaimTypes DEF Claims, ClaimInv, ClaimOk
  <1>k. \A w \in Workflows :
          \/ workflows'[w] = rec[a]
          \/ /\ workflows'[w] = workflows[w]
             /\ workflows[w].status # "absent" => workflows[w].plan # rec[a].plan
    BY DEF RecordStored, Claims, Control, StoreInv
  <1>3. PendingInv'
    <2> SUFFICES ASSUME NEW w \in Workflows, workflows'[w].status \in Pending,
                        NEW b \in claimed'
                 PROVE  rec[b].plan # workflows'[w].plan
      BY DEF PendingInv
    <2>1. workflows'[w] = workflows[w] /\ workflows[w].plan # rec[a].plan
      BY <1>k, <1>s DEF Pending, Settled
    <2>2. b \in claimed \/ b = a
      BY DEF RecordStored
    <2>. QED
      BY <2>1, <2>2 DEF Claims, PendingInv
  <1>4. OwnerInv'
    <2> SUFFICES ASSUME NEW w \in Workflows, workflows'[w].status = "executing"
                 PROVE  LET b == workflows'[w].approval IN
                        /\ b \in claimed' /\ rec[b].plan = workflows'[w].plan
                        /\ \/ pc'[b] \in Executing \cup {"save"}
                           \/ pc'[b] = "done" /\ resp'[b] \in {"500", "lost"}
      BY DEF OwnerInv
    <2>1. CASE workflows'[w] = rec[a]
      BY <1>c, <1>s, <2>1, ClaimTypes DEF ClaimOk, RecordStored, Executing
    <2>2. CASE workflows'[w] = workflows[w] /\ workflows[w].plan # rec[a].plan
      <3> DEFINE b == workflows[w].approval
      <3>1. /\ b \in claimed /\ rec[b].plan = workflows[w].plan
            /\ \/ pc[b] \in Executing \cup {"save"}
               \/ pc[b] = "done" /\ resp[b] \in {"500", "lost"}
        BY <2>2 DEF Claims, OwnerInv
      <3>2. b # a /\ b \in Handlers /\ b \in claimed'
        BY <2>2, <3>1, ClaimTypes DEF RecordStored
      <3>. QED
        BY <2>2, <3>1, <3>2
    <2>. QED
      BY <1>k, <2>1, <2>2
  <1>. QED
    BY <1>2, <1>3, <1>4

(* Nothing but handlers that stop: every claim stays what it was.           *)
LEMMA ClaimStops ==
  ASSUME Claims, UNCHANGED <<planVars, rec, claimed>>,
         \A w \in Workflows : workflows'[w] \in {workflows[w], NoWorkflow},
         \A g \in Handlers :
            \/ pc'[g] = pc[g] /\ resp'[g] = resp[g]
            \/ pc[g] # "idle" /\ pc'[g] = "done" /\ resp'[g] \in {"500", "lost"}
  PROVE  ClaimInv' /\ PendingInv' /\ OwnerInv'
  <1>0. \A x : Planned(x)' <=> Planned(x)
    BY DEF planVars, Planned
  <1>1. ClaimInv'
    <2> SUFFICES ASSUME NEW a \in Approvals PROVE ClaimOk(a)'
      BY DEF ClaimInv
    <2>1. ClaimOk(a)
      BY DEF Claims, ClaimInv
    <2>2. pc'[a] = pc[a] \/ pc'[a] = "done"
      BY ClaimTypes
    <2>. QED
      BY <1>0, <2>1, <2>2 DEF ClaimOk, Executing, Late
  <1>2. PendingInv'
    BY DEF Claims, PendingInv, Pending, NoWorkflow
  <1>3. OwnerInv'
    <2> SUFFICES ASSUME NEW w \in Workflows, workflows'[w].status = "executing"
                 PROVE  LET b == workflows'[w].approval IN
                        /\ b \in claimed' /\ rec'[b].plan = workflows'[w].plan
                        /\ \/ pc'[b] \in Executing \cup {"save"}
                           \/ pc'[b] = "done" /\ resp'[b] \in {"500", "lost"}
      BY DEF OwnerInv
    <2> DEFINE b == workflows[w].approval
    <2>1. workflows'[w] = workflows[w]
      BY DEF NoWorkflow
    <2>2. /\ b \in claimed /\ rec[b].plan = workflows[w].plan
          /\ \/ pc[b] \in Executing \cup {"save"}
             \/ pc[b] = "done" /\ resp[b] \in {"500", "lost"}
      BY <2>1 DEF Claims, OwnerInv
    <2>3. \/ pc'[b] = pc[b] /\ resp'[b] = resp[b]
          \/ pc'[b] = "done" /\ resp'[b] \in {"500", "lost"}
      BY <2>2, ClaimTypes
    <2>. QED
      BY <2>1, <2>2, <2>3
  <1>. QED
    BY <1>1, <1>2, <1>3

(* A planning request stores a record that nobody can have claimed.         *)
LEMMA ClaimPlan ==
  ASSUME Claims, NEW p \in Plans, PlanStored(p), UNCHANGED <<rec, claimed>>,
         \A b \in Approvals : pc'[b] = pc[b] /\ resp'[b] = resp[b],
         \A x : Planned(x) => Planned(x)'
  PROVE  ClaimInv' /\ PendingInv' /\ OwnerInv'
  <1>1. ClaimInv'
    BY DEF Claims, ClaimInv, ClaimOk
  <1>2. \A b \in Approvals : rec[b].plan # p
    BY DEF PlanStored, Claims, Control, PlanInv
  <1>3. \A w \in Workflows :
          \/ workflows'[w] = workflows[w]
          \/ workflows'[w].plan = p /\ workflows'[w].status \in Pending
    BY DEF PlanStored, PlannedRecord, Pending
  <1>4. PendingInv'
    BY <1>2, <1>3, ClaimTypes DEF Claims, PendingInv
  <1>5. OwnerInv'
    BY <1>3, ClaimTypes DEF Claims, OwnerInv, Pending
  <1>. QED
    BY <1>1, <1>4, <1>5

(* A request that has not acted yet has claimed nothing.                    *)
LEMMA ClaimUnmade ==
  ASSUME Claims, NEW a \in Approvals, pc[a] \in {"idle", "require", "authctx"}
  PROVE  a \notin claimed
  BY DEF Claims, ClaimInv, ClaimOk, Executing, Late

(* The steps of an approval request.                                        *)
LEMMA ClaimApprove ==
  ASSUME Claims, NEW a \in Approvals, StartApprove(a) \/ ApproveStep(a)
  PROVE  ClaimInv' /\ PendingInv' /\ OwnerInv'
  <1>0. Control /\ ClaimOk(a) /\ rec[a] \in WorkflowRecord
    BY ClaimTypes DEF Claims, ClaimInv
  <1>1. CASE StartApprove(a)
    BY <1>0, <1>1, StartEffect, ClaimUnmade, ClaimEarly DEF storeVars, Executing
  <1>2. CASE RequireWorkflow(a)
    <2> DEFINE s == workflows[asked[a].wf]
    <2>1. /\ pc[a] = "require" /\ UNCHANGED <<workflows, claimed>>
          /\ \/ Moves(a, "done", rec[a])
             \/ \E l, r : Moves(a, l, r) /\ Required(a, s, l, r)
      BY <1>0, <1>2, RequireEffect DEF storeVars
    <2>2. a \notin claimed
      BY <2>1, ClaimUnmade
    <2>3. CASE Moves(a, "done", rec[a])
      BY <2>1, <2>2, <2>3, ClaimEarly DEF Executing
    <2>4. ASSUME NEW l, NEW r, Moves(a, l, r), Required(a, s, l, r)
          PROVE  ClaimInv' /\ PendingInv' /\ OwnerInv'
      <3>1. l \notin Executing /\ (l = "save" => r.status = "cancelled")
        <4>1. s \in WorkflowRecord
          BY <1>0, <2>1, HandlerReads
        <4>. QED
          BY <2>4, <4>1 DEF Required, Executing, WorkflowRecord
      <3>. QED
        BY <2>1, <2>2, <2>4, <3>1, ClaimEarly
    <2>. QED
      BY <2>1, <2>3, <2>4
  <1>3. CASE GetAuthContext(a)
    <2> DEFINE r == [rec[a] EXCEPT !.status = "executing", !.approval = a]
    <2>1. /\ pc[a] = "authctx" /\ UNCHANGED <<workflows, claimed>>
          /\ Moves(a, "done", rec[a]) \/ Moves(a, "save", r)
      BY <1>0, <1>3, AuthEffect DEF storeVars
    <2>2. a \notin claimed /\ r.status = "executing" /\ r.approval = a
      BY <1>0, <2>1, ClaimUnmade DEF WorkflowRecord
    <2> HIDE DEF r
    <2>. QED
      BY <2>1, <2>2, ClaimEarly DEF Executing
  <1>4. CASE SaveWorkflow(a)
    <2> DEFINE l == IF rec[a].status = "executing" THEN "exchange" ELSE "threadGet"
    <2>1. RecordStored(a) /\ Moves(a, l, rec[a])
      BY <1>0, <1>4, SaveEffect DEF RecordStored
    <2>2. /\ UNCHANGED planVars /\ UNCHANGED rec
          /\ \A g \in Handlers : pc'[g] = IF g = a THEN l ELSE pc[g]
          /\ \A g \in Handlers \ {a} : resp'[g] = resp[g]
      BY <1>4, <2>1 DEF SaveWorkflow, apprVars, Moves
    <2>. QED
      BY <2>1, <2>2, ClaimSaved
  <1>5. CASE ExchangeToken(a) \/ DispatchStep(a) \/ ReceiveReply(a) \/ EgressTimeout(a)
    <2>1. /\ pc[a] \in Executing /\ UNCHANGED <<workflows, claimed>>
          /\ \/ \E l \in Executing : Moves(a, l, rec[a])
             \/ \E st \in {"completed", "failed"} :
                  Moves(a, "save", [rec[a] EXCEPT !.status = st])
      BY <1>0, <1>5, ExchangeEffect, DispatchEffect, ReceiveEffect, TimeoutEffect
      DEF storeVars, Executing, Failed
    <2>2. ASSUME NEW l \in Executing, Moves(a, l, rec[a])
          PROVE  ClaimInv' /\ PendingInv' /\ OwnerInv'
      BY <2>1, <2>2, ClaimExecuting
    <2>3. ASSUME NEW st \in {"completed", "failed"},
                 Moves(a, "save", [rec[a] EXCEPT !.status = st])
          PROVE  ClaimInv' /\ PendingInv' /\ OwnerInv'
      <3> DEFINE r == [rec[a] EXCEPT !.status = st]
      <3>1. r.plan = rec[a].plan /\ r.approval = rec[a].approval /\ r.status = st
        BY <1>0 DEF WorkflowRecord
      <3> HIDE DEF r
      <3>2. Moves(a, "save", r)
        BY <2>3 DEF r
      <3>. QED
        BY <2>1, <3>1, <3>2, ClaimExecuting
    <2>. QED
      BY <2>1, <2>2, <2>3
  <1>6. CASE GetThread(a) \/ SaveThread(a)
    <2>1. /\ pc[a] \in {"threadGet", "threadPut"} /\ UNCHANGED <<workflows, claimed>>
          /\ Moves(a, "done", rec[a]) \/ Moves(a, "threadPut", rec[a])
      BY <1>0, <1>6, ThreadEffect
    <2>. QED
      BY <2>1, ClaimLate
  <1>. QED
    BY <1>1, <1>2, <1>3, <1>4, <1>5, <1>6 DEF ApproveStep

(* Every step keeps every claim.                                            *)
LEMMA ClaimStep ==
  ASSUME Claims, [Next]_vars
  PROVE  Claims'
  <1>0. Control
    BY DEF Claims
  <1>1. Control'
    BY <1>0, ControlStep
  <1>2. ClaimInv' /\ PendingInv' /\ OwnerInv'
    <2>1. ASSUME NEW p \in Plans, StartPlan(p) \/ PlanStep(p) \/ CancelRun(p)
          PROVE  ClaimInv' /\ PendingInv' /\ OwnerInv'
      <3>1. /\ UNCHANGED <<rec, claimed>>
            /\ \A b \in Approvals : pc'[b] = pc[b] /\ resp'[b] = resp[b]
            /\ \A x : Planned(x) => Planned(x)'
            /\ UNCHANGED workflows \/ PlanStored(p)
        BY <1>0, <2>1, PlanEffect DEF apprVars
      <3>2. CASE PlanStored(p)
        BY <3>1, <3>2, ClaimPlan
      <3>3. CASE UNCHANGED workflows
        BY <3>1, <3>3, ClaimTypes
        DEF Claims, ClaimInv, ClaimOk, PendingInv, OwnerInv
      <3>. QED
        BY <3>1, <3>2, <3>3
    <2>2. ASSUME NEW a \in Approvals, StartApprove(a) \/ ApproveStep(a)
          PROVE  ClaimInv' /\ PendingInv' /\ OwnerInv'
      BY <2>2, ClaimApprove
    <2>3. ASSUME NEW a \in Approvals, EgressNext(a)
          PROVE  ClaimInv' /\ PendingInv' /\ OwnerInv'
      <3>1. UNCHANGED <<workflows, pc, resp, planVars, rec, claimed>>
        BY <1>0, <2>3, EgressEffect DEF apprVars
      <3>. QED
        BY <3>1, ClaimStops
    <2>4. ASSUME NEW h \in Handlers, StoreFails(h)
          PROVE  ClaimInv' /\ PendingInv' /\ OwnerInv'
      <3>1. /\ UNCHANGED <<planVars, rec>> /\ pc[h] # "idle"
            /\ \A g \in Handlers : /\ pc'[g] = IF g = h THEN "done" ELSE pc[g]
                                   /\ resp'[g] = IF g = h THEN "500" ELSE resp[g]
        BY <1>0, <2>4, StoreFailsEffect DEF apprVars
      <3>2. CASE UNCHANGED <<workflows, claimed>>
        BY <3>1, <3>2, ClaimStops
      <3>3. CASE h \in Plans /\ PlanStored(h) /\ UNCHANGED claimed
        BY <3>1, <3>3, ClaimTypes, ClaimPlan DEF planVars, Planned
      <3>4. CASE h \in Approvals /\ RecordStored(h)
        BY <3>1, <3>4, ClaimTypes, ClaimSaved
      <3>. QED
        BY <1>0, <2>4, <3>2, <3>3, <3>4, StoreFailsEffect
    <2>5. CASE Environment
      BY <1>0, <2>5, EnvironmentEffect, ClaimStops DEF apprVars
    <2>. QED
      BY <2>1, <2>2, <2>3, <2>4, <2>5, StepKinds
  <1>. QED
    BY <1>1, <1>2 DEF Claims

(* Nothing is claimed at the start.                                         *)
LEMMA ClaimsInit == Init => Claims
  <1> SUFFICES ASSUME Init PROVE Claims
    OBVIOUS
  <1>1. Control
    BY ControlInit
  <1>2. ClaimInv /\ PendingInv /\ OwnerInv
    BY DEF Init, ClaimInv, ClaimOk, PendingInv, OwnerInv, NoWorkflow, Handlers, Executing,
           Pending
  <1>. QED
    BY <1>1, <1>2 DEF Claims

(* The claims hold in every reachable state.                                *)
LEMMA ClaimsAlways == Spec => []Claims
  BY ClaimsInit, ClaimStep, PTL DEF Spec

(* Only RequireWorkflow takes a request past its reading of the record.     *)
LEMMA OnlyRequire ==
  ASSUME Control, [Next]_vars, NEW a \in Approvals,
         pc[a] = "require", pc'[a] \in {"authctx", "save"}
  PROVE  RequireWorkflow(a)
  <1>0. a \in Handlers /\ a \notin Plans /\ Approvals \subseteq Handlers
    BY PlanInputsAssumption DEF Handlers
  <1>1. ASSUME NEW p \in Plans, StartPlan(p) \/ PlanStep(p) \/ CancelRun(p)
        PROVE  FALSE
    BY <1>1, PlanEffect
  <1>2. ASSUME NEW b \in Approvals, StartApprove(b) \/ ApproveStep(b), ~RequireWorkflow(a)
        PROVE  FALSE
    <2>1. b = a
      <3>1. CASE StartApprove(b)
        BY <1>0, <3>1, StartEffect DEF Moves
      <3>2. CASE RequireWorkflow(b)
        BY <1>0, <3>2, RequireEffect DEF Moves
      <3>3. CASE GetAuthContext(b)
        BY <1>0, <3>3, AuthEffect DEF Moves
      <3>4. CASE SaveWorkflow(b)
        BY <1>0, <3>4, SaveEffect DEF Moves
      <3>5. CASE ExchangeToken(b) \/ DispatchStep(b)
        BY <1>0, <3>5, ExchangeEffect, DispatchEffect DEF Moves
      <3>6. CASE ReceiveReply(b) \/ EgressTimeout(b)
        BY <1>0, <3>6, ReceiveEffect, TimeoutEffect DEF Moves
      <3>7. CASE GetThread(b) \/ SaveThread(b)
        BY <1>0, <3>7, ThreadEffect DEF Moves
      <3>. QED
        BY <1>2, <3>1, <3>2, <3>3, <3>4, <3>5, <3>6, <3>7 DEF ApproveStep
    <2>. QED
      BY <1>2, <2>1
      DEF StartApprove, ApproveStep, GetAuthContext, SaveWorkflow, WriteWorkflow,
          ExchangeToken, DispatchStep, ReceiveReply, EgressTimeout, GetThread, SaveThread,
          WriteThread
  <1>3. ASSUME NEW b \in Approvals, EgressNext(b) PROVE FALSE
    BY <1>3, EgressEffect
  <1>4. ASSUME NEW h \in Handlers, StoreFails(h) PROVE FALSE
    BY <1>0, <1>4, StoreFailsEffect
  <1>5. CASE Environment
    BY <1>0, <1>5, EnvironmentEffect
  <1>. QED
    BY <1>1, <1>2, <1>3, <1>4, <1>5, StepKinds

(* A record that says "executing" always has an owner: the handler of the   *)
(* approval it names is at work on it, or was lost to a crash or answered   *)
(* 500 for a Redis error; no Auth0 or gateway failure leaves it behind.     *)
THEOREM ExecutingOwned == Spec => []ExecutingHasOwner
  <1>1. Claims => ExecutingHasOwner
    BY DEF Claims, OwnerInv, ExecutingHasOwner, Executing
  <1>. QED
    BY <1>1, ClaimsAlways, PTL

(* Once an approval of a plan has been stored, no later read of its record  *)
(* gets past the status check of approve_workflow: whatever is re-planned,  *)
(* cancelled, lost or restarted meanwhile, the plan is not acted on again   *)
(* by a request that reads the store after the claim.                       *)
THEOREM ClaimsRespected == Spec => NoActionAfterClaim
  <1> DEFINE Respected ==
        \A a \in Approvals :
          pc[a] = "require" /\ pc'[a] \in {"authctx", "save"} =>
              \A b \in claimed : rec[b].plan # rec'[a].plan
  <1>1. Claims /\ [Next]_vars => Respected
    <2> SUFFICES ASSUME Claims, [Next]_vars, NEW a \in Approvals,
                        pc[a] = "require", pc'[a] \in {"authctx", "save"},
                        NEW b \in claimed
                 PROVE  rec[b].plan # rec'[a].plan
      OBVIOUS
    <2>0. Control /\ a \in Handlers
      BY ClaimTypes DEF Claims
    <2>1. RequireWorkflow(a)
      BY <2>0, OnlyRequire
    <2>2. PICK l, r : Moves(a, l, r) /\ Required(a, workflows[asked[a].wf], l, r)
      BY <2>0, <2>1, RequireEffect DEF Moves
    <2>3. /\ asked[a].wf \in Workflows /\ rec'[a].plan = workflows[asked[a].wf].plan
          /\ workflows[asked[a].wf].status \in Pending
      BY <2>0, <2>1, <2>2, RequireEffect, ClaimTypes DEF Moves, Required, WorkflowRecord
    <2>. QED
      BY <2>3 DEF Claims, PendingInv
  <1>2. [][Respected]_vars <=> NoActionAfterClaim
    BY DEF NoActionAfterClaim
  <1>. QED
    BY <1>1, <1>2, ClaimsAlways, PTL DEF Spec
===============================================================================
