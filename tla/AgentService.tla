----------------------------- MODULE AgentService -----------------------------
(***************************************************************************)
(* The agent service: planning requests, approval requests, token-context  *)
(* registration and threads of one tenant/user/session scope, over its     *)
(* Redis store, with the egress gateway as its downstream.                 *)
(*                                                                         *)
(* A handler is a coroutine; it can be interleaved with every other at     *)
(* each await, so each await (Redis command, Auth0 exchange, egress call)  *)
(* is one action and pc[h] names the await the handler h has reached.      *)
(* Store writes are whole-record SETs without any condition.               *)
(***************************************************************************)
EXTENDS EgressGateway, FiniteSets

CONSTANTS
    Workflows,    \* workflow ids
    Threads,      \* thread ids
    TokenRefs,    \* token references
    PlanInputs,   \* what planning requests can dispatch to, see PlanInput
    ApprovalTTL,  \* timedelta(minutes=15), in ticks
    ContextTTL,   \* timedelta(minutes=5), in ticks
    MaxTime,      \* bound on the clock
    MaxInFlight,  \* bound on concurrent handlers
    MaxFaults     \* bound on crashes, Redis errors and lost keys

Step == [mcp : BOOLEAN, scopes : SUBSET Scopes]

(* The outcome of dispatching one planning request: the workflow id is a    *)
(* hash of the query and the tool names, so different requests may share    *)
(* it; "mcp" says whether the step's tool has a downstream_audience, "text"  *)
(* whether the language model said anything (POST /workflows/plan never).   *)
PlanInput ==
    [wf : Workflows, steps : Seq(Step), hitl : BOOLEAN, text : BOOLEAN,
     thread : Threads \cup {None}, token : TokenRefs \cup {None}]

ASSUME PlanInputsAssumption ==
    /\ PlanInputs \subseteq PlanInput
    /\ Plans \cap Approvals = {}
    /\ None \notin Threads \cup TokenRefs \cup Workflows \cup PlanInputs

ASSUME BoundsAssumption ==
    /\ ApprovalTTL \in Nat \ {0} /\ ContextTTL \in Nat \ {0}
    /\ MaxTime \in Nat /\ MaxInFlight \in Nat /\ MaxFaults \in Nat

VARIABLES
    workflows,  \* Redis: workflow id -> WorkflowRecord
    threads,    \* Redis: thread id -> ThreadRecord
    tokens,     \* Redis: the token_refs with a registered auth context
    session,    \* Redis: the token_ref of the SessionRecord
    faults,     \* faults so far
    pc,         \* pc[h]: the await handler h has reached
    resp,       \* resp[h]: how handler h was answered
    content,    \* content[p]: what planning request p dispatched to
    history,    \* history[p]: request.messages of planning request p
    asked,      \* asked[a]: the path and body of approval request a
    rec,        \* rec[a]: the WorkflowRecord held by approval handler a
    thr,        \* thr[h]: the ThreadRecord held by handler h
    expires,    \* expires[a]: expires_at of the ApprovedWorkflow made by a
    scopes,     \* scopes[a]: scopes of the on-behalf-of token obtained by a
    next,       \* next[a]: the step _execute_approved_steps has reached
    claimed     \* history variable: approvals whose "executing" record was stored

storeVars == <<workflows, threads, tokens, session>>
envVars == <<now, faults>>
planVars == <<content, history>>
apprVars == <<asked, rec, expires, scopes, next>>
localVars == <<pc, resp, thr, planVars, apprVars>>
vars == <<envVars, egressVars, storeVars, localVars, claimed>>

------------------------------------------------------------------------------
(* Records.  A plan stands for plan_hash, proposal, policy, thread_id and   *)
(* token_ref of the WorkflowRecord, all fixed when the plan is made.        *)
Handlers == Plans \cup Approvals
Pending == {"awaiting_approval", "ready"}
Settled == {"cancelled", "completed", "executing", "failed"}

WorkflowRecord ==
    [plan : Plans \cup {None}, status : Pending \cup Settled \cup {"absent"},
     approval : Approvals \cup {None}]
NoWorkflow == [plan |-> None, status |-> "absent", approval |-> None]

(* "msgs" are the planning runs whose assistant message is in the thread,   *)
(* "workflow" is the public workflow payload that active_workflow_id names. *)
ThreadRecord ==
    [present : BOOLEAN, msgs : SUBSET Plans, workflow : WorkflowRecord]
NoThread == [present |-> FALSE, msgs |-> {}, workflow |-> NoWorkflow]

(* request.messages: whether there are any, and the runs whose assistant    *)
(* message is among them.                                                   *)
History == [sent : BOOLEAN, runs : SUBSET Plans]
NoHistory == [sent |-> FALSE, runs |-> {}]

ApprovalRequest == [wf : Workflows, hash : Plans, approved : BOOLEAN]

PCs == {"idle", "session", "require", "authctx", "save", "exchange",
        "dispatch", "await", "threadGet", "threadPut", "done"}
Answers == {"none", "200", "400", "404", "409", "500", "502", "lost"}

TypeOK ==
    /\ now \in Nat
    /\ EgressTypeOK
    /\ workflows \in [Workflows -> WorkflowRecord]
    /\ threads \in [Threads -> ThreadRecord]
    /\ tokens \subseteq TokenRefs
    /\ session \in TokenRefs \cup {None}
    /\ faults \in Nat
    /\ pc \in [Handlers -> PCs]
    /\ resp \in [Handlers -> Answers]
    /\ content \in [Plans -> PlanInputs \cup {None}]
    /\ history \in [Plans -> History]
    /\ asked \in [Approvals -> ApprovalRequest \cup {None}]
    /\ rec \in [Approvals -> WorkflowRecord]
    /\ thr \in [Handlers -> ThreadRecord]
    /\ expires \in [Approvals -> Nat]
    /\ scopes \in [Approvals -> SUBSET Scopes]
    /\ next \in [Approvals -> Nat]
    /\ claimed \subseteq Approvals

Init ==
    /\ now = 0
    /\ EgressInit
    /\ workflows = [w \in Workflows |-> NoWorkflow]
    /\ threads = [t \in Threads |-> NoThread]
    /\ tokens = {}
    /\ session = None
    /\ faults = 0
    /\ pc = [h \in Handlers |-> "idle"]
    /\ resp = [h \in Handlers |-> "none"]
    /\ content = [p \in Plans |-> None]
    /\ history = [p \in Plans |-> NoHistory]
    /\ asked = [a \in Approvals |-> None]
    /\ rec = [a \in Approvals |-> NoWorkflow]
    /\ thr = [h \in Handlers |-> NoThread]
    /\ expires = [a \in Approvals |-> 0]
    /\ scopes = [a \in Approvals |-> {}]
    /\ next = [a \in Approvals |-> 0]
    /\ claimed = {}

------------------------------------------------------------------------------
(* Moves of one handler.                                                    *)
InFlight == {h \in Handlers : pc[h] \notin {"idle", "done"}}

Goto(h, l) == pc' = [pc EXCEPT ![h] = l] /\ UNCHANGED <<resp, thr>>

\* get_thread returned t: the handler holds it until its save_thread.
HoldThread(h, t) ==
    /\ thr' = [thr EXCEPT ![h] = threads[t]]
    /\ pc' = [pc EXCEPT ![h] = "threadPut"]
    /\ UNCHANGED resp

Reply(h, code) ==
    /\ pc' = [pc EXCEPT ![h] = "done"]
    /\ resp' = [resp EXCEPT ![h] = code]
    /\ thr' = [thr EXCEPT ![h] = NoThread]

(* What handler h's pending store command writes.                           *)
PlanOf(h) == IF h \in Plans THEN h ELSE rec[h].plan

\* Mutant: the status of the proposal instead of that of the policy decision.
PlannedAsProposed(p) == [plan |-> p, approval |-> None, status |-> "proposed"]

\* The WorkflowRecord built by _plan_workflow_from_intents.
PlannedRecord(p) ==
    [plan |-> p, approval |-> None,
     status |-> IF content[p].hitl THEN "awaiting_approval" ELSE "ready"]

RecordOf(h) == IF h \in Plans THEN PlannedRecord(h) ELSE rec[h]

\* _assistant_thread_message: a run without text and without steps adds nothing.
Said(p) == IF content[p].text \/ content[p].steps # <<>> THEN {p} ELSE {}

\* Mutant: the history is taken from the request alone.
ThreadFromRequest(p) ==
    [present |-> TRUE, msgs |-> history[p].runs \cup Said(p), workflow |-> PlannedRecord(p)]

\* _save_thread_snapshot_for_workflow rebuilds the thread around the new plan.
PlannedThread(p) ==
    [present |-> TRUE,
     msgs |-> (IF history[p].sent THEN history[p].runs ELSE thr[p].msgs) \cup Said(p),
     workflow |-> PlannedRecord(p)]

\* _save_thread_workflow_state copies the thread it read and re-points it.
RepointedThread(a) == [thr[a] EXCEPT !.workflow = rec[a]]

ThreadOf(h) == IF h \in Plans THEN PlannedThread(h) ELSE RepointedThread(h)

(* The three Redis SETs: upsert_session, save_workflow, save_thread.        *)
WriteSession(h) ==
    /\ pc[h] = "session"
    /\ session' = content[h].token
    /\ UNCHANGED <<workflows, threads, tokens, claimed>>

WriteWorkflow(h) ==
    /\ pc[h] = "save"
    /\ workflows' = [workflows EXCEPT ![content[PlanOf(h)].wf] = RecordOf(h)]
    /\ claimed' = IF RecordOf(h).status = "executing" THEN claimed \cup {h} ELSE claimed
    /\ UNCHANGED <<threads, tokens, session>>

WriteThread(h) ==
    /\ pc[h] = "threadPut"
    /\ threads' = [threads EXCEPT ![content[PlanOf(h)].thread] = ThreadOf(h)]
    /\ UNCHANGED <<workflows, tokens, session, claimed>>

------------------------------------------------------------------------------
(* POST /runs/stream and POST /workflows/plan.                              *)

(* The messages a client may send for a thread: none, or any it has seen.   *)
(* The browser's are those of its tab, which may have lost a stream or gone *)
(* back to an earlier message; without a thread they are not stored.        *)
RunsOf(t) == {o \in Plans : content[o] # None /\ content[o].thread = t}

Histories(t) ==
    {NoHistory} \cup
    {[sent |-> TRUE, runs |-> S] : S \in IF t = None THEN {} ELSE SUBSET RunsOf(t)}

\* A request arrives and its intents are dispatched.
StartPlan(p) ==
    /\ pc[p] = "idle"
    /\ Cardinality(InFlight) < MaxInFlight
    /\ \E q \in PlanInputs :
         /\ content' = [content EXCEPT ![p] = q]
         /\ \E m \in Histories(q.thread) : history' = [history EXCEPT ![p] = m]
    /\ Goto(p, "session")
    /\ UNCHANGED <<envVars, egressVars, storeVars, apprVars, claimed>>

PlanUpsertSession(p) ==
    /\ WriteSession(p)
    /\ Goto(p, "save")
    /\ UNCHANGED <<envVars, egressVars, planVars, apprVars>>

PlanSaveWorkflow(p) ==
    /\ WriteWorkflow(p)
    /\ \/ content[p].thread = None /\ Reply(p, "200")
       \/ content[p].thread # None /\ Goto(p, "threadGet")
    /\ UNCHANGED <<envVars, egressVars, planVars, apprVars>>

PlanGetThread(p) ==
    /\ pc[p] = "threadGet"
    /\ HoldThread(p, content[p].thread)
    /\ UNCHANGED <<envVars, egressVars, storeVars, planVars, apprVars, claimed>>

PlanSaveThread(p) ==
    /\ WriteThread(p)
    /\ Reply(p, "200")
    /\ UNCHANGED <<envVars, egressVars, planVars, apprVars>>

(* The consumer of the event stream goes away (the gateway's 10 s client    *)
(* timeout is shorter than the runtime's 25 s): the generator is cancelled  *)
(* at the await it is suspended in.                                         *)
CancelRun(p) ==
    /\ p \in InFlight
    /\ Reply(p, "lost")
    /\ UNCHANGED <<envVars, egressVars, storeVars, planVars, apprVars, claimed>>

PlanStep(p) ==
    \/ PlanUpsertSession(p)
    \/ PlanSaveWorkflow(p)
    \/ PlanGetThread(p)
    \/ PlanSaveThread(p)

------------------------------------------------------------------------------
(* POST /workflows/{workflow_id}/approve.                                   *)

\* A request arrives; its signed session context has been verified.
StartApprove(a) ==
    /\ pc[a] = "idle"
    /\ Cardinality(InFlight) < MaxInFlight
    /\ \E r \in ApprovalRequest : asked' = [asked EXCEPT ![a] = r]
    /\ Goto(a, "require")
    /\ UNCHANGED <<envVars, egressVars, storeVars, planVars, rec, expires, scopes, next, claimed>>

\* Mutants: one of the four statuses is forgotten.
SettledButExecuting(status) == status \in Settled \ {"executing"}
SettledButFailed(status) == status \in Settled \ {"failed"}
SettledButCompleted(status) == status \in Settled \ {"completed"}

\* The statuses that make an approval request return without doing anything.
AlreadySettled(status) == status \in Settled

\* Mutant: the plan_hash of the request is not compared.
HashUnchecked(a) == TRUE

\* The client's plan_hash must be the hash of the stored manifest.
HashMatches(a) == asked[a].hash = workflows[asked[a].wf].plan

\* _require_workflow and every check up to the next await.
RequireWorkflow(a) ==
    LET r == workflows[asked[a].wf] IN
    /\ pc[a] = "require"
    /\ \/ /\ r.status = "absent"
          /\ Reply(a, "404") /\ UNCHANGED rec
       \/ /\ r.status # "absent" /\ ~HashMatches(a)
          /\ Reply(a, "409") /\ UNCHANGED rec
       \/ /\ r.status # "absent" /\ HashMatches(a) /\ AlreadySettled(r.status)
          /\ rec' = [rec EXCEPT ![a] = r]
          /\ Goto(a, "threadGet")
       \/ /\ r.status # "absent" /\ HashMatches(a) /\ ~AlreadySettled(r.status)
          /\ ~asked[a].approved
          /\ rec' = [rec EXCEPT ![a] = [r EXCEPT !.status = "cancelled"]]
          /\ Goto(a, "save")
       \/ /\ r.status # "absent" /\ HashMatches(a) /\ ~AlreadySettled(r.status)
          /\ asked[a].approved
          /\ content[r.plan].token = None
          /\ Reply(a, "400") /\ UNCHANGED rec
       \/ /\ r.status # "absent" /\ HashMatches(a) /\ ~AlreadySettled(r.status)
          /\ asked[a].approved
          /\ content[r.plan].token # None
          /\ rec' = [rec EXCEPT ![a] = r]
          /\ Goto(a, "authctx")
    /\ UNCHANGED <<envVars, egressVars, storeVars, planVars, asked, expires, scopes, next, claimed>>

\* get_auth_context; the ApprovedWorkflow is made when it is found.
GetAuthContext(a) ==
    /\ pc[a] = "authctx"
    /\ \/ /\ content[rec[a].plan].token \notin tokens
          /\ Reply(a, "400") /\ UNCHANGED <<rec, expires>>
       \/ /\ content[rec[a].plan].token \in tokens
          /\ expires' = [expires EXCEPT ![a] = now + ApprovalTTL]
          /\ rec' = [rec EXCEPT ![a] =
                        [rec[a] EXCEPT !.status = "executing", !.approval = a]]
          /\ Goto(a, "save")
    /\ UNCHANGED <<envVars, egressVars, storeVars, planVars, asked, scopes, next, claimed>>

\* Mutant: the thread is not updated after the record.
SaveWorkflowOnly(a) ==
    /\ WriteWorkflow(a)
    /\ \/ rec[a].status = "executing" /\ Goto(a, "exchange")
       \/ rec[a].status # "executing" /\ Reply(a, "200")
    /\ UNCHANGED <<envVars, egressVars, planVars, apprVars>>

\* save_workflow of the cancelled, executing, completed or failed record.
SaveWorkflow(a) ==
    /\ WriteWorkflow(a)
    /\ Goto(a, IF rec[a].status = "executing" THEN "exchange" ELSE "threadGet")
    /\ UNCHANGED <<envVars, egressVars, planVars, apprVars>>

\* Mutant: the exception is answered without saving the failed record.
FailUnsaved(a) ==
    /\ rec' = [rec EXCEPT ![a].status = "failed"]
    /\ Goto(a, "threadGet")

\* An exception between claim and completion: _mark_workflow_failed comes next.
Fail(a) ==
    /\ rec' = [rec EXCEPT ![a].status = "failed"]
    /\ Goto(a, "save")

(* _exchange_obo_token: Auth0 may grant fewer or other scopes than asked    *)
(* for, refuse, answer for another audience, or not answer within 10 s.     *)
ExchangeToken(a) ==
    /\ pc[a] = "exchange"
    /\ \/ /\ \E S \in SUBSET Scopes : scopes' = [scopes EXCEPT ![a] = S]
          /\ next' = [next EXCEPT ![a] = 1]
          /\ Goto(a, "dispatch") /\ UNCHANGED rec
       \/ Fail(a) /\ UNCHANGED <<scopes, next>>
    /\ UNCHANGED <<envVars, egressVars, storeVars, planVars, asked, expires, claimed>>

ApprovalExpired(a) == expires[a] <= now

EgressRequest(a, s) ==
    [st |-> "sent", plan |-> rec[a].plan, step |-> next[a], need |-> s.scopes,
     have |-> scopes[a], expires |-> expires[a], ctxExpires |-> now + ContextTTL,
     authorized |-> 0]

\* The head of the loop of _execute_approved_steps, and the end of the loop.
DispatchStep(a) ==
    LET steps == content[rec[a].plan].steps IN
    /\ pc[a] = "dispatch"
    /\ \/ /\ next[a] > Len(steps)
          /\ rec' = [rec EXCEPT ![a].status = "completed"]
          /\ Goto(a, "save") /\ UNCHANGED wire
       \/ /\ next[a] <= Len(steps)
          /\ ApprovalExpired(a) \/ ~steps[next[a]].mcp
          /\ Fail(a) /\ UNCHANGED wire
       \/ /\ next[a] <= Len(steps)
          /\ ~ApprovalExpired(a) /\ steps[next[a]].mcp
          /\ wire' = [wire EXCEPT ![a] = EgressRequest(a, steps[next[a]])]
          /\ Goto(a, "await") /\ UNCHANGED rec
    /\ UNCHANGED <<envVars, calls, storeVars, planVars, asked, expires, scopes, next, claimed>>

\* Mutant: only the HTTP status counts, not the status in the answer.
HttpStatusOk(a) == wire[a].st \in {"completed", "failed"}

\* raise_for_status and _egress_result_failed decide whether the loop goes on.
ReplySucceeded(a) == wire[a].st = "completed"

ReceiveReply(a) ==
    /\ pc[a] = "await"
    /\ wire[a].st \in {"completed", "failed", "http_error"}
    /\ \/ /\ ReplySucceeded(a)
          /\ next' = [next EXCEPT ![a] = next[a] + 1]
          /\ Goto(a, "dispatch") /\ UNCHANGED rec
       \/ /\ ~ReplySucceeded(a)
          /\ Fail(a) /\ UNCHANGED next
    /\ wire' = [wire EXCEPT ![a] = NoMessage]
    /\ UNCHANGED <<envVars, calls, storeVars, planVars, asked, expires, scopes, claimed>>

\* Mutant: the step is sent again when the gateway did not answer in time.
RetryAfterTimeout(a) ==
    /\ pc[a] = "await"
    /\ Goto(a, "dispatch")
    /\ UNCHANGED <<envVars, egressVars, storeVars, planVars, apprVars, claimed>>

\* Mutant: the client waits without a timeout.
NoTimeout(a) == FALSE

(* The 20 s client timeout, or a lost connection.  The gateway is not told: *)
(* the request stays on the wire.                                           *)
EgressTimeout(a) ==
    /\ pc[a] = "await"
    /\ Fail(a)
    /\ UNCHANGED <<envVars, egressVars, storeVars, planVars, asked, expires, scopes, next, claimed>>

\* A failure of this very approval is re-raised as a 502.
Answer(a) == IF rec[a].status = "failed" /\ rec[a].approval = a THEN "502" ELSE "200"

ThreadStored(t) == t # None /\ threads[t].present

\* _save_thread_workflow_state, up to its get_thread.
GetThread(a) ==
    LET t == content[rec[a].plan].thread IN
    /\ pc[a] = "threadGet"
    /\ \/ /\ ~ThreadStored(t)
          /\ Reply(a, Answer(a))
       \/ /\ ThreadStored(t)
          /\ HoldThread(a, t)
    /\ UNCHANGED <<envVars, egressVars, storeVars, planVars, apprVars, claimed>>

SaveThread(a) ==
    /\ WriteThread(a)
    /\ Reply(a, Answer(a))
    /\ UNCHANGED <<envVars, egressVars, planVars, apprVars>>

ApproveStep(a) ==
    \/ RequireWorkflow(a)
    \/ GetAuthContext(a)
    \/ SaveWorkflow(a)
    \/ ExchangeToken(a)
    \/ DispatchStep(a)
    \/ ReceiveReply(a)
    \/ EgressTimeout(a)
    \/ GetThread(a)
    \/ SaveThread(a)

------------------------------------------------------------------------------
(* The requests with a single store command.                                *)

\* POST /token-context, sent by the frontend's login callback.
RegisterTokenContext(t) ==
    /\ t \notin tokens
    /\ tokens' = tokens \cup {t}
    /\ UNCHANGED <<envVars, egressVars, workflows, threads, session, localVars, claimed>>

\* POST /threads: the id is fresh and the frontend sends no messages.
CreateThread(t) ==
    /\ ~threads[t].present
    /\ threads' = [threads EXCEPT ![t] = [NoThread EXCEPT !.present = TRUE]]
    /\ UNCHANGED <<envVars, egressVars, workflows, tokens, session, localVars, claimed>>

------------------------------------------------------------------------------
(* Time and faults.                                                         *)
Tick ==
    /\ now < MaxTime
    /\ now' = now + 1
    /\ UNCHANGED <<egressVars, storeVars, faults, localVars, claimed>>

Fault == faults < MaxFaults /\ faults' = faults + 1

(* A Redis command of handler h raises: a read returned nothing; a write    *)
(* was applied or was not.  The handler has no rescue: 500 or RUN_ERROR.    *)
StoreFails(h) ==
    /\ Fault
    /\ \/ WriteSession(h) \/ WriteWorkflow(h) \/ WriteThread(h)
       \/ /\ pc[h] \in {"session", "require", "authctx", "save", "threadGet", "threadPut"}
          /\ UNCHANGED <<storeVars, claimed>>
    /\ Reply(h, "500")
    /\ UNCHANGED <<now, egressVars, planVars, apprVars>>

\* The agent service process dies: every coroutine is gone, Redis and egress stay.
Crash ==
    /\ Fault
    /\ InFlight # {}
    /\ pc' = [h \in Handlers |-> IF h \in InFlight THEN "done" ELSE pc[h]]
    /\ resp' = [h \in Handlers |-> IF h \in InFlight THEN "lost" ELSE resp[h]]
    /\ thr' = [h \in Handlers |-> NoThread]
    /\ UNCHANGED <<now, egressVars, storeVars, planVars, apprVars, claimed>>

\* A key disappears: AGENT_SERVICE_STORE_TTL_SECONDS has passed.
ExpireKey ==
    /\ Fault
    /\ \/ /\ \E w \in Workflows : workflows[w] # NoWorkflow /\
                workflows' = [workflows EXCEPT ![w] = NoWorkflow]
          /\ UNCHANGED <<threads, tokens, session>>
       \/ /\ \E t \in Threads : threads[t].present /\
                threads' = [threads EXCEPT ![t] = NoThread]
          /\ UNCHANGED <<workflows, tokens, session>>
       \/ /\ \E t \in tokens : tokens' = tokens \ {t}
          /\ UNCHANGED <<workflows, threads, session>>
       \/ /\ session # None /\ session' = None
          /\ UNCHANGED <<workflows, threads, tokens>>
    /\ UNCHANGED <<now, egressVars, localVars, claimed>>

\* Every request has been answered and nothing is on the wire.
Finished ==
    /\ \A h \in Handlers : pc[h] = "done"
    /\ EgressIdle
    /\ UNCHANGED vars

EgressNext(a) ==
    /\ EgressStep(a)
    /\ UNCHANGED <<envVars, storeVars, localVars, claimed>>

Next ==
    \/ \E p \in Plans : StartPlan(p) \/ PlanStep(p) \/ CancelRun(p)
    \/ \E a \in Approvals : StartApprove(a) \/ ApproveStep(a) \/ EgressNext(a)
    \/ \E t \in TokenRefs : RegisterTokenContext(t)
    \/ \E t \in Threads : CreateThread(t)
    \/ \E h \in Handlers : StoreFails(h)
    \/ Tick
    \/ Crash
    \/ ExpireKey
    \/ Finished

Spec == Init /\ [][Next]_vars

(* The event loop keeps running every coroutine it has not lost, and each   *)
(* of their awaits ends: Auth0 and egress calls time out, Redis answers.    *)
Fairness ==
    /\ \A p \in Plans : WF_vars(PlanStep(p))
    /\ \A a \in Approvals : WF_vars(ApproveStep(a))

FairSpec == Spec /\ Fairness

------------------------------------------------------------------------------
(* Safety, whatever the interleaving and the faults.                        *)

(* Every tool call an MCP server executes under an approval belongs to the  *)
(* plan whose hash the user's request carried with approved = true, has a   *)
(* downstream target, and ran with a token that has the step's scopes: the  *)
(* record read before the awaits of approve_workflow and the record used    *)
(* after them are one manifest, though the key can be re-planned meanwhile. *)
ExecutedAsApproved ==
    \A a \in Approvals : \A i \in DOMAIN calls[a] :
        LET c == calls[a][i] IN
        /\ asked[a].approved /\ c.plan = asked[a].hash
        /\ content[c.plan].steps[c.step].mcp
        /\ content[c.plan].steps[c.step].scopes \subseteq c.have

(* Under one approval the steps run in plan order, each at most once, and a *)
(* step runs only after all earlier ones succeeded: a failed result or a    *)
(* timeout in _execute_approved_steps ends the loop and nothing is retried. *)
StepsInOrder ==
    \A a \in Approvals : \A i \in DOMAIN calls[a] :
        /\ calls[a][i].step = i
        /\ i < Len(calls[a]) => calls[a][i].ok

(* A "completed" record, in the store or in a thread snapshot, names the    *)
(* approval under which every step of its plan ran and succeeded.           *)
CompletedRecordOk(r) ==
    r.status = "completed" =>
        /\ r.approval \in claimed
        /\ Len(calls[r.approval]) = Len(content[r.plan].steps)
        /\ \A i \in DOMAIN calls[r.approval] : calls[r.approval][i].ok

CompletedMeansExecuted ==
    /\ \A w \in Workflows : CompletedRecordOk(workflows[w])
    /\ \A t \in Threads : CompletedRecordOk(threads[t].workflow)

(* The gateway lets a call pass only within ApprovalTTL of the moment the   *)
(* approval was given, however long the request was delayed on the way.     *)
AuthorizedInTime ==
    \A a \in Approvals : \A i \in DOMAIN calls[a] :
        calls[a][i].authorized < expires[a]

(* A record that says "executing" has an owner: the approval it names is    *)
(* still being worked on, or its handler was lost to a crash or to a Redis  *)
(* error.  No failure of Auth0 or egress leaves the record behind.          *)
ExecutingHasOwner ==
    \A w \in Workflows :
        LET r == workflows[w] IN
        r.status = "executing" =>
            /\ r.approval \in claimed
            /\ \/ pc[r.approval] \in {"exchange", "dispatch", "await", "save"}
               \/ resp[r.approval] \in {"500", "lost"}

(* Once an approval of a plan has been stored, no request that reads the    *)
(* record later gets past the status check of approve_workflow, whatever    *)
(* was re-planned, cancelled, crashed or lost in between: neither a second  *)
(* approval nor a rejection acts on a plan that is already claimed.         *)
NoActionAfterClaim ==
    [][\A a \in Approvals :
         pc[a] = "require" /\ pc'[a] \in {"authctx", "save"} =>
             \A b \in claimed : rec[b].plan # rec'[a].plan]_vars

------------------------------------------------------------------------------
(* Safety when requests come one at a time (MaxInFlight = 1), as from one   *)
(* browser tab whose buttons are disabled while a request is submitted.     *)

(* A plan is executed under at most one approval.                           *)
DispatchedOnce ==
    \A a, b \in Approvals : \A i \in DOMAIN calls[a], j \in DOMAIN calls[b] :
        calls[a][i].plan = calls[b][j].plan => a = b

(* No step of a plan recorded as cancelled is ever executed.                *)
CancelledNeverExecuted ==
    \A w \in Workflows : workflows[w].status = "cancelled" =>
        \A a \in Approvals : \A i \in DOMAIN calls[a] :
            calls[a][i].plan # workflows[w].plan

(* With no fault, and no request running, a thread shows the workflow it    *)
(* names as the store has it, unless that workflow was planned anew.        *)
ThreadAgrees ==
    InFlight = {} /\ faults = 0 =>
        \A t \in Threads :
            LET r == threads[t].workflow IN
            r.plan # None =>
                LET s == workflows[content[r.plan].wf] IN s.plan = r.plan => s = r

(* An answered run that said something has its message in its thread, and   *)
(* a message leaves a thread only when the key is lost or a client's own    *)
(* history leaves it out: no re-planning without messages, no update of an  *)
(* approval, crash or failed command in between ever drops one.             *)
LeftOut(p, t) ==
    \E q \in Plans :
        /\ pc[q] = "threadPut" /\ pc'[q] = "done" /\ content[q].thread = t
        /\ history[q].sent /\ p \notin history[q].runs

MessagesKept ==
    [][\A t \in Threads, p \in Plans :
         /\ p \in threads[t].msgs =>
              p \in threads'[t].msgs \/ ~threads'[t].present \/ LeftOut(p, t)
         /\ resp[p] # "200" /\ resp'[p] = "200" /\ content[p].thread = t =>
              Said(p) \subseteq threads'[t].msgs]_vars

------------------------------------------------------------------------------
(* Liveness, under FairSpec and without faults.                             *)

(* Every approval request is answered.                                      *)
ApproveReturns == \A a \in Approvals : pc[a] = "require" ~> pc[a] = "done"

(* A record does not stay "executing".                                      *)
ExecutingResolves ==
    \A w \in Workflows :
        workflows[w].status = "executing" ~> workflows[w].status # "executing"
==============================================================================
