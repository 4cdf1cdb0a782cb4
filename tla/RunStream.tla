------------------------------ MODULE RunStream ------------------------------
(***************************************************************************)
(* A run as a stream of AG-UI events: the generator _stream_agent_run in    *)
(* the agent service, the connection, and stream_agent_events of the AG-UI  *)
(* gateway, whose output the frontend passes to the browser unchanged.      *)
(* Either end may time out, crash or lose the other at any event.           *)
(***************************************************************************)
EXTENDS AgentRuntime, SequencesExt

CONSTANTS
    RuntimeTimeout,  \* _agent_runtime_timeout_seconds (25 s), in ticks
    ReadTimeout,     \* the gateway's httpx timeout (10 s), in ticks
    MaxFaults        \* bound on crashes, broken connections and Redis errors

ASSUME StreamAssumption ==
    /\ RuntimeTimeout \in Nat \ {0}
    /\ ReadTimeout \in Nat \ {0}
    /\ MaxFaults \in Nat

VARIABLES
    pc,       \* pc[r]: the await or yield the agent service's generator is at
    plan,     \* plan[r]: what the run was planned to, or None
    sent,     \* sent[r]: how many events of the plan have been yielded
    pipe,     \* pipe[r]: what the agent service sent and the gateway has not read
    gw,       \* gw[r]: the gateway's side of the run
    browser,  \* browser[r]: the events the gateway wrote to the browser
    saved,    \* saved[r]: what Redis holds of the run: nothing, workflow, thread
    elapsed,  \* elapsed[r]: ticks spent in the runtime
    quiet,    \* quiet[r]: ticks the gateway has waited for the next bytes
    faults    \* faults so far

agentVars == <<runtimeVars, pc, plan, sent, saved, elapsed>>
gatewayVars == <<gw, browser>>
vars == <<agentVars, gatewayVars, pipe, quiet, faults>>

------------------------------------------------------------------------------
Event(type, step) == [type |-> type, step |-> step]
Started == Event("RUN_STARTED", 0)
Finished == Event("RUN_FINISHED", 0)
RuntimeError == Event("RUN_ERROR", 0)   \* code AGENT_RUNTIME_ERROR
ServiceError == Event("RUN_ERROR", 1)   \* code AGENT_SERVICE_ERROR
Approval == Event("CUSTOM", 0)          \* hitl.approval.requested
StateDelta == Event("STATE_DELTA", 0)
Eof == Event("EOF", 0)                  \* the end of the chunked body
Broken == Event("BROKEN", 0)            \* the connection ends without it

ToolEvents ==
    <<"TOOL_CALL_START", "TOOL_CALL_ARGS", "TOOL_CALL_END", "TOOL_CALL_RESULT">>

Plan == [message : BOOLEAN, steps : 0..MaxIntents, hitl : BOOLEAN]

(* The dispatcher turns intents into at most as many steps, and only a plan  *)
(* with steps can need approval.                                            *)
PlansOf(result) ==
    {p \in Plan : /\ p.message = result.message
                  /\ p.steps <= result.intents
                  /\ p.hitl => p.steps > 0}

TextEvents(p) ==
    <<Event("TEXT_MESSAGE_START", 0)>>
    \o (IF p.message THEN <<Event("TEXT_MESSAGE_CONTENT", 0)>> ELSE <<>>)
    \o <<Event("TEXT_MESSAGE_END", 0)>>

ToolCalls(p) ==
    [k \in 1..(4 * p.steps) |-> Event(ToolEvents[((k - 1) % 4) + 1], ((k - 1) \div 4) + 1)]

\* Mutant: the request for approval is left to the state delta.
ScriptWithoutApproval(p) ==
    TextEvents(p) \o <<StateDelta>> \o ToolCalls(p) \o <<Finished>>

\* What the generator yields for a stored plan.
Script(p) ==
    TextEvents(p) \o <<StateDelta>> \o ToolCalls(p)
    \o (IF p.hitl THEN <<Approval>> ELSE <<>>) \o <<Finished>>

Events ==
    {Started, Finished, RuntimeError, ServiceError, Approval, StateDelta, Eof, Broken}
    \cup {Event(t, 0) : t \in {"TEXT_MESSAGE_START", "TEXT_MESSAGE_CONTENT", "TEXT_MESSAGE_END"}}
    \cup {Event(t, s) : t \in ToSet(ToolEvents), s \in 1..MaxIntents}

TypeOK ==
    /\ RuntimeTypeOK
    /\ pc \in [Runs -> {"idle", "start", "runtime", "session", "workflow", "getThread",
                        "thread", "emit", "error", "close", "gone"}]
    /\ plan \in [Runs -> Plan \cup {None}]
    /\ \A r \in Runs :
         /\ sent[r] \in Nat /\ elapsed[r] \in 0..RuntimeTimeout /\ quiet[r] \in 0..ReadTimeout
         /\ plan[r] # None => sent[r] <= Len(Script(plan[r]))
         /\ ToSet(pipe[r]) \cup ToSet(browser[r]) \subseteq Events
    /\ gw \in [Runs -> {"idle", "reading", "closed", "lost"}]
    /\ saved \in [Runs -> {"nothing", "workflow", "thread"}]
    /\ faults \in 0..MaxFaults

Init ==
    /\ RuntimeInit
    /\ pc = [r \in Runs |-> "idle"]
    /\ plan = [r \in Runs |-> None]
    /\ sent = [r \in Runs |-> 0]
    /\ pipe = [r \in Runs |-> <<>>]
    /\ gw = [r \in Runs |-> "idle"]
    /\ browser = [r \in Runs |-> <<>>]
    /\ saved = [r \in Runs |-> "nothing"]
    /\ elapsed = [r \in Runs |-> 0]
    /\ quiet = [r \in Runs |-> 0]
    /\ faults = 0

------------------------------------------------------------------------------
(* The generator of the agent service.                                      *)
Goto(r, l) == pc' = [pc EXCEPT ![r] = l]

\* What is sent to a gateway that has gone is lost.
Yield(r, e) ==
    pipe' = IF gw[r] = "reading" THEN [pipe EXCEPT ![r] = Append(@, e)] ELSE pipe

StopClock(r) == elapsed' = [elapsed EXCEPT ![r] = 0]

Start(r) ==
    /\ pc[r] = "start"
    /\ Yield(r, Started)
    /\ Goto(r, "runtime")
    /\ RuntimeIdle /\ UNCHANGED <<plan, sent, saved, elapsed, gatewayVars, quiet, faults>>

Attempt(r) ==
    /\ pc[r] = "runtime"
    /\ \/ (EnterAttempts(r) \/ AttemptFails(r)) /\ UNCHANGED <<pc, plan, elapsed>>
       \/ /\ RefuseRun(r) \/ LastAttemptFails(r)
          /\ Goto(r, "error") /\ StopClock(r) /\ UNCHANGED plan
       \/ \E text \in Text : \E p \in PlansOf(Parsed(text)) :
            /\ AttemptReturns(r, text)
            /\ plan' = [plan EXCEPT ![r] = p]
            /\ Goto(r, "session") /\ StopClock(r)
    /\ UNCHANGED <<sent, saved, pipe, gatewayVars, quiet, faults>>

\* asyncio.timeout cancels the attempt and raises TimeoutError.
RuntimeTimesOut(r) ==
    /\ pc[r] = "runtime" /\ elapsed[r] = RuntimeTimeout
    /\ LeaveRuntime(r)
    /\ Goto(r, "error") /\ StopClock(r)
    /\ UNCHANGED <<plan, sent, saved, pipe, gatewayVars, quiet, faults>>

\* Mutant: the plan is streamed while its thread is still being stored.
StoreWorkflowAndEmit(r) ==
    /\ \/ pc[r] = "session" /\ Goto(r, "workflow") /\ UNCHANGED saved
       \/ /\ pc[r] = "workflow" /\ Goto(r, "emit")
          /\ saved' = [saved EXCEPT ![r] = "workflow"]
    /\ RuntimeIdle /\ UNCHANGED <<plan, sent, elapsed, pipe, gatewayVars, quiet, faults>>

(* _plan_workflow_from_intents: the session, the workflow, then the thread.  *)
Store(r) ==
    /\ \/ pc[r] = "session" /\ Goto(r, "workflow") /\ UNCHANGED saved
       \/ /\ pc[r] = "workflow" /\ Goto(r, "getThread")
          /\ saved' = [saved EXCEPT ![r] = "workflow"]
       \/ pc[r] = "getThread" /\ Goto(r, "thread") /\ UNCHANGED saved
       \/ /\ pc[r] = "thread" /\ Goto(r, "emit")
          /\ saved' = [saved EXCEPT ![r] = "thread"]
    /\ RuntimeIdle /\ UNCHANGED <<plan, sent, elapsed, pipe, gatewayVars, quiet, faults>>

Emit(r) ==
    /\ pc[r] = "emit"
    /\ LET script == Script(plan[r]) IN
         /\ Yield(r, script[sent[r] + 1])
         /\ sent' = [sent EXCEPT ![r] = @ + 1]
         /\ Goto(r, IF sent[r] + 1 = Len(script) THEN "close" ELSE "emit")
    /\ RuntimeIdle /\ UNCHANGED <<plan, saved, elapsed, gatewayVars, quiet, faults>>

\* except Exception
EmitError(r) ==
    /\ pc[r] = "error"
    /\ Yield(r, RuntimeError)
    /\ Goto(r, "close")
    /\ RuntimeIdle /\ UNCHANGED <<plan, sent, saved, elapsed, gatewayVars, quiet, faults>>

\* The generator returns and the server ends the body.
Close(r) ==
    /\ pc[r] = "close"
    /\ Yield(r, Eof)
    /\ Goto(r, "gone")
    /\ RuntimeIdle /\ UNCHANGED <<plan, sent, saved, elapsed, gatewayVars, quiet, faults>>

(* The gateway is gone: the server cancels the generator where it stands,   *)
(* and CancelledError is no Exception.                                      *)
Cancel(r) ==
    /\ pc[r] \notin {"idle", "gone"} /\ gw[r] \in {"closed", "lost"}
    /\ LeaveRuntime(r)
    /\ Goto(r, "gone") /\ StopClock(r)
    /\ UNCHANGED <<plan, sent, saved, pipe, gatewayVars, quiet, faults>>

------------------------------------------------------------------------------
(* The generator of the gateway.                                            *)
Write(r, events) == browser' = [browser EXCEPT ![r] = @ \o events]

Leave(r, l) ==
    /\ gw' = [gw EXCEPT ![r] = l]
    /\ pipe' = [pipe EXCEPT ![r] = <<>>]
    /\ quiet' = [quiet EXCEPT ![r] = 0]

\* The gateway posts the run and the agent service accepts its context.
Connect(r) ==
    /\ gw[r] = "idle"
    /\ gw' = [gw EXCEPT ![r] = "reading"]
    /\ Goto(r, "start")
    /\ RuntimeIdle
    /\ UNCHANGED <<plan, sent, saved, elapsed, browser, pipe, quiet, faults>>

Forward(r) ==
    /\ gw[r] = "reading" /\ pipe[r] # <<>> /\ Head(pipe[r]) \notin {Eof, Broken}
    /\ Write(r, <<Head(pipe[r])>>)
    /\ pipe' = [pipe EXCEPT ![r] = Tail(@)]
    /\ quiet' = [quiet EXCEPT ![r] = 0]
    /\ UNCHANGED <<agentVars, gw, faults>>

\* Mutant: the flag emitted_started is not kept.
ErrorWithStart(r) == Write(r, <<Started, ServiceError>>) /\ Leave(r, "closed")

\* except Exception: RUN_STARTED if the browser has not seen it, then RUN_ERROR.
Error(r) ==
    /\ Write(r, (IF Contains(browser[r], Started) THEN <<>> ELSE <<Started>>) \o <<ServiceError>>)
    /\ Leave(r, "closed")

\* Mutant: httpx is called with timeout=None.
ReadNeverTimesOut(r) ==
    /\ gw[r] = "reading" /\ pipe[r] # <<>> /\ Head(pipe[r]) = Broken
    /\ Error(r)
    /\ UNCHANGED <<agentVars, faults>>

\* Nothing came for ReadTimeout, or the body ended before its time.
ReadFails(r) ==
    /\ gw[r] = "reading"
    /\ \/ pipe[r] = <<>> /\ quiet[r] = ReadTimeout
       \/ pipe[r] # <<>> /\ Head(pipe[r]) = Broken
    /\ Error(r)
    /\ UNCHANGED <<agentVars, faults>>

ReadEof(r) ==
    /\ gw[r] = "reading" /\ pipe[r] # <<>> /\ Head(pipe[r]) = Eof
    /\ Leave(r, "closed")
    /\ UNCHANGED <<agentVars, browser, faults>>

\* The user closes the tab, or the gateway dies: the stream stops as it is.
BrowserLost(r) ==
    /\ gw[r] = "reading"
    /\ Leave(r, "lost")
    /\ UNCHANGED <<agentVars, browser, faults>>

------------------------------------------------------------------------------
Fault == faults < MaxFaults /\ faults' = faults + 1

\* The agent service is down, or it answers with an error status.
ConnectFails(r) ==
    /\ Fault
    /\ gw[r] = "idle"
    /\ Error(r)
    /\ UNCHANGED agentVars

\* A Redis command raises; a SET may have been carried out.
StoreRaises(r) ==
    /\ Fault
    /\ pc[r] \in {"session", "workflow", "getThread", "thread"}
    /\ saved' \in {saved} \cup
         (IF pc[r] \in {"workflow", "thread"}
          THEN {[saved EXCEPT ![r] = pc[r]]} ELSE {})
    /\ Goto(r, "error")
    /\ RuntimeIdle /\ UNCHANGED <<plan, sent, elapsed, pipe, gatewayVars, quiet>>

Live == {r \in Runs : pc[r] \notin {"idle", "gone"}}
Cut(s) == {Append(SubSeq(s, 1, n), Broken) : n \in 0..Len(s)}

(* The agent service restarts: the generators are gone, of what they sent    *)
(* some may arrive, and the provider is made anew.                          *)
AgentCrash ==
    /\ Fault
    /\ Live # {}
    /\ pc' = [r \in Runs |-> IF r \in Live THEN "gone" ELSE pc[r]]
    /\ \E p \in [Runs -> UNION {Cut(pipe[r]) \cup {pipe[r]} : r \in Runs}] :
         /\ \A r \in Runs :
              p[r] \in IF r \in Live /\ gw[r] = "reading" THEN Cut(pipe[r]) ELSE {pipe[r]}
         /\ pipe' = p
    /\ provider' = NewProvider
    /\ attempt' = [r \in Runs |-> 0]
    /\ elapsed' = [r \in Runs |-> 0]
    /\ UNCHANGED <<plan, sent, saved, gatewayVars, quiet>>

\* The connection breaks although both ends live.
ConnectionLost(r) ==
    /\ Fault
    /\ gw[r] = "reading"
    /\ Error(r)
    /\ UNCHANGED agentVars

(* Time passes for the runtime and for the gateways that wait, and never    *)
(* past a timeout that is due.                                              *)
InRuntime == {r \in Runs : pc[r] = "runtime"}
Waiting == {r \in Runs : gw[r] = "reading" /\ pipe[r] = <<>>}

Tick ==
    /\ InRuntime \cup Waiting # {}
    /\ \A r \in InRuntime : elapsed[r] < RuntimeTimeout
    /\ \A r \in Waiting : quiet[r] < ReadTimeout
    /\ elapsed' = [r \in Runs |-> elapsed[r] + (IF r \in InRuntime THEN 1 ELSE 0)]
    /\ quiet' = [r \in Runs |-> quiet[r] + (IF r \in Waiting THEN 1 ELSE 0)]
    /\ UNCHANGED <<runtimeVars, pc, plan, sent, saved, gatewayVars, pipe, faults>>

Agent(r) ==
    \/ Start(r) \/ Attempt(r) \/ RuntimeTimesOut(r) \/ Store(r)
    \/ Emit(r) \/ EmitError(r) \/ Close(r) \/ Cancel(r)

Gateway(r) == Forward(r) \/ ReadFails(r) \/ ReadEof(r)

\* No run is under way, and nobody need begin another.
Done == (\A r \in Runs : gw[r] # "reading" /\ pc[r] \in {"idle", "gone"}) /\ UNCHANGED vars

Next ==
    \/ \E r \in Runs :
         \/ Agent(r) \/ Gateway(r) \/ Connect(r)
         \/ BrowserLost(r) \/ ConnectFails(r) \/ ConnectionLost(r) \/ StoreRaises(r)
    \/ AgentCrash \/ Tick \/ Done

Spec == Init /\ [][Next]_vars

(* The gateway's event loop reads what has arrived and time passes.  Nothing *)
(* is assumed of the agent service but its own runtime timeout: Redis and    *)
(* the language model may never answer.                                     *)
Fairness ==
    /\ WF_vars(Tick)
    /\ \A r \in Runs : WF_vars(Gateway(r)) /\ WF_vars(RuntimeTimesOut(r))

------------------------------------------------------------------------------
(* The browser sees a stream it can parse, whatever breaks: RUN_STARTED is  *)
(* first and only there, after an error come only errors, and text and tool *)
(* calls are opened before they are filled and closed.                      *)
Follows(e) ==
    CASE e.type = "TEXT_MESSAGE_CONTENT" -> {Event("TEXT_MESSAGE_START", 0)}
      [] e.type = "TEXT_MESSAGE_END" ->
            {Event("TEXT_MESSAGE_START", 0), Event("TEXT_MESSAGE_CONTENT", 0)}
      [] e.type = "TOOL_CALL_ARGS" -> {Event("TOOL_CALL_START", e.step)}
      [] e.type = "TOOL_CALL_END" -> {Event("TOOL_CALL_ARGS", e.step)}
      [] e.type = "TOOL_CALL_RESULT" -> {Event("TOOL_CALL_END", e.step)}
      [] OTHER -> Events

WellFormed ==
    \A r \in Runs : LET b == browser[r] IN
        \A i \in 1..Len(b) :
            /\ b[i] = Started <=> i = 1
            /\ i > 1 => b[i - 1] \in Follows(b[i])
            /\ i > 1 /\ b[i - 1].type = "RUN_ERROR" => b[i] = ServiceError

(* A run shown as finished is stored with its thread, every step of the      *)
(* plan was shown, and an approval was asked for if the policy demands one.  *)
FinishedIsComplete ==
    \A r \in Runs : Contains(browser[r], Finished) =>
        /\ saved[r] = "thread"
        /\ \A s \in 1..plan[r].steps : Contains(browser[r], Event("TOOL_CALL_RESULT", s))
        /\ plan[r].hitl => Contains(browser[r], Approval)

(* The provider is shared: whatever another run left in it, no run reaches   *)
(* the language model without the runner it needs.                          *)
AttemptHasRunner == TypeOK /\ \A r \in Runs : attempt[r] # 0 => provider.agent /\ provider.runner

(* The run keeps the promise of RunLifecycle to the browser.                *)
Failed(r) == Contains(browser[r], RuntimeError) \/ Contains(browser[r], ServiceError)

Phase(r) ==
    CASE Failed(r) -> "failed"
      [] ~Failed(r) /\ Contains(browser[r], Finished) -> "finished"
      [] ~Failed(r) /\ ~Contains(browser[r], Finished) /\ gw[r] = "lost" -> "lost"
      [] ~Failed(r) /\ ~Contains(browser[r], Finished) /\ gw[r] # "lost" ->
            IF browser[r] = <<>> THEN "new" ELSE "running"

Shown(r) ==
    IF Contains(browser[r], Approval) THEN "approval"
    ELSE IF Contains(browser[r], StateDelta) THEN "plan" ELSE "nothing"

Lifecycle == INSTANCE RunLifecycle WITH
    phase <- [r \in Runs |-> Phase(r)],
    saved <- saved,
    shown <- [r \in Runs |-> Shown(r)]

KeepsLifecycle == Lifecycle!Spec

(* No stream hangs: the gateway ends every run it started, even if the agent *)
(* service, Redis or the language model never answers.                      *)
StreamEnds == \A r \in Runs : gw[r] = "reading" ~> gw[r] # "reading"
==============================================================================
