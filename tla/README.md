# TLA+ verification of the user-delegated authorization service

A user asks an assistant for an action; the agent service plans it, the user
approves the plan by its hash, and the service executes the approved steps
through an egress gateway with a token obtained on behalf of the user.  This
directory models that system, model-checks it with TLC and proves its main
results with TLAPS.

## The system

| Component | State | Operations | Talks to |
|---|---|---|---|
| Agent service (`services/agent_service`) | none of its own between requests; a coroutine per request | plan, run (streamed), approve, register token context, create and restore thread, restore workflow | Redis, Auth0, egress gateway, language model |
| Agent service store (`state.py`) | Redis keys: session, workflow, thread, token context, each with a TTL | unconditional whole-record SET, GET | Redis |
| Egress gateway (`services/egress_gateway`) | none | `POST /egress/mcp`: check grant, context, scopes; call the MCP tool | MCP servers |
| Grants and contexts (`workflow_core/grants.py`, `session_state/internal_auth.py`) | none | sign, verify, expire | |
| Dispatcher and policy (`orchestration.py`, `workflow_core`) | none | filter intents, materialize scopes, decide whether a human must approve | |
| Runtime providers (`providers.py`) | one provider object, shared by all runs and built on first use | ask the model for a message and intents, retry, parse | language model |
| Session state store (`packages/session_state`) | versioned Redis blobs, event lists | set, compare-and-swap update, append | Redis |
| Key builder | none | keys of the blobs | |
| Token broker (`packages/token_broker`) | none | on-behalf-of and client-credentials exchange | Auth0 |
| AG-UI gateway | a stream per run | re-encode the run's events | agent service |
| Frontend server (`apps/frontend/lib/server`, `app/api`) | in-process session map, signed cookies | login, callback, logout, proxy routes | Auth0, supervisor, agent service, gateway |
| Frontend UI | React state | chat, approve, reject, reload a thread | frontend server |
| Supervisor (`services/supervisor`) | none | metadata of a user who logs in, with the three events of a login | Auth0, sidecar |
| Telemetry (`observability_sidecar`, `packages/observability`) | two bounded deques in memory | append, read, redact | |
| MCP servers | none (samples) | tools | |

What is hard: every `await` of a handler lets every other handler run; the store
offers no condition on a write; a workflow id is a hash of query and tool names,
so a repeated question overwrites the record of the first; the agent service
stops waiting for egress after 20 s without egress knowing; approval, grant,
session context and Redis keys expire on their own; a planning request is
cancelled when its event stream is abandoned; a process or a Redis command can
fail between any two awaits.  `PROJECT.json` lists each of these hazards at its
line, with the properties that watch it.

What makes the components correct:

- agent service: what runs is what the user approved, with a token that has the
  step's scopes; steps run in order and stop at the first failure; a record says
  what happened; an executing record has a live owner unless that owner was
  lost; nothing acts on a plan that is already claimed;
- egress gateway: nothing passes after the approval has expired;
- thread: shows the workflow it names as the store has it, and loses a message only
  with its key or by a history that a client sends without it;
- session state store: each call takes effect at one moment, an update is applied
  to the blob it was checked on, none is lost, and of several callers that expect
  one version at most one is accepted;
- dispatcher: the plan is the acceptable proposals in their order and nothing
  else, each with the scopes bound to the argument it will be executed with;
- token broker: no call is made beyond what Auth0 really issued, however little
  its answer tells, nor with a token asked for another server;
- run stream: the browser can parse the stream, whatever breaks; it ends; and a
  run shown as finished is stored and was shown as a whole;
- thread messages: a reload shows the turn that was streamed, a run has one
  message, a result stands at its call;
- login: a session that a request can use is complete, nobody brings back one
  that was logged out, a cookie names a session the server has;
- supervisor and telemetry: a login is answered and never fails because of the
  sidecar, and what the sidecar is told is true;
- session event lists: a call that returned leaves its event in a list that
  expires; Redis keys: no two owners share one.

## Modules

| Module | Models |
|---|---|
| `EgressGateway` | `POST /egress/mcp`: the message an approval sends, its checks, the MCP call |
| `AgentService` | extends `EgressGateway` with every state-changing handler of the agent service over its store, and with time and faults; states the properties |
| `AgentServiceInvariant` | the inductive invariants, in named parts |
| `AgentServiceProofs` | proofs of type correctness, of the control invariants, and about claims and their owners; what each step does, field by field |
| `AgentServiceExecutionProofs` | proofs about what is executed, of the whole inductive invariant, and of what holds with one request at a time |
| `MCAgentService` | the small instances TLC checks |
| `SessionState` | the data of the session state store: blob, calls, answers, the checks of an update |
| `VersionedStore` | what that store promises: an atomic versioned register |
| `SessionStateStore` | what it does: SET, and the WATCH, GET, MULTI, SET, EXEC loop; implements `VersionedStore` |
| `SessionStateStoreProofs` | proofs of its safety properties and of the refinement, of the event lists, and that no two owners share a key |
| `SessionKeys` | the Redis keys of both stores, as sequences of characters |
| `SessionEvents` | extends it with `append_workflow_event`: RPUSH, then EXPIRE |
| `MCSessionStateStore` | the instances of the store and of the event lists |
| `ToolCatalog` | the tool catalog and the pure functions over it: scopes, policy |
| `Dispatch` | extends it: from the model's proposals to a plan |
| `TokenBroker` | extends `Dispatch`: from the approved plan through Auth0 to the calls that pass the gateway |
| `TokenBrokerProofs` | proofs about the plan, its scopes and its tokens |
| `MCTokenBroker` | its instance |
| `AgentRuntime` | the shared runtime provider and its attempts |
| `RunStream` | extends it: a run's events from the agent service through the AG-UI gateway to the browser; implements `RunLifecycle` |
| `RunLifecycle` | what a run promises to the browser |
| `RunStreamProofs` | proofs of its safety properties and of the refinement |
| `MCRunStream` | its instances |
| `Subsequences` | a sequence without some of its items, as the filters of `app.py` and the dispatcher leave it |
| `SubsequenceProofs` | lemmas about them, and least naturals, for the other proofs |
| `ThreadMessages` | the messages of a thread over runs, lost streams, edits and reloads |
| `ThreadMessagesProofs` | proofs about the history a thread keeps, its reloads and the places of results |
| `MCThreadMessages` | its instances |
| `Telemetry` | the sidecar and its client |
| `Supervisor` | extends it: the metadata request of a login and its events |
| `Login` | extends `Supervisor`: the frontend's login, callback, logout and session map with the browser's cookies |
| `LoginProofs` | proofs about the sidecar, the supervisor and the login |
| `MCSupervisor`, `MCLogin` | their instances |

The modules compose along the calls of the code: the agent service with the
gateway (`AgentService`), the dispatcher with the token broker and the gateway's
scope check (`TokenBroker`), the runtime with the agent service, the AG-UI gateway
and the browser (`RunStream`), the browser with the frontend server, the
supervisor and the sidecar (`Login`).  `AgentService` takes the outcome of a
dispatch as an arbitrary input, so that it holds for every dispatcher.

`AgentService` and the session state store are two separate stores: the agent
service keeps its records with `state.py`, and nothing in it uses
`packages/session_state`'s Redis store.  They are therefore not composed.

### State and actions

`workflows`, `threads`, `tokens`, `session` are the Redis keys of one
tenant/user/session scope (the scope is part of every key, so scopes do not
interact).  A *plan* (`Plans`) stands for one planning request and for its
`plan_hash`, which is unique because the hashed manifest contains its creation
time; `content[p]` is what the request was dispatched to: workflow id, steps,
whether approval is needed, thread, token reference.  An *approval*
(`Approvals`) stands for one approval request and for the `approval_id` it may
make.  `pc[h]` is the await that handler `h` has reached:

| `pc` | await | action |
|---|---|---|
| `session` | `upsert_session` | `PlanUpsertSession` |
| `save` | `save_workflow` | `PlanSaveWorkflow`, `SaveWorkflow` |
| `threadGet`, `threadPut` | `get_thread`, `save_thread` | `PlanGetThread`, `PlanSaveThread`, `GetThread`, `SaveThread` |
| `require` | `get_workflow` and all checks behind it | `RequireWorkflow` |
| `authctx` | `get_auth_context` | `GetAuthContext` |
| `exchange` | the Auth0 exchange | `ExchangeToken` |
| `dispatch` | none: the head of the step loop | `DispatchStep` |
| `await` | `client.post("/egress/mcp")` | `ReceiveReply`, `EgressTimeout` |

`dispatch` has no await of its own; it is a separate action because the loop
reads the clock there.  `wire[a]` is the one egress request an approval can have
outstanding; the gateway's two halves, before and after its await of the MCP
call, are `EgressAuthorize`/`EgressRefuse` and `McpCall`/`McpTransportFails`.
`calls` and `claimed` are history variables: the tool calls executed, and the
approvals whose executing record reached the store.

Faults: `StoreFails` (a Redis command raises; a write was or was not applied),
`Crash` (the agent service process dies), `ExpireKey` (a TTL passes), `CancelRun`
(the event stream is abandoned).  They share one bound, `CancelRun` excepted.

Abstractions: messages are the set of runs whose answer is in the thread; a planning
request comes with no messages or with any set of the thread's runs (`Histories`), since
a browser that lost a stream, went back or edited sends a shorter list, and
`_save_thread_snapshot_for_workflow` stores what is sent; a run without text and
without steps adds no message (`Said`); the
grant and the request body are one record, since the agent service builds both
from the same values and signs the grant; signatures are sound; the audience of
a token is part of the success of the exchange.

Dispatch and token broker: `request` is what session and model give;
`Propose` is the parser and the redaction of a run, or the coordinator's dedupe of
a planning request; `Drop` and `Accept` are the two ways through one iteration of
`dispatch`'s loop, `Return` the policy behind it.  A scope is a name and the
argument bound to it; `Words` is what the wire makes of an argument with a space.
`AskForPlan` and `AskForService` are the requests of the two clients, `Issue` any
answer of Auth0, `Read` what the client makes of it, `Execute` one step through the
gateway's scope check.  `token` is what Auth0 really issued: only the properties
look at it.  HTTP and the decoding of JWTs are abstracted to what they tell.

Run stream: `pc[r]` is the await or yield of `_stream_agent_run`, `gw[r]` the side of
the gateway, `pipe[r]` the bytes between them, `browser[r]` what was written.
`Script` is the sequence of events of a plan, in the order of the yields.  A crash
or a broken connection lets any prefix of `pipe` arrive.  The provider's
attributes are those that a failed construction leaves half-assigned.

Thread messages: a message is its role, id, parts and tool calls; `Restorable` is
`_restorable_thread_messages`, whose loop is the recursive function of `Restored` and
whose iteration is `Added`; a tab either builds the turn from the events
(`LiveTurn`) or loses its stream.  `SentMessage` is what a client may write: any
lists of parts and calls with any ids of `Values`, with any role.

Login: every callback makes a session id of its own, so that a session is its
callback.  `/login` is one step, since nothing but the browser sees its parts.
Answers are on their way to the browser as a set, so that those of several tabs
may overtake each other.  A callback whose process ended has no late effect, and
tokens do not expire.  The supervisor's part of a callback is `Supervisor`'s
request of the same session.

Supervisor and telemetry: `sup[s]` is the await of the request, `post[s]` the post it
waits for, `wire` what the sidecar may still handle.  An event's attributes are a
set of leaves, each with the keys that lead to it.  A text holds no credential, one that
a pattern of `redact_string` finds, or one that none of the four finds.

Keys: a label such as `session` counts as one character, since whether two names
meet depends only on how `:` and `%` are quoted.

Session state store: one key is the whole store, because every call touches one
key.  `pc[c]` is the Redis command that caller `c` awaits: `set`; or `watch`,
`get`, `exec`, with the checks of `_update_json_model` in the same step as the
answer of the GET, which has no await after it until EXEC.  MULTI and SET are
queued in the client and have no step.  `touched[c]` is Redis' own mark on a
watching client; any write of the key, and its expiry, sets it (Redis 7, as in the
compose file, aborts an EXEC when a watched key has expired).  A payload is the
set of callers whose mutation it holds, each mutation setting a field of its own;
`merged` and `blind` are history variables.  Faults: `Lose` (a command raises, with
or without its effect) and `Expire`.

## Runs

| Run | Question | Bounds |
|---|---|---|
| `approval_races` | do executions and records stay truthful under every interleaving, and do steps run in order, once, and stop at the first failure? | 2 approvals, all in flight, one fault, with 2 plans of one step and one workflow id; or with 1 plan of two steps, of a step without target, or of no step in a thread |
| `approval_serial` | what holds for one tab, one request at a time, and can anything pass the gateway too late? | 2 plans, 2 approvals, one thread, requests with any history or none, plans with and without text and steps, one fault; or a clock to 5 with 1 plan of two steps, 1 approval, approval TTL 3, context TTL 2 |
| `approval_liveness` | is every approval answered and every claim resolved? | 1 plan, 2 approvals, no faults |
| `double_approval` | violation: a plan executed twice | 1 plan, 2 concurrent approvals |
| `approve_reject_race` | violation: a cancelled plan executed | 1 plan, a concurrent approval and rejection |
| `session_store` | are the calls atomic, do they end, is every update kept, is no version given twice? do event lists expire? do owners share keys? | 3 callers of one blob, versions 0 and 1, one finite TTL, one fault; or 3 appends to the lists of a session and a workflow, or 1 to any of 12 lists, each compared with all names over 5 texts |
| `run_stream` | is the browser's stream well-formed, complete and finite, and does it keep the promise of `RunLifecycle`? | 1 run, 2 steps, 2 attempts, both timeouts, 2 faults; or 2 runs in the runtime, 1 fault |
| `plan_execution` | is the plan what was proposed, and is every call within the token? | 3 of 13 payloads, 3 allow-lists, 3 sets of issued scopes, every answer of Auth0, 3 audiences |
| `threads` | does a reload show what was streamed, once, with results at their calls? | 2 runs of up to 2 steps; or 1 run over histories of 3 of 8 odd messages |
| `unrendered_scope` | violation: a plan without a proposal that lacks its scope argument | as `plan_execution` |
| `supervisor` | is a login answered whatever fails, and does telemetry tell what happened? | 1 request, deques of 2, 2 restarts |
| `login` | what may a session and a cookie stand for? | 2 callbacks, 2 logins, 2 logouts, 1 restart of each process |

Two approvals are enough for each race, which is between two requests on one
record; two plans let a re-planned record replace a claimed one; one fault meets
every await of every handler.  Steps are at most two because the third repeats
the second.  The clock passes both expiry times with a tick to spare, so each
check is met before, at and after its time.  Plans and approvals are symmetric
in the safety runs; the liveness run uses no symmetry.

Three callers of the session state store let one write land in the window of an
update that has just been retried because of another; a caller makes one call,
since a second call of the same caller is that of another one.  A single fault
can meet every command.

`plan_execution`: the thirteen payloads hold each kind of tool, a value that is
redacted, one that cannot be rendered, one whose scope splits on the wire, a
repeated call under another server name, an unknown tool and a payload that is no
proposal; three of them are enough for an accepted step before and after a
dropped one.  Plans of four shapes go on to Auth0: one server, both servers, a
tool without a server, a value with a space.  Only one server has an audience of
its own, so that each branch of `_requested_audience` is taken.

`run_stream`: the generators of different runs share only the provider, so two
runs are followed together only inside the runtime (the second begins while the
first is in it) and, alone, one run is followed to its end with two faults.  The read
timeout (2 ticks) is shorter than the runtime's (5) by as much as 10 s are
shorter than 25 s.

`threads`: two runs are a run and one that finds its answer; a history of three odd
messages has a call given twice, a result before, after and without its call, a call
and a result without an id (the first gets a new one, the second is merged nowhere), and
roles and parts the service does not know.

`supervisor`: the requests of two sessions meet in the deques alone, which drop
what is oldest; one request with two restarts of either process meets every post
and every answer.  `login`: two callbacks and two logins are a callback loaded
twice, or two tabs of which the slower overtakes the faster; the sidecar is left
out there, since `supervisor` shows that it changes no answer.


Fairness (`approval_liveness`): weak fairness of each handler's next step.  The
event loop resumes every coroutine whose await has ended, and each await ends:
`httpx` has a 20 s timeout for egress (so `EgressTimeout` is part of the fair
step and the gateway itself needs no fairness), the Auth0 client 10 s, and Redis
answers when it is not faulty.  Arrivals, faults, the clock and the gateway are
not fair.

Fairness (`session_store`): weak fairness of each caller's next command,
as above.  The loop has no bound of its own; it ends because a `WatchError` means
that a call of another caller took effect, and every caller has one call.  With an
endless supply of writers one caller could be passed over for ever.

Fairness (`run_stream`): the gateway's event loop reads what has arrived, time
passes, and the agent service's own timeout fires.  Nothing else is assumed of the
agent service: Redis and the language model may never answer, and then the
gateway's read timeout ends the stream.

Fairness (`supervisor`): the supervisor's own steps, and its timeouts of Auth0
(10 s) and the sidecar (5 s).  Neither Auth0 nor the sidecar is fair.

Definitions commented `Mutant` are no part of the model: each is a plausible bug of
the definition below it, and the run named with it in `PROJECT.json` finds the
property violated once the mutant takes its place.

### What the runs show

The nine passing runs hold.  The three violation runs show disagreements with what
the repository says:

1. `approve_workflow` checks the status and stores its claim in separate awaits
   with an unconditional write.  Two concurrent approvals of one plan therefore
   both execute it, while a test of the repository states that a repeated
   approval does not dispatch again.
2. A rejection stores `cancelled` over a claim made after it read the record; the
   plan runs although the interface says it was not approved for execution.
3. `dispatch` leaves out a proposal whose scopes cannot be rendered and plans the
   others, or nothing; `docs/architecture/agent-service.md:79` says that a planning
   request fails if a proposal lacks its scope argument (`PlanningFails`).  What the
   code does instead, leaving out no other proposal with it, is `NothingElseDropped`.

Three more sentences of the documents do not hold of the code.  They are visible
in the actions themselves and have no run:

- `docs/architecture/auth0-assistant-ui-workflow.md:109` says that empty answers
  of the model become run errors.  An answer without any JSON object is read as
  `{}` (`Parsed`), and the run finishes with an empty plan and no message.
- `docs/architecture/agent-service.md:81` says that planning and inspection tools
  remain available under an allow-list.  The dispatcher drops them with the other
  tools that are not on it (`Allowed`).
- `docs/architecture/auth0-assistant-ui-workflow.md:77` says that redaction covers
  passwords and access tokens before telemetry is stored.  `redact_string` knows four
  patterns: a credential of another form in a text, "password: hunter2" or an opaque
  token by itself, is stored by the sidecar (`RedactSensitive`, which keeps what is
  `"unlabelled"`).

And three remarks.  With the defaults, 10 s and 25 s, the runtime's own timeout
error never reaches the browser, which hears of `AGENT_SERVICE_ERROR` first.  A
`RUN_ERROR` may follow `RUN_FINISHED` when the connection breaks after it
(`RunLifecycle` has that step).  `set_session` may write back a version that an
update has already left behind, and an update replaces the TTL of `set_session` by
the store's default: `VersionsUnique` is stated until the second whole write, and
the TTL is in the model without a property, since no text says what it should be.

`NoActionAfterClaim` says exactly what the code does guarantee: once the claim
is stored, a request that reads the record later is stopped.  `MessagesKept` does the
same for threads: what a client's own history leaves out is gone, by the design of
`request.messages or existing.messages`, and nothing else ever drops a message.
`TelemetryTruthful` says what the order of the login's events gives: the first is told
before the metadata is read, so also of a user who is then refused, but the other two
only after the last check.

## Proofs

For the agent service, for all values of the constants (any plans, approvals, scopes,
steps, expiry times, faults and concurrency):

| Theorem | Property |
|---|---|
| `TypeCorrect` | `Spec => []TypeOK` |
| `ClaimsRespected` | `Spec => NoActionAfterClaim` |
| `ExecutingOwned` | `Spec => []ExecutingHasOwner` |
| `OnlyApprovedCalls` | `Spec => []ExecutedAsApproved` |
| `CallsInOrder` | `Spec => []StepsInOrder` |
| `CallsInTime` | `Spec => []AuthorizedInTime` |
| `CompletedTruthful` | `Spec => []CompletedMeansExecuted` |

None of the properties is inductive.  The induction is over `IInv`
(`AgentServiceInvariant`), built in three layers, each of which is kept by every
step on its own or with the help of the layers below it:

1. `Control == TypeOK /\ PlanInv /\ StoreInv /\ HandlerInv`: a handler that
   stores `rec[a]` holds the record of a plan that was dispatched (otherwise
   `content[rec[a].plan].wf` means nothing), of the plan it was asked about, and a
   stored record lies under the workflow id of its plan.
2. `Claims == Control /\ ClaimInv /\ PendingInv /\ OwnerInv`: a pending record is
   the record of no claimed plan.  Two writes could break it, a planning request
   that overwrites the key and an approval that stores a record it read long ago;
   the first writes a plan that no record named before (`PlanInv`), the second
   never writes a pending status (`HandlerInv`).
3. `IInv`: `Claims` with, for each approval, what its request on the wire is
   (`WireInv`), how many calls were made when its handler or its request is in a
   given state (`ProgressInv`), and what each call was (`CallsInv`).  A handler
   that timed out is `Late` and never sends again, so the request it left on the
   wire adds at most the one call `ProgressInv` allows.  `CompleteInv` follows
   every copy of a completed record (store, threads, handlers) back to an approval
   that has ended, for which the gateway has nothing left to do (`EndedKept`).

The step lemmas of `AgentServiceProofs` reduce each action to what it does to the fields an
argument needs, so that the proofs of the layers split on a handful of kinds of
step (`StepKinds`) and not on every action.

With requests one at a time (`MaxInFlight = 1`, any plans, approvals, threads and
faults):

| Theorem | Property |
|---|---|
| `PlansRunOnce` | `Spec => []DispatchedOnce` |
| `CancelledStaysUnrun` | `Spec => []CancelledNeverExecuted` |
| `ThreadsAgree` | `Spec => []ThreadAgrees` |
| `MessagesStay` | `Spec => []MessagesKept` |

The hypothesis is needed: `double_approval` and `approve_reject_race` show what fails
with two requests at a time.
The first two rest on `SerialClaims`: a handler that is about to claim or to cancel a
plan read its record when nobody had claimed the plan (`Fresh`), and is alone
(`Alone`), so nobody has since.  It says nothing of the gateway, which may still
execute what an approval left on the wire; `Asking` ties that to the claim.
`ThreadsAgree` rests on `SerialThreads`, which holds until the first fault: a thread
shows the stored record but for the one handler between its save_workflow and its
save_thread (`Agrees`), and what that handler holds is what is stored (`HeldOk`).
`MessagesStay` holds under every fault and rests on `ThreadHeld`: a thread that is
missing has no messages, and a handler about to save a thread holds every message the
thread has.  TLC checked these invariants under the constants of `approval_serial` before
they were proved.

For the session state store (any number of callers, versions, TTLs and faults):

| Theorem | Property |
|---|---|
| `StoreTypeCorrect` | `Spec => []TypeOK` |
| `NoLostUpdates` | `Spec => []NoUpdateLost` |
| `UniqueVersions` | `Spec => []VersionsUnique` |
| `StoreIsAtomic` | `Spec => AtomicSpec` (every step is a step of `VersionedStore` or a stutter) |

They rest on `Inv` of `SessionStateStoreProofs`, whose key conjunct says: as long as
Redis has seen no write since a caller's WATCH, the blob that caller has read and
accepted is the stored blob.  `Writes` reduces a step to the four things it can do
to the blob.  `Bounded` strengthens `VersionsUnique`: until the second whole write
no accepted update has a version beyond that of the blob, so the next one is new.

For the event lists and the keys (any number of appends; names of any texts, of any
length, with any colons and percent signs):

| Theorem | Property |
|---|---|
| `ReturnedEventsExpire` | `EventsSpec => []ReturnedExpires` |
| `ListsHaveOneOwner` | `EventsSpec => []OneOwner` |

`ListsInv` adds to `ReturnedExpires` that an event in a list is there by a call to that
very list which has left its push behind, so that its EXPIRE can meet no other list.  `OneOwner` is a fact about the keys: `KeyOnce`, two names
with one key have one owner.  It is proved from the left: every part of a key
starts with a colon and its label and its text, once quoted, has no colon in it
(`EncodedWhole`), so it ends at the next one (`UpToColon`), and `quote` loses nothing
(`EncodedOnce`).  The last is an induction over two texts at once, by a least
counterexample: `FlattenSeq` is the chain `EncodedChain` of beginnings, none of which
is cut within an escape (`Whole`), so the last character of each can be told
(`LastDecoded`).

For the run stream (any number of runs, restarts, cancellations and plans of any
number of steps):

| Theorem | Property |
|---|---|
| `StreamInvariance` | `Spec => []StreamInv` |
| `StreamsAreWellFormed` | `Spec => []WellFormed` |
| `FinishedRunsAreComplete` | `Spec => []FinishedIsComplete` |
| `AttemptsHaveRunners` | `Spec => []AttemptHasRunner` |
| `StreamImplementsLifecycle` | `Spec => KeepsLifecycle` (every step is a step of `RunLifecycle` or a stutter) |

`StreamInv` says what may stand at each place of a stream: the browser's events and
the queue's, taken together, are at place `i` the start, the `i - 1`th event of the
plan's script, or one of the events a failure adds (`Cell`), and their number is what
the generator has yielded (`Count`).  Prefixes of the script cannot be followed by
anything else, and from that the properties follow without looking at a step again,
but for the shape of the script itself (`ScriptShape`: which event stands before
which).

For the telemetry, the supervisor and the login (any number of sessions, browsers'
callbacks, restarts, lost and late posts):

| Theorem | Property |
|---|---|
| `SidecarToldTheTruth` | `Spec => []TelemetryTruthful` |
| `LoginFailsWithCause` | `Spec => []FailureHasCause` |
| `LoginRunsSupervisor` | `LoginSpec => Spec` |
| `SessionsAreReady` | `LoginSpec => []SessionReady` |
| `LogoutIsFinal` | `LoginSpec => []LoggedOutStaysOut` |
| `CookieNeverDangles` | `LoginSpec => []CookieResolves` |

`SupervisorInv` follows a post from the read that justified it over the wire to the
buffers: what `TelemetryTruthful` says of an ingested event, it says of a travelling
one too, and it stays true because a request that was let in is never refused for its
context (`LetInStays`) and one whose metadata was read fails of a restart alone
(`ReadStays`).  `LoginInv` says how far a callback has come at each of its
awaits (`Progress`), that only a callback past its write has a session, a cookie or an
answer on its way (`Stored`, `Named`), and that a write happens once, so that a session
that was logged out has no writer left.  `LoginRunsSupervisor` carries the two
supervisor theorems over to the login system.

For the dispatcher and the token broker (any catalog, proposals, allow-lists, policies,
audiences, tokens and answers):

| Theorem | Property |
|---|---|
| `PlanComesFromProposals` | `Spec => []PlanIsProposed` |
| `WantedIsPlanned` | `Spec => []NothingElseDropped` |
| `ScopesAreBound` | `Spec => []ScopesFitStep` |
| `BrokerRunsDispatch` | `BrokerSpec => Spec` |
| `CallsHaveTheirToken` | `BrokerSpec => []CallsWithinToken` |
| `TokensAreNotForeign` | `BrokerSpec => []NoForeignToken` |

`DispatchInv` says that the steps stand for the first of each group of equal
proposals, in order (`Planned`), and that no wanted proposal among those seen is
without its step (`Kept`).  That a first one exists is again a least counterexample
(`LeastNat` of `SubsequenceProofs`).  `BrokerInv` says what the client was told and what it had asked for
(`AskedOk` and the rest), which is all it decides by.  `BrokerRunsDispatch` carries the
dispatcher's theorems over to the composition that the run checks.

For the messages of a thread (any histories of any length, any ids, calls and results a
client writes, plans of any number of steps, any order of runs, repeats, edits and
reloads):

| Theorem | Property |
|---|---|
| `OneMessageEach` | `Spec => []OneMessagePerRun` |
| `ReloadAgrees` | `Spec => []ReloadShowsStream` |
| `ResultsPlaced` | `Spec => []ResultsAtTheirCall` |

`IdsInv` is the inductive invariant: neither the tab nor the store has two messages of
one run, and neither has one of a run still to start.  The second is needed for the first,
since a turn is put behind a history by the tab without a look at its ids, and the
tab keeps what the store may never have seen.  The rest is about the loop.
`Chain` names what it holds after each message, and three facts are carried along a
chain by a least counterexample: `Holds` (the kept messages stand in order, each at
the rank `At` of the message it came from, with that one's calls), `Results` (each
part has the result of the last tool message that found it, `Hit`), and, for
`ReloadAgrees`, `NextResult`: when the results of a turn arrive one by one, the message
goes through `Partly(r, p, 0)` to `Partly(r, p, p.steps)`, which is the `Answer` the
service has stored.  `StoredStays` says that the loop changes nothing in what it has made
before, so that a tab which was reloaded stays with its thread.  `HitIsLast` is the
heart of `ResultsPlaced`: the last match of the backward search, told by positions in
the list that is kept, is the last one in the list that was sent.

`KeepInOrder` says for any sequence and any positions what `Keep` leaves: the items at
the positions, each once and in their order.

What is proved of `EventsSpec` holds in the run `session_store` because
`MCSessionStateStore` takes, at each step, a step of the store or of the lists and
leaves the other's variables alone.

Assumptions: (agent service) plans and approvals are disjoint and `None` is none of the ids,
planning inputs are of their type, the TTLs are positive; (session state store) versions
are naturals, and `None` is no version, TTL, blob or call; (keys) the texts are
non-empty sequences of characters, as `key_builder` refuses others; (event lists) the
names of lists are names of that kind; (supervisor and login) `None` is no cause and no
login; (dispatcher, broker, run stream) the constants are of their types; (thread
messages) a run's id is none of the ids clients write otherwise, since the client draws
it at random (its repetition is the action `Repeat`), the ids that stand for a user's
message and for a direct plan's answer are no runs, and `None` is no message.

Model-checked only: the five liveness properties `ApproveReturns`, `ExecutingResolves`,
`CallsReturn`, `StreamEnds` and `SupervisorAnswers`, which are out of the prover's
reach.  Every other property of a passing run is a theorem.

## Hazards without a property

- The error answer of one tab's callback clears the transaction of another tab's
  newer login: the code allows it, the user starts again, and no text denies it.
- The snapshot a tab fetches after a run may arrive when the next one has begun:
  what it does then is decided in the assistant-ui library.
- A whole write may bring back an old version of a blob: `VersionsUnique` says what
  holds until then.
- Sessions leave the frontend's Map only by logout: growth without bound is no state
  of a bounded instance, though the leaked entries are reachable in `Login`.
- A credential in a text of a form that none of the redaction's patterns knows is kept:
  what a document says instead is told under *What the runs show*.

## Not modelled

- The React interface: rendering over a library whose thread runtime decides what a
  reset does.  What it sends is an input of `AgentService` and `ThreadMessages`.
- The frontend's routes for runs, threads and workflows: they read the session and
  forward the request, and keep nothing.
- Requests to the egress gateway whose grant and body differ: nothing in the
  repository builds them.
- The tools of the sample MCP servers, which keep no state.
- HTTP, JSON and the cryptography of JWTs, cookies and grants, taken as sound.
- Reads that change nothing, infrastructure files and generated code.

## Next

Every invariant and action property of the runs is proved.  What a team could add:
the frontend's proxy routes, once one of them keeps state; and an abstract
specification of the agent service's approvals, which the code meets only
with one request at a time as long as the claim of `approve_workflow` is an unconditional
write.
