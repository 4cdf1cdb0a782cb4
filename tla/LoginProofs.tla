------------------------------ MODULE LoginProofs ------------------------------
(***************************************************************************)
(* The login is correct for every number of sessions, logins, items and     *)
(* restarts.  First the supervisor and the sidecar by themselves: what is    *)
(* on the wire is true of a request that was let in and, after its first      *)
(* event, of a user whose metadata is complete.  Then the frontend server      *)
(* around them: it runs the supervisor's own steps, so that the supervisor's   *)
(* invariant carries over, and every session it hands out is one it can still  *)
(* find.                                                                    *)
(***************************************************************************)
EXTENDS Login, TLAPS

(* What an emission can post, and what the sidecar makes of it.              *)
Attributes ==
    {LoginAttributes, MaterializedAttributes} \cup {OnLoginAttributes(m) : m \in Metadata}

Posts ==
    [session : Sessions, kind : {"trace", "log"},
     event : {"login", "materialized", "on_login"}, attributes : Attributes]

Item(p) == [p EXCEPT !.attributes = RedactSensitive(@)]
Items == {Item(p) : p \in Posts}

Buffers ==
    /\ traces \in Seq(Items) /\ Len(traces) <= MaxItems
    /\ logs \in Seq(Items) /\ Len(logs) <= MaxItems

Pending ==
    /\ post \in [Sessions -> Posts \cup {None}]
    /\ \A s \in Sessions : post[s] # None => post[s].session = s

Requests ==
    /\ sup \in [Sessions -> Stages]
    /\ meta \in [Sessions -> Metadata \cup {None}]
    /\ cause \in [Sessions -> {None, "context", "auth0", "metadata", "restart"}]
    /\ \A s \in Sessions : cause[s] # None <=> sup[s] = "failed"
    /\ restarts \in 0..MaxRestarts

\* The metadata was found sufficient, and nobody reads it again.
Cleared(s) == meta[s] \in Metadata /\ meta[s].scopes /\ meta[s].tools
Read == {"materialized", "on_login", "ok", "failed"}

AfterRead == \A s \in Sessions : sup[s] \in Read \ {"failed"} => Cleared(s)

\* A post that may be answered: it tells no more than is true by now.
Truthful(p) ==
    /\ sup[p.session] # "idle" /\ cause[p.session] # "context"
    /\ p.event \in {"materialized", "on_login"} =>
          /\ sup[p.session] \in Read /\ Cleared(p.session)
          /\ cause[p.session] \in {None, "restart"}
    /\ p.kind = "log" => [p EXCEPT !.kind = "trace"] \in ingested

OnTheWay == wire \cup ingested \subseteq Posts /\ \A p \in wire \cup ingested : Truthful(p)

SupervisorInv == Buffers /\ Pending /\ Requests /\ AfterRead /\ OnTheWay

------------------------------------------------------------------------------
(* A deque never grows beyond its bound, and holds only what was in it and   *)
(* what is added.                                                           *)
LEMMA KeptBounded ==
    ASSUME NEW S, NEW buffer \in Seq(S), NEW item \in S, Len(buffer) <= MaxItems
    PROVE  Kept(buffer, item) \in Seq(S) /\ Len(Kept(buffer, item)) <= MaxItems
BY TelemetryAssumption DEF Kept

(* Sending a post concerns one session and adds one post to the wire.        *)
LEMMA EmitEffect ==
    ASSUME NEW s \in Sessions, NEW event \in {"login", "materialized", "on_login"},
           NEW attributes \in Attributes, BeginEmit(s, event, attributes), Pending
    PROVE  /\ Post(s, "trace", event, attributes) \in Posts
           /\ wire' \subseteq wire \cup {Post(s, "trace", event, attributes)}
           /\ Pending'
           /\ UNCHANGED <<traces, logs, ingested>>
BY DEF BeginEmit, Send, Post, Posts, Pending
------------------------------------------------------------------------------
(* Nothing was asked and nothing sent.                                      *)
LEMMA SupervisorInit == Init => SupervisorInv
<1> SUFFICES ASSUME Init PROVE SupervisorInv
  OBVIOUS
<1> USE DEF Init, TelemetryInit
<1>1. Buffers
  BY TelemetryAssumption DEF Buffers
<1>2. Pending
  BY DEF Pending
<1>3. Requests
  BY SupervisorAssumption, CauseAssumption DEF Requests, Stages
<1>4. AfterRead /\ OnTheWay
  BY DEF AfterRead, OnTheWay, Read
<1> QED
  BY <1>1, <1>2, <1>3, <1>4 DEF SupervisorInv

(* The sidecar keeps what it has redacted, and no more than it may.          *)
LEMMA BuffersStep == Buffers /\ OnTheWay /\ [Next]_allVars => Buffers'
<1> SUFFICES ASSUME Buffers, OnTheWay, [Next]_allVars PROVE Buffers'
  OBVIOUS
<1>1. CASE UNCHANGED <<traces, logs>>
  BY <1>1 DEF Buffers
<1>2. ASSUME NEW p \in wire, Ingest(p)
      PROVE  Buffers'
  <2>1. Item(p) \in Items
    BY DEF OnTheWay, Items
  <2>2. CASE traces' = Kept(traces, Item(p)) /\ UNCHANGED logs
    BY <2>1, <2>2, KeptBounded DEF Buffers
  <2>3. CASE logs' = Kept(logs, Item(p)) /\ UNCHANGED traces
    BY <2>1, <2>3, KeptBounded DEF Buffers
  <2> QED
    BY <1>2, <2>2, <2>3 DEF Ingest, Item
<1>3. CASE SidecarRestarts
  BY <1>3, TelemetryAssumption DEF SidecarRestarts, Buffers
<1>4. CASE Answered \/ UNCHANGED allVars
  BY <1>1, <1>4 DEF Answered, allVars, telemetryVars
<1>5. ASSUME NEW s \in Sessions, Receive(s) \/ SupervisorStep(s)
      PROVE  UNCHANGED <<traces, logs>>
  BY <1>5 DEF Receive, SupervisorStep, Own, LoginEmitted, TokenAnswered, UserAnswered,
              MaterializedEmitted, OnLoginEmitted, EmissionFails, Auth0Fails, BeginEmit,
              PostFails, PostTimesOut, telemetryVars
<1> QED
  BY <1>1, <1>2, <1>3, <1>4, <1>5
     DEF Next, SidecarStep, Faults, SupervisorRestarts, SidecarLost

(* A request waits for a post of its own session.                           *)
LEMMA PendingStep == Pending /\ AfterRead /\ OnTheWay /\ [Next]_allVars => Pending'
<1> SUFFICES ASSUME Pending, AfterRead, OnTheWay, [Next]_allVars PROVE Pending'
  OBVIOUS
<1>1. CASE UNCHANGED post
  BY <1>1 DEF Pending
<1>2. ASSUME NEW s \in Sessions, NEW event \in {"login", "materialized", "on_login"},
             NEW attributes \in Attributes, BeginEmit(s, event, attributes)
      PROVE  Pending'
  BY <1>2, EmitEffect
<1>3. ASSUME NEW s \in Sessions, post' = [post EXCEPT ![s] = None]
      PROVE  Pending'
  BY <1>3 DEF Pending
<1>4. ASSUME NEW p \in wire, Ingest(p)
      PROVE  Pending'
  <2>1. p \in Posts /\ p.session \in Sessions
    BY DEF OnTheWay, Posts
  <2>2. CASE post' = [post EXCEPT ![p.session] = [p EXCEPT !.kind = "log"]]
    <3>1. /\ [p EXCEPT !.kind = "log"] \in Posts
          /\ [p EXCEPT !.kind = "log"].session = p.session
      BY <2>1 DEF Posts
    <3> QED
      BY <2>1, <2>2, <3>1 DEF Pending
  <2> QED
    BY <1>1, <1>3, <1>4, <2>1, <2>2 DEF Ingest
<1>5. CASE SupervisorRestarts
  BY <1>5 DEF SupervisorRestarts, Pending
<1>6. ASSUME NEW s \in Sessions, Receive(s)
      PROVE  Pending'
  BY <1>1, <1>2, <1>6 DEF Receive, Attributes, telemetryVars
<1>7. ASSUME NEW s \in Sessions, UserAnswered(s)
      PROVE  Pending'
  BY <1>1, <1>2, <1>7 DEF UserAnswered, Attributes, telemetryVars
<1>8. ASSUME NEW s \in Sessions, MaterializedEmitted(s)
      PROVE  Pending'
  BY <1>2, <1>8 DEF MaterializedEmitted, Attributes, AfterRead, Cleared, Read
<1>9. ASSUME NEW s \in Sessions, EmissionFails(s)
      PROVE  Pending'
  BY <1>3, <1>9 DEF EmissionFails, PostFails, PostTimesOut
<1>10. ASSUME NEW s \in Sessions,
              LoginEmitted(s) \/ TokenAnswered(s) \/ OnLoginEmitted(s) \/ Auth0Fails(s)
       PROVE  Pending'
  BY <1>1, <1>10 DEF LoginEmitted, TokenAnswered, OnLoginEmitted, Auth0Fails, telemetryVars
<1>11. CASE SidecarLost \/ Answered \/ UNCHANGED allVars
  BY <1>1, <1>11 DEF SidecarLost, SidecarRestarts, Answered, allVars, telemetryVars
<1> QED
  BY <1>4, <1>5, <1>6, <1>7, <1>8, <1>9, <1>10, <1>11
     DEF Next, SidecarStep, Faults, SupervisorStep, Own
(* A request fails with its cause, and keeps it.                            *)
LEMMA RequestsStep == Requests /\ [Next]_allVars => Requests'
<1> SUFFICES ASSUME Requests, [Next]_allVars PROVE Requests'
  OBVIOUS
<1> USE CauseAssumption DEF Requests, Stages, To, Refuse
<1>1. ASSUME NEW s \in Sessions, Receive(s)
      PROVE  Requests'
  BY <1>1 DEF Receive
<1>2. ASSUME NEW s \in Sessions, LoginEmitted(s) \/ TokenAnswered(s) \/ OnLoginEmitted(s)
      PROVE  Requests'
  BY <1>2 DEF LoginEmitted, TokenAnswered, OnLoginEmitted
<1>3. ASSUME NEW s \in Sessions, Auth0Fails(s)
      PROVE  Requests'
  BY <1>3 DEF Auth0Fails
<1>4. ASSUME NEW s \in Sessions, UserAnswered(s)
      PROVE  Requests'
  BY <1>4 DEF UserAnswered
<1>5. ASSUME NEW s \in Sessions, MaterializedEmitted(s)
      PROVE  Requests'
  BY <1>5 DEF MaterializedEmitted
<1>6. CASE SupervisorRestarts
  <2>1. restarts' \in 0..MaxRestarts
    BY <1>6, SupervisorAssumption DEF SupervisorRestarts, Restart
  <2> QED
    BY <1>6, <2>1 DEF SupervisorRestarts, InProgress
<1>7. CASE SidecarLost
  BY <1>7, SupervisorAssumption DEF SidecarLost, Restart
<1>8. CASE UNCHANGED supervisorVars
  BY <1>8 DEF supervisorVars
<1> QED
  BY <1>1, <1>2, <1>3, <1>4, <1>5, <1>6, <1>7, <1>8
     DEF Next, SupervisorStep, Own, EmissionFails, SidecarStep, Faults, Answered, allVars

(* A session never goes back behind the reading of its metadata, which is    *)
(* read once; and from then on only a restart fails it.                      *)
LEMMA ReadStays ==
    ASSUME Requests, AfterRead, [Next]_allVars, NEW s \in Sessions, sup[s] \in Read
    PROVE  sup'[s] \in Read /\ meta'[s] = meta[s] /\ cause'[s] \in {cause[s], "restart"}
<1> USE DEF Requests, Read, To, Refuse
<1>1. ASSUME NEW t \in Sessions, Receive(t) \/ LoginEmitted(t) \/ TokenAnswered(t)
      PROVE  sup'[s] \in Read /\ meta'[s] = meta[s] /\ cause'[s] \in {cause[s], "restart"}
  BY <1>1 DEF Receive, LoginEmitted, TokenAnswered
<1>2. ASSUME NEW t \in Sessions, Auth0Fails(t) \/ UserAnswered(t)
      PROVE  sup'[s] \in Read /\ meta'[s] = meta[s] /\ cause'[s] \in {cause[s], "restart"}
  BY <1>2 DEF Auth0Fails, UserAnswered
<1>3. ASSUME NEW t \in Sessions, MaterializedEmitted(t) \/ OnLoginEmitted(t)
      PROVE  sup'[s] \in Read /\ meta'[s] = meta[s] /\ cause'[s] \in {cause[s], "restart"}
  BY <1>3 DEF MaterializedEmitted, OnLoginEmitted
<1>4. CASE SupervisorRestarts \/ SidecarLost
  BY <1>4 DEF SupervisorRestarts, SidecarLost
<1>5. CASE UNCHANGED supervisorVars
  BY <1>5 DEF supervisorVars
<1> QED
  BY <1>1, <1>2, <1>3, <1>4, <1>5
     DEF Next, SupervisorStep, Own, EmissionFails, SidecarStep, Faults, Answered, allVars

(* A request that was let in stays so.                                      *)
LEMMA LetInStays ==
    ASSUME Requests, [Next]_allVars, NEW s \in Sessions, sup[s] # "idle", cause[s] # "context"
    PROVE  sup'[s] # "idle" /\ cause'[s] # "context"
<1> USE DEF Requests, To, Refuse
<1>1. ASSUME NEW t \in Sessions, Receive(t) \/ LoginEmitted(t) \/ TokenAnswered(t)
      PROVE  sup'[s] # "idle" /\ cause'[s] # "context"
  BY <1>1 DEF Receive, LoginEmitted, TokenAnswered
<1>2. ASSUME NEW t \in Sessions, Auth0Fails(t) \/ UserAnswered(t)
      PROVE  sup'[s] # "idle" /\ cause'[s] # "context"
  BY <1>2 DEF Auth0Fails, UserAnswered
<1>3. ASSUME NEW t \in Sessions, MaterializedEmitted(t) \/ OnLoginEmitted(t)
      PROVE  sup'[s] # "idle" /\ cause'[s] # "context"
  BY <1>3 DEF MaterializedEmitted, OnLoginEmitted
<1>4. CASE SupervisorRestarts \/ SidecarLost
  BY <1>4 DEF SupervisorRestarts, SidecarLost
<1>5. CASE UNCHANGED supervisorVars
  BY <1>5 DEF supervisorVars
<1> QED
  BY <1>1, <1>2, <1>3, <1>4, <1>5
     DEF Next, SupervisorStep, Own, EmissionFails, SidecarStep, Faults, Answered, allVars

(* Past the reading stands only who was cleared.                            *)
LEMMA AfterReadStep == Requests /\ AfterRead /\ [Next]_allVars => AfterRead'
<1> SUFFICES ASSUME Requests, AfterRead, [Next]_allVars,
                    NEW s \in Sessions, sup'[s] \in Read \ {"failed"}
             PROVE  Cleared(s)'
  BY DEF AfterRead, Read
<1> USE DEF Requests, Cleared
<1>1. CASE sup[s] \in Read
  <2>1. meta'[s] = meta[s] /\ (sup[s] # "failed" => Cleared(s))
    BY <1>1, ReadStays DEF AfterRead
  <2>2. CASE sup[s] = "failed"
    <3> USE <2>2 DEF To, Refuse, Read
    <3>1. ASSUME NEW t \in Sessions, Receive(t) \/ SupervisorStep(t)
          PROVE  sup'[s] = "failed"
      BY <3>1 DEF Receive, SupervisorStep, Own, LoginEmitted, TokenAnswered, UserAnswered,
                  MaterializedEmitted, OnLoginEmitted, EmissionFails, Auth0Fails, supervisorVars
    <3> QED
      BY <3>1 DEF Next, SidecarStep, Faults, SupervisorRestarts, SidecarLost, Answered,
                  allVars, supervisorVars, InProgress, Stages
  <2> QED
    BY <2>1, <2>2
<1>2. CASE sup[s] \notin Read
  <2>1. ASSUME NEW t \in Sessions, UserAnswered(t)
        PROVE  Cleared(s)'
    BY <1>2, <2>1 DEF UserAnswered, MetadataComplete, To, Refuse, Read
  <2>2. ASSUME NEW t \in Sessions,
               \/ Receive(t) \/ LoginEmitted(t) \/ TokenAnswered(t) \/ Auth0Fails(t)
               \/ MaterializedEmitted(t) \/ OnLoginEmitted(t)
        PROVE  FALSE
    BY <1>2, <2>2 DEF Receive, LoginEmitted, TokenAnswered, Auth0Fails, MaterializedEmitted,
                      OnLoginEmitted, To, Refuse, Read
  <2> QED
    BY <1>2, <2>1, <2>2
       DEF Next, SupervisorStep, Own, EmissionFails, SidecarStep, Faults, SupervisorRestarts,
           SidecarLost, Answered, allVars, supervisorVars, Read, InProgress
<1> QED
  BY <1>1, <1>2
(* What was true when it was posted stays true.                             *)
LEMMA TruthStays ==
    ASSUME Requests, AfterRead, [Next]_allVars, NEW p \in Posts, Truthful(p),
           ingested \subseteq ingested'
    PROVE  Truthful(p)'
<1>1. p.session \in Sessions
  BY DEF Posts
<1>2. sup'[p.session] # "idle" /\ cause'[p.session] # "context"
  BY <1>1, LetInStays DEF Truthful
<1>3. ASSUME p.event \in {"materialized", "on_login"}
      PROVE  /\ sup'[p.session] \in Read /\ Cleared(p.session)'
             /\ cause'[p.session] \in {None, "restart"}
  BY <1>1, <1>3, ReadStays DEF Truthful, Cleared
<1> QED
  BY <1>2, <1>3 DEF Truthful

(* A step whose new posts are true keeps the wire true.                      *)
LEMMA WireStep ==
    ASSUME Requests, AfterRead, OnTheWay, [Next]_allVars,
           ingested \subseteq ingested',
           NEW new \in Posts, wire' \cup ingested' \subseteq wire \cup ingested \cup {new},
           Truthful(new)'
    PROVE  OnTheWay'
<1>1. wire' \cup ingested' \subseteq Posts
  BY DEF OnTheWay
<1>2. ASSUME NEW p \in wire' \cup ingested' PROVE Truthful(p)'
  <2>1. CASE p = new
    BY <2>1
  <2>2. CASE p \in wire \cup ingested
    BY <2>2, TruthStays DEF OnTheWay
  <2> QED
    BY <1>2, <2>1, <2>2
<1> QED
  BY <1>1, <1>2 DEF OnTheWay

(* A step that posts nothing keeps it too.                                  *)
LEMMA WireQuiet ==
    ASSUME Requests, AfterRead, OnTheWay, [Next]_allVars,
           ingested \subseteq ingested',
           wire' \cup ingested' \subseteq wire \cup ingested
    PROVE  OnTheWay'
<1>1. ASSUME NEW p \in wire' \cup ingested' PROVE Truthful(p)'
  BY <1>1, TruthStays DEF OnTheWay
<1> QED
  BY <1>1 DEF OnTheWay

(* Whatever is on the wire or was handled is true: an emission posts only    *)
(* what it may, and a log only after its trace.                             *)
LEMMA OnTheWayStep ==
    Pending /\ Requests /\ AfterRead /\ OnTheWay /\ [Next]_allVars => OnTheWay'
<1> SUFFICES ASSUME Pending, Requests, AfterRead, OnTheWay, [Next]_allVars PROVE OnTheWay'
  OBVIOUS
<1>1. CASE UNCHANGED <<wire, ingested>>
  BY <1>1, WireQuiet
<1>2. ASSUME NEW s \in Sessions, NEW event \in {"login", "materialized", "on_login"},
             NEW attributes \in Attributes, BeginEmit(s, event, attributes),
             sup'[s] # "idle", cause'[s] = None,
             event # "login" => (sup[s] \in Read /\ Cleared(s))'
      PROVE  OnTheWay'
  <2> DEFINE new == Post(s, "trace", event, attributes)
  <2>1. new \in Posts /\ wire' \subseteq wire \cup {new} /\ UNCHANGED ingested
    BY <1>2, EmitEffect
  <2>2. Truthful(new)'
    BY <1>2, CauseAssumption DEF Truthful, Post
  <2> QED
    BY <2>1, <2>2, WireStep
<1>3. ASSUME NEW p \in wire, Ingest(p)
      PROVE  OnTheWay'
  <2> DEFINE log == [p EXCEPT !.kind = "log"]
  <2>1. p \in Posts /\ ingested' = ingested \cup {p}
    BY <1>3 DEF OnTheWay, Ingest
  <2>2. CASE p.kind = "trace" /\ wire' = (wire \ {p}) \cup {log}
    <3>1. log \in Posts
      BY <2>1 DEF Posts
    <3>2. [log EXCEPT !.kind = "trace"] = p
      BY <2>1, <2>2 DEF Posts
    <3>3. Truthful(p)'
      BY <2>1, TruthStays DEF OnTheWay
    <3>4. Truthful(log)'
      <4>1. log.event = p.event /\ log.session = p.session
        BY <2>1 DEF Posts
      <4> QED
        BY <2>1, <3>2, <3>3, <4>1 DEF Truthful
    <3> QED
      BY <2>1, <2>2, <3>1, <3>4, WireStep
  <2>3. CASE wire' = wire \ {p}
    BY <2>1, <2>3, WireQuiet
  <2> QED
    BY <1>3, <2>2, <2>3 DEF Ingest
<1>4. ASSUME NEW s \in Sessions, Receive(s)
      PROVE  OnTheWay'
  <2>1. CASE UNCHANGED telemetryVars
    BY <1>1, <2>1 DEF telemetryVars
  <2>2. CASE To(s, "login") /\ BeginEmit(s, "login", LoginAttributes) /\ UNCHANGED cause
    <3>1. sup'[s] # "idle" /\ cause'[s] = None
      BY <1>4, <2>2 DEF Receive, Requests, To
    <3> QED
      BY <1>2, <2>2, <3>1 DEF Attributes
  <2> QED
    BY <1>4, <2>1, <2>2 DEF Receive
<1>5. ASSUME NEW s \in Sessions, UserAnswered(s)
      PROVE  OnTheWay'
  <2>1. CASE UNCHANGED telemetryVars
    BY <1>1, <2>1 DEF telemetryVars
  <2>2. CASE BeginEmit(s, "materialized", MaterializedAttributes) /\ To(s, "materialized")
             /\ \E m \in Metadata : meta' = [meta EXCEPT ![s] = m] /\ m.scopes /\ m.tools
             /\ UNCHANGED cause
    <3>1. sup'[s] # "idle" /\ cause'[s] = None
      BY <1>5, <2>2 DEF UserAnswered, Requests, To
    <3>2. (sup[s] \in Read /\ Cleared(s))'
      BY <2>2 DEF Requests, To, Read, Cleared
    <3> QED
      BY <1>2, <2>2, <3>1, <3>2 DEF Attributes
  <2> QED
    BY <1>5, <2>1, <2>2 DEF UserAnswered, MetadataComplete
<1>6. ASSUME NEW s \in Sessions, MaterializedEmitted(s)
      PROVE  OnTheWay'
  <2>1. Cleared(s) /\ meta' = meta /\ sup'[s] = "on_login" /\ cause'[s] = None
    BY <1>6 DEF MaterializedEmitted, AfterRead, Read, Requests, To
  <2> QED
    BY <1>2, <1>6, <2>1 DEF MaterializedEmitted, Attributes, Cleared, Read
<1>7. ASSUME NEW s \in Sessions, EmissionFails(s)
      PROVE  OnTheWay'
  BY <1>7, WireQuiet DEF EmissionFails, PostFails, PostTimesOut
<1>8. ASSUME NEW s \in Sessions,
             LoginEmitted(s) \/ TokenAnswered(s) \/ OnLoginEmitted(s) \/ Auth0Fails(s)
      PROVE  OnTheWay'
  BY <1>1, <1>8 DEF LoginEmitted, TokenAnswered, OnLoginEmitted, Auth0Fails, telemetryVars
<1>9. CASE SidecarLost
  BY <1>9, WireQuiet DEF SidecarLost, SidecarRestarts
<1>10. CASE SupervisorRestarts \/ Answered \/ UNCHANGED allVars
  BY <1>1, <1>10 DEF SupervisorRestarts, Answered, allVars, telemetryVars
<1> QED
  BY <1>3, <1>4, <1>5, <1>6, <1>7, <1>8, <1>9, <1>10
     DEF Next, SidecarStep, Faults, SupervisorStep, Own

(* The supervisor's invariant is kept by every step.                         *)
LEMMA SupervisorStepInv == SupervisorInv /\ [Next]_allVars => SupervisorInv'
BY BuffersStep, PendingStep, RequestsStep, AfterReadStep, OnTheWayStep DEF SupervisorInv

(* It implies the types, and what the properties say.                        *)
LEMMA SupervisorInvImplies ==
    SupervisorInv => TelemetryTruthful /\ FailureHasCause
<1> SUFFICES ASSUME SupervisorInv
             PROVE  TelemetryTruthful /\ FailureHasCause
  OBVIOUS
<1> USE DEF SupervisorInv
<1>1. TelemetryTruthful
  BY DEF TelemetryTruthful, OnTheWay, Truthful, Cleared, MetadataComplete
<1>2. TelemetryTypeOK
  <2>1. \A p \in wire : p.session \in Sessions
    BY DEF OnTheWay, Posts
  <2>2. Len(traces) \in 0..MaxItems /\ Len(logs) \in 0..MaxItems
    BY TelemetryAssumption DEF Buffers
  <2> QED
    BY <2>1, <2>2 DEF TelemetryTypeOK, Pending
<1>3. FailureHasCause
  BY <1>2 DEF FailureHasCause, TypeOK, Requests
<1> QED
  BY <1>1, <1>3

(* The supervisor's invariant, for every number of sessions and restarts.    *)
LEMMA SupervisorInvariance == Spec => []SupervisorInv
BY SupervisorInit, SupervisorStepInv, PTL DEF Spec

(* The sidecar hears of no login whose context was not verified; it is told   *)
(* that a session was materialized, and of on_login, only when the metadata    *)
(* of its user was complete and Auth0 has nothing left to refuse; and it has   *)
(* the trace of every log it has, whatever post fails or is given up.        *)
THEOREM SidecarToldTheTruth == Spec => []TelemetryTruthful
BY SupervisorInvariance, SupervisorInvImplies, PTL

(* A login fails only of its context, Auth0, the metadata or a restart.      *)
THEOREM LoginFailsWithCause == Spec => []FailureHasCause
BY SupervisorInvariance, SupervisorInvImplies, PTL
------------------------------------------------------------------------------
(* The frontend server.  A session is its callback, which stores it once and *)
(* is done; so whatever names a session, a cookie or an answer on its way,    *)
(* names a callback that is done.                                           *)
Callbacks ==
    /\ fe \in [Sessions -> CallbackStages]
    /\ login \in [Sessions -> begun \cup {None}]
    /\ \A c \in Sessions : fe[c] = "new" <=> login[c] = None
    /\ redeemed \subseteq begun /\ begun \subseteq Logins

Bounds == logouts \in 0..MaxLogouts /\ reloads \in 0..MaxReloads

\* How far a callback is tells what the supervisor and the agent service did.
Progress ==
    /\ registered \subseteq Sessions
    /\ \A c \in Sessions :
         /\ fe[c] \in {"register", "store", "done"} => sup[c] = "ok"
         /\ fe[c] \in {"store", "done"} => c \in registered
    /\ \A c \in registered : sup[c] = "ok"

HasDone(c) == c \in Sessions /\ fe[c] = "done"

\* A session that was stored is still there, was logged out, or was lost.
Stored ==
    /\ \A c \in sessions \cup out \cup lost : HasDone(c)
    /\ \A c \in Sessions : fe[c] = "done" => c \in sessions \cup out \cup lost
    /\ sessions \cap (out \cup lost) = {}

Named ==
    /\ cookie # None => HasDone(cookie)
    /\ txn \in begun \cup {None}
    /\ replies \subseteq [kind : {"session", "error", "logout"}, session : Sessions \cup {None}]
    /\ \A r \in replies : r.kind = "session" => HasDone(r.session)

LoginInv == SupervisorInv /\ Callbacks /\ Bounds /\ Progress /\ Stored /\ Named
------------------------------------------------------------------------------
(* Before the first login nothing names anything.                           *)
LEMMA LoginInitInv == LoginInit => LoginInv
<1> SUFFICES ASSUME LoginInit PROVE LoginInv
  OBVIOUS
<1> USE DEF LoginInit
<1>1. SupervisorInv
  BY SupervisorInit
<1>2. Callbacks /\ Bounds
  BY LoginAssumption DEF Callbacks, Bounds, CallbackStages
<1>3. Progress /\ Stored /\ Named
  BY DEF Progress, Stored, Named, HasDone
<1> QED
  BY <1>1, <1>2, <1>3 DEF LoginInv

(* A step of the login system is one of the supervisor, or leaves it alone.   *)
LEMMA LoginStepIsSupervisorStep == [LoginNext]_<<allVars, loginVars>> => [Next]_allVars
<1> SUFFICES ASSUME [LoginNext]_<<allVars, loginVars>> PROVE [Next]_allVars
  OBVIOUS
<1>1. ASSUME NEW c \in Sessions, CallbackStep(c) PROVE [Next]_allVars
  BY <1>1 DEF CallbackStep, Exchange, AskSupervisor, MetadataLoaded, CallFails, Register,
              Store, Next
<1>2. ASSUME NEW c \in Sessions, NEW n \in Logins, Callback(c, n) PROVE [Next]_allVars
  BY <1>2 DEF Callback
<1>3. CASE (\E s \in Sessions : SupervisorStep(s)) \/ SupervisorRestarts
  BY <1>3 DEF Next, Faults
<1>4. CASE Browser \/ Reload
  BY <1>4 DEF Browser, Begin, Arrive, ReplyLost, CookieExpires, Logout, Reload
<1> QED
  BY <1>1, <1>2, <1>3, <1>4 DEF LoginNext

(* A request that was answered stays answered.                              *)
LEMMA OkStays ==
    ASSUME Requests, [Next]_allVars, NEW s \in Sessions, sup[s] = "ok"
    PROVE  sup'[s] = "ok"
<1> USE DEF Requests, To, Refuse
<1>1. ASSUME NEW t \in Sessions, Receive(t) \/ SupervisorStep(t)
      PROVE  sup'[s] = "ok"
  BY <1>1 DEF Receive, SupervisorStep, Own, LoginEmitted, TokenAnswered, UserAnswered,
              MaterializedEmitted, OnLoginEmitted, EmissionFails, Auth0Fails, supervisorVars
<1> QED
  BY <1>1 DEF Next, SidecarStep, Faults, SupervisorRestarts, SidecarLost, Answered, allVars,
              supervisorVars, InProgress

(* What one callback's step may do to where callbacks stand.                 *)
LEMMA GoEffect ==
    ASSUME Callbacks, NEW c \in Sessions, NEW stage \in CallbackStages \ {"new"},
           fe[c] # "new", Go(c, stage), UNCHANGED <<login, begun>>,
           redeemed' \subseteq begun
    PROVE  Callbacks'
BY DEF Callbacks, Go

(* A callback never begins anew, and redeems only codes of logins that began. *)
LEMMA CallbacksStep == Callbacks /\ [LoginNext]_<<allVars, loginVars>> => Callbacks'
<1> SUFFICES ASSUME Callbacks, [LoginNext]_<<allVars, loginVars>> PROVE Callbacks'
  OBVIOUS
<1> USE DEF CallbackStages, At
<1>1. ASSUME NEW c \in Sessions, NEW n \in Logins, Callback(c, n) PROVE Callbacks'
  BY <1>1, LoginAssumption DEF Callback, Callbacks, Go, RedirectWithError
<1>2. ASSUME NEW c \in Sessions, Exchange(c) PROVE Callbacks'
  <2>1. login[c] \in begun /\ redeemed' \subseteq begun
    BY <1>2 DEF Exchange, Callbacks
  <2> QED
    BY <1>2, <2>1, GoEffect DEF Exchange, RedirectWithError
<1>3. ASSUME NEW c \in Sessions, MetadataLoaded(c) \/ Register(c) PROVE Callbacks'
  BY <1>3, GoEffect DEF MetadataLoaded, Register, browserVars, Callbacks
<1>4. ASSUME NEW c \in Sessions, CallFails(c) \/ Store(c) PROVE Callbacks'
  BY <1>4, GoEffect DEF CallFails, Store, RedirectWithError, Callbacks
<1>5. CASE Reload
  BY <1>5 DEF Reload, Callbacks, Awaiting
<1>6. ASSUME NEW n \in Logins, Begin(n) PROVE Callbacks'
  BY <1>6 DEF Begin, Callbacks, serverVars
<1>7. CASE UNCHANGED <<fe, login, begun, redeemed>>
  BY <1>7 DEF Callbacks
<1>8. CASE (\E r \in replies : Arrive(r) \/ ReplyLost(r)) \/ CookieExpires \/ Logout
  BY <1>7, <1>8 DEF Arrive, ReplyLost, CookieExpires, Logout, serverVars
<1>9. CASE UNCHANGED loginVars
  BY <1>7, <1>9 DEF loginVars, serverVars, browserVars
<1> QED
  BY <1>1, <1>2, <1>3, <1>4, <1>5, <1>6, <1>8, <1>9
     DEF LoginNext, CallbackStep, AskSupervisor, Browser

(* The counters keep their bounds.                                          *)
LEMMA BoundsStep == Bounds /\ [LoginNext]_<<allVars, loginVars>> => Bounds'
<1> SUFFICES ASSUME Bounds, [LoginNext]_<<allVars, loginVars>> PROVE Bounds'
  OBVIOUS
<1> USE LoginAssumption DEF Bounds
<1>1. CASE UNCHANGED <<logouts, reloads>>
  BY <1>1
<1>2. CASE Logout \/ Reload
  BY <1>2 DEF Logout, Reload
<1>3. ASSUME NEW c \in Sessions, CallbackStep(c) \/ \E n \in Logins : Callback(c, n)
      PROVE  Bounds'
  BY <1>1, <1>3 DEF CallbackStep, Exchange, AskSupervisor, MetadataLoaded, CallFails, Register,
                    Store, Callback, loginVars, browserVars
<1>4. CASE Browser
  BY <1>1, <1>2, <1>4 DEF Browser, Begin, Arrive, ReplyLost, CookieExpires
<1> QED
  BY <1>1, <1>2, <1>3, <1>4 DEF LoginNext, loginVars, browserVars
(* A callback goes on only when the supervisor, then the agent service, has   *)
(* done its part, and neither takes it back.                                *)
LEMMA ProgressStep ==
    Requests /\ Callbacks /\ Progress /\ [LoginNext]_<<allVars, loginVars>> => Progress'
<1> SUFFICES ASSUME Requests, Callbacks, Progress, [LoginNext]_<<allVars, loginVars>>
             PROVE  Progress'
  OBVIOUS
<1> USE DEF At, Go, RedirectWithError
<1> DEFINE ok == {s \in Sessions : sup[s] = "ok"}
<1>1. ok \subseteq ok'
  BY OkStays, LoginStepIsSupervisorStep
<1>2. CASE UNCHANGED <<fe, registered>>
  BY <1>1, <1>2 DEF Progress
<1>3. ASSUME NEW c \in Sessions, NEW stage \in {"exchange", "metadata", "gone"},
             Go(c, stage), UNCHANGED registered
      PROVE  Progress'
  BY <1>1, <1>3 DEF Progress, Callbacks
<1>4. ASSUME NEW c \in Sessions, MetadataLoaded(c)
      PROVE  Progress'
  BY <1>1, <1>4 DEF MetadataLoaded, Progress, Callbacks
<1>5. ASSUME NEW c \in Sessions, Register(c)
      PROVE  Progress'
  BY <1>1, <1>5 DEF Register, Progress, Callbacks
<1>6. ASSUME NEW c \in Sessions, Store(c)
      PROVE  Progress'
  BY <1>1, <1>6 DEF Store, Progress, Callbacks
<1>7. ASSUME NEW c \in Sessions,
             Exchange(c) \/ CallFails(c) \/ \E n \in Logins : Callback(c, n)
      PROVE  Progress'
  BY <1>3, <1>7 DEF Exchange, CallFails, Callback
<1>8. CASE Reload
  BY <1>1, <1>8 DEF Reload, Progress, Callbacks, Awaiting
<1>9. CASE Browser
  BY <1>2, <1>9 DEF Browser, Begin, Arrive, ReplyLost, CookieExpires, Logout, serverVars
<1>10. CASE UNCHANGED loginVars
  BY <1>2, <1>10 DEF loginVars, serverVars
<1> QED
  BY <1>4, <1>5, <1>6, <1>7, <1>8, <1>9, <1>10 DEF LoginNext, CallbackStep, AskSupervisor

(* A callback that is done stays so, and so does every name of its session.  *)
LEMMA DoneStays ==
    ASSUME Callbacks, [LoginNext]_<<allVars, loginVars>>, NEW c, HasDone(c)
    PROVE  HasDone(c)'
<1> USE DEF At, Go, RedirectWithError, HasDone, Callbacks
<1>1. ASSUME NEW d \in Sessions, CallbackStep(d) \/ \E n \in Logins : Callback(d, n)
      PROVE  fe'[c] = "done"
  BY <1>1 DEF CallbackStep, Exchange, AskSupervisor, MetadataLoaded, CallFails, Register, Store,
              Callback, loginVars, serverVars
<1>2. CASE Browser \/ Reload
  BY <1>2 DEF Browser, Begin, Arrive, ReplyLost, CookieExpires, Logout, serverVars, Reload,
              Awaiting
<1> QED
  BY <1>1, <1>2 DEF LoginNext, loginVars, serverVars

(* A session is stored once, and leaves the Map by a logout or with the       *)
(* process.                                                                 *)
LEMMA StoredStep ==
    Callbacks /\ Stored /\ [LoginNext]_<<allVars, loginVars>> => Stored'
<1> SUFFICES ASSUME Callbacks, Stored, [LoginNext]_<<allVars, loginVars>> PROVE Stored'
  OBVIOUS
<1> USE DEF At, Go, RedirectWithError, HasDone
<1>1. CASE UNCHANGED <<fe, sessions, out, lost>>
  BY <1>1 DEF Stored
<1>2. ASSUME NEW c \in Sessions, NEW stage \in CallbackStages \ {"done"}, fe[c] # "done",
             Go(c, stage), UNCHANGED <<sessions, out, lost>>
      PROVE  Stored'
  BY <1>2 DEF Stored, Callbacks
<1>3. ASSUME NEW c \in Sessions, NEW n \in Logins, Callback(c, n)
      PROVE  Stored'
  BY <1>2, <1>3 DEF Callback, CallbackStages
<1>4. ASSUME NEW c \in Sessions, Exchange(c) \/ MetadataLoaded(c) \/ CallFails(c) \/ Register(c)
      PROVE  Stored'
  BY <1>2, <1>4 DEF Exchange, MetadataLoaded, CallFails, Register, browserVars, CallbackStages
<1>5. ASSUME NEW c \in Sessions, Store(c)
      PROVE  Stored'
  BY <1>5 DEF Store, Stored, Callbacks
<1>6. CASE Logout
  BY <1>6 DEF Logout, SessionOfCookie, Stored
<1>7. CASE Reload
  BY <1>7 DEF Reload, Awaiting, Stored, Callbacks
<1>8. CASE \/ \E n \in Logins : Begin(n)
           \/ \E r \in replies : Arrive(r) \/ ReplyLost(r)
           \/ CookieExpires
  BY <1>1, <1>8 DEF Begin, Arrive, ReplyLost, CookieExpires, serverVars
<1>9. CASE UNCHANGED loginVars
  BY <1>1, <1>9 DEF loginVars, serverVars, browserVars
<1> QED
  BY <1>3, <1>4, <1>5, <1>6, <1>7, <1>8, <1>9
     DEF LoginNext, CallbackStep, AskSupervisor, Browser

(* Whatever answers arrive in whatever order, the cookie names a callback     *)
(* that is done.                                                            *)
LEMMA NamedStep ==
    Callbacks /\ Named /\ [LoginNext]_<<allVars, loginVars>> => Named'
<1> SUFFICES ASSUME Callbacks, Named, [LoginNext]_<<allVars, loginVars>> PROVE Named'
  OBVIOUS
<1>1. \A c : HasDone(c) => HasDone(c)'
  BY DoneStays
<1>2. CASE UNCHANGED <<txn, cookie, replies>> /\ begun \subseteq begun'
  BY <1>1, <1>2 DEF Named
<1>3. ASSUME NEW kind \in {"error", "logout"}, Reply(kind, None), UNCHANGED <<txn, cookie, begun>>
      PROVE  Named'
  BY <1>1, <1>3 DEF Named, Reply
<1>4. ASSUME NEW c \in Sessions, Store(c)
      PROVE  Named'
  <2>1. HasDone(c)'
    BY <1>4 DEF Store, Go, Callbacks, HasDone
  <2> QED
    BY <1>1, <1>4, <2>1 DEF Store, Named, Reply
<1>5. ASSUME NEW c \in Sessions, NEW n \in Logins, Callback(c, n)
      PROVE  Named'
  BY <1>2, <1>3, <1>5 DEF Callback, RedirectWithError
<1>6. ASSUME NEW c \in Sessions, Exchange(c) \/ CallFails(c)
      PROVE  Named'
  BY <1>2, <1>3, <1>6 DEF Exchange, CallFails, RedirectWithError
<1>7. ASSUME NEW c \in Sessions, MetadataLoaded(c) \/ Register(c)
      PROVE  Named'
  BY <1>2, <1>7 DEF MetadataLoaded, Register, browserVars
<1>8. ASSUME NEW n \in Logins, Begin(n)
      PROVE  Named'
  BY <1>1, <1>8 DEF Begin, Named
<1>9. ASSUME NEW r \in replies, Arrive(r)
      PROVE  Named'
  <2>1. r.kind \in {"session", "error", "logout"} /\ (r.kind = "session" => HasDone(r.session))
    BY DEF Named
  <2>2. (cookie # None => HasDone(cookie))'
    BY <1>1, <1>9, <2>1 DEF Arrive, Named
  <2> QED
    BY <1>1, <1>9, <2>2 DEF Arrive, Named
<1>10. ASSUME NEW r \in replies, ReplyLost(r)
       PROVE  Named'
  BY <1>1, <1>10 DEF ReplyLost, Named
<1>11. CASE CookieExpires
  BY <1>1, <1>11 DEF CookieExpires, Named
<1>12. CASE Logout
  BY <1>3, <1>12 DEF Logout
<1>13. CASE Reload \/ UNCHANGED loginVars
  BY <1>2, <1>13 DEF Reload, loginVars, browserVars
<1> QED
  BY <1>4, <1>5, <1>6, <1>7, <1>8, <1>9, <1>10, <1>11, <1>12, <1>13
     DEF LoginNext, CallbackStep, AskSupervisor, Browser
(* The login system's invariant is kept by every step.                       *)
LEMMA LoginStepInv == LoginInv /\ [LoginNext]_<<allVars, loginVars>> => LoginInv'
<1> SUFFICES ASSUME LoginInv, [LoginNext]_<<allVars, loginVars>> PROVE LoginInv'
  OBVIOUS
<1>1. SupervisorInv' /\ Requests
  BY LoginStepIsSupervisorStep, SupervisorStepInv DEF LoginInv, SupervisorInv
<1> QED
  BY <1>1, CallbacksStep, BoundsStep, ProgressStep, StoredStep, NamedStep DEF LoginInv

(* It implies what the properties say.                                      *)
LEMMA LoginInvImplies == LoginInv => SessionReady /\ LoggedOutStaysOut /\ CookieResolves
<1> SUFFICES ASSUME LoginInv PROVE SessionReady /\ LoggedOutStaysOut /\ CookieResolves
  OBVIOUS
<1> USE DEF LoginInv, HasDone
<1>1. \A c \in sessions \cup out \cup lost : c \in registered
  BY DEF Stored, Progress
<1>2. LoginTypeOK
  <2>1. TypeOK
    BY SupervisorInvImplies DEF FailureHasCause
  <2>2. login \in [Sessions -> Logins \cup {None}]
    BY DEF Callbacks
  <2>3. cookie \in registered \cup {None}
    BY DEF Named, Progress
  <2>4. registered \subseteq {c \in Sessions : sup[c] = "ok"}
    BY DEF Progress
  <2> QED
    BY <1>1, <2>1, <2>2, <2>3, <2>4 DEF LoginTypeOK, Callbacks, Bounds, Named
<1>3. ASSUME NEW c \in sessions
      PROVE  c \in registered /\ sup[c] = "ok" /\ meta[c].scopes /\ meta[c].tools
  <2>1. c \in registered /\ c \in Sessions /\ sup[c] = "ok"
    BY <1>1 DEF Progress
  <2> QED
    BY <2>1 DEF SupervisorInv, AfterRead, Cleared, Read
<1>4. SessionReady
  BY <1>2, <1>3 DEF SessionReady
<1>5. LoggedOutStaysOut
  BY DEF LoggedOutStaysOut, Stored
<1>6. CookieResolves
  BY DEF CookieResolves, Named, Stored
<1> QED
  BY <1>4, <1>5, <1>6

(* The login system's invariant, for every number of callbacks and logins.   *)
LEMMA LoginInvariance == LoginSpec => []LoginInv
BY LoginInitInv, LoginStepInv, PTL DEF LoginSpec

(* The frontend server drives the supervisor only as the supervisor allows:   *)
(* what is proved of POST /identity/auth0/session holds behind the login.     *)
THEOREM LoginRunsSupervisor == LoginSpec => Spec
<1>1. LoginInit => Init
  BY DEF LoginInit
<1> QED
  BY <1>1, LoginStepIsSupervisorStep, PTL DEF LoginSpec, Spec

(* A session in the Map of auth0-session-store has its token registered and   *)
(* belongs to a user with scopes and tools.                                 *)
THEOREM SessionsAreReady == LoginSpec => []SessionReady
BY LoginInvariance, LoginInvImplies, PTL

(* No callback and no late answer brings back a session that /logout named.   *)
THEOREM LogoutIsFinal == LoginSpec => []LoggedOutStaysOut
BY LoginInvariance, LoginInvImplies, PTL

(* The session cookie never dangles, in whichever order several tabs' answers  *)
(* arrive: its session is in the Map, was logged out, or ended with a process. *)
THEOREM CookieNeverDangles == LoginSpec => []CookieResolves
BY LoginInvariance, LoginInvImplies, PTL
==============================================================================
