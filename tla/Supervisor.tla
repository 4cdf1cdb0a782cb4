------------------------------ MODULE Supervisor ------------------------------
(***************************************************************************)
(* POST /identity/auth0/session: the supervisor checks the signed context, *)
(* reads the user's metadata with a management token, and reports the three *)
(* events of a login to the sidecar, waiting for each before it goes on.    *)
(***************************************************************************)
EXTENDS Telemetry, FiniteSets

CONSTANT MaxRestarts  \* bound on restarts of supervisor and sidecar

ASSUME SupervisorAssumption == MaxRestarts \in Nat
ASSUME CauseAssumption == None \notin {"context", "auth0", "metadata", "restart"}

VARIABLES
    sup,      \* sup[s]: where the request for session s stands
    meta,     \* meta[s]: app_metadata.magnum_opus, once it was read
    cause,    \* history variable: why the request failed
    restarts  \* restarts so far

supervisorVars == <<sup, meta, cause, restarts>>
allVars == <<telemetryVars, supervisorVars>>

\* Whether allowed_scopes and allowed_mcp_tools are not empty, and the traits.
Metadata ==
    [scopes : BOOLEAN, tools : BOOLEAN, traits : {"text", "labelled", "unlabelled"}]

Stages == {"idle", "login", "token", "user", "materialized", "on_login", "ok", "failed"}
InProgress == Stages \ {"idle", "ok", "failed"}

TypeOK ==
    /\ TelemetryTypeOK
    /\ sup \in [Sessions -> Stages]
    /\ meta \in [Sessions -> Metadata \cup {None}]
    /\ cause \in [Sessions -> {None, "context", "auth0", "metadata", "restart"}]
    /\ \A s \in Sessions : cause[s] # None => sup[s] = "failed"
    /\ restarts \in 0..MaxRestarts

Init ==
    /\ TelemetryInit
    /\ sup = [s \in Sessions |-> "idle"]
    /\ meta = [s \in Sessions |-> None]
    /\ cause = [s \in Sessions |-> None]
    /\ restarts = 0

------------------------------------------------------------------------------
To(s, stage) == sup' = [sup EXCEPT ![s] = stage]

Refuse(s, why) ==
    /\ To(s, "failed")
    /\ cause' = [cause EXCEPT ![s] = why]

\* The attributes of the three events.
LoginAttributes == {Leaf(<<"audience">>, "text")}
MaterializedAttributes ==
    {Leaf(<<"scopes", "#">>, "text"), Leaf(<<"token_ref">>, "text"),
     Leaf(<<"allowed_tools", "#">>, "text")}
OnLoginAttributes(m) ==
    {Leaf(<<"display_name">>, "text"), Leaf(<<"traits", "#">>, m.traits)}

\* The context is verified and must agree with the body.
Receive(s) ==
    /\ sup[s] = "idle"
    /\ \/ To(s, "login") /\ BeginEmit(s, "login", LoginAttributes) /\ UNCHANGED cause
       \/ Refuse(s, "context") /\ UNCHANGED telemetryVars
    /\ UNCHANGED <<meta, restarts>>

\* _load_auth0_user_metadata asks for a management token.
LoginEmitted(s) ==
    /\ sup[s] = "login" /\ Emitted(s)
    /\ To(s, "token")
    /\ UNCHANGED <<telemetryVars, meta, cause, restarts>>

TokenAnswered(s) ==
    /\ sup[s] = "token"
    /\ To(s, "user")
    /\ UNCHANGED <<telemetryVars, meta, cause, restarts>>

\* An error status, an answer without what is needed, or 10 s without one.
Auth0Fails(s) ==
    /\ sup[s] \in {"token", "user"}
    /\ Refuse(s, "auth0")
    /\ UNCHANGED <<telemetryVars, meta, restarts>>

\* _required_metadata_string_list finds something in both fields.
MetadataComplete(m) == m.scopes /\ m.tools

\* Mutant: the events are emitted before the metadata is looked at.
UserAnsweredUnchecked(s) ==
    /\ sup[s] = "user"
    /\ \E m \in Metadata : meta' = [meta EXCEPT ![s] = m]
    /\ To(s, "materialized")
    /\ BeginEmit(s, "materialized", MaterializedAttributes)
    /\ UNCHANGED <<cause, restarts>>

UserAnswered(s) ==
    /\ sup[s] = "user"
    /\ \E m \in Metadata :
         /\ meta' = [meta EXCEPT ![s] = m]
         /\ \/ /\ MetadataComplete(m)
               /\ To(s, "materialized")
               /\ BeginEmit(s, "materialized", MaterializedAttributes)
               /\ UNCHANGED cause
            \/ /\ ~MetadataComplete(m)
               /\ Refuse(s, "metadata") /\ UNCHANGED telemetryVars
    /\ UNCHANGED restarts

MaterializedEmitted(s) ==
    /\ sup[s] = "materialized" /\ Emitted(s)
    /\ To(s, "on_login")
    /\ BeginEmit(s, "on_login", OnLoginAttributes(meta[s]))
    /\ UNCHANGED <<meta, cause, restarts>>

OnLoginEmitted(s) ==
    /\ sup[s] = "on_login" /\ Emitted(s)
    /\ To(s, "ok")
    /\ UNCHANGED <<telemetryVars, meta, cause, restarts>>

\* Mutant: an error of the sidecar is not caught.
EmissionRaises(s) ==
    /\ PostFails(s)
    /\ To(s, "failed")
    /\ UNCHANGED <<meta, cause, restarts>>

\* except (httpx.HTTPError, RuntimeError): return
EmissionFails(s) ==
    /\ PostFails(s) \/ PostTimesOut(s)
    /\ UNCHANGED supervisorVars

Restart == restarts < MaxRestarts /\ restarts' = restarts + 1

SupervisorRestarts ==
    /\ Restart
    /\ \E s \in Sessions : sup[s] \in InProgress
    /\ sup' = [s \in Sessions |-> IF sup[s] \in InProgress THEN "failed" ELSE sup[s]]
    /\ cause' = [s \in Sessions |-> IF sup[s] \in InProgress THEN "restart" ELSE cause[s]]
    /\ post' = [s \in Sessions |-> None]
    /\ UNCHANGED <<traces, logs, wire, ingested, meta>>

SidecarLost ==
    /\ Restart
    /\ traces # <<>> \/ wire # {}
    /\ SidecarRestarts
    /\ UNCHANGED <<sup, meta, cause>>

Own(s) ==
    \/ LoginEmitted(s) \/ MaterializedEmitted(s) \/ OnLoginEmitted(s)
    \/ EmissionFails(s) \/ Auth0Fails(s)

SupervisorStep(s) == Own(s) \/ TokenAnswered(s) \/ UserAnswered(s)

SidecarStep == (\E p \in wire : Ingest(p)) /\ UNCHANGED supervisorVars

Faults == SupervisorRestarts \/ SidecarLost

Answered == (\A s \in Sessions : sup[s] \in {"ok", "failed"}) /\ UNCHANGED allVars

Next ==
    \/ \E s \in Sessions : Receive(s) \/ SupervisorStep(s)
    \/ SidecarStep \/ Faults \/ Answered

Spec == Init /\ [][Next]_allVars

(* The supervisor's event loop runs, and httpx fires its timeouts: 10 s for  *)
(* Auth0, 5 s for the sidecar.  Neither of them need ever answer.            *)
FairSpec ==
    /\ Spec
    /\ \A s \in Sessions :
         /\ WF_allVars(LoginEmitted(s)) /\ WF_allVars(MaterializedEmitted(s))
         /\ WF_allVars(OnLoginEmitted(s)) /\ WF_allVars(Auth0Fails(s))
         /\ WF_allVars(PostTimesOut(s) /\ UNCHANGED supervisorVars)

------------------------------------------------------------------------------
(* What the sidecar was told is true.  It hears of no login whose context was *)
(* not verified; "login" it hears before the metadata is read, so also of a    *)
(* user who is then refused; but "materialized" and "on_login" only of a user  *)
(* with scopes and tools, whose login nothing but a restart fails any more.    *)
(* It has the trace of every log, although either post may fail, time out, or  *)
(* be handled after its sender gave it up.                                  *)
TelemetryTruthful ==
    \A p \in ingested :
        /\ cause[p.session] # "context"
        /\ p.event \in {"materialized", "on_login"} =>
              /\ MetadataComplete(meta[p.session])
              /\ cause[p.session] \in {None, "restart"}
        /\ p.kind = "log" => [p EXCEPT !.kind = "trace"] \in ingested

(* Telemetry is harmless: a login fails only of its context, of Auth0, of    *)
(* the metadata or of a restart, never of the sidecar.                       *)
FailureHasCause == TypeOK /\ \A s \in Sessions : sup[s] = "failed" => cause[s] # None

(* Every login is answered, although each of up to eight calls, two to Auth0 *)
(* and six to the sidecar, may never be.                                     *)
SupervisorAnswers == \A s \in Sessions : sup[s] = "login" ~> sup[s] \in {"ok", "failed"}
==============================================================================
