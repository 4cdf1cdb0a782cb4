------------------------------- MODULE Telemetry -------------------------------
(***************************************************************************)
(* The observability sidecar and its client: an event is posted as a trace *)
(* and then as a log, the sidecar redacts what it is sent and keeps the     *)
(* latest MaxItems of each, and the sender waits 5 seconds for an answer.   *)
(* The module owns the sidecar and the posts; Supervisor owns the senders.  *)
(***************************************************************************)
EXTENDS Naturals, Sequences

CONSTANTS
    Sessions,           \* the sessions that events are about
    MaxItems,           \* bound of the deques of InMemoryTelemetryStore
    SidecarConfigured,  \* OBSERVABILITY_SIDECAR_URL is set
    None

ASSUME TelemetryAssumption == MaxItems \in Nat \ {0} /\ SidecarConfigured \in BOOLEAN

VARIABLES
    traces,   \* the sidecar's deque of traces
    logs,     \* the sidecar's deque of logs
    wire,     \* posts that were sent and not handled
    post,     \* post[s]: the post that the emission for s waits for, or None
    ingested  \* history variable: the posts the sidecar has ever handled

telemetryVars == <<traces, logs, wire, post, ingested>>

------------------------------------------------------------------------------
(* Attributes are a set of leaves, each with the keys and "#", for an index  *)
(* of a list, that lead to it.  A leaf is "text" without a credential; a      *)
(* "labelled" one holds what a pattern of redaction.py finds, "Bearer ...", a *)
(* JWT, or the value after "access_token=", "api_key " and their like; an      *)
(* "unlabelled" one a credential that none finds: "password: hunter2", or an  *)
(* opaque token by itself.                                                  *)
Leaf(path, value) == [path |-> path, value |-> value]
Redacted == "[REDACTED]"

\* is_sensitive_key, for the keys the events use.
IsSensitiveKey(key) == key = "token_ref"

Sensitive(path) == {i \in DOMAIN path : IsSensitiveKey(path[i])}

\* redact_sensitive: below a sensitive key everything goes, elsewhere what
\* redact_string finds.
RedactSensitive(attributes) ==
    {IF Sensitive(a.path) # {} THEN
        Leaf(SubSeq(a.path, 1, CHOOSE i \in Sensitive(a.path) :
                                   \A j \in Sensitive(a.path) : i <= j), Redacted)
     ELSE IF a.value = "labelled" THEN [a EXCEPT !.value = Redacted]
     ELSE a : a \in attributes}

Post(s, kind, event, attributes) ==
    [session |-> s, kind |-> kind, event |-> event, attributes |-> attributes]

\* deque.append with a maxlen.
Kept(buffer, item) ==
    LET longer == Append(buffer, item) IN
    IF Len(longer) > MaxItems THEN Tail(longer) ELSE longer

TelemetryInit ==
    /\ traces = <<>>
    /\ logs = <<>>
    /\ wire = {}
    /\ post = [s \in Sessions |-> None]
    /\ ingested = {}

------------------------------------------------------------------------------
(* _emit_sidecar_event: emit_trace and, after its answer, emit_log.          *)
Send(p) ==
    /\ post' = [post EXCEPT ![p.session] = p]
    /\ wire' = wire \cup {p}

BeginEmit(s, event, attributes) ==
    /\ IF SidecarConfigured THEN Send(Post(s, "trace", event, attributes))
                            ELSE UNCHANGED <<post, wire>>
    /\ UNCHANGED <<traces, logs, ingested>>

Emitted(s) == post[s] = None

\* append_trace and append_log
Ingest(p) ==
    /\ p \in wire
    /\ LET item == [p EXCEPT !.attributes = RedactSensitive(@)] IN
         IF p.kind = "trace"
         THEN traces' = Kept(traces, item) /\ UNCHANGED logs
         ELSE logs' = Kept(logs, item) /\ UNCHANGED traces
    /\ ingested' = ingested \cup {p}
    /\ \/ /\ post[p.session] = p /\ p.kind = "trace"
          /\ LET log == [p EXCEPT !.kind = "log"] IN
               /\ post' = [post EXCEPT ![p.session] = log]
               /\ wire' = (wire \ {p}) \cup {log}
       \/ /\ post[p.session] = p /\ p.kind = "log"
          /\ post' = [post EXCEPT ![p.session] = None]
          /\ wire' = wire \ {p}
       \/ wire' = wire \ {p} /\ UNCHANGED post  \* the answer is lost or late

\* The sidecar is down or answers with an error: the event is given up.
PostFails(s) ==
    /\ post[s] # None
    /\ post' = [post EXCEPT ![s] = None]
    /\ wire' = wire \ {post[s]}
    /\ UNCHANGED <<traces, logs, ingested>>

\* Mutant: the client waits without a timeout.
PostWaits(s) == post[s] # None /\ UNCHANGED telemetryVars

\* httpx gives up after 5 s; the sidecar may still handle the post.
PostTimesOut(s) ==
    /\ post[s] # None
    /\ post' = [post EXCEPT ![s] = None]
    /\ UNCHANGED <<traces, logs, wire, ingested>>

\* What the sidecar keeps is in memory only.
SidecarRestarts ==
    /\ traces' = <<>> /\ logs' = <<>> /\ wire' = {}
    /\ UNCHANGED <<post, ingested>>

TelemetryTypeOK ==
    /\ Len(traces) \in 0..MaxItems /\ Len(logs) \in 0..MaxItems
    /\ \A s \in Sessions : post[s] # None => post[s].session = s
    /\ \A p \in wire : p.session \in Sessions
==============================================================================
