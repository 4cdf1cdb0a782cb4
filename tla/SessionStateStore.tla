--------------------------- MODULE SessionStateStore ---------------------------
(***************************************************************************)
(* RedisSessionStateStore: an unconditional SET for set_session and        *)
(* set_workflow, and the optimistic loop of _update_json_model (WATCH, GET, *)
(* checks, MULTI, SET, EXEC, and again after a WatchError) for the updates. *)
(* Each Redis command is an await and therefore an action.                 *)
(***************************************************************************)
EXTENDS SessionState, FiniteSets

CONSTANT MaxFaults  \* bound on lost connections and expired keys

ASSUME MaxFaultsAssumption == MaxFaults \in Nat

VARIABLES
    state,    \* Redis: the blob under the key, or None
    call,     \* call[c]: the call of caller c
    result,   \* result[c]: what caller c was answered
    pc,       \* pc[c]: the Redis command caller c sends next
    touched,  \* touched[c]: Redis has seen a write since the WATCH of caller c
    read,     \* read[c]: the blob that the GET of caller c returned
    faults,   \* faults so far
    merged,   \* history variable: mutations applied since the last blind write
    blind     \* history variable: number of blind writes

vars == <<state, call, result, pc, touched, read, faults, merged, blind>>

PCs == {"idle", "set", "watch", "get", "exec", "done"}

TypeOK ==
    /\ state \in Blob \cup {None}
    /\ call \in [Callers -> Call \cup {None}]
    /\ result \in [Callers -> Result]
    /\ pc \in [Callers -> PCs]
    /\ touched \in [Callers -> BOOLEAN]
    /\ read \in [Callers -> Blob \cup {None}]
    /\ faults \in Nat
    /\ merged \subseteq Callers
    /\ blind \in Nat

Init ==
    /\ state = None
    /\ call = [c \in Callers |-> None]
    /\ result = [c \in Callers |-> Answer("none", 0)]
    /\ pc = [c \in Callers |-> "idle"]
    /\ touched = [c \in Callers |-> FALSE]
    /\ read = [c \in Callers |-> None]
    /\ faults = 0
    /\ merged = {}
    /\ blind = 0

------------------------------------------------------------------------------
Goto(c, l) == pc' = [pc EXCEPT ![c] = l]

Return(c, code, v) ==
    /\ Goto(c, "done")
    /\ result' = [result EXCEPT ![c] = Answer(code, v)]

\* Redis marks the clients that watch the key, whoever changes it.
Touch == touched' = [c \in Callers |-> TRUE]

BlindWrite(c) ==
    /\ state' = SetBlob(c, call[c])
    /\ merged' = {c} /\ blind' = blind + 1
    /\ Touch

MergeWrite(c) ==
    /\ state' = UpdatedBlob(c, read[c])
    /\ merged' = merged \cup {c} /\ UNCHANGED blind
    /\ Touch

NoWrite == UNCHANGED <<state, merged, blind, touched>>

Invoke(c) ==
    /\ pc[c] = "idle"
    /\ \E o \in Call :
         /\ call' = [call EXCEPT ![c] = o]
         /\ Goto(c, IF o.kind = "set" THEN "set" ELSE "watch")
    /\ NoWrite
    /\ UNCHANGED <<result, read, faults>>

\* SET of set_session and set_workflow.
Set(c) ==
    /\ pc[c] = "set"
    /\ BlindWrite(c)
    /\ Return(c, "ok", call[c].version)
    /\ UNCHANGED <<call, read, faults>>

\* pipe.watch
Watch(c) ==
    /\ pc[c] = "watch"
    /\ touched' = [touched EXCEPT ![c] = FALSE]
    /\ Goto(c, "get")
    /\ UNCHANGED <<state, call, result, read, faults, merged, blind>>

\* Mutant: the expected version is not compared.
GetUnchecked(c) ==
    /\ pc[c] = "get"
    /\ read' = [read EXCEPT ![c] = state]
    /\ \/ state = None /\ Return(c, "not_found", 0)
       \/ state # None /\ Goto(c, "exec") /\ UNCHANGED result
    /\ NoWrite
    /\ UNCHANGED <<call, faults>>

\* pipe.get, the checks, and the queueing of the SET.
Get(c) ==
    /\ pc[c] = "get"
    /\ read' = [read EXCEPT ![c] = state]
    /\ \/ \E code \in Codes : Refused(call[c], state, code) /\ Return(c, code, 0)
       \/ Accepted(call[c], state) /\ Goto(c, "exec") /\ UNCHANGED result
    /\ NoWrite
    /\ UNCHANGED <<call, faults>>

\* Mutant: the SET is executed without the transaction.
ExecuteUnwatched(c) ==
    /\ pc[c] = "exec"
    /\ MergeWrite(c)
    /\ Return(c, "ok", read[c].version + 1)
    /\ UNCHANGED <<call, read, faults>>

\* EXEC runs the queued SET only if nobody has changed the watched key.
Execute(c) ==
    /\ pc[c] = "exec"
    /\ ~touched[c]
    /\ MergeWrite(c)
    /\ Return(c, "ok", read[c].version + 1)
    /\ UNCHANGED <<call, read, faults>>

\* Mutant: after a WatchError only the transaction is repeated.
RetryExec(c) ==
    /\ pc[c] = "exec"
    /\ touched[c]
    /\ UNCHANGED vars

\* Mutant: after a WatchError the key is watched again but not read again.
RetryStale(c) ==
    /\ pc[c] = "exec"
    /\ touched[c]
    /\ touched' = [touched EXCEPT ![c] = FALSE]
    /\ UNCHANGED <<state, call, result, pc, read, faults, merged, blind>>

\* WatchError: reset the pipeline and start again.
Retry(c) ==
    /\ pc[c] = "exec"
    /\ touched[c]
    /\ Goto(c, "watch")
    /\ NoWrite
    /\ UNCHANGED <<call, result, read, faults>>

Step(c) == Set(c) \/ Watch(c) \/ Get(c) \/ Execute(c) \/ Retry(c)

Fault == faults < MaxFaults /\ faults' = faults + 1

(* A command raises: the caller cannot know whether it was carried out.     *)
Lose(c) ==
    /\ Fault
    /\ pc[c] \in {"set", "watch", "get", "exec"}
    /\ \/ NoWrite
       \/ pc[c] = "set" /\ BlindWrite(c)
       \/ pc[c] = "exec" /\ ~touched[c] /\ MergeWrite(c)
    /\ Return(c, "error", 0)
    /\ UNCHANGED <<call, read>>

\* Redis deletes an expired key, which touches its watchers.
Expire ==
    /\ Fault
    /\ state # None /\ state.ttl # None
    /\ state' = None
    /\ merged' = {} /\ UNCHANGED blind
    /\ Touch
    /\ UNCHANGED <<call, result, pc, read>>

Finished == (\A c \in Callers : pc[c] = "done") /\ UNCHANGED vars

Next ==
    \/ \E c \in Callers : Invoke(c) \/ Step(c) \/ Lose(c)
    \/ Expire
    \/ Finished

Spec == Init /\ [][Next]_vars

\* The event loop resumes every caller, and Redis answers every command.
Fairness == \A c \in Callers : WF_vars(Step(c))

------------------------------------------------------------------------------
(* The store is a versioned register: every call is atomic, and an update   *)
(* is applied to the blob it was checked against, although the code checks  *)
(* in one command and writes in a later one.                                *)
Atomic == INSTANCE VersionedStore

AtomicSpec == Atomic!Spec

(* No mutation is lost: the blob holds every one that was applied since it  *)
(* was last written as a whole, and no other.                               *)
NoUpdateLost == state # None => state.by = merged

(* While nobody writes the blob as a whole, except to create it, no two     *)
(* successful updates are given the same version: of two callers that       *)
(* expect one version, at most one is accepted.                             *)
VersionsUnique ==
    blind <= 1 =>
        \A c, d \in Callers :
            (/\ call[c] # None /\ call[c].kind = "update" /\ result[c].code = "ok"
             /\ call[d] # None /\ call[d].kind = "update" /\ result[d].code = "ok"
             /\ result[c].version = result[d].version) => c = d

(* The optimistic loop ends: a caller starts over only because another      *)
(* write succeeded, and the writes run out.                                 *)
CallsReturn == \A c \in Callers : pc[c] = "watch" ~> pc[c] = "done"
==============================================================================
