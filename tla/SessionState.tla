----------------------------- MODULE SessionState -----------------------------
(***************************************************************************)
(* The data of the session state store: the JSON blob under one Redis key, *)
(* the calls made on it and what they answer.  Every call touches exactly  *)
(* one key, so one key is the whole store.                                 *)
(***************************************************************************)
EXTENDS Naturals

CONSTANTS
    Callers,    \* the concurrent callers, each with one call
    Versions,   \* the versions callers write or expect
    Ttls,       \* finite time-to-live values
    DefaultTtl, \* the store's ttl_seconds
    None        \* the Python None

ASSUME SessionAssumption ==
    /\ Versions \subseteq Nat
    /\ DefaultTtl \in Ttls \cup {None}

(* "by" stands for the payload: the callers whose mutation is in it, each   *)
(* mutation setting a field of its own.                                     *)
Blob == [version : Nat, by : SUBSET Callers, ttl : Ttls \cup {None}]

(* set_session and set_workflow write a given state; update_session and     *)
(* update_workflow apply a mutation, which the model may find not valid.    *)
SetCall == [kind : {"set"}, version : Versions, ttl : Ttls \cup {None}]
UpdateCall == [kind : {"update"}, expected : Versions \cup {None}, valid : BOOLEAN]
Call == SetCall \cup UpdateCall

ASSUME NoneAssumption == None \notin Versions \cup Ttls \cup Blob \cup Call

Codes == {"none", "ok", "not_found", "conflict", "invalid", "error"}
Result == [code : Codes, version : Nat]
Answer(code, v) == [code |-> code, version |-> v]

SetBlob(c, call) ==
    [version |-> call.version, by |-> {c},
     ttl |-> IF call.ttl = None THEN DefaultTtl ELSE call.ttl]

\* Mutant: the version is not written back.
UnversionedBlob(c, blob) == [by |-> blob.by \cup {c}, ttl |-> DefaultTtl]

UpdatedBlob(c, blob) ==
    [version |-> blob.version + 1, by |-> blob.by \cup {c}, ttl |-> DefaultTtl]

(* The checks of _update_json_model, in its order.                          *)
Expected(call, blob) == call.expected \in {None, blob.version}

Refused(call, blob, code) ==
    \/ blob = None /\ code = "not_found"
    \/ blob # None /\ ~Expected(call, blob) /\ code = "conflict"
    \/ blob # None /\ Expected(call, blob) /\ ~call.valid /\ code = "invalid"

Accepted(call, blob) == blob # None /\ Expected(call, blob) /\ call.valid
==============================================================================
