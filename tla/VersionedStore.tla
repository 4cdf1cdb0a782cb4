---------------------------- MODULE VersionedStore ----------------------------
(***************************************************************************)
(* What the session state store promises: each call takes effect at one    *)
(* moment between its start and its answer, and an update is applied to    *)
(* the very blob its checks were made on.                                  *)
(***************************************************************************)
EXTENDS SessionState

VARIABLES
    state,   \* the blob, or None
    call,    \* call[c]: the call of caller c
    result   \* result[c]: what caller c was answered

vars == <<state, call, result>>

Init ==
    /\ state = None
    /\ call = [c \in Callers |-> None]
    /\ result = [c \in Callers |-> Answer("none", 0)]

Invoke(c) ==
    /\ call[c] = None
    /\ \E o \in Call : call' = [call EXCEPT ![c] = o]
    /\ UNCHANGED <<state, result>>

Pending(c, kind) ==
    /\ call[c] # None /\ call[c].kind = kind
    /\ result[c].code = "none"
    /\ UNCHANGED call

Answered(c, code, v) == result' = [result EXCEPT ![c] = Answer(code, v)]

Set(c) ==
    /\ Pending(c, "set")
    /\ state' = SetBlob(c, call[c])
    /\ Answered(c, "ok", call[c].version)

Update(c) ==
    /\ Pending(c, "update")
    /\ Accepted(call[c], state)
    /\ state' = UpdatedBlob(c, state)
    /\ Answered(c, "ok", state'.version)

Refuse(c) ==
    /\ Pending(c, "update")
    /\ \E code \in Codes : Refused(call[c], state, code) /\ Answered(c, code, 0)
    /\ UNCHANGED state

\* The caller loses its connection: the call took effect, or it did not.
Lose(c) ==
    /\ \/ Pending(c, "set") /\ state' \in {state, SetBlob(c, call[c])}
       \/ Pending(c, "update") /\ UNCHANGED state
       \/ /\ Pending(c, "update") /\ Accepted(call[c], state)
          /\ state' = UpdatedBlob(c, state)
    /\ Answered(c, "error", 0)

Expire ==
    /\ state # None /\ state.ttl # None
    /\ state' = None
    /\ UNCHANGED <<call, result>>

Next ==
    \/ \E c \in Callers : Invoke(c) \/ Set(c) \/ Update(c) \/ Refuse(c) \/ Lose(c)
    \/ Expire

Spec == Init /\ [][Next]_vars
==============================================================================
