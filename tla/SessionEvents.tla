----------------------------- MODULE SessionEvents -----------------------------
(***************************************************************************)
(* append_workflow_event of the session state store: RPUSH to the list of    *)
(* the event's workflow, or of its session, and then EXPIRE, as two commands *)
(* of concurrent callers, either of which may be lost.                       *)
(***************************************************************************)
EXTENDS SessionKeys

CONSTANTS
    Appenders,     \* one call of append_workflow_event each
    EventNames,    \* the lists' names that a call may have
    TtlConfigured  \* event_ttl_seconds is not None

ASSUME EventsAssumption ==
    /\ EventNames \subseteq {n \in Names : n.kind \in {"events", "workflow_events"}}
    /\ TtlConfigured \in BOOLEAN

VARIABLES
    lists,   \* the Redis lists: the callers whose event each holds, in order
    ttl,     \* the keys that have a time to live
    at,      \* at[c]: the command that call c awaits next
    listOf   \* listOf[c]: the name of the list of call c

eventVars == <<lists, ttl, at, listOf>>

Keys == {Key(n) : n \in EventNames}
Elements(list) == {list[i] : i \in DOMAIN list}

EventsTypeOK ==
    /\ \A k \in Keys : lists[k] \in Seq(Appenders)
    /\ ttl \subseteq {k \in Keys : lists[k] # <<>>}
    /\ at \in [Appenders -> {"idle", "push", "expire", "done", "failed"}]
    /\ listOf \in [Appenders -> EventNames \cup {Absent}]

EventsInit ==
    /\ lists = [k \in Keys |-> <<>>] /\ ttl = {}
    /\ at = [c \in Appenders |-> "idle"] /\ listOf = [c \in Appenders |-> Absent]

At(c, command) == at[c] = command
Go(c, command) == at' = [at EXCEPT ![c] = command]

KeyOfCall(c) == Key(listOf[c])

AppendEvent(c, n) ==
    /\ At(c, "idle")
    /\ listOf' = [listOf EXCEPT ![c] = n]
    /\ Go(c, "push")
    /\ UNCHANGED <<lists, ttl>>

RPush(c) == lists' = [lists EXCEPT ![KeyOfCall(c)] = Append(@, c)]

Push(c) ==
    /\ At(c, "push")
    /\ RPush(c)
    /\ Go(c, IF TtlConfigured THEN "expire" ELSE "done")
    /\ UNCHANGED <<ttl, listOf>>

\* Mutant: only the call whose push made the list sets its time to live.
ExpireNew(c) ==
    /\ At(c, "expire")
    /\ ttl' = ttl \cup ({KeyOfCall(c)} \cap {k \in Keys : lists[k] = <<c>>})
    /\ Go(c, "done")
    /\ UNCHANGED <<lists, listOf>>

\* EXPIRE does nothing to a key that does not exist.
Expiry(c) == ttl' = ttl \cup ({KeyOfCall(c)} \cap {k \in Keys : lists[k] # <<>>})

SetTtl(c) ==
    /\ At(c, "expire")
    /\ Expiry(c)
    /\ Go(c, "done")
    /\ UNCHANGED <<lists, listOf>>

\* The connection breaks at a command, after or before Redis has executed it.
CommandFails(c) ==
    /\ \/ At(c, "push") /\ (RPush(c) \/ UNCHANGED lists) /\ UNCHANGED ttl
       \/ At(c, "expire") /\ (Expiry(c) \/ UNCHANGED ttl) /\ UNCHANGED lists
    /\ Go(c, "failed")
    /\ UNCHANGED listOf

\* Redis removes the whole list.
ListExpires(k) ==
    /\ k \in ttl
    /\ lists' = [lists EXCEPT ![k] = <<>>]
    /\ ttl' = ttl \ {k}
    /\ UNCHANGED <<at, listOf>>

\* No call is under way, and nobody need make another.
Quiet == (\A c \in Appenders : at[c] \in {"idle", "done", "failed"}) /\ UNCHANGED eventVars

EventsNext ==
    \/ \E c \in Appenders :
         Push(c) \/ SetTtl(c) \/ CommandFails(c) \/ \E n \in EventNames : AppendEvent(c, n)
    \/ \E k \in Keys : ListExpires(k)
    \/ Quiet

EventsSpec == EventsInit /\ [][EventsNext]_eventVars

------------------------------------------------------------------------------
(* A call that returned leaves its event in a list that expires; only a call  *)
(* that failed, or has not returned, may leave one that never does.           *)
ReturnedExpires ==
    /\ EventsTypeOK
    /\ TtlConfigured => \A k \in Keys \ ttl : \A c \in Elements(lists[k]) : ~At(c, "done")

\* The names whose key another name of any kind, over all texts, has too.
Owned == {<<Key(n), Global(n)>> : n \in Names}
Shared ==
    {n \in EventNames :
        LET key == Key(n) IN \E o \in Owned : o[1] = key /\ o[2] # Global(n)}

(* The list a call appends to is nobody else's, whatever ":" and "%" the      *)
(* names of other users, sessions and workflows hold; only the tenant called  *)
(* "_" and no tenant are one.                                               *)
OneOwner == \A c \in Appenders : listOf[c] \notin Shared
==============================================================================
