-------------------------- MODULE MCSessionStateStore --------------------------
(* Small instances of SessionStateStore and SessionEvents for TLC.          *)
EXTENDS SessionStateStore, SessionEvents

Colons == <<"x", ":", "session", ":", "x">>
SomeTexts == {<<"x">>, <<"x", ":">>, <<"_">>, Colons, <<"x", "%", "3", "A">>}

\* The lists of a session, and of a workflow of it, of no tenant and of "_".
ListsOf(user, session) ==
    {[tenant |-> t, user |-> user, session |-> session, kind |-> k,
      id |-> IF k = "events" THEN Absent ELSE <<"x">>] :
     t \in {Absent, <<"_">>}, k \in {"events", "workflow_events"}}

FewNames == ListsOf(<<"x">>, <<"x">>)
SomeNames == FewNames \cup ListsOf(<<"x">>, Colons) \cup ListsOf(Colons, <<"x">>)

(* Blobs and event lists have different keys, and their calls share nothing. *)
(* In one behaviour the calls are all of one kind, and those of different    *)
(* callers append to few lists.                                             *)
Appending == {c \in Appenders : ~At(c, "idle")}

CallsAndEvents ==
    \/ Next /\ Appending = {} /\ UNCHANGED eventVars
    \/ /\ EventsNext /\ (\A c \in Callers : pc[c] = "idle") /\ UNCHANGED vars
       /\ \A c, d \in Appending' : c = d \/ listOf'[c] \in FewNames

StoreInit == Init /\ EventsInit

StoreSpec ==
    /\ StoreInit
    /\ [][CallsAndEvents]_<<vars, eventVars>>
    /\ Fairness
==============================================================================
