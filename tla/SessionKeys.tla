------------------------------ MODULE SessionKeys ------------------------------
(***************************************************************************)
(* The Redis keys of session_state.key_builder, which the session state     *)
(* store and the agent service's store share.  A key is a sequence of        *)
(* characters, of which a label such as "session" counts as one; whether     *)
(* two names can meet in a key depends only on how ":" and "%" are quoted.   *)
(***************************************************************************)
EXTENDS Naturals, Sequences, SequencesExt

CONSTANT Texts

ASSUME TextsAssumption == Texts \subseteq Seq(STRING) \ {<<>>}

\* The Python None; an empty text is refused where a text is expected.
Absent == <<>>

Kinds == {"session", "events", "workflow", "thread", "token", "workflow_events"}

\* What a key is built for; id is the session itself where there is no other.
Names ==
    {n \in [tenant : Texts \cup {Absent}, user : Texts, session : Texts,
            kind : Kinds, id : Texts \cup {Absent}] :
        n.id = Absent <=> n.kind \in {"session", "events"}}

\* quote(value, safe="")
Quoted(c) == CASE c = ":" -> <<"%", "3", "A">>
               [] c = "%" -> <<"%", "2", "5">>
               [] OTHER -> <<c>>

\* Mutant: the text as it is.
Plain(text) == text

Encoded(text) == FlattenSeq([i \in DOMAIN text |-> Quoted(text[i])])

Segment(label, text) == <<":", label, ":">> \o text

SessionKey(n) ==
    Segment("tenant", IF n.tenant = Absent THEN <<"_">> ELSE Encoded(n.tenant))
        \o Segment("user", Encoded(n.user))
        \o Segment("session", Encoded(n.session))

Key(n) ==
    SessionKey(n) \o
        CASE n.kind = "session" -> <<>>
          [] n.kind = "events" -> <<":", "events">>
          [] n.kind = "workflow_events" ->
                 Segment("workflow", Encoded(n.id)) \o <<":", "events">>
          [] OTHER -> Segment(n.kind, Encoded(n.id))

\* The names that the code itself does not tell apart.
Global(n) == IF n.tenant = <<"_">> THEN [n EXCEPT !.tenant = Absent] ELSE n
==============================================================================
