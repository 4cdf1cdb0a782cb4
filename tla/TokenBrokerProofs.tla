--------------------------- MODULE TokenBrokerProofs ---------------------------
(***************************************************************************)
(* What the dispatcher plans and what the token broker lets be called, for  *)
(* every proposal of a model, every allow-list, every token and every map   *)
(* of audiences.  The loop's invariant is that the steps stand for the       *)
(* first of each group of equal proposals, and that of the proposals seen    *)
(* none was left out without cause; the broker's is that what a client      *)
(* reports, it was told by an answer to what it had asked for.              *)
(***************************************************************************)
EXTENDS TokenBroker, SubsequenceProofs

\* STRING, spelled out where the provers do not see that a literal is in it.
Text == STRING \cup {"[REDACTED]", "workflow-runtime", "network-mcp", "cloud-mcp"}

\* An intent as the parser makes it, and a step as the loop does.
Intent == [tool : Tools, value : Text, server : Text]

StepOf(n, t, v, a) ==
    [id |-> n, tool |-> t, value |-> v, server |-> a,
     scopes |-> RequiredScopes(t, request.issued, v)]

Step == {StepOf(n, t, v, a) : n \in Nat, t \in Tools, v \in Text, a \in Text}

Shape ==
    /\ request \in Request
    /\ phase \in {"propose", "dispatch", "done"}
    /\ intents \in Seq(Intent)
    /\ pos \in 0..Len(intents)
    /\ steps \in Seq(Step)
    /\ policy \in BOOLEAN

\* The step i is made from the proposal p.
Same(i, p) == steps[i].tool = intents[p].tool /\ steps[i].value = intents[p].value

\* No proposal before p would have made the step i.
First(i, p) == p \in 1..pos /\ Same(i, p) /\ \A q \in 1..(p - 1) : ~Same(i, q)

Planned ==
    \A i \in 1..Len(steps) :
        /\ steps[i].id = i /\ steps[i].server = Audience(steps[i].tool)
        /\ request.allowed # None => steps[i].tool \in request.allowed
        /\ \E p \in 1..pos : First(i, p)
        /\ \A j \in 1..(i - 1), p, q \in 1..pos : First(i, p) /\ First(j, q) => q < p

Wanted(p) ==
    Allowed(intents[p]) /\ Materializable(intents[p].tool, request.issued, intents[p].value)

Kept == \A p \in 1..pos : Wanted(p) => \E i \in 1..Len(steps) : Same(i, p)

Unstarted == phase = "propose" => steps = <<>> /\ pos = 0

DispatchInv == Shape /\ Planned /\ Kept /\ Unstarted

\* What the client was told, and by whom.
AskedOk ==
    /\ pc = "idle" => asked = NoReport /\ token = NoToken /\ client = None
    /\ pc # "idle" => client \in {"obo", "m2m"}
    /\ pc # "idle" /\ client = "obo" =>
         phase = "done" /\ asked = [scopes |-> Requested, audience |-> Expected]
    /\ pc = "execute" => client = "obo"
    /\ asked.audience \in Audiences \cup {None}

TokenOk ==
    /\ Granted(token) \subseteq OnTheWire(asked.scopes)
    /\ pc = "answered" =>
         response.scope \in {None, token.scopes} /\ response.auds \in {{}, token.auds}

ReportOk ==
    \/ report = NoReport /\ pc # "execute" /\ calls = {}
    \/ /\ report = [scopes |-> ReportedScopes, audience |-> asked.audience]
       /\ response.scope \in {None, token.scopes} /\ response.auds \in {{}, token.auds}
       /\ pc \in {"execute", "done", "failed"}
       /\ client = "obo" => Confirmed

CallsOk ==
    /\ next \in 0..Len(steps)
    /\ pc \notin {"execute", "done", "failed"} => next = 0 /\ calls = {}
    /\ calls # {} => client = "obo"
    /\ \A step \in calls :
         (\E i \in 1..Len(steps) : step = steps[i]) /\ Passes(step)

PCs == {"idle", "ask", "answered", "execute", "done", "failed"}

BrokerInv ==
    /\ DispatchInv
    /\ client \in {None, "obo", "m2m"} /\ pc \in PCs
    /\ AskedOk /\ TokenOk /\ ReportOk /\ CallsOk
------------------------------------------------------------------------------
(* The audiences of the catalog are texts, for at most two servers.            *)
LEMMA CatalogAudience ==
    \A t \in Tools :
        /\ Audience(t) \in Text
        /\ Catalog[t].audience \in {None, "network-mcp", "cloud-mcp"}
<1>1. \A t \in Tools : Catalog[t].audience \in {None, "network-mcp", "cloud-mcp"}
  BY DEF Tools, Catalog, Tool
<1>2. ASSUME NEW t \in Tools PROVE Audience(t) \in Text
  BY <1>1 DEF Audience, Text
<1> QED
  BY <1>1, <1>2

(* The parser makes intents for tools of the catalog, and redaction and the     *)
(* removal of doubles keep that.                                            *)
LEMMA ParseShape ==
    ASSUME NEW payloads \in Seq(Payload)
    PROVE  Parse(payloads) \in Seq(Intent)
<1> DEFINE K == {i \in DOMAIN payloads : payloads[i].tool \in Tools}
<1> DEFINE parsed == Keep(payloads, K)
<1>1. parsed \in Seq(Payload) /\ \A k \in DOMAIN parsed : \E i \in K : parsed[k] = payloads[i]
  <2>1. K \in SUBSET (DOMAIN payloads)
    OBVIOUS
  <2> HIDE DEF K
  <2> QED
    BY <2>1, KeepShape
<1>2. \A k \in DOMAIN parsed : parsed[k].tool \in Tools
  BY <1>1
<1>3. Parse(payloads) = [i \in DOMAIN parsed |->
        [parsed[i] EXCEPT !.server = IF @ = "" THEN Audience(parsed[i].tool) ELSE @]]
  BY DEF Parse
<1> HIDE DEF parsed
<1>4. ASSUME NEW i \in DOMAIN parsed
      PROVE  [parsed[i] EXCEPT !.server = IF @ = "" THEN Audience(parsed[i].tool) ELSE @] \in Intent
  <2>1. parsed[i] \in Payload /\ parsed[i].tool \in Tools
    BY <1>1, <1>2, <1>4
  <2>2. Audience(parsed[i].tool) \in Text
    BY <2>1, CatalogAudience
  <2> QED
    BY <2>1, <2>2 DEF Payload, Intent, Text
<1>5. PICK n \in Nat : DOMAIN parsed = 1..n
  BY <1>1
<1> DEFINE intent(i) ==
      [parsed[i] EXCEPT !.server = IF @ = "" THEN Audience(parsed[i].tool) ELSE @]
<1>6. Parse(payloads) = [i \in 1..n |-> intent(i)] /\ \A i \in 1..n : intent(i) \in Intent
  BY <1>3, <1>4, <1>5
<1> HIDE DEF intent
<1> QED
  BY <1>6

LEMMA ProposeShape ==
    ASSUME NEW seq \in Seq(Intent)
    PROVE  RedactAll(seq) \in Seq(Intent) /\ Dedupe(seq) \in Seq(Intent)
<1>1. RedactAll(seq) \in Seq(Intent)
  <2>1. \A i \in DOMAIN seq : [seq[i] EXCEPT !.value = Redact(@)] \in Intent
    <3> TAKE i \in DOMAIN seq
    <3>1. seq[i] \in Intent
      OBVIOUS
    <3>2. Redact(seq[i].value) \in Text
      BY <3>1 DEF Intent, Redact, Text
    <3> QED
      BY <3>1, <3>2 DEF Intent
  <2>2. Len(seq) \in Nat /\ DOMAIN seq = 1..Len(seq)
    OBVIOUS
  <2> QED
    BY <2>1, <2>2 DEF RedactAll
<1>2. Dedupe(seq) \in Seq(Intent)
  BY KeepShape DEF Dedupe
<1> QED
  BY <1>1, <1>2
(* The payloads of a request are proposals.                                    *)
LEMMA RequestPayloads ==
    ASSUME request \in Request
    PROVE  request.payloads \in Seq(Payload)
<1>1. request.payloads \in BoundedSeq(Payloads, MaxPayloads)
  BY DEF Request
<1>2. PICK n \in Nat : request.payloads \in [1..n -> Payloads]
  BY <1>1, DispatchAssumption DEF BoundedSeq, SeqOf
<1>3. \A k \in 1..n : request.payloads[k] \in Payload
  BY <1>2, DispatchAssumption
<1> QED
  BY <1>2, <1>3

LEMMA DispatchInit == Init => DispatchInv
<1> SUFFICES ASSUME Init PROVE DispatchInv
  OBVIOUS
<1> USE DEF Init
<1>1. Shape
  <2>1. <<>> \in Seq(Intent) /\ <<>> \in Seq(Step) /\ Len(<<>>) = 0 /\ 0 \in 0..0
    OBVIOUS
  <2> QED
    BY <2>1 DEF Shape
<1>2. Planned /\ Kept /\ Unstarted
  BY DEF Planned, Kept, Unstarted
<1> QED
  BY <1>1, <1>2 DEF DispatchInv

(* An iteration does not change which proposal a step stands for.              *)
LEMMA FirstStays ==
    ASSUME DispatchInv, intents' = intents, pos' = pos + 1,
           NEW i \in 1..Len(steps), steps'[i] = steps[i]
    PROVE  /\ \A p : Same(i, p)' <=> Same(i, p)
           /\ \A p : First(i, p)' <=> First(i, p)
<1>1. pos \in Nat
  BY DEF DispatchInv, Shape
<1>2. \A p : Same(i, p)' <=> Same(i, p)
  BY DEF Same
<1>3. PICK first \in 1..pos : First(i, first)
  BY DEF DispatchInv, Planned
<1>4. ASSUME NEW p, p = pos + 1 PROVE ~First(i, p)'
  <2>1. Same(i, first) /\ first \in 1..((pos + 1) - 1)
    BY <1>1, <1>3 DEF First
  <2> QED
    BY <1>2, <1>4, <2>1 DEF First
<1>5. \A p : p \in 1..(pos + 1) <=> p \in 1..pos \/ p = pos + 1
  BY <1>1
<1>6. ASSUME NEW p PROVE First(i, p)' <=> First(i, p)
  <2>1. First(i, p) => First(i, p)'
    BY <1>2, <1>5 DEF First
  <2>2. First(i, p)' => First(i, p)
    BY <1>2, <1>4, <1>5 DEF First
  <2> QED
    BY <2>1, <2>2
<1> QED
  BY <1>2, <1>6

(* What is seen is the step of the same tool and value.                        *)
LEMMA SeenStep ==
    ASSUME DispatchInv, NEW p \in 1..Len(intents)
    PROVE  Seen(Normalized(intents[p])) <=> \E i \in 1..Len(steps) : Same(i, p)
<1>1. intents[p] \in Intent
  BY DEF DispatchInv, Shape
<1> DEFINE it == Normalized(intents[p])
<1>2. it.tool = intents[p].tool /\ it.value = intents[p].value /\ it.server = Audience(intents[p].tool)
  BY <1>1 DEF Normalized, Intent
<1>3. \A i \in 1..Len(steps) : steps[i].server = Audience(steps[i].tool)
  BY DEF DispatchInv, Planned
<1>4. DOMAIN steps = 1..Len(steps)
  BY DEF DispatchInv, Shape
<1> HIDE DEF it
<1>5. \A i \in 1..Len(steps) : Material(steps[i]) = Material(it) <=> Same(i, p)
  BY <1>2, <1>3 DEF Material, Same
<1> QED
  BY <1>4, <1>5 DEF Seen, it

(* What an iteration drops was a double, or not wanted.                        *)
LEMMA DropKeeps ==
    ASSUME DispatchInv, Drop
    PROVE  DispatchInv'
<1>1. pos \in Nat /\ pos + 1 \in 1..Len(intents) /\ Len(intents) \in Nat
  BY DEF DispatchInv, Shape, Drop
<1>2. pos' = pos + 1 /\ intents' = intents /\ steps' = steps /\ request' = request
  BY DEF Drop
<1>3. \A i \in 1..Len(steps) : \A p : (Same(i, p)' <=> Same(i, p)) /\ (First(i, p)' <=> First(i, p))
  BY <1>2, FirstStays
<1>4. 1..(pos + 1) = (1..pos) \cup {pos + 1}
  BY <1>1
<1>5. Shape'
  BY <1>1 DEF DispatchInv, Shape, Step, StepOf, Drop
<1>6. Planned'
  <2>1. \A i \in 1..Len(steps) : \A p : First(i, p)' => p \in 1..pos
    BY <1>3 DEF First
  <2> SUFFICES ASSUME NEW i \in 1..Len(steps)
               PROVE  /\ steps[i].id = i /\ steps[i].server = Audience(steps[i].tool)
                      /\ request.allowed # None => steps[i].tool \in request.allowed
                      /\ \E p \in 1..pos' : First(i, p)'
                      /\ \A j \in 1..(i - 1), p, q \in 1..pos' :
                            First(i, p)' /\ First(j, q)' => q < p
    BY <1>2 DEF Planned
  <2>2. \E p \in 1..pos' : First(i, p)'
    BY <1>2, <1>3, <1>4 DEF DispatchInv, Planned
  <2>3. ASSUME NEW j \in 1..(i - 1), NEW p \in 1..pos', NEW q \in 1..pos',
               First(i, p)', First(j, q)'
        PROVE  q < p
    <3>1. j \in 1..Len(steps)
      BY DEF DispatchInv, Shape
    <3>2. First(i, p) /\ First(j, q) /\ p \in 1..pos /\ q \in 1..pos
      BY <1>3, <2>1, <2>3, <3>1
    <3> QED
      BY <3>2 DEF DispatchInv, Planned
  <2> QED
    BY <2>2, <2>3 DEF DispatchInv, Planned
<1>7. Kept'
  <2>1. ~Wanted(pos + 1) \/ \E i \in 1..Len(steps) : Same(i, pos + 1)
    BY <1>1, SeenStep DEF Drop, Accepted, Wanted
  <2>2. \A p : Wanted(p)' <=> Wanted(p)
    BY <1>2 DEF Wanted, Allowed
  <2> QED
    BY <1>2, <1>3, <1>4, <2>1, <2>2 DEF DispatchInv, Kept
<1>8. Unstarted'
  BY DEF Unstarted, Drop
<1> QED
  BY <1>5, <1>6, <1>7, <1>8 DEF DispatchInv
(* The step an accepted proposal makes.                                        *)
LEMMA AcceptedStep ==
    ASSUME DispatchInv, Accept
    PROVE  LET it == intents[pos + 1] IN
           /\ pos \in Nat /\ pos + 1 \in 1..Len(intents) /\ Len(intents) \in Nat
           /\ Len(steps) \in Nat /\ it \in Intent
           /\ steps' = Append(steps, StepOf(Len(steps) + 1, it.tool, it.value, Audience(it.tool)))
<1>1. /\ pos \in Nat /\ pos + 1 \in 1..Len(intents) /\ Len(intents) \in Nat
      /\ Len(steps) \in Nat
  BY DEF DispatchInv, Shape, Accept
<1>2. intents[pos + 1] \in Intent
  BY <1>1 DEF DispatchInv, Shape
<1> DEFINE it == Normalized(intents[pos + 1])
<1>3. /\ it.tool = intents[pos + 1].tool /\ it.value = intents[pos + 1].value
      /\ it.server = Audience(intents[pos + 1].tool)
  BY <1>2 DEF Normalized, Intent
<1>4. steps' = Append(steps, StepFrom(it))
  BY DEF Accept
<1> HIDE DEF it
<1>5. StepFrom(it) = StepOf(Len(steps) + 1, intents[pos + 1].tool, intents[pos + 1].value,
                            Audience(intents[pos + 1].tool))
  BY <1>3 DEF StepFrom, StepOf
<1> QED
  BY <1>1, <1>2, <1>4, <1>5

(* A proposal is accepted when the session wants it and no step is made from   *)
(* an equal one; the new step is the last one's, and the others stay.          *)
LEMMA AcceptKeeps ==
    ASSUME DispatchInv, Accept
    PROVE  DispatchInv'
<1> DEFINE it == intents[pos + 1]
<1> DEFINE new == StepOf(Len(steps) + 1, it.tool, it.value, Audience(it.tool))
<1>1. /\ pos \in Nat /\ pos + 1 \in 1..Len(intents) /\ Len(intents) \in Nat
      /\ Len(steps) \in Nat /\ it \in Intent
      /\ steps' = Append(steps, new)
  BY AcceptedStep
<1>2. pos' = pos + 1 /\ intents' = intents /\ request' = request
  BY DEF Accept
<1>3. /\ new.id = Len(steps) + 1 /\ new.tool = it.tool /\ new.value = it.value
      /\ new.server = Audience(it.tool)
  BY DEF StepOf
<1>4. new \in Step
  <2>1. it.tool \in Tools /\ it.value \in Text /\ Audience(it.tool) \in Text
    BY <1>1, CatalogAudience DEF Intent
  <2>2. Len(steps) + 1 \in Nat
    BY <1>1
  <2>3. \A m \in Nat, t \in Tools, v \in Text, a \in Text : StepOf(m, t, v, a) \in Step
    BY SMT DEF Step
  <2> HIDE DEF it
  <2> QED
    BY <2>1, <2>2, <2>3
<1>5. Wanted(pos + 1) /\ ~(\E i \in 1..Len(steps) : Same(i, pos + 1))
  BY <1>1, SeenStep DEF Accept, Accepted, Wanted
<1> HIDE DEF it, new
<1> DEFINE n == Len(steps)
<1>6. steps \in Seq(Step)
  BY DEF DispatchInv, Shape
<1>7. /\ Len(steps') = n + 1 /\ steps' \in Seq(Step) /\ steps'[n + 1] = new
      /\ \A i \in 1..n : steps'[i] = steps[i]
  BY <1>1, <1>4, <1>6
<1>8. 1..(n + 1) = (1..n) \cup {n + 1} /\ 1..(pos + 1) = (1..pos) \cup {pos + 1}
  BY <1>1
<1>9. \A i \in 1..n : \A p : (Same(i, p)' <=> Same(i, p)) /\ (First(i, p)' <=> First(i, p))
  BY <1>2, <1>7, FirstStays
<1>10. ASSUME NEW i, i = n + 1
       PROVE  /\ \A p : Same(i, p)' <=> it.tool = intents[p].tool /\ it.value = intents[p].value
              /\ \A p : p = pos + 1 => Same(i, p)'
              /\ \A q \in 1..pos : ~Same(i, q)'
              /\ \A p : First(i, p)' <=> p = pos + 1
  <2>1. \A p : Same(i, p)' <=> it.tool = intents[p].tool /\ it.value = intents[p].value
    BY <1>2, <1>3, <1>7, <1>10 DEF Same
  <2>2. ASSUME NEW p, p = pos + 1 PROVE Same(i, p)'
    BY <2>1, <2>2 DEF it
  <2>3. ASSUME NEW q \in 1..pos, Same(i, q)' PROVE FALSE
    <3>1. Wanted(q)
      BY <1>5, <2>1, <2>3 DEF Wanted, Allowed, it
    <3>2. PICK j \in 1..n : Same(j, q)
      BY <3>1 DEF DispatchInv, Kept
    <3>3. Same(j, pos + 1)
      BY <2>1, <2>3, <3>2 DEF Same, it
    <3> QED
      BY <1>5, <3>3
  <2>4. ASSUME NEW p PROVE First(i, p)' <=> p = pos + 1
    <3>1. CASE p = pos + 1
      <4>1. p \in 1..pos' /\ p - 1 = pos
        BY <1>1, <1>2, <3>1
      <4> QED
        BY <2>2, <2>3, <3>1, <4>1 DEF First
    <3>2. CASE p # pos + 1
      <4>1. p \in 1..pos' => p \in 1..pos
        BY <1>2, <1>8, <3>2
      <4> QED
        BY <2>3, <3>2, <4>1 DEF First
    <3> QED
      BY <3>1, <3>2
  <2> QED
    BY <2>1, <2>2, <2>3, <2>4
<1>11. Shape'
  BY <1>1, <1>2, <1>7 DEF DispatchInv, Shape, Step, StepOf, Accept
<1>12. Planned'
  <2>1. \A i \in 1..n : \A p : First(i, p)' => p \in 1..pos
    BY <1>9 DEF First
  <2> SUFFICES ASSUME NEW i \in 1..(n + 1)
               PROVE  /\ steps'[i].id = i /\ steps'[i].server = Audience(steps'[i].tool)
                      /\ request.allowed # None => steps'[i].tool \in request.allowed
                      /\ \E p \in 1..pos' : First(i, p)'
                      /\ \A j \in 1..(i - 1), p, q \in 1..pos' :
                            First(i, p)' /\ First(j, q)' => q < p
    BY <1>2, <1>7 DEF Planned
  <2>2. CASE i \in 1..n
    <3>1. \E p \in 1..pos' : First(i, p)'
      BY <1>2, <1>8, <1>9, <2>2 DEF DispatchInv, Planned
    <3>2. ASSUME NEW j \in 1..(i - 1), NEW p \in 1..pos', NEW q \in 1..pos',
                 First(i, p)', First(j, q)'
          PROVE  q < p
      <4>1. j \in 1..n
        BY <1>1, <2>2
      <4>2. First(i, p) /\ First(j, q) /\ p \in 1..pos /\ q \in 1..pos
        BY <1>9, <2>1, <2>2, <3>2, <4>1
      <4> QED
        BY <2>2, <4>2 DEF DispatchInv, Planned
    <3>3. /\ steps[i].id = i /\ steps[i].server = Audience(steps[i].tool)
          /\ request.allowed # None => steps[i].tool \in request.allowed
      BY <2>2 DEF DispatchInv, Planned
    <3> QED
      BY <1>7, <2>2, <3>1, <3>2, <3>3
  <2>3. CASE i = n + 1
    <3>1. steps'[i] = new
      BY <1>7, <2>3
    <3>2. \E p \in 1..pos' : First(i, p)'
      BY <1>1, <1>2, <1>10, <2>3
    <3>3. ASSUME NEW j \in 1..(i - 1), NEW p \in 1..pos', NEW q \in 1..pos',
                 First(i, p)', First(j, q)'
          PROVE  q < p
      <4>1. p = pos + 1
        BY <1>10, <2>3, <3>3
      <4>2. j \in 1..n
        BY <1>1, <2>3
      <4>3. q \in 1..pos
        BY <2>1, <3>3, <4>2
      <4> QED
        BY <1>1, <4>1, <4>3
    <3>4. request.allowed # None => it.tool \in request.allowed
      BY <1>5 DEF Wanted, Allowed, it
    <3> QED
      BY <1>3, <2>3, <3>1, <3>2, <3>3, <3>4
  <2> QED
    BY <1>8, <2>2, <2>3
<1>13. Kept'
  <2>1. \A p : Wanted(p)' <=> Wanted(p)
    BY <1>2 DEF Wanted, Allowed
  <2> SUFFICES ASSUME NEW p \in 1..(pos + 1), Wanted(p)
               PROVE  \E i \in 1..(n + 1) : Same(i, p)'
    BY <1>2, <1>7, <2>1 DEF Kept
  <2>2. CASE p \in 1..pos
    <3>1. PICK i \in 1..n : Same(i, p)
      BY <2>2 DEF DispatchInv, Kept
    <3> QED
      BY <1>8, <1>9, <3>1
  <2>3. CASE p = pos + 1
    BY <1>8, <1>10, <2>3
  <2> QED
    BY <1>8, <2>2, <2>3
<1>14. Unstarted'
  BY DEF Unstarted, Accept
<1> QED
  BY <1>11, <1>12, <1>13, <1>14 DEF DispatchInv
(* What is proposed to the loop are intents, none of which it has seen.        *)
LEMMA ProposeKeeps ==
    ASSUME DispatchInv, Propose
    PROVE  DispatchInv'
<1>1. Parse(request.payloads) \in Seq(Intent)
  BY RequestPayloads, ParseShape DEF DispatchInv, Shape
<1>2. intents' \in Seq(Intent)
  BY <1>1, ProposeShape DEF Propose
<1>3. steps = <<>> /\ pos = 0 /\ steps' = <<>> /\ pos' = 0
  BY DEF DispatchInv, Unstarted, Propose
<1>4. Len(steps') = 0 /\ 0 \in 0..Len(intents') /\ steps' \in Seq(Step)
  BY <1>2, <1>3
<1>5. Shape'
  BY <1>2, <1>3, <1>4 DEF DispatchInv, Shape, Propose, Step, StepOf
<1>6. Planned' /\ Kept' /\ Unstarted'
  BY <1>3, <1>4 DEF Planned, Kept, Unstarted
<1> QED
  BY <1>5, <1>6 DEF DispatchInv

(* What the policy says of the plan does not change it.                        *)
LEMMA ReturnKeeps ==
    ASSUME DispatchInv, Return
    PROVE  DispatchInv'
<1>1. policy' \in BOOLEAN
  BY DEF Return, RequiresHitl
<1>2. Shape'
  BY <1>1 DEF DispatchInv, Shape, Return, Step, StepOf
<1>3. Planned' /\ Kept'
  <2>1. /\ pos' = pos /\ steps' = steps /\ request' = request
        /\ \A i, p : Same(i, p)' <=> Same(i, p)
        /\ \A p : Wanted(p)' <=> Wanted(p)
    BY DEF Return, Same, Wanted, Allowed
  <2>2. \A i, p : First(i, p)' <=> First(i, p)
    BY <2>1 DEF First
  <2> QED
    BY <2>1, <2>2 DEF DispatchInv, Planned, Kept
<1>4. Unstarted'
  BY DEF Unstarted, Return
<1> QED
  BY <1>2, <1>3, <1>4 DEF DispatchInv

LEMMA DispatchStutters ==
    ASSUME DispatchInv, UNCHANGED vars
    PROVE  DispatchInv'
<1> USE DEF vars
<1>1. Shape'
  BY DEF DispatchInv, Shape, Step, StepOf
<1>2. Planned' /\ Kept' /\ Unstarted'
  BY DEF DispatchInv, Planned, Kept, First, Same, Wanted, Allowed, Unstarted
<1> QED
  BY <1>1, <1>2 DEF DispatchInv

LEMMA DispatchStep == DispatchInv /\ [Next]_vars => DispatchInv'
<1> SUFFICES ASSUME DispatchInv, [Next]_vars PROVE DispatchInv'
  OBVIOUS
<1>1. CASE Propose
  BY <1>1, ProposeKeeps
<1>2. CASE Drop
  BY <1>2, DropKeeps
<1>3. CASE Accept
  BY <1>3, AcceptKeeps
<1>4. CASE Return
  BY <1>4, ReturnKeeps
<1>5. CASE Done \/ UNCHANGED vars
  BY <1>5, DispatchStutters DEF Done
<1> QED
  BY <1>1, <1>2, <1>3, <1>4, <1>5 DEF Next

(* Whatever a model proposes, the plan is made of first proposals.             *)
THEOREM DispatchInvariance == Spec => []DispatchInv
<1> QED
  BY DispatchInit, DispatchStep, PTL DEF Spec
------------------------------------------------------------------------------
(* The first proposal of a step is the one FirstProposed chooses.              *)
LEMMA FirstChosen ==
    ASSUME DispatchInv, NEW i \in 1..Len(steps)
    PROVE  First(i, FirstProposed(steps[i]))
<1>1. PICK p \in 1..pos : First(i, p)
  BY DEF DispatchInv, Planned
<1>2. pos \in Nat
  BY DEF DispatchInv, Shape
<1> DEFINE IsFirst(k) == k \in Proposed(steps[i]) /\ \A j \in Proposed(steps[i]) : k <= j
<1>3. \A k : k \in Proposed(steps[i]) <=> k \in 1..pos /\ Same(i, k)
  BY Zenon DEF Proposed, Same
<1>4. IsFirst(p)
  <2>1. p \in Proposed(steps[i])
    BY <1>1, <1>3 DEF First
  <2>2. ASSUME NEW j \in Proposed(steps[i]) PROVE p <= j
    <3>1. j \in 1..pos /\ Same(i, j)
      BY <1>3
    <3>2. ~(j \in 1..(p - 1))
      BY <1>1, <3>1 DEF First
    <3> QED
      BY <1>2, <3>1, <3>2
  <2> QED
    BY <2>1, <2>2
<1>5. FirstProposed(steps[i]) = CHOOSE k : IsFirst(k)
  BY Zenon DEF FirstProposed
<1>6. IsFirst(FirstProposed(steps[i]))
  <2> HIDE DEF IsFirst
  <2> QED
    BY <1>4, <1>5
<1>7. FirstProposed(steps[i]) \in 1..pos /\ FirstProposed(steps[i]) <= p
  BY <1>1, <1>3, <1>4, <1>6
<1>8. p <= FirstProposed(steps[i])
  BY <1>4, <1>6
<1>9. FirstProposed(steps[i]) = p
  BY <1>2, <1>7, <1>8
<1> QED
  BY <1>1, <1>9

(* The plan of every request is the first of each group of equal proposals the *)
(* session allows, in their order, numbered from one: the order and the removal *)
(* of doubles that _dedupe_intents, the loop of dispatch and its set of seen    *)
(* material are for.                                                        *)
THEOREM PlanComesFromProposals == Spec => []PlanIsProposed
<1>1. DispatchInv => PlanIsProposed
  <2> SUFFICES ASSUME DispatchInv, NEW i \in 1..Len(steps)
               PROVE  /\ steps[i].id = i /\ Proposed(steps[i]) # {}
                      /\ request.allowed # None => steps[i].tool \in request.allowed
                      /\ \A j \in 1..(i - 1) : FirstProposed(steps[j]) < FirstProposed(steps[i])
    BY DEF PlanIsProposed, DispatchInv, Shape
  <2>1. steps[i].id = i /\ (request.allowed # None => steps[i].tool \in request.allowed)
    BY DEF DispatchInv, Planned
  <2>2. First(i, FirstProposed(steps[i]))
    BY FirstChosen
  <2>3. Proposed(steps[i]) # {}
    BY <2>2 DEF First, Same, Proposed
  <2>4. ASSUME NEW j \in 1..(i - 1)
        PROVE  FirstProposed(steps[j]) < FirstProposed(steps[i])
    <3>1. j \in 1..Len(steps)
      BY DEF DispatchInv, Shape
    <3>2. First(j, FirstProposed(steps[j]))
      BY <3>1, FirstChosen
    <3>3. FirstProposed(steps[j]) \in 1..pos /\ FirstProposed(steps[i]) \in 1..pos
      BY <2>2, <3>2 DEF First
    <3> QED
      BY <2>2, <3>2, <3>3 DEF DispatchInv, Planned
  <2> QED
    BY <2>1, <2>3, <2>4
<1> QED
  BY <1>1, DispatchInvariance, PTL

(* dispatch leaves out a proposal whose scopes cannot be rendered, and does not  *)
(* fail; but no proposal that the session allows and whose scopes can be         *)
(* rendered is missing from the plan for it: the continue of one iteration never *)
(* ends the loop.                                                              *)
THEOREM WantedIsPlanned == Spec => []NothingElseDropped
<1>1. DispatchInv => NothingElseDropped
  BY DEF DispatchInv, Shape, Kept, Wanted, Same, NothingElseDropped
<1> QED
  BY <1>1, DispatchInvariance, PTL

(* A step's scopes are bound to its own argument or were issued to the user: the *)
(* two branches of scope_requirements_for_auth0_token and materialize_scopes.    *)
THEOREM ScopesAreBound == Spec => []ScopesFitStep
<1>1. DispatchInv => ScopesFitStep
  <2> SUFFICES ASSUME DispatchInv, NEW i \in 1..Len(steps), NEW s \in steps[i].scopes
               PROVE  \/ s.value = steps[i].value /\ s.name = Catalog[steps[i].tool].template
                      \/ s.value = None /\ (s.name \in request.issued \/ request.issued = {})
    BY DEF ScopesFitStep, DispatchInv, Shape
  <2>1. steps[i] \in Step
    BY DEF DispatchInv, Shape
  <2>2. PICK n \in Nat, t \in Tools, v \in Text, a \in Text : steps[i] = StepOf(n, t, v, a)
    BY <2>1 DEF Step
  <2>3. steps[i].scopes = RequiredScopes(t, request.issued, v) /\ steps[i].tool = t /\ steps[i].value = v
    BY <2>2 DEF StepOf
  <2>4. CASE UsesTemplate(t, request.issued)
    <3>1. s = Scope(Catalog[t].template, IF Catalog[t].arg = None THEN None ELSE v)
      BY <2>3, <2>4, Zenon DEF RequiredScopes
    <3>2. s.name = Catalog[t].template /\ s.value = IF Catalog[t].arg = None THEN None ELSE v
      BY <3>1 DEF Scope
    <3>3. Catalog[t].arg = None => request.issued = {}
      BY <2>4, Zenon DEF UsesTemplate
    <3> QED
      BY <2>3, <3>2, <3>3
  <2>5. CASE ~UsesTemplate(t, request.issued)
    <3>1. PICK name \in Selected(t, request.issued) : s = Scope(name, None)
      BY <2>3, <2>5 DEF RequiredScopes
    <3>2. name \in request.issued
      BY <3>1, Zenon DEF Selected
    <3>3. s.name = name /\ s.value = None
      BY <3>1 DEF Scope
    <3> QED
      BY <3>2, <3>3
  <2> QED
    BY <2>4, <2>5
<1> QED
  BY <1>1, DispatchInvariance, PTL
------------------------------------------------------------------------------
(* A plan has at most two servers, and the audience its token is asked for is   *)
(* one a token can be for.                                                  *)
LEMMA ExpectedAudience ==
    ASSUME DispatchInv
    PROVE  /\ Expected \in Audiences \cup {None}
           /\ \A i \in 1..Len(steps) : Catalog[steps[i].tool].audience # None
                => Expected \in {ServerAudience[Catalog[steps[i].tool].audience], DefaultAudience}
<1>1. \A i \in 1..Len(steps) : steps[i].tool \in Tools
  <2> SUFFICES ASSUME NEW i \in 1..Len(steps) PROVE steps[i].tool \in Tools
    OBVIOUS
  <2>1. steps[i] \in Step
    BY DEF DispatchInv, Shape
  <2> QED
    BY <2>1 DEF Step, StepOf
<1>2. DOMAIN steps = 1..Len(steps)
  BY DEF DispatchInv, Shape
<1>3. /\ PlanServers \subseteq Servers
      /\ \A i \in 1..Len(steps) : Catalog[steps[i].tool].audience # None
            => Catalog[steps[i].tool].audience \in PlanServers
  BY <1>1, <1>2, Zenon DEF PlanServers, Servers
<1>4. Servers \subseteq {"network-mcp", "cloud-mcp"}
  BY CatalogAudience DEF Servers
<1>5. IsFiniteSet(PlanServers)
  <2>1. IsFiniteSet({"network-mcp", "cloud-mcp"})
    <3>1. {"network-mcp", "cloud-mcp"} = {"network-mcp"} \cup {"cloud-mcp"}
      OBVIOUS
    <3>2. \A x, y : IsFiniteSet({x} \cup {y})
      BY FS_Singleton, FS_AddElement
    <3> QED
      BY <3>1, <3>2
  <2> QED
    BY <1>3, <1>4, <2>1, FS_Subset
<1>6. \A s \in Servers : ServerAudience[s] \in Audiences \cup {None}
  BY BrokerAssumption
<1>7. CASE Cardinality(PlanServers) = 1
  <2>1. PICK server : PlanServers = {server}
    BY <1>5, <1>7, FS_Singleton
  <2>2. (CHOOSE s \in PlanServers : TRUE) = server
    BY <2>1
  <2>3. Expected \in {ServerAudience[server], DefaultAudience}
    BY <2>2, Zenon DEF Expected
  <2> QED
    BY <1>3, <1>6, <2>1, <2>3, BrokerAssumption
<1>8. CASE Cardinality(PlanServers) # 1
  <2>1. Expected = DefaultAudience
    BY <1>8 DEF Expected
  <2> QED
    BY <2>1, BrokerAssumption
<1> QED
  BY <1>7, <1>8

(* What is reported to a user's client was granted, and an audience it took for *)
(* confirmed is the token's.                                                *)
LEMMA AnswerIsGranted ==
    ASSUME response.scope \in {None, token.scopes}, response.auds \in {{}, token.auds}
    PROVE  /\ \/ ReportedScopes \subseteq Granted(token)
              \/ client = "m2m" /\ Told = {} /\ Claimed = {} /\ ReportedScopes = asked.scopes
           /\ Confirmed => asked.audience \in token.auds
<1>1. Told \subseteq Granted(token)
  BY DEF Told, Granted
<1>2. Claimed \subseteq Granted(token)
  BY DEF Claimed
<1>3. \/ ReportedScopes \subseteq Granted(token)
      \/ client = "m2m" /\ Told = {} /\ Claimed = {} /\ ReportedScopes = asked.scopes
  BY <1>1, <1>2 DEF ReportedScopes
<1>4. Confirmed => asked.audience \in token.auds
  BY DEF Confirmed
<1> QED
  BY <1>3, <1>4

LEMMA BrokerInitInv == BrokerInit => BrokerInv
<1> SUFFICES ASSUME BrokerInit PROVE BrokerInv
  OBVIOUS
<1>1. DispatchInv
  BY DispatchInit DEF BrokerInit
<1>2. AskedOk
  BY DEF AskedOk, BrokerInit, NoReport
<1>3. TokenOk
  BY DEF TokenOk, BrokerInit, NoToken, Granted
<1>4. ReportOk /\ CallsOk
  <2>1. Len(steps) \in Nat
    BY <1>1 DEF DispatchInv, Shape
  <2> QED
    BY <2>1 DEF ReportOk, CallsOk, BrokerInit
<1> QED
  BY <1>1, <1>2, <1>3, <1>4 DEF BrokerInv, BrokerInit, PCs
(* What holds of the plan and the calls holds while the plan is not touched.   *)
LEMMA PlanStays ==
    ASSUME UNCHANGED vars
    PROVE  /\ Requested' = Requested /\ Expected' = Expected
           /\ phase' = phase /\ steps' = steps
<1> USE DEF vars
<1>1. Requested' = Requested
  BY DEF Requested
<1>2. Expected' = Expected
  BY DEF Expected, PlanServers
<1> QED
  BY <1>1, <1>2

(* The dispatch runs on its own until a plan is asked for.                     *)
LEMMA IdleKeeps ==
    ASSUME BrokerInv, pc = "idle", Next, UNCHANGED brokerVars
    PROVE  BrokerInv'
<1> USE DEF brokerVars
<1>1. DispatchInv'
  BY DispatchStep DEF BrokerInv
<1>2. AskedOk'
  BY DEF BrokerInv, AskedOk
<1>3. TokenOk'
  BY DEF BrokerInv, TokenOk, Granted, OnTheWire
<1>4. ReportOk' /\ next = 0 /\ calls = {}
  BY DEF BrokerInv, ReportOk, CallsOk, AskedOk, NoReport
<1>5. CallsOk'
  <2>1. Len(steps') \in Nat
    BY <1>1 DEF DispatchInv, Shape
  <2> QED
    BY <1>4, <2>1 DEF CallsOk
<1> QED
  BY <1>1, <1>2, <1>3, <1>4, <1>5 DEF BrokerInv

LEMMA AskKeeps ==
    ASSUME BrokerInv, NEW who \in {"obo", "m2m"}, NEW scopes,
           NEW audience \in Audiences \cup {None}, Ask(who, scopes, audience),
           who = "obo" => phase = "done" /\ scopes = Requested /\ audience = Expected
    PROVE  BrokerInv'
<1> USE DEF Ask
<1>1. DispatchInv'
  BY DispatchStutters DEF BrokerInv
<1>2. AskedOk'
  <2>1. asked'.audience = audience
    OBVIOUS
  <2> QED
    BY <2>1, PlanStays DEF AskedOk
<1>3. TokenOk'
  <2>1. token = NoToken
    BY DEF BrokerInv, AskedOk
  <2> QED
    BY <2>1 DEF TokenOk, NoToken, Granted
<1>4. report = NoReport /\ calls = {} /\ next = 0
  BY DEF BrokerInv, ReportOk, CallsOk
<1>5. ReportOk' /\ CallsOk'
  BY <1>4, PlanStays DEF BrokerInv, ReportOk, CallsOk, NoReport
<1> QED
  BY <1>1, <1>2, <1>3, <1>5 DEF BrokerInv, PCs

(* What Auth0 issues is of what was asked for, and what it says is of what it   *)
(* issued.                                                                  *)
LEMMA IssueKeeps ==
    ASSUME BrokerInv, Issue
    PROVE  BrokerInv'
<1>1. /\ pc = "ask" /\ pc' = "answered" /\ asked' = asked /\ client' = client
      /\ report' = report /\ next' = next /\ calls' = calls /\ UNCHANGED vars
  BY DEF Issue
<1>2. DispatchInv'
  BY <1>1, DispatchStutters DEF BrokerInv
<1>3. AskedOk'
  BY <1>1, PlanStays DEF BrokerInv, AskedOk
<1>4. Granted(token') \subseteq OnTheWire(asked.scopes)
  <2>1. PICK scopes \in SUBSET OnTheWire(asked.scopes) :
          \E permissions \in SUBSET scopes :
             token'.scopes = scopes \ permissions /\ token'.permissions = permissions
    BY DEF Issue
  <2> QED
    BY <2>1 DEF Granted
<1>5. response'.scope \in {None, token'.scopes} /\ response'.auds \in {{}, token'.auds}
  BY DEF Issue
<1>6. TokenOk'
  BY <1>1, <1>4, <1>5 DEF TokenOk, Granted, OnTheWire
<1>7. report = NoReport /\ calls = {} /\ next = 0
  BY <1>1 DEF BrokerInv, ReportOk, CallsOk
<1>8. ReportOk' /\ CallsOk'
  BY <1>1, <1>7, PlanStays DEF BrokerInv, ReportOk, CallsOk, NoReport
<1> QED
  BY <1>1, <1>2, <1>3, <1>6, <1>8 DEF BrokerInv, PCs

LEMMA IssueFailsKeeps ==
    ASSUME BrokerInv, IssueFails
    PROVE  BrokerInv'
<1> USE DEF IssueFails
<1>1. DispatchInv'
  BY DispatchStutters DEF BrokerInv
<1>2. AskedOk'
  BY PlanStays DEF BrokerInv, AskedOk
<1>3. TokenOk'
  BY DEF BrokerInv, TokenOk, Granted, OnTheWire
<1>4. report = NoReport /\ calls = {} /\ next = 0
  BY DEF BrokerInv, ReportOk, CallsOk
<1>5. ReportOk' /\ CallsOk'
  BY <1>4, PlanStays DEF BrokerInv, ReportOk, CallsOk, NoReport
<1> QED
  BY <1>1, <1>2, <1>3, <1>5 DEF BrokerInv, PCs

(* A client that goes on has an answer it may use.                             *)
LEMMA ReadKeeps ==
    ASSUME BrokerInv, Read
    PROVE  BrokerInv'
<1>1. /\ pc = "answered" /\ client' = client /\ asked' = asked /\ token' = token
      /\ response' = response /\ next' = next /\ calls' = calls /\ UNCHANGED vars
      /\ pc' \in {"execute", "done", "failed"}
      /\ pc' = "execute" => client = "obo" /\ Usable
  BY DEF Read
<1>2. DispatchInv'
  BY <1>1, DispatchStutters DEF BrokerInv
<1>3. AskedOk'
  BY <1>1, PlanStays DEF BrokerInv, AskedOk
<1>4. TokenOk'
  BY <1>1 DEF BrokerInv, TokenOk, Granted, OnTheWire
<1>5. report = NoReport /\ calls = {} /\ next = 0
  BY <1>1 DEF BrokerInv, ReportOk, CallsOk
<1>6. ReportOk'
  <2>1. /\ ReportedScopes' = ReportedScopes /\ Confirmed' = Confirmed
    BY <1>1 DEF ReportedScopes, Told, Claimed, Confirmed, Granted
  <2>2. CASE Usable /\ report' = [scopes |-> ReportedScopes, audience |-> asked.audience]
    <3>1. client = "obo" => Confirmed
      BY <2>2 DEF Usable
    <3>2. response.scope \in {None, token.scopes} /\ response.auds \in {{}, token.auds}
      BY <1>1 DEF BrokerInv, TokenOk
    <3> QED
      BY <1>1, <2>1, <2>2, <3>1, <3>2 DEF ReportOk
  <2>3. CASE ~Usable /\ report' = report /\ pc' = "failed"
    BY <1>1, <1>5, <2>3 DEF ReportOk, NoReport
  <2> QED
    BY <2>2, <2>3 DEF Read
<1>7. CallsOk'
  BY <1>1, <1>5, PlanStays DEF BrokerInv, CallsOk
<1> QED
  BY <1>1, <1>2, <1>3, <1>4, <1>6, <1>7 DEF BrokerInv, PCs
(* A step leaves by an action only when the report names its scopes.           *)
LEMMA ExecuteKeeps ==
    ASSUME BrokerInv, Execute
    PROVE  BrokerInv'
<1>1. /\ pc = "execute" /\ client' = client /\ asked' = asked /\ token' = token
      /\ response' = response /\ report' = report /\ UNCHANGED vars
      /\ pc' \in {"execute", "failed"}
  BY DEF Execute
<1>2. client = "obo" /\ next \in 0..Len(steps) /\ next < Len(steps) /\ Len(steps) \in Nat
  BY <1>1 DEF BrokerInv, AskedOk, CallsOk, DispatchInv, Shape, Execute
<1>3. DispatchInv'
  BY <1>1, DispatchStutters DEF BrokerInv
<1>4. AskedOk'
  BY <1>1, PlanStays DEF BrokerInv, AskedOk
<1>5. TokenOk'
  BY <1>1 DEF BrokerInv, TokenOk, Granted, OnTheWire
<1>6. ReportOk'
  <2>1. /\ ReportedScopes' = ReportedScopes /\ Confirmed' = Confirmed
    BY <1>1 DEF ReportedScopes, Told, Claimed, Confirmed, Granted
  <2> QED
    BY <1>1, <2>1 DEF BrokerInv, ReportOk
<1>7. CallsOk'
  <2>1. \A step : Passes(step)' <=> Passes(step)
    BY <1>1 DEF Passes
  <2>2. CASE UNCHANGED <<next, calls>>
    BY <1>1, <1>2, <2>1, <2>2, PlanStays DEF BrokerInv, CallsOk
  <2>3. CASE Passes(steps[next + 1]) /\ calls' = calls \cup {steps[next + 1]} /\ next' = next + 1
             /\ pc' = pc
    <3>1. next + 1 \in 1..Len(steps) /\ next + 1 \in 0..Len(steps)
      BY <1>2
    <3> QED
      BY <1>1, <1>2, <2>1, <2>3, <3>1, PlanStays DEF BrokerInv, CallsOk
  <2> QED
    BY <2>2, <2>3 DEF Execute
<1> QED
  BY <1>1, <1>3, <1>4, <1>5, <1>6, <1>7 DEF BrokerInv, PCs

LEMMA EndKeeps ==
    ASSUME BrokerInv, Finish \/ UNCHANGED <<vars, brokerVars>>
    PROVE  BrokerInv'
<1>1. /\ client' = client /\ asked' = asked /\ token' = token /\ response' = response
      /\ report' = report /\ next' = next /\ calls' = calls /\ UNCHANGED vars
      /\ pc' = pc \/ (pc = "execute" /\ pc' = "done")
  BY DEF Finish, brokerVars
<1>2. DispatchInv'
  BY <1>1, DispatchStutters DEF BrokerInv
<1>3. AskedOk'
  BY <1>1, PlanStays DEF BrokerInv, AskedOk
<1>4. TokenOk'
  BY <1>1 DEF BrokerInv, TokenOk, Granted, OnTheWire
<1>5. ReportOk'
  <2>1. /\ ReportedScopes' = ReportedScopes /\ Confirmed' = Confirmed
    BY <1>1 DEF ReportedScopes, Told, Claimed, Confirmed, Granted
  <2> QED
    BY <1>1, <2>1 DEF BrokerInv, ReportOk
<1>6. CallsOk'
  <2>1. \A step : Passes(step)' <=> Passes(step)
    BY <1>1 DEF Passes
  <2> QED
    BY <1>1, <2>1, PlanStays DEF BrokerInv, CallsOk
<1> QED
  BY <1>1, <1>2, <1>3, <1>4, <1>5, <1>6 DEF BrokerInv, PCs

LEMMA BrokerStep == BrokerInv /\ [BrokerNext]_<<vars, brokerVars>> => BrokerInv'
<1> SUFFICES ASSUME BrokerInv, [BrokerNext]_<<vars, brokerVars>> PROVE BrokerInv'
  OBVIOUS
<1>1. CASE pc = "idle" /\ Next /\ UNCHANGED brokerVars
  BY <1>1, IdleKeeps
<1>2. CASE AskForPlan
  <2>1. Expected \in Audiences \cup {None}
    BY ExpectedAudience DEF BrokerInv
  <2> QED
    BY <1>2, <2>1, AskKeeps DEF AskForPlan
<1>3. CASE AskForService
  <2>1. PICK scopes \in Configured, audience \in Audiences \cup {None} : Ask("m2m", scopes, audience)
    BY <1>3 DEF AskForService
  <2> QED
    BY <2>1, AskKeeps
<1>4. CASE Issue
  BY <1>4, IssueKeeps
<1>5. CASE IssueFails
  BY <1>5, IssueFailsKeeps
<1>6. CASE Read
  BY <1>6, ReadKeeps
<1>7. CASE Execute
  BY <1>7, ExecuteKeeps
<1>8. CASE Finish \/ Answered \/ UNCHANGED <<vars, brokerVars>>
  BY <1>8, EndKeeps DEF Answered
<1> QED
  BY <1>1, <1>2, <1>3, <1>4, <1>5, <1>6, <1>7, <1>8 DEF BrokerNext, Broker

THEOREM BrokerInvariance == BrokerSpec => []BrokerInv
<1> QED
  BY BrokerInitInv, BrokerStep, PTL DEF BrokerSpec

(* Approving and executing leave the plan as dispatch made it: what is proved of *)
(* dispatch holds of the plans that are executed.                              *)
THEOREM BrokerRunsDispatch == BrokerSpec => Spec
<1>1. BrokerInit => Init
  BY DEF BrokerInit
<1>2. [BrokerNext]_<<vars, brokerVars>> => [Next]_vars
  BY DEF BrokerNext, Broker, AskForPlan, AskForService, Ask, Issue, IssueFails, Read, Execute,
         Finish, Answered
<1> QED
  BY <1>1, <1>2, PTL DEF BrokerSpec, Spec

(* A client reports no scope that was not granted, but for a service that was    *)
(* told nothing, and a call passes only with a token that has the step's scopes  *)
(* and is for the audience of its grant: _scopes_from_response, the audience      *)
(* check of the broker and the gateway together, whatever Auth0 issues and tells.  *)
THEOREM CallsHaveTheirToken == BrokerSpec => []CallsWithinToken
<1>1. BrokerInv => CallsWithinToken
  <2> SUFFICES ASSUME BrokerInv PROVE CallsWithinToken
    OBVIOUS
  <2>1. CASE report = NoReport /\ pc # "execute" /\ calls = {}
    BY <2>1 DEF CallsWithinToken, NoReport
  <2>2. CASE /\ report = [scopes |-> ReportedScopes, audience |-> asked.audience]
             /\ response.scope \in {None, token.scopes} /\ response.auds \in {{}, token.auds}
             /\ client = "obo" => Confirmed
    <3>1. report.scopes = ReportedScopes /\ report.audience = asked.audience
      BY <2>2
    <3>2. ASSUME NEW step \in calls
          PROVE  step.scopes \subseteq Granted(token) /\ report.audience \in token.auds
      <4>1. client = "obo" /\ step.scopes \subseteq report.scopes
        BY <3>2 DEF BrokerInv, CallsOk, Passes
      <4>2. ReportedScopes \subseteq Granted(token) /\ asked.audience \in token.auds
        BY <2>2, <4>1, AnswerIsGranted
      <4> QED
        BY <3>1, <4>1, <4>2
    <3> QED
      BY <2>2, <3>1, <3>2, AnswerIsGranted DEF CallsWithinToken
  <2> QED
    BY <2>1, <2>2 DEF BrokerInv, ReportOk
<1> QED
  BY <1>1, BrokerInvariance, PTL

(* A server is called with a token asked for itself or for the default audience, *)
(* never for another server: _requested_audience over plans of several servers.   *)
THEOREM TokensAreNotForeign == BrokerSpec => []NoForeignToken
<1>1. BrokerInv => BrokerTypeOK
  <2> SUFFICES ASSUME BrokerInv PROVE BrokerTypeOK
    OBVIOUS
  <2>1. TypeOK
    <3>1. \A i \in DOMAIN steps : steps[i].id \in Nat /\ steps[i].tool \in Tools
      <4> SUFFICES ASSUME NEW i \in DOMAIN steps PROVE steps[i].id \in Nat /\ steps[i].tool \in Tools
        OBVIOUS
      <4>1. steps[i] \in Step
        BY DEF BrokerInv, DispatchInv, Shape
      <4> QED
        BY <4>1 DEF Step, StepOf
    <3>2. \A i \in DOMAIN intents : intents[i].tool \in Tools
      <4> SUFFICES ASSUME NEW i \in DOMAIN intents PROVE intents[i].tool \in Tools
        OBVIOUS
      <4>1. intents[i] \in Intent
        BY DEF BrokerInv, DispatchInv, Shape
      <4> QED
        BY <4>1 DEF Intent
    <3> QED
      BY <3>1, <3>2 DEF BrokerInv, DispatchInv, Shape, TypeOK
  <2>2. report.audience \in Audiences \cup {None}
    BY DEF BrokerInv, ReportOk, AskedOk, NoReport
  <2>3. report.scopes \subseteq asked.scopes \cup OnTheWire(asked.scopes)
    <3>1. CASE report = NoReport
      BY <3>1 DEF NoReport
    <3>2. CASE /\ report = [scopes |-> ReportedScopes, audience |-> asked.audience]
               /\ response.scope \in {None, token.scopes} /\ response.auds \in {{}, token.auds}
      <4>1. report.scopes = ReportedScopes
        BY <3>2
      <4>2. ReportedScopes \subseteq Granted(token) \/ ReportedScopes = asked.scopes
        BY <3>2, AnswerIsGranted
      <4> QED
        BY <4>1, <4>2 DEF BrokerInv, TokenOk
    <3> QED
      BY <3>1, <3>2 DEF BrokerInv, ReportOk
  <2>4. next \in 0..Len(steps) /\ calls \subseteq {steps[i] : i \in DOMAIN steps}
    BY DEF BrokerInv, CallsOk, DispatchInv, Shape
  <2> QED
    BY <2>1, <2>2, <2>3, <2>4 DEF BrokerInv, BrokerTypeOK, PCs
<1>2. BrokerInv => NoForeignToken
  <2> SUFFICES ASSUME BrokerInv, NEW step \in calls
               PROVE  report.audience \in {ServerAudience[Catalog[step.tool].audience], DefaultAudience}
    BY <1>1 DEF NoForeignToken
  <2>1. PICK i \in 1..Len(steps) : step = steps[i]
    BY DEF BrokerInv, CallsOk
  <2>2. Catalog[step.tool].audience # None
    BY DEF BrokerInv, CallsOk, Passes
  <2>3. client = "obo" /\ pc # "idle"
    BY DEF BrokerInv, CallsOk, AskedOk
  <2>4. report.audience = asked.audience /\ asked.audience = Expected
    BY <2>3 DEF BrokerInv, ReportOk, AskedOk
  <2> QED
    BY <2>1, <2>2, <2>4, ExpectedAudience DEF BrokerInv
<1> QED
  BY <1>2, BrokerInvariance, PTL
==============================================================================
