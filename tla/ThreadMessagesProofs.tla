------------------------- MODULE ThreadMessagesProofs -------------------------
(***************************************************************************)
(* The messages of a thread, for every history a client sends and every     *)
(* order of runs, lost streams, edits and reloads.  The loop over a history *)
(* is a recursive function; Chain names what it holds after each message,   *)
(* and the proofs follow that: every kept message stands at the rank of its *)
(* position, and a part's result is that of the last tool message that      *)
(* reached it.                                                              *)
(***************************************************************************)
EXTENDS ThreadMessages, SequenceTheorems, SubsequenceProofs

\* Every id, call and result there is.
Id ==
    Values \cup {None, "planned"} \cup Runs \cup {<<"user", r>> : r \in Runs}
    \cup {<<r>> : r \in Runs}
    \cup {<<r, i>> : r \in Runs \cup {<<q>> : q \in Runs}, i \in 1..MaxSteps}

PartType == Known \cup {"unknown"}
AnyPart == [type : PartType, call : Id, result : Id, error : BOOLEAN]
KnownPart == [type : Known, call : Id, result : Id, error : BOOLEAN]

AnyMessage ==
    [role : Stored \cup {"tool", "other"}, id : Id, parts : Seq(AnyPart), calls : Seq(Id),
     call : Id, result : Id, error : BOOLEAN]

\* A message as the thread keeps it.
StoredMessage ==
    {m \in [role : Stored, id : Id, parts : Seq(KnownPart), calls : {<<>>},
            call : {None}, result : {None}, error : {FALSE}] :
        m.role # "assistant" => m.parts = <<>>}

\* What the loop holds after each of the messages.
Chain(h, messages) ==
    /\ h[0] = <<>>
    /\ \A i \in 1..Len(messages) : h[i] = Added(h[i - 1], messages[i])

------------------------------------------------------------------------------
(* The loop.                                                                *)

(* A loop over the messages ends with what Restored gives.                      *)
LEMMA RestoredChain ==
    ASSUME NEW messages, NEW n \in Nat, Len(messages) = n
    PROVE  \E h : Chain(h, messages) /\ h[n] = Restored(messages)
<1> DEFINE Rec(g, k) ==
      g = [i \in 0..k |-> IF i = 0 THEN <<>> ELSE Added(g[i - 1], messages[i])]
<1> DEFINE loop == CHOOSE g : Rec(g, n)
<1>1. Restored(messages) = loop[n]
  BY Zenon DEF Restored
<1> DEFINE Bad == {k \in Nat : ~ \E g : Rec(g, k)}
<1>2. Bad = {}
  <2> SUFFICES ASSUME Bad # {} PROVE FALSE
    OBVIOUS
  <2>1. PICK k \in Bad : \A m \in Bad : k <= m
    <3> HIDE DEF Rec
    <3>1. Bad \in SUBSET Nat
      OBVIOUS
    <3> HIDE DEF Bad
    <3> QED
      BY <3>1, LeastNat
  <2>2. k \in Nat /\ ~ \E g : Rec(g, k)
    OBVIOUS
  <2>3. CASE k = 0
    <3> DEFINE g == [i \in 0..0 |-> <<>>]
    <3>1. g = [i \in 0..0 |-> IF i = 0 THEN <<>> ELSE Added(g[i - 1], messages[i])]
      OBVIOUS
    <3>2. Rec(g, 0)
      BY <3>1, Zenon
    <3> HIDE DEF Rec, g
    <3> QED
      BY <2>2, <2>3, <3>2
  <2>4. CASE k # 0
    <3>1. /\ k - 1 \in Nat /\ ~(k <= k - 1) /\ k \in 0..k
          /\ 0..k = (0..(k - 1)) \cup {k} /\ k \notin 0..(k - 1)
          /\ \A i \in 0..(k - 1) : i # 0 => i - 1 \in 0..(k - 1)
      BY <2>2, <2>4
    <3>2. k - 1 \notin Bad
      <4> HIDE DEF Bad
      <4> QED
        BY <2>1, <3>1
    <3>3. PICK g : Rec(g, k - 1)
      <4> HIDE DEF Rec
      <4> QED
        BY <3>1, <3>2
    <3> HIDE DEF Bad
    <3>4. \A i \in 0..(k - 1) : g[i] = IF i = 0 THEN <<>> ELSE Added(g[i - 1], messages[i])
      BY <3>3
    <3>5. PICK x : x = Added(g[k - 1], messages[k])
      OBVIOUS
    <3> DEFINE f == [i \in 0..k |-> IF i = k THEN x ELSE g[i]]
    <3>6. f[k] = x /\ \A i \in 0..(k - 1) : f[i] = g[i]
      BY <3>1
    <3>7. f = [i \in 0..k |-> f[i]]
      OBVIOUS
    <3> HIDE DEF f
    <3>8. \A i \in 0..k : f[i] = IF i = 0 THEN <<>> ELSE Added(f[i - 1], messages[i])
      <4> TAKE i \in 0..k
      <4>1. CASE i = k
        <5>1. k - 1 \in 0..(k - 1)
          BY <2>2, <3>1
        <5>2. f[i - 1] = g[k - 1]
          BY <3>6, <4>1, <5>1
        <5> QED
          BY <2>4, <3>5, <3>6, <4>1, <5>2
      <4>2. CASE i # k
        <5>1. i \in 0..(k - 1) /\ (i # 0 => i - 1 \in 0..(k - 1))
          BY <3>1, <4>2
        <5>2. f[i] = g[i] /\ (i # 0 => f[i - 1] = g[i - 1])
          BY <3>6, <5>1
        <5> QED
          BY <3>4, <5>1, <5>2
      <4> QED
        BY <4>1, <4>2
    <3>9. Rec(f, k)
      BY <3>7, <3>8
    <3> HIDE DEF Rec
    <3> QED
      BY <2>2, <3>9
  <2> QED
    BY <2>3, <2>4
<1>3. Rec(loop, n)
  <2>1. \E g : Rec(g, n)
    BY <1>2
  <2> HIDE DEF Rec
  <2> QED
    BY <2>1
<1>4. \A i \in 0..n : loop[i] = IF i = 0 THEN <<>> ELSE Added(loop[i - 1], messages[i])
  <2> HIDE DEF loop
  <2> QED
    BY <1>3
<1> HIDE DEF loop, Rec, Bad
<1>5. loop[0] = <<>> /\ \A i \in 1..n : loop[i] = Added(loop[i - 1], messages[i])
  <2>1. 0 \in 0..n /\ \A i \in 1..n : i \in 0..n /\ i # 0
    OBVIOUS
  <2> QED
    BY <1>4, <2>1
<1> QED
  BY <1>1, <1>5 DEF Chain

(* Whatever goes through the messages in the loop's steps ends where it does.   *)
LEMMA ChainEnds ==
    ASSUME NEW messages, NEW n \in Nat, Len(messages) = n, NEW h, Chain(h, messages)
    PROVE  h[n] = Restored(messages)
<1>1. PICK g : Chain(g, messages) /\ g[n] = Restored(messages)
  BY RestoredChain
<1> DEFINE Bad == {k \in Nat : k <= n /\ h[k] # g[k]}
<1>2. Bad = {}
  <2> SUFFICES ASSUME Bad # {} PROVE FALSE
    OBVIOUS
  <2>1. PICK k \in Bad : \A m \in Bad : k <= m
    <3>1. Bad \in SUBSET Nat
      OBVIOUS
    <3> HIDE DEF Bad
    <3> QED
      BY <3>1, LeastNat
  <2>2. k \in Nat /\ k <= n /\ h[k] # g[k]
    OBVIOUS
  <2>3. k # 0
    BY <1>1, <2>2 DEF Chain
  <2>4. k \in 1..n /\ k - 1 \in Nat /\ k - 1 <= n /\ ~(k <= k - 1)
    BY <2>2, <2>3
  <2>5. k - 1 \notin Bad
    <3> HIDE DEF Bad
    <3> QED
      BY <2>1, <2>4
  <2>6. h[k - 1] = g[k - 1]
    BY <2>4, <2>5
  <2>7. h[k] = Added(h[k - 1], messages[k]) /\ g[k] = Added(g[k - 1], messages[k])
    BY <1>1, <2>4 DEF Chain
  <2> QED
    BY <2>2, <2>6, <2>7
<1>3. n \notin Bad
  BY <1>2
<1> QED
  BY <1>1, <1>3

------------------------------------------------------------------------------
(* One message.                                                             *)

(* A normalized message is fit to be kept: it has its id, known parts and no    *)
(* calls beside them.                                                       *)
LEMMA NormalizedType ==
    ASSUME NEW m \in AnyMessage
    PROVE  /\ Normalized(m) \in StoredMessage
           /\ Normalized(m).role = "assistant" /\ Normalized(m).id = m.id
<1> DEFINE K == {k \in DOMAIN m.parts : m.parts[k].type \in Known}
<1> DEFINE parts == Keep(m.parts, K)
<1> DEFINE new == {i \in DOMAIN m.calls :
                     /\ m.calls[i] \notin CallsOf(parts)
                     /\ \A j \in 1..(i - 1) : m.calls[j] # m.calls[i]}
<1> DEFINE added == Keep(m.calls, new)
<1> DEFINE all == parts \o [i \in DOMAIN added |-> Part("tool-call", added[i], None, FALSE)]
<1>1. Normalized(m) = Message("assistant", m.id, all, <<>>)
  BY DEF Normalized
<1>2. m.id \in Id /\ m.parts \in Seq(AnyPart) /\ m.calls \in Seq(Id)
  BY DEF AnyMessage
<1>3. parts \in Seq(KnownPart)
  <2>1. parts \in Seq(AnyPart) /\ \A k \in DOMAIN parts : \E i \in K : parts[k] = m.parts[i]
    <3>1. K \in SUBSET (DOMAIN m.parts)
      OBVIOUS
    <3> HIDE DEF K
    <3> QED
      BY <1>2, <3>1, KeepShape
  <2>2. \A k \in DOMAIN parts : parts[k].type \in Known
    BY <2>1
  <2> HIDE DEF parts
  <2>3. PICK n \in Nat : parts \in [1..n -> AnyPart] /\ DOMAIN parts = 1..n
    BY <2>1
  <2>4. \A k \in 1..n : parts[k] \in KnownPart
    BY <2>2, <2>3 DEF AnyPart, KnownPart
  <2> QED
    BY <2>3, <2>4
<1> HIDE DEF parts
<1>4. added \in Seq(Id)
  <2>1. new \in SUBSET (DOMAIN m.calls)
    OBVIOUS
  <2> HIDE DEF new
  <2> QED
    BY <1>2, <2>1, KeepShape
<1> HIDE DEF added
<1>5. [i \in DOMAIN added |-> Part("tool-call", added[i], None, FALSE)] \in Seq(KnownPart)
  <2>1. PICK n \in Nat : DOMAIN added = 1..n /\ \A i \in 1..n : added[i] \in Id
    BY <1>4
  <2>2. \A i \in 1..n : Part("tool-call", added[i], None, FALSE) \in KnownPart
    BY <2>1 DEF Part, KnownPart, Known, Id
  <2> DEFINE part(i) == Part("tool-call", added[i], None, FALSE)
  <2>3. [i \in DOMAIN added |-> part(i)] = [i \in 1..n |-> part(i)]
    BY <2>1
  <2>4. \A i \in 1..n : part(i) \in KnownPart
    BY <2>2
  <2> HIDE DEF part
  <2>5. [i \in 1..n |-> part(i)] \in Seq(KnownPart)
    BY <2>4
  <2>6. [i \in DOMAIN added |-> part(i)] \in Seq(KnownPart)
    BY <2>3, <2>5
  <2> QED
    BY <2>6 DEF part
<1>6. all \in Seq(KnownPart)
  BY <1>3, <1>5
<1> HIDE DEF all
<1> QED
  BY <1>1, <1>2, <1>6 DEF Message, StoredMessage, Stored

(* What is fit to be kept is not changed when it is normalized again.           *)
LEMMA NormalizedSame ==
    ASSUME NEW m \in StoredMessage, m.role = "assistant"
    PROVE  Normalized(m) = m
<1> DEFINE K == {k \in DOMAIN m.parts : m.parts[k].type \in Known}
<1> DEFINE new == {i \in DOMAIN m.calls :
                     /\ m.calls[i] \notin CallsOf(Keep(m.parts, K))
                     /\ \A j \in 1..(i - 1) : m.calls[j] # m.calls[i]}
<1> DEFINE added == Keep(m.calls, new)
<1>1. Normalized(m) = Message("assistant", m.id, Keep(m.parts, K) \o
          [i \in DOMAIN added |-> Part("tool-call", added[i], None, FALSE)], <<>>)
  BY DEF Normalized
<1>2. m.parts \in Seq(KnownPart) /\ m.calls = <<>>
  BY DEF StoredMessage
<1>3. K = DOMAIN m.parts
  <2>1. \A k \in DOMAIN m.parts : m.parts[k] \in KnownPart
    BY <1>2
  <2> QED
    BY <2>1 DEF KnownPart
<1> HIDE DEF K
<1>4. Keep(m.parts, K) = m.parts
  BY <1>2, <1>3, KeepAll
<1>5. DOMAIN added = 1..0
  <2>1. new = {}
    BY <1>2
  <2> HIDE DEF new
  <2>2. Cardinality(new) = 0
    BY <2>1, FS_EmptySet
  <2> QED
    BY <2>2 DEF Keep
<1> HIDE DEF added
<1>6. [i \in DOMAIN added |-> Part("tool-call", added[i], None, FALSE)] = <<>>
  BY <1>5
<1>7. m.parts \o <<>> = m.parts
  BY <1>2
<1>8. Message("assistant", m.id, m.parts, <<>>) = m
  BY DEF Message, StoredMessage
<1> QED
  BY <1>1, <1>4, <1>6, <1>7, <1>8

(* A result is put into one part of one message, if a part has the call; all    *)
(* else is as before.                                                       *)
LEMMA MergedShape ==
    ASSUME NEW ms \in Seq(StoredMessage), NEW t \in AnyMessage
    PROVE  /\ Merged(ms, t) \in Seq(StoredMessage)
           /\ DOMAIN Merged(ms, t) = DOMAIN ms
           /\ \A a \in DOMAIN ms :
                /\ Merged(ms, t)[a].id = ms[a].id /\ Merged(ms, t)[a].role = ms[a].role
                /\ DOMAIN Merged(ms, t)[a].parts = DOMAIN ms[a].parts
           /\ \A a \in DOMAIN ms : \A k \in DOMAIN ms[a].parts :
                Merged(ms, t)[a].parts[k] =
                  IF <<a, k>> \in LastMatch(ms, t.call) THEN WithResult(ms[a].parts[k], t)
                  ELSE ms[a].parts[k]
<1>1. CASE LastMatch(ms, t.call) = {}
  BY <1>1 DEF Merged
<1>2. CASE LastMatch(ms, t.call) # {}
  <2> DEFINE x == CHOOSE x \in LastMatch(ms, t.call) : TRUE
  <2>1. x \in LastMatch(ms, t.call)
    BY <1>2
  <2>2. PICK a, b : /\ x = <<a, b>> /\ a \in DOMAIN ms /\ ms[a].role = "assistant"
                    /\ b \in DOMAIN ms[a].parts
    <3> HIDE DEF x
    <3> QED
      BY <2>1 DEF LastMatch, Matches
  <2> DEFINE w == WithResult(ms[a].parts[b], t)
  <2> DEFINE put == [ms[a] EXCEPT !.parts = [ms[a].parts EXCEPT ![b] = w]]
  <2>3. Merged(ms, t) = [ms EXCEPT ![x[1]].parts[x[2]] = WithResult(@, t)]
    BY <1>2, Zenon DEF Merged
  <2> HIDE DEF x
  <2>4. x[1] = a /\ x[2] = b
    BY <2>2
  <2>5. Merged(ms, t) = [ms EXCEPT ![a].parts[b] = WithResult(@, t)]
    BY <2>3, <2>4, Zenon
  <2>6. Merged(ms, t) = [i \in DOMAIN ms |-> IF i = a THEN put ELSE ms[i]]
    BY <2>5, Zenon
  <2>7. ms[a] \in StoredMessage /\ ms[a].parts \in Seq(KnownPart) /\ ms[a].parts[b] \in KnownPart
    <3> HIDE DEF w, put
    <3>1. ms[a] \in StoredMessage
      BY <2>2
    <3>2. ms[a].parts \in Seq(KnownPart)
      BY <3>1 DEF StoredMessage
    <3> QED
      BY <2>2, <3>1, <3>2
  <2>8. w \in KnownPart
    BY <2>7 DEF WithResult, KnownPart, AnyMessage
  <2>9. \A k \in DOMAIN ms[a].parts : <<a, k>> \in LastMatch(ms, t.call) <=> k = b
    <3> TAKE k \in DOMAIN ms[a].parts
    <3>1. <<a, b>> \in LastMatch(ms, t.call)
      BY <2>1, <2>2
    <3>2. ASSUME <<a, k>> \in LastMatch(ms, t.call) PROVE k = b
      <4>1. ~Earlier(<<a, k>>, <<a, b>>) /\ ~Earlier(<<a, b>>, <<a, k>>)
        BY <3>1, <3>2 DEF LastMatch
      <4>2. k \in Nat /\ b \in Nat
        BY <2>2, <2>7
      <4> QED
        BY <4>1, <4>2 DEF Earlier
    <3> QED
      BY <3>1, <3>2
  <2>10. \A i \in DOMAIN ms : i # a =>
           \A k : <<i, k>> \notin LastMatch(ms, t.call)
    <3> TAKE i \in DOMAIN ms
    <3> HAVE i # a
    <3> TAKE k
    <3> SUFFICES ASSUME <<i, k>> \in LastMatch(ms, t.call) PROVE FALSE
      OBVIOUS
    <3>1. ~Earlier(<<i, k>>, <<a, b>>) /\ ~Earlier(<<a, b>>, <<i, k>>)
      BY <2>1, <2>2 DEF LastMatch
    <3>2. i \in Nat /\ a \in Nat
      BY <2>2
    <3> QED
      BY <3>1, <3>2 DEF Earlier
  <2> HIDE DEF w
  <2>11. PICK p : p = [ms[a].parts EXCEPT ![b] = w]
    OBVIOUS
  <2>12. /\ p \in Seq(KnownPart) /\ DOMAIN p = DOMAIN ms[a].parts /\ p[b] = w
         /\ \A k \in DOMAIN ms[a].parts : k # b => p[k] = ms[a].parts[k]
    BY <2>2, <2>7, <2>8, <2>11
  <2>13. put = [ms[a] EXCEPT !.parts = p]
    BY <2>11
  <2> HIDE DEF put
  <2>14. /\ put \in StoredMessage /\ put.id = ms[a].id /\ put.role = ms[a].role
         /\ put.parts = p
    BY <2>2, <2>7, <2>12, <2>13 DEF StoredMessage
  <2>15. PICK n \in Nat : DOMAIN ms = 1..n /\ \A i \in 1..n : ms[i] \in StoredMessage
    OBVIOUS
  <2>16. Merged(ms, t) \in Seq(StoredMessage) /\ DOMAIN Merged(ms, t) = DOMAIN ms
    BY <2>6, <2>14, <2>15
  <2>17. Merged(ms, t)[a] = put /\ \A i \in DOMAIN ms : i # a => Merged(ms, t)[i] = ms[i]
    BY <2>2, <2>6
  <2>18. \A i \in DOMAIN ms :
           /\ Merged(ms, t)[i].id = ms[i].id /\ Merged(ms, t)[i].role = ms[i].role
           /\ DOMAIN Merged(ms, t)[i].parts = DOMAIN ms[i].parts
    BY <2>12, <2>14, <2>17
  <2>19. ASSUME NEW i \in DOMAIN ms, NEW k \in DOMAIN ms[i].parts
         PROVE  Merged(ms, t)[i].parts[k] =
                  IF <<i, k>> \in LastMatch(ms, t.call) THEN WithResult(ms[i].parts[k], t)
                  ELSE ms[i].parts[k]
    <3>1. CASE i = a
      <4>1. Merged(ms, t)[i].parts[k] = p[k]
        BY <2>14, <2>17, <3>1
      <4>2. CASE k = b
        <5>1. <<i, k>> \in LastMatch(ms, t.call)
          BY <2>9, <3>1, <4>2
        <5>2. p[k] = WithResult(ms[i].parts[k], t)
          BY <2>12, <3>1, <4>2 DEF w
        <5> QED
          BY <4>1, <5>1, <5>2
      <4>3. CASE k # b
        <5>1. <<i, k>> \notin LastMatch(ms, t.call)
          BY <2>9, <3>1, <4>3
        <5>2. p[k] = ms[i].parts[k]
          BY <2>12, <3>1, <4>3
        <5> QED
          BY <4>1, <5>1, <5>2
      <4> QED
        BY <4>2, <4>3
    <3>2. CASE i # a
      <4>1. <<i, k>> \notin LastMatch(ms, t.call)
        BY <2>10, <3>2
      <4>2. Merged(ms, t)[i] = ms[i]
        BY <2>17, <3>2
      <4> QED
        BY <4>1, <4>2
    <3> QED
      BY <3>1, <3>2
  <2> QED
    BY <2>16, <2>18, <2>19
<1> QED
  BY <1>1, <1>2

------------------------------------------------------------------------------
(* What the loop holds.                                                     *)

\* Where a message stands in what the loop makes of the messages.
At(messages, j) == Rank({i \in DOMAIN messages : messages[i].role \in Stored}, j)

SameCalls(p, q) ==
    DOMAIN p = DOMAIN q /\ \A k \in DOMAIN p : p[k].type = q[k].type /\ p[k].call = q[k].call

Stands(m, sentAs) ==
    /\ m.id = sentAs.id /\ m.role = sentAs.role
    /\ sentAs.role = "assistant" => SameCalls(m.parts, Normalized(sentAs).parts)

Holds(kept, messages, i) ==
    /\ kept \in Seq(StoredMessage) /\ DOMAIN kept = 1..At(messages, i)
    /\ \A j \in 1..i : messages[j].role \in Stored => Stands(kept[At(messages, j)], messages[j])

(* What the positions of kept messages are.                                     *)
LEMMA Places ==
    ASSUME NEW messages, NEW n \in Nat, DOMAIN messages = 1..n
    PROVE  /\ At(messages, 0) = 0 /\ \A i \in 0..n : At(messages, i) \in Nat
           /\ \A i \in 1..n : At(messages, i) = At(messages, i - 1) +
                IF messages[i].role \in Stored THEN 1 ELSE 0
           /\ \A i \in 0..n, j \in 1..n : i < j /\ messages[j].role \in Stored =>
                At(messages, i) < At(messages, j)
           /\ \A i \in 0..n, j \in 1..n : j <= i => At(messages, j) <= At(messages, i)
<1> DEFINE K == {i \in DOMAIN messages : messages[i].role \in Stored}
<1>1. \A i : At(messages, i) = Rank(K, i)
  BY Zenon DEF At
<1>2. K \in SUBSET (1..n) /\ \A i \in 1..n : i \in K <=> messages[i].role \in Stored
  OBVIOUS
<1> HIDE DEF K
<1>3. /\ Rank(K, 0) = 0 /\ \A i \in 0..n : Rank(K, i) \in Nat
      /\ \A i \in 1..n : Rank(K, i) = Rank(K, i - 1) + IF i \in K THEN 1 ELSE 0
  BY <1>2, RankStep
<1>4. \A i \in 0..n, j \in 0..n : i < j => Rank(K, i) <= Rank(K, j) /\ (j \in K => Rank(K, i) < Rank(K, j))
  BY <1>2, RankOrder
<1>5. \A i \in 1..n : Rank(K, i) = Rank(K, i - 1) + IF messages[i].role \in Stored THEN 1 ELSE 0
  BY <1>2, <1>3
<1>6. \A i \in 0..n, j \in 1..n : i < j /\ messages[j].role \in Stored => Rank(K, i) < Rank(K, j)
  BY <1>2, <1>4
<1>7. ASSUME NEW i \in 0..n, NEW j \in 1..n, j <= i PROVE Rank(K, j) <= Rank(K, i)
  <2>1. CASE j = i
    BY <1>3, <2>1
  <2>2. CASE j # i
    <3>1. j \in 0..n /\ j < i
      BY <1>7, <2>2
    <3> QED
      BY <1>4, <3>1
  <2> QED
    BY <2>1, <2>2
<1> QED
  BY <1>1, <1>3, <1>5, <1>6, <1>7

(* Each message of what the loop holds comes from one that was sent.            *)
LEMMA ComesFrom ==
    ASSUME NEW messages, NEW n \in Nat, DOMAIN messages = 1..n, NEW i \in 0..n,
           NEW a \in 1..At(messages, i)
    PROVE  \E j \in 1..i : messages[j].role \in Stored /\ At(messages, j) = a
<1> DEFINE K == {j \in DOMAIN messages : messages[j].role \in Stored}
<1>1. \A j : At(messages, j) = Rank(K, j)
  BY Zenon DEF At
<1>2. K \in SUBSET (1..n) /\ \A j \in K : messages[j].role \in Stored
  OBVIOUS
<1> HIDE DEF K
<1>3. /\ \A j \in 0..n : Rank(K, j) \in Nat
      /\ Rank(K, n) = Cardinality(K) /\ Cardinality(K) \in Nat
  BY <1>2, RankStep
<1>4. \A j \in 0..n, k \in 0..n :
        j < k => Rank(K, j) <= Rank(K, k) /\ (k \in K => Rank(K, j) < Rank(K, k))
  BY <1>2, RankOrder
<1>5. Rank(K, i) <= Rank(K, n)
  <2>1. CASE i = n
    BY <1>3, <2>1
  <2>2. CASE i # n
    <3>1. i < n /\ n \in 0..n
      BY <2>2
    <3> QED
      BY <1>4, <3>1
  <2> QED
    BY <2>1, <2>2
<1>6. a \in 1..Cardinality(K) /\ a <= Rank(K, i)
  BY <1>1, <1>3, <1>5
<1>7. PICK j \in K : Rank(K, j) = a
  BY <1>2, <1>6, RankOnto
<1>8. j \in 0..n /\ j \in 1..n
  BY <1>2
<1>9. ~(i < j)
  <2> SUFFICES ASSUME i < j PROVE FALSE
    OBVIOUS
  <2>1. Rank(K, i) < Rank(K, j)
    BY <1>4, <1>8
  <2> QED
    BY <1>3, <1>6, <1>7, <1>8, <2>1
<1>10. j \in 1..i
  BY <1>8, <1>9
<1> QED
  BY <1>1, <1>2, <1>7, <1>10

(* One step of the loop: it appends a message, or changes results only.         *)
LEMMA StepCases ==
    ASSUME NEW m \in AnyMessage, NEW kept
    PROVE  \/ m.role = "tool" /\ Added(kept, m) = Merged(kept, m)
           \/ m.role = "other" /\ Added(kept, m) = kept
           \/ /\ m.role \in Stored
              /\ \E new \in StoredMessage :
                   /\ Added(kept, m) = Append(kept, new) /\ Stands(new, m)
                   /\ m.role = "assistant" => new = Normalized(m)
<1>1. m.role \in Stored \cup {"tool", "other"} /\ m.id \in Id
  BY DEF AnyMessage
<1>2. CASE m.role = "tool"
  BY <1>2 DEF Added, Stored
<1>3. CASE m.role = "other"
  BY <1>3 DEF Added, Stored
<1>4. CASE m.role = "assistant"
  <2>1. Added(kept, m) = Append(kept, Normalized(m))
    BY <1>4 DEF Added
  <2>2. Normalized(m) \in StoredMessage /\ Stands(Normalized(m), m)
    BY <1>4, NormalizedType DEF Stands, SameCalls
  <2> QED
    BY <1>4, <2>1, <2>2 DEF Stored
<1>5. CASE m.role \in {"system", "user"}
  <2>1. Added(kept, m) = Append(kept, Message(m.role, m.id, <<>>, <<>>))
    BY <1>5 DEF Added, Stored
  <2>2. Message(m.role, m.id, <<>>, <<>>) \in StoredMessage
    <3>1. <<>> \in Seq(KnownPart)
      OBVIOUS
    <3> QED
      BY <1>1, <1>5, <3>1 DEF Message, StoredMessage, Stored
  <2>3. Stands(Message(m.role, m.id, <<>>, <<>>), m)
    BY <1>5 DEF Message, Stands
  <2> QED
    BY <1>5, <2>1, <2>2, <2>3 DEF Stored
<1> QED
  BY <1>1, <1>2, <1>3, <1>4, <1>5 DEF Stored

(* A step of the loop keeps every message at its place.                         *)
LEMMA HoldsStep ==
    ASSUME NEW messages \in Seq(AnyMessage), NEW n \in Nat, DOMAIN messages = 1..n,
           NEW i \in 1..n, NEW kept, Holds(kept, messages, i - 1)
    PROVE  Holds(Added(kept, messages[i]), messages, i)
<1>1. messages[i] \in AnyMessage
  OBVIOUS
<1>2. /\ kept \in Seq(StoredMessage) /\ DOMAIN kept = 1..At(messages, i - 1)
      /\ \A j \in 1..(i - 1) :
           messages[j].role \in Stored => Stands(kept[At(messages, j)], messages[j])
  BY DEF Holds
<1>3. /\ \A j \in 0..n : At(messages, j) \in Nat
      /\ \A j \in 1..n : At(messages, j) = At(messages, j - 1) +
           IF messages[j].role \in Stored THEN 1 ELSE 0
      /\ \A k \in 0..n, j \in 1..n : k < j /\ messages[j].role \in Stored =>
           At(messages, k) < At(messages, j)
      /\ \A k \in 0..n, j \in 1..n : j <= k => At(messages, j) <= At(messages, k)
      /\ At(messages, 0) = 0
  BY Places
<1>4. /\ i - 1 \in 0..n /\ 0 \in 0..n /\ i \in 0..n
      /\ \A j \in 1..i : j # i => j \in 1..(i - 1)
      /\ \A j \in 1..(i - 1) : j \in 1..n /\ j <= i - 1 /\ 0 < j
  OBVIOUS
<1>5. PICK c \in Nat : c = At(messages, i - 1)
  BY <1>3, <1>4
<1>6. ASSUME NEW j \in 1..(i - 1), messages[j].role \in Stored
      PROVE  At(messages, j) \in 1..c
  <2>1. At(messages, j) <= c /\ 0 < At(messages, j)
    BY <1>3, <1>4, <1>5, <1>6
  <2>2. At(messages, j) \in Nat
    BY <1>3, <1>4
  <2> QED
    BY <2>1, <2>2
<1>7. CASE messages[i].role \notin Stored
  <2>1. At(messages, i) = c
    BY <1>3, <1>5, <1>7
  <2>2. CASE Added(kept, messages[i]) = kept
    BY <1>2, <1>4, <1>5, <1>7, <2>1, <2>2 DEF Holds
  <2>3. CASE Added(kept, messages[i]) = Merged(kept, messages[i])
    <3>1. PICK t \in AnyMessage : t = messages[i]
      BY <1>1
    <3> DEFINE after == Merged(kept, t)
    <3>2. /\ after \in Seq(StoredMessage) /\ DOMAIN after = DOMAIN kept
          /\ \A a \in DOMAIN kept :
               /\ after[a].id = kept[a].id /\ after[a].role = kept[a].role
               /\ DOMAIN after[a].parts = DOMAIN kept[a].parts
      <4>1. kept \in Seq(StoredMessage)
        BY <1>2
      <4> QED
        BY <4>1, MergedShape
    <3>3. \A a \in DOMAIN kept : \A k \in DOMAIN kept[a].parts :
            \/ after[a].parts[k] = WithResult(kept[a].parts[k], messages[i])
            \/ after[a].parts[k] = kept[a].parts[k]
      <4>1. \A a \in DOMAIN kept : \A k \in DOMAIN kept[a].parts :
              after[a].parts[k] =
                IF <<a, k>> \in LastMatch(kept, t.call) THEN WithResult(kept[a].parts[k], t)
                ELSE kept[a].parts[k]
        BY <1>2, MergedShape
      <4> HIDE DEF after
      <4> QED
        BY <3>1, <4>1
    <3> HIDE DEF after
    <3>4. ASSUME NEW a \in DOMAIN kept, NEW k \in DOMAIN kept[a].parts
          PROVE  /\ after[a].parts[k].type = kept[a].parts[k].type
                 /\ after[a].parts[k].call = kept[a].parts[k].call
      <4>1. kept[a].parts[k] \in KnownPart
        <5>1. kept[a] \in StoredMessage
          BY <1>2, <1>5
        <5>2. kept[a].parts \in Seq(KnownPart)
          BY <5>1 DEF StoredMessage
        <5> QED
          BY <5>2
      <4>2. /\ WithResult(kept[a].parts[k], messages[i]).type = kept[a].parts[k].type
            /\ WithResult(kept[a].parts[k], messages[i]).call = kept[a].parts[k].call
        BY <4>1 DEF WithResult, KnownPart
      <4> QED
        BY <3>3, <4>2
    <3>5. ASSUME NEW j \in 1..i, messages[j].role \in Stored
          PROVE  Stands(after[At(messages, j)], messages[j])
      <4>1. j \in 1..(i - 1)
        BY <1>4, <1>7, <3>5
      <4>2. At(messages, j) \in DOMAIN kept /\ Stands(kept[At(messages, j)], messages[j])
        BY <1>2, <1>5, <1>6, <3>5, <4>1
      <4> QED
        BY <3>2, <3>4, <4>2 DEF Stands, SameCalls
    <3> QED
      BY <1>2, <1>5, <2>1, <2>3, <3>1, <3>2, <3>5 DEF Holds, after
  <2> QED
    BY <1>1, <1>7, <2>2, <2>3, StepCases
<1>8. CASE messages[i].role \in Stored
  <2>1. At(messages, i) = c + 1
    BY <1>3, <1>5, <1>8
  <2>2. PICK new \in StoredMessage :
          Added(kept, messages[i]) = Append(kept, new) /\ Stands(new, messages[i])
    BY <1>1, <1>8, StepCases DEF Stored
  <2>3. PICK after : after = Append(kept, new)
    OBVIOUS
  <2>4. /\ after \in Seq(StoredMessage) /\ DOMAIN after = 1..(c + 1)
        /\ after[c + 1] = new /\ \A a \in 1..c : after[a] = kept[a]
    <3>1. Len(kept) = c
      BY <1>2, <1>5
    <3> QED
      BY <1>2, <1>5, <2>3, <3>1
  <2>5. ASSUME NEW j \in 1..i, messages[j].role \in Stored
        PROVE  Stands(after[At(messages, j)], messages[j])
    <3>1. CASE j = i
      BY <2>1, <2>2, <2>4, <3>1
    <3>2. CASE j # i
      <4>1. j \in 1..(i - 1)
        BY <1>4, <3>2
      <4>2. after[At(messages, j)] = kept[At(messages, j)]
        BY <1>6, <2>4, <2>5, <4>1
      <4> QED
        BY <1>2, <2>5, <4>1, <4>2
    <3> QED
      BY <3>1, <3>2
  <2> QED
    BY <2>1, <2>2, <2>3, <2>4, <2>5 DEF Holds
<1> QED
  BY <1>7, <1>8

(* The loop holds, after each message, the kept messages before it in order.    *)
LEMMA ChainHolds ==
    ASSUME NEW messages \in Seq(AnyMessage), NEW n \in Nat, DOMAIN messages = 1..n,
           NEW h, Chain(h, messages), NEW i \in 0..n
    PROVE  Holds(h[i], messages, i)
<1> DEFINE Bad == {k \in Nat : k <= n /\ ~Holds(h[k], messages, k)}
<1>1. Len(messages) = n
  OBVIOUS
<1>2. h[0] = <<>> /\ \A k \in 1..n : h[k] = Added(h[k - 1], messages[k])
  BY <1>1 DEF Chain
<1>3. Bad = {}
  <2> SUFFICES ASSUME Bad # {} PROVE FALSE
    OBVIOUS
  <2>1. PICK k \in Bad : \A m \in Bad : k <= m
    <3>1. Bad \in SUBSET Nat
      OBVIOUS
    <3> HIDE DEF Bad
    <3> QED
      BY <3>1, LeastNat
  <2>2. k \in Nat /\ k <= n /\ ~Holds(h[k], messages, k)
    OBVIOUS
  <2>3. k # 0
    <3>1. <<>> \in Seq(StoredMessage) /\ DOMAIN <<>> = 1..0 /\ 1..0 = {}
      OBVIOUS
    <3>2. At(messages, 0) = 0
      BY Places
    <3>3. Holds(<<>>, messages, 0)
      BY <3>1, <3>2 DEF Holds
    <3> QED
      BY <1>2, <2>2, <3>3
  <2>4. k \in 1..n /\ k - 1 \in Nat /\ k - 1 <= n /\ ~(k <= k - 1)
    BY <2>2, <2>3
  <2>5. k - 1 \notin Bad
    <3> HIDE DEF Bad
    <3> QED
      BY <2>1, <2>4
  <2>6. Holds(h[k - 1], messages, k - 1)
    BY <2>4, <2>5
  <2>7. Holds(Added(h[k - 1], messages[k]), messages, k)
    BY <2>4, <2>6, HoldsStep
  <2> QED
    BY <1>2, <2>2, <2>4, <2>7
<1> QED
  BY <1>3

(* What becomes of a history: its kept messages, in order.                      *)
LEMMA RestoredHolds ==
    ASSUME NEW messages \in Seq(AnyMessage), NEW n \in Nat, DOMAIN messages = 1..n
    PROVE  Holds(Restored(messages), messages, n)
<1>1. Len(messages) = n
  OBVIOUS
<1>2. PICK h : Chain(h, messages) /\ h[n] = Restored(messages)
  BY <1>1, RestoredChain
<1>3. n \in 0..n
  OBVIOUS
<1> QED
  BY <1>2, <1>3, ChainHolds

------------------------------------------------------------------------------
(* One message per run.                                                     *)

\* No two of the messages a thread keeps have the id of the same run.
OneEach(messages) ==
    \A i, j \in DOMAIN messages :
        /\ messages[i].role \in Stored /\ messages[j].role \in Stored
        /\ messages[i].id = messages[j].id /\ messages[i].id \in Runs
        => i = j

\* None of them has an id in ids.
Without(messages, ids) ==
    \A i \in DOMAIN messages : messages[i].role \in Stored => messages[i].id \notin ids

Shape ==
    /\ tab \in Seq(AnyMessage) /\ sent \in Seq(AnyMessage)
    /\ store = None \/ store \in Seq(StoredMessage)
    /\ open \subseteq Runs /\ ran \subseteq Runs \ open /\ agreed \in BOOLEAN

IdsInv ==
    /\ Shape
    /\ OneEach(tab) /\ Without(tab, open)
    /\ store # None => OneEach(store) /\ Without(store, open)

(* What is kept is also something a client may send.                            *)
LEMMA StoredIsAny ==
    /\ StoredMessage \subseteq AnyMessage
    /\ \A s \in Seq(StoredMessage) : s \in Seq(AnyMessage)
<1>1. ASSUME NEW m \in StoredMessage PROVE m \in AnyMessage
  <2>1. m.parts \in Seq(AnyPart)
    <3>1. PICK n \in Nat : m.parts \in [1..n -> KnownPart]
      BY DEF StoredMessage
    <3>2. KnownPart \subseteq AnyPart
      BY DEF KnownPart, AnyPart, PartType
    <3>3. m.parts \in [1..n -> AnyPart]
      BY <3>1, <3>2
    <3> QED
      BY <3>3
  <2>2. None \in Id /\ <<>> \in Seq(Id)
    BY DEF Id
  <2> QED
    BY <2>1, <2>2 DEF StoredMessage, AnyMessage, Stored
<1>2. ASSUME NEW s \in Seq(StoredMessage) PROVE s \in Seq(AnyMessage)
  <2>1. PICK n \in Nat : s \in [1..n -> StoredMessage]
    OBVIOUS
  <2>2. s \in [1..n -> AnyMessage]
    BY <1>1, <2>1
  <2> QED
    BY <2>2
<1> QED
  BY <1>1, <1>2

(* What a client sends at first is of the messages there are.                   *)
LEMMA SentIsAny ==
    \A s \in Seq(SentMessage) : s \in Seq(AnyMessage)
<1>1. Values \subseteq Id /\ None \in Id
  BY DEF Id
<1>2. SentPart \subseteq AnyPart
  BY <1>1 DEF SentPart, AnyPart, PartType
<1>3. ASSUME NEW m \in SentMessage PROVE m \in AnyMessage
  <2>1. m.parts \in Seq(AnyPart)
    <3>1. PICK n \in Nat : m.parts \in [1..n -> SentPart]
      BY DEF SentMessage
    <3>2. m.parts \in [1..n -> AnyPart]
      BY <1>2, <3>1
    <3> QED
      BY <3>2
  <2>2. m.calls \in Seq(Id)
    <3>1. PICK n \in Nat : m.calls \in [1..n -> Values]
      BY DEF SentMessage
    <3>2. m.calls \in [1..n -> Id]
      BY <1>1, <3>1
    <3> QED
      BY <3>2
  <2> QED
    BY <1>1, <2>1, <2>2 DEF SentMessage, AnyMessage
<1>4. ASSUME NEW s \in Seq(SentMessage) PROVE s \in Seq(AnyMessage)
  <2>1. PICK n \in Nat : s \in [1..n -> SentMessage]
    OBVIOUS
  <2>2. s \in [1..n -> AnyMessage]
    BY <1>3, <2>1
  <2> QED
    BY <2>2
<1> QED
  BY <1>4

(* The ids of the program's own are ids.                                        *)
LEMMA OwnIds ==
    ASSUME NEW r \in Runs
    PROVE  /\ r \in Id /\ <<r>> \in Id /\ <<"user", r>> \in Id /\ None \in Id /\ "planned" \in Id
           /\ \A i \in 1..MaxSteps : CallId(r, i) \in Id /\ CallId(<<r>>, i) \in Id
<1>1. r \in Id /\ <<r>> \in Id /\ <<"user", r>> \in Id /\ None \in Id /\ "planned" \in Id
  BY DEF Id
<1>2. \A i \in 1..MaxSteps : <<r, i>> \in Id /\ <<<<r>>, i>> \in Id
  BY DEF Id
<1> QED
  BY <1>1, <1>2 DEF CallId

(* The answer of a run, and of a plan asked for directly, is fit to be kept.    *)
LEMMA AnswerType ==
    ASSUME NEW q, NEW p \in Plan, q \in Id,
           \A i \in 1..MaxSteps : CallId(q, i) \in Id
    PROVE  /\ Texts(p) \in Seq(KnownPart) /\ PlannedCalls(q, p) \in Seq(KnownPart)
           /\ Texts(p) \o PlannedCalls(q, p) \in Seq(KnownPart)
           /\ Answer(q, p) \in StoredMessage
           /\ Answer(q, p).id = q /\ Answer(q, p).role = "assistant"
<1>1. p.steps \in Nat /\ p.steps \in 0..MaxSteps /\ MaxSteps \in Nat
  BY MessagesAssumption DEF Plan
<1>2. Texts(p) \in Seq(KnownPart)
  <2>1. Text \in KnownPart
    BY DEF Text, Part, KnownPart, Known, Id
  <2> QED
    BY <2>1 DEF Texts
<1>3. PlannedCalls(q, p) \in Seq(KnownPart)
  <2>1. \A i \in 1..p.steps : Part("tool-call", CallId(q, i), "planned", FALSE) \in KnownPart
    <3> TAKE i \in 1..p.steps
    <3>1. CallId(q, i) \in Id
      BY <1>1
    <3>2. "planned" \in Id /\ "tool-call" \in Known
      BY DEF Id, Known
    <3> QED
      BY <3>1, <3>2 DEF Part, KnownPart
  <2> DEFINE part(i) == Part("tool-call", CallId(q, i), "planned", FALSE)
  <2>2. \A i \in 1..p.steps : part(i) \in KnownPart
    BY <2>1
  <2>3. PlannedCalls(q, p) = [i \in 1..p.steps |-> part(i)]
    BY DEF PlannedCalls
  <2> HIDE DEF part
  <2> QED
    BY <1>1, <2>2, <2>3
<1>4. Texts(p) \o PlannedCalls(q, p) \in Seq(KnownPart)
  BY <1>2, <1>3
<1>5. PICK parts : parts = Texts(p) \o PlannedCalls(q, p)
  OBVIOUS
<1>6. Answer(q, p) = Message("assistant", q, parts, <<>>)
  BY <1>5 DEF Answer
<1> QED
  BY <1>2, <1>3, <1>4, <1>5, <1>6 DEF Message, StoredMessage, Stored

(* A run's answer, or none.                                                     *)
LEMMA AssistantType ==
    ASSUME NEW q, NEW p \in Plan, q \in Id,
           \A i \in 1..MaxSteps : CallId(q, i) \in Id
    PROVE  \/ Assistant(q, p) = None
           \/ Assistant(q, p) \in StoredMessage /\ Assistant(q, p).id = q
  BY AnswerType DEF Assistant

(* A history keeps its ids: one message of each run if it had one of each.      *)
LEMMA RestoredIds ==
    ASSUME NEW messages \in Seq(AnyMessage)
    PROVE  /\ Restored(messages) \in Seq(StoredMessage)
           /\ OneEach(messages) => OneEach(Restored(messages))
           /\ \A ids : Without(messages, ids) => Without(Restored(messages), ids)
<1>1. PICK n \in Nat : DOMAIN messages = 1..n
  OBVIOUS
<1>2. PICK kept : kept = Restored(messages)
  OBVIOUS
<1>3. /\ kept \in Seq(StoredMessage) /\ DOMAIN kept = 1..At(messages, n)
      /\ \A j \in 1..n : messages[j].role \in Stored => Stands(kept[At(messages, j)], messages[j])
  BY <1>1, <1>2, RestoredHolds DEF Holds
<1>4. ASSUME NEW a \in DOMAIN kept
      PROVE  \E j \in 1..n : messages[j].role \in Stored /\ At(messages, j) = a
  <2>1. n \in 0..n
    OBVIOUS
  <2> QED
    BY <1>1, <1>3, <2>1, ComesFrom
<1>5. \A a \in DOMAIN kept : \E j \in DOMAIN messages :
        messages[j].role \in Stored /\ At(messages, j) = a /\ kept[a].id = messages[j].id
  BY <1>1, <1>3, <1>4 DEF Stands
<1>6. OneEach(messages) => OneEach(kept)
  BY <1>5 DEF OneEach
<1>7. \A ids : Without(messages, ids) => Without(kept, ids)
  BY <1>5 DEF Without
<1> QED
  BY <1>2, <1>3, <1>6, <1>7

(* The new message takes the place of those with its id.                        *)
LEMMA WithAssistantIds ==
    ASSUME NEW ms \in Seq(StoredMessage), NEW m, m = None \/ m \in StoredMessage
    PROVE  /\ WithAssistant(ms, m) \in Seq(StoredMessage)
           /\ OneEach(ms) => OneEach(WithAssistant(ms, m))
           /\ \A ids : Without(ms, ids) /\ (m # None => m.id \notin ids) =>
                Without(WithAssistant(ms, m), ids)
<1>1. CASE m = None
  BY <1>1 DEF WithAssistant
<1>2. CASE m # None
  <2>1. PICK n \in Nat : DOMAIN ms = 1..n
    OBVIOUS
  <2> DEFINE K == {i \in DOMAIN ms : ms[i].id # m.id}
  <2>2. K \in SUBSET (1..n) /\ \A i \in K : i \in DOMAIN ms /\ ms[i].id # m.id
    BY <2>1
  <2>3. WithAssistant(ms, m) = Append(Keep(ms, K), m)
    BY <1>2 DEF WithAssistant
  <2> HIDE DEF K
  <2>4. PICK kept : kept = Keep(ms, K)
    OBVIOUS
  <2>5. PICK c \in Nat : /\ c = Cardinality(K) /\ DOMAIN kept = 1..c
                         /\ \A k \in 1..c : \E i \in K : Rank(K, i) = k /\ kept[k] = ms[i]
    BY <2>2, <2>4, KeepAt
  <2>6. kept \in Seq(StoredMessage)
    BY <2>1, <2>2, <2>4, KeepShape
  <2>7. PICK all : all = Append(kept, m)
    OBVIOUS
  <2>8. /\ all \in Seq(StoredMessage) /\ DOMAIN all = 1..(c + 1)
        /\ all[c + 1] = m /\ \A k \in 1..c : all[k] = kept[k]
    <3>1. Len(kept) = c
      BY <2>5, <2>6
    <3> QED
      BY <1>2, <2>5, <2>6, <2>7, <3>1
  <2>9. \A k \in 1..(c + 1) : k = c + 1 \/ k \in 1..c
    OBVIOUS
  <2>10. ASSUME OneEach(ms) PROVE OneEach(all)
    <3> SUFFICES ASSUME NEW k \in DOMAIN all, NEW l \in DOMAIN all,
                        all[k].role \in Stored, all[l].role \in Stored,
                        all[k].id = all[l].id, all[k].id \in Runs
                 PROVE  k = l
      BY DEF OneEach
    <3>1. \A a \in 1..c : all[a].id # m.id
      BY <2>2, <2>5, <2>8
    <3>2. CASE k = c + 1 \/ l = c + 1
      BY <2>8, <2>9, <3>1, <3>2
    <3>3. CASE k \in 1..c /\ l \in 1..c
      <4>1. PICK i \in K : Rank(K, i) = k /\ all[k] = ms[i]
        BY <2>5, <2>8, <3>3
      <4>2. PICK j \in K : Rank(K, j) = l /\ all[l] = ms[j]
        BY <2>5, <2>8, <3>3
      <4>3. i = j
        BY <2>2, <2>10, <4>1, <4>2 DEF OneEach
      <4> QED
        BY <4>1, <4>2, <4>3
    <3> QED
      BY <2>8, <2>9, <3>2, <3>3
  <2>11. ASSUME NEW ids, Without(ms, ids), m.id \notin ids PROVE Without(all, ids)
    BY <2>2, <2>5, <2>8, <2>9, <2>11 DEF Without
  <2> QED
    BY <1>2, <2>3, <2>4, <2>7, <2>8, <2>10, <2>11
<1> QED
  BY <1>1, <1>2

(* The turn a tab builds from the stream: the run's message, and results.       *)
LEMMA TurnType ==
    ASSUME NEW r \in Runs, NEW p \in Plan, NEW turn \in LiveTurn(r, p)
    PROVE  /\ turn \in Seq(AnyMessage) /\ 1 \in DOMAIN turn
           /\ turn[1].id = r /\ turn[1].role = "assistant"
           /\ \A i \in DOMAIN turn : i # 1 => turn[i].role = "tool"
<1>1. r \in Id /\ None \in Id /\ "planned" \in Id /\ \A i \in 1..MaxSteps : CallId(r, i) \in Id
  BY OwnIds
<1>2. PICK n \in Nat : n = p.steps /\ n \in 0..MaxSteps /\ MaxSteps \in Nat
  BY MessagesAssumption DEF Plan
<1>3. CASE turn = <<Answer(r, p)>>
  <2>1. Answer(r, p) \in AnyMessage /\ Answer(r, p).id = r /\ Answer(r, p).role = "assistant"
    BY <1>1, AnswerType, StoredIsAny
  <2> QED
    BY <1>3, <2>1
<1>4. CASE turn # <<Answer(r, p)>>
  <2> DEFINE calls == [i \in 1..n |-> CallId(r, i)]
  <2> DEFINE result(i) == ToolMessage(CallId(r, i), "planned", FALSE)
  <2>1. turn = <<Message("assistant", r, Texts(p), calls)>> \o [i \in 1..n |-> result(i)]
    BY <1>2, <1>4 DEF LiveTurn
  <2>2. calls \in Seq(Id)
    <3>1. \A i \in 1..n : CallId(r, i) \in Id
      BY <1>1, <1>2
    <3> QED
      BY <3>1
  <2> HIDE DEF calls
  <2>3. Texts(p) \in Seq(AnyPart)
    <3>1. Text \in AnyPart
      BY <1>1 DEF Text, Part, AnyPart, PartType, Known
    <3> QED
      BY <3>1 DEF Texts
  <2>4. PICK first : first = Message("assistant", r, Texts(p), calls)
    OBVIOUS
  <2>5. first \in AnyMessage /\ first.id = r /\ first.role = "assistant"
    BY <1>1, <2>2, <2>3, <2>4 DEF Message, AnyMessage, Stored
  <2>6. \A i \in 1..n : result(i) \in AnyMessage /\ result(i).role = "tool"
    <3> TAKE i \in 1..n
    <3>1. CallId(r, i) \in Id
      BY <1>1, <1>2
    <3>2. <<>> \in Seq(AnyPart) /\ <<>> \in Seq(Id)
      OBVIOUS
    <3> QED
      BY <1>1, <3>1, <3>2 DEF ToolMessage, Message, AnyMessage, Stored
  <2> HIDE DEF result
  <2>7. PICK rest : rest = [i \in 1..n |-> result(i)]
    OBVIOUS
  <2>8. /\ rest \in Seq(AnyMessage) /\ Len(rest) = n /\ DOMAIN rest = 1..n
        /\ \A i \in 1..n : rest[i].role = "tool"
    BY <2>6, <2>7
  <2>9. turn = <<first>> \o rest
    BY <2>1, <2>4, <2>7
  <2>10. /\ turn \in Seq(AnyMessage) /\ DOMAIN turn = 1..(n + 1) /\ turn[1] = first
         /\ \A i \in 1..(n + 1) : i # 1 => turn[i] = rest[i - 1] /\ i - 1 \in 1..n
    BY <1>2, <2>5, <2>8, <2>9
  <2> QED
    BY <1>2, <2>5, <2>8, <2>10
<1> QED
  BY <1>3, <1>4

\* What a run is sent with: the messages of the tab and the user's new one.
Asked(r) == Append(tab, Message("user", <<"user", r>>, <<>>, <<>>))

(* The new message of the user has an id of its own.                            *)
LEMMA AskedIds ==
    ASSUME IdsInv, NEW r \in open
    PROVE  /\ r \in Runs /\ Asked(r) \in Seq(AnyMessage)
           /\ OneEach(Asked(r)) /\ Without(Asked(r), open)
<1>1. r \in Runs /\ open \subseteq Runs /\ tab \in Seq(AnyMessage)
  BY DEF IdsInv, Shape
<1>2. PICK m : m = Message("user", <<"user", r>>, <<>>, <<>>)
  OBVIOUS
<1>3. m \in AnyMessage /\ m.id = <<"user", r>>
  <2>1. <<"user", r>> \in Id /\ None \in Id
    BY <1>1, OwnIds
  <2>2. <<>> \in Seq(AnyPart) /\ <<>> \in Seq(Id)
    OBVIOUS
  <2> QED
    BY <1>2, <2>1, <2>2 DEF Message, AnyMessage, Stored
<1>4. m.id \notin Runs
  BY <1>1, <1>3, MessagesAssumption
<1>5. PICK n \in Nat : Len(tab) = n /\ DOMAIN tab = 1..n
  BY <1>1
<1>6. PICK all : all = Append(tab, m)
  OBVIOUS
<1>7. /\ all \in Seq(AnyMessage) /\ DOMAIN all = 1..(n + 1) /\ all[n + 1] = m
      /\ \A i \in 1..(n + 1) : i = n + 1 \/ (i \in 1..n /\ all[i] = tab[i])
  BY <1>1, <1>3, <1>5, <1>6
<1>8. OneEach(tab) /\ Without(tab, open)
  BY DEF IdsInv
<1>9. OneEach(all)
  BY <1>4, <1>5, <1>7, <1>8 DEF OneEach
<1>10. Without(all, open)
  BY <1>1, <1>4, <1>5, <1>7, <1>8 DEF Without
<1> QED
  BY <1>1, <1>2, <1>6, <1>7, <1>9, <1>10 DEF Asked

(* A concatenation, position by position.                                       *)
LEMMA Joined ==
    ASSUME NEW S, NEW s \in Seq(S), NEW t \in Seq(S), NEW n \in Nat, NEW k \in Nat,
           DOMAIN s = 1..n, DOMAIN t = 1..k
    PROVE  /\ s \o t \in Seq(S) /\ Len(s \o t) = n + k /\ DOMAIN (s \o t) = 1..(n + k)
           /\ \A i \in 1..n : (s \o t)[i] = s[i]
<1>1. Len(s) = n /\ Len(t) = k
  OBVIOUS
<1>2. s \o t \in Seq(S) /\ Len(s \o t) = n + k
  BY <1>1
<1>3. DOMAIN (s \o t) = 1..(n + k)
  BY <1>2
<1>4. \A i \in 1..n : (s \o t)[i] = s[i]
  BY <1>1
<1> QED
  BY <1>2, <1>3, <1>4

(* The positions after the first part.                                          *)
LEMMA JoinedRest ==
    ASSUME NEW S, NEW s \in Seq(S), NEW t \in Seq(S), NEW n \in Nat, NEW k \in Nat,
           DOMAIN s = 1..n, DOMAIN t = 1..k, NEW i \in 1..k
    PROVE  n + i \in 1..(n + k) /\ (s \o t)[n + i] = t[i]
<1>1. Len(s) = n /\ Len(t) = k
  OBVIOUS
<1>2. n + i \in 1..(n + k) /\ n < n + i /\ (n + i) - n = i
  OBVIOUS
<1> QED
  BY <1>1, <1>2

(* A turn brings one message with its run's id.                                 *)
LEMMA TurnIds ==
    ASSUME NEW history \in Seq(AnyMessage), NEW turn \in Seq(AnyMessage), NEW r \in open,
           1 \in DOMAIN turn, turn[1].id = r,
           \A i \in DOMAIN turn : i # 1 => turn[i].role = "tool",
           OneEach(history), Without(history, open)
    PROVE  OneEach(history \o turn) /\ Without(history \o turn, open \ {r})
<1>1. PICK n \in Nat, k \in Nat : /\ Len(history) = n /\ DOMAIN history = 1..n
                                  /\ Len(turn) = k /\ DOMAIN turn = 1..k
  OBVIOUS
<1>2. PICK all : all = history \o turn
  OBVIOUS
<1>3. /\ DOMAIN all = 1..(n + k) /\ \A i \in 1..n : all[i] = history[i]
      /\ \A i \in 1..k : all[n + i] = turn[i]
  <2>1. DOMAIN (history \o turn) = 1..(n + k)
    BY <1>1, Joined
  <2>2. \A i \in 1..n : (history \o turn)[i] = history[i]
    BY <1>1, Joined
  <2>3. \A i \in 1..k : (history \o turn)[n + i] = turn[i]
    BY <1>1, JoinedRest
  <2> QED
    BY <1>2, <2>1, <2>2, <2>3
<1>4. /\ 1 \in 1..k
      /\ \A i \in 1..(n + k) :
           i \notin 1..n => i - n \in 1..k /\ n + (i - n) = i /\ (i - n = 1 <=> i = n + 1)
  BY <1>1
<1>5. \A i \in 1..(n + k) :
        all[i].role \in Stored =>
          \/ i \in 1..n /\ all[i] = history[i] /\ history[i].id \notin open
          \/ i = n + 1 /\ all[i].id = r
  <2> TAKE i \in 1..(n + k)
  <2> HAVE all[i].role \in Stored
  <2>1. CASE i \in 1..n
    BY <1>1, <1>3, <2>1 DEF Without
  <2>2. CASE i \notin 1..n
    <3>1. i - n = 1
      BY <1>1, <1>3, <1>4, <2>2 DEF Stored
    <3> QED
      BY <1>3, <1>4, <2>2, <3>1
  <2> QED
    BY <2>1, <2>2
<1>6. OneEach(all)
  BY <1>1, <1>3, <1>5 DEF OneEach
<1>7. Without(all, open \ {r})
  BY <1>1, <1>3, <1>5 DEF Without
<1> QED
  BY <1>2, <1>6, <1>7

(* What is stored for a history has one message per run.                        *)
LEMMA RestorableIds ==
    ASSUME NEW messages \in Seq(AnyMessage), OneEach(messages),
           NEW m, m = None \/ m \in StoredMessage
    PROVE  /\ Restorable(messages, m) \in Seq(StoredMessage)
           /\ OneEach(Restorable(messages, m))
           /\ \A ids : Without(messages, ids) /\ (m # None => m.id \notin ids) =>
                Without(Restorable(messages, m), ids)
<1>1. /\ Restored(messages) \in Seq(StoredMessage) /\ OneEach(Restored(messages))
      /\ \A ids : Without(messages, ids) => Without(Restored(messages), ids)
  BY RestoredIds
<1>2. PICK ms \in Seq(StoredMessage) : ms = Restored(messages)
  BY <1>1
<1> QED
  BY <1>1, <1>2, WithAssistantIds DEF Restorable

(* Fewer ids are avoided the more.                                              *)
LEMMA WithoutFewer ==
    ASSUME NEW messages, NEW ids, NEW fewer \in SUBSET ids, Without(messages, ids)
    PROVE  Without(messages, fewer)
  BY DEF Without

(* At first no message has the id of a run.                                     *)
LEMMA IdsInit == Init => IdsInv
<1> SUFFICES ASSUME Init PROVE IdsInv
  OBVIOUS
<1> USE DEF Init
<1>1. tab \in Seq(AnyMessage) /\ tab \in Seq(SentMessage)
  BY MessagesAssumption, SentIsAny
<1>2. \A i \in DOMAIN tab : tab[i].id \notin Runs
  <2>1. \A i \in DOMAIN tab : tab[i] \in SentMessage
    BY <1>1
  <2> QED
    BY <2>1, MessagesAssumption DEF SentMessage
<1>3. Shape
  <2>1. sent \in Seq(AnyMessage) /\ open \subseteq Runs /\ ran \subseteq Runs \ open
    OBVIOUS
  <2>2. agreed \in BOOLEAN
    BY Zenon
  <2> QED
    BY <1>1, <2>1, <2>2, Zenon DEF Shape
<1> QED
  BY <1>2, <1>3 DEF IdsInv, OneEach, Without

(* A run that starts brings its own id and no other.                            *)
LEMMA RunKeepsIds ==
    ASSUME IdsInv, NEW r \in Runs, Run(r)
    PROVE  IdsInv'
<1>1. r \in open /\ open' = open \ {r} /\ ran' = ran \cup {r}
  BY DEF Run
<1>2. /\ Asked(r) \in Seq(AnyMessage) /\ OneEach(Asked(r)) /\ Without(Asked(r), open)
      /\ Shape
  BY <1>1, AskedIds DEF IdsInv
<1>3. PICK p \in Plans :
        /\ store' = Restorable(Asked(r), Assistant(r, p)) /\ sent' = Asked(r)
        /\ \/ tab' = Asked(r) /\ agreed' = FALSE
           \/ \E turn \in LiveTurn(r, p) : tab' = Asked(r) \o turn /\ agreed' = TRUE
  BY DEF Run, Asked
<1>4. p \in Plan
  BY MessagesAssumption
<1>5. PICK history \in Seq(AnyMessage) : history = Asked(r)
  BY <1>2
<1>6. open \ {r} \in SUBSET open
  OBVIOUS
<1>7. Without(history, open \ {r})
  BY <1>2, <1>5, <1>6, WithoutFewer
<1>8. tab' \in Seq(AnyMessage) /\ OneEach(tab') /\ Without(tab', open \ {r}) /\ agreed' \in BOOLEAN
  <2>1. CASE tab' = Asked(r) /\ agreed' = FALSE
    BY <1>2, <1>5, <1>7, <2>1
  <2>2. CASE \E turn \in LiveTurn(r, p) : tab' = Asked(r) \o turn /\ agreed' = TRUE
    <3>1. PICK turn \in LiveTurn(r, p) : tab' = history \o turn /\ agreed' = TRUE
      BY <1>5, <2>2
    <3>2. /\ turn \in Seq(AnyMessage) /\ 1 \in DOMAIN turn /\ turn[1].id = r
          /\ \A i \in DOMAIN turn : i # 1 => turn[i].role = "tool"
      BY <1>4, TurnType
    <3>3. OneEach(history \o turn) /\ Without(history \o turn, open \ {r})
      BY <1>1, <1>2, <1>5, <3>2, TurnIds
    <3> QED
      BY <3>1, <3>2, <3>3
  <2> QED
    BY <1>3, <2>1, <2>2
<1>9. store' \in Seq(StoredMessage) /\ OneEach(store') /\ Without(store', open \ {r})
  <2>1. PICK m : m = Assistant(r, p)
    OBVIOUS
  <2>2. m = None \/ (m \in StoredMessage /\ m.id = r)
    BY <1>4, <2>1, OwnIds, AssistantType
  <2>3. OneEach(history)
    BY <1>2, <1>5
  <2>4. store' = Restorable(history, m)
    BY <1>3, <1>5, <2>1
  <2>5. m # None => m.id \notin open \ {r}
    BY <2>2
  <2>6. m = None \/ m \in StoredMessage
    BY <2>2
  <2> QED
    BY <1>7, <2>3, <2>4, <2>5, <2>6, RestorableIds
<1>10. OneEach(tab)' /\ Without(tab, open)' /\ OneEach(store)' /\ Without(store, open)'
  BY <1>1, <1>8, <1>9 DEF OneEach, Without
<1>11. Shape'
  BY <1>1, <1>2, <1>3, <1>5, <1>8, <1>9 DEF Shape
<1> QED
  BY <1>10, <1>11 DEF IdsInv

(* A repeated run replaces the message it left.                                 *)
LEMMA RepeatKeepsIds ==
    ASSUME IdsInv, NEW r \in Runs, Repeat(r)
    PROVE  IdsInv'
<1>1. /\ r \in ran /\ sent' = tab /\ agreed' = FALSE /\ ran' = ran \ {r}
      /\ tab' = tab /\ open' = open
  BY DEF Repeat
<1>2. PICK p \in Plans : store' = Restorable(tab, Assistant(r, p))
  BY DEF Repeat
<1>3. Shape /\ tab \in Seq(AnyMessage) /\ OneEach(tab) /\ Without(tab, open) /\ r \notin open
  BY <1>1 DEF IdsInv, Shape
<1>4. PICK m : m = Assistant(r, p)
  OBVIOUS
<1>5. m = None \/ (m \in StoredMessage /\ m.id = r)
  <2>1. p \in Plan
    BY MessagesAssumption
  <2> QED
    BY <1>4, <2>1, OwnIds, AssistantType
<1>6. m = None \/ m \in StoredMessage
  BY <1>5
<1>7. store' \in Seq(StoredMessage) /\ OneEach(store') /\ Without(store', open)
  BY <1>2, <1>3, <1>4, <1>5, <1>6, RestorableIds
<1>8. OneEach(tab)' /\ Without(tab, open)' /\ OneEach(store)' /\ Without(store, open)'
  BY <1>1, <1>3, <1>7 DEF OneEach, Without
<1>9. Shape'
  BY <1>1, <1>3, <1>7 DEF Shape
<1> QED
  BY <1>8, <1>9 DEF IdsInv

(* A plan asked for directly stores a message with an id of its own.            *)
LEMMA PlanDirectlyKeepsIds ==
    ASSUME IdsInv, NEW r \in Runs, PlanDirectly(r)
    PROVE  IdsInv'
<1> DEFINE history == IF store = None THEN <<>> ELSE store
<1>1. r \in open /\ agreed' = FALSE /\ open' = open \ {r} /\ tab' = tab /\ ran' = ran
  BY DEF PlanDirectly
<1>2. PICK p \in Plans :
        /\ store' = Restorable(history, Assistant(<<r>>, [p EXCEPT !.text = FALSE]))
        /\ sent' = history
  BY DEF PlanDirectly
<1>3. Shape /\ OneEach(tab) /\ Without(tab, open)
  BY DEF IdsInv
<1>4. history \in Seq(AnyMessage) /\ OneEach(history) /\ Without(history, open)
  <2>1. CASE store = None
    <3>1. <<>> \in Seq(AnyMessage) /\ DOMAIN <<>> = {}
      OBVIOUS
    <3> QED
      BY <2>1, <3>1 DEF OneEach, Without
  <2>2. CASE store # None
    <3>1. store \in Seq(StoredMessage) /\ OneEach(store) /\ Without(store, open)
      BY <2>2 DEF IdsInv, Shape
    <3> QED
      BY <2>2, <3>1, StoredIsAny
  <2> QED
    BY <2>1, <2>2
<1> HIDE DEF history
<1>5. PICK m : m = Assistant(<<r>>, [p EXCEPT !.text = FALSE])
  OBVIOUS
<1>6. m = None \/ (m \in StoredMessage /\ m.id = <<r>>)
  <2>1. p \in Plan
    BY MessagesAssumption
  <2>2. PICK q \in Plan : q = [p EXCEPT !.text = FALSE]
    BY <2>1 DEF Plan
  <2>3. <<r>> \in Id /\ \A i \in 1..MaxSteps : CallId(<<r>>, i) \in Id
    BY OwnIds
  <2>4. m = Assistant(<<r>>, q)
    BY <1>5, <2>2
  <2> QED
    BY <2>3, <2>4, AssistantType
<1>7. /\ m = None \/ m \in StoredMessage
      /\ m # None => m.id \notin open \ {r}
  <2>1. <<r>> \notin Runs /\ open \subseteq Runs
    BY <1>3, MessagesAssumption DEF Shape
  <2> QED
    BY <1>6, <2>1
<1>8. Without(history, open \ {r}) /\ Without(tab, open \ {r})
  <2>1. open \ {r} \in SUBSET open
    OBVIOUS
  <2> QED
    BY <1>3, <1>4, <2>1, WithoutFewer
<1>9. store' \in Seq(StoredMessage) /\ OneEach(store') /\ Without(store', open \ {r})
  BY <1>2, <1>4, <1>5, <1>7, <1>8, RestorableIds
<1>10. OneEach(tab)' /\ Without(tab, open)' /\ OneEach(store)' /\ Without(store, open)'
  BY <1>1, <1>3, <1>8, <1>9 DEF OneEach, Without
<1>11. Shape'
  BY <1>1, <1>2, <1>3, <1>4, <1>9 DEF Shape
<1> QED
  BY <1>10, <1>11 DEF IdsInv

(* A reloaded tab has the ids of the store.                                     *)
LEMMA ReloadKeepsIds ==
    ASSUME IdsInv, Reload
    PROVE  IdsInv'
<1>1. /\ store # None /\ tab' = store /\ agreed' = TRUE
      /\ store' = store /\ open' = open /\ ran' = ran /\ sent' = sent
  BY DEF Reload
<1>2. Shape /\ store \in Seq(StoredMessage) /\ OneEach(store) /\ Without(store, open)
  BY <1>1 DEF IdsInv, Shape
<1>3. OneEach(tab)' /\ Without(tab, open)' /\ OneEach(store)' /\ Without(store, open)'
  BY <1>1, <1>2 DEF OneEach, Without
<1>4. Shape'
  BY <1>1, <1>2, StoredIsAny DEF Shape
<1> QED
  BY <1>3, <1>4 DEF IdsInv

(* A tab that goes back has some of the ids it had.                             *)
LEMMA GoBackKeepsIds ==
    ASSUME IdsInv, GoBack
    PROVE  IdsInv'
<1>1. /\ agreed' = FALSE
      /\ store' = store /\ open' = open /\ ran' = ran /\ sent' = sent
  BY DEF GoBack
<1>2. Shape /\ tab \in Seq(AnyMessage) /\ OneEach(tab) /\ Without(tab, open)
      /\ (store # None => OneEach(store) /\ Without(store, open))
  BY DEF IdsInv, Shape
<1>3. PICK k \in 0..(Len(tab) - 1) : tab' = SubSeq(tab, 1, k)
  BY DEF GoBack
<1>4. PICK n \in Nat : Len(tab) = n /\ DOMAIN tab = 1..n
  BY <1>2
<1>5. k \in Nat /\ k <= n /\ \A i \in 1..k : i \in 1..n
  BY <1>3, <1>4
<1>6. tab' \in Seq(AnyMessage) /\ DOMAIN tab' = 1..k /\ \A i \in 1..k : tab'[i] = tab[i]
  BY <1>2, <1>3, <1>4, <1>5
<1>7. OneEach(tab') /\ Without(tab', open)
  BY <1>2, <1>4, <1>5, <1>6 DEF OneEach, Without
<1>8. OneEach(tab)' /\ Without(tab, open)' /\ (store # None => OneEach(store) /\ Without(store, open))'
  BY <1>1, <1>2, <1>7 DEF OneEach, Without
<1>9. Shape'
  BY <1>1, <1>2, <1>6 DEF Shape
<1> QED
  BY <1>8, <1>9 DEF IdsInv

(* Every step keeps the ids apart.                                              *)
LEMMA IdsStep == IdsInv /\ [Next]_vars => IdsInv'
<1> SUFFICES ASSUME IdsInv, [Next]_vars PROVE IdsInv'
  OBVIOUS
<1>1. ASSUME NEW r \in Runs, Run(r) PROVE IdsInv'
  BY <1>1, RunKeepsIds
<1>2. ASSUME NEW r \in Runs, Repeat(r) PROVE IdsInv'
  BY <1>2, RepeatKeepsIds
<1>3. ASSUME NEW r \in Runs, PlanDirectly(r) PROVE IdsInv'
  BY <1>3, PlanDirectlyKeepsIds
<1>4. ASSUME Reload PROVE IdsInv'
  BY <1>4, ReloadKeepsIds
<1>5. ASSUME GoBack PROVE IdsInv'
  BY <1>5, GoBackKeepsIds
<1>6. ASSUME UNCHANGED vars PROVE IdsInv'
  BY <1>6 DEF vars, IdsInv, Shape, OneEach, Without
<1> QED
  BY <1>1, <1>2, <1>3, <1>4, <1>5, <1>6 DEF Next, Done

(* A run has one message in its thread, whatever history it is sent with and    *)
(* however often it is sent: what the client sends has at most one message of   *)
(* each run, none of a run still to start, and the new one replaces the old.    *)
THEOREM OneMessageEach == Spec => []OneMessagePerRun
<1>1. IdsInv => OneMessagePerRun
  <2> SUFFICES ASSUME IdsInv PROVE OneMessagePerRun
    OBVIOUS
  <2>1. Shape
    BY DEF IdsInv
  <2>2. store # None => \A i \in DOMAIN store : store[i].role \in Stored /\ store[i].calls = <<>>
    <3> SUFFICES ASSUME store # None, NEW i \in DOMAIN store
                 PROVE  store[i].role \in Stored /\ store[i].calls = <<>>
      OBVIOUS
    <3>1. store[i] \in StoredMessage
      BY <2>1 DEF Shape
    <3> QED
      BY <3>1 DEF StoredMessage
  <2>3. \A i \in DOMAIN tab : tab[i].role \in Stored \cup {"tool", "other"}
    <3> TAKE i \in DOMAIN tab
    <3>1. tab[i] \in AnyMessage
      BY <2>1 DEF Shape
    <3> QED
      BY <3>1 DEF AnyMessage
  <2>4. TypeOK
    BY <2>1, <2>2, <2>3 DEF TypeOK, Shape
  <2> QED
    BY <2>2, <2>4 DEF OneMessagePerRun, IdsInv, OneEach
<1> QED
  BY <1>1, IdsInit, IdsStep, PTL DEF Spec

------------------------------------------------------------------------------
(* What a reload shows.                                                     *)

(* A stored message goes through the loop as it is.                             *)
LEMMA AddedSame ==
    ASSUME NEW m \in StoredMessage, NEW kept
    PROVE  Added(kept, m) = Append(kept, m)
<1>1. CASE m.role = "assistant"
  BY <1>1, NormalizedSame DEF Added, Stored
<1>2. CASE m.role # "assistant"
  <2>1. m.role \in {"system", "user"} /\ m.parts = <<>>
    BY <1>2 DEF StoredMessage, Stored
  <2>2. Message(m.role, m.id, <<>>, <<>>) = m
    BY <2>1 DEF Message, StoredMessage
  <2>3. Added(kept, m) = Append(kept, Message(m.role, m.id, <<>>, <<>>))
    BY <2>1 DEF Added, Stored
  <2> QED
    BY <2>2, <2>3
<1> QED
  BY <1>1, <1>2

(* What a thread keeps is what it would make of it again.                       *)
LEMMA StoredStays ==
    ASSUME NEW s \in Seq(StoredMessage)
    PROVE  Restored(s) = s
<1>1. PICK n \in Nat : /\ Len(s) = n /\ DOMAIN s = 1..n /\ s = [j \in 1..n |-> s[j]]
                      /\ \A j \in 1..n : s[j] \in StoredMessage
  OBVIOUS
<1> DEFINE upTo(i) == [j \in 1..i |-> s[j]]
<1> DEFINE h == [i \in 0..n |-> upTo(i)]
<1>2. h[0] = <<>>
  OBVIOUS
<1>3. ASSUME NEW i \in 1..n PROVE h[i] = Added(h[i - 1], s[i])
  <2>1. i - 1 \in 0..n /\ i \in 0..n /\ i \in Nat /\ i - 1 \in Nat /\ (i - 1) + 1 = i
    OBVIOUS
  <2>2. h[i] = upTo(i) /\ h[i - 1] = upTo(i - 1)
    BY <2>1
  <2>3. \A j \in 1..i : j \in 1..n
    OBVIOUS
  <2>4. PICK k \in Nat : k = i - 1 /\ i = k + 1
    BY <2>1
  <2>5. Append(upTo(i - 1), s[i]) = upTo(i)
    <3>1. PICK f : f = [j \in 1..k |-> s[j]]
      OBVIOUS
    <3>2. \A j \in 1..k : s[j] \in StoredMessage
      BY <1>1, <2>3, <2>4
    <3>3. f \in Seq(StoredMessage) /\ Len(f) = k /\ DOMAIN f = 1..k /\ \A j \in 1..k : f[j] = s[j]
      BY <3>1, <3>2
    <3>4. s[k + 1] \in StoredMessage
      BY <1>1, <2>4
    <3>5. Append(f, s[k + 1]) = [j \in 1..(k + 1) |-> s[j]]
      BY <3>3, <3>4
    <3> QED
      BY <2>4, <3>1, <3>5
  <2>6. s[i] \in StoredMessage
    BY <1>1
  <2> HIDE DEF h, upTo
  <2> QED
    BY <2>2, <2>5, <2>6, AddedSame
<1>4. h[n] = upTo(n) /\ upTo(n) = s
  BY <1>1
<1> HIDE DEF h, upTo
<1>5. Chain(h, s)
  BY <1>1, <1>2, <1>3 DEF Chain
<1> QED
  BY <1>1, <1>4, <1>5, ChainEnds

(* What a stored message is made of.                                            *)
LEMMA StoredForm ==
    ASSUME NEW m \in StoredMessage
    PROVE  m = Message(m.role, m.id, m.parts, <<>>) /\ m.parts \in Seq(KnownPart)
  BY DEF Message, StoredMessage

(* Messages with the same ids, roles and parts are the same messages.           *)
LEMMA SameMessages ==
    ASSUME NEW s \in Seq(StoredMessage), NEW t \in Seq(StoredMessage), DOMAIN s = DOMAIN t,
           \A a \in DOMAIN s : s[a].id = t[a].id /\ s[a].role = t[a].role /\ s[a].parts = t[a].parts
    PROVE  s = t
<1>1. PICK n \in Nat : DOMAIN s = 1..n /\ s = [j \in 1..n |-> s[j]] /\ t = [j \in 1..n |-> t[j]]
  OBVIOUS
<1>2. ASSUME NEW a \in 1..n PROVE s[a] = t[a]
  <2>1. PICK x \in StoredMessage, y \in StoredMessage : x = s[a] /\ y = t[a]
    BY <1>1
  <2>2. x.id = y.id /\ x.role = y.role /\ x.parts = y.parts
    BY <1>1, <2>1
  <2>3. x = y
    BY <2>2, StoredForm
  <2> QED
    BY <2>1, <2>3
<1> QED
  BY <1>1, <1>2

(* A plan's text is one part or none.                                           *)
LEMMA TextsShape ==
    ASSUME NEW p \in Plan
    PROVE  /\ Texts(p) \in Seq(KnownPart)
           /\ \E l \in {0, 1} : Len(Texts(p)) = l /\ DOMAIN Texts(p) = 1..l
           /\ \A k \in DOMAIN Texts(p) : Texts(p)[k] = Text
<1>1. Text \in KnownPart
  BY DEF Text, Part, KnownPart, Known, Id
<1>2. Texts(p) = <<Text>> \/ Texts(p) = <<>>
  BY Zenon DEF Texts
<1>3. CASE Texts(p) = <<Text>>
  <2>1. /\ <<Text>> \in Seq(KnownPart) /\ Len(<<Text>>) = 1 /\ DOMAIN <<Text>> = 1..1
        /\ \A k \in 1..1 : <<Text>>[k] = Text
    BY <1>1
  <2> QED
    BY <1>3, <2>1
<1>4. CASE Texts(p) = <<>>
  <2>1. <<>> \in Seq(KnownPart) /\ Len(<<>>) = 0 /\ DOMAIN <<>> = 1..0 /\ 1..0 = {}
    OBVIOUS
  <2> QED
    BY <1>4, <2>1
<1> QED
  BY <1>2, <1>3, <1>4

\* The run's message when i of its results have come.
CallPart(r, k, i) == Part("tool-call", CallId(r, k), IF k <= i THEN "planned" ELSE None, FALSE)

Partly(r, p, i) ==
    Message("assistant", r, Texts(p) \o [k \in 1..p.steps |-> CallPart(r, k, i)], <<>>)

(* Its text comes first, then its calls, of which i have results.               *)
LEMMA PartlyParts ==
    ASSUME NEW r \in Runs, NEW p \in Plan, NEW i \in 0..p.steps, NEW l \in Nat, NEW n \in Nat,
           l = Len(Texts(p)), n = p.steps
    PROVE  /\ Partly(r, p, i) \in StoredMessage
           /\ Partly(r, p, i).id = r /\ Partly(r, p, i).role = "assistant"
           /\ DOMAIN Partly(r, p, i).parts = 1..(l + n)
           /\ \A k \in 1..l : Partly(r, p, i).parts[k] = Text
<1>1. n \in 0..MaxSteps /\ MaxSteps \in Nat
  BY MessagesAssumption DEF Plan
<1>2. r \in Id /\ None \in Id /\ "planned" \in Id /\ \A k \in 1..MaxSteps : CallId(r, k) \in Id
  BY OwnIds
<1>3. PICK text \in Seq(KnownPart) : text = Texts(p)
  BY TextsShape
<1>4. l = Len(text) /\ DOMAIN text = 1..l /\ \A k \in 1..l : text[k] = Text
  BY <1>3, TextsShape
<1>5. \A k \in 1..n : CallPart(r, k, i) \in KnownPart
  <2> TAKE k \in 1..n
  <2>1. CallId(r, k) \in Id
    BY <1>1, <1>2
  <2> QED
    BY <1>2, <2>1 DEF CallPart, Part, KnownPart, Known
<1>6. PICK calls : calls = [k \in 1..n |-> CallPart(r, k, i)]
  OBVIOUS
<1>7. /\ calls \in Seq(KnownPart) /\ DOMAIN calls = 1..n
      /\ \A k \in 1..n : calls[k] = CallPart(r, k, i)
  BY <1>5, <1>6
<1>8. PICK parts : parts = text \o calls
  OBVIOUS
<1>9. /\ parts \in Seq(KnownPart) /\ DOMAIN parts = 1..(l + n)
      /\ \A k \in 1..l : parts[k] = text[k]
  BY <1>4, <1>7, <1>8, Joined
<1>10. Partly(r, p, i) = Message("assistant", r, parts, <<>>)
  BY <1>3, <1>6, <1>8 DEF Partly
<1>11. /\ Partly(r, p, i) \in StoredMessage
       /\ Partly(r, p, i).id = r /\ Partly(r, p, i).role = "assistant"
       /\ Partly(r, p, i).parts = parts
  BY <1>2, <1>9, <1>10 DEF Message, StoredMessage, Stored
<1> QED
  BY <1>4, <1>9, <1>11

(* And each of its calls in turn.                                              *)
LEMMA PartlyCalls ==
    ASSUME NEW r \in Runs, NEW p \in Plan, NEW i \in 0..p.steps, NEW k \in 1..p.steps
    PROVE  Partly(r, p, i).parts[Len(Texts(p)) + k] = CallPart(r, k, i)
<1>1. PICK l \in Nat, n \in Nat : l = Len(Texts(p)) /\ n = p.steps /\ k \in 1..n
  <2>1. Len(Texts(p)) \in Nat /\ p.steps \in Nat
    BY TextsShape, MessagesAssumption DEF Plan
  <2> QED
    BY <2>1
<1>2. n \in 0..MaxSteps /\ MaxSteps \in Nat
  BY <1>1, MessagesAssumption DEF Plan
<1>3. r \in Id /\ None \in Id /\ "planned" \in Id /\ \A j \in 1..MaxSteps : CallId(r, j) \in Id
  BY OwnIds
<1>4. PICK text \in Seq(KnownPart) : text = Texts(p)
  BY TextsShape
<1>5. l = Len(text) /\ DOMAIN text = 1..l /\ \A j \in 1..l : text[j] = Text
  BY <1>1, <1>4, TextsShape
<1>6. \A j \in 1..n : CallPart(r, j, i) \in KnownPart
  <2> TAKE j \in 1..n
  <2>1. CallId(r, j) \in Id
    BY <1>2, <1>3
  <2> QED
    BY <1>3, <2>1 DEF CallPart, Part, KnownPart, Known
<1>7. PICK calls : calls = [j \in 1..n |-> CallPart(r, j, i)]
  OBVIOUS
<1>8. /\ calls \in Seq(KnownPart) /\ DOMAIN calls = 1..n
      /\ \A j \in 1..n : calls[j] = CallPart(r, j, i)
  BY <1>6, <1>7
<1>9. PICK parts : parts = text \o calls
  OBVIOUS
<1>10. \A j \in 1..n : parts[l + j] = calls[j]
  BY <1>5, <1>8, <1>9, JoinedRest
<1>11. Partly(r, p, i) = Message("assistant", r, parts, <<>>)
  BY <1>1, <1>4, <1>7, <1>9 DEF Partly
<1>12. Partly(r, p, i).parts = parts
  BY <1>11 DEF Message
<1>13. parts[l + k] = CallPart(r, k, i)
  <2>1. \A j \in 1..n : parts[l + j] = CallPart(r, j, i)
    BY <1>8, <1>10, Zenon
  <2>2. k \in 1..n
    BY <1>1
  <2> QED
    BY <2>1, <2>2, Zenon
<1> QED
  BY <1>1, <1>12, <1>13

(* The parts that match a call.                                                 *)
LEMMA MatchesAre ==
    ASSUME NEW ms, NEW call
    PROVE  /\ \A a \in DOMAIN ms : \A k \in DOMAIN ms[a].parts :
                ms[a].role = "assistant" /\ IsCallTo(ms[a].parts[k], call)
                  => <<a, k>> \in Matches(ms, call)
           /\ \A y \in Matches(ms, call) : \E a \in DOMAIN ms : \E k \in DOMAIN ms[a].parts :
                /\ y = <<a, k>> /\ ms[a].role = "assistant"
                /\ IsCallTo(ms[a].parts[k], call)
<1>1. ASSUME NEW a \in DOMAIN ms, NEW k \in DOMAIN ms[a].parts, ms[a].role = "assistant",
             IsCallTo(ms[a].parts[k], call)
      PROVE  <<a, k>> \in Matches(ms, call)
  <2> DEFINE those(i) == {<<i, j>> : j \in {j \in DOMAIN ms[i].parts :
                IsCallTo(ms[i].parts[j], call)}}
  <2> DEFINE at == {i \in DOMAIN ms : ms[i].role = "assistant"}
  <2>1. Matches(ms, call) = UNION {those(i) : i \in at}
    BY Zenon DEF Matches
  <2>2. <<a, k>> \in those(a)
    BY <1>1
  <2>3. a \in at
    BY <1>1
  <2> HIDE DEF those, at
  <2> QED
    BY <2>1, <2>2, <2>3
<1>2. ASSUME NEW y \in Matches(ms, call)
      PROVE  \E a \in DOMAIN ms : \E k \in DOMAIN ms[a].parts :
                /\ y = <<a, k>> /\ ms[a].role = "assistant"
                /\ IsCallTo(ms[a].parts[k], call)
  BY <1>2, Zenon DEF Matches
<1> QED
  BY <1>1, <1>2

(* The message with its calls beside its parts starts without results.          *)
LEMMA LiveStarts ==
    ASSUME NEW r \in Runs, NEW p \in Plan, NEW m \in AnyMessage,
           m = Message("assistant", r, Texts(p), [i \in 1..p.steps |-> CallId(r, i)])
    PROVE  Normalized(m) = Partly(r, p, 0)
<1>1. PICK n \in Nat : n = p.steps /\ n \in 0..MaxSteps /\ MaxSteps \in Nat
  BY MessagesAssumption DEF Plan
<1>2. PICK calls : calls = [i \in 1..n |-> CallId(r, i)]
  OBVIOUS
<1>3. m.id = r /\ m.parts = Texts(p) /\ m.calls = calls
  BY <1>1, <1>2 DEF Message
<1> DEFINE K == {k \in DOMAIN m.parts : m.parts[k].type \in Known}
<1> DEFINE new == {i \in DOMAIN m.calls :
                     /\ m.calls[i] \notin CallsOf(Keep(m.parts, K))
                     /\ \A j \in 1..(i - 1) : m.calls[j] # m.calls[i]}
<1> DEFINE added == Keep(m.calls, new)
<1>4. Normalized(m) = Message("assistant", m.id, Keep(m.parts, K) \o
          [i \in DOMAIN added |-> Part("tool-call", added[i], None, FALSE)], <<>>)
  BY DEF Normalized
<1>5. \A k \in DOMAIN Texts(p) : Texts(p)[k] = Text
  BY TextsShape
<1>6. Text.type = "text" /\ "text" \in Known /\ "text" # "tool-call"
  BY DEF Text, Part, Known
<1>7. K = DOMAIN m.parts
  BY <1>3, <1>5, <1>6
<1>8. Keep(m.parts, K) = Texts(p)
  <2>1. m.parts \in Seq(AnyPart)
    BY DEF AnyMessage
  <2> HIDE DEF K
  <2> QED
    BY <1>3, <1>7, <2>1, KeepAll
<1> HIDE DEF K
<1>9. CallsOf(Texts(p)) = {}
  BY <1>5, <1>6 DEF CallsOf, IsCall
<1>10. new = DOMAIN m.calls
  <2>1. ASSUME NEW i \in 1..n, NEW j \in 1..(i - 1) PROVE calls[j] # calls[i]
    <3>1. calls[j] = <<r, j>> /\ calls[i] = <<r, i>> /\ i # j
      BY <1>2 DEF CallId
    <3> QED
      BY <3>1
  <2>2. DOMAIN calls = 1..n
    BY <1>2
  <2>3. new = {i \in DOMAIN calls :
                 /\ calls[i] \notin CallsOf(Texts(p))
                 /\ \A j \in 1..(i - 1) : calls[j] # calls[i]}
    BY <1>3, <1>8
  <2> HIDE DEF new
  <2> QED
    BY <1>3, <1>9, <2>1, <2>2, <2>3
<1> HIDE DEF new
<1>11. added = calls
  <2>1. m.calls \in Seq(Id)
    BY DEF AnyMessage
  <2> QED
    BY <1>3, <1>10, <2>1, KeepAll
<1> HIDE DEF added
<1>12. \A i \in 1..n : 0 < i /\ ~(i <= 0) /\ calls[i] = CallId(r, i)
  BY <1>2
<1>13. [i \in DOMAIN added |-> Part("tool-call", added[i], None, FALSE)] =
         [k \in 1..n |-> CallPart(r, k, 0)]
  <2>1. DOMAIN calls = 1..n
    BY <1>2
  <2>2. [i \in DOMAIN added |-> Part("tool-call", added[i], None, FALSE)] =
          [i \in 1..n |-> Part("tool-call", calls[i], None, FALSE)]
    BY <1>11, <2>1
  <2> QED
    BY <1>12, <2>2 DEF CallPart
<1> QED
  BY <1>1, <1>3, <1>4, <1>8, <1>13 DEF Partly

(* The next result goes to its call in the run's message, the last there is.    *)
LEMMA NextResult ==
    ASSUME NEW r \in Runs, NEW p \in Plan, NEW i \in 1..p.steps,
           NEW kept \in Seq(StoredMessage)
    PROVE  Added(Append(kept, Partly(r, p, i - 1)), ToolMessage(CallId(r, i), "planned", FALSE))
             = Append(kept, Partly(r, p, i))
<1>1. PICK n \in Nat : n = p.steps /\ n \in 0..MaxSteps /\ MaxSteps \in Nat
  BY MessagesAssumption DEF Plan
<1>2. i \in 1..n /\ i \in Nat /\ i - 1 \in 0..n /\ i \in 0..n
  BY <1>1
<1>3. PICK t : t = ToolMessage(CallId(r, i), "planned", FALSE)
  OBVIOUS
<1>4. /\ t \in AnyMessage /\ t.role = "tool" /\ t.call = CallId(r, i)
      /\ t.result = "planned" /\ t.error = FALSE
  <2>1. CallId(r, i) \in Id
    <3>1. i \in 1..MaxSteps
      BY <1>1, <1>2
    <3> QED
      BY <3>1, OwnIds
  <2>2. None \in Id /\ "planned" \in Id
    BY OwnIds
  <2>3. PICK call \in Id : call = CallId(r, i)
    BY <2>1
  <2>4. <<>> \in Seq(AnyPart) /\ <<>> \in Seq(Id)
    OBVIOUS
  <2>5. t = [role |-> "tool", id |-> call, parts |-> <<>>, calls |-> <<>>,
             call |-> call, result |-> "planned", error |-> FALSE]
    BY <1>3, <2>3 DEF ToolMessage, Message
  <2> QED
    BY <2>2, <2>3, <2>4, <2>5 DEF AnyMessage
<1>5. PICK l \in Nat : l = Len(Texts(p))
  BY TextsShape
<1>6. PICK old : old = Partly(r, p, i - 1)
  OBVIOUS
<1>7. /\ old \in StoredMessage /\ old.id = r /\ old.role = "assistant"
      /\ DOMAIN old.parts = 1..(l + n) /\ \A k \in 1..l : old.parts[k] = Text
      /\ \A k \in (l + 1)..(l + n) : old.parts[k] = CallPart(r, k - l, i - 1)
  <2>1. PICK b \in 0..p.steps : b = i - 1
    BY <1>1, <1>2
  <2>2. /\ Partly(r, p, b) \in StoredMessage
        /\ Partly(r, p, b).id = r /\ Partly(r, p, b).role = "assistant"
        /\ DOMAIN Partly(r, p, b).parts = 1..(l + n)
    BY <1>1, <1>5, PartlyParts
  <2>3. \A k \in 1..l : Partly(r, p, b).parts[k] = Text
    BY <1>1, <1>5, PartlyParts
  <2>4. \A k \in (l + 1)..(l + n) : Partly(r, p, b).parts[k] = CallPart(r, k - l, b)
    <3> TAKE k \in (l + 1)..(l + n)
    <3>1. PICK j \in 1..p.steps : j = k - l /\ k = l + j
      BY <1>1
    <3>2. Partly(r, p, b).parts[Len(Texts(p)) + j] = CallPart(r, j, b)
      BY PartlyCalls
    <3> QED
      BY <1>5, <3>1, <3>2
  <2> QED
    BY <1>6, <2>1, <2>2, <2>3, <2>4
<1>8. PICK new : new = Partly(r, p, i)
  OBVIOUS
<1>9. /\ new \in StoredMessage /\ new.id = r /\ new.role = "assistant"
      /\ DOMAIN new.parts = 1..(l + n) /\ \A k \in 1..l : new.parts[k] = Text
      /\ \A k \in (l + 1)..(l + n) : new.parts[k] = CallPart(r, k - l, i)
  <2>1. PICK b \in 0..p.steps : b = i
    BY <1>1, <1>2
  <2>2. /\ Partly(r, p, b) \in StoredMessage
        /\ Partly(r, p, b).id = r /\ Partly(r, p, b).role = "assistant"
        /\ DOMAIN Partly(r, p, b).parts = 1..(l + n)
    BY <1>1, <1>5, PartlyParts
  <2>3. \A k \in 1..l : Partly(r, p, b).parts[k] = Text
    BY <1>1, <1>5, PartlyParts
  <2>4. \A k \in (l + 1)..(l + n) : Partly(r, p, b).parts[k] = CallPart(r, k - l, b)
    <3> TAKE k \in (l + 1)..(l + n)
    <3>1. PICK j \in 1..p.steps : j = k - l /\ k = l + j
      BY <1>1
    <3>2. Partly(r, p, b).parts[Len(Texts(p)) + j] = CallPart(r, j, b)
      BY PartlyCalls
    <3> QED
      BY <1>5, <3>1, <3>2
  <2> QED
    BY <1>8, <2>1, <2>2, <2>3, <2>4
<1>10. PICK c \in Nat : Len(kept) = c /\ DOMAIN kept = 1..c
  OBVIOUS
<1>11. PICK ms : ms = Append(kept, old)
  OBVIOUS
<1>12. PICK result : result = Append(kept, new)
  OBVIOUS
<1>13. /\ ms \in Seq(StoredMessage) /\ DOMAIN ms = 1..(c + 1) /\ ms[c + 1] = old
       /\ \A a \in 1..c : ms[a] = kept[a]
  <2>1. old \in StoredMessage
    BY <1>7
  <2> QED
    BY <1>10, <1>11, <2>1
<1>14. /\ result \in Seq(StoredMessage) /\ DOMAIN result = 1..(c + 1) /\ result[c + 1] = new
       /\ \A a \in 1..c : result[a] = kept[a]
  <2>1. new \in StoredMessage
    BY <1>9
  <2> QED
    BY <1>10, <1>12, <2>1
<1>15. \A k \in 1..(l + n) : k \in 1..l \/ (k - l \in 1..n /\ k = l + (k - l) /\ k \in (l + 1)..(l + n))
  BY <1>1
<1>16. \A k \in 1..(l + n) :
         IsCallTo(old.parts[k], t.call) <=> k = l + i
  <2> TAKE k \in 1..(l + n)
  <2>1. CASE k \in 1..l
    <3>1. ~IsCall(old.parts[k])
      BY <1>7, <2>1 DEF IsCall, Text, Part
    <3>2. k # l + i
      BY <1>2, <2>1
    <3> QED
      BY <3>1, <3>2 DEF IsCallTo
  <2>2. CASE k - l \in 1..n /\ k = l + (k - l) /\ k \in (l + 1)..(l + n)
    <3>1. PICK j \in 1..n : j = k - l /\ k = l + j
      BY <2>2
    <3>2. IsCall(old.parts[k]) /\ old.parts[k].call = CallId(r, j)
      <4>1. old.parts[k] = CallPart(r, j, i - 1)
        BY <1>7, <2>2, <3>1
      <4> QED
        BY <4>1 DEF IsCall, CallPart, Part
    <3>3. CallId(r, j) = CallId(r, i) <=> j = i
      BY DEF CallId
    <3>4. j = i <=> k = l + i
      BY <1>2, <3>1
    <3>5. CallId(r, i) # None
      BY <1>1, <1>2, MessagesAssumption
    <3> QED
      BY <1>4, <3>2, <3>3, <3>4, <3>5 DEF IsCallTo
  <2> QED
    BY <1>15, <2>1, <2>2
<1>17. l + i \in 1..(l + n) /\ l + i \in Nat
  BY <1>2
<1>18. <<c + 1, l + i>> \in Matches(ms, t.call)
  <2>1. c + 1 \in DOMAIN ms /\ l + i \in DOMAIN ms[c + 1].parts /\ ms[c + 1].role = "assistant"
    BY <1>7, <1>13, <1>17
  <2>2. IsCallTo(ms[c + 1].parts[l + i], t.call)
    BY <1>13, <1>16, <1>17
  <2> QED
    BY <2>1, <2>2, MatchesAre
<1>19. \A y \in Matches(ms, t.call) : \E a \in 1..(c + 1), k \in Nat :
         y = <<a, k>> /\ (a = c + 1 => k = l + i)
  <2> TAKE y \in Matches(ms, t.call)
  <2>1. PICK a \in DOMAIN ms : \E k \in DOMAIN ms[a].parts :
          y = <<a, k>> /\ IsCallTo(ms[a].parts[k], t.call)
    BY MatchesAre
  <2>2. PICK k \in DOMAIN ms[a].parts :
          y = <<a, k>> /\ IsCallTo(ms[a].parts[k], t.call)
    BY <2>1
  <2>3. k \in Nat
    <3>1. ms[a].parts \in Seq(KnownPart)
      <4>1. ms[a] \in StoredMessage
        BY <1>13
      <4> QED
        BY <4>1, StoredForm
    <3> QED
      BY <3>1
  <2>4. a = c + 1 => k = l + i
    BY <1>7, <1>13, <1>16, <2>2
  <2> QED
    BY <1>13, <2>2, <2>3, <2>4
<1>20. LastMatch(ms, t.call) = {<<c + 1, l + i>>}
  <2>1. \A y \in Matches(ms, t.call) :
          ~Earlier(<<c + 1, l + i>>, y) /\ (y # <<c + 1, l + i>> => Earlier(y, <<c + 1, l + i>>))
    <3> TAKE y \in Matches(ms, t.call)
    <3>1. PICK a \in 1..(c + 1), k \in Nat : y = <<a, k>> /\ (a = c + 1 => k = l + i)
      BY <1>19
    <3>2. a \in Nat /\ (a = c + 1 \/ a < c + 1)
      OBVIOUS
    <3> QED
      BY <1>17, <3>1, <3>2 DEF Earlier
  <2> QED
    BY <1>18, <2>1 DEF LastMatch
<1>21. PICK after : after = Merged(ms, t)
  OBVIOUS
<1>22. /\ after \in Seq(StoredMessage) /\ DOMAIN after = 1..(c + 1)
       /\ \A a \in 1..(c + 1) :
            /\ after[a].id = ms[a].id /\ after[a].role = ms[a].role
            /\ DOMAIN after[a].parts = DOMAIN ms[a].parts
  <2>1. ms \in Seq(StoredMessage) /\ t \in AnyMessage /\ DOMAIN ms = 1..(c + 1)
    BY <1>4, <1>13
  <2> QED
    BY <1>21, <2>1, MergedShape
<1>23. \A a \in 1..(c + 1) : \A k \in DOMAIN ms[a].parts :
         after[a].parts[k] =
           IF <<a, k>> \in LastMatch(ms, t.call) THEN WithResult(ms[a].parts[k], t)
           ELSE ms[a].parts[k]
  <2>1. ms \in Seq(StoredMessage) /\ t \in AnyMessage /\ DOMAIN ms = 1..(c + 1)
    BY <1>4, <1>13
  <2>2. \A a \in DOMAIN ms : \A k \in DOMAIN ms[a].parts :
         Merged(ms, t)[a].parts[k] =
           IF <<a, k>> \in LastMatch(ms, t.call) THEN WithResult(ms[a].parts[k], t)
           ELSE ms[a].parts[k]
    BY <2>1, MergedShape
  <2> QED
    BY <1>21, <2>1, <2>2
<1>24. \A s \in StoredMessage :
         \E k \in Nat : s.parts = [j \in 1..k |-> s.parts[j]] /\ DOMAIN s.parts = 1..k
  <2> TAKE s \in StoredMessage
  <2>1. PICK parts \in Seq(KnownPart) : parts = s.parts
    BY StoredForm
  <2>2. \E k \in Nat : parts = [j \in 1..k |-> parts[j]] /\ DOMAIN parts = 1..k
    OBVIOUS
  <2> QED
    BY <2>1, <2>2
<1>25. ASSUME NEW a \in 1..c PROVE after[a].parts = ms[a].parts
  <2>1. a # c + 1 /\ a \in 1..(c + 1)
    OBVIOUS
  <2>2. \A k : <<a, k>> \notin LastMatch(ms, t.call)
    BY <1>20, <2>1
  <2>3. \A k \in DOMAIN ms[a].parts : after[a].parts[k] = ms[a].parts[k]
    BY <1>23, <2>1, <2>2
  <2>4. after[a] \in StoredMessage /\ ms[a] \in StoredMessage
    BY <1>13, <1>22, <2>1
  <2> QED
    BY <1>22, <1>24, <2>1, <2>3, <2>4
<1>26. after[c + 1].parts = new.parts
  <2>1. c + 1 \in 1..(c + 1)
    OBVIOUS
  <2>2. ASSUME NEW k \in 1..(l + n) PROVE after[c + 1].parts[k] = new.parts[k]
    <3>1. CASE k = l + i
      <4>1. after[c + 1].parts[k] = WithResult(old.parts[k], t)
        BY <1>7, <1>13, <1>20, <1>23, <2>1, <3>1
      <4>2. old.parts[k] = CallPart(r, i, i - 1) /\ new.parts[k] = CallPart(r, i, i)
        <5>1. k \in (l + 1)..(l + n) /\ k - l = i
          BY <1>2, <3>1
        <5> QED
          BY <1>7, <1>9, <5>1
      <4>3. /\ CallPart(r, i, i - 1) = Part("tool-call", CallId(r, i), None, FALSE)
            /\ CallPart(r, i, i) = Part("tool-call", CallId(r, i), "planned", FALSE)
        <5>1. ~(i <= i - 1) /\ i <= i
          BY <1>2
        <5> QED
          BY <5>1 DEF CallPart
      <4>4. WithResult(Part("tool-call", CallId(r, i), None, FALSE), t) =
              Part("tool-call", CallId(r, i), "planned", FALSE)
        <5>1. PICK part : part = Part("tool-call", CallId(r, i), None, FALSE)
          OBVIOUS
        <5>2. part.error = FALSE
          BY <5>1 DEF Part
        <5>3. (part.error \/ t.error) = FALSE
          BY <1>4, <5>2, Zenon
        <5>4. WithResult(part, t) = [part EXCEPT !.result = t.result, !.error = part.error \/ t.error]
          BY Zenon DEF WithResult
        <5>5. WithResult(part, t) = [part EXCEPT !.result = "planned", !.error = FALSE]
          BY <1>4, <5>3, <5>4, Zenon
        <5> QED
          BY <5>1, <5>5 DEF Part
      <4> QED
        BY <4>1, <4>2, <4>3, <4>4
    <3>2. CASE k # l + i
      <4>1. after[c + 1].parts[k] = old.parts[k]
        BY <1>7, <1>13, <1>20, <1>23, <2>1, <3>2
      <4>2. CASE k \in 1..l
        BY <1>7, <1>9, <4>1, <4>2
      <4>3. CASE k - l \in 1..n /\ k = l + (k - l) /\ k \in (l + 1)..(l + n)
        <5>1. PICK j \in 1..n : k = l + j /\ j = k - l
          BY <4>3
        <5>2. j <= i - 1 <=> j <= i
          BY <1>2, <3>2, <5>1
        <5>3. CallPart(r, j, i - 1) = CallPart(r, j, i)
          BY <5>2 DEF CallPart
        <5> QED
          BY <1>7, <1>9, <4>1, <4>3, <5>1, <5>3
      <4> QED
        BY <1>15, <4>2, <4>3
    <3> QED
      BY <3>1, <3>2
  <2>3. after[c + 1] \in StoredMessage /\ DOMAIN after[c + 1].parts = 1..(l + n)
    BY <1>7, <1>13, <1>22, <2>1
  <2> QED
    BY <1>9, <1>24, <2>2, <2>3
<1>27. after = result
  <2>1. \A a \in 1..(c + 1) : a = c + 1 \/ a \in 1..c
    OBVIOUS
  <2>2. \A a \in DOMAIN after :
          /\ after[a].id = result[a].id /\ after[a].role = result[a].role
          /\ after[a].parts = result[a].parts
    BY <1>7, <1>9, <1>13, <1>14, <1>22, <1>25, <1>26, <2>1
  <2> QED
    BY <1>14, <1>22, <2>2, SameMessages
<1>28. Added(ms, t) = Merged(ms, t)
  BY <1>4 DEF Added, Stored
<1> QED
  BY <1>3, <1>6, <1>8, <1>11, <1>12, <1>21, <1>27, <1>28

(* The loop over two lists goes on with the second where the first ended.       *)
LEMMA JoinedChain ==
    ASSUME NEW s \in Seq(AnyMessage), NEW t \in Seq(AnyMessage), NEW n \in Nat, NEW k \in Nat,
           DOMAIN s = 1..n, DOMAIN t = 1..k
    PROVE  \E g : /\ g[0] = Restored(s) /\ g[k] = Restored(s \o t)
                  /\ \A i \in 1..k : g[i] = Added(g[i - 1], t[i])
<1>1. PICK all : all = s \o t
  OBVIOUS
<1>2. /\ Len(all) = n + k /\ n + k \in Nat /\ Len(s) = n
      /\ \A i \in 1..n : all[i] = s[i]
      /\ \A i \in 1..k : all[n + i] = t[i]
  <2>1. Len(s \o t) = n + k
    BY Joined
  <2>2. \A i \in 1..n : (s \o t)[i] = s[i]
    BY Joined
  <2>3. \A i \in 1..k : (s \o t)[n + i] = t[i]
    BY JoinedRest
  <2> QED
    BY <1>1, <2>1, <2>2, <2>3
<1>3. PICK h : Chain(h, all) /\ h[n + k] = Restored(all)
  BY <1>2, RestoredChain
<1>4. h[0] = <<>> /\ \A i \in 1..(n + k) : h[i] = Added(h[i - 1], all[i])
  BY <1>2, <1>3 DEF Chain
<1>5. h[n] = Restored(s)
  <2>1. \A i \in 1..n : h[i] = Added(h[i - 1], s[i])
    <3> TAKE i \in 1..n
    <3>1. i \in 1..(n + k)
      OBVIOUS
    <3>2. h[i] = Added(h[i - 1], all[i])
      BY <1>4, <3>1
    <3>3. all[i] = s[i]
      BY <1>2
    <3> QED
      BY <3>2, <3>3
  <2>2. Chain(h, s)
    BY <1>2, <1>4, <2>1 DEF Chain
  <2> QED
    BY <1>2, <2>2, ChainEnds
<1>6. PICK g : g = [i \in 0..k |-> h[n + i]]
  OBVIOUS
<1>7. g[0] = h[n] /\ g[k] = h[n + k]
  BY <1>6
<1>8. ASSUME NEW i \in 1..k PROVE g[i] = Added(g[i - 1], t[i])
  <2>1. n + i \in 1..(n + k) /\ (n + i) - 1 = n + (i - 1) /\ i \in 0..k /\ i - 1 \in 0..k
    OBVIOUS
  <2>2. g[i] = h[n + i] /\ g[i - 1] = h[n + (i - 1)]
    BY <1>6, <2>1
  <2>3. h[n + i] = Added(h[(n + i) - 1], all[n + i])
    BY <1>4, <2>1
  <2>4. all[n + i] = t[i]
    BY <1>2
  <2> QED
    BY <2>1, <2>2, <2>3, <2>4
<1> QED
  BY <1>1, <1>3, <1>5, <1>7, <1>8

(* With all its results the run's message is its answer.                        *)
LEMMA AllPartsCome ==
    ASSUME NEW r \in Runs, NEW p \in Plan
    PROVE  p.steps \in Nat /\ Partly(r, p, p.steps) = Answer(r, p)
<1>1. PICK n \in Nat : n = p.steps
  BY MessagesAssumption DEF Plan
<1>2. [k \in 1..n |-> CallPart(r, k, n)] = [k \in 1..n |-> Part("tool-call", CallId(r, k), "planned", FALSE)]
  <2>1. \A k \in 1..n : CallPart(r, k, n) = Part("tool-call", CallId(r, k), "planned", FALSE)
    BY DEF CallPart
  <2> QED
    BY <2>1
<1>3. PICK calls : calls = [k \in 1..n |-> CallPart(r, k, n)]
  OBVIOUS
<1>4. Partly(r, p, n) = Message("assistant", r, Texts(p) \o calls, <<>>)
  BY <1>1, <1>3 DEF Partly
<1>5. Answer(r, p) = Message("assistant", r, Texts(p) \o calls, <<>>)
  <2>1. PlannedCalls(r, p) = calls
    BY <1>1, <1>2, <1>3 DEF PlannedCalls
  <2> QED
    BY <2>1 DEF Answer
<1> QED
  BY <1>1, <1>4, <1>5

(* What a thread keeps of a turn built from the stream is the run's answer.     *)
LEMMA TurnRestored ==
    ASSUME NEW history \in Seq(AnyMessage), NEW r \in Runs, NEW p \in Plan,
           NEW turn \in LiveTurn(r, p)
    PROVE  Restored(history \o turn) = Append(Restored(history), Answer(r, p))
<1>1. PICK n \in Nat : DOMAIN history = 1..n
  OBVIOUS
<1>2. turn \in Seq(AnyMessage)
  BY TurnType
<1>3. PICK kept \in Seq(StoredMessage) : kept = Restored(history)
  BY RestoredIds
<1>4. CASE turn = <<Answer(r, p)>>
  <2>1. DOMAIN turn = 1..1 /\ turn[1] = Answer(r, p)
    BY <1>4
  <2>2. PICK g : /\ g[0] = Restored(history) /\ g[1] = Restored(history \o turn)
                 /\ \A i \in 1..1 : g[i] = Added(g[i - 1], turn[i])
    BY <1>1, <1>2, <2>1, JoinedChain
  <2>3. 1 \in 1..1 /\ 1 - 1 = 0
    OBVIOUS
  <2>4. g[1] = Added(g[0], Answer(r, p))
    BY <2>1, <2>2, <2>3
  <2>5. Answer(r, p) \in StoredMessage
    BY OwnIds, AnswerType
  <2> QED
    BY <2>2, <2>4, <2>5, AddedSame
<1>5. CASE turn # <<Answer(r, p)>>
  <2>1. PICK k \in Nat : k = p.steps
    BY AllPartsCome
  <2>2. PICK first :
          first = Message("assistant", r, Texts(p), [i \in 1..p.steps |-> CallId(r, i)])
    OBVIOUS
  <2>3. PICK rest : rest = [i \in 1..k |-> ToolMessage(CallId(r, i), "planned", FALSE)]
    OBVIOUS
  <2>4. turn = <<first>> \o rest
    BY <1>5, <2>1, <2>2, <2>3 DEF LiveTurn
  <2>5. /\ DOMAIN turn = 1..(k + 1) /\ turn[1] = first
        /\ \A i \in 1..k : turn[i + 1] = rest[i] /\ rest[i] = ToolMessage(CallId(r, i), "planned", FALSE)
    <3>1. PICK S : S = {first} \cup {rest[i] : i \in 1..k}
      OBVIOUS
    <3>2. DOMAIN rest = 1..k /\ rest = [i \in 1..k |-> rest[i]]
      BY <2>3
    <3>3. rest \in Seq(S)
      <4>1. \A i \in 1..k : rest[i] \in S
        BY <3>1
      <4> QED
        BY <3>2, <4>1
    <3>4. first \in S /\ Len(rest) = k
      BY <3>1, <3>2, <3>3
    <3>5. /\ DOMAIN turn = 1..(k + 1) /\ turn[1] = first
          /\ \A i \in 1..(k + 1) : i # 1 => turn[i] = rest[i - 1] /\ i - 1 \in 1..k
      BY <2>4, <3>2, <3>3, <3>4
    <3>6. \A i \in 1..k : i + 1 \in 1..(k + 1) /\ i + 1 # 1 /\ (i + 1) - 1 = i
      OBVIOUS
    <3>7. \A i \in 1..k : turn[i + 1] = rest[i]
      BY <3>5, <3>6
    <3>8. \A i \in 1..k : rest[i] = ToolMessage(CallId(r, i), "planned", FALSE)
      BY <2>3
    <3> QED
      BY <3>5, <3>7, <3>8
  <2>6. k + 1 \in Nat /\ 1 \in 1..(k + 1)
    OBVIOUS
  <2>7. PICK g : /\ g[0] = kept /\ g[k + 1] = Restored(history \o turn)
                 /\ \A i \in 1..(k + 1) : g[i] = Added(g[i - 1], turn[i])
    <3>1. PICK e \in Nat : e = k + 1
      OBVIOUS
    <3>2. DOMAIN turn = 1..e
      BY <2>5, <3>1
    <3>3. \E g : /\ g[0] = Restored(history) /\ g[e] = Restored(history \o turn)
                 /\ \A i \in 1..e : g[i] = Added(g[i - 1], turn[i])
      BY <1>1, <1>2, <3>2, JoinedChain
    <3> QED
      BY <1>3, <3>1, <3>3
  <2>8. first \in AnyMessage /\ first.role = "assistant"
    <3>1. turn[1] \in AnyMessage
      BY <1>2, <2>5, <2>6
    <3> QED
      BY <2>2, <2>5, <3>1 DEF Message
  <2>9. g[1] = Append(kept, Partly(r, p, 0))
    <3>1. g[1] = Added(kept, first)
      BY <2>5, <2>6, <2>7
    <3>2. Added(kept, first) = Append(kept, Normalized(first))
      BY <2>8 DEF Added
    <3>3. Normalized(first) = Partly(r, p, 0)
      BY <2>2, <2>8, LiveStarts
    <3> QED
      BY <3>1, <3>2, <3>3
  <2> DEFINE Bad == {i \in Nat : i <= k /\ g[i + 1] # Append(kept, Partly(r, p, i))}
  <2>10. Bad = {}
    <3> SUFFICES ASSUME Bad # {} PROVE FALSE
      OBVIOUS
    <3>1. PICK m \in Bad : \A i \in Bad : m <= i
      <4>1. Bad \in SUBSET Nat
        OBVIOUS
      <4> HIDE DEF Bad
      <4> QED
        BY <4>1, LeastNat
    <3>2. m \in Nat /\ m <= k /\ g[m + 1] # Append(kept, Partly(r, p, m))
      BY <3>1
    <3>3. m # 0
      BY <2>9, <3>2
    <3>4. m - 1 \in Nat /\ m - 1 <= k /\ m \in 1..k /\ (m - 1) + 1 = m /\ (m + 1) - 1 = m
          /\ m + 1 \in 1..(k + 1)
      BY <3>2, <3>3
    <3>5. m - 1 \notin Bad
      <4>1. ~(m <= m - 1)
        BY <3>2
      <4> HIDE DEF Bad
      <4> QED
        BY <3>1, <4>1
    <3>6. g[m] = Append(kept, Partly(r, p, m - 1))
      BY <3>4, <3>5
    <3>7. g[m + 1] = Added(g[m], turn[m + 1])
      BY <2>7, <3>4
    <3>8. turn[m + 1] = ToolMessage(CallId(r, m), "planned", FALSE)
      BY <2>5, <3>4
    <3>9. PICK j \in 1..p.steps : j = m
      BY <2>1, <3>4
    <3>10. Added(Append(kept, Partly(r, p, j - 1)), ToolMessage(CallId(r, j), "planned", FALSE))
             = Append(kept, Partly(r, p, j))
      BY NextResult
    <3> QED
      BY <3>2, <3>6, <3>7, <3>8, <3>9, <3>10
  <2>11. g[k + 1] = Append(kept, Partly(r, p, k))
    <3>1. k \notin Bad /\ k <= k
      BY <2>10
    <3> QED
      BY <3>1
  <2> QED
    BY <1>3, <2>1, <2>7, <2>11, AllPartsCome
<1> QED
  BY <1>4, <1>5

(* An empty answer of a run is not part of what a reload shows.                 *)
LEMMA EmptyUnspoken ==
    ASSUME NEW s \in Seq(StoredMessage), NEW m \in StoredMessage,
           m.role = "assistant", m.id \in Runs, m.parts = <<>>
    PROVE  Spoken(Append(s, m)) = Spoken(s)
<1>1. PICK n \in Nat : DOMAIN s = 1..n /\ Len(s) = n
  OBVIOUS
<1>2. PICK all : all = Append(s, m)
  OBVIOUS
<1>3. /\ DOMAIN all = 1..(n + 1) /\ all[n + 1] = m
      /\ \A i \in 1..n : all[i] = s[i]
  BY <1>1, <1>2
<1> DEFINE Says(i, ms) == ms[i].role = "assistant" /\ ms[i].id \in Runs => ms[i].parts # <<>>
<1> DEFINE K == {i \in 1..n : Says(i, s)}
<1>4. {i \in DOMAIN s : Says(i, s)} = K
  BY <1>1
<1>5. {i \in DOMAIN all : Says(i, all)} = K
  <2>1. ~Says(n + 1, all)
    BY <1>3
  <2>2. \A i \in 1..n : Says(i, all) <=> Says(i, s)
    BY <1>3
  <2>3. \A i \in 1..(n + 1) : i = n + 1 \/ i \in 1..n
    OBVIOUS
  <2>4. \A i \in 1..n : i \in 1..(n + 1)
    OBVIOUS
  <2> HIDE DEF Says
  <2> QED
    BY <1>3, <2>1, <2>2, <2>3, <2>4
<1>6. Spoken(s) = Keep(s, K)
  BY <1>4, Zenon DEF Spoken
<1>7. Spoken(all) = Keep(all, K)
  BY <1>5, Zenon DEF Spoken
<1>8. K \in SUBSET (1..n) /\ \A i \in K : all[i] = s[i]
  BY <1>3
<1> HIDE DEF K
<1> QED
  BY <1>2, <1>6, <1>7, <1>8, KeepSame

(* What a run stores is what a thread keeps of the turn it streamed, except for *)
(* an empty answer.                                                             *)
LEMMA TurnStored ==
    ASSUME NEW history \in Seq(AnyMessage), NEW r \in Runs, NEW p \in Plans,
           NEW turn \in LiveTurn(r, p), Without(history, {r})
    PROVE  Spoken(Restored(history \o turn)) = Spoken(Restorable(history, Assistant(r, p)))
<1>1. p \in Plan /\ Answer(r, p) # None
  BY MessagesAssumption
<1>2. PICK kept \in Seq(StoredMessage) : kept = Restored(history)
  BY RestoredIds
<1>3. Without(kept, {r})
  BY <1>2, RestoredIds
<1>4. PICK m \in StoredMessage : m = Answer(r, p) /\ m.id = r /\ m.role = "assistant"
  BY <1>1, OwnIds, AnswerType
<1>5. Restored(history \o turn) = Append(kept, m)
  BY <1>1, <1>2, <1>4, TurnRestored
<1>6. CASE ~p.text /\ p.steps = 0
  <2>1. Restorable(history, Assistant(r, p)) = kept
    BY <1>2, <1>6 DEF Restorable, WithAssistant, Assistant
  <2>2. m.parts = <<>>
    <3>1. Texts(p) = <<>>
      BY <1>6 DEF Texts
    <3>2. PlannedCalls(r, p) = <<>>
      BY <1>6 DEF PlannedCalls
    <3>3. m.parts = Texts(p) \o PlannedCalls(r, p)
      BY <1>4 DEF Answer, Message
    <3>4. <<>> \o <<>> = <<>>
      OBVIOUS
    <3> QED
      BY <3>1, <3>2, <3>3, <3>4
  <2> QED
    BY <1>4, <1>5, <2>1, <2>2, EmptyUnspoken
<1>7. CASE ~(~p.text /\ p.steps = 0)
  <2>1. Assistant(r, p) = m /\ m # None
    BY <1>1, <1>4, <1>7 DEF Assistant
  <2>2. {i \in DOMAIN kept : kept[i].id # m.id} = DOMAIN kept
    <3>1. \A i \in DOMAIN kept : kept[i].id # r
      <4> TAKE i \in DOMAIN kept
      <4>1. kept[i] \in StoredMessage
        OBVIOUS
      <4>2. kept[i].role \in Stored
        BY <4>1 DEF StoredMessage
      <4> QED
        BY <1>3, <4>2 DEF Without
    <3> QED
      BY <1>4, <3>1
  <2>3. Keep(kept, DOMAIN kept) = kept
    BY KeepAll
  <2>4. Restorable(history, Assistant(r, p)) = Append(kept, m)
    BY <1>2, <2>1, <2>2, <2>3 DEF Restorable, WithAssistant
  <2> QED
    BY <1>5, <2>4
<1> QED
  BY <1>6, <1>7

(* A reload shows the turn that was streamed, whatever the history it followed, *)
(* whichever of its two forms the tab built and whatever happened before.       *)
THEOREM ReloadAgrees == Spec => []ReloadShowsStream
<1>1. Init => ReloadShowsStream
  BY DEF Init, ReloadShowsStream
<1>2. IdsInv /\ ReloadShowsStream /\ [Next]_vars => ReloadShowsStream'
  <2> SUFFICES ASSUME IdsInv, ReloadShowsStream, [Next]_vars PROVE ReloadShowsStream'
    OBVIOUS
  <2>1. ASSUME NEW r \in Runs, Run(r) PROVE ReloadShowsStream'
    <3>1. r \in open
      BY <2>1 DEF Run
    <3>2. Asked(r) \in Seq(AnyMessage) /\ Without(Asked(r), open)
      BY <3>1, AskedIds
    <3>3. PICK p \in Plans :
            /\ store' = Restorable(Asked(r), Assistant(r, p))
            /\ \/ tab' = Asked(r) /\ agreed' = FALSE
               \/ \E turn \in LiveTurn(r, p) : tab' = Asked(r) \o turn /\ agreed' = TRUE
      BY <2>1 DEF Run, Asked
    <3>4. CASE agreed' = FALSE
      BY <3>4 DEF ReloadShowsStream
    <3>5. CASE \E turn \in LiveTurn(r, p) : tab' = Asked(r) \o turn
      <4>1. PICK turn \in LiveTurn(r, p) : tab' = Asked(r) \o turn
        BY <3>5
      <4>2. PICK history \in Seq(AnyMessage) : history = Asked(r)
        BY <3>2
      <4>3. Without(history, {r})
        BY <3>1, <3>2, <4>2, WithoutFewer
      <4>4. Spoken(Restored(tab')) = Spoken(store')
        BY <3>3, <4>1, <4>2, <4>3, TurnStored
      <4> QED
        BY <4>4 DEF ReloadShowsStream
    <3> QED
      BY <3>3, <3>4, <3>5
  <2>2. ASSUME NEW r \in Runs, Repeat(r) \/ PlanDirectly(r) PROVE ReloadShowsStream'
    <3>1. agreed' = FALSE
      BY <2>2 DEF Repeat, PlanDirectly
    <3> QED
      BY <3>1 DEF ReloadShowsStream
  <2>3. ASSUME Reload PROVE ReloadShowsStream'
    <3>1. store # None /\ tab' = store /\ store' = store
      BY <2>3 DEF Reload
    <3>2. store \in Seq(StoredMessage)
      BY <3>1 DEF IdsInv, Shape
    <3>3. Restored(store) = store
      BY <3>2, StoredStays
    <3> QED
      BY <3>1, <3>3 DEF ReloadShowsStream
  <2>4. ASSUME GoBack PROVE ReloadShowsStream'
    BY <2>4 DEF GoBack, ReloadShowsStream
  <2>5. ASSUME UNCHANGED vars PROVE ReloadShowsStream'
    BY <2>5 DEF vars, ReloadShowsStream
  <2> QED
    BY <2>1, <2>2, <2>3, <2>4, <2>5 DEF Next, Done
<1> QED
  BY <1>1, <1>2, IdsInit, IdsStep, PTL DEF Spec

------------------------------------------------------------------------------
(* Results and their calls.                                                 *)

PartsOf(messages, j) == Normalized(messages[j]).parts

\* The tool message at t finds its call in part k of message j, the last such part.
Hit(messages, j, k, t) ==
    /\ messages[t].role = "tool"
    /\ IsCallTo(PartsOf(messages, j)[k], messages[t].call)
    /\ \A i \in (j + 1)..(t - 1) : messages[i].role = "assistant" =>
         messages[t].call \notin CallsOf(PartsOf(messages, i))
    /\ \A l \in DOMAIN PartsOf(messages, j) :
         l > k => ~IsCallTo(PartsOf(messages, j)[l], messages[t].call)

\* Every part has the result of the last tool message that found it, or its own.
Results(kept, messages, i) ==
    \A j \in 1..i : messages[j].role = "assistant" =>
        \A k \in DOMAIN PartsOf(messages, j) :
            /\ (\A t \in (j + 1)..i : ~Hit(messages, j, k, t)) =>
                 kept[At(messages, j)].parts[k].result = PartsOf(messages, j)[k].result
            /\ \A t \in (j + 1)..i :
                 Hit(messages, j, k, t) /\ (\A u \in (t + 1)..i : ~Hit(messages, j, k, u)) =>
                   kept[At(messages, j)].parts[k].result = messages[t].result

(* The parts of what is kept that match a call are those of what was sent.      *)
LEMMA MatchesSent ==
    ASSUME NEW messages \in Seq(AnyMessage), NEW n \in Nat, DOMAIN messages = 1..n,
           NEW i \in 0..n, NEW kept, Holds(kept, messages, i), NEW call
    PROVE  /\ \A j \in 1..i : messages[j].role = "assistant" =>
                \A k \in DOMAIN PartsOf(messages, j) :
                  <<At(messages, j), k>> \in Matches(kept, call)
                    <=> IsCallTo(PartsOf(messages, j)[k], call)
           /\ \A y \in Matches(kept, call) : \E j \in 1..i :
                /\ messages[j].role = "assistant"
                /\ \E k \in DOMAIN PartsOf(messages, j) :
                     y = <<At(messages, j), k>> /\ IsCallTo(PartsOf(messages, j)[k], call)
<1>1. /\ DOMAIN kept = 1..At(messages, i)
      /\ \A j \in 1..i : messages[j].role \in Stored => Stands(kept[At(messages, j)], messages[j])
  BY DEF Holds
<1>2. /\ \A j \in 0..n : At(messages, j) \in Nat
      /\ \A k \in 0..n, j \in 1..n : k < j /\ messages[j].role \in Stored =>
           At(messages, k) < At(messages, j)
      /\ \A k \in 0..n, j \in 1..n : j <= k => At(messages, j) <= At(messages, k)
      /\ At(messages, 0) = 0
  BY Places
<1>3. ASSUME NEW j \in 1..i, messages[j].role = "assistant"
      PROVE  /\ At(messages, j) \in DOMAIN kept /\ kept[At(messages, j)].role = "assistant"
             /\ DOMAIN kept[At(messages, j)].parts = DOMAIN PartsOf(messages, j)
             /\ \A k \in DOMAIN PartsOf(messages, j) :
                  IsCallTo(kept[At(messages, j)].parts[k], call)
                    <=> IsCallTo(PartsOf(messages, j)[k], call)
  <2>1. messages[j].role \in Stored /\ j \in 1..n /\ j \in 0..n /\ 0 \in 0..n /\ j <= i /\ 0 < j
    BY <1>3 DEF Stored
  <2>2. At(messages, j) \in DOMAIN kept
    BY <1>1, <1>2, <2>1
  <2>3. Stands(kept[At(messages, j)], messages[j])
    BY <1>1, <2>1
  <2>4. /\ kept[At(messages, j)].role = "assistant"
        /\ SameCalls(kept[At(messages, j)].parts, PartsOf(messages, j))
    BY <1>3, <2>3 DEF Stands, PartsOf
  <2> QED
    BY <2>2, <2>4 DEF SameCalls, IsCall, IsCallTo
<1>4. ASSUME NEW j \in 1..i, messages[j].role = "assistant",
             NEW k \in DOMAIN PartsOf(messages, j)
      PROVE  <<At(messages, j), k>> \in Matches(kept, call)
               <=> IsCallTo(PartsOf(messages, j)[k], call)
  <2>1. PICK a \in DOMAIN kept :
          /\ a = At(messages, j) /\ kept[a].role = "assistant"
          /\ k \in DOMAIN kept[a].parts
          /\ IsCallTo(kept[a].parts[k], call)
               <=> IsCallTo(PartsOf(messages, j)[k], call)
    BY <1>3, <1>4
  <2>2. ASSUME IsCallTo(PartsOf(messages, j)[k], call) PROVE <<a, k>> \in Matches(kept, call)
    BY <2>1, <2>2, MatchesAre
  <2>3. ASSUME <<a, k>> \in Matches(kept, call) PROVE IsCallTo(PartsOf(messages, j)[k], call)
    <3>1. PICK b \in DOMAIN kept : \E l \in DOMAIN kept[b].parts :
            <<a, k>> = <<b, l>> /\ IsCallTo(kept[b].parts[l], call)
      BY <2>3, MatchesAre
    <3>2. PICK l \in DOMAIN kept[b].parts :
            <<a, k>> = <<b, l>> /\ IsCallTo(kept[b].parts[l], call)
      BY <3>1
    <3>3. a = b /\ k = l
      BY <3>2
    <3> QED
      BY <2>1, <3>2, <3>3
  <2> QED
    BY <2>1, <2>2, <2>3
<1>5. ASSUME NEW y \in Matches(kept, call)
      PROVE  \E j \in 1..i :
                /\ messages[j].role = "assistant"
                /\ \E k \in DOMAIN PartsOf(messages, j) :
                     y = <<At(messages, j), k>> /\ IsCallTo(PartsOf(messages, j)[k], call)
  <2>1. PICK a \in DOMAIN kept : \E k \in DOMAIN kept[a].parts :
          /\ y = <<a, k>> /\ kept[a].role = "assistant"
          /\ IsCallTo(kept[a].parts[k], call)
    BY MatchesAre
  <2>2. PICK k \in DOMAIN kept[a].parts :
          /\ y = <<a, k>> /\ kept[a].role = "assistant"
          /\ IsCallTo(kept[a].parts[k], call)
    BY <2>1
  <2>3. PICK j \in 1..i : messages[j].role \in Stored /\ At(messages, j) = a
    BY <1>1, ComesFrom
  <2>4. messages[j].role = "assistant"
    BY <1>1, <2>2, <2>3 DEF Stands
  <2>5. k \in DOMAIN PartsOf(messages, j) /\ IsCallTo(PartsOf(messages, j)[k], call)
    BY <1>3, <2>2, <2>3, <2>4
  <2> QED
    BY <2>2, <2>3, <2>4, <2>5
<1> QED
  BY <1>4, <1>5

(* A tool message's result goes to the part it finds.                           *)
LEMMA HitIsLast ==
    ASSUME NEW messages \in Seq(AnyMessage), NEW n \in Nat, DOMAIN messages = 1..n,
           NEW i \in 1..n, NEW kept, Holds(kept, messages, i - 1), messages[i].role = "tool",
           NEW j \in 1..(i - 1), messages[j].role = "assistant",
           NEW k \in DOMAIN PartsOf(messages, j)
    PROVE  <<At(messages, j), k>> \in LastMatch(kept, messages[i].call) <=> Hit(messages, j, k, i)
<1>1. PICK call : call = messages[i].call
  OBVIOUS
<1>2. PICK e \in 0..n : e = i - 1
  OBVIOUS
<1>3. /\ \A a \in 1..e : messages[a].role = "assistant" =>
           \A l \in DOMAIN PartsOf(messages, a) :
             <<At(messages, a), l>> \in Matches(kept, call)
               <=> IsCallTo(PartsOf(messages, a)[l], call)
      /\ \A y \in Matches(kept, call) : \E a \in 1..e :
           /\ messages[a].role = "assistant"
           /\ \E l \in DOMAIN PartsOf(messages, a) :
                y = <<At(messages, a), l>> /\ IsCallTo(PartsOf(messages, a)[l], call)
  BY <1>2, MatchesSent
<1>4. /\ \A a \in 0..n : At(messages, a) \in Nat
      /\ \A b \in 0..n, a \in 1..n : b < a /\ messages[a].role \in Stored =>
           At(messages, b) < At(messages, a)
  BY Places
<1>5. ASSUME NEW a \in 1..e, messages[a].role = "assistant"
      PROVE  /\ At(messages, a) \in Nat
             /\ \A b \in 1..e : b < a => At(messages, b) < At(messages, a)
             /\ \A l \in DOMAIN PartsOf(messages, a) : l \in Nat
  <2>1. messages[a].role \in Stored /\ a \in 1..n /\ a \in 0..n /\ \A b \in 1..e : b \in 0..n
    BY <1>2, <1>5 DEF Stored
  <2>2. PartsOf(messages, a) \in Seq(KnownPart)
    <3>1. messages[a] \in AnyMessage
      BY <2>1
    <3>2. Normalized(messages[a]) \in StoredMessage
      BY <3>1, NormalizedType
    <3> QED
      BY <3>2 DEF PartsOf, StoredMessage
  <2>3. \A l \in DOMAIN PartsOf(messages, a) : l \in Nat
    BY <2>2
  <2> QED
    BY <1>4, <2>1, <2>3
<1>6. j \in 1..e /\ (j + 1)..(i - 1) \subseteq 1..e /\ j \in Nat /\ e \in Nat
      /\ \A a \in (j + 1)..(i - 1) : j < a
  BY <1>2
<1>7. ASSUME NEW a \in 1..e, messages[a].role = "assistant", call # None
      PROVE  call \in CallsOf(PartsOf(messages, a)) <=>
               \E l \in DOMAIN PartsOf(messages, a) : IsCallTo(PartsOf(messages, a)[l], call)
  BY <1>7 DEF CallsOf, IsCallTo
<1>8. ASSUME <<At(messages, j), k>> \in LastMatch(kept, call) PROVE Hit(messages, j, k, i)
  <2>1. /\ <<At(messages, j), k>> \in Matches(kept, call)
        /\ \A y \in Matches(kept, call) : ~Earlier(<<At(messages, j), k>>, y)
    BY <1>8 DEF LastMatch
  <2>2. IsCallTo(PartsOf(messages, j)[k], call)
    BY <1>3, <1>6, <2>1
  <2>3. ASSUME NEW a \in (j + 1)..(i - 1), messages[a].role = "assistant",
               call \in CallsOf(PartsOf(messages, a))
        PROVE  FALSE
    <3>1. a \in 1..e /\ j < a
      BY <1>6
    <3>2. PICK l \in DOMAIN PartsOf(messages, a) : IsCallTo(PartsOf(messages, a)[l], call)
      BY <1>7, <2>2, <2>3, <3>1 DEF IsCallTo
    <3>3. <<At(messages, a), l>> \in Matches(kept, call)
      BY <1>3, <2>3, <3>1, <3>2
    <3>4. At(messages, j) < At(messages, a)
      BY <1>5, <1>6, <2>3, <3>1
    <3> QED
      BY <2>1, <3>3, <3>4 DEF Earlier
  <2>4. ASSUME NEW l \in DOMAIN PartsOf(messages, j), l > k,
               IsCallTo(PartsOf(messages, j)[l], call)
        PROVE  FALSE
    <3>1. <<At(messages, j), l>> \in Matches(kept, call)
      BY <1>3, <1>6, <2>4
    <3>2. k < l
      <4>1. k \in Nat /\ l \in Nat
        BY <1>5, <1>6
      <4> QED
        BY <2>4, <4>1
    <3> QED
      BY <2>1, <3>1, <3>2 DEF Earlier
  <2> QED
    BY <1>1, <2>2, <2>3, <2>4 DEF Hit
<1>9. ASSUME Hit(messages, j, k, i) PROVE <<At(messages, j), k>> \in LastMatch(kept, call)
  <2>1. /\ IsCallTo(PartsOf(messages, j)[k], call)
        /\ \A a \in (j + 1)..(i - 1) : messages[a].role = "assistant" =>
             call \notin CallsOf(PartsOf(messages, a))
        /\ \A l \in DOMAIN PartsOf(messages, j) :
             l > k => ~IsCallTo(PartsOf(messages, j)[l], call)
    BY <1>1, <1>9 DEF Hit
  <2>2. <<At(messages, j), k>> \in Matches(kept, call)
    BY <1>3, <1>6, <2>1
  <2>3. ASSUME NEW y \in Matches(kept, call), Earlier(<<At(messages, j), k>>, y) PROVE FALSE
    <3>1. PICK a \in 1..e :
            /\ messages[a].role = "assistant"
            /\ \E l \in DOMAIN PartsOf(messages, a) :
                 y = <<At(messages, a), l>> /\ IsCallTo(PartsOf(messages, a)[l], call)
      BY <1>3
    <3>2. PICK l \in DOMAIN PartsOf(messages, a) :
            y = <<At(messages, a), l>> /\ IsCallTo(PartsOf(messages, a)[l], call)
      BY <3>1
    <3>3. /\ At(messages, a) \in Nat /\ At(messages, j) \in Nat /\ l \in Nat /\ k \in Nat
          /\ a < j => At(messages, a) < At(messages, j)
          /\ j < a => At(messages, j) < At(messages, a)
      BY <1>5, <1>6, <3>1
    <3>4. \/ At(messages, j) < At(messages, a)
          \/ At(messages, j) = At(messages, a) /\ k < l
      BY <2>3, <3>2 DEF Earlier
    <3>5. a = j \/ a \in (j + 1)..(i - 1)
      BY <1>2, <1>6, <3>3, <3>4
    <3>6. CASE a = j
      BY <2>1, <3>2, <3>3, <3>4, <3>6
    <3>7. CASE a \in (j + 1)..(i - 1)
      BY <1>7, <2>1, <3>1, <3>2, <3>7 DEF IsCallTo
    <3> QED
      BY <3>5, <3>6, <3>7
  <2> QED
    BY <2>2, <2>3 DEF LastMatch
<1> QED
  BY <1>1, <1>8, <1>9

(* A step of the loop keeps the results at their calls.                         *)
LEMMA ResultsStep ==
    ASSUME NEW messages \in Seq(AnyMessage), NEW n \in Nat, DOMAIN messages = 1..n,
           NEW i \in 1..n, NEW kept, Holds(kept, messages, i - 1),
           Results(kept, messages, i - 1)
    PROVE  Results(Added(kept, messages[i]), messages, i)
<1>1. messages[i] \in AnyMessage
  OBVIOUS
<1>2. PICK e \in 0..n : e = i - 1
  OBVIOUS
<1>3. Holds(kept, messages, e) /\ Results(kept, messages, e)
  BY <1>2
<1>4. /\ kept \in Seq(StoredMessage) /\ DOMAIN kept = 1..At(messages, e)
      /\ \A j \in 1..e : messages[j].role \in Stored => Stands(kept[At(messages, j)], messages[j])
  BY <1>3 DEF Holds
<1>5. /\ \A j \in 0..n : At(messages, j) \in Nat
      /\ \A j \in 1..n : At(messages, j) = At(messages, j - 1) +
           IF messages[j].role \in Stored THEN 1 ELSE 0
      /\ \A k \in 0..n, j \in 1..n : k < j /\ messages[j].role \in Stored =>
           At(messages, k) < At(messages, j)
      /\ \A k \in 0..n, j \in 1..n : j <= k => At(messages, j) <= At(messages, k)
      /\ At(messages, 0) = 0
  BY Places
<1>6. PICK c \in Nat : c = At(messages, e) /\ Len(kept) = c
  BY <1>4, <1>5
<1>7. ASSUME NEW j \in 1..e, messages[j].role = "assistant"
      PROVE  At(messages, j) \in 1..c /\ j \in 1..i /\ j \in 1..(i - 1)
  <2>1. messages[j].role \in Stored /\ j \in 1..n /\ j \in 0..n /\ 0 \in 0..n /\ j <= e /\ 0 < j
    BY <1>7 DEF Stored
  <2> QED
    BY <1>2, <1>5, <1>6, <2>1
<1>8. \A j \in 1..i : j = i \/ j \in 1..e
  BY <1>2
<1>9. PICK after : after = Added(kept, messages[i])
  OBVIOUS
\* A message that reaches no part leaves the results of the earlier ones.
<1>10. ASSUME NEW j \in 1..e, NEW k \in DOMAIN PartsOf(messages, j),
              messages[j].role = "assistant", ~Hit(messages, j, k, i),
              after[At(messages, j)].parts[k].result = kept[At(messages, j)].parts[k].result
       PROVE  /\ (\A t \in (j + 1)..i : ~Hit(messages, j, k, t)) =>
                   after[At(messages, j)].parts[k].result = PartsOf(messages, j)[k].result
              /\ \A t \in (j + 1)..i :
                   Hit(messages, j, k, t) /\ (\A u \in (t + 1)..i : ~Hit(messages, j, k, u)) =>
                     after[At(messages, j)].parts[k].result = messages[t].result
  <2>1. /\ (\A t \in (j + 1)..e : ~Hit(messages, j, k, t)) =>
             kept[At(messages, j)].parts[k].result = PartsOf(messages, j)[k].result
        /\ \A t \in (j + 1)..e :
             Hit(messages, j, k, t) /\ (\A u \in (t + 1)..e : ~Hit(messages, j, k, u)) =>
               kept[At(messages, j)].parts[k].result = messages[t].result
    BY <1>3, <1>10 DEF Results
  <2>2. \A t \in (j + 1)..e : t \in (j + 1)..i
    BY <1>2
  <2>3. ASSUME NEW t \in (j + 1)..i, Hit(messages, j, k, t)
        PROVE  t \in (j + 1)..e /\ \A u \in (t + 1)..e : u \in (t + 1)..i
    <3>1. t # i
      BY <1>10, <2>3
    <3> QED
      BY <1>2, <3>1
  <2> QED
    BY <1>10, <2>1, <2>2, <2>3
<1>11. CASE messages[i].role \in Stored
  <2>1. PICK new \in StoredMessage :
          /\ after = Append(kept, new)
          /\ messages[i].role = "assistant" => new = Normalized(messages[i])
    BY <1>1, <1>9, <1>11, StepCases DEF Stored
  <2>2. At(messages, i) = c + 1
    BY <1>2, <1>5, <1>6, <1>11
  <2>3. after[c + 1] = new /\ \A a \in 1..c : after[a] = kept[a]
    BY <1>4, <1>6, <2>1
  <2>4. \A j, k : ~Hit(messages, j, k, i)
    BY <1>11 DEF Hit, Stored
  <2>5. ASSUME NEW j \in 1..i, messages[j].role = "assistant",
               NEW k \in DOMAIN PartsOf(messages, j)
        PROVE  /\ (\A t \in (j + 1)..i : ~Hit(messages, j, k, t)) =>
                    after[At(messages, j)].parts[k].result = PartsOf(messages, j)[k].result
               /\ \A t \in (j + 1)..i :
                    Hit(messages, j, k, t) /\ (\A u \in (t + 1)..i : ~Hit(messages, j, k, u)) =>
                      after[At(messages, j)].parts[k].result = messages[t].result
    <3>1. CASE j = i
      <4>1. after[At(messages, j)].parts = PartsOf(messages, j)
        BY <2>1, <2>2, <2>3, <2>5, <3>1 DEF PartsOf
      <4>2. (j + 1)..i = {}
        BY <3>1
      <4> QED
        BY <4>1, <4>2
    <3>2. CASE j \in 1..e
      <4>1. after[At(messages, j)] = kept[At(messages, j)]
        BY <1>7, <2>3, <2>5, <3>2
      <4> QED
        BY <1>10, <2>4, <2>5, <3>2, <4>1
    <3> QED
      BY <1>8, <3>1, <3>2
  <2> QED
    BY <1>9, <2>5 DEF Results
<1>12. CASE messages[i].role \notin Stored
  <2>1. ASSUME NEW j \in 1..i, messages[j].role = "assistant",
               NEW k \in DOMAIN PartsOf(messages, j)
        PROVE  /\ (\A t \in (j + 1)..i : ~Hit(messages, j, k, t)) =>
                    after[At(messages, j)].parts[k].result = PartsOf(messages, j)[k].result
               /\ \A t \in (j + 1)..i :
                    Hit(messages, j, k, t) /\ (\A u \in (t + 1)..i : ~Hit(messages, j, k, u)) =>
                      after[At(messages, j)].parts[k].result = messages[t].result
    <3>1. j \in 1..e
      BY <1>8, <1>12, <2>1 DEF Stored
    <3>2. PICK a \in 1..c : a = At(messages, j)
      BY <1>7, <2>1, <3>1
    <3>3. CASE messages[i].role = "other"
      <4>1. after = kept /\ ~Hit(messages, j, k, i)
        BY <1>1, <1>9, <3>3, StepCases DEF Hit, Stored
      <4> QED
        BY <1>10, <2>1, <3>1, <4>1
    <3>4. CASE messages[i].role = "tool"
      <4>1. after = Merged(kept, messages[i])
        BY <1>1, <1>9, <3>4, StepCases DEF Stored
      <4>2. k \in DOMAIN kept[a].parts /\ kept[a].parts[k] \in KnownPart
        <5>1. messages[j].role \in Stored
          BY <2>1 DEF Stored
        <5>2. Stands(kept[a], messages[j])
          BY <1>4, <3>1, <3>2, <5>1
        <5>3. k \in DOMAIN kept[a].parts
          BY <2>1, <5>2 DEF Stands, SameCalls, PartsOf
        <5>4. kept[a] \in StoredMessage
          BY <1>4, <1>6, <3>2
        <5>5. kept[a].parts \in Seq(KnownPart)
          BY <5>4 DEF StoredMessage
        <5> QED
          BY <5>3, <5>5
      <4>3. PICK m \in AnyMessage : m = messages[i]
        BY <1>1
      <4>4. after[a].parts[k] =
              IF <<a, k>> \in LastMatch(kept, m.call) THEN WithResult(kept[a].parts[k], m)
              ELSE kept[a].parts[k]
        <5>1. \A b \in DOMAIN kept : \A l \in DOMAIN kept[b].parts :
                Merged(kept, m)[b].parts[l] =
                  IF <<b, l>> \in LastMatch(kept, m.call) THEN WithResult(kept[b].parts[l], m)
                  ELSE kept[b].parts[l]
          BY <1>4, MergedShape
        <5>2. a \in DOMAIN kept
          BY <1>4, <1>6, <3>2
        <5> QED
          BY <4>1, <4>2, <4>3, <5>1, <5>2
      <4>5. <<a, k>> \in LastMatch(kept, m.call) <=> Hit(messages, j, k, i)
        <5>1. j \in 1..(i - 1) /\ Holds(kept, messages, i - 1)
          BY <1>2, <3>1
        <5> QED
          BY <2>1, <3>2, <3>4, <4>3, <5>1, HitIsLast
      <4>6. CASE ~Hit(messages, j, k, i)
        <5>1. after[At(messages, j)].parts[k] = kept[At(messages, j)].parts[k]
          BY <3>2, <4>4, <4>5, <4>6
        <5> QED
          BY <1>10, <2>1, <3>1, <4>6, <5>1
      <4>7. CASE Hit(messages, j, k, i)
        <5>1. after[a].parts[k].result = m.result
          <6>1. WithResult(kept[a].parts[k], m).result = m.result
            BY <4>2 DEF WithResult, KnownPart
          <6> QED
            BY <4>4, <4>5, <4>7, <6>1
        <5>2. i \in (j + 1)..i
          BY <1>2, <3>1
        <5>3. ASSUME NEW t \in (j + 1)..i, \A u \in (t + 1)..i : ~Hit(messages, j, k, u)
              PROVE  t = i
          <6>1. i \notin (t + 1)..i
            BY <4>7, <5>3
          <6> QED
            BY <6>1
        <5> QED
          BY <3>2, <4>3, <4>7, <5>1, <5>2, <5>3
      <4> QED
        BY <4>6, <4>7
    <3> QED
      BY <1>1, <1>12, <3>3, <3>4 DEF AnyMessage, Stored
  <2> QED
    BY <1>9, <2>1 DEF Results
<1> QED
  BY <1>11, <1>12

(* At the end of the loop every result is at its call.                          *)
LEMMA RestoredResults ==
    ASSUME NEW messages \in Seq(AnyMessage), NEW n \in Nat, DOMAIN messages = 1..n
    PROVE  Results(Restored(messages), messages, n)
<1>1. Len(messages) = n
  OBVIOUS
<1>2. PICK h : Chain(h, messages) /\ h[n] = Restored(messages)
  BY <1>1, RestoredChain
<1>3. \A k \in 1..n : h[k] = Added(h[k - 1], messages[k])
  BY <1>1, <1>2 DEF Chain
<1> DEFINE Bad == {k \in Nat : k <= n /\ ~Results(h[k], messages, k)}
<1>4. Bad = {}
  <2> SUFFICES ASSUME Bad # {} PROVE FALSE
    OBVIOUS
  <2>1. PICK k \in Bad : \A m \in Bad : k <= m
    <3>1. Bad \in SUBSET Nat
      OBVIOUS
    <3> HIDE DEF Bad
    <3> QED
      BY <3>1, LeastNat
  <2>2. k \in Nat /\ k <= n /\ ~Results(h[k], messages, k)
    OBVIOUS
  <2>3. k # 0
    <3>1. 1..0 = {}
      OBVIOUS
    <3>2. Results(h[0], messages, 0)
      BY <3>1 DEF Results
    <3> QED
      BY <2>2, <3>2
  <2>4. k \in 1..n /\ k - 1 \in Nat /\ k - 1 <= n /\ ~(k <= k - 1) /\ k - 1 \in 0..n
    BY <2>2, <2>3
  <2>5. k - 1 \notin Bad
    <3> HIDE DEF Bad
    <3> QED
      BY <2>1, <2>4
  <2>6. Results(h[k - 1], messages, k - 1)
    BY <2>4, <2>5
  <2>7. Holds(h[k - 1], messages, k - 1)
    BY <1>2, <2>4, ChainHolds
  <2>8. Results(Added(h[k - 1], messages[k]), messages, k)
    BY <2>4, <2>6, <2>7, ResultsStep
  <2> QED
    BY <1>3, <2>2, <2>4, <2>8
<1>5. n \notin Bad /\ n <= n
  BY <1>4
<1>6. Results(h[n], messages, n)
  BY <1>5
<1> QED
  BY <1>2, <1>6

(* A set of positions that is not empty has a last one.                         *)
LEMMA LastPosition ==
    ASSUME NEW n \in Nat, NEW T \in SUBSET (1..n), T # {}
    PROVE  \E t \in T : \A u \in T : u <= t
<1> DEFINE D == {d \in Nat : d <= n /\ n - d \in T}
<1>1. D # {}
  <2>1. PICK t \in T : TRUE
    OBVIOUS
  <2>2. n - t \in Nat /\ n - t <= n /\ n - (n - t) = t
    BY <2>1
  <2> QED
    BY <2>1, <2>2
<1>2. PICK d \in D : \A k \in D : d <= k
  <2>1. D \in SUBSET Nat
    OBVIOUS
  <2> HIDE DEF D
  <2> QED
    BY <1>1, <2>1, LeastNat
<1>3. ASSUME NEW u \in T PROVE u <= n - d
  <2>1. n - u \in Nat /\ n - u <= n /\ n - (n - u) = u
    OBVIOUS
  <2>2. n - u \in D
    BY <2>1
  <2>3. d <= n - u /\ d \in Nat
    BY <1>2, <2>2
  <2> QED
    BY <2>3
<1> QED
  BY <1>2, <1>3

(* Every result is at the latest call before it with its id, the latest result  *)
(* wins, and a part that none reached has the result it came with, in whatever  *)
(* the last run was sent with.                                                  *)
THEOREM ResultsPlaced == Spec => []ResultsAtTheirCall
<1>1. IdsInv => ResultsAtTheirCall
  <2> SUFFICES ASSUME IdsInv PROVE ResultsAtTheirCall
    OBVIOUS
  <2>1. sent \in Seq(AnyMessage)
    BY DEF IdsInv, Shape
  <2>2. PICK messages \in Seq(AnyMessage) : messages = sent
    BY <2>1
  <2>3. PICK n \in Nat : DOMAIN messages = 1..n /\ Len(messages) = n
    OBVIOUS
  <2>4. Results(Restored(messages), messages, n)
    BY <2>3, RestoredResults
  <2> DEFINE parts == [i \in DOMAIN sent |-> Normalized(sent[i]).parts]
  <2>5. \A i \in 1..n : parts[i] = PartsOf(messages, i)
    BY <2>2, <2>3 DEF PartsOf
  <2> HIDE DEF parts
  <2>6. ASSUME NEW j \in DOMAIN sent, sent[j].role = "assistant", NEW k \in DOMAIN parts[j]
        PROVE  LET part == parts[j][k]
                   hits == {t \in (j + 1)..Len(sent) : Reaches(parts, j, k, t)}
               IN Restored(sent)[Place(j)].parts[k].result =
                      IF hits = {} THEN part.result
                      ELSE sent[CHOOSE t \in hits : \A u \in hits : u <= t].result
    <3> DEFINE hits == {t \in (j + 1)..Len(sent) : Reaches(parts, j, k, t)}
    <3>1. j \in 1..n /\ messages[j].role = "assistant" /\ k \in DOMAIN PartsOf(messages, j)
      BY <2>2, <2>3, <2>5, <2>6
    <3>2. Place(j) = At(messages, j)
      BY <2>2, Zenon DEF Place, At
    <3>3. ASSUME NEW t \in (j + 1)..n
          PROVE  Reaches(parts, j, k, t) <=> Hit(messages, j, k, t)
      <4>1. parts[j] = PartsOf(messages, j)
        BY <2>5, <3>1
      <4>2. \A i \in (j + 1)..(t - 1) : i \in 1..n
        BY <3>1
      <4>3. \A i \in (j + 1)..(t - 1) : parts[i] = PartsOf(messages, i)
        BY <2>5, <4>2
      <4> QED
        BY <2>2, <4>1, <4>3 DEF Reaches, Hit, IsCallTo
    <3>4. hits = {t \in (j + 1)..n : Hit(messages, j, k, t)}
      BY <2>2, <2>3, <3>3
    <3> HIDE DEF hits
    <3>5. /\ (\A t \in (j + 1)..n : ~Hit(messages, j, k, t)) =>
               Restored(messages)[At(messages, j)].parts[k].result = PartsOf(messages, j)[k].result
          /\ \A t \in (j + 1)..n :
               Hit(messages, j, k, t) /\ (\A u \in (t + 1)..n : ~Hit(messages, j, k, u)) =>
                 Restored(messages)[At(messages, j)].parts[k].result = messages[t].result
      BY <2>4, <3>1 DEF Results
    <3>6. CASE hits = {}
      <4>1. Restored(sent)[Place(j)].parts[k].result = parts[j][k].result
        BY <2>2, <2>5, <3>1, <3>2, <3>4, <3>5, <3>6
      <4> QED
        BY <3>6, <4>1 DEF hits
    <3>7. CASE hits # {}
      <4> DEFINE last == CHOOSE t \in hits : \A u \in hits : u <= t
      <4>1. hits \in SUBSET (1..n)
        BY <3>1, <3>4
      <4>2. \E t \in hits : \A u \in hits : u <= t
        BY <3>7, <4>1, LastPosition
      <4>3. last \in hits /\ \A u \in hits : u <= last
        BY <4>2
      <4> HIDE DEF last
      <4>4. last \in (j + 1)..n /\ Hit(messages, j, k, last)
        BY <3>4, <4>3
      <4>5. \A u \in (last + 1)..n : ~Hit(messages, j, k, u)
        <5> SUFFICES ASSUME NEW u \in (last + 1)..n, Hit(messages, j, k, u) PROVE FALSE
          OBVIOUS
        <5>1. u \in (j + 1)..n /\ ~(u <= last)
          BY <3>1, <4>4
        <5> QED
          BY <3>4, <4>3, <5>1
      <4>6. Restored(sent)[Place(j)].parts[k].result = sent[last].result
        BY <2>2, <3>2, <3>5, <4>4, <4>5
      <4> QED
        BY <3>7, <4>6 DEF hits, last
    <3> QED
      BY <3>6, <3>7
  <2> QED
    BY <2>6 DEF ResultsAtTheirCall, parts
<1> QED
  BY <1>1, IdsInit, IdsStep, PTL DEF Spec
==============================================================================
