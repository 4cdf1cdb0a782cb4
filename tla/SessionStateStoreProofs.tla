------------------------ MODULE SessionStateStoreProofs ------------------------
(***************************************************************************)
(* The session state store is correct for every number of callers: the     *)
(* inductive invariant of its optimistic loop, and the step-by-step map to  *)
(* the versioned register.  The key fact is CallerOk's last conjunct: as    *)
(* long as Redis has seen no write since the WATCH, the blob that was       *)
(* checked is the blob that is stored.  Then the event lists: what a call    *)
(* that returned leaves behind expires, and no list has two owners, since a  *)
(* key can be taken apart again, colon by colon.                             *)
(***************************************************************************)
EXTENDS SessionStateStore, SessionEvents, SubsequenceProofs

CallerOk(c) ==
    /\ pc[c] = "idle" <=> call[c] = None
    /\ pc[c] = "set" => call[c] \in SetCall
    /\ pc[c] \in {"watch", "get", "exec"} => call[c] \in UpdateCall
    /\ result[c].code = "none" <=> pc[c] # "done"
    /\ pc[c] = "exec" => Accepted(call[c], read[c])
    /\ pc[c] = "exec" /\ ~touched[c] => read[c] = state

Loop == \A c \in Callers : CallerOk(c)

OkUpdate(c) == call[c] # None /\ call[c].kind = "update" /\ result[c].code = "ok"

\* Nothing exists before the first blind write, and until the second one no
\* accepted update has a version beyond that of the blob.
Bounded ==
    /\ blind = 0 => state = None /\ \A c \in Callers : ~OkUpdate(c)
    /\ (blind <= 1 /\ state # None) =>
          \A c \in Callers : OkUpdate(c) => result[c].version <= state.version

Inv == TypeOK /\ Loop /\ NoUpdateLost /\ Bounded /\ VersionsUnique

------------------------------------------------------------------------------
(* The blobs that SET and the transaction of an update write are well typed. *)
LEMMA SetBlobType ==
    ASSUME NEW c \in Callers, NEW o \in SetCall
    PROVE  SetBlob(c, o) \in Blob
BY SessionAssumption DEF SetBlob, SetCall, Blob

LEMMA UpdatedBlobType ==
    ASSUME NEW c \in Callers, NEW b \in Blob
    PROVE  /\ UpdatedBlob(c, b) \in Blob
           /\ UpdatedBlob(c, b).version = b.version + 1
           /\ UpdatedBlob(c, b).by = b.by \cup {c}
BY SessionAssumption DEF UpdatedBlob, Blob

(* None is no blob and no call, and a set is not an update.                 *)
LEMMA NoneApart ==
    /\ None \notin Blob /\ None \notin Call
    /\ \A o \in SetCall : o \notin UpdateCall /\ o.kind = "set" /\ o \in Call
    /\ \A o \in UpdateCall : o \notin SetCall /\ o.kind = "update" /\ o \in Call
BY NoneAssumption DEF Call, SetCall, UpdateCall

------------------------------------------------------------------------------
(* The invariant holds before any call is made.                             *)
LEMMA InitInv == Init => Inv
<1> SUFFICES ASSUME Init PROVE Inv
  OBVIOUS
<1>1. TypeOK
  BY DEF Init, TypeOK, Result, Codes, Answer, PCs
<1>2. Loop
  BY DEF Init, Loop, CallerOk, Answer
<1>3. NoUpdateLost /\ Bounded /\ VersionsUnique
  BY DEF Init, NoUpdateLost, Bounded, OkUpdate, VersionsUnique
<1> QED
  BY <1>1, <1>2, <1>3 DEF Inv

(* Every step keeps the types.                                              *)
LEMMA TypeStep == TypeOK /\ Loop /\ [Next]_vars => TypeOK'
<1> SUFFICES ASSUME TypeOK, Loop, [Next]_vars PROVE TypeOK'
  OBVIOUS
<1> USE DEF TypeOK
<1>1. ASSUME NEW c \in Callers, BlindWrite(c), call[c] \in SetCall
      PROVE  /\ state' \in Blob \cup {None} /\ touched' \in [Callers -> BOOLEAN]
             /\ merged' \subseteq Callers /\ blind' \in Nat
  BY <1>1, SetBlobType DEF BlindWrite, Touch
<1>2. ASSUME NEW c \in Callers, MergeWrite(c), read[c] # None
      PROVE  /\ state' \in Blob \cup {None} /\ touched' \in [Callers -> BOOLEAN]
             /\ merged' \subseteq Callers /\ blind' \in Nat
  BY <1>2, UpdatedBlobType DEF MergeWrite, Touch
<1>3. ASSUME NEW c \in Callers, NEW code \in Codes, NEW v \in Nat, Return(c, code, v)
      PROVE  pc' \in [Callers -> PCs] /\ result' \in [Callers -> Result]
  BY <1>3 DEF Return, Goto, PCs, Answer, Result
<1>4. ASSUME NEW c \in Callers, Invoke(c) PROVE TypeOK'
  BY <1>4 DEF Invoke, Goto, PCs, NoWrite
<1>5. ASSUME NEW c \in Callers, Set(c) PROVE TypeOK'
  <2>1. call[c] \in SetCall
    BY <1>5 DEF Set, Loop, CallerOk
  <2>2. call[c].version \in Nat /\ "ok" \in Codes
    BY <2>1, SessionAssumption DEF SetCall, Codes
  <2> QED
    BY <1>1, <1>3, <1>5, <2>1, <2>2 DEF Set
<1>6. ASSUME NEW c \in Callers, Watch(c) PROVE TypeOK'
  BY <1>6 DEF Watch, Goto, PCs
<1>7. ASSUME NEW c \in Callers, Get(c) PROVE TypeOK'
  <2>1. read' \in [Callers -> Blob \cup {None}]
    BY <1>7 DEF Get
  <2>2. pc' \in [Callers -> PCs] /\ result' \in [Callers -> Result]
    <3>1. CASE \E code \in Codes : Return(c, code, 0)
      BY <3>1, <1>3
    <3>2. CASE Goto(c, "exec") /\ UNCHANGED result
      BY <3>2 DEF Goto, PCs
    <3> QED
      BY <1>7, <3>1, <3>2 DEF Get
  <2> QED
    BY <1>7, <2>1, <2>2 DEF Get, NoWrite
<1>8. ASSUME NEW c \in Callers, Execute(c) PROVE TypeOK'
  <2>1. read[c] \in Blob
    BY <1>8 DEF Execute, Loop, CallerOk, Accepted
  <2>2. read[c] # None /\ read[c].version + 1 \in Nat /\ "ok" \in Codes
    BY <2>1, NoneApart DEF Blob, Codes
  <2> QED
    BY <1>2, <1>3, <1>8, <2>2 DEF Execute
<1>9. ASSUME NEW c \in Callers, Retry(c) PROVE TypeOK'
  BY <1>9 DEF Retry, Goto, PCs, NoWrite
<1>10. ASSUME NEW c \in Callers, Lose(c) PROVE TypeOK'
  <2>1. /\ state' \in Blob \cup {None} /\ touched' \in [Callers -> BOOLEAN]
        /\ merged' \subseteq Callers /\ blind' \in Nat
    <3>1. CASE NoWrite
      BY <3>1 DEF NoWrite
    <3>2. CASE pc[c] = "set" /\ BlindWrite(c)
      BY <3>2, <1>1 DEF Loop, CallerOk
    <3>3. CASE pc[c] = "exec" /\ ~touched[c] /\ MergeWrite(c)
      BY <3>3, <1>2 DEF Loop, CallerOk, Accepted
    <3> QED
      BY <1>10, <3>1, <3>2, <3>3 DEF Lose
  <2>2. pc' \in [Callers -> PCs] /\ result' \in [Callers -> Result]
    <3>1. "error" \in Codes
      BY DEF Codes
    <3> QED
      BY <1>3, <1>10, <3>1 DEF Lose
  <2>3. faults' \in Nat /\ UNCHANGED <<call, read>>
    BY <1>10 DEF Lose, Fault
  <2> QED
    BY <2>1, <2>2, <2>3
<1>11. CASE Expire
  BY <1>11 DEF Expire, Fault, Touch
<1>12. CASE UNCHANGED vars
  BY <1>12 DEF vars
<1> QED
  BY <1>4, <1>5, <1>6, <1>7, <1>8, <1>9, <1>10, <1>11, <1>12
    DEF Next, Step, Finished

------------------------------------------------------------------------------
(* A caller that takes no step keeps its own part of the invariant when the *)
(* key is not written, and when it is, for Redis then marks it as touched.  *)
LEMMA BystanderOk ==
    ASSUME TypeOK, NEW d \in Callers, CallerOk(d),
           pc'[d] = pc[d], call'[d] = call[d], result'[d] = result[d],
           read'[d] = read[d],
           touched'[d] \/ (touched'[d] = touched[d] /\ state' = state)
    PROVE  CallerOk(d)'
BY DEF CallerOk

(* What a step of one caller leaves alone in the others.                    *)
LEMMA OthersKept ==
    ASSUME TypeOK, NEW c \in Callers, NEW d \in Callers, c # d,
           Invoke(c) \/ Step(c) \/ Lose(c)
    PROVE  /\ pc'[d] = pc[d] /\ call'[d] = call[d] /\ result'[d] = result[d]
           /\ read'[d] = read[d]
           /\ touched'[d] \/ (touched'[d] = touched[d] /\ state' = state)
<1> USE DEF TypeOK, NoWrite, Touch
<1>1. CASE Invoke(c)
  BY <1>1 DEF Invoke, Goto
<1>2. CASE Set(c)
  BY <1>2 DEF Set, BlindWrite, Return, Goto
<1>3. CASE Watch(c)
  BY <1>3 DEF Watch, Goto
<1>4. CASE Get(c)
  BY <1>4 DEF Get, Return, Goto
<1>5. CASE Execute(c)
  BY <1>5 DEF Execute, MergeWrite, Return, Goto
<1>6. CASE Retry(c)
  BY <1>6 DEF Retry, Goto
<1>7. CASE Lose(c)
  BY <1>7 DEF Lose, BlindWrite, MergeWrite, Return, Goto
<1> QED
  BY <1>1, <1>2, <1>3, <1>4, <1>5, <1>6, <1>7 DEF Step

(* A caller that takes a step keeps its own part of the invariant.          *)
LEMMA ActorOk ==
    ASSUME TypeOK, NEW c \in Callers, CallerOk(c), Invoke(c) \/ Step(c) \/ Lose(c)
    PROVE  CallerOk(c)'
<1> USE DEF TypeOK
<1>1. ASSUME NEW code \in Codes \ {"none"}, NEW v, Return(c, code, v), UNCHANGED call,
             pc[c] # "idle"
      PROVE  CallerOk(c)'
  BY <1>1 DEF Return, Goto, Answer, CallerOk
<1>2. CASE Invoke(c)
  <2>1. PICK o \in Call : /\ call'[c] = o
                          /\ pc'[c] = IF o.kind = "set" THEN "set" ELSE "watch"
    BY <1>2 DEF Invoke, Goto
  <2>2. result'[c] = result[c] /\ pc[c] = "idle"
    BY <1>2 DEF Invoke
  <2>3. o # None /\ (o \in SetCall \/ o \in UpdateCall)
    BY NoneApart DEF Call
  <2> QED
    BY <2>1, <2>2, <2>3, NoneApart DEF CallerOk
<1>3. CASE Set(c)
  BY <1>1, <1>3 DEF Set, Codes
<1>4. CASE Watch(c)
  BY <1>4 DEF Watch, Goto, CallerOk
<1>5. CASE Get(c)
  <2>1. CASE \E code \in Codes : Refused(call[c], state, code) /\ Return(c, code, 0)
    <3>1. PICK code \in Codes : Refused(call[c], state, code) /\ Return(c, code, 0)
      BY <2>1
    <3>2. code # "none"
      BY <3>1 DEF Refused
    <3> QED
      BY <1>1, <1>5, <3>1, <3>2 DEF Get
  <2>2. CASE Accepted(call[c], state) /\ Goto(c, "exec") /\ UNCHANGED result
    <3>1. /\ pc[c] = "get" /\ pc'[c] = "exec" /\ call' = call /\ result' = result
          /\ state' = state /\ read'[c] = state
      BY <1>5, <2>2 DEF Get, Goto, NoWrite
    <3> QED
      BY <2>2, <3>1 DEF CallerOk
  <2> QED
    BY <1>5, <2>1, <2>2 DEF Get
<1>6. CASE Execute(c)
  BY <1>1, <1>6 DEF Execute, Codes
<1>7. CASE Retry(c)
  BY <1>7 DEF Retry, Goto, CallerOk
<1>8. CASE Lose(c)
  BY <1>1, <1>8 DEF Lose, Codes
<1> QED
  BY <1>2, <1>3, <1>4, <1>5, <1>6, <1>7, <1>8 DEF Step

(* Every step keeps the invariant of the optimistic loop.                   *)
LEMMA LoopStep == TypeOK /\ Loop /\ [Next]_vars => Loop'
<1> SUFFICES ASSUME TypeOK, Loop, [Next]_vars, NEW d \in Callers
             PROVE  CallerOk(d)'
  BY DEF Loop
<1>1. CallerOk(d)
  BY DEF Loop
<1>2. CASE \E c \in Callers : Invoke(c) \/ Step(c) \/ Lose(c)
  <2>1. PICK c \in Callers : Invoke(c) \/ Step(c) \/ Lose(c)
    BY <1>2
  <2>2. CASE c = d
    BY <1>1, <2>1, <2>2, ActorOk
  <2>3. CASE c # d
    BY <1>1, <2>1, <2>3, OthersKept, BystanderOk
  <2> QED
    BY <2>2, <2>3
<1>3. CASE Expire
  BY <1>1, <1>3, BystanderOk DEF Expire, Touch, TypeOK
<1>4. CASE UNCHANGED vars
  BY <1>1, <1>4, BystanderOk DEF vars
<1> QED
  BY <1>2, <1>3, <1>4 DEF Next, Finished

------------------------------------------------------------------------------
(* An update that Redis executes is applied to the blob it was checked on.  *)
LEMMA ExecutesOnState ==
    ASSUME TypeOK, Loop, NEW c \in Callers, pc[c] = "exec", ~touched[c]
    PROVE  /\ read[c] = state /\ state \in Blob
           /\ call[c] \in UpdateCall /\ Accepted(call[c], state)
BY DEF TypeOK, Loop, CallerOk, Accepted

(* What a step does to the blob: nothing, a blind write, an update of the   *)
(* stored blob, or its removal.                                             *)
LEMMA Writes ==
    ASSUME TypeOK, Loop, [Next]_vars
    PROVE  \/ NoWrite
           \/ UNCHANGED <<state, merged, blind>>
           \/ \E c \in Callers : call[c] \in SetCall /\ BlindWrite(c)
           \/ \E c \in Callers : /\ read[c] = state /\ state \in Blob
                                 /\ MergeWrite(c)
           \/ state' = None /\ merged' = {} /\ UNCHANGED blind
<1>1. ASSUME NEW c \in Callers, Invoke(c) \/ Watch(c) \/ Get(c) \/ Retry(c)
      PROVE  UNCHANGED <<state, merged, blind>>
  BY <1>1 DEF Invoke, Watch, Get, Retry, NoWrite
<1>2. ASSUME NEW c \in Callers, Set(c) \/ (Lose(c) /\ pc[c] = "set" /\ BlindWrite(c))
      PROVE  call[c] \in SetCall /\ BlindWrite(c)
  BY <1>2 DEF Set, Loop, CallerOk
<1>3. ASSUME NEW c \in Callers,
             Execute(c) \/ (Lose(c) /\ pc[c] = "exec" /\ ~touched[c] /\ MergeWrite(c))
      PROVE  read[c] = state /\ state \in Blob /\ MergeWrite(c)
  BY <1>3, ExecutesOnState DEF Execute
<1>4. ASSUME NEW c \in Callers, Lose(c)
      PROVE  \/ NoWrite
             \/ pc[c] = "set" /\ BlindWrite(c)
             \/ pc[c] = "exec" /\ ~touched[c] /\ MergeWrite(c)
  BY <1>4 DEF Lose
<1>5. CASE Expire
  BY <1>5 DEF Expire
<1>6. CASE UNCHANGED vars
  BY <1>6 DEF vars
<1> QED
  BY <1>1, <1>2, <1>3, <1>4, <1>5, <1>6 DEF Next, Step, Finished

(* Every step keeps the applied mutations in the blob.                      *)
LEMMA UpdatesStep == TypeOK /\ Loop /\ NoUpdateLost /\ [Next]_vars => NoUpdateLost'
<1> SUFFICES ASSUME TypeOK, Loop, NoUpdateLost, [Next]_vars PROVE NoUpdateLost'
  OBVIOUS
<1>1. CASE UNCHANGED <<state, merged, blind>>
  BY <1>1 DEF NoUpdateLost
<1>2. ASSUME NEW c \in Callers, BlindWrite(c) PROVE NoUpdateLost'
  BY <1>2 DEF NoUpdateLost, BlindWrite, SetBlob
<1>3. ASSUME NEW c \in Callers, read[c] = state, state \in Blob, MergeWrite(c)
      PROVE  NoUpdateLost'
  <2>1. state # None
    BY <1>3, NoneApart
  <2>2. state' = UpdatedBlob(c, state) /\ merged' = merged \cup {c}
    BY <1>3 DEF MergeWrite
  <2> QED
    BY <1>3, <2>1, <2>2, UpdatedBlobType DEF NoUpdateLost
<1>4. CASE state' = None
  BY <1>4 DEF NoUpdateLost
<1> QED
  BY <1>1, <1>2, <1>3, <1>4, Writes DEF NoWrite

------------------------------------------------------------------------------
(* Only the transaction of a caller gives it the answer of an accepted      *)
(* update, and no later step takes the answer back.                         *)
LEMMA OkUpdateKept ==
    ASSUME TypeOK, Loop, [Next]_vars, NEW d \in Callers, ~Execute(d), OkUpdate(d)'
    PROVE  OkUpdate(d) /\ result'[d] = result[d]
<1> USE DEF TypeOK, Loop
<1>1. CASE \E c \in Callers : c # d /\ (Invoke(c) \/ Step(c) \/ Lose(c))
  BY <1>1, OthersKept DEF OkUpdate
<1>2. CASE Invoke(d)
  <2>1. result'[d] = result[d] /\ result[d].code = "none"
    BY <1>2 DEF Invoke, CallerOk
  <2> QED
    BY <2>1 DEF OkUpdate
<1>3. CASE Set(d)
  BY <1>3, NoneApart DEF Set, CallerOk, OkUpdate
<1>4. CASE Watch(d) \/ Retry(d)
  BY <1>4 DEF Watch, Retry, OkUpdate
<1>5. CASE Get(d)
  <2>1. ASSUME NEW code \in Codes, Refused(call[d], state, code), Return(d, code, 0)
        PROVE  result'[d].code # "ok"
    BY <2>1 DEF Refused, Return, Answer
  <2>2. CASE UNCHANGED result
    BY <1>5, <2>2 DEF Get, OkUpdate
  <2> QED
    BY <1>5, <2>1, <2>2 DEF Get, OkUpdate
<1>6. CASE Lose(d)
  BY <1>6 DEF Lose, Return, Answer, OkUpdate
<1>7. CASE Expire \/ UNCHANGED vars
  BY <1>7 DEF Expire, vars, OkUpdate
<1> QED
  BY <1>1, <1>2, <1>3, <1>4, <1>5, <1>6, <1>7 DEF Next, Step, Finished

(* Before the second blind write, an executed update gets the version after *)
(* that of the blob, which no earlier update had.                           *)
LEMMA VersionStep ==
    TypeOK /\ Loop /\ Bounded /\ VersionsUnique /\ [Next]_vars
        => Bounded' /\ VersionsUnique'
<1> SUFFICES ASSUME TypeOK, Loop, Bounded, VersionsUnique, [Next]_vars
             PROVE  Bounded' /\ VersionsUnique'
  OBVIOUS
<1>1. \A d \in Callers : ~Execute(d) /\ OkUpdate(d)' => OkUpdate(d) /\ result'[d] = result[d]
  BY OkUpdateKept
<1>2. CASE \E c \in Callers : Execute(c)
  <2>1. PICK c \in Callers : Execute(c)
    BY <1>2
  <2>2. /\ state \in Blob /\ state # None
        /\ state' = UpdatedBlob(c, state) /\ blind' = blind
        /\ result' = [result EXCEPT ![c] = Answer("ok", state.version + 1)]
        /\ call' = call
    BY <2>1, ExecutesOnState, NoneApart DEF Execute, MergeWrite, Return
  <2>3. state.version \in Nat /\ state'.version = state.version + 1
    BY <2>2, UpdatedBlobType DEF Blob
  <2>4. blind \in Nat /\ blind # 0
    BY <2>2 DEF Bounded, TypeOK
  <2>5. result'[c].version = state.version + 1
    BY <2>2 DEF TypeOK, Answer
  <2>6. \A d \in Callers \ {c} : OkUpdate(d)' => OkUpdate(d) /\ result'[d] = result[d]
    BY <2>2 DEF TypeOK, OkUpdate
  <2>7. \A d \in Callers : result[d].version \in Nat
    BY DEF TypeOK, Result
  <2>8. blind <= 1 =>
          \A d \in Callers \ {c} : OkUpdate(d)' => result'[d].version <= state.version
    BY <2>2, <2>6 DEF Bounded
  <2>9. Bounded'
    BY <2>2, <2>3, <2>4, <2>5, <2>6, <2>7, <2>8 DEF Bounded
  <2>10. VersionsUnique'
    <3> SUFFICES ASSUME blind <= 1, NEW a \in Callers, NEW b \in Callers,
                        OkUpdate(a)', OkUpdate(b)', result'[a].version = result'[b].version
                 PROVE  a = b
      BY <2>2 DEF VersionsUnique, OkUpdate
    <3>1. CASE a = c \/ b = c
      BY <2>3, <2>5, <2>6, <2>7, <2>8, <3>1
    <3>2. CASE a # c /\ b # c
      BY <2>6, <3>2 DEF VersionsUnique, OkUpdate
    <3> QED
      BY <3>1, <3>2
  <2> QED
    BY <2>9, <2>10
<1>3. CASE \A c \in Callers : ~Execute(c)
  <2>1. \A d \in Callers : OkUpdate(d)' => OkUpdate(d) /\ result'[d] = result[d]
    BY <1>1, <1>3
  <2>2. blind \in Nat
    BY DEF TypeOK
  <2>3. CASE UNCHANGED <<state, blind>>
    BY <2>1, <2>3 DEF Bounded, VersionsUnique, OkUpdate
  <2>4. ASSUME blind' = blind + 1 PROVE Bounded' /\ VersionsUnique'
    <3>1. blind' # 0 /\ (blind' <= 1 => \A d \in Callers : ~OkUpdate(d)')
      BY <2>1, <2>2, <2>4 DEF Bounded
    <3> QED
      BY <3>1 DEF Bounded, VersionsUnique, OkUpdate
  <2>5. ASSUME NEW c \in Callers, state \in Blob, state' = UpdatedBlob(c, state), blind' = blind
        PROVE  Bounded' /\ VersionsUnique'
    <3>1. state # None /\ state.version \in Nat /\ state'.version = state.version + 1
      BY <2>5, NoneApart, UpdatedBlobType DEF Blob
    <3>2. \A d \in Callers : result[d].version \in Nat
      BY DEF TypeOK, Result
    <3>3. Bounded'
      BY <2>1, <2>5, <3>1, <3>2 DEF Bounded
    <3>4. VersionsUnique'
      BY <2>1, <2>5 DEF VersionsUnique, OkUpdate
    <3> QED
      BY <3>3, <3>4
  <2>6. CASE state' = None /\ UNCHANGED blind
    BY <2>1, <2>6 DEF Bounded, VersionsUnique, OkUpdate
  <2> QED
    BY <2>3, <2>4, <2>5, <2>6, Writes DEF NoWrite, BlindWrite, MergeWrite
<1> QED
  BY <1>2, <1>3

(* The invariant is inductive.                                              *)
LEMMA NextInv == Inv /\ [Next]_vars => Inv'
BY TypeStep, LoopStep, UpdatesStep, VersionStep DEF Inv

(* Every reachable state satisfies the invariant.                           *)
LEMMA Invariance == Spec => []Inv
BY InitInv, NextInv, PTL DEF Spec

(* Every variable of the store keeps its type, for every number of callers. *)
THEOREM StoreTypeCorrect == Spec => []TypeOK
BY Invariance, PTL DEF Inv

(* No applied mutation is overwritten by an update that did not see it: the *)
(* WATCH, GET, EXEC loop loses no update.                                   *)
THEOREM NoLostUpdates == Spec => []NoUpdateLost
BY Invariance, PTL DEF Inv

(* Until the blob is written as a whole a second time, each accepted update *)
(* answers a version of its own.                                            *)
THEOREM UniqueVersions == Spec => []VersionsUnique
BY Invariance, PTL DEF Inv

------------------------------------------------------------------------------
(* The register starts where the store starts.                              *)
LEMMA InitAtomic == Init => Atomic!Init
BY DEF Init, Atomic!Init, Answer, Atomic!Answer

(* A caller between its call and its answer is pending in the register.     *)
LEMMA PendingAtomic ==
    ASSUME Loop, NEW c \in Callers, call' = call
    PROVE  /\ pc[c] = "set" => Atomic!Pending(c, "set")
           /\ pc[c] \in {"watch", "get", "exec"} => Atomic!Pending(c, "update")
BY NoneApart DEF Loop, CallerOk, Call, Atomic!Pending

(* Each step of the store is one step of the register or none: a SET and an *)
(* EXEC take effect, a failed check answers, and the rest is invisible.     *)
LEMMA StepAtomic ==
    ASSUME TypeOK, Loop, NEW c \in Callers, Invoke(c) \/ Step(c) \/ Lose(c)
    PROVE  Atomic!Next \/ UNCHANGED Atomic!vars
<1> USE DEF Return, Answer, Atomic!Answered, Atomic!Answer
<1>1. CASE Invoke(c)
  <2>1. call[c] = None
    BY <1>1 DEF Invoke, Loop, CallerOk
  <2>2. Call = Atomic!Call
    BY DEF Call, SetCall, UpdateCall, Atomic!Call, Atomic!SetCall, Atomic!UpdateCall
  <2>3. (\E o \in Call : call' = [call EXCEPT ![c] = o]) /\ UNCHANGED <<state, result>>
    BY <1>1 DEF Invoke, NoWrite
  <2>4. Atomic!Invoke(c)
    BY <2>1, <2>2, <2>3 DEF Atomic!Invoke
  <2> QED
    BY <2>4 DEF Atomic!Next
<1>2. CASE Set(c)
  <2>1. Atomic!Pending(c, "set")
    BY <1>2, PendingAtomic DEF Set
  <2>2. state' = SetBlob(c, call[c]) /\ result' = [result EXCEPT ![c] = Answer("ok", call[c].version)]
    BY <1>2 DEF Set, BlindWrite
  <2>3. Atomic!Set(c)
    BY <2>1, <2>2 DEF Atomic!Set, SetBlob, Atomic!SetBlob
  <2> QED
    BY <2>3 DEF Atomic!Next
<1>3. CASE Watch(c) \/ Retry(c)
  BY <1>3 DEF Watch, Retry, NoWrite, Atomic!vars
<1>4. CASE Get(c)
  <2>1. ASSUME NEW code \in Codes, Refused(call[c], state, code), Return(c, code, 0)
        PROVE  Atomic!Refuse(c)
    <3>1. Atomic!Pending(c, "update") /\ state' = state
      BY <1>4, PendingAtomic DEF Get, NoWrite
    <3>2. Atomic!Refused(call[c], state, code) /\ code \in Atomic!Codes
      BY <2>1 DEF Refused, Expected, Codes, Atomic!Refused, Atomic!Expected, Atomic!Codes
    <3>3. Atomic!Answered(c, code, 0)
      BY <2>1
    <3> QED
      BY <3>1, <3>2, <3>3 DEF Atomic!Refuse
  <2>2. CASE UNCHANGED result
    BY <1>4, <2>2 DEF Get, NoWrite, Atomic!vars
  <2> QED
    BY <1>4, <2>1, <2>2 DEF Get, Atomic!Next
<1>5. CASE Execute(c)
  <2>1. Atomic!Pending(c, "update")
    BY <1>5, PendingAtomic DEF Execute
  <2>2. /\ Accepted(call[c], state) /\ state \in Blob /\ state' = UpdatedBlob(c, state)
        /\ result' = [result EXCEPT ![c] = Answer("ok", state.version + 1)]
    BY <1>5, ExecutesOnState DEF Execute, MergeWrite
  <2>3. state'.version = state.version + 1
    BY <2>2, UpdatedBlobType
  <2>4. Atomic!Accepted(call[c], state) /\ state' = Atomic!UpdatedBlob(c, state)
    BY <2>2 DEF Accepted, Expected, UpdatedBlob, Atomic!Accepted, Atomic!Expected,
                Atomic!UpdatedBlob
  <2>5. Atomic!Update(c)
    BY <2>1, <2>2, <2>3, <2>4 DEF Atomic!Update
  <2> QED
    BY <2>5 DEF Atomic!Next
<1>6. CASE Lose(c)
  <2>1. Atomic!Answered(c, "error", 0) /\ call' = call
    BY <1>6 DEF Lose
  <2>2. Atomic!Pending(c, "set") \/ Atomic!Pending(c, "update")
    BY <1>6, <2>1, PendingAtomic DEF Lose
  <2>3. CASE NoWrite
    BY <2>1, <2>2, <2>3 DEF NoWrite, Atomic!Lose, Atomic!Next
  <2>4. CASE pc[c] = "set" /\ BlindWrite(c)
    <3>1. Atomic!Pending(c, "set") /\ state' = SetBlob(c, call[c])
      BY <2>1, <2>4, PendingAtomic DEF BlindWrite
    <3>2. Atomic!Lose(c)
      BY <2>1, <3>1 DEF Atomic!Lose, SetBlob, Atomic!SetBlob
    <3> QED
      BY <3>2 DEF Atomic!Next
  <2>5. CASE pc[c] = "exec" /\ ~touched[c] /\ MergeWrite(c)
    <3>1. /\ Atomic!Pending(c, "update") /\ Accepted(call[c], state)
          /\ state' = UpdatedBlob(c, state)
      BY <2>1, <2>5, PendingAtomic, ExecutesOnState DEF MergeWrite
    <3>2. Atomic!Accepted(call[c], state) /\ state' = Atomic!UpdatedBlob(c, state)
      BY <3>1 DEF Accepted, Expected, UpdatedBlob, Atomic!Accepted, Atomic!Expected,
                  Atomic!UpdatedBlob
    <3>3. Atomic!Lose(c)
      BY <2>1, <3>1, <3>2 DEF Atomic!Lose
    <3> QED
      BY <3>3 DEF Atomic!Next
  <2> QED
    BY <1>6, <2>3, <2>4, <2>5 DEF Lose
<1> QED
  BY <1>1, <1>2, <1>3, <1>4, <1>5, <1>6 DEF Step

(* Every step of the store is a step of the register or a stutter.          *)
LEMMA NextAtomic == TypeOK /\ Loop /\ [Next]_vars => [Atomic!Next]_(Atomic!vars)
<1> SUFFICES ASSUME TypeOK, Loop, [Next]_vars
             PROVE  Atomic!Next \/ UNCHANGED Atomic!vars
  OBVIOUS
<1>1. CASE \E c \in Callers : Invoke(c) \/ Step(c) \/ Lose(c)
  BY <1>1, StepAtomic
<1>2. CASE Expire
  BY <1>2 DEF Expire, Atomic!Expire, Atomic!Next
<1>3. CASE UNCHANGED vars
  BY <1>3 DEF vars, Atomic!vars
<1> QED
  BY <1>1, <1>2, <1>3 DEF Next, Finished

(* The store implements the versioned register: WATCH, GET, the checks and  *)
(* EXEC look like one atomic update, whatever the other callers do between  *)
(* them, whatever expires and whichever connections are lost.               *)
THEOREM StoreIsAtomic == Spec => AtomicSpec
BY InitAtomic, NextAtomic, Invariance, PTL DEF Spec, AtomicSpec, Atomic!Spec, Inv
------------------------------------------------------------------------------
(* The lists of events hold calls that have pushed, each in the list of its own *)
(* name, and a call that has returned finds its list with a time to live.       *)
ListsInv ==
    /\ lists \in [Keys -> Seq(Appenders)]
    /\ ttl \subseteq {k \in Keys : lists[k] # <<>>}
    /\ at \in [Appenders -> {"idle", "push", "expire", "done", "failed"}]
    /\ listOf \in [Appenders -> EventNames \cup {Absent}]
    /\ \A c \in Appenders : ~At(c, "idle") => listOf[c] \in EventNames
    /\ \A k \in Keys : \A c \in Elements(lists[k]) :
         /\ ~At(c, "idle") /\ ~At(c, "push") /\ k = KeyOfCall(c)
         /\ TtlConfigured /\ At(c, "done") => k \in ttl

\* The events of a list after a push.
LEMMA PushedElements ==
    ASSUME NEW S, NEW seq \in Seq(S), NEW c \in S
    PROVE  /\ Append(seq, c) \in Seq(S) /\ Append(seq, c) # <<>>
           /\ Elements(Append(seq, c)) = Elements(seq) \cup {c}
<1>1. /\ Len(seq) \in Nat /\ Append(seq, c) \in Seq(S) /\ Len(Append(seq, c)) = Len(seq) + 1
      /\ \A i \in 1..Len(seq) : Append(seq, c)[i] = seq[i]
      /\ Append(seq, c)[Len(seq) + 1] = c
      /\ DOMAIN seq = 1..Len(seq) /\ DOMAIN Append(seq, c) = 1..(Len(seq) + 1)
  OBVIOUS
<1>2. 1..(Len(seq) + 1) = (1..Len(seq)) \cup {Len(seq) + 1}
  BY <1>1
<1>3. Append(seq, c) # <<>>
  BY <1>1
<1>4. Elements(Append(seq, c)) = Elements(seq) \cup {c}
  BY <1>1, <1>2 DEF Elements
<1> QED
  BY <1>1, <1>3, <1>4

LEMMA EventsInitInv == EventsInit => ListsInv
<1> SUFFICES ASSUME EventsInit PROVE ListsInv
  OBVIOUS
<1>1. <<>> \in Seq(Appenders) /\ Elements(<<>>) = {}
  BY DEF Elements
<1> QED
  BY <1>1 DEF EventsInit, ListsInv, At

\* A call that pushes is in its own list, and no other changes.
LEMMA PushKeeps ==
    ASSUME ListsInv, NEW c \in Appenders, At(c, "push"), RPush(c),
           NEW then \in {"expire", "done", "failed"}, Go(c, then),
           TtlConfigured => then # "done", UNCHANGED <<ttl, listOf>>
    PROVE  ListsInv'
<1> DEFINE key == KeyOfCall(c)
<1>1. key \in Keys /\ listOf[c] \in EventNames
  BY DEF ListsInv, At, Keys, KeyOfCall
<1>2. lists[key] \in Seq(Appenders)
  BY <1>1 DEF ListsInv
<1>3. lists' = [lists EXCEPT ![key] = Append(lists[key], c)]
  BY DEF RPush
<1>4. at' = [at EXCEPT ![c] = then] /\ \A d \in Appenders : d # c => at'[d] = at[d]
  BY DEF Go, ListsInv
<1>5. at'[c] = then
  BY <1>4 DEF ListsInv
<1>6. \A d \in Appenders : KeyOfCall(d)' = KeyOfCall(d)
  BY DEF KeyOfCall
<1> HIDE DEF key
<1>7. /\ Append(lists[key], c) \in Seq(Appenders) /\ Append(lists[key], c) # <<>>
      /\ Elements(Append(lists[key], c)) = Elements(lists[key]) \cup {c}
  BY <1>2, PushedElements
<1>8. lists' \in [Keys -> Seq(Appenders)] /\ ttl' \subseteq {k \in Keys : lists'[k] # <<>>}
  BY <1>1, <1>3, <1>7 DEF ListsInv
<1>9. /\ at' \in [Appenders -> {"idle", "push", "expire", "done", "failed"}]
      /\ listOf' \in [Appenders -> EventNames \cup {Absent}]
      /\ \A d \in Appenders : ~At(d, "idle")' => listOf'[d] \in EventNames
  BY <1>1, <1>4, <1>5 DEF ListsInv, At
<1>10. ASSUME NEW k \in Keys, NEW d \in Elements(lists'[k])
       PROVE  /\ ~At(d, "idle")' /\ ~At(d, "push")' /\ k = KeyOfCall(d)'
              /\ TtlConfigured /\ At(d, "done")' => k \in ttl'
  <2>1. d \in Elements(lists[k]) \/ (k = key /\ d = c)
    BY <1>1, <1>3, <1>7, <1>10 DEF ListsInv
  <2>2. CASE d = c
    <3>1. k = key
      BY <2>1, <2>2 DEF ListsInv, key
    <3> QED
      BY <1>5, <1>6, <2>2, <3>1 DEF At, key
  <2>3. CASE d # c /\ d \in Elements(lists[k])
    <3>1. d \in Appenders
      BY <2>3 DEF ListsInv, Elements
    <3> QED
      BY <1>4, <1>6, <2>3, <3>1 DEF ListsInv, At
  <2> QED
    BY <2>1, <2>2, <2>3
<1> QED
  BY <1>8, <1>9, <1>10 DEF ListsInv

\* Every command of a call, and the expiry of a list, keeps the invariant.
LEMMA ListsStep == ListsInv /\ [EventsNext]_eventVars => ListsInv'
<1> SUFFICES ASSUME ListsInv, [EventsNext]_eventVars PROVE ListsInv'
  OBVIOUS
<1>1. ASSUME NEW c \in Appenders, NEW n \in EventNames, AppendEvent(c, n) PROVE ListsInv'
  <2>1. /\ at' = [at EXCEPT ![c] = "push"] /\ listOf' = [listOf EXCEPT ![c] = n]
        /\ lists' = lists /\ ttl' = ttl /\ At(c, "idle")
    BY <1>1 DEF AppendEvent, Go
  <2>2. /\ at' \in [Appenders -> {"idle", "push", "expire", "done", "failed"}]
        /\ listOf' \in [Appenders -> EventNames \cup {Absent}]
        /\ \A d \in Appenders : ~At(d, "idle")' => listOf'[d] \in EventNames
    BY <2>1 DEF ListsInv, At
  <2>3. ASSUME NEW k \in Keys, NEW d \in Elements(lists[k])
        PROVE  /\ ~At(d, "idle")' /\ ~At(d, "push")' /\ k = KeyOfCall(d)'
               /\ TtlConfigured /\ At(d, "done")' => k \in ttl
    <3>1. d # c /\ d \in Appenders
      BY <2>1 DEF ListsInv, Elements
    <3> QED
      BY <2>1, <3>1 DEF ListsInv, At, KeyOfCall
  <2> QED
    BY <2>1, <2>2, <2>3 DEF ListsInv
<1>2. ASSUME NEW c \in Appenders, Push(c) PROVE ListsInv'
  BY <1>2, PushKeeps DEF Push
<1>3. ASSUME NEW c \in Appenders, SetTtl(c) PROVE ListsInv'
  <2>1. /\ at' = [at EXCEPT ![c] = "done"] /\ listOf' = listOf /\ lists' = lists /\ At(c, "expire")
        /\ ttl' = ttl \cup ({KeyOfCall(c)} \cap {k \in Keys : lists[k] # <<>>})
    BY <1>3 DEF SetTtl, Expiry, Go
  <2>2. ASSUME NEW k \in Keys, NEW d \in Elements(lists[k])
        PROVE  /\ ~At(d, "idle")' /\ ~At(d, "push")' /\ k = KeyOfCall(d)'
               /\ TtlConfigured /\ At(d, "done")' => k \in ttl'
    <3>1. d \in Appenders /\ lists[k] # <<>>
      BY DEF ListsInv, Elements
    <3>2. /\ ~At(d, "idle") /\ ~At(d, "push") /\ k = KeyOfCall(d)
          /\ TtlConfigured /\ At(d, "done") => k \in ttl
      BY DEF ListsInv
    <3> QED
      BY <2>1, <3>1, <3>2 DEF ListsInv, At, KeyOfCall
  <2>3. ttl' \subseteq {k \in Keys : lists'[k] # <<>>}
    BY <2>1 DEF ListsInv
  <2>4. /\ at' \in [Appenders -> {"idle", "push", "expire", "done", "failed"}]
        /\ \A d \in Appenders : ~At(d, "idle")' => listOf'[d] \in EventNames
    BY <2>1 DEF ListsInv, At
  <2> QED
    BY <2>1, <2>2, <2>3, <2>4 DEF ListsInv
<1>4. ASSUME NEW c \in Appenders, CommandFails(c) PROVE ListsInv'
  <2>1. CASE At(c, "push") /\ RPush(c)
    <3>1. Go(c, "failed") /\ UNCHANGED <<ttl, listOf>>
      BY <1>4, <2>1 DEF CommandFails, At
    <3> QED
      BY <2>1, <3>1, PushKeeps
  <2>2. CASE lists' = lists
    <3>1. /\ at' = [at EXCEPT ![c] = "failed"] /\ listOf' = listOf /\ ~At(c, "idle")
          /\ ttl \subseteq ttl' /\ ttl' \subseteq ttl \cup {k \in Keys : lists[k] # <<>>}
      BY <1>4 DEF CommandFails, Expiry, Go, At
    <3>2. ASSUME NEW k \in Keys, NEW d \in Elements(lists[k])
          PROVE  /\ ~At(d, "idle")' /\ ~At(d, "push")' /\ k = KeyOfCall(d)'
                 /\ TtlConfigured /\ At(d, "done")' => k \in ttl'
      <4>1. d \in Appenders
        BY DEF ListsInv, Elements
      <4> QED
        BY <3>1, <4>1 DEF ListsInv, At, KeyOfCall
    <3>3. /\ at' \in [Appenders -> {"idle", "push", "expire", "done", "failed"}]
          /\ \A d \in Appenders : ~At(d, "idle")' => listOf'[d] \in EventNames
      BY <3>1 DEF ListsInv, At
    <3> QED
      BY <2>2, <3>1, <3>2, <3>3 DEF ListsInv
  <2> QED
    BY <1>4, <2>1, <2>2 DEF CommandFails
<1>5. ASSUME NEW key \in Keys, ListExpires(key) PROVE ListsInv'
  <2>1. /\ lists' = [lists EXCEPT ![key] = <<>>] /\ ttl' = ttl \ {key}
        /\ at' = at /\ listOf' = listOf
    BY <1>5 DEF ListExpires
  <2>2. <<>> \in Seq(Appenders) /\ Elements(<<>>) = {}
    BY DEF Elements
  <2>3. lists' \in [Keys -> Seq(Appenders)] /\ ttl' \subseteq {k \in Keys : lists'[k] # <<>>}
    BY <2>1, <2>2 DEF ListsInv
  <2>4. ASSUME NEW k \in Keys, NEW d \in Elements(lists'[k])
        PROVE  /\ ~At(d, "idle") /\ ~At(d, "push") /\ k = KeyOfCall(d)
               /\ TtlConfigured /\ At(d, "done") => k \in ttl'
    <3>1. k # key /\ d \in Elements(lists[k])
      BY <2>1, <2>2 DEF ListsInv
    <3> QED
      BY <2>1, <3>1 DEF ListsInv
  <2> QED
    BY <2>1, <2>3, <2>4 DEF ListsInv, At, KeyOfCall
<1>6. CASE UNCHANGED eventVars
  BY <1>6 DEF ListsInv, eventVars, At, KeyOfCall, Elements
<1> QED
  BY <1>1, <1>2, <1>3, <1>4, <1>5, <1>6 DEF EventsNext, Quiet

(* An event that append_workflow_event answered for is in a list that expires,   *)
(* or has expired with it, whatever calls interleave their RPUSH and EXPIRE or   *)
(* lose one of them.                                                        *)
THEOREM ReturnedEventsExpire == EventsSpec => []ReturnedExpires
<1>1. EventsSpec => []ListsInv
  BY EventsInitInv, ListsStep, PTL DEF EventsSpec
<1>2. ListsInv => ReturnedExpires
  BY DEF ListsInv, ReturnedExpires, EventsTypeOK
<1> QED
  BY <1>1, <1>2, PTL
------------------------------------------------------------------------------
(* What FlattenSeq, which is a recursive function, makes of a sequence: the      *)
(* last of the concatenations of its beginnings.                              *)
LEMMA Flattened ==
    ASSUME NEW C, NEW q \in Seq(Seq(C))
    PROVE  \E h \in [0..Len(q) -> Seq(C)] :
              /\ h[0] = <<>> /\ h[Len(q)] = FlattenSeq(q)
              /\ \A i \in 1..Len(q) : h[i] = h[i - 1] \o q[i]
<1>1. PICK n \in Nat : n = Len(q) /\ DOMAIN q = 1..n
  OBVIOUS
<1>2. \A i \in 1..n : q[i] \in Seq(C)
  BY <1>1
<1>3. CASE n = 0
  <2>1. q = <<>> /\ <<>> \in Seq(C)
    BY <1>1, <1>3
  <2>2. FlattenSeq(q) = <<>>
    BY <1>1, <1>3, <2>1 DEF FlattenSeq
  <2> DEFINE h == [i \in 0..0 |-> <<>>]
  <2>3. h \in [0..0 -> Seq(C)] /\ h[0] = <<>>
    BY <2>1
  <2>4. \A i \in 1..0 : h[i] = h[i - 1] \o q[i]
    OBVIOUS
  <2> HIDE DEF h
  <2> QED
    BY <1>1, <1>3, <2>2, <2>3, <2>4
<1>4. CASE n # 0
  <2> DEFINE Rec(g, k) == g = [i \in 1..k |-> IF i = 1 THEN q[i] ELSE g[i - 1] \o q[i]]
  <2> DEFINE flatten == CHOOSE g : Rec(g, n)
  <2>1. FlattenSeq(q) = flatten[n]
    BY <1>1, <1>4, Zenon DEF FlattenSeq
  <2> DEFINE Bad == {k \in 1..n : ~ \E g : Rec(g, k)}
  <2>2. Bad = {}
    <3> SUFFICES ASSUME Bad # {} PROVE FALSE
      OBVIOUS
    <3>1. PICK k \in Bad : \A m \in Bad : k <= m
      <4> HIDE DEF Rec
      <4>1. Bad \in SUBSET Nat
        OBVIOUS
      <4> HIDE DEF Bad
      <4> QED
        BY <4>1, LeastNat
    <3>2. k \in 1..n /\ ~ \E g : Rec(g, k)
      OBVIOUS
    <3>3. CASE k = 1
      <4> DEFINE g == [i \in 1..1 |-> q[i]]
      <4>1. Rec(g, 1)
        OBVIOUS
      <4> HIDE DEF Rec, g
      <4> QED
        BY <3>2, <3>3, <4>1
    <3>4. CASE k # 1
      <4>1. k - 1 \in 1..n /\ ~(k <= k - 1) /\ k \in Nat /\ k \in 1..k /\ k - 1 \in 1..(k - 1)
            /\ 1..k = (1..(k - 1)) \cup {k} /\ k \notin 1..(k - 1)
        BY <3>2, <3>4
      <4>2. k - 1 \notin Bad
        <5> HIDE DEF Bad
        <5> QED
          BY <3>1, <4>1
      <4>3. PICK g : Rec(g, k - 1)
        <5> HIDE DEF Rec
        <5> QED
          BY <4>1, <4>2
      <4> HIDE DEF Bad
      <4>4. \A i \in 1..(k - 1) : g[i] = IF i = 1 THEN q[i] ELSE g[i - 1] \o q[i]
        BY <4>3
      <4>5. PICK x : x = g[k - 1] \o q[k]
        OBVIOUS
      <4> DEFINE f == [i \in 1..k |-> IF i = k THEN x ELSE g[i]]
      <4>6. f[k] = x /\ \A i \in 1..(k - 1) : f[i] = g[i]
        BY <4>1
      <4>7. DOMAIN f = 1..k /\ f = [i \in 1..k |-> f[i]]
        OBVIOUS
      <4> HIDE DEF f
      <4>8. \A i \in 1..k : f[i] = IF i = 1 THEN q[i] ELSE f[i - 1] \o q[i]
        <5> TAKE i \in 1..k
        <5>1. CASE i = k
          <6>1. f[i - 1] = g[k - 1]
            BY <4>1, <4>6, <5>1
          <6> QED
            BY <3>4, <4>5, <4>6, <5>1, <6>1
        <5>2. CASE i # k
          <6>1. i \in 1..(k - 1) /\ (i # 1 => i - 1 \in 1..(k - 1))
            BY <4>1, <5>2
          <6>2. f[i] = g[i] /\ (i # 1 => f[i - 1] = g[i - 1])
            BY <4>6, <6>1
          <6> QED
            BY <4>4, <6>1, <6>2
        <5> QED
          BY <5>1, <5>2
      <4>9. Rec(f, k)
        BY <4>7, <4>8
      <4> HIDE DEF Rec
      <4> QED
        BY <3>2, <4>9
    <3> QED
      BY <3>3, <3>4
  <2>3. Rec(flatten, n)
    <3>1. n \in 1..n
      BY <1>4
    <3>2. \E g : Rec(g, n)
      BY <2>2, <3>1
    <3> HIDE DEF Rec
    <3> QED
      BY <3>2
  <2>4. \A i \in 1..n : flatten[i] = IF i = 1 THEN q[i] ELSE flatten[i - 1] \o q[i]
    <3> HIDE DEF flatten
    <3> QED
      BY <2>3
  <2> HIDE DEF flatten, Rec, Bad
  <2> DEFINE Untyped == {k \in 1..n : flatten[k] \notin Seq(C)}
  <2>5. Untyped = {}
    <3> SUFFICES ASSUME Untyped # {} PROVE FALSE
      OBVIOUS
    <3>1. PICK k \in Untyped : \A m \in Untyped : k <= m
      <4>1. Untyped \in SUBSET Nat
        OBVIOUS
      <4> HIDE DEF Untyped
      <4> QED
        BY <4>1, LeastNat
    <3>2. k \in 1..n /\ flatten[k] \notin Seq(C) /\ k \in Nat
      OBVIOUS
    <3>3. k # 1
      BY <1>2, <2>4, <3>2
    <3>4. k - 1 \in 1..n /\ ~(k <= k - 1)
      BY <3>2, <3>3
    <3>5. flatten[k - 1] \in Seq(C)
      <4>1. k - 1 \notin Untyped
        <5> HIDE DEF Untyped
        <5> QED
          BY <3>1, <3>4
      <4> QED
        BY <3>4, <4>1
    <3>6. flatten[k] = flatten[k - 1] \o q[k] /\ q[k] \in Seq(C)
      BY <1>2, <2>4, <3>2, <3>3
    <3>7. \A a, b \in Seq(C) : a \o b \in Seq(C)
      OBVIOUS
    <3> QED
      BY <3>2, <3>5, <3>6, <3>7
  <2> DEFINE h == [i \in 0..n |-> IF i = 0 THEN <<>> ELSE flatten[i]]
  <2>6. h \in [0..n -> Seq(C)] /\ h[0] = <<>> /\ h[n] = flatten[n]
    BY <1>4, <2>5
  <2>7. \A i \in 1..n : h[i] = h[i - 1] \o q[i]
    <3> TAKE i \in 1..n
    <3>1. CASE i = 1
      <4>1. h[i] = q[i] /\ h[i - 1] = <<>> /\ <<>> \o q[i] = q[i]
        BY <1>2, <2>4, <3>1
      <4> QED
        BY <4>1
    <3>2. CASE i # 1
      <4>1. i - 1 \in 0..n /\ i - 1 # 0 /\ i \in 0..n /\ i # 0
        BY <3>2
      <4>2. h[i] = flatten[i] /\ h[i - 1] = flatten[i - 1]
        BY <4>1
      <4> QED
        BY <2>4, <3>2, <4>2
    <3> QED
      BY <3>1, <3>2
  <2> HIDE DEF h
  <2> QED
    BY <1>1, <2>1, <2>6, <2>7
<1> QED
  BY <1>3, <1>4
------------------------------------------------------------------------------
\* STRING, with the literals that the provers do not see are in it.
Char ==
    STRING \cup {":", "%", "2", "3", "5", "A", "_", "tenant", "user", "session", "events",
                 "workflow", "thread", "token", "workflow_events"}

\* What quote makes has no colon, and never ends with a quotation cut off.
Whole(e) ==
    /\ e \in Seq(Char)
    /\ \A i \in 1..Len(e) : e[i] # ":" /\ (i >= Len(e) - 1 => e[i] # "%")

\* The positions of a concatenation.
LEMMA Joined ==
    ASSUME NEW a \in Seq(Char), NEW b \in Seq(Char), NEW x, x = a \o b
    PROVE  /\ x \in Seq(Char) /\ Len(a) \in Nat /\ Len(b) \in Nat
           /\ Len(x) = Len(a) + Len(b)
           /\ \A i \in 1..Len(a) : x[i] = a[i]
           /\ \A i \in 1..Len(b) : x[Len(a) + i] = b[i]
OBVIOUS

LEMMA QuotedShape ==
    ASSUME NEW c \in Char
    PROVE  /\ Quoted(c) \in Seq(Char) /\ \A i \in 1..Len(Quoted(c)) : Quoted(c)[i] # ":"
           /\ \/ c \in {":", "%"} /\ Len(Quoted(c)) = 3 /\ Quoted(c)[1] = "%"
                 /\ Quoted(c)[2] = (IF c = ":" THEN "3" ELSE "2")
                 /\ Quoted(c)[3] = (IF c = ":" THEN "A" ELSE "5")
              \/ c \notin {":", "%"} /\ Len(Quoted(c)) = 1 /\ Quoted(c)[1] = c
<1>1. ASSUME NEW x \in Char, NEW y \in Char, NEW z \in Char
      PROVE  /\ <<x, y, z>> \in Seq(Char) /\ Len(<<x, y, z>>) = 3
             /\ <<x, y, z>>[1] = x /\ <<x, y, z>>[2] = y /\ <<x, y, z>>[3] = z
  OBVIOUS
<1>2. \A i \in 1..3 : i = 1 \/ i = 2 \/ i = 3
  OBVIOUS
<1>3. CASE c = ":"
  <2>1. Quoted(c) = <<"%", "3", "A">>
    BY <1>3 DEF Quoted
  <2>2. "%" \in Char /\ "3" \in Char /\ "A" \in Char
    BY DEF Char
  <2>3. /\ Quoted(c) \in Seq(Char) /\ Len(Quoted(c)) = 3
        /\ Quoted(c)[1] = "%" /\ Quoted(c)[2] = "3" /\ Quoted(c)[3] = "A"
    BY <1>1, <2>1, <2>2
  <2> QED
    BY <1>2, <1>3, <2>3
<1>4. CASE c = "%"
  <2>1. Quoted(c) = <<"%", "2", "5">>
    BY <1>4 DEF Quoted
  <2>2. "%" \in Char /\ "2" \in Char /\ "5" \in Char
    BY DEF Char
  <2>3. /\ Quoted(c) \in Seq(Char) /\ Len(Quoted(c)) = 3
        /\ Quoted(c)[1] = "%" /\ Quoted(c)[2] = "2" /\ Quoted(c)[3] = "5"
    BY <1>1, <2>1, <2>2
  <2> QED
    BY <1>2, <1>4, <2>3
<1>5. CASE c \notin {":", "%"}
  <2>1. Quoted(c) = <<c>>
    BY <1>5 DEF Quoted
  <2>2. Quoted(c) \in Seq(Char) /\ Len(Quoted(c)) = 1 /\ Quoted(c)[1] = c
    BY <2>1
  <2>3. \A i \in 1..1 : i = 1
    OBVIOUS
  <2> QED
    BY <1>5, <2>2, <2>3
<1> QED
  BY <1>3, <1>4, <1>5

\* Two sequences are one if their items are.
LEMMA SameItems ==
    ASSUME NEW a \in Seq(Char), NEW b \in Seq(Char), Len(a) = Len(b),
           \A i \in 1..Len(a) : a[i] = b[i]
    PROVE  a = b
<1>1. PICK n \in Nat : n = Len(a) /\ DOMAIN a = 1..n /\ DOMAIN b = 1..n
  OBVIOUS
<1>2. a = [i \in 1..n |-> a[i]] /\ b = [i \in 1..n |-> b[i]]
  BY <1>1
<1> QED
  BY <1>1, <1>2

\* Where the characters of a text with one more character quoted are.
LEMMA QuotedAfter ==
    ASSUME NEW e, Whole(e), NEW c \in Char, NEW x, x = e \o Quoted(c)
    PROVE  /\ x \in Seq(Char) /\ Len(e) \in Nat /\ Len(x) = Len(e) + Len(Quoted(c))
           /\ \A i \in 1..Len(e) : x[i] = e[i]
           /\ \A i \in 1..Len(Quoted(c)) : x[Len(e) + i] = Quoted(c)[i]
BY Joined, QuotedShape DEF Whole

LEMMA WholeGrows ==
    ASSUME NEW e, Whole(e), NEW c \in Char, NEW x, x = e \o Quoted(c)
    PROVE  Whole(x) /\ x # <<>>
<1>1. e \in Seq(Char) /\ Quoted(c) \in Seq(Char)
  BY QuotedShape DEF Whole
<1>2. /\ x \in Seq(Char) /\ Len(e) \in Nat /\ Len(x) = Len(e) + Len(Quoted(c))
      /\ \A i \in 1..Len(e) : x[i] = e[i]
      /\ \A i \in 1..Len(Quoted(c)) : x[Len(e) + i] = Quoted(c)[i]
  BY <1>1, Joined
<1>3. PICK n \in Nat : n = Len(e)
  BY <1>2
<1>4. CASE c \in {":", "%"}
  <2>1. Len(Quoted(c)) = 3 /\ Quoted(c)[1] # ":"
        /\ Quoted(c)[2] \in {"2", "3"} /\ Quoted(c)[3] \in {"A", "5"}
    BY <1>4, QuotedShape
  <2>2. Len(x) = n + 3 /\ x[n + 1] # ":" /\ x[n + 2] \in {"2", "3"} /\ x[n + 3] \in {"A", "5"}
    BY <1>2, <1>3, <2>1
  <2>3. \A i \in 1..(n + 3) :
          /\ i \in 1..n \/ i = n + 1 \/ i = n + 2 \/ i = n + 3
          /\ i >= (n + 3) - 1 => i = n + 2 \/ i = n + 3
    BY <1>3
  <2>4. \A i \in 1..n : x[i] # ":"
    BY <1>2, <1>3 DEF Whole
  <2>5. \A i \in 1..Len(x) : x[i] # ":" /\ (i >= Len(x) - 1 => x[i] # "%")
    BY <2>2, <2>3, <2>4
  <2> QED
    BY <1>2, <1>3, <2>2, <2>5 DEF Whole
<1>5. CASE c \notin {":", "%"}
  <2>1. Len(Quoted(c)) = 1 /\ Quoted(c)[1] = c
    BY <1>5, QuotedShape
  <2>2. Len(x) = n + 1 /\ x[n + 1] = c
    BY <1>2, <1>3, <2>1
  <2>3. \A i \in 1..(n + 1) :
          /\ i \in 1..n \/ i = n + 1
          /\ i >= (n + 1) - 1 => i = n + 1 \/ (i \in 1..n /\ i >= n - 1)
    BY <1>3
  <2>4. \A i \in 1..n : x[i] # ":" /\ (i >= n - 1 => x[i] # "%")
    BY <1>2, <1>3 DEF Whole
  <2>5. \A i \in 1..Len(x) : x[i] # ":" /\ (i >= Len(x) - 1 => x[i] # "%")
    BY <1>5, <2>2, <2>3, <2>4
  <2> QED
    BY <1>2, <1>3, <2>2, <2>5 DEF Whole
<1> QED
  BY <1>4, <1>5

(* The last character quoted can be told from what quote made of it.           *)
LEMMA LastDecoded ==
    ASSUME NEW e, NEW f, Whole(e), Whole(f), NEW c \in Char, NEW d \in Char,
           NEW x, x = e \o Quoted(c), x = f \o Quoted(d)
    PROVE  e = f /\ c = d
<1>1. e \in Seq(Char) /\ f \in Seq(Char)
  BY DEF Whole
<1> DEFINE Begins(g, k) ==
      /\ Len(g) \in Nat /\ Len(x) = Len(g) + Len(Quoted(k))
      /\ \A i \in 1..Len(g) : x[i] = g[i]
      /\ \A i \in 1..Len(Quoted(k)) : x[Len(g) + i] = Quoted(k)[i]
<1>0. ASSUME NEW g, NEW k \in Char, Whole(g), x = g \o Quoted(k) PROVE Begins(g, k)
  BY <1>0, QuotedAfter
<1>2. Begins(e, c)
  <2> HIDE DEF Begins
  <2> QED
    BY <1>0
<1>3. Begins(f, d)
  <2> HIDE DEF Begins
  <2> QED
    BY <1>0
<1>4. PICK m \in Nat, n \in Nat : m = Len(e) /\ n = Len(f)
  BY <1>2, <1>3
<1>5. ASSUME m = n PROVE e = f
  <2>1. \A i \in 1..m : e[i] = f[i]
    BY <1>2, <1>3, <1>4, <1>5
  <2> QED
    BY <1>1, <1>4, <1>5, <2>1, SameItems
<1>6. ASSUME NEW k \in Char, k \in {":", "%"}
      PROVE  /\ Len(Quoted(k)) = 3 /\ Quoted(k)[1] = "%"
             /\ Quoted(k)[3] = (IF k = ":" THEN "A" ELSE "5")
  BY <1>6, QuotedShape
<1>7. ASSUME NEW k \in Char, k \notin {":", "%"}
      PROVE  Len(Quoted(k)) = 1 /\ Quoted(k)[1] = k
  BY <1>7, QuotedShape
<1>8. CASE c \in {":", "%"} /\ d \in {":", "%"}
  <2>1. m = n
    BY <1>2, <1>3, <1>4, <1>6, <1>8
  <2>2. Quoted(c)[3] = Quoted(d)[3]
    BY <1>2, <1>3, <1>4, <1>6, <1>8, <2>1
  <2>3. c = d
    BY <1>6, <1>8, <2>2
  <2> QED
    BY <1>5, <2>1, <2>3
<1>9. CASE c \notin {":", "%"} /\ d \notin {":", "%"}
  <2>1. m = n
    BY <1>2, <1>3, <1>4, <1>7, <1>9
  <2>2. c = d
    BY <1>2, <1>3, <1>4, <1>7, <1>9, <2>1
  <2> QED
    BY <1>5, <2>1, <2>2
<1>10. CASE c \in {":", "%"} /\ d \notin {":", "%"}
  <2>1. m + 3 = n + 1 /\ x[m + 1] = "%"
    <3>1. Len(Quoted(c)) = 3 /\ Quoted(c)[1] = "%" /\ Len(Quoted(d)) = 1
      BY <1>6, <1>7, <1>10
    <3> QED
      BY <1>2, <1>3, <1>4, <3>1
  <2>2. m + 1 \in 1..n /\ m + 1 >= n - 1
    BY <2>1
  <2> QED
    BY <1>3, <1>4, <2>1, <2>2 DEF Whole
<1>11. CASE c \notin {":", "%"} /\ d \in {":", "%"}
  <2>1. n + 3 = m + 1 /\ x[n + 1] = "%"
    <3>1. Len(Quoted(d)) = 3 /\ Quoted(d)[1] = "%" /\ Len(Quoted(c)) = 1
      BY <1>6, <1>7, <1>11
    <3> QED
      BY <1>2, <1>3, <1>4, <3>1
  <2>2. n + 1 \in 1..m /\ n + 1 >= m - 1
    BY <2>1
  <2> QED
    BY <1>2, <1>4, <2>1, <2>2 DEF Whole
<1> QED
  BY <1>8, <1>9, <1>10, <1>11
(* A text is encoded character by character, and none of the beginnings is cut  *)
(* off within one.                                                          *)
LEMMA EncodedChain ==
    ASSUME NEW text \in Seq(Char)
    PROVE  \E h \in [0..Len(text) -> Seq(Char)] :
              /\ h[0] = <<>> /\ h[Len(text)] = Encoded(text)
              /\ \A i \in 1..Len(text) : h[i] = h[i - 1] \o Quoted(text[i]) /\ h[i] # <<>>
              /\ \A i \in 0..Len(text) : Whole(h[i])
<1> DEFINE q == [i \in DOMAIN text |-> Quoted(text[i])]
<1>1. PICK n \in Nat : n = Len(text) /\ DOMAIN text = 1..n
  OBVIOUS
<1>2. \A i \in 1..n : text[i] \in Char /\ Quoted(text[i]) \in Seq(Char)
  <2>1. \A i \in 1..n : text[i] \in Char
    BY <1>1
  <2> QED
    BY <2>1, QuotedShape
<1>3. q = [i \in 1..n |-> Quoted(text[i])] /\ \A i \in 1..n : q[i] = Quoted(text[i])
  BY <1>1
<1>4. Encoded(text) = FlattenSeq(q)
  BY DEF Encoded
<1> HIDE DEF q
<1>5. q \in Seq(Seq(Char)) /\ Len(q) = n
  BY <1>2, <1>3
<1>6. PICK h \in [0..n -> Seq(Char)] :
        /\ h[0] = <<>> /\ h[n] = FlattenSeq(q)
        /\ \A i \in 1..n : h[i] = h[i - 1] \o q[i]
  BY <1>5, Flattened
<1>7. \A i \in 1..n : h[i] = h[i - 1] \o Quoted(text[i])
  BY <1>3, <1>6
<1> DEFINE Cut == {i \in 0..n : ~Whole(h[i])}
<1>8. Cut = {}
  <2> SUFFICES ASSUME Cut # {} PROVE FALSE
    OBVIOUS
  <2>1. PICK k \in Cut : \A m \in Cut : k <= m
    <3>1. Cut \in SUBSET Nat
      OBVIOUS
    <3> HIDE DEF Cut
    <3> QED
      BY <3>1, LeastNat
  <2>2. k \in 0..n /\ ~Whole(h[k]) /\ k \in Nat
    OBVIOUS
  <2>3. k # 0
    <3>1. Len(<<>>) = 0 /\ <<>> \in Seq(Char)
      OBVIOUS
    <3>2. Whole(<<>>)
      BY <3>1 DEF Whole
    <3> QED
      BY <1>6, <2>2, <3>2
  <2>4. k \in 1..n /\ k - 1 \in 0..n /\ ~(k <= k - 1)
    BY <2>2, <2>3
  <2>5. Whole(h[k - 1])
    <3>1. k - 1 \notin Cut
      <4> HIDE DEF Cut
      <4> QED
        BY <2>1, <2>4
    <3> QED
      BY <2>4, <3>1
  <2>6. Whole(h[k])
    BY <1>2, <1>7, <2>4, <2>5, WholeGrows
  <2> QED
    BY <2>2, <2>6
<1>9. \A i \in 0..n : Whole(h[i])
  BY <1>8
<1>10. ASSUME NEW i \in 1..n PROVE h[i] # <<>>
  <2>1. i - 1 \in 0..n
    OBVIOUS
  <2> QED
    BY <1>2, <1>7, <1>9, <2>1, WholeGrows
<1> QED
  BY <1>1, <1>4, <1>6, <1>7, <1>9, <1>10

(* quote loses nothing: two texts with one encoding are one.                   *)
LEMMA EncodedOnce ==
    ASSUME NEW t \in Seq(Char), NEW u \in Seq(Char), Encoded(t) = Encoded(u)
    PROVE  t = u
<1>1. PICK m \in Nat, n \in Nat : m = Len(t) /\ n = Len(u)
  OBVIOUS
<1>2. PICK h \in [0..m -> Seq(Char)] :
        /\ h[0] = <<>> /\ h[m] = Encoded(t)
        /\ \A i \in 1..m : h[i] = h[i - 1] \o Quoted(t[i]) /\ h[i] # <<>>
        /\ \A i \in 0..m : Whole(h[i])
  BY <1>1, EncodedChain
<1>3. PICK g \in [0..n -> Seq(Char)] :
        /\ g[0] = <<>> /\ g[n] = Encoded(u)
        /\ \A i \in 1..n : g[i] = g[i - 1] \o Quoted(u[i]) /\ g[i] # <<>>
        /\ \A i \in 0..n : Whole(g[i])
  BY <1>1, EncodedChain
<1>4. (\A i \in 1..m : t[i] \in Char) /\ (\A i \in 1..n : u[i] \in Char)
  BY <1>1
<1> DEFINE Agree(i, j) == i = j /\ \A l \in 1..i : t[l] = u[l]
<1> DEFINE Bad == {i \in 0..m : \E j \in 0..n : h[i] = g[j] /\ ~Agree(i, j)}
<1>5. Bad = {}
  <2> SUFFICES ASSUME Bad # {} PROVE FALSE
    OBVIOUS
  <2>1. PICK k \in Bad : \A l \in Bad : k <= l
    <3> HIDE DEF Agree
    <3>1. Bad \in SUBSET Nat
      OBVIOUS
    <3> HIDE DEF Bad
    <3> QED
      BY <3>1, LeastNat
  <2>2. k \in 0..m /\ k \in Nat
    OBVIOUS
  <2>3. PICK j \in 0..n : h[k] = g[j] /\ ~Agree(k, j)
    OBVIOUS
  <2>4. CASE k = 0 \/ j = 0
    <3>1. k = 0 /\ j = 0
      <4>1. k # 0 => k \in 1..m
        BY <2>2
      <4>2. j # 0 => j \in 1..n
        OBVIOUS
      <4> QED
        BY <1>2, <1>3, <2>3, <2>4, <4>1, <4>2
    <3>2. 1..0 = {}
      OBVIOUS
    <3> QED
      BY <2>3, <3>1, <3>2
  <2>5. CASE k # 0 /\ j # 0
    <3>1. /\ k \in 1..m /\ k - 1 \in 0..m /\ ~(k <= k - 1)
          /\ j \in 1..n /\ j - 1 \in 0..n
          /\ 1..k = (1..(k - 1)) \cup {k}
          /\ k - 1 = j - 1 => k = j
      <4> HIDE DEF Bad, Agree
      <4>1. k \in 1..m /\ k - 1 \in 0..m /\ ~(k <= k - 1) /\ 1..k = (1..(k - 1)) \cup {k}
        BY <2>2, <2>5
      <4>2. j \in 1..n /\ j - 1 \in 0..n /\ (k - 1 = j - 1 => k = j)
        BY <2>2, <2>5
      <4> QED
        BY <4>1, <4>2
    <3>2. h[k] = h[k - 1] \o Quoted(t[k]) /\ h[k] = g[j - 1] \o Quoted(u[j])
      BY <1>2, <1>3, <2>3, <3>1
    <3>3. Whole(h[k - 1]) /\ Whole(g[j - 1]) /\ t[k] \in Char /\ u[j] \in Char
      BY <1>2, <1>3, <1>4, <3>1
    <3>4. h[k - 1] = g[j - 1] /\ t[k] = u[j]
      <4>1. h[k - 1] \o Quoted(t[k]) = g[j - 1] \o Quoted(u[j])
        BY <3>2, Zenon
      <4>2. PICK e, f : e = h[k - 1] /\ f = g[j - 1]
        OBVIOUS
      <4>3. PICK c \in Char, d \in Char : c = t[k] /\ d = u[j]
        BY <3>3
      <4>4. Whole(e) /\ Whole(f) /\ e \o Quoted(c) = f \o Quoted(d)
        BY <3>3, <4>1, <4>2, <4>3
      <4>5. e = f /\ c = d
        BY <4>4, LastDecoded
      <4> QED
        BY <4>2, <4>3, <4>5
    <3>5. Agree(k - 1, j - 1)
      <4>1. k - 1 \notin Bad
        <5> HIDE DEF Bad
        <5> QED
          BY <2>1, <3>1
      <4> HIDE DEF Agree
      <4> QED
        BY <3>1, <3>4, <4>1
    <3> QED
      BY <2>3, <3>1, <3>4, <3>5
  <2> QED
    BY <2>4, <2>5
<1>6. Agree(m, n)
  <2>1. m \in 0..m /\ n \in 0..n /\ h[m] = g[n]
    BY <1>2, <1>3
  <2> HIDE DEF Agree
  <2> QED
    BY <1>5, <2>1
<1> QED
  BY <1>1, <1>6, SameItems

\* No colon is left in an encoded text.
LEMMA EncodedWhole ==
    ASSUME NEW text \in Seq(Char)
    PROVE  Whole(Encoded(text))
<1>1. PICK n \in Nat : n = Len(text)
  OBVIOUS
<1>2. \E h : h[n] = Encoded(text) /\ \A i \in 0..n : Whole(h[i])
  BY <1>1, EncodedChain
<1> QED
  BY <1>2
------------------------------------------------------------------------------
\* The parts of a key: the tenant, and what follows the session.
TenantPart(n) == IF n.tenant = Absent THEN <<"_">> ELSE Encoded(n.tenant)

LastPart(n) ==
    CASE n.kind = "session" -> <<>>
      [] n.kind = "events" -> <<":", "events">>
      [] n.kind = "workflow_events" -> Segment("workflow", Encoded(n.id)) \o <<":", "events">>
      [] OTHER -> Segment(n.kind, Encoded(n.id))

\* What may follow a text in a key.
AfterText(x) == x \in Seq(Char) /\ (x # <<>> => x[1] = ":")

LEMMA Associative ==
    ASSUME NEW a \in Seq(Char), NEW b \in Seq(Char), NEW c \in Seq(Char)
    PROVE  (a \o b) \o c = a \o (b \o c)
OBVIOUS

\* A text without colons ends at the first one.
LEMMA UpToColon ==
    ASSUME NEW a, NEW b, Whole(a), Whole(b), NEW x, NEW y, AfterText(x), AfterText(y), a \o x = b \o y
    PROVE  a = b /\ x = y
<1>1. a \in Seq(Char) /\ b \in Seq(Char) /\ x \in Seq(Char) /\ y \in Seq(Char)
  BY DEF Whole, AfterText
<1> DEFINE Begins(g, z, k) ==
      /\ Len(g) \in Nat /\ Len(z) \in Nat /\ Len(k) = Len(g) + Len(z)
      /\ \A i \in 1..Len(g) : k[i] = g[i]
      /\ \A i \in 1..Len(z) : k[Len(g) + i] = z[i]
<1>2. PICK k : k = a \o x /\ k = b \o y
  OBVIOUS
<1>3. ASSUME NEW g \in Seq(Char), NEW z \in Seq(Char), k = g \o z PROVE Begins(g, z, k)
  BY <1>3, Joined
<1>4. Begins(a, x, k) /\ Begins(b, y, k)
  <2> HIDE DEF Begins
  <2> QED
    BY <1>1, <1>2, <1>3
<1>5. PICK m \in Nat, n \in Nat : m = Len(a) /\ n = Len(b)
  BY <1>4
<1>6. ASSUME NEW g, NEW h, Whole(g), AfterText(h), NEW f, NEW z, Whole(f), AfterText(z),
             Begins(g, h, k), Begins(f, z, k), Len(g) < Len(f)
      PROVE  FALSE
  <2>1. PICK i \in Nat, j \in Nat : i = Len(g) /\ j = Len(f)
    BY <1>6
  <2>2. Len(h) >= 1 /\ i + 1 \in 1..j
    BY <1>6, <2>1
  <2>3. h[1] = ":" /\ k[i + 1] = h[1]
    BY <1>6, <2>1, <2>2 DEF AfterText
  <2>4. f[i + 1] # ":" /\ k[i + 1] = f[i + 1]
    BY <1>6, <2>1, <2>2 DEF Whole
  <2> QED
    BY <2>3, <2>4
<1>7. m = n
  <2> HIDE DEF Begins
  <2>1. ~(m < n) /\ ~(n < m)
    BY <1>4, <1>5, <1>6
  <2> QED
    BY <2>1
<1>8. a = b
  <2>1. \A i \in 1..m : a[i] = b[i]
    BY <1>4, <1>5, <1>7
  <2> QED
    BY <1>1, <1>5, <1>7, <2>1, SameItems
<1>9. x = y
  <2>1. PICK l \in Nat : l = Len(x) /\ l = Len(y)
    BY <1>4, <1>5, <1>7
  <2>2. \A i \in 1..l : x[i] = y[i]
    BY <1>4, <1>5, <1>7, <2>1
  <2> QED
    BY <1>1, <2>1, <2>2, SameItems
<1> QED
  BY <1>8, <1>9

\* A label stands between two colons.
LEMMA LabelShape ==
    ASSUME NEW label \in Char, NEW p, p = <<":", label, ":">>
    PROVE  p \in Seq(Char) /\ Len(p) = 3 /\ p[1] = ":" /\ p[2] = label
<1>1. ":" \in Char
  BY DEF Char
<1> QED
  BY <1>1

\* The characters of a segment.
Labelled(k, label, x) ==
    /\ k \in Seq(Char) /\ Len(x) \in Nat /\ Len(k) = 3 + Len(x)
    /\ k[1] = ":" /\ k[2] = label
    /\ \A i \in 1..Len(x) : k[3 + i] = x[i]

LEMMA LabelJoined ==
    ASSUME NEW label \in Char, NEW x \in Seq(Char), NEW k, k = Segment(label, x)
    PROVE  Labelled(k, label, x)
<1>1. PICK p : p = <<":", label, ":">>
  OBVIOUS
<1>2. p \in Seq(Char) /\ Len(p) = 3 /\ p[1] = ":" /\ p[2] = label
  BY <1>1, LabelShape
<1>3. k = p \o x
  BY <1>1 DEF Segment
<1>4. /\ k \in Seq(Char) /\ Len(x) \in Nat /\ Len(k) = Len(p) + Len(x)
      /\ \A i \in 1..Len(p) : k[i] = p[i]
      /\ \A i \in 1..Len(x) : k[Len(p) + i] = x[i]
  <2>1. p \in Seq(Char)
    BY <1>2
  <2> QED
    BY <1>3, <2>1, Joined
<1> QED
  BY <1>2, <1>4 DEF Labelled

\* The same label can be taken off two keys.
LEMMA Unlabelled ==
    ASSUME NEW label \in Char, NEW x \in Seq(Char), NEW y \in Seq(Char),
           Segment(label, x) = Segment(label, y)
    PROVE  x = y
<1>1. PICK k : k = Segment(label, x) /\ k = Segment(label, y)
  OBVIOUS
<1>2. Labelled(k, label, x) /\ Labelled(k, label, y)
  BY <1>1, LabelJoined
<1>3. /\ Len(x) \in Nat /\ Len(k) = 3 + Len(x) /\ (\A i \in 1..Len(x) : k[3 + i] = x[i])
      /\ Len(y) \in Nat /\ Len(k) = 3 + Len(y) /\ (\A i \in 1..Len(y) : k[3 + i] = y[i])
  BY <1>2 DEF Labelled
<1>4. Len(x) = Len(y)
  BY <1>3
<1> QED
  BY <1>3, <1>4, SameItems

\* A segment starts with its colon and its label.
LEMMA SegmentShape ==
    ASSUME NEW label \in Char, NEW x \in Seq(Char)
    PROVE  /\ Segment(label, x) \in Seq(Char) /\ AfterText(Segment(label, x))
           /\ Len(Segment(label, x)) >= 3 /\ Segment(label, x)[2] = label
           /\ \A y \in Seq(Char) : Segment(label, x) \o y = Segment(label, x \o y)
<1>1. PICK k : k = Segment(label, x)
  OBVIOUS
<1>2. k \in Seq(Char) /\ Len(k) >= 3 /\ k[1] = ":" /\ k[2] = label
  <2>1. Labelled(k, label, x)
    BY <1>1, LabelJoined
  <2> QED
    BY <2>1 DEF Labelled
<1>3. PICK p : p = <<":", label, ":">>
  OBVIOUS
<1>4. p \in Seq(Char)
  BY <1>3, LabelShape
<1>5. \A y \in Seq(Char) : (p \o x) \o y = p \o (x \o y)
  BY <1>4, Associative
<1>6. \A y \in Seq(Char) : Segment(label, x) \o y = Segment(label, x \o y)
  BY <1>3, <1>5 DEF Segment
<1> QED
  BY <1>1, <1>2, <1>6 DEF AfterText
\* The texts of a name, as sequences of characters.
LEMMA NameTexts ==
    ASSUME NEW n \in Names
    PROVE  /\ n.tenant \in Seq(Char) /\ n.user \in Seq(Char) /\ n.session \in Seq(Char)
           /\ n.id \in Seq(Char) /\ n.kind \in Kinds
           /\ n.id = Absent <=> n.kind \in {"session", "events"}
           /\ n = [tenant |-> n.tenant, user |-> n.user, session |-> n.session,
                   kind |-> n.kind, id |-> n.id]
<1>1. /\ n.tenant \in Texts \cup {Absent} /\ n.user \in Texts /\ n.session \in Texts
      /\ n.id \in Texts \cup {Absent} /\ n.kind \in Kinds
      /\ n.id = Absent <=> n.kind \in {"session", "events"}
      /\ n = [tenant |-> n.tenant, user |-> n.user, session |-> n.session,
              kind |-> n.kind, id |-> n.id]
  BY DEF Names
<1>2. ASSUME NEW t \in Seq(STRING) PROVE t \in Seq(Char)
  <2>1. PICK m \in Nat : m = Len(t) /\ DOMAIN t = 1..m /\ t = [i \in 1..m |-> t[i]]
    OBVIOUS
  <2>2. \A i \in 1..m : t[i] \in Char
    <3>1. \A i \in 1..m : t[i] \in STRING
      BY <2>1
    <3> QED
      BY <3>1 DEF Char
  <2>3. [i \in 1..m |-> t[i]] \in Seq(Char)
    BY <2>2
  <2> QED
    BY <2>1, <2>3, Zenon
<1>3. Texts \cup {Absent} \subseteq Seq(Char)
  <2>1. Absent \in Seq(Char)
    BY DEF Absent
  <2> QED
    BY <1>2, <2>1, TextsAssumption
<1> QED
  BY <1>1, <1>3

\* The default tenant's text stands as it is.
LEMMA DefaultTenant == Encoded(<<"_">>) = <<"_">> /\ Whole(<<"_">>) /\ <<"_">> \in Seq(Char)
<1>1. "_" \in Char
  BY DEF Char
<1>2. \A c \in Char : <<c>> \in Seq(Char) /\ Len(<<c>>) = 1 /\ <<c>>[1] = c
  OBVIOUS
<1>3. PICK t : t = <<"_">> /\ t \in Seq(Char) /\ Len(t) = 1 /\ t[1] = "_"
  BY <1>1, <1>2
<1>4. PICK h \in [0..1 -> Seq(Char)] :
        /\ h[0] = <<>> /\ h[1] = Encoded(t)
        /\ \A i \in 1..1 : h[i] = h[i - 1] \o Quoted(t[i])
        /\ \A i \in 0..1 : Whole(h[i])
  BY <1>3, EncodedChain
<1>5. Quoted("_") = t
  BY <1>3 DEF Quoted
<1>6. h[1] = <<>> \o t
  <2>1. 1 \in 1..1 /\ 1 - 1 = 0
    OBVIOUS
  <2>2. h[1] = h[0] \o Quoted(t[1])
    BY <1>4, <2>1
  <2> QED
    BY <1>3, <1>4, <1>5, <2>2
<1>7. \A s \in Seq(Char) : <<>> \o s = s
  OBVIOUS
<1>8. Encoded(t) = t
  BY <1>3, <1>4, <1>6, <1>7
<1>9. Whole(h[1])
  BY <1>4
<1> QED
  BY <1>3, <1>4, <1>8, <1>9

\* What follows the session can be told apart.
LEMMA LastPartShape ==
    ASSUME NEW n \in Names
    PROVE  AfterText(LastPart(n))
<1>1. Whole(Encoded(n.id)) /\ n.kind \in Kinds
  BY NameTexts, EncodedWhole
<1>2. Encoded(n.id) \in Seq(Char)
  BY <1>1 DEF Whole
<1>3. n.kind \in Char /\ "workflow" \in Char
  BY <1>1 DEF Kinds, Char
<1>4. <<":", "events">> \in Seq(Char) /\ <<":", "events">>[1] = ":"
  <2>1. ":" \in Char /\ "events" \in Char
    BY DEF Char
  <2> QED
    BY <2>1
<1>5. AfterText(<<>>) /\ AfterText(<<":", "events">>)
  BY <1>4 DEF AfterText
<1>6. AfterText(Segment(n.kind, Encoded(n.id)))
  BY <1>2, <1>3, SegmentShape
<1>7. AfterText(Segment("workflow", Encoded(n.id)) \o <<":", "events">>)
  <2>1. Encoded(n.id) \o <<":", "events">> \in Seq(Char)
    BY <1>2, <1>4
  <2>2. Segment("workflow", Encoded(n.id)) \o <<":", "events">>
          = Segment("workflow", Encoded(n.id) \o <<":", "events">>)
    BY <1>2, <1>3, <1>4, SegmentShape
  <2> QED
    BY <1>3, <2>1, <2>2, SegmentShape
<1> QED
  BY <1>5, <1>6, <1>7 DEF LastPart

LEMMA LastPartOnce ==
    ASSUME NEW n \in Names, NEW m \in Names, LastPart(n) = LastPart(m)
    PROVE  n.kind = m.kind /\ n.id = m.id
<1> DEFINE end == <<":", "events">>
<1>1. end \in Seq(Char) /\ Len(end) = 2
  <2>1. ":" \in Char /\ "events" \in Char
    BY DEF Char
  <2> QED
    BY <2>1
<1>2. /\ n.kind \in Kinds /\ m.kind \in Kinds /\ n.id \in Seq(Char) /\ m.id \in Seq(Char)
      /\ n.id = Absent <=> n.kind \in {"session", "events"}
      /\ m.id = Absent <=> m.kind \in {"session", "events"}
  BY NameTexts
<1>3. Whole(Encoded(n.id)) /\ Whole(Encoded(m.id))
  BY <1>2, EncodedWhole
<1>4. Encoded(n.id) \in Seq(Char) /\ Encoded(m.id) \in Seq(Char)
  BY <1>3 DEF Whole
<1> HIDE DEF end
\* A workflow's key goes on with its list, or not; the others end with the text.
<1> DEFINE Label(o) == IF o.kind = "workflow_events" THEN "workflow" ELSE o.kind
<1> DEFINE After(o) == IF o.kind = "workflow_events" THEN end ELSE <<>>
<1>5. ASSUME NEW o \in Names, Encoded(o.id) \in Seq(Char)
      PROVE  /\ o.kind = "session" => LastPart(o) = <<>>
             /\ o.kind = "events" => LastPart(o) = end
             /\ o.kind \notin {"session", "events"} =>
                  /\ LastPart(o) = Segment(Label(o), Encoded(o.id) \o After(o))
                  /\ Label(o) \in Char /\ Encoded(o.id) \o After(o) \in Seq(Char)
                  /\ AfterText(After(o))
  <2>1. o.kind \in Kinds
    BY NameTexts
  <2>2. Label(o) \in Char /\ "workflow" \in Char
    BY <2>1 DEF Kinds, Char
  <2>3. After(o) \in Seq(Char) /\ AfterText(After(o))
    <3>1. <<>> \in Seq(Char)
      OBVIOUS
    <3>2. end[1] = ":"
      BY DEF end
    <3> QED
      BY <1>1, <3>1, <3>2 DEF AfterText
  <2>4. Encoded(o.id) \o After(o) \in Seq(Char) /\ Encoded(o.id) \o <<>> = Encoded(o.id)
    BY <1>5, <2>3
  <2>5. CASE o.kind = "workflow_events"
    <3>1. LastPart(o) = Segment("workflow", Encoded(o.id)) \o end
      BY <2>5 DEF LastPart, end
    <3>2. \A y \in Seq(Char) :
            Segment("workflow", Encoded(o.id)) \o y = Segment("workflow", Encoded(o.id) \o y)
      BY <1>5, <2>2, SegmentShape
    <3>3. LastPart(o) = Segment("workflow", Encoded(o.id) \o end)
      BY <1>1, <3>1, <3>2
    <3> QED
      BY <2>2, <2>3, <2>4, <2>5, <3>3
  <2>6. CASE o.kind \notin {"session", "events", "workflow_events"}
    <3>1. LastPart(o) = Segment(o.kind, Encoded(o.id))
      BY <2>6 DEF LastPart
    <3> QED
      BY <2>2, <2>3, <2>4, <2>6, <3>1
  <2>7. CASE o.kind \in {"session", "events"}
    BY <2>7 DEF LastPart, end
  <2> QED
    BY <2>5, <2>6, <2>7
<1>6. ASSUME NEW o \in Names, Encoded(o.id) \in Seq(Char), o.kind \notin {"session", "events"}
      PROVE  Len(LastPart(o)) >= 3 /\ LastPart(o)[2] = Label(o)
  <2> HIDE DEF Label, After
  <2>1. PICK x : x = Encoded(o.id) \o After(o)
    OBVIOUS
  <2>2. LastPart(o) = Segment(Label(o), x) /\ Label(o) \in Char /\ x \in Seq(Char)
    BY <1>5, <1>6, <2>1
  <2> QED
    BY <2>2, SegmentShape
<1>7. CASE n.kind \in {"session", "events"} \/ m.kind \in {"session", "events"}
  <2>1. ASSUME NEW o \in Names, Encoded(o.id) \in Seq(Char)
        PROVE  /\ o.kind = "session" => Len(LastPart(o)) = 0
               /\ o.kind = "events" => Len(LastPart(o)) = 2
               /\ o.kind \notin {"session", "events"} => Len(LastPart(o)) >= 3
    <3>1. Len(<<>>) = 0
      OBVIOUS
    <3>2. o.kind = "session" => LastPart(o) = <<>>
      BY <1>5, <2>1
    <3>3. o.kind = "events" => LastPart(o) = end
      BY <1>5, <2>1
    <3>4. o.kind \notin {"session", "events"} => Len(LastPart(o)) >= 3
      BY <1>6, <2>1
    <3> QED
      BY <1>1, <3>1, <3>2, <3>3, <3>4
  <2>2. n.kind = m.kind
    <3> HIDE DEF Label, After
    <3>1. PICK l : l = Len(LastPart(n)) /\ l = Len(LastPart(m))
      OBVIOUS
    <3>2. /\ n.kind = "session" => l = 0
          /\ n.kind = "events" => l = 2
          /\ n.kind \notin {"session", "events"} => l >= 3
      BY <1>4, <2>1, <3>1
    <3>3. /\ m.kind = "session" => l = 0
          /\ m.kind = "events" => l = 2
          /\ m.kind \notin {"session", "events"} => l >= 3
      BY <1>4, <2>1, <3>1
    <3> QED
      BY <1>7, <3>2, <3>3
  <2> QED
    BY <1>2, <1>7, <2>2
<1>8. CASE n.kind \notin {"session", "events"} /\ m.kind \notin {"session", "events"}
  <2>1. Label(n) = Label(m)
    <3> HIDE DEF Label
    <3> QED
      BY <1>4, <1>6, <1>8
  <2>2. Encoded(n.id) \o After(n) = Encoded(m.id) \o After(m)
    <3> HIDE DEF Label, After
    <3>1. /\ LastPart(n) = Segment(Label(n), Encoded(n.id) \o After(n))
          /\ LastPart(m) = Segment(Label(m), Encoded(m.id) \o After(m))
          /\ Label(n) \in Char
          /\ Encoded(n.id) \o After(n) \in Seq(Char) /\ Encoded(m.id) \o After(m) \in Seq(Char)
      BY <1>4, <1>5, <1>8
    <3>2. PICK x \in Seq(Char), y \in Seq(Char) :
            x = Encoded(n.id) \o After(n) /\ y = Encoded(m.id) \o After(m)
      BY <3>1
    <3> QED
      BY <2>1, <3>1, <3>2, Unlabelled
  <2>3. AfterText(After(n)) /\ AfterText(After(m))
    BY <1>4, <1>5, <1>8
  <2>4. Encoded(n.id) = Encoded(m.id) /\ After(n) = After(m)
    <3>1. PICK x, y : x = After(n) /\ y = After(m)
      OBVIOUS
    <3>2. PICK a, b : a = Encoded(n.id) /\ b = Encoded(m.id)
      OBVIOUS
    <3> HIDE DEF Label, After
    <3>3. Whole(a) /\ Whole(b) /\ AfterText(x) /\ AfterText(y) /\ a \o x = b \o y
      BY <1>3, <2>2, <2>3, <3>1, <3>2
    <3>4. a = b /\ x = y
      BY <3>3, UpToColon
    <3> QED
      BY <3>1, <3>2, <3>4
  <2>5. n.id = m.id
    BY <1>2, <2>4, EncodedOnce
  <2>6. n.kind = m.kind
    <3>1. end # <<>>
      <4>1. Len(<<>>) = 0 /\ Len(end) = 2 /\ 0 # 2
        BY <1>1
      <4> QED
        BY <4>1, Zenon
    <3> QED
      BY <1>2, <2>1, <2>4, <3>1 DEF Kinds
  <2> QED
    BY <2>5, <2>6
<1> QED
  BY <1>7, <1>8
\* Joining, as the name of an operation of which only these laws are used.
Cat(a, b) == a \o b

LEMMA CatLaws ==
    ASSUME NEW a \in Seq(Char), NEW b \in Seq(Char)
    PROVE  /\ Cat(a, b) \in Seq(Char)
           /\ \A c \in Seq(Char) : Cat(Cat(a, b), c) = Cat(a, Cat(b, c))
           /\ \A label \in Char : /\ Segment(label, a) \in Seq(Char)
                                  /\ Cat(Segment(label, a), b) = Segment(label, Cat(a, b))
<1>1. a \o b \in Seq(Char)
  OBVIOUS
<1>2. \A c \in Seq(Char) : (a \o b) \o c = a \o (b \o c)
  BY Associative
<1>3. \A label \in Char : /\ Segment(label, a) \in Seq(Char)
                          /\ Segment(label, a) \o b = Segment(label, a \o b)
  BY SegmentShape
<1> QED
  BY <1>1, <1>2, <1>3, Zenon DEF Cat

\* A key in its parts, each of which ends at the next colon.
LEMMA KeyParts ==
    ASSUME NEW n \in Names
    PROVE  /\ Key(n) = Segment("tenant", Cat(TenantPart(n), Segment("user",
                          Cat(Encoded(n.user), Segment("session",
                              Cat(Encoded(n.session), LastPart(n)))))))
           /\ Whole(TenantPart(n)) /\ Whole(Encoded(n.user)) /\ Whole(Encoded(n.session))
           /\ AfterText(LastPart(n))
<1>1. PICK t, u, s, x : /\ t = TenantPart(n) /\ u = Encoded(n.user)
                        /\ s = Encoded(n.session) /\ x = LastPart(n)
  OBVIOUS
<1>2. Whole(t)
  <2>1. Whole(Encoded(n.tenant))
    BY NameTexts, EncodedWhole
  <2> QED
    BY <1>1, <2>1, DefaultTenant DEF TenantPart
<1>3. Whole(u) /\ Whole(s) /\ AfterText(x)
  BY <1>1, NameTexts, EncodedWhole, LastPartShape
<1>4. t \in Seq(Char) /\ u \in Seq(Char) /\ s \in Seq(Char) /\ x \in Seq(Char)
  BY <1>2, <1>3 DEF Whole, AfterText
<1>5. "tenant" \in Char /\ "user" \in Char /\ "session" \in Char
  BY DEF Char
<1>6. Key(n) = Cat(Cat(Cat(Segment("tenant", t), Segment("user", u)),
                       Segment("session", s)), x)
  BY <1>1, Zenon DEF Key, SessionKey, TenantPart, LastPart, Cat
<1>7. PICK a \in Seq(Char), b \in Seq(Char), c \in Seq(Char) :
        a = Segment("tenant", t) /\ b = Segment("user", u) /\ c = Segment("session", s)
  <2>1. \A label \in Char : \A y \in Seq(Char) : Segment(label, y) \in Seq(Char)
    BY SegmentShape
  <2> QED
    BY <1>4, <1>5, <2>1
<1>8. Cat(Cat(Cat(a, b), c), x) = Cat(a, Cat(b, Cat(c, x)))
  <2>1. Cat(a, b) \in Seq(Char) /\ Cat(c, x) \in Seq(Char)
    BY <1>4, CatLaws
  <2>2. Cat(Cat(Cat(a, b), c), x) = Cat(Cat(a, b), Cat(c, x))
    BY <1>4, <2>1, CatLaws
  <2>3. Cat(Cat(a, b), Cat(c, x)) = Cat(a, Cat(b, Cat(c, x)))
    BY <2>1, CatLaws
  <2> QED
    BY <2>2, <2>3
<1>9. PICK ss \in Seq(Char) : ss = Segment("session", Cat(s, x)) /\ ss = Cat(c, x)
  <2>1. Cat(s, x) \in Seq(Char) /\ Cat(c, x) = Segment("session", Cat(s, x))
    BY <1>4, <1>5, <1>7, CatLaws
  <2>2. Cat(c, x) \in Seq(Char)
    BY <1>4, CatLaws
  <2> QED
    BY <2>1, <2>2
<1>10. PICK us \in Seq(Char) : us = Segment("user", Cat(u, ss)) /\ us = Cat(b, ss)
  <2>1. Cat(b, ss) = Segment("user", Cat(u, ss))
    BY <1>4, <1>5, <1>7, CatLaws
  <2>2. Cat(b, ss) \in Seq(Char)
    BY CatLaws
  <2> QED
    BY <2>1, <2>2
<1>11. Cat(a, us) = Segment("tenant", Cat(t, us))
  BY <1>4, <1>5, <1>7, CatLaws
<1>12. Key(n) = Segment("tenant", Cat(t, Segment("user", Cat(u, Segment("session", Cat(s, x))))))
  BY <1>6, <1>7, <1>8, <1>9, <1>10, <1>11
<1> QED
  BY <1>1, <1>2, <1>3, <1>12

\* One text of a key, and what is left of it.
LEMMA KeyStep ==
    ASSUME NEW label \in Char, NEW a, NEW b, Whole(a), Whole(b),
           NEW x, NEW y, AfterText(x), AfterText(y),
           Segment(label, Cat(a, x)) = Segment(label, Cat(b, y))
    PROVE  a = b /\ x = y
<1>1. a \in Seq(Char) /\ b \in Seq(Char) /\ x \in Seq(Char) /\ y \in Seq(Char)
  BY DEF Whole, AfterText
<1>2. Cat(a, x) \in Seq(Char) /\ Cat(b, y) \in Seq(Char)
  BY <1>1, CatLaws
<1>3. Cat(a, x) = Cat(b, y)
  BY <1>2, Unlabelled
<1>4. a \o x = b \o y
  BY <1>3 DEF Cat
<1> QED
  BY <1>4, UpToColon

LEMMA SegmentAfterText ==
    ASSUME NEW label \in Char, NEW a, Whole(a), NEW x, AfterText(x)
    PROVE  AfterText(Segment(label, Cat(a, x)))
<1>1. Cat(a, x) \in Seq(Char)
  BY CatLaws DEF Whole, AfterText
<1> QED
  BY <1>1, SegmentShape

(* Two names with one key have the same owner and are of one kind, whatever ":" *)
(* and "%" their texts hold.                                                *)
LEMMA KeyOnce ==
    ASSUME NEW n \in Names, NEW m \in Names, Key(n) = Key(m)
    PROVE  Global(n) = Global(m)
<1>1. "tenant" \in Char /\ "user" \in Char /\ "session" \in Char
  BY DEF Char
<1> DEFINE S(o) == Segment("session", Cat(Encoded(o.session), LastPart(o)))
<1> DEFINE U(o) == Segment("user", Cat(Encoded(o.user), S(o)))
<1>2. ASSUME NEW o \in Names
      PROVE  /\ Key(o) = Segment("tenant", Cat(TenantPart(o), U(o)))
             /\ Whole(TenantPart(o)) /\ Whole(Encoded(o.user)) /\ Whole(Encoded(o.session))
             /\ AfterText(LastPart(o)) /\ AfterText(S(o)) /\ AfterText(U(o))
  <2>1. /\ Key(o) = Segment("tenant", Cat(TenantPart(o), U(o)))
        /\ Whole(TenantPart(o)) /\ Whole(Encoded(o.user)) /\ Whole(Encoded(o.session))
        /\ AfterText(LastPart(o))
    BY KeyParts
  <2>2. AfterText(S(o))
    BY <1>1, <2>1, SegmentAfterText
  <2>3. AfterText(U(o))
    <3> HIDE DEF S
    <3> QED
      BY <1>1, <2>1, <2>2, SegmentAfterText
  <2> QED
    BY <2>1, <2>2, <2>3
<1>3. TenantPart(n) = TenantPart(m) /\ U(n) = U(m)
  <2> HIDE DEF U
  <2>1. PICK a, b, x, y : a = TenantPart(n) /\ b = TenantPart(m) /\ x = U(n) /\ y = U(m)
    OBVIOUS
  <2>2. /\ Segment("tenant", Cat(a, x)) = Segment("tenant", Cat(b, y))
        /\ Whole(a) /\ Whole(b) /\ AfterText(x) /\ AfterText(y)
    BY <1>2, <2>1
  <2> QED
    BY <1>1, <2>1, <2>2, KeyStep
<1>4. Encoded(n.user) = Encoded(m.user) /\ S(n) = S(m)
  <2> HIDE DEF S
  <2>1. PICK a, b, x, y : a = Encoded(n.user) /\ b = Encoded(m.user) /\ x = S(n) /\ y = S(m)
    OBVIOUS
  <2>2. /\ Segment("user", Cat(a, x)) = Segment("user", Cat(b, y))
        /\ Whole(a) /\ Whole(b) /\ AfterText(x) /\ AfterText(y)
    BY <1>2, <1>3, <2>1
  <2> QED
    BY <1>1, <2>1, <2>2, KeyStep
<1>5. Encoded(n.session) = Encoded(m.session) /\ LastPart(n) = LastPart(m)
  <2>1. PICK a, b, x, y : /\ a = Encoded(n.session) /\ b = Encoded(m.session)
                          /\ x = LastPart(n) /\ y = LastPart(m)
    OBVIOUS
  <2>2. /\ Segment("session", Cat(a, x)) = Segment("session", Cat(b, y))
        /\ Whole(a) /\ Whole(b) /\ AfterText(x) /\ AfterText(y)
    BY <1>2, <1>4, <2>1
  <2> QED
    BY <1>1, <2>1, <2>2, KeyStep
<1> HIDE DEF S, U
<1>6. /\ n.user = m.user /\ n.session = m.session /\ n.kind = m.kind /\ n.id = m.id
  BY <1>4, <1>5, NameTexts, EncodedOnce, LastPartOnce
<1>7. n.tenant = m.tenant \/ {n.tenant, m.tenant} = {Absent, <<"_">>}
  <2>1. n.tenant \in Seq(Char) /\ m.tenant \in Seq(Char)
    BY NameTexts
  <2>2. \A t \in Seq(Char) : Encoded(t) = <<"_">> => t = <<"_">>
    BY DefaultTenant, EncodedOnce
  <2>3. Encoded(n.tenant) = Encoded(m.tenant) => n.tenant = m.tenant
    BY <2>1, EncodedOnce
  <2> QED
    BY <1>3, <2>1, <2>2, <2>3 DEF TenantPart
<1>8. /\ n = [tenant |-> n.tenant, user |-> n.user, session |-> n.session,
              kind |-> n.kind, id |-> n.id]
      /\ m = [tenant |-> m.tenant, user |-> n.user, session |-> n.session,
              kind |-> n.kind, id |-> n.id]
  BY <1>6, NameTexts
<1>9. CASE n.tenant = m.tenant
  <2>1. n = m
    BY <1>8, <1>9
  <2> QED
    BY <2>1
<1>10. CASE {n.tenant, m.tenant} = {Absent, <<"_">>}
  <2>1. \/ n.tenant = Absent /\ m.tenant = <<"_">>
        \/ m.tenant = Absent /\ n.tenant = <<"_">>
    BY <1>10
  <2>2. Absent # <<"_">>
    BY DEF Absent
  <2>3. [n EXCEPT !.tenant = Absent] = [m EXCEPT !.tenant = Absent]
    BY <1>8
  <2>4. \A o \in {n, m} : o.tenant = Absent => [o EXCEPT !.tenant = Absent] = o
    BY <1>8
  <2> QED
    BY <2>1, <2>2, <2>3, <2>4 DEF Global
<1> QED
  BY <1>7, <1>9, <1>10

(* No list of events is shared: quoting ":" and "%" keeps the keys of the        *)
(* session store and of the agent service's store apart for all users, sessions  *)
(* and workflows, of any texts.                                              *)
THEOREM ListsHaveOneOwner == EventsSpec => []OneOwner
<1>1. Shared = {}
  <2> SUFFICES ASSUME NEW n \in Shared PROVE FALSE
    OBVIOUS
  <2>1. n \in EventNames /\ \E p \in Owned : p[1] = Key(n) /\ p[2] # Global(n)
    BY DEF Shared
  <2>2. PICK o \in Names : Key(o) = Key(n) /\ Global(o) # Global(n)
    BY <2>1 DEF Owned
  <2>3. n \in Names
    BY <2>1, EventsAssumption
  <2> QED
    BY <2>2, <2>3, KeyOnce
<1>2. ListsInv => OneOwner
  BY <1>1 DEF OneOwner
<1>3. EventsSpec => []ListsInv
  BY EventsInitInv, ListsStep, PTL DEF EventsSpec
<1> QED
  BY <1>2, <1>3, PTL
==============================================================================
