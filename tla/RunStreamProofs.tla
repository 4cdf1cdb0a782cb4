---------------------------- MODULE RunStreamProofs ----------------------------
(***************************************************************************)
(* A run's stream is correct for every number of runs, intents, attempts,   *)
(* ticks and faults.  The heart of the invariant is Cell, which says of      *)
(* every position of a stream what may stand there, given how far the        *)
(* generator is: what the browser has, followed by what the connection       *)
(* holds, is a prefix of what the generator yielded, up to the mark of a cut *)
(* connection and the gateway's own error at the end.                       *)
(***************************************************************************)
EXTENDS RunStream, SequenceTheorems, TLAPS

PCs == {"idle", "start", "runtime", "session", "workflow", "getThread", "thread", "emit",
        "error", "close", "gone"}

Typed ==
    /\ RuntimeTypeOK
    /\ pc \in [Runs -> PCs]
    /\ plan \in [Runs -> Plan \cup {None}]
    /\ sent \in [Runs -> Nat]
    /\ pipe \in [Runs -> Seq(Events)] /\ browser \in [Runs -> Seq(Events)]
    /\ gw \in [Runs -> {"idle", "reading", "closed", "lost"}]
    /\ saved \in [Runs -> {"nothing", "workflow", "thread"}]
    /\ elapsed \in [Runs -> 0..RuntimeTimeout] /\ quiet \in [Runs -> 0..ReadTimeout]
    /\ faults \in 0..MaxFaults

HasRunner == \A r \in Runs : attempt[r] # 0 => provider.agent /\ provider.runner

\* What is stored follows the generator, and only a stored plan is streamed.
StageOk(r) ==
    /\ pc[r] \in {"idle", "start", "runtime", "session", "workflow"} => saved[r] = "nothing"
    /\ pc[r] \in {"getThread", "thread"} => saved[r] = "workflow"
    /\ pc[r] \in {"session", "workflow", "getThread", "thread", "emit"} => plan[r] \in Plan
    /\ pc[r] = "emit" => saved[r] = "thread" /\ sent[r] < Len(Script(plan[r]))
    /\ sent[r] > 0 => /\ pc[r] \in {"emit", "close", "gone"}
                      /\ plan[r] \in Plan /\ saved[r] = "thread"
                      /\ sent[r] <= Len(Script(plan[r]))
    /\ gw[r] = "idle" => pc[r] = "idle" /\ browser[r] = <<>>
    /\ gw[r] # "reading" => pipe[r] = <<>>

\* The event at position i of the stream of r.
Cell(r, i, e) ==
    \/ i = 1 /\ e = Started
    \/ i = 2 /\ e = RuntimeError /\ sent[r] = 0 /\ pc[r] \in {"close", "gone"}
    \/ i - 1 \in 1..sent[r] /\ e = Script(plan[r])[i - 1]
    \/ i > 2 /\ e = Eof /\ pc[r] = "gone"

\* How many events the generator has yielded.
Count(r) ==
    IF pc[r] \in {"idle", "start"} THEN 0
    ELSE IF sent[r] > 0 THEN sent[r] + 1
    ELSE IF pc[r] = "close" THEN 2 ELSE 1

Written(r) ==
    \A i \in 1..Len(browser[r]) :
        \/ Cell(r, i, browser[r][i]) /\ browser[r][i] # Eof
        \/ i = Len(browser[r]) /\ i > 1 /\ browser[r][i] = ServiceError /\ gw[r] = "closed"

InTransit(r) ==
    \A j \in 1..Len(pipe[r]) :
        \/ Cell(r, Len(browser[r]) + j, pipe[r][j])
        \/ j = Len(pipe[r]) /\ pipe[r][j] = Broken /\ pc[r] = "gone"

Counted(r) ==
    gw[r] = "reading" /\ pc[r] # "gone" => Len(browser[r]) + Len(pipe[r]) = Count(r)

StreamOk(r) == StageOk(r) /\ Written(r) /\ InTransit(r) /\ Counted(r)

StreamInv == Typed /\ HasRunner /\ \A r \in Runs : StreamOk(r)
------------------------------------------------------------------------------
(* The script of a plan: how long each of its parts is.                      *)
TextLen(p) == IF p.message THEN 3 ELSE 2
ToolLen(p) == 4 * p.steps
ApprovalLen(p) == IF p.hitl THEN 1 ELSE 0

(* The kth event of the tool calls belongs to one of the plan's steps.       *)
LEMMA ToolCallsShape ==
    ASSUME NEW p \in Plan
    PROVE  /\ ToolCalls(p) \in Seq(Events) /\ Len(ToolCalls(p)) = ToolLen(p)
           /\ \A k \in 1..ToolLen(p) : \E s \in 1..p.steps, m \in 1..4 :
                 k = 4 * (s - 1) + m /\ ToolCalls(p)[k] = Event(ToolEvents[m], s)
           /\ \A s \in 1..p.steps, m \in 1..4 :
                 /\ 4 * (s - 1) + m \in 1..ToolLen(p)
                 /\ ToolCalls(p)[4 * (s - 1) + m] = Event(ToolEvents[m], s)
<1>1. p.steps \in Nat /\ p.steps <= MaxIntents /\ MaxIntents \in Nat
  BY RuntimeAssumption DEF Plan
<1>2. ASSUME NEW k \in 1..ToolLen(p)
      PROVE  ((k - 1) % 4) + 1 \in 1..4 /\ (k - 1) \div 4 + 1 \in 1..p.steps
             /\ k = 4 * ((k - 1) \div 4) + (((k - 1) % 4) + 1)
  BY <1>1, SMT DEF ToolLen
<1>3. \A m \in 1..4 : ToolEvents[m] \in ToSet(ToolEvents)
  BY DEF ToSet, ToolEvents
<1>4. \A s \in 1..p.steps, m \in 1..4 : Event(ToolEvents[m], s) \in Events
  BY <1>1, <1>3 DEF Events
<1>5. ToolCalls(p) = [k \in 1..ToolLen(p) |-> Event(ToolEvents[((k - 1) % 4) + 1], (k - 1) \div 4 + 1)]
  BY DEF ToolCalls, ToolLen
<1>6. ToolLen(p) \in Nat
  BY <1>1 DEF ToolLen
<1>7. \A k \in 1..ToolLen(p) : ToolCalls(p)[k] \in Events
  BY <1>2, <1>4, <1>5
<1>8. ToolCalls(p) \in Seq(Events) /\ Len(ToolCalls(p)) = ToolLen(p)
  BY <1>5, <1>6, <1>7
<1>9. ASSUME NEW s \in 1..p.steps, NEW m \in 1..4
      PROVE  /\ 4 * (s - 1) + m \in 1..ToolLen(p)
             /\ ToolCalls(p)[4 * (s - 1) + m] = Event(ToolEvents[m], s)
  <2> DEFINE k == 4 * (s - 1) + m
  <2>1. k \in 1..ToolLen(p) /\ ((k - 1) % 4) + 1 = m /\ (k - 1) \div 4 + 1 = s
    BY <1>1, SMT DEF ToolLen
  <2> QED
    BY <1>5, <2>1
<1>10. ASSUME NEW k \in 1..ToolLen(p)
       PROVE  \E s \in 1..p.steps, m \in 1..4 :
                 k = 4 * (s - 1) + m /\ ToolCalls(p)[k] = Event(ToolEvents[m], s)
  <2> DEFINE s == (k - 1) \div 4 + 1
  <2> DEFINE m == ((k - 1) % 4) + 1
  <2>1. s \in 1..p.steps /\ m \in 1..4 /\ k = 4 * (s - 1) + m
    BY <1>1, <1>2, SMT
  <2> QED
    BY <1>5, <2>1
<1> QED
  BY <1>8, <1>9, <1>10

(* The text events of a plan.                                               *)
LEMMA TextEventsShape ==
    ASSUME NEW p \in Plan
    PROVE  /\ TextEvents(p) \in Seq(Events) /\ Len(TextEvents(p)) = TextLen(p)
           /\ TextEvents(p)[1] = Event("TEXT_MESSAGE_START", 0)
           /\ p.message => TextEvents(p)[2] = Event("TEXT_MESSAGE_CONTENT", 0)
           /\ TextEvents(p)[TextLen(p)] = Event("TEXT_MESSAGE_END", 0)
<1> DEFINE start == Event("TEXT_MESSAGE_START", 0)
<1> DEFINE content == Event("TEXT_MESSAGE_CONTENT", 0)
<1> DEFINE end == Event("TEXT_MESSAGE_END", 0)
<1> DEFINE text == IF p.message THEN <<content>> ELSE <<>>
<1> DEFINE opened == <<start>> \o text
<1>1. start \in Events /\ content \in Events /\ end \in Events
  BY DEF Events
<1>2. TextEvents(p) = opened \o <<end>>
  BY DEF TextEvents
<1> HIDE DEF start, content, end
<1>3. /\ <<start>> \in Seq(Events) /\ <<end>> \in Seq(Events) /\ text \in Seq(Events)
      /\ Len(<<start>>) = 1 /\ Len(<<end>>) = 1 /\ Len(text) = TextLen(p) - 2
      /\ p.message => Len(text) = 1 /\ text[1] = content
  BY <1>1 DEF TextLen
<1> HIDE DEF text
<1>4. /\ opened \in Seq(Events) /\ Len(opened) = TextLen(p) - 1 /\ opened[1] = start
      /\ p.message => opened[2] = content
  <2>1. /\ opened \in Seq(Events) /\ Len(opened) = 1 + Len(text)
        /\ \A k \in 1..(1 + Len(text)) : opened[k] = IF k <= 1 THEN <<start>>[k] ELSE text[k - 1]
    BY <1>3, ConcatProperties
  <2> HIDE DEF opened
  <2> QED
    BY <1>3, <2>1 DEF TextLen
<1> HIDE DEF opened
<1>5. /\ TextEvents(p) \in Seq(Events) /\ Len(TextEvents(p)) = Len(opened) + 1
      /\ \A k \in 1..(Len(opened) + 1) :
            TextEvents(p)[k] = IF k <= Len(opened) THEN opened[k] ELSE <<end>>[k - Len(opened)]
  BY <1>2, <1>3, <1>4, ConcatProperties
<1>6. TextEvents(p)[1] = start /\ TextEvents(p)[TextLen(p)] = end
      /\ (p.message => TextEvents(p)[2] = content)
  BY <1>4, <1>5 DEF TextLen
<1> USE DEF start, content, end
<1> QED
  BY <1>4, <1>5, <1>6 DEF TextLen

(* The script, position by position.                                        *)
LEMMA ScriptShape ==
    ASSUME NEW p \in Plan
    PROVE  LET t == TextLen(p)  n == ToolLen(p) IN
           /\ Script(p) \in Seq(Events)
           /\ t \in 2..3 /\ n \in Nat
           /\ Len(Script(p)) = t + 1 + n + ApprovalLen(p) + 1
           /\ \A k \in 1..t : Script(p)[k] = TextEvents(p)[k]
           /\ Script(p)[t + 1] = StateDelta
           /\ \A k \in 1..n : Script(p)[t + 1 + k] = ToolCalls(p)[k]
           /\ p.hitl => Script(p)[t + n + 2] = Approval
           /\ Script(p)[Len(Script(p))] = Finished
<1> DEFINE t == TextLen(p)
<1> DEFINE n == ToolLen(p)
<1> DEFINE s1 == TextEvents(p) \o <<StateDelta>>
<1> DEFINE s2 == s1 \o ToolCalls(p)
<1> DEFINE ask == IF p.hitl THEN <<Approval>> ELSE <<>>
<1> DEFINE s3 == s2 \o ask
<1>1. t \in 2..3 /\ n \in Nat
  BY RuntimeAssumption DEF TextLen, ToolLen, Plan
<1>2. <<StateDelta>> \in Seq(Events) /\ <<Finished>> \in Seq(Events) /\ ask \in Seq(Events)
      /\ Len(ask) = ApprovalLen(p) /\ ApprovalLen(p) \in 0..1
  <2>1. StateDelta \in Events /\ Finished \in Events /\ Approval \in Events
    BY DEF Events
  <2> QED
    BY <2>1 DEF ApprovalLen
<1>3. /\ s1 \in Seq(Events) /\ Len(s1) = t + 1
      /\ \A k \in 1..t : s1[k] = TextEvents(p)[k]
      /\ s1[t + 1] = StateDelta
  <2>1. TextEvents(p) \in Seq(Events) /\ Len(TextEvents(p)) = t
    BY TextEventsShape
  <2> QED
    BY <1>1, <1>2, <2>1, ConcatProperties
<1>4. /\ s2 \in Seq(Events) /\ Len(s2) = t + 1 + n
      /\ \A k \in 1..(t + 1) : s2[k] = s1[k]
      /\ \A k \in 1..n : s2[t + 1 + k] = ToolCalls(p)[k]
  <2>1. ToolCalls(p) \in Seq(Events) /\ Len(ToolCalls(p)) = n
    BY ToolCallsShape
  <2> HIDE DEF s1, t, n
  <2>2. /\ s2 \in Seq(Events) /\ Len(s2) = t + 1 + n
        /\ \A k \in 1..(t + 1 + n) : s2[k] = IF k <= t + 1 THEN s1[k] ELSE ToolCalls(p)[k - (t + 1)]
    BY <1>1, <1>3, <2>1, ConcatProperties
  <2> HIDE DEF s2
  <2> QED
    BY <1>1, <2>2
<1>5. /\ s3 \in Seq(Events) /\ Len(s3) = t + 1 + n + ApprovalLen(p)
      /\ \A k \in 1..(t + 1 + n) : s3[k] = s2[k]
      /\ p.hitl => s3[t + n + 2] = Approval
  <2> HIDE DEF s2, t, n
  <2>1. /\ s3 \in Seq(Events) /\ Len(s3) = Len(s2) + Len(ask)
        /\ \A k \in 1..(Len(s2) + Len(ask)) : s3[k] = IF k <= Len(s2) THEN s2[k] ELSE ask[k - Len(s2)]
    BY <1>2, <1>4, ConcatProperties
  <2>2. p.hitl => ApprovalLen(p) = 1 /\ ask[1] = Approval
    BY DEF ApprovalLen
  <2> HIDE DEF s3, ask
  <2> QED
    BY <1>1, <1>2, <1>4, <2>1, <2>2
<1>6. /\ Script(p) \in Seq(Events) /\ Len(Script(p)) = Len(s3) + 1
      /\ \A k \in 1..Len(s3) : Script(p)[k] = s3[k]
      /\ Script(p)[Len(s3) + 1] = Finished
  <2>1. Script(p) = s3 \o <<Finished>>
    <3> HIDE DEF t, n
    <3> QED
      BY DEF Script
  <2> HIDE DEF s3
  <2> QED
    BY <1>2, <1>5, <2>1, ConcatProperties
<1> HIDE DEF s1, s2, s3, ask, t, n
<1>7. \A k \in 1..t : Script(p)[k] = TextEvents(p)[k]
  BY <1>1, <1>2, <1>3, <1>4, <1>5, <1>6
<1>8. Script(p)[t + 1] = StateDelta
  BY <1>1, <1>2, <1>3, <1>4, <1>5, <1>6
<1>9. \A k \in 1..n : Script(p)[t + 1 + k] = ToolCalls(p)[k]
  BY <1>1, <1>2, <1>4, <1>5, <1>6
<1>10. p.hitl => Script(p)[t + n + 2] = Approval
  <2>1. p.hitl => ApprovalLen(p) = 1
    BY DEF ApprovalLen
  <2> QED
    BY <1>1, <1>5, <1>6, <2>1
<1>11. Len(Script(p)) = t + 1 + n + ApprovalLen(p) + 1 /\ Script(p)[Len(Script(p))] = Finished
  BY <1>1, <1>2, <1>5, <1>6
<1> USE DEF t, n
<1> QED
  BY <1>1, <1>6, <1>7, <1>8, <1>9, <1>10, <1>11

(* What may stand at a position of the script.                              *)
LEMMA ScriptCases ==
    ASSUME NEW p \in Plan, NEW k \in 1..Len(Script(p))
    PROVE  LET e == Script(p)[k] IN
           \/ k = 1 /\ e = Event("TEXT_MESSAGE_START", 0)
           \/ p.message /\ k = 2 /\ e = Event("TEXT_MESSAGE_CONTENT", 0)
           \/ k = TextLen(p) /\ e = Event("TEXT_MESSAGE_END", 0)
           \/ k = TextLen(p) + 1 /\ e = StateDelta
           \/ \E s \in 1..p.steps, m \in 1..4 :
                 k = TextLen(p) + 1 + 4 * (s - 1) + m /\ e = Event(ToolEvents[m], s)
           \/ p.hitl /\ k = Len(Script(p)) - 1 /\ e = Approval
           \/ k = Len(Script(p)) /\ e = Finished
<1> DEFINE t == TextLen(p)
<1> DEFINE n == ToolLen(p)
<1>1. /\ t \in 2..3 /\ n \in Nat
      /\ Len(Script(p)) = t + 1 + n + ApprovalLen(p) + 1
  BY ScriptShape
<1>2. CASE k \in 1..t
  <2>1. Script(p)[k] = TextEvents(p)[k]
    BY <1>2, ScriptShape
  <2> QED
    BY <1>1, <1>2, <2>1, TextEventsShape DEF TextLen
<1>3. CASE k = t + 1
  BY <1>3, ScriptShape
<1>4. CASE k \in (t + 2)..(t + 1 + n)
  <2> DEFINE j == k - (t + 1)
  <2>1. j \in 1..n /\ k = t + 1 + j
    BY <1>1, <1>4
  <2>2. Script(p)[k] = ToolCalls(p)[j]
    BY <2>1, ScriptShape
  <2>3. PICK s \in 1..p.steps, m \in 1..4 :
           j = 4 * (s - 1) + m /\ ToolCalls(p)[j] = Event(ToolEvents[m], s)
    BY <2>1, ToolCallsShape
  <2>4. k = t + 1 + 4 * (s - 1) + m
    <3>1. s \in Int /\ m \in Int
      BY RuntimeAssumption DEF Plan
    <3> QED
      BY <1>1, <2>1, <2>3, <3>1
  <2> QED
    BY <2>2, <2>3, <2>4
<1>5. CASE k > t + 1 + n
  <2>1. CASE p.hitl
    <3>1. Script(p)[t + n + 2] = Approval /\ Script(p)[Len(Script(p))] = Finished
      BY <2>1, ScriptShape
    <3>2. k = t + n + 2 \/ k = Len(Script(p))
      BY <1>1, <1>5, <2>1 DEF ApprovalLen
    <3>3. Len(Script(p)) = t + n + 3
      BY <1>1, <2>1 DEF ApprovalLen
    <3>4. t + n + 2 = Len(Script(p)) - 1
      BY <1>1, <3>3
    <3> QED
      BY <2>1, <3>1, <3>2, <3>4
  <2>2. CASE ~p.hitl
    <3>1. k = Len(Script(p))
      BY <1>1, <1>5, <2>2 DEF ApprovalLen
    <3> QED
      BY <3>1, ScriptShape
  <2> QED
    BY <2>1, <2>2
<1> QED
  BY <1>1, <1>2, <1>3, <1>4, <1>5

(* The types of the events tell the script from what begins and breaks a     *)
(* stream, and its last event from all before.                              *)
LEMMA ScriptEvents ==
    ASSUME NEW p \in Plan, NEW k \in 1..Len(Script(p))
    PROVE  LET e == Script(p)[k] IN
           /\ e \in Events
           /\ e \notin {Started, RuntimeError, ServiceError, Eof, Broken}
           /\ e.type # "RUN_ERROR"
           /\ e = Finished <=> k = Len(Script(p))
           /\ e = StateDelta <=> k = TextLen(p) + 1
           /\ e = Approval => p.hitl /\ k = Len(Script(p)) - 1
<1> DEFINE t == TextLen(p)
<1>1. /\ t \in 2..3 /\ ToolLen(p) \in Nat /\ Script(p) \in Seq(Events)
      /\ Len(Script(p)) = t + 1 + ToolLen(p) + ApprovalLen(p) + 1
      /\ ApprovalLen(p) \in 0..1 /\ (p.hitl => ApprovalLen(p) = 1)
      /\ Script(p)[Len(Script(p))] = Finished
  BY ScriptShape DEF ApprovalLen
<1>2. Script(p)[k] \in Events
  BY <1>1
<1>3. \A s \in 1..p.steps, m \in 1..4 :
         /\ Event(ToolEvents[m], s).type \in
              {"TOOL_CALL_START", "TOOL_CALL_ARGS", "TOOL_CALL_END", "TOOL_CALL_RESULT"}
         /\ t + 1 + 4 * (s - 1) + m > t + 1
         /\ t + 1 + 4 * (s - 1) + m < Len(Script(p))
  <2> TAKE s \in 1..p.steps, m \in 1..4
  <2>1. Event(ToolEvents[m], s).type \in
          {"TOOL_CALL_START", "TOOL_CALL_ARGS", "TOOL_CALL_END", "TOOL_CALL_RESULT"}
    BY DEF Event, ToolEvents
  <2>2. 4 * (s - 1) + m \in 1..ToolLen(p)
    BY ToolCallsShape
  <2> HIDE DEF t
  <2>3. s \in Int /\ m \in Int
    BY RuntimeAssumption DEF Plan
  <2> QED
    BY <1>1, <2>1, <2>2, <2>3
<1> HIDE DEF t
<1>4. ASSUME NEW s \in 1..p.steps, NEW m \in 1..4,
             k = t + 1 + 4 * (s - 1) + m, Script(p)[k] = Event(ToolEvents[m], s)
      PROVE  /\ Script(p)[k].type \in
                  {"TOOL_CALL_START", "TOOL_CALL_ARGS", "TOOL_CALL_END", "TOOL_CALL_RESULT"}
             /\ k > t + 1 /\ k < Len(Script(p))
  <2>1. /\ Event(ToolEvents[m], s).type \in
             {"TOOL_CALL_START", "TOOL_CALL_ARGS", "TOOL_CALL_END", "TOOL_CALL_RESULT"}
        /\ t + 1 + 4 * (s - 1) + m > t + 1
        /\ t + 1 + 4 * (s - 1) + m < Len(Script(p))
    BY <1>3
  <2> QED
    BY <1>4, <2>1
<1> USE DEF Event, Started, RuntimeError, ServiceError, Eof, Broken, Finished, StateDelta, Approval
<1> DEFINE Goal(e) ==
      /\ e \in Events
      /\ e \notin {Started, RuntimeError, ServiceError, Eof, Broken}
      /\ e.type # "RUN_ERROR"
      /\ e = Finished <=> k = Len(Script(p))
      /\ e = StateDelta <=> k = TextLen(p) + 1
      /\ e = Approval => p.hitl /\ k = Len(Script(p)) - 1
<1> SUFFICES Goal(Script(p)[k])
  OBVIOUS
<1>5. CASE k = 1 /\ Script(p)[k] = Event("TEXT_MESSAGE_START", 0)
  BY <1>1, <1>2, <1>5 DEF t
<1>6. CASE p.message /\ k = 2 /\ Script(p)[k] = Event("TEXT_MESSAGE_CONTENT", 0)
  BY <1>1, <1>2, <1>6 DEF t, TextLen
<1>7. CASE k = t /\ Script(p)[k] = Event("TEXT_MESSAGE_END", 0)
  BY <1>1, <1>2, <1>7 DEF t
<1>8. CASE k = t + 1 /\ Script(p)[k] = StateDelta
  BY <1>1, <1>2, <1>8 DEF t
<1>9. ASSUME NEW s \in 1..p.steps, NEW m \in 1..4,
              k = t + 1 + 4 * (s - 1) + m, Script(p)[k] = Event(ToolEvents[m], s)
       PROVE  Goal(Script(p)[k])
  <2>1. /\ Script(p)[k].type \in
             {"TOOL_CALL_START", "TOOL_CALL_ARGS", "TOOL_CALL_END", "TOOL_CALL_RESULT"}
        /\ k > t + 1 /\ k < Len(Script(p))
    BY <1>4, <1>9
  <2> QED
    BY <1>1, <1>2, <2>1 DEF t
<1>10. CASE p.hitl /\ k = Len(Script(p)) - 1 /\ Script(p)[k] = Approval
  BY <1>1, <1>2, <1>10 DEF t
<1>11. CASE k = Len(Script(p)) /\ Script(p)[k] = Finished
  BY <1>1, <1>2, <1>11 DEF t
<1> HIDE DEF Goal
<1> QED
  BY <1>5, <1>6, <1>7, <1>8, <1>9, <1>10, <1>11, ScriptCases DEF t

(* An event of a script comes after one it may follow.                       *)
LEMMA ScriptFollows ==
    ASSUME NEW p \in Plan, NEW k \in 2..Len(Script(p))
    PROVE  Script(p)[k - 1] \in Follows(Script(p)[k])
<1> DEFINE t == TextLen(p)
<1>1. /\ t \in 2..3 /\ ToolLen(p) \in Nat /\ Script(p) \in Seq(Events)
      /\ Len(Script(p)) = t + 1 + ToolLen(p) + ApprovalLen(p) + 1
      /\ ApprovalLen(p) \in 0..1
  BY ScriptShape DEF ApprovalLen
<1>2. k \in 1..Len(Script(p)) /\ k - 1 \in 1..Len(Script(p)) /\ Script(p)[k - 1] \in Events
  BY <1>1
<1>3. CASE p.message /\ k = 2 /\ Script(p)[k] = Event("TEXT_MESSAGE_CONTENT", 0)
  <2>1. Script(p)[1] = Event("TEXT_MESSAGE_START", 0)
    BY <1>1, ScriptShape, TextEventsShape
  <2> QED
    BY <1>3, <2>1 DEF Follows, Event
<1>4. CASE k = t /\ Script(p)[k] = Event("TEXT_MESSAGE_END", 0)
  <2>1. Script(p)[k - 1] \in {Event("TEXT_MESSAGE_START", 0), Event("TEXT_MESSAGE_CONTENT", 0)}
    <3>1. \A j \in 1..t : Script(p)[j] = TextEvents(p)[j]
      BY ScriptShape
    <3> QED
      BY <1>1, <1>4, <3>1, TextEventsShape DEF TextLen
  <2> QED
    BY <1>4, <2>1 DEF Follows, Event
<1>5. ASSUME NEW s \in 1..p.steps, NEW m \in 1..4,
             k = t + 1 + 4 * (s - 1) + m, Script(p)[k] = Event(ToolEvents[m], s)
      PROVE  Script(p)[k - 1] \in Follows(Script(p)[k])
  <2>1. CASE m = 1
    BY <1>2, <1>5, <2>1 DEF Follows, Event, ToolEvents
  <2>2. CASE m \in 2..4
    <3> DEFINE j == 4 * (s - 1) + (m - 1)
    <3>1. m - 1 \in 1..4 /\ s \in Int
      BY <2>2, RuntimeAssumption DEF Plan
    <3>2. j \in 1..ToolLen(p) /\ ToolCalls(p)[j] = Event(ToolEvents[m - 1], s)
      BY <3>1, ToolCallsShape
    <3>3. k - 1 = t + 1 + j
      BY <1>1, <1>5, <3>1
    <3>4. Script(p)[k - 1] = Event(ToolEvents[m - 1], s)
      BY <3>2, <3>3, ScriptShape
    <3>5. /\ ToolEvents[1] = "TOOL_CALL_START" /\ ToolEvents[2] = "TOOL_CALL_ARGS"
          /\ ToolEvents[3] = "TOOL_CALL_END" /\ ToolEvents[4] = "TOOL_CALL_RESULT"
      BY DEF ToolEvents
    <3>6. \/ m = 2 /\ ToolEvents[m] = "TOOL_CALL_ARGS" /\ ToolEvents[m - 1] = "TOOL_CALL_START"
          \/ m = 3 /\ ToolEvents[m] = "TOOL_CALL_END" /\ ToolEvents[m - 1] = "TOOL_CALL_ARGS"
          \/ m = 4 /\ ToolEvents[m] = "TOOL_CALL_RESULT" /\ ToolEvents[m - 1] = "TOOL_CALL_END"
      BY <2>2, <3>5
    <3> QED
      BY <1>5, <3>4, <3>6 DEF Follows, Event
  <2> QED
    BY <2>1, <2>2
<1>6. CASE k = t + 1 /\ Script(p)[k] = StateDelta
  BY <1>2, <1>6 DEF Follows, Event, StateDelta
<1>7. CASE Script(p)[k] = Approval \/ Script(p)[k] = Finished
  BY <1>2, <1>7 DEF Follows, Event, Approval, Finished
<1>8. k # 1
  OBVIOUS
<1> QED
  BY <1>2, <1>3, <1>4, <1>5, <1>6, <1>7, <1>8, ScriptCases

(* The events that begin or break a stream, and the first of a script, may    *)
(* follow any.                                                              *)
LEMMA FollowsAny ==
    /\ \A e \in {Started, RuntimeError, ServiceError} : Follows(e) = Events
    /\ \A p \in Plan : Follows(Script(p)[1]) = Events /\ 1 <= Len(Script(p))
<1>1. \A e \in {Started, RuntimeError, ServiceError} : Follows(e) = Events
  BY DEF Follows, Started, RuntimeError, ServiceError, Event
<1>2. ASSUME NEW p \in Plan PROVE Follows(Script(p)[1]) = Events /\ 1 <= Len(Script(p))
  <2> DEFINE t == TextLen(p)
  <2>1. /\ t \in 2..3 /\ ToolLen(p) \in Nat /\ ApprovalLen(p) \in 0..1
        /\ Len(Script(p)) = t + 1 + ToolLen(p) + ApprovalLen(p) + 1
        /\ \A k \in 1..t : Script(p)[k] = TextEvents(p)[k]
    BY ScriptShape DEF ApprovalLen
  <2>2. Script(p)[1] = Event("TEXT_MESSAGE_START", 0) /\ 1 <= Len(Script(p))
    BY <2>1, TextEventsShape
  <2> QED
    BY <2>2 DEF Follows, Event
<1> QED
  BY <1>1, <1>2

(* A script shows every result before its end, and asks for an approval if    *)
(* the policy wants one.                                                    *)
LEMMA ScriptShowsAll ==
    ASSUME NEW p \in Plan
    PROVE  /\ \A s \in 1..p.steps : \E k \in 1..(Len(Script(p)) - 1) :
                 Script(p)[k] = Event("TOOL_CALL_RESULT", s)
           /\ p.hitl => \E k \in 1..(Len(Script(p)) - 1) : Script(p)[k] = Approval
           /\ TextLen(p) + 1 \in 1..(Len(Script(p)) - 1)
           /\ Script(p)[TextLen(p) + 1] = StateDelta
<1> DEFINE t == TextLen(p)
<1>1. /\ t \in 2..3 /\ ToolLen(p) \in Nat
      /\ Len(Script(p)) = t + 1 + ToolLen(p) + ApprovalLen(p) + 1
      /\ ApprovalLen(p) \in 0..1 /\ (p.hitl => ApprovalLen(p) = 1)
  BY ScriptShape DEF ApprovalLen
<1>2. ASSUME NEW s \in 1..p.steps
      PROVE  \E k \in 1..(Len(Script(p)) - 1) : Script(p)[k] = Event("TOOL_CALL_RESULT", s)
  <2> DEFINE j == 4 * (s - 1) + 4
  <2>1. j \in 1..ToolLen(p) /\ ToolCalls(p)[j] = Event(ToolEvents[4], s)
    BY ToolCallsShape
  <2>2. Script(p)[t + 1 + j] = Event("TOOL_CALL_RESULT", s)
    BY <2>1, ScriptShape DEF ToolEvents
  <2>3. t + 1 + j \in 1..(Len(Script(p)) - 1)
    <3> HIDE DEF j, t
    <3> QED
      BY <1>1, <2>1
  <2> QED
    BY <2>2, <2>3
<1>3. p.hitl => \E k \in 1..(Len(Script(p)) - 1) : Script(p)[k] = Approval
  <2> SUFFICES ASSUME p.hitl PROVE \E k \in 1..(Len(Script(p)) - 1) : Script(p)[k] = Approval
    OBVIOUS
  <2>1. Script(p)[t + ToolLen(p) + 2] = Approval
    BY ScriptShape
  <2>2. t + ToolLen(p) + 2 \in 1..(Len(Script(p)) - 1)
    BY <1>1
  <2> QED
    BY <2>1, <2>2
<1>4. t + 1 \in 1..(Len(Script(p)) - 1) /\ Script(p)[t + 1] = StateDelta
  BY <1>1, ScriptShape
<1> QED
  BY <1>2, <1>3, <1>4
------------------------------------------------------------------------------
(* No run has begun.                                                        *)
LEMMA StreamInit == Init => StreamInv
<1> SUFFICES ASSUME Init PROVE StreamInv
  OBVIOUS
<1> USE DEF Init, RuntimeInit
<1>1. Typed
  BY StreamAssumption, RuntimeAssumption
     DEF Typed, RuntimeTypeOK, PCs, Provider, NewProvider
<1>2. HasRunner
  BY DEF HasRunner
<1>3. ASSUME NEW r \in Runs PROVE StreamOk(r)
  BY DEF StreamOk, StageOk, Written, InTransit, Counted
<1> QED
  BY <1>1, <1>2, <1>3 DEF StreamInv

(* What is yielded, forwarded and written is an event.                       *)
LEMMA YieldType ==
    ASSUME Typed, NEW r \in Runs, NEW e \in Events, Yield(r, e)
    PROVE  pipe' \in [Runs -> Seq(Events)]
BY DEF Typed, Yield

(* What the gateway writes of its own is well typed, too.                    *)
LEMMA ErrorType ==
    ASSUME Typed, NEW r \in Runs, Error(r)
    PROVE  /\ browser' \in [Runs -> Seq(Events)] /\ pipe' \in [Runs -> Seq(Events)]
           /\ gw' \in [Runs -> {"idle", "reading", "closed", "lost"}]
           /\ quiet' \in [Runs -> 0..ReadTimeout]
<1> DEFINE w == (IF Contains(browser[r], Started) THEN <<>> ELSE <<Started>>) \o <<ServiceError>>
<1>1. Started \in Events /\ ServiceError \in Events
  BY DEF Events
<1>2. w \in Seq(Events)
  BY <1>1
<1>3. browser' = [browser EXCEPT ![r] = @ \o w]
  BY DEF Error, Write
<1> HIDE DEF w
<1>4. browser' \in [Runs -> Seq(Events)]
  BY <1>2, <1>3 DEF Typed
<1>5. 0 \in 0..ReadTimeout
  BY StreamAssumption
<1>6. Leave(r, "closed")
  BY DEF Error
<1> QED
  BY <1>4, <1>5, <1>6 DEF Leave, Typed

(* A step inside the runtime: where it leads, and that the provider is built   *)
(* once and keeps the runner of whoever is in an attempt.                    *)
LEMMA AttemptEffect ==
    ASSUME Typed, NEW r \in Runs, Attempt(r)
    PROVE  /\ provider' \in Provider
           /\ \E v \in 0..Attempts : attempt' = [attempt EXCEPT ![r] = v]
           /\ \/ UNCHANGED <<pc, plan, elapsed>>
              \/ /\ pc' = [pc EXCEPT ![r] = "error"] /\ UNCHANGED plan
                 /\ elapsed' = [elapsed EXCEPT ![r] = 0]
              \/ /\ pc' = [pc EXCEPT ![r] = "session"]
                 /\ \E p \in Plan : plan' = [plan EXCEPT ![r] = p]
                 /\ elapsed' = [elapsed EXCEPT ![r] = 0]
<1> USE DEF Goto, StopClock
<1>1. provider \in Provider /\ attempt \in [Runs -> 0..Attempts] /\ attempt[r] \in 0..Attempts
  BY DEF Typed, RuntimeTypeOK
<1>2. [attempt EXCEPT ![r] = attempt[r]] = attempt
  BY <1>1
<1>3. 1 \in 0..Attempts /\ 0 \in 0..Attempts /\ (attempt[r] \in 1..(Attempts - 1) => attempt[r] + 1 \in 0..Attempts)
  BY RuntimeAssumption
<1>9. /\ [agent |-> TRUE, runner |-> TRUE, unavailable |-> FALSE] \in Provider
      /\ \A made \in BOOLEAN :
            [agent |-> made, runner |-> FALSE, unavailable |-> TRUE] \in Provider
  BY DEF Provider
<1>4. CASE EnterAttempts(r) /\ UNCHANGED <<pc, plan, elapsed>>
  <2>1. provider' \in Provider
    BY <1>1, <1>4, <1>9 DEF EnterAttempts, BuildSucceeds
  <2> QED
    BY <1>3, <1>4, <2>1 DEF EnterAttempts
<1>5. CASE AttemptFails(r) /\ UNCHANGED <<pc, plan, elapsed>>
  BY <1>1, <1>3, <1>5 DEF AttemptFails
<1>6. CASE RefuseRun(r) /\ Goto(r, "error") /\ StopClock(r) /\ UNCHANGED plan
  <2>1. provider' \in Provider
    BY <1>1, <1>6, <1>9 DEF RefuseRun, BuildFails
  <2> QED
    BY <1>1, <1>2, <1>6, <2>1 DEF RefuseRun
<1>7. CASE LastAttemptFails(r) /\ Goto(r, "error") /\ StopClock(r) /\ UNCHANGED plan
  BY <1>1, <1>3, <1>7 DEF LastAttemptFails
<1>8. ASSUME NEW text \in Text, NEW p \in PlansOf(Parsed(text)),
             AttemptReturns(r, text), plan' = [plan EXCEPT ![r] = p],
             Goto(r, "session"), StopClock(r)
      PROVE  /\ provider' \in Provider
             /\ \E v \in 0..Attempts : attempt' = [attempt EXCEPT ![r] = v]
             /\ \E q \in Plan : plan' = [plan EXCEPT ![r] = q]
  BY <1>1, <1>3, <1>8 DEF AttemptReturns, PlansOf
<1> QED
  BY <1>4, <1>5, <1>6, <1>7, <1>8 DEF Attempt

(* Every step of the agent service keeps the types.                          *)
LEMMA AgentTyped ==
    ASSUME Typed, NEW r \in Runs, StageOk(r), Agent(r)
    PROVE  Typed'
<1> USE DEF Typed, RuntimeTypeOK, PCs, Goto, StopClock, RuntimeIdle, runtimeVars, gatewayVars
<1>0. 0 \in 0..RuntimeTimeout /\ 0 \in 0..Attempts
  BY RuntimeAssumption, StreamAssumption
<1>1. CASE Start(r)
  <2>1. Started \in Events
    BY DEF Events
  <2> QED
    BY <1>1, <2>1, YieldType DEF Start
<1>2. CASE Attempt(r)
  <2>1. provider' \in Provider
    BY <1>2, AttemptEffect
  <2>2. attempt' \in [Runs -> 0..Attempts]
    BY <1>2, AttemptEffect
  <2>3. plan' \in [Runs -> Plan \cup {None}]
    <3>1. plan \in [Runs -> Plan \cup {None}]
      OBVIOUS
    <3>2. plan' = plan \/ \E p \in Plan : plan' = [plan EXCEPT ![r] = p]
      <4> HIDE DEF Typed
      <4> QED
        BY <1>2, AttemptEffect
    <3> HIDE DEF Typed
    <3> QED
      BY <3>1, <3>2
  <2>5. elapsed' \in [Runs -> 0..RuntimeTimeout]
    <3> HIDE DEF PCs
    <3> QED
      BY <1>2, <1>0, AttemptEffect
  <2>4. pc' \in [Runs -> PCs]
    BY <1>2, AttemptEffect
  <2> QED
    BY <1>2, <2>1, <2>2, <2>3, <2>4, <2>5 DEF Attempt
<1>3. CASE RuntimeTimesOut(r) \/ Cancel(r)
  <2>1. pc' \in [Runs -> PCs]
    BY <1>3 DEF RuntimeTimesOut, Cancel
  <2>2. attempt' \in [Runs -> 0..Attempts] /\ elapsed' \in [Runs -> 0..RuntimeTimeout]
    <3>1. attempt' = [attempt EXCEPT ![r] = 0] /\ elapsed' = [elapsed EXCEPT ![r] = 0]
      BY <1>3 DEF RuntimeTimesOut, Cancel, LeaveRuntime
    <3> QED
      BY <1>0, <3>1
  <2>3. UNCHANGED <<provider, plan, sent, saved, pipe, gw, browser, quiet, faults>>
    BY <1>3 DEF RuntimeTimesOut, Cancel, LeaveRuntime
  <2> QED
    BY <2>1, <2>2, <2>3
<1>4. CASE Store(r)
  BY <1>4 DEF Store
<1>5. CASE Emit(r)
  <2>1. plan[r] \in Plan /\ sent[r] + 1 \in 1..Len(Script(plan[r]))
    BY <1>5, ScriptShape DEF StageOk, Emit
  <2>2. Script(plan[r])[sent[r] + 1] \in Events
    BY <2>1, ScriptEvents
  <2>3. pipe' \in [Runs -> Seq(Events)]
    BY <1>5, <2>2, YieldType DEF Emit
  <2>4. sent' \in [Runs -> Nat] /\ pc' \in [Runs -> PCs]
    BY <1>5 DEF Emit
  <2> QED
    BY <1>5, <2>3, <2>4 DEF Emit
<1>6. CASE EmitError(r)
  <2>1. RuntimeError \in Events
    BY DEF Events
  <2> QED
    BY <1>6, <2>1, YieldType DEF EmitError
<1>7. CASE Close(r)
  <2>1. Eof \in Events
    BY DEF Events
  <2> QED
    BY <1>7, <2>1, YieldType DEF Close
<1> QED
  BY <1>1, <1>2, <1>3, <1>4, <1>5, <1>6, <1>7 DEF Agent

(* So does every step of the gateway and of the connection.                  *)
LEMMA GatewayTyped ==
    ASSUME Typed, NEW r \in Runs,
           \/ Gateway(r) \/ Connect(r) \/ BrowserLost(r)
           \/ ConnectFails(r) \/ ConnectionLost(r) \/ StoreRaises(r)
    PROVE  Typed'
<1> USE DEF Typed, RuntimeTypeOK, PCs, Goto, RuntimeIdle, runtimeVars, agentVars, gatewayVars
<1>0. 0 \in 0..ReadTimeout /\ (Fault => faults' \in 0..MaxFaults)
  BY StreamAssumption DEF Fault
<1>1. CASE Forward(r)
  <2>1. Head(pipe[r]) \in Events /\ Tail(pipe[r]) \in Seq(Events)
    BY <1>1, HeadTailProperties DEF Forward
  <2>2. browser[r] \o <<Head(pipe[r])>> \in Seq(Events)
    BY <2>1
  <2> QED
    BY <1>0, <1>1, <2>1, <2>2 DEF Forward, Write
<1>2. CASE ReadFails(r)
  BY <1>2, ErrorType DEF ReadFails
<1>3. CASE ReadEof(r)
  BY <1>0, <1>3 DEF ReadEof, Leave
<1>4. CASE Connect(r)
  BY <1>4 DEF Connect
<1>5. CASE BrowserLost(r)
  BY <1>0, <1>5 DEF BrowserLost, Leave
<1>6. CASE ConnectFails(r)
  BY <1>0, <1>6, ErrorType DEF ConnectFails
<1>7. CASE ConnectionLost(r)
  BY <1>0, <1>7, ErrorType DEF ConnectionLost
<1>8. CASE StoreRaises(r)
  <2>1. saved' \in [Runs -> {"nothing", "workflow", "thread"}]
    BY <1>8 DEF StoreRaises
  <2> QED
    BY <1>0, <1>8, <2>1 DEF StoreRaises
<1> QED
  BY <1>1, <1>2, <1>3, <1>4, <1>5, <1>6, <1>7, <1>8 DEF Gateway

(* A crash and the passing of time keep the types.                           *)
LEMMA CrashTyped == ASSUME Typed, AgentCrash PROVE Typed'
<1>1. PICK p \in [Runs -> UNION {Cut(pipe[r]) \cup {pipe[r]} : r \in Runs}] :
        /\ \A r \in Runs :
             p[r] \in IF r \in Live /\ gw[r] = "reading" THEN Cut(pipe[r]) ELSE {pipe[r]}
        /\ pipe' = p
  BY DEF AgentCrash
<1>2. Broken \in Events
  BY DEF Events
<1>3. ASSUME NEW r \in Runs PROVE p[r] \in Seq(Events)
  <2>1. pipe[r] \in Seq(Events)
    BY DEF Typed
  <2>2. ASSUME NEW n \in 0..Len(pipe[r]) PROVE Append(SubSeq(pipe[r], 1, n), Broken) \in Seq(Events)
    <3>1. SubSeq(pipe[r], 1, n) \in Seq(Events)
      BY <2>1, SubSeqProperties
    <3> QED
      BY <1>2, <3>1
  <2> QED
    BY <1>1, <2>1, <2>2 DEF Cut
<1>4. pipe' \in [Runs -> Seq(Events)]
  BY <1>1, <1>3
<1>5. 0 \in 0..Attempts /\ 0 \in 0..RuntimeTimeout /\ faults' \in 0..MaxFaults
  BY RuntimeAssumption, StreamAssumption DEF AgentCrash, Fault, Typed
<1>6. NewProvider \in Provider
  BY DEF NewProvider, Provider
<1>7. attempt' \in [Runs -> 0..Attempts] /\ elapsed' \in [Runs -> 0..RuntimeTimeout]
  BY <1>5 DEF AgentCrash
<1>8. pc' \in [Runs -> PCs]
  BY DEF AgentCrash, Typed, PCs
<1>9. provider' \in Provider /\ UNCHANGED <<plan, sent, saved, gw, browser, quiet>>
  BY <1>6 DEF AgentCrash, gatewayVars
<1> QED
  BY <1>4, <1>5, <1>7, <1>8, <1>9 DEF Typed, RuntimeTypeOK

(* Time stays within the timeouts.                                          *)
LEMMA TickTyped == ASSUME Typed, Tick PROVE Typed'
<1>1. ASSUME NEW r \in Runs
      PROVE  /\ elapsed[r] + (IF r \in InRuntime THEN 1 ELSE 0) \in 0..RuntimeTimeout
             /\ quiet[r] + (IF r \in Waiting THEN 1 ELSE 0) \in 0..ReadTimeout
  <2>1. elapsed[r] \in 0..RuntimeTimeout /\ quiet[r] \in 0..ReadTimeout
    BY DEF Typed
  <2>2. (r \in InRuntime => elapsed[r] < RuntimeTimeout) /\ (r \in Waiting => quiet[r] < ReadTimeout)
    BY DEF Tick
  <2> QED
    BY <2>1, <2>2, StreamAssumption
<1>2. elapsed' \in [Runs -> 0..RuntimeTimeout] /\ quiet' \in [Runs -> 0..ReadTimeout]
  BY <1>1 DEF Tick
<1> QED
  BY <1>2 DEF Tick, Typed, RuntimeTypeOK, runtimeVars, gatewayVars

(* Every step keeps the types.                                              *)
LEMMA TypedStep == ASSUME Typed, \A r \in Runs : StageOk(r), [Next]_vars PROVE Typed'
<1>1. CASE UNCHANGED vars
  BY <1>1 DEF Typed, RuntimeTypeOK, vars, agentVars, runtimeVars, gatewayVars
<1> QED
  BY <1>1, AgentTyped, GatewayTyped, CrashTyped, TickTyped DEF Next, Done

(* The provider is built once, and whoever is in an attempt keeps its runner: *)
(* only a provider without an agent is built, and then nobody is in one.      *)
LEMMA HasRunnerStep ==
    ASSUME Typed, HasRunner, [Next]_vars
    PROVE  HasRunner'
<1>1. attempt \in [Runs -> 0..Attempts]
  BY DEF Typed, RuntimeTypeOK
<1>2. ASSUME NEW r \in Runs, Attempt(r) PROVE HasRunner'
  <2>1. CASE EnterAttempts(r)
    <3>1. provider'.agent /\ provider'.runner
      BY <2>1 DEF EnterAttempts, BuildSucceeds
    <3> QED
      BY <3>1 DEF HasRunner
  <2>2. CASE BuildFails /\ UNCHANGED attempt
    <3>1. \A q \in Runs : attempt[q] = 0
      BY <2>2 DEF HasRunner, BuildFails, CanTry
    <3> QED
      BY <2>2, <3>1 DEF HasRunner
  <2>3. CASE UNCHANGED <<provider, attempt>>
    BY <2>3 DEF HasRunner
  <2>4. CASE AttemptFails(r) \/ LastAttemptFails(r) \/ \E text \in Text : AttemptReturns(r, text)
    <3>1. /\ UNCHANGED provider
          /\ \A q \in Runs : attempt'[q] # 0 => attempt[q] # 0
      BY <1>1, <2>4, RuntimeAssumption DEF AttemptFails, LastAttemptFails, AttemptReturns
    <3> QED
      BY <3>1 DEF HasRunner
  <2> QED
    BY <1>2, <2>1, <2>2, <2>3, <2>4 DEF Attempt, RefuseRun
<1>3. ASSUME NEW r \in Runs, LeaveRuntime(r) PROVE HasRunner'
  BY <1>1, <1>3 DEF LeaveRuntime, HasRunner
<1>4. CASE UNCHANGED <<provider, attempt>>
  BY <1>4 DEF HasRunner
<1>5. CASE AgentCrash
  BY <1>5 DEF AgentCrash, HasRunner
<1>6. ASSUME NEW r \in Runs, Agent(r) PROVE HasRunner'
  BY <1>2, <1>3, <1>4, <1>6
     DEF Agent, Start, RuntimeTimesOut, Store, Emit, EmitError, Close, Cancel, RuntimeIdle,
         runtimeVars
<1>7. ASSUME NEW r \in Runs,
             \/ Gateway(r) \/ Connect(r) \/ BrowserLost(r)
             \/ ConnectFails(r) \/ ConnectionLost(r) \/ StoreRaises(r)
      PROVE  HasRunner'
  BY <1>4, <1>7
     DEF Gateway, Forward, ReadFails, ReadEof, Connect, BrowserLost, ConnectFails, ConnectionLost,
         StoreRaises, RuntimeIdle, runtimeVars, agentVars
<1>8. CASE Tick \/ Done \/ UNCHANGED vars
  BY <1>4, <1>8 DEF Tick, Done, vars, agentVars, runtimeVars
<1> QED
  BY <1>5, <1>6, <1>7, <1>8 DEF Next
------------------------------------------------------------------------------
(* The generator only moves on: what it has yielded is settled, and one that   *)
(* is done yields no more.                                                  *)
Onward(r) ==
    /\ sent'[r] \in Nat /\ sent'[r] >= sent[r]
    /\ sent[r] > 0 => plan'[r] = plan[r]
    /\ pc[r] \in {"close", "gone"} => pc'[r] \in {pc[r], "gone"} /\ sent'[r] = sent[r]

(* What may stand in a stream, may stand there for ever.                     *)
LEMMA CellStays ==
    ASSUME Typed, NEW r \in Runs, Onward(r), NEW i \in Nat, NEW e, Cell(r, i, e)
    PROVE  Cell(r, i, e)'
<1>1. sent[r] \in Nat
  BY DEF Typed
<1>2. CASE i = 1 /\ e = Started
  BY <1>2 DEF Cell
<1>3. CASE i = 2 /\ e = RuntimeError /\ sent[r] = 0 /\ pc[r] \in {"close", "gone"}
  BY <1>3 DEF Cell, Onward
<1>4. CASE i - 1 \in 1..sent[r] /\ e = Script(plan[r])[i - 1]
  <2>1. plan'[r] = plan[r] /\ i - 1 \in 1..sent'[r]
    BY <1>1, <1>4 DEF Onward
  <2>2. Script(plan[r])' = Script(plan[r])
    BY <2>1 DEF Script, TextEvents, ToolCalls
  <2> QED
    BY <1>4, <2>1, <2>2 DEF Cell
<1>5. CASE i > 2 /\ e = Eof /\ pc[r] = "gone"
  BY <1>5 DEF Cell, Onward
<1> QED
  BY <1>2, <1>3, <1>4, <1>5 DEF Cell

(* A step that leaves the stream of r as it is: nothing it holds changes, and  *)
(* the count of what was yielded does not either.                           *)
LEMMA QuietStep ==
    ASSUME Typed, NEW r \in Runs, StreamOk(r), Onward(r), StageOk(r)',
           gw'[r] = gw[r], browser'[r] = browser[r], pipe'[r] = pipe[r],
           gw[r] = "reading" /\ pc'[r] # "gone" => pc[r] # "gone" /\ Count(r)' = Count(r)
    PROVE  StreamOk(r)'
<1>1. browser[r] \in Seq(Events) /\ pipe[r] \in Seq(Events)
  BY DEF Typed
<1>2. Written(r)'
  <2> SUFFICES ASSUME NEW i \in 1..Len(browser[r])
               PROVE  \/ Cell(r, i, browser[r][i])' /\ browser[r][i] # Eof
                      \/ i = Len(browser[r]) /\ i > 1 /\ browser[r][i] = ServiceError
                         /\ gw[r] = "closed"
    BY DEF Written
  <2>1. i \in Nat
    BY <1>1
  <2>2. Cell(r, i, browser[r][i]) => Cell(r, i, browser[r][i])'
    BY <2>1, CellStays
  <2> QED
    BY <2>2 DEF StreamOk, Written
<1>3. InTransit(r)'
  <2> SUFFICES ASSUME NEW j \in 1..Len(pipe[r])
               PROVE  \/ Cell(r, Len(browser[r]) + j, pipe[r][j])'
                      \/ j = Len(pipe[r]) /\ pipe[r][j] = Broken /\ pc'[r] = "gone"
    BY DEF InTransit
  <2>1. Len(browser[r]) + j \in Nat
    BY <1>1
  <2>2. Cell(r, Len(browser[r]) + j, pipe[r][j]) => Cell(r, Len(browser[r]) + j, pipe[r][j])'
    BY <2>1, CellStays
  <2> QED
    BY <2>2 DEF StreamOk, InTransit, Onward
<1>4. Counted(r)'
  BY DEF StreamOk, Counted
<1> QED
  BY <1>2, <1>3, <1>4 DEF StreamOk

(* A step that yields e: the connection gets it, at the position that is      *)
(* next, if anybody reads.                                                  *)
LEMMA YieldStep ==
    ASSUME Typed, Typed', NEW r \in Runs, StreamOk(r), Onward(r), StageOk(r)',
           gw'[r] = gw[r], browser'[r] = browser[r], pc[r] # "gone",
           NEW e \in Events, Yield(r, e),
           NEW n \in Nat, n = Count(r), Cell(r, n + 1, e)',
           pc'[r] # "gone" => Count(r)' = n + 1
    PROVE  StreamOk(r)'
<1>0. /\ browser \in [Runs -> Seq(Events)] /\ pipe \in [Runs -> Seq(Events)]
      /\ browser' \in [Runs -> Seq(Events)] /\ pipe' \in [Runs -> Seq(Events)]
  BY DEF Typed
<1>1. browser[r] \in Seq(Events) /\ pipe \in [Runs -> Seq(Events)] /\ pipe[r] \in Seq(Events)
  BY DEF Typed
<1>2. CASE gw[r] = "reading"
  <2>1. pipe'[r] = Append(pipe[r], e)
    BY <1>1, <1>2 DEF Yield
  <2>2. /\ Len(Append(pipe[r], e)) = Len(pipe[r]) + 1 /\ Append(pipe[r], e)[Len(pipe[r]) + 1] = e
        /\ \A j \in 1..Len(pipe[r]) : Append(pipe[r], e)[j] = pipe[r][j]
    BY <1>1, AppendProperties
  <2>3. Len(browser[r]) + Len(pipe[r]) = n
    BY <1>2 DEF StreamOk, Counted
  <2>4. Written(r)'
    <3> SUFFICES ASSUME NEW i \in 1..Len(browser[r]), NEW x, x = browser[r][i]
                 PROVE  Cell(r, i, x)' /\ x # Eof
      BY <1>0 DEF Written, Cell
    <3>1. i \in Nat /\ Cell(r, i, x) /\ x # Eof
      BY <1>1, <1>2 DEF StreamOk, Written
    <3> QED
      BY <3>1, CellStays
  <2>5. InTransit(r)'
    <3> SUFFICES ASSUME NEW j \in 1..(Len(pipe[r]) + 1), NEW i, i = Len(browser[r]) + j,
                        NEW x, x = Append(pipe[r], e)[j]
                 PROVE  Cell(r, i, x)'
      BY <1>0, <2>1, <2>2 DEF InTransit, Cell
    <3>1. CASE j \in 1..Len(pipe[r])
      <4>1. Cell(r, i, x) /\ i \in Nat
        BY <1>1, <2>2, <3>1 DEF StreamOk, InTransit
      <4> QED
        BY <4>1, CellStays
    <3>2. CASE j = Len(pipe[r]) + 1
      <4>1. x = e /\ i = n + 1
        BY <1>1, <1>0, <2>2, <2>3, <3>2
      <4> QED
        BY <4>1
    <3> QED
      BY <1>1, <3>1, <3>2
  <2>6. Counted(r)'
    <3>1. Len(browser'[r]) = Len(browser[r]) /\ Len(pipe'[r]) = Len(pipe[r]) + 1
      BY <2>1, <2>2
    <3>2. Len(browser[r]) \in Nat /\ Len(pipe[r]) \in Nat
      BY <1>1
    <3>3. Len(browser'[r]) + Len(pipe'[r]) = n + 1
      BY <1>0, <2>3, <3>1, <3>2
    <3> QED
      BY <3>3 DEF Counted
  <2> QED
    BY <2>4, <2>5, <2>6 DEF StreamOk
<1>3. CASE gw[r] # "reading"
  BY <1>3, QuietStep DEF Yield
<1> QED
  BY <1>2, <1>3
------------------------------------------------------------------------------
(* The steps of the agent service that yield.                               *)
LEMMA StartStream ==
    ASSUME Typed, Typed', NEW r \in Runs, StreamOk(r), Start(r)
    PROVE  StreamOk(r)'
<1> USE DEF Goto, gatewayVars
<1>1. sent[r] \in Nat /\ ~(sent[r] > 0) /\ pc'[r] = "runtime" /\ sent'[r] = sent[r]
  BY DEF Typed, Start, StreamOk, StageOk
<1>2. Onward(r) /\ StageOk(r)' /\ gw'[r] = gw[r] /\ browser'[r] = browser[r] /\ pc[r] # "gone"
  <2>1. pipe'[r] = <<>> \/ gw'[r] = "reading"
    BY DEF Start, Yield, StreamOk, StageOk
  <2> QED
    BY <1>1, <2>1 DEF Start, Typed, Onward, StreamOk, StageOk
<1>3. Started \in Events /\ Yield(r, Started)
  BY DEF Events, Start
<1>4. Count(r) = 0 /\ Count(r)' = 0 + 1
  BY <1>1 DEF Start, Count
<1>5. Cell(r, 0 + 1, Started)'
  BY DEF Cell
<1> QED
  BY <1>2, <1>3, <1>4, <1>5, YieldStep

(* The next event of the plan is yielded, and after the last the body is closed. *)
LEMMA EmitStream ==
    ASSUME Typed, Typed', NEW r \in Runs, StreamOk(r), Emit(r)
    PROVE  StreamOk(r)'
<1> DEFINE e == Script(plan[r])[sent[r] + 1]
<1> DEFINE n == sent[r] + 1
<1>1. /\ sent[r] \in Nat /\ plan[r] \in Plan /\ sent[r] < Len(Script(plan[r])) /\ saved[r] = "thread"
      /\ Len(Script(plan[r])) \in Nat /\ n \in 1..Len(Script(plan[r]))
  <2>1. sent[r] \in Nat /\ plan[r] \in Plan /\ sent[r] < Len(Script(plan[r])) /\ saved[r] = "thread"
    BY DEF Typed, Emit, StreamOk, StageOk
  <2>2. Len(Script(plan[r])) \in Nat
    BY <2>1, ScriptShape
  <2> QED
    BY <2>1, <2>2
<1>2. /\ sent'[r] = sent[r] + 1 /\ plan'[r] = plan[r] /\ saved'[r] = saved[r]
      /\ gw'[r] = gw[r] /\ browser'[r] = browser[r] /\ pc[r] = "emit"
      /\ pc'[r] = IF sent[r] + 1 = Len(Script(plan[r])) THEN "close" ELSE "emit"
      /\ Yield(r, e)
  BY DEF Emit, Goto, Typed, gatewayVars
<1>3. Onward(r)
  BY <1>1, <1>2 DEF Onward
<1>4. StageOk(r)'
  <2>1. gw'[r] # "reading" => pipe'[r] = <<>>
    BY <1>2 DEF Yield, StreamOk, StageOk
  <2>2. Script(plan[r])' = Script(plan[r])
    BY <1>2 DEF Script, TextEvents, ToolCalls
  <2>3. gw'[r] # "idle"
    BY <1>2 DEF StreamOk, StageOk
  <2>4. sent'[r] <= Len(Script(plan[r])) /\ (pc'[r] = "emit" => sent'[r] < Len(Script(plan[r])))
    BY <1>1, <1>2
  <2> QED
    BY <1>1, <1>2, <2>1, <2>2, <2>3, <2>4 DEF StageOk
<1>5. e \in Events
  BY <1>1, ScriptEvents
<1>6. n \in Nat /\ n = Count(r) /\ Count(r)' = n + 1
  BY <1>1, <1>2 DEF Count
<1>7. ASSUME NEW i \in Nat, i = n, NEW x, x = e PROVE Cell(r, i + 1, x)'
  <2>1. i \in 1..sent'[r] /\ x = Script(plan'[r])[i] /\ (i + 1) - 1 = i
    BY <1>1, <1>2, <1>7
  <2> QED
    BY <2>1 DEF Cell
<1> HIDE DEF e, n
<1>8. \E i \in Nat, x \in Events :
        i = Count(r) /\ Count(r)' = i + 1 /\ Yield(r, x) /\ Cell(r, i + 1, x)'
  BY <1>2, <1>5, <1>6, <1>7
<1> QED
  BY <1>2, <1>3, <1>4, <1>8, YieldStep

(* The generator's except clause yields the error, if nothing of a plan was   *)
(* yielded.                                                                 *)
LEMMA EmitErrorStream ==
    ASSUME Typed, Typed', NEW r \in Runs, StreamOk(r), EmitError(r)
    PROVE  StreamOk(r)'
<1> USE DEF Goto, gatewayVars
<1>1. sent[r] \in Nat /\ ~(sent[r] > 0) /\ pc'[r] = "close" /\ sent'[r] = sent[r]
  BY DEF Typed, EmitError, StreamOk, StageOk
<1>2. Onward(r) /\ StageOk(r)' /\ gw'[r] = gw[r] /\ browser'[r] = browser[r] /\ pc[r] # "gone"
  <2>1. pipe'[r] = <<>> \/ gw'[r] = "reading"
    BY DEF EmitError, Yield, StreamOk, StageOk
  <2> QED
    BY <1>1, <2>1 DEF EmitError, Typed, Onward, StreamOk, StageOk
<1>3. RuntimeError \in Events /\ Yield(r, RuntimeError)
  BY DEF Events, EmitError
<1>4. Count(r) = 1 /\ Count(r)' = 1 + 1
  BY <1>1 DEF EmitError, Count
<1>5. Cell(r, 1 + 1, RuntimeError)'
  BY <1>1 DEF Cell
<1> QED
  BY <1>2, <1>3, <1>4, <1>5, YieldStep

(* The end of the body comes after at least two events.                      *)
LEMMA CloseStream ==
    ASSUME Typed, Typed', NEW r \in Runs, StreamOk(r), Close(r)
    PROVE  StreamOk(r)'
<1> USE DEF Goto, gatewayVars
<1>1. /\ sent[r] \in Nat /\ pc[r] = "close" /\ pc'[r] = "gone" /\ sent'[r] = sent[r]
      /\ plan'[r] = plan[r] /\ saved'[r] = saved[r]
      /\ gw'[r] = gw[r] /\ browser'[r] = browser[r]
  BY DEF Typed, Close
<1>2. Onward(r)
  BY <1>1 DEF Onward
<1>3. StageOk(r)'
  <2>1. gw'[r] # "reading" => pipe'[r] = <<>>
    BY <1>1 DEF Close, Yield, StreamOk, StageOk
  <2>2. Script(plan[r])' = Script(plan[r])
    BY <1>1 DEF Script, TextEvents, ToolCalls
  <2> QED
    BY <1>1, <2>1, <2>2 DEF StreamOk, StageOk
<1>4. Eof \in Events /\ Yield(r, Eof)
  BY DEF Events, Close
<1>5. Count(r) \in Nat /\ Count(r) + 1 > 2
  BY <1>1 DEF Count
<1>6. ASSUME NEW n \in Nat, n = Count(r) PROVE Cell(r, n + 1, Eof)'
  BY <1>1, <1>5, <1>6 DEF Cell
<1>7. \E n \in Nat : n = Count(r) /\ Cell(r, n + 1, Eof)'
  BY <1>5, <1>6
<1> QED
  BY <1>1, <1>2, <1>3, <1>4, <1>7, YieldStep

(* The steps of the agent service that yield nothing.                        *)
LEMMA AttemptStream ==
    ASSUME Typed, Typed', NEW r \in Runs, StreamOk(r), Attempt(r)
    PROVE  StreamOk(r)'
<1>1. /\ pc[r] = "runtime" /\ sent[r] \in Nat /\ sent'[r] = sent[r] /\ saved'[r] = saved[r]
      /\ gw'[r] = gw[r] /\ browser'[r] = browser[r] /\ pipe'[r] = pipe[r]
  BY DEF Attempt, gatewayVars, Typed
<1>2. \/ pc'[r] = pc[r]
      \/ pc'[r] = "error"
      \/ pc'[r] = "session" /\ plan'[r] \in Plan
  <2>1. /\ pc \in [Runs -> PCs] /\ plan \in [Runs -> Plan \cup {None}]
    BY DEF Typed
  <2>2. \/ UNCHANGED pc
        \/ pc' = [pc EXCEPT ![r] = "error"]
        \/ /\ pc' = [pc EXCEPT ![r] = "session"]
           /\ \E p \in Plan : plan' = [plan EXCEPT ![r] = p]
    BY AttemptEffect
  <2> QED
    BY <2>1, <2>2
<1>3. sent[r] = 0
  BY <1>1 DEF StreamOk, StageOk
<1>4. Onward(r) /\ StageOk(r)'
  BY <1>1, <1>2, <1>3 DEF Onward, StreamOk, StageOk
<1>5. Count(r) = 1 /\ Count(r)' = 1
  BY <1>1, <1>2, <1>3 DEF Count
<1> QED
  BY <1>1, <1>4, <1>5, QuietStep

(* What the plan is stored in moves on with the generator, or Redis raises. *)
LEMMA StoreStream ==
    ASSUME Typed, Typed', NEW r \in Runs, StreamOk(r), Store(r) \/ StoreRaises(r)
    PROVE  StreamOk(r)'
<1>1. /\ pc[r] \in {"session", "workflow", "getThread", "thread"}
      /\ sent[r] \in Nat /\ sent'[r] = sent[r] /\ plan'[r] = plan[r]
      /\ gw'[r] = gw[r] /\ browser'[r] = browser[r] /\ pipe'[r] = pipe[r]
  BY DEF Store, StoreRaises, gatewayVars, Typed
<1>2. sent[r] = 0 /\ plan[r] \in Plan
  BY <1>1 DEF StreamOk, StageOk
<1>3. Script(plan[r])' = Script(plan[r]) /\ 0 < Len(Script(plan[r]))
  <2>1. Script(plan[r])' = Script(plan[r])
    BY <1>1 DEF Script, TextEvents, ToolCalls
  <2>2. 1 <= Len(Script(plan[r])) /\ Len(Script(plan[r])) \in Nat
    BY <1>2, FollowsAny, ScriptShape
  <2> QED
    BY <2>1, <2>2
<1>4. \/ pc[r] = "session" /\ pc'[r] = "workflow" /\ saved'[r] = saved[r]
      \/ pc[r] = "workflow" /\ pc'[r] = "getThread" /\ saved'[r] = "workflow"
      \/ pc[r] = "getThread" /\ pc'[r] = "thread" /\ saved'[r] = saved[r]
      \/ pc[r] = "thread" /\ pc'[r] = "emit" /\ saved'[r] = "thread"
      \/ pc'[r] = "error"
  BY DEF Store, StoreRaises, Goto, Typed
<1>5. Onward(r) /\ StageOk(r)'
  BY <1>1, <1>2, <1>3, <1>4 DEF Onward, StreamOk, StageOk
<1>6. Count(r) = 1 /\ Count(r)' = 1
  BY <1>1, <1>2, <1>4 DEF Count
<1> QED
  BY <1>1, <1>5, <1>6, QuietStep

(* The runtime times out, or the server cancels a generator nobody reads. *)
LEMMA LeaveStream ==
    ASSUME Typed, Typed', NEW r \in Runs, StreamOk(r), RuntimeTimesOut(r) \/ Cancel(r)
    PROVE  StreamOk(r)'
<1>1. /\ sent[r] \in Nat /\ sent'[r] = sent[r] /\ plan'[r] = plan[r] /\ saved'[r] = saved[r]
      /\ gw'[r] = gw[r] /\ browser'[r] = browser[r] /\ pipe'[r] = pipe[r]
      /\ \/ pc[r] = "runtime" /\ pc'[r] = "error"
         \/ pc[r] # "gone" /\ pc'[r] = "gone" /\ gw[r] \in {"closed", "lost"}
  BY DEF RuntimeTimesOut, Cancel, Goto, gatewayVars, Typed
<1>2. Script(plan[r])' = Script(plan[r])
  BY <1>1 DEF Script, TextEvents, ToolCalls
<1>3. Onward(r) /\ StageOk(r)'
  BY <1>1, <1>2 DEF Onward, StreamOk, StageOk
<1>4. pc'[r] # "gone" => Count(r) = 1 /\ Count(r)' = 1
  BY <1>1 DEF Count, StreamOk, StageOk
<1> QED
  BY <1>1, <1>3, <1>4, QuietStep

(* What is done for another run, or for nobody, leaves the stream of r alone.  *)
LEMMA OtherStream ==
    ASSUME Typed, NEW r \in Runs, StreamOk(r),
           pc'[r] = pc[r], plan'[r] = plan[r], sent'[r] = sent[r], saved'[r] = saved[r],
           gw'[r] = gw[r], browser'[r] = browser[r], pipe'[r] = pipe[r]
    PROVE  StreamOk(r)'
<1>1. sent[r] \in Nat
  BY DEF Typed
<1>2. Script(plan[r])' = Script(plan[r])
  BY DEF Script, TextEvents, ToolCalls
<1>3. Onward(r) /\ StageOk(r)'
  BY <1>1, <1>2 DEF Onward, StreamOk, StageOk
<1>4. Count(r)' = Count(r)
  BY DEF Count
<1> QED
  BY <1>3, <1>4, QuietStep
------------------------------------------------------------------------------
(* The gateway's side.  Until the gateway adds an error of its own, what the   *)
(* browser has begins with RUN_STARTED.                                     *)
LEMMA BrowserStarts ==
    ASSUME Typed, NEW r \in Runs, StreamOk(r), gw[r] # "closed"
    PROVE  /\ \A i \in 1..Len(browser[r]) : Cell(r, i, browser[r][i]) /\ browser[r][i] # Eof
           /\ Contains(browser[r], Started) <=> browser[r] # <<>>
<1>1. browser[r] \in Seq(Events) /\ sent[r] \in Nat
  BY DEF Typed
<1>2. \A i \in 1..Len(browser[r]) : Cell(r, i, browser[r][i]) /\ browser[r][i] # Eof
  BY DEF StreamOk, Written
<1>3. browser[r] # <<>> => 1 \in 1..Len(browser[r]) /\ browser[r][1] = Started
  <2> SUFFICES ASSUME browser[r] # <<>>
               PROVE  1 \in 1..Len(browser[r]) /\ browser[r][1] = Started
    OBVIOUS
  <2>1. 1 \in 1..Len(browser[r])
    BY <1>1
  <2>2. Cell(r, 1, browser[r][1])
    BY <1>2, <2>1
  <2> QED
    BY <1>1, <2>1, <2>2 DEF Cell
<1> QED
  BY <1>1, <1>2, <1>3 DEF Contains

(* The gateway connects, and the generator begins with nothing sent. *)
LEMMA ConnectStream ==
    ASSUME Typed, NEW r \in Runs, StreamOk(r), Connect(r)
    PROVE  StreamOk(r)'
<1>1. /\ gw[r] = "idle" /\ pc[r] = "idle" /\ browser[r] = <<>> /\ pipe[r] = <<>>
      /\ sent[r] = 0 /\ saved[r] = "nothing"
  BY DEF Connect, StreamOk, StageOk, Typed
<1>2. /\ gw'[r] = "reading" /\ pc'[r] = "start" /\ browser'[r] = <<>> /\ pipe'[r] = <<>>
      /\ sent'[r] = 0 /\ saved'[r] = "nothing"
  BY <1>1 DEF Connect, Goto, Typed
<1>3. StageOk(r)'
  BY <1>2 DEF StageOk
<1>4. Written(r)' /\ InTransit(r)' /\ Counted(r)'
  BY <1>2 DEF Written, InTransit, Counted, Count
<1> QED
  BY <1>3, <1>4 DEF StreamOk

(* The next event goes from the connection to the browser.                    *)
LEMMA ForwardStream ==
    ASSUME Typed, Typed', NEW r \in Runs, StreamOk(r), Forward(r)
    PROVE  StreamOk(r)'
<1> DEFINE e == Head(pipe[r])
<1>1. /\ browser[r] \in Seq(Events) /\ pipe[r] \in Seq(Events) /\ pipe[r] # <<>>
      /\ sent[r] \in Nat /\ gw[r] = "reading" /\ e \notin {Eof, Broken} /\ e = pipe[r][1]
      /\ Len(pipe[r]) > 0
  BY DEF Typed, Forward
<1>2. /\ pc' = pc /\ sent' = sent /\ plan' = plan /\ saved' = saved /\ gw' = gw
      /\ browser'[r] = Append(browser[r], e) /\ pipe'[r] = Tail(pipe[r])
  <2>1. browser[r] \o <<e>> = Append(browser[r], e)
    BY <1>1, HeadTailProperties, AppendIsConcat
  <2> QED
    BY <2>1 DEF Forward, Write, agentVars, Typed
<1>3. /\ Len(Append(browser[r], e)) = Len(browser[r]) + 1
      /\ Append(browser[r], e)[Len(browser[r]) + 1] = e
      /\ \A i \in 1..Len(browser[r]) : Append(browser[r], e)[i] = browser[r][i]
      /\ Len(Tail(pipe[r])) = Len(pipe[r]) - 1
      /\ \A j \in 1..(Len(pipe[r]) - 1) : Tail(pipe[r])[j] = pipe[r][j + 1]
  BY <1>1, AppendProperties, HeadTailProperties
<1>4. ASSUME NEW i, NEW x, Cell(r, i, x) PROVE Cell(r, i, x)'
  BY <1>2, <1>4 DEF Cell, Script, TextEvents, ToolCalls
<1>5. StageOk(r)'
  BY <1>1, <1>2 DEF StreamOk, StageOk, Script, TextEvents, ToolCalls
<1> HIDE DEF e
<1>6. Written(r)'
  <2> SUFFICES ASSUME NEW i \in 1..(Len(browser[r]) + 1), NEW x, x = Append(browser[r], e)[i]
               PROVE  Cell(r, i, x)' /\ x # Eof
    BY <1>2, <1>3 DEF Written, Cell
  <2>1. CASE i \in 1..Len(browser[r])
    <3>1. Cell(r, i, x) /\ x # Eof
      BY <1>1, <1>3, <2>1, BrowserStarts
    <3> QED
      BY <1>4, <3>1
  <2>2. CASE i = Len(browser[r]) + 1
    <3>1. Cell(r, Len(browser[r]) + 1, e)
      BY <1>1 DEF StreamOk, InTransit
    <3> QED
      BY <1>1, <1>3, <1>4, <2>2, <3>1
  <2> QED
    BY <1>1, <2>1, <2>2
<1>7. InTransit(r)'
  <2> SUFFICES ASSUME NEW j \in 1..(Len(pipe[r]) - 1), NEW i, i = Len(browser[r]) + 1 + j,
                      NEW x, x = Tail(pipe[r])[j]
               PROVE  \/ Cell(r, i, x)'
                      \/ j = Len(pipe[r]) - 1 /\ x = Broken /\ pc[r] = "gone"
    BY <1>2, <1>3 DEF InTransit, Cell
  <2>0. Len(browser[r]) \in Nat /\ Len(pipe[r]) \in Nat /\ j \in Nat
    BY <1>1
  <2>1. j + 1 \in 1..Len(pipe[r]) /\ x = pipe[r][j + 1] /\ i = Len(browser[r]) + (j + 1)
    <3>1. x = pipe[r][j + 1]
      BY <1>3
    <3>2. \A m, n \in Nat : \A k \in 1..(n - 1) : k + 1 \in 1..n /\ m + 1 + k = m + (k + 1)
      OBVIOUS
    <3>3. j + 1 \in 1..Len(pipe[r]) /\ i = Len(browser[r]) + (j + 1)
      BY <2>0, <3>2
    <3> QED
      BY <3>1, <3>3
  <2>2. ASSUME NEW k \in 1..Len(pipe[r]), k = j + 1
        PROVE  Cell(r, i, x) \/ (k = Len(pipe[r]) /\ x = Broken /\ pc[r] = "gone")
    <3>1. i = Len(browser[r]) + k /\ x = pipe[r][k]
      BY <2>1, <2>2
    <3> QED
      BY <3>1 DEF StreamOk, InTransit
  <2>3. Cell(r, i, x) \/ (j + 1 = Len(pipe[r]) /\ x = Broken /\ pc[r] = "gone")
    BY <2>1, <2>2
  <2> QED
    BY <1>1, <1>4, <2>3
<1>8. Counted(r)'
  <2>1. Count(r)' = Count(r)
    BY <1>2 DEF Count
  <2>2. Len(browser'[r]) = Len(browser[r]) + 1 /\ Len(pipe'[r]) = Len(pipe[r]) - 1
    BY <1>2, <1>3
  <2>3. Len(browser[r]) \in Nat /\ Len(pipe[r]) \in Nat
    BY <1>1
  <2>4. Len(browser'[r]) + Len(pipe'[r]) = Len(browser[r]) + Len(pipe[r])
    <3>1. \A m, n \in Nat : (m + 1) + (n - 1) = m + n
      OBVIOUS
    <3> QED
      BY <2>2, <2>3, <3>1
  <2> QED
    BY <1>2, <2>1, <2>4 DEF StreamOk, Counted
<1> QED
  BY <1>5, <1>6, <1>7, <1>8 DEF StreamOk

(* What the gateway writes of its own: the error, after a start if the browser *)
(* has nothing yet.                                                         *)
LEMMA ErrorWrites ==
    ASSUME Typed, NEW r \in Runs, StreamOk(r), Error(r), gw[r] # "closed"
    PROVE  /\ gw'[r] = "closed" /\ pipe'[r] = <<>>
           /\ browser[r] = <<>> => browser'[r] = Append(<<Started>>, ServiceError)
           /\ browser[r] # <<>> => browser'[r] = Append(browser[r], ServiceError)
<1>0. ServiceError \in Events /\ Started \in Events
  BY DEF Events
<1>1. browser[r] \in Seq(Events) /\ ServiceError \in Events /\ Started \in Events
  BY <1>0 DEF Typed
<1>2. gw'[r] = "closed" /\ pipe'[r] = <<>>
  BY DEF Error, Leave, Typed
<1>3. browser'[r] = browser[r] \o ((IF Contains(browser[r], Started) THEN <<>> ELSE <<Started>>)
                                   \o <<ServiceError>>)
  BY DEF Error, Write, Typed
<1>4. CASE browser[r] = <<>>
  <2>1. browser'[r] = <<>> \o (<<Started>> \o <<ServiceError>>)
    BY <1>3, <1>4, BrowserStarts
  <2>2. <<Started>> \in Seq(Events) /\ <<Started>> \o <<ServiceError>> = Append(<<Started>>, ServiceError)
    BY <1>1, AppendIsConcat
  <2> QED
    BY <1>1, <1>2, <1>4, <2>1, <2>2
<1>5. CASE browser[r] # <<>>
  <2>1. browser'[r] = browser[r] \o (<<>> \o <<ServiceError>>)
    BY <1>3, <1>5, BrowserStarts
  <2>2. <<>> \o <<ServiceError>> = <<ServiceError>>
    OBVIOUS
  <2>3. browser[r] \o <<ServiceError>> = Append(browser[r], ServiceError)
    BY <1>1, AppendIsConcat
  <2> QED
    BY <1>2, <1>5, <2>1, <2>2, <2>3
<1> QED
  BY <1>4, <1>5

(* The error is the last event, and the browser's stream begins with a start.  *)
LEMMA ErrorStream ==
    ASSUME Typed, NEW r \in Runs, StreamOk(r), Error(r), gw[r] # "closed", UNCHANGED agentVars
    PROVE  StreamOk(r)'
<1> USE DEF agentVars
<1>1. browser[r] \in Seq(Events) /\ gw'[r] = "closed" /\ pipe'[r] = <<>>
  BY ErrorWrites DEF Typed
<1>2. StageOk(r)'
  BY <1>1 DEF StreamOk, StageOk, Script, TextEvents, ToolCalls
<1>3. InTransit(r)' /\ Counted(r)'
  BY <1>1 DEF InTransit, Counted
<1>4. ASSUME NEW i, NEW x, Cell(r, i, x) PROVE Cell(r, i, x)'
  BY <1>4 DEF Cell, Script, TextEvents, ToolCalls
<1>5. Started # Eof
  BY DEF Started, Eof, Event
<1>6. CASE browser[r] = <<>>
  <2>1. browser'[r] = Append(<<Started>>, ServiceError)
    BY <1>6, ErrorWrites
  <2>2. Written(r)'
    <3>1. /\ Len(Append(<<Started>>, ServiceError)) = 2
          /\ Append(<<Started>>, ServiceError)[1] = Started
          /\ Append(<<Started>>, ServiceError)[2] = ServiceError
      OBVIOUS
    <3> SUFFICES ASSUME NEW i \in 1..2, NEW x, x = Append(<<Started>>, ServiceError)[i]
                 PROVE  \/ Cell(r, i, x)' /\ x # Eof
                        \/ i = 2 /\ x = ServiceError
      BY <1>1, <2>1, <3>1 DEF Written, Cell
    <3> QED
      BY <1>5, <3>1 DEF Cell
  <2> QED
    BY <1>2, <1>3, <2>2 DEF StreamOk
<1>7. CASE browser[r] # <<>>
  <2>1. browser'[r] = Append(browser[r], ServiceError)
    BY <1>7, ErrorWrites
  <2>2. /\ Len(Append(browser[r], ServiceError)) = Len(browser[r]) + 1
        /\ Append(browser[r], ServiceError)[Len(browser[r]) + 1] = ServiceError
        /\ \A i \in 1..Len(browser[r]) : Append(browser[r], ServiceError)[i] = browser[r][i]
        /\ Len(browser[r]) \in Nat /\ Len(browser[r]) > 0
    BY <1>1, <1>7, AppendProperties DEF Events
  <2>3. Written(r)'
    <3> SUFFICES ASSUME NEW i \in 1..(Len(browser[r]) + 1),
                        NEW x, x = Append(browser[r], ServiceError)[i]
                 PROVE  \/ Cell(r, i, x)' /\ x # Eof
                        \/ i = Len(browser[r]) + 1 /\ i > 1 /\ x = ServiceError
      BY <1>1, <2>1, <2>2 DEF Written, Cell
    <3>1. CASE i \in 1..Len(browser[r])
      <4>1. Cell(r, i, x) /\ x # Eof
        BY <2>2, <3>1, BrowserStarts
      <4> QED
        BY <1>4, <4>1
    <3>2. CASE i = Len(browser[r]) + 1
      BY <2>2, <3>2
    <3> QED
      BY <2>2, <3>1, <3>2
  <2> QED
    BY <1>2, <1>3, <2>3 DEF StreamOk
<1> QED
  BY <1>6, <1>7

(* The gateway stops reading, at the end of the body or because nobody listens. *)
LEMMA StopStream ==
    ASSUME Typed, NEW r \in Runs, StreamOk(r), ReadEof(r) \/ BrowserLost(r)
    PROVE  StreamOk(r)'
<1> USE DEF agentVars
<1>1. /\ browser[r] \in Seq(Events) /\ browser' = browser /\ UNCHANGED agentVars
      /\ gw[r] = "reading" /\ gw'[r] \in {"closed", "lost"} /\ pipe'[r] = <<>>
  BY DEF Typed, ReadEof, BrowserLost, Leave
<1>2. StageOk(r)'
  BY <1>1 DEF StreamOk, StageOk, Script, TextEvents, ToolCalls
<1>3. InTransit(r)' /\ Counted(r)'
  BY <1>1 DEF InTransit, Counted
<1>4. ASSUME NEW i, NEW x, Cell(r, i, x) PROVE Cell(r, i, x)'
  BY <1>1, <1>4 DEF Cell, Script, TextEvents, ToolCalls
<1>5. Written(r)'
  <2> SUFFICES ASSUME NEW i \in 1..Len(browser[r]), NEW x, x = browser[r][i]
               PROVE  Cell(r, i, x)' /\ x # Eof
    BY <1>1 DEF Written, Cell
  <2>1. Cell(r, i, x) /\ x # Eof
    BY <1>1, BrowserStarts
  <2> QED
    BY <1>4, <2>1
<1> QED
  BY <1>2, <1>3, <1>5 DEF StreamOk

(* The agent service restarts: what is left of a live connection is a prefix   *)
(* of what it held, and the mark of its end.                                *)
LEMMA CrashStream ==
    ASSUME Typed, NEW r \in Runs, StreamOk(r), AgentCrash
    PROVE  StreamOk(r)'
<1>1. PICK p \in [Runs -> UNION {Cut(pipe[q]) \cup {pipe[q]} : q \in Runs}] :
        /\ \A q \in Runs :
             p[q] \in IF q \in Live /\ gw[q] = "reading" THEN Cut(pipe[q]) ELSE {pipe[q]}
        /\ pipe' = p
  BY DEF AgentCrash
<1>2. /\ browser[r] \in Seq(Events) /\ pipe[r] \in Seq(Events) /\ sent[r] \in Nat
      /\ sent' = sent /\ plan' = plan /\ saved' = saved /\ gw' = gw /\ browser' = browser
      /\ pc'[r] = IF pc[r] \notin {"idle", "gone"} THEN "gone" ELSE pc[r]
  BY DEF AgentCrash, Typed, gatewayVars, Live
<1>3. Script(plan[r])' = Script(plan[r])
  BY <1>2 DEF Script, TextEvents, ToolCalls
<1>4. CASE r \notin Live
  <2>1. pc'[r] = pc[r] /\ pipe'[r] = pipe[r]
    BY <1>1, <1>2, <1>4 DEF Live
  <2> QED
    BY <1>2, <2>1, OtherStream
<1>5. CASE r \in Live /\ gw[r] # "reading"
  <2>1. pc'[r] = "gone" /\ pipe'[r] = pipe[r]
    BY <1>1, <1>2, <1>5 DEF Live
  <2>2. Onward(r)
    BY <1>2, <1>5, <2>1 DEF Onward, Live
  <2>3. StageOk(r)'
    BY <1>2, <1>5, <1>3, <2>1 DEF StreamOk, StageOk, Live
  <2> QED
    BY <1>2, <1>5, <2>1, <2>2, <2>3, QuietStep
<1>6. CASE r \in Live /\ gw[r] = "reading"
  <2>1. PICK n \in 0..Len(pipe[r]) : pipe'[r] = Append(SubSeq(pipe[r], 1, n), Broken)
    BY <1>1, <1>6 DEF Cut
  <2> DEFINE s == SubSeq(pipe[r], 1, n)
  <2>2. pc'[r] = "gone" /\ Onward(r) /\ StageOk(r)'
    <3>1. pc'[r] = "gone" /\ Onward(r)
      BY <1>2, <1>6 DEF Live, Onward
    <3>2. StageOk(r)'
      BY <1>2, <1>6, <1>3, <3>1 DEF StreamOk, StageOk, Live
    <3> QED
      BY <3>1, <3>2
  <2>3. /\ Broken \in Events /\ s \in Seq(Events) /\ Len(s) = n
        /\ \A j \in 1..n : s[j] = pipe[r][j]
    BY <1>2, SubSeqProperties DEF Events
  <2> HIDE DEF s
  <2>4. /\ Len(Append(s, Broken)) = n + 1 /\ Append(s, Broken)[n + 1] = Broken
        /\ \A j \in 1..n : Append(s, Broken)[j] = pipe[r][j]
    BY <2>3, AppendProperties
  <2>5. pipe'[r] = Append(s, Broken) /\ Len(pipe[r]) \in Nat
    BY <1>2, <2>1 DEF s
  <2>6. InTransit(r)'
    <3> SUFFICES ASSUME NEW j \in 1..Len(pipe'[r]), NEW i, i = Len(browser'[r]) + j,
                        NEW x, x = pipe'[r][j]
                 PROVE  Cell(r, i, x)' \/ (j = Len(pipe'[r]) /\ x = Broken /\ pc'[r] = "gone")
      BY DEF InTransit, Cell
    <3>0. /\ Len(pipe'[r]) = n + 1 /\ j \in 1..(n + 1) /\ x = Append(s, Broken)[j]
          /\ i = Len(browser[r]) + j /\ pc'[r] = "gone"
      <4>1. Len(pipe'[r]) = n + 1 /\ x = Append(s, Broken)[j]
        BY <2>4, <2>5
      <4>2. browser'[r] = browser[r]
        BY <1>2
      <4> QED
        BY <2>2, <4>1, <4>2
    <3>1. CASE j \in 1..n
      <4>1. x = pipe[r][j]
        BY <2>4, <3>0, <3>1
      <4>2. j \in 1..Len(pipe[r])
        <5>1. \A m \in Nat : \A k \in 0..m : \A q \in 1..k : q \in 1..m
          OBVIOUS
        <5> QED
          BY <2>5, <3>1, <5>1
      <4>3. i \in Nat
        <5>1. Len(browser[r]) \in Nat
          BY <1>2
        <5> QED
          BY <3>0, <4>2, <5>1
      <4>4. Cell(r, i, x)
        BY <1>6, <3>0, <4>1, <4>2 DEF StreamOk, InTransit, Live
      <4> QED
        BY <2>2, <4>3, <4>4, CellStays
    <3>2. CASE j = n + 1
      BY <2>4, <3>0, <3>2
    <3>3. j \in 1..n \/ j = n + 1
      <4>1. \A m \in Nat : \A k \in 1..(m + 1) : k \in 1..m \/ k = m + 1
        OBVIOUS
      <4>2. n \in Nat
        BY <2>5
      <4> QED
        BY <3>0, <4>1, <4>2
    <3> QED
      BY <3>1, <3>2, <3>3
  <2>7. Written(r)'
    <3> SUFFICES ASSUME NEW i \in 1..Len(browser[r]), NEW x, x = browser[r][i]
                 PROVE  Cell(r, i, x)' /\ x # Eof
      BY <1>2 DEF Written, Cell
    <3>1. Cell(r, i, x) /\ x # Eof /\ i \in Nat
      BY <1>2, <1>6, BrowserStarts
    <3> QED
      BY <2>2, <3>1, CellStays
  <2> QED
    BY <2>2, <2>6, <2>7 DEF StreamOk, Counted
<1> QED
  BY <1>4, <1>5, <1>6
------------------------------------------------------------------------------
\* Nothing the stream of r is made of changes.
Untouched(r) ==
    /\ pc'[r] = pc[r] /\ plan'[r] = plan[r] /\ sent'[r] = sent[r] /\ saved'[r] = saved[r]
    /\ gw'[r] = gw[r] /\ browser'[r] = browser[r] /\ pipe'[r] = pipe[r]

\* What is done for the run r.
OfRun(r) ==
    \/ Agent(r) \/ Gateway(r) \/ Connect(r)
    \/ BrowserLost(r) \/ ConnectFails(r) \/ ConnectionLost(r) \/ StoreRaises(r)

(* What is done for one run touches no other.                                *)
LEMMA RunsApart ==
    ASSUME Typed, NEW q \in Runs, OfRun(q), NEW r \in Runs \ {q}
    PROVE  Untouched(r)
<1> USE DEF Typed, Untouched, Goto, Yield, gatewayVars, agentVars
<1>1. CASE Attempt(q)
  <2>1. /\ \/ UNCHANGED pc
           \/ pc' = [pc EXCEPT ![q] = "error"]
           \/ pc' = [pc EXCEPT ![q] = "session"]
        /\ UNCHANGED plan \/ \E p \in Plan : plan' = [plan EXCEPT ![q] = p]
    <3> HIDE DEF Typed
    <3> QED
      BY <1>1, AttemptEffect
  <2> QED
    BY <1>1, <2>1 DEF Attempt
<1>2. CASE Start(q) \/ Emit(q) \/ EmitError(q) \/ Close(q)
  BY <1>2 DEF Start, Emit, EmitError, Close
<1>3. CASE RuntimeTimesOut(q) \/ Store(q) \/ Cancel(q) \/ StoreRaises(q)
  BY <1>3 DEF RuntimeTimesOut, Store, Cancel, StoreRaises
<1>4. CASE Connect(q) \/ Forward(q)
  BY <1>4 DEF Connect, Forward, Write
<1>5. CASE ReadFails(q) \/ ConnectFails(q) \/ ConnectionLost(q)
  BY <1>5 DEF ReadFails, ConnectFails, ConnectionLost, Error, Write, Leave
<1>6. CASE ReadEof(q) \/ BrowserLost(q)
  BY <1>6 DEF ReadEof, BrowserLost, Leave
<1> QED
  BY <1>1, <1>2, <1>3, <1>4, <1>5, <1>6 DEF OfRun, Agent, Gateway

(* A step done for r keeps the invariant of r. *)
LEMMA OfRunStream ==
    ASSUME Typed, Typed', NEW r \in Runs, StreamOk(r), OfRun(r)
    PROVE  StreamOk(r)'
<1>1. CASE Agent(r) \/ StoreRaises(r)
  BY <1>1, StartStream, AttemptStream, LeaveStream, StoreStream, EmitStream, EmitErrorStream,
     CloseStream DEF Agent
<1>2. CASE Connect(r) \/ Forward(r)
  BY <1>2, ConnectStream, ForwardStream
<1>3. CASE ReadEof(r) \/ BrowserLost(r)
  BY <1>3, StopStream
<1>4. CASE ReadFails(r) \/ ConnectFails(r) \/ ConnectionLost(r)
  <2>1. Error(r) /\ gw[r] # "closed" /\ UNCHANGED agentVars
    BY <1>4 DEF ReadFails, ConnectFails, ConnectionLost
  <2> QED
    BY <2>1, ErrorStream
<1> QED
  BY <1>1, <1>2, <1>3, <1>4 DEF OfRun, Gateway

(* What the next-state relation does, it does for one run, for all of them at   *)
(* a crash, or for the clocks.                                              *)
LEMMA NextCases ==
    ASSUME [Next]_vars
    PROVE  \/ \E r \in Runs : OfRun(r)
           \/ AgentCrash
           \/ Tick
           \/ UNCHANGED vars
BY DEF Next, OfRun, Done

(* Every step keeps the invariant of every stream. *)
LEMMA StreamStep == StreamInv /\ [Next]_vars => StreamInv'
<1> SUFFICES ASSUME StreamInv, [Next]_vars PROVE StreamInv'
  OBVIOUS
<1>1. Typed /\ HasRunner /\ \A r \in Runs : StreamOk(r)
  BY DEF StreamInv
<1>2. Typed'
  BY <1>1, TypedStep DEF StreamOk
<1>3. HasRunner'
  BY <1>1, HasRunnerStep
<1>4. ASSUME NEW r \in Runs PROVE StreamOk(r)'
  <2>1. ASSUME NEW q \in Runs, OfRun(q) PROVE StreamOk(r)'
    <3>1. CASE q = r
      BY <1>1, <1>2, <2>1, <3>1, OfRunStream
    <3>2. CASE q # r
      <4>1. Untouched(r)
        BY <1>1, <2>1, <3>2, RunsApart
      <4> QED
        BY <1>1, <4>1, OtherStream DEF Untouched
    <3> QED
      BY <3>1, <3>2
  <2>2. CASE AgentCrash
    BY <1>1, <2>2, CrashStream
  <2>3. CASE Tick \/ UNCHANGED vars
    BY <1>1, <2>3, OtherStream DEF Tick, vars, agentVars, gatewayVars
  <2> QED
    BY <2>1, <2>2, <2>3, NextCases
<1> QED
  BY <1>2, <1>3, <1>4 DEF StreamInv

(* The inductive invariant: every stream follows its generator.               *)
THEOREM StreamInvariance == Spec => []StreamInv
<1> QED
  BY StreamInit, StreamStep, PTL DEF Spec
------------------------------------------------------------------------------
(* Whatever another run left in the shared provider, no run is in an attempt   *)
(* without the runner it needs (providers.py, _ensure_agent and _run_agent),   *)
(* and the stream's variables keep their types.                             *)
THEOREM AttemptsHaveRunners == Spec => []AttemptHasRunner
<1>1. StreamInv => AttemptHasRunner
  <2> SUFFICES ASSUME StreamInv PROVE AttemptHasRunner
    OBVIOUS
  <2>1. Typed /\ HasRunner /\ \A r \in Runs : StageOk(r)
    BY DEF StreamInv, StreamOk
  <2>2. ASSUME NEW r \in Runs
        PROVE  /\ sent[r] \in Nat /\ elapsed[r] \in 0..RuntimeTimeout /\ quiet[r] \in 0..ReadTimeout
               /\ plan[r] # None => sent[r] <= Len(Script(plan[r]))
               /\ ToSet(pipe[r]) \cup ToSet(browser[r]) \subseteq Events
    <3>1. sent[r] \in Nat /\ elapsed[r] \in 0..RuntimeTimeout /\ quiet[r] \in 0..ReadTimeout
      BY <2>1 DEF Typed
    <3>2. ASSUME plan[r] # None PROVE sent[r] <= Len(Script(plan[r]))
      <4>1. plan[r] \in Plan /\ Script(plan[r]) \in Seq(Events)
        BY <2>1, <3>2, ScriptShape DEF Typed
      <4>2. Len(Script(plan[r])) \in Nat
        BY <4>1
      <4> QED
        BY <2>1, <3>1, <4>2 DEF StageOk
    <3>3. ToSet(pipe[r]) \cup ToSet(browser[r]) \subseteq Events
      BY <2>1 DEF Typed, ToSet
    <3> QED
      BY <3>1, <3>2, <3>3
  <2>3. TypeOK
    BY <2>1, <2>2 DEF TypeOK, Typed, PCs
  <2> QED
    BY <2>1, <2>3 DEF AttemptHasRunner, HasRunner
<1> QED
  BY <1>1, StreamInvariance, PTL

(* Position by position, what the browser was shown.                         *)
LEMMA BrowserCases ==
    ASSUME StreamInv, NEW r \in Runs, NEW i \in 1..Len(browser[r])
    PROVE  /\ i \in Nat /\ browser[r] \in Seq(Events)
           /\ \/ i = 1 /\ browser[r][i] = Started
              \/ i = 2 /\ browser[r][i] = RuntimeError /\ sent[r] = 0
              \/ /\ i > 1 /\ sent[r] > 0 /\ i - 1 <= sent[r] /\ plan[r] \in Plan
                 /\ saved[r] = "thread" /\ i - 1 \in 1..Len(Script(plan[r]))
                 /\ browser[r][i] = Script(plan[r])[i - 1]
              \/ i > 1 /\ i = Len(browser[r]) /\ browser[r][i] = ServiceError /\ gw[r] = "closed"
<1>1. browser[r] \in Seq(Events) /\ sent[r] \in Nat /\ i \in Nat
  BY DEF StreamInv, Typed
<1>2. ASSUME i - 1 \in 1..sent[r], browser[r][i] = Script(plan[r])[i - 1]
      PROVE  /\ i > 1 /\ sent[r] > 0 /\ i - 1 <= sent[r] /\ plan[r] \in Plan
             /\ saved[r] = "thread" /\ i - 1 \in 1..Len(Script(plan[r]))
             /\ browser[r][i] = Script(plan[r])[i - 1]
  <2>1. i > 1 /\ sent[r] > 0 /\ i - 1 <= sent[r]
    BY <1>1, <1>2
  <2>2. plan[r] \in Plan /\ saved[r] = "thread" /\ sent[r] <= Len(Script(plan[r]))
    BY <2>1 DEF StreamInv, StreamOk, StageOk
  <2>3. Len(Script(plan[r])) \in Nat
    BY <2>2, ScriptShape
  <2> QED
    BY <1>1, <1>2, <2>1, <2>2, <2>3
<1>3. \/ Cell(r, i, browser[r][i]) /\ browser[r][i] # Eof
      \/ i = Len(browser[r]) /\ i > 1 /\ browser[r][i] = ServiceError /\ gw[r] = "closed"
  BY DEF StreamInv, StreamOk, Written
<1> QED
  BY <1>1, <1>2, <1>3 DEF Cell

(* The browser of _stream_agent_run and stream_agent_events can parse what it  *)
(* is sent, whatever breaks: RUN_STARTED first and only first, every part      *)
(* opened before it is filled and closed, and after an error only the        *)
(* gateway's.                                                               *)
THEOREM StreamsAreWellFormed == Spec => []WellFormed
<1>1. StreamInv => WellFormed
  <2> SUFFICES ASSUME StreamInv, NEW r \in Runs, NEW i \in 1..Len(browser[r])
               PROVE  LET b == browser[r] IN
                      /\ b[i] = Started <=> i = 1
                      /\ i > 1 => b[i - 1] \in Follows(b[i])
                      /\ i > 1 /\ b[i - 1].type = "RUN_ERROR" => b[i] = ServiceError
    BY DEF WellFormed
  <2> DEFINE b == browser[r]
  <2>1. b \in Seq(Events) /\ i \in Nat /\ Len(b) \in Nat
    BY BrowserCases
  <2>2. /\ RuntimeError # Started /\ ServiceError # Started /\ ServiceError # RuntimeError
        /\ Started.type # "RUN_ERROR" /\ Started \in Events
    BY DEF RuntimeError, ServiceError, Started, Event, Events
  <2>3. b[i] = Started <=> i = 1
    BY <2>1, <2>2, BrowserCases, ScriptEvents
  <2>4. ASSUME i > 1
        PROVE  /\ b[i - 1] \in Follows(b[i])
               /\ b[i - 1].type = "RUN_ERROR" => b[i] = ServiceError
    <3>1. i - 1 \in 1..Len(b) /\ i - 1 # Len(b)
      BY <2>1, <2>4
    <3>2. b[i - 1] \in Events
      BY <2>1, <3>1
    <3> DEFINE before ==
            \/ i - 1 = 1 /\ b[i - 1] = Started
            \/ i - 1 = 2 /\ b[i - 1] = RuntimeError /\ sent[r] = 0
            \/ /\ i - 1 > 1 /\ sent[r] > 0 /\ plan[r] \in Plan
               /\ i - 2 \in 1..Len(Script(plan[r])) /\ b[i - 1] = Script(plan[r])[i - 2]
    <3>3. before
      <4>1. (i - 1) - 1 = i - 2
        BY <2>1
      <4> QED
        BY <3>1, <4>1, BrowserCases
    <3>4. CASE b[i] = RuntimeError \/ b[i] = ServiceError
      <4>1. b[i - 1] \in Follows(b[i])
        BY <3>2, <3>4, FollowsAny
      <4>2. ASSUME b[i] = RuntimeError PROVE b[i - 1].type # "RUN_ERROR"
        <5>1. i = 2
          BY <2>1, <2>2, <2>4, <4>2, BrowserCases, ScriptEvents
        <5> QED
          BY <2>2, <3>3, <5>1
      <4> QED
        BY <3>4, <4>1, <4>2
    <3>5. CASE /\ sent[r] > 0 /\ plan[r] \in Plan /\ i - 1 \in 1..Len(Script(plan[r]))
               /\ b[i] = Script(plan[r])[i - 1]
      <4>1. CASE i = 2
        BY <2>2, <3>2, <3>3, <3>5, <4>1, FollowsAny
      <4>2. CASE i > 2
        <5>1. i - 2 \in 1..Len(Script(plan[r])) /\ b[i - 1] = Script(plan[r])[i - 2]
          BY <2>1, <3>3, <3>5, <4>2
        <5>2. i - 1 \in 2..Len(Script(plan[r])) /\ (i - 1) - 1 = i - 2
          BY <2>1, <3>5, <4>2
        <5>3. b[i - 1] \in Follows(b[i])
          BY <3>5, <5>1, <5>2, ScriptFollows
        <5> QED
          BY <3>5, <5>1, <5>3, ScriptEvents
      <4> QED
        BY <2>1, <2>4, <4>1, <4>2
    <3> QED
      BY <2>4, <3>4, <3>5, BrowserCases
  <2> QED
    BY <2>3, <2>4
<1> QED
  BY <1>1, StreamInvariance, PTL

(* Who was shown an event of a plan at some position, was shown all before it. *)
LEMMA ShownBefore ==
    ASSUME StreamInv, NEW r \in Runs, NEW i \in 1..Len(browser[r]), i > 1,
           browser[r][i] # RuntimeError, browser[r][i] # ServiceError
    PROVE  /\ plan[r] \in Plan /\ saved[r] = "thread" /\ i - 1 \in 1..Len(Script(plan[r]))
           /\ \A k \in 1..(i - 1) :
                 k + 1 \in 1..Len(browser[r]) /\ browser[r][k + 1] = Script(plan[r])[k]
<1>1. /\ i \in Nat /\ Len(browser[r]) \in Nat /\ sent[r] > 0 /\ plan[r] \in Plan
      /\ saved[r] = "thread" /\ i - 1 \in 1..Len(Script(plan[r]))
      /\ browser[r][i] = Script(plan[r])[i - 1]
  BY BrowserCases
<1>2. sent[r] # 0
  BY <1>1 DEF StreamInv, Typed
<1>3. ASSUME NEW k \in 1..(i - 1)
      PROVE  k + 1 \in 1..Len(browser[r]) /\ browser[r][k + 1] = Script(plan[r])[k]
  <2>1. k \in Nat /\ k + 1 \in 1..Len(browser[r]) /\ k + 1 > 1 /\ (k + 1) - 1 = k
    BY <1>1
  <2>2. CASE k + 1 = i
    BY <1>1, <2>1, <2>2
  <2>3. CASE k + 1 # i
    <3>1. k + 1 # Len(browser[r])
      BY <1>1, <2>1, <2>3
    <3> QED
      BY <1>2, <2>1, <3>1, BrowserCases
  <2> QED
    BY <2>1, <2>2, <2>3
<1> QED
  BY <1>1, <1>3

(* The last event of a plan is the end of the run, and of nothing else.        *)
LEMMA FinishedIsLast ==
    ASSUME StreamInv, NEW r \in Runs, Contains(browser[r], Finished)
    PROVE  /\ plan[r] \in Plan /\ saved[r] = "thread"
           /\ \A k \in 1..Len(Script(plan[r])) :
                 k + 1 \in 1..Len(browser[r]) /\ browser[r][k + 1] = Script(plan[r])[k]
<1>1. PICK i \in 1..Len(browser[r]) : browser[r][i] = Finished
  BY DEF Contains
<1>2. Finished # Started /\ Finished # RuntimeError /\ Finished # ServiceError
  BY DEF Finished, Started, RuntimeError, ServiceError, Event
<1>3. i > 1
  BY <1>1, <1>2, BrowserCases
<1>4. /\ plan[r] \in Plan /\ saved[r] = "thread" /\ i - 1 \in 1..Len(Script(plan[r]))
      /\ \A k \in 1..(i - 1) :
            k + 1 \in 1..Len(browser[r]) /\ browser[r][k + 1] = Script(plan[r])[k]
  BY <1>1, <1>2, <1>3, ShownBefore
<1>5. Script(plan[r])[i - 1] = Finished
  BY <1>1, <1>3, <1>4, BrowserCases, <1>2
<1>6. i - 1 = Len(Script(plan[r]))
  BY <1>4, <1>5, ScriptEvents
<1> QED
  BY <1>4, <1>6

(* A run shown as finished is stored with its thread, and showed every result  *)
(* and the request for approval that the policy demands (_stream_agent_run     *)
(* yields a plan only after _plan_workflow_from_intents returned).           *)
THEOREM FinishedRunsAreComplete == Spec => []FinishedIsComplete
<1>1. StreamInv => FinishedIsComplete
  <2> SUFFICES ASSUME StreamInv, NEW r \in Runs, Contains(browser[r], Finished)
               PROVE  /\ saved[r] = "thread"
                      /\ \A s \in 1..plan[r].steps :
                            Contains(browser[r], Event("TOOL_CALL_RESULT", s))
                      /\ plan[r].hitl => Contains(browser[r], Approval)
    BY DEF FinishedIsComplete
  <2>1. /\ plan[r] \in Plan /\ saved[r] = "thread"
        /\ \A k \in 1..Len(Script(plan[r])) :
              k + 1 \in 1..Len(browser[r]) /\ browser[r][k + 1] = Script(plan[r])[k]
    BY FinishedIsLast
  <2>2. ASSUME NEW k \in 1..(Len(Script(plan[r])) - 1)
        PROVE  Contains(browser[r], Script(plan[r])[k])
    <3>1. k \in 1..Len(Script(plan[r]))
      BY <2>1, ScriptShape
    <3> QED
      BY <2>1, <3>1 DEF Contains
  <2> QED
    BY <2>1, <2>2, ScriptShowsAll
<1> QED
  BY <1>1, StreamInvariance, PTL
------------------------------------------------------------------------------
(* The stream implements RunLifecycle.                                       *)

\* What a step may do to what the browser knows of r, or to what is stored.
Keeps(r) ==
    \/ /\ Shown(r)' = Shown(r) /\ saved' = saved
       /\ \/ Phase(r)' = Phase(r)
          \/ Phase(r) = "new" /\ Phase(r)' = "running"
          \/ Phase(r) \in {"new", "running", "finished"} /\ Phase(r)' = "failed"
          \/ Phase(r) \in {"new", "running"} /\ Phase(r)' = "lost"
          \/ Phase(r) = "running" /\ Phase(r)' = "finished" /\ Shown(r) \in {"plan", "approval"}
    \/ /\ Phase(r)' = Phase(r) /\ Shown(r)' = Shown(r)
       /\ \/ saved[r] = "nothing" /\ saved' = [saved EXCEPT ![r] = "workflow"]
          \/ saved[r] = "workflow" /\ saved' = [saved EXCEPT ![r] = "thread"]
    \/ /\ Phase(r)' = Phase(r) /\ Phase(r) = "running" /\ saved[r] = "thread" /\ saved' = saved
       /\ \/ Shown(r) = "nothing" /\ Shown(r)' = "plan"
          \/ Shown(r) = "plan" /\ Shown(r)' = "approval"

(* The browser's view of a run depends on its stream and on who left it. *)
LEMMA SameView ==
    ASSUME NEW r \in Runs, browser'[r] = browser[r], gw'[r] = gw[r]
    PROVE  Phase(r)' = Phase(r) /\ Shown(r)' = Shown(r)
BY DEF Phase, Shown, Failed

(* What is kept for one run, while the others stay as they are, is a step of   *)
(* the life cycle.                                                          *)
LEMMA KeepsIsStep ==
    ASSUME NEW r \in Runs, Keeps(r),
           \A q \in Runs \ {r} : Phase(q)' = Phase(q) /\ Shown(q)' = Shown(q)
    PROVE  [Lifecycle!Next]_(Lifecycle!vars)
<1> DEFINE phase == [q \in Runs |-> Phase(q)]
<1> DEFINE shown == [q \in Runs |-> Shown(q)]
<1>1. phase' = [phase EXCEPT ![r] = Phase(r)'] /\ phase[r] = Phase(r)
  OBVIOUS
<1>2. shown' = [shown EXCEPT ![r] = Shown(r)'] /\ shown[r] = Shown(r)
  OBVIOUS
<1>3. Phase(r)' = Phase(r) => phase' = phase
  OBVIOUS
<1>4. Shown(r)' = Shown(r) => shown' = shown
  OBVIOUS
<1>5. Lifecycle!vars = <<phase, saved, shown>> /\ Lifecycle!vars' = <<phase', saved', shown'>>
  BY DEF Lifecycle!vars
<1>6. /\ \A from, to : Lifecycle!Move(r, from, to) <=>
            /\ phase[r] \in from /\ phase' = [phase EXCEPT ![r] = to]
            /\ saved' = saved /\ shown' = shown
      /\ Lifecycle!Start(r) <=> Lifecycle!Move(r, {"new"}, "running")
      /\ Lifecycle!Fail(r) <=> Lifecycle!Move(r, {"new", "running", "finished"}, "failed")
      /\ Lifecycle!Lose(r) <=> Lifecycle!Move(r, {"new", "running"}, "lost")
      /\ Lifecycle!Finish(r) <=>
            shown[r] \in {"plan", "approval"} /\ Lifecycle!Move(r, {"running"}, "finished")
  BY DEF Lifecycle!Move, Lifecycle!Start, Lifecycle!Fail, Lifecycle!Lose, Lifecycle!Finish
<1>7. /\ Lifecycle!Save(r) <=>
            /\ \/ saved[r] = "nothing" /\ saved' = [saved EXCEPT ![r] = "workflow"]
               \/ saved[r] = "workflow" /\ saved' = [saved EXCEPT ![r] = "thread"]
            /\ phase' = phase /\ shown' = shown
      /\ Lifecycle!Show(r) <=>
            /\ phase[r] = "running" /\ saved[r] = "thread"
            /\ \/ shown[r] = "nothing" /\ shown' = [shown EXCEPT ![r] = "plan"]
               \/ shown[r] = "plan" /\ shown' = [shown EXCEPT ![r] = "approval"]
            /\ phase' = phase /\ saved' = saved
  BY DEF Lifecycle!Save, Lifecycle!Show
<1> HIDE DEF phase, shown
<1>8. CASE Shown(r)' = Shown(r) /\ saved' = saved
  BY <1>1, <1>2, <1>3, <1>4, <1>5, <1>6, <1>8 DEF Keeps, Lifecycle!Next
<1>9. CASE /\ Phase(r)' = Phase(r) /\ Shown(r)' = Shown(r)
           /\ \/ saved[r] = "nothing" /\ saved' = [saved EXCEPT ![r] = "workflow"]
              \/ saved[r] = "workflow" /\ saved' = [saved EXCEPT ![r] = "thread"]
  BY <1>3, <1>4, <1>7, <1>9 DEF Lifecycle!Next
<1>10. CASE /\ Phase(r)' = Phase(r) /\ Phase(r) = "running" /\ saved[r] = "thread" /\ saved' = saved
            /\ \/ Shown(r) = "nothing" /\ Shown(r)' = "plan"
               \/ Shown(r) = "plan" /\ Shown(r)' = "approval"
  BY <1>1, <1>2, <1>3, <1>7, <1>10 DEF Lifecycle!Next
<1> QED
  BY <1>8, <1>9, <1>10 DEF Keeps
(* How the browser looks at a run: what the phases mean.                     *)
LEMMA PhaseCases ==
    ASSUME NEW r \in Runs
    PROVE  /\ Failed(r) <=> Phase(r) = "failed"
           /\ ~Failed(r) /\ Contains(browser[r], Finished) <=> Phase(r) = "finished"
           /\ ~Failed(r) /\ ~Contains(browser[r], Finished) =>
                 Phase(r) = IF gw[r] = "lost" THEN "lost"
                            ELSE IF browser[r] = <<>> THEN "new" ELSE "running"
<1>1. CASE Failed(r)
  BY <1>1 DEF Phase
<1>2. CASE ~Failed(r) /\ Contains(browser[r], Finished)
  BY <1>2 DEF Phase
<1>3. CASE ~Failed(r) /\ ~Contains(browser[r], Finished) /\ gw[r] = "lost"
  BY <1>3 DEF Phase
<1>4. CASE ~Failed(r) /\ ~Contains(browser[r], Finished) /\ gw[r] # "lost"
  BY <1>4 DEF Phase
<1> QED
  BY <1>1, <1>2, <1>3, <1>4

(* What a stream contains when an event is added to it.                      *)
LEMMA AppendContains ==
    ASSUME NEW s \in Seq(Events), NEW e \in Events, NEW x
    PROVE  Contains(Append(s, e), x) <=> Contains(s, x) \/ e = x
<1> DEFINE t == Append(s, e)
<1>1. /\ Len(t) = Len(s) + 1 /\ t[Len(s) + 1] = e /\ Len(s) \in Nat
      /\ \A i \in 1..Len(s) : t[i] = s[i]
  BY AppendProperties
<1>2. \A i \in 1..(Len(s) + 1) : i \in 1..Len(s) \/ i = Len(s) + 1
  BY <1>1
<1>3. Len(s) + 1 \in 1..(Len(s) + 1) /\ \A i \in 1..Len(s) : i \in 1..(Len(s) + 1)
  BY <1>1
<1> HIDE DEF t
<1>4. Contains(t, x) <=> Contains(s, x) \/ e = x
  BY <1>1, <1>2, <1>3 DEF Contains
<1> QED
  BY <1>4 DEF t

(* An error of the gateway fails a run that was not lost, and shows nothing.   *)
LEMMA ErrorKeeps ==
    ASSUME StreamInv, NEW r \in Runs, Error(r), gw[r] \in {"idle", "reading"}, UNCHANGED agentVars
    PROVE  Keeps(r)
<1>0. Started \in Events /\ ServiceError \in Events
  BY DEF Events
<1>1. /\ Typed /\ StreamOk(r) /\ browser[r] \in Seq(Events)
      /\ Started \in Events /\ ServiceError \in Events
  BY <1>0 DEF StreamInv, Typed
<1>2. /\ ServiceError # Approval /\ ServiceError # StateDelta
      /\ Started # Approval /\ Started # StateDelta
  BY DEF Started, ServiceError, Approval, StateDelta, Event
<1>3. /\ Contains(browser'[r], ServiceError)
      /\ \A x \in {Approval, StateDelta} : Contains(browser'[r], x) <=> Contains(browser[r], x)
  <2>1. CASE browser[r] = <<>>
    <3>1. browser'[r] = Append(<<Started>>, ServiceError) /\ <<Started>> \in Seq(Events)
      BY <1>1, <2>1, ErrorWrites
    <3>2. \A x : Contains(browser'[r], x) <=> Contains(<<Started>>, x) \/ ServiceError = x
      BY <1>1, <3>1, AppendContains
    <3>3. \A x \in {Approval, StateDelta} : ~Contains(<<Started>>, x) /\ ~Contains(<<>>, x)
      BY <1>2 DEF Contains
    <3> QED
      BY <1>2, <2>1, <3>2, <3>3
  <2>2. CASE browser[r] # <<>>
    <3>1. browser'[r] = Append(browser[r], ServiceError)
      BY <1>1, <2>2, ErrorWrites
    <3> QED
      BY <1>1, <1>2, <3>1, AppendContains
  <2> QED
    BY <2>1, <2>2
<1>4. Phase(r)' = "failed"
  BY <1>3 DEF Phase, Failed
<1>5. Phase(r) \in {"new", "running", "finished", "failed"}
  BY PhaseCases
<1>6. Shown(r)' = Shown(r) /\ saved' = saved
  BY <1>3 DEF Shown, agentVars
<1> QED
  BY <1>4, <1>5, <1>6 DEF Keeps

(* What is read and forwarded next: RUN_STARTED, the error, or the next event   *)
(* of the plan after all that came before it.                               *)
LEMMA ForwardCases ==
    ASSUME StreamInv, NEW r \in Runs, Forward(r), NEW e, e = Head(pipe[r])
    PROVE  /\ e \in Events /\ browser'[r] = Append(browser[r], e) /\ gw[r] = "reading"
           /\ \/ browser[r] = <<>> /\ e = Started
              \/ e = RuntimeError
              \/ \E k \in 1..Len(Script(plan[r])) :
                    /\ plan[r] \in Plan /\ saved[r] = "thread" /\ e = Script(plan[r])[k]
                    /\ Len(browser[r]) = k /\ browser[r][1] = Started
                    /\ \A j \in 1..(k - 1) : browser[r][j + 1] = Script(plan[r])[j]
<1>1. /\ Typed /\ StreamOk(r) /\ browser[r] \in Seq(Events) /\ pipe[r] \in Seq(Events)
      /\ pipe[r] # <<>> /\ sent[r] \in Nat /\ gw[r] = "reading" /\ e \notin {Eof, Broken}
      /\ Len(browser[r]) \in Nat
  BY DEF StreamInv, Typed, Forward
<1>2. e \in Events /\ e = pipe[r][1] /\ 1 \in 1..Len(pipe[r])
  BY <1>1, HeadTailProperties
<1>3. browser'[r] = Append(browser[r], e)
  <2>1. browser[r] \o <<e>> = Append(browser[r], e)
    BY <1>1, <1>2, AppendIsConcat
  <2> QED
    BY <1>1, <2>1 DEF Forward, Write, Typed
<1>4. Cell(r, Len(browser[r]) + 1, e)
  BY <1>1, <1>2 DEF StreamOk, InTransit
<1>5. CASE Len(browser[r]) + 1 = 1 /\ e = Started
  <2>1. Len(browser[r]) = 0
    BY <1>1, <1>5
  <2> QED
    BY <1>1, <1>2, <1>3, <1>5, <2>1
<1>6. CASE e = RuntimeError
  BY <1>1, <1>2, <1>3, <1>6
<1>7. ASSUME NEW k, k = Len(browser[r]), k \in 1..sent[r], e = Script(plan[r])[k]
      PROVE  /\ k \in 1..Len(Script(plan[r]))
             /\ plan[r] \in Plan /\ saved[r] = "thread" /\ browser[r][1] = Started
             /\ \A j \in 1..(k - 1) : browser[r][j + 1] = Script(plan[r])[j]
  <2>1. /\ plan[r] \in Plan /\ saved[r] = "thread" /\ sent[r] <= Len(Script(plan[r]))
        /\ sent[r] > 0
    BY <1>1, <1>7 DEF StreamOk, StageOk
  <2>2. k \in 1..Len(Script(plan[r])) /\ k \in Nat
    BY <1>1, <1>7, <2>1, ScriptShape
  <2>3. \A i \in 1..k : Cell(r, i, browser[r][i]) /\ browser[r][i] # Eof
    BY <1>1, <1>7, BrowserStarts
  <2>4. browser[r][1] = Started
    <3>1. 1 \in 1..k
      BY <1>7, <2>2
    <3> QED
      BY <1>1, <2>3, <3>1 DEF Cell
  <2>5. ASSUME NEW j \in 1..(k - 1) PROVE browser[r][j + 1] = Script(plan[r])[j]
    <3>1. j + 1 \in 1..k /\ j + 1 # 1 /\ (j + 1) - 1 = j /\ sent[r] # 0
      BY <2>1, <2>2, <1>1
    <3> QED
      BY <2>3, <3>1 DEF Cell
  <2> QED
    BY <2>1, <2>2, <2>4, <2>5
<1>8. \A n \in Nat : (n + 1) - 1 = n
  OBVIOUS
<1> QED
  BY <1>1, <1>2, <1>3, <1>4, <1>5, <1>6, <1>7, <1>8 DEF Cell

(* The browser hears of a run in the order of its life.                       *)
LEMMA ForwardKeeps ==
    ASSUME StreamInv, NEW r \in Runs, Forward(r)
    PROVE  Keeps(r)
<1>1. PICK e : e = Head(pipe[r])
  OBVIOUS
<1>2. /\ e \in Events /\ browser'[r] = Append(browser[r], e) /\ browser[r] \in Seq(Events)
      /\ gw[r] = "reading" /\ gw'[r] = "reading" /\ saved' = saved
  BY <1>1, ForwardCases DEF Forward, agentVars, StreamInv, Typed
<1>3. \A x : Contains(browser'[r], x) <=> Contains(browser[r], x) \/ e = x
  BY <1>2, AppendContains
<1>4. browser'[r] # <<>>
  BY <1>2, AppendProperties
<1> DEFINE told == {RuntimeError, ServiceError, Approval, StateDelta, Finished}
<1>5. /\ Started \notin {RuntimeError, ServiceError, Approval, StateDelta, Finished}
      /\ RuntimeError \notin {ServiceError, Approval, StateDelta, Finished}
      /\ ServiceError \notin {Approval, StateDelta, Finished}
      /\ Approval \notin {StateDelta, Finished} /\ StateDelta # Finished
  BY DEF Started, RuntimeError, ServiceError, Approval, StateDelta, Finished, Event
<1>6. CASE browser[r] = <<>> /\ e = Started
  <2>1. \A x : ~Contains(browser[r], x)
    BY <1>6 DEF Contains
  <2>2. ~Failed(r) /\ ~Failed(r)'
    BY <1>3, <1>5, <1>6, <2>1 DEF Failed
  <2>3. ~Contains(browser[r], Finished) /\ ~Contains(browser'[r], Finished)
    BY <1>3, <1>5, <1>6, <2>1
  <2>4. Phase(r) = "new" /\ Phase(r)' = "running"
    BY <1>2, <1>4, <1>6, <2>2, <2>3 DEF Phase
  <2>5. Shown(r)' = Shown(r)
    BY <1>3, <1>5, <1>6 DEF Shown
  <2> QED
    BY <1>2, <2>4, <2>5 DEF Keeps
<1>7. CASE e = RuntimeError
  <2>1. Phase(r)' = "failed"
    BY <1>3, <1>7 DEF Phase, Failed
  <2>2. Phase(r) \in {"new", "running", "finished", "failed"}
    BY <1>2, PhaseCases
  <2>3. Shown(r)' = Shown(r)
    BY <1>3, <1>5, <1>7 DEF Shown
  <2> QED
    BY <1>2, <2>1, <2>2, <2>3 DEF Keeps
<1>8. ASSUME NEW k \in 1..Len(Script(plan[r])), plan[r] \in Plan, saved[r] = "thread",
             e = Script(plan[r])[k], Len(browser[r]) = k, browser[r][1] = Started,
             \A j \in 1..(k - 1) : browser[r][j + 1] = Script(plan[r])[j]
      PROVE  Keeps(r)
  <2> DEFINE script == Script(plan[r])
  <2> DEFINE text == TextLen(plan[r])
  <2>1. /\ Len(script) \in Nat /\ k \in Nat /\ text \in Nat
        /\ text + 1 \in 1..(Len(script) - 1) /\ script[text + 1] = StateDelta
    BY <1>8, ScriptShape, ScriptShowsAll
  <2>2. \A x \in told :
           Contains(browser[r], x) <=> \E j \in 1..(k - 1) : script[j] = x
    <3> SUFFICES ASSUME NEW x \in told
                 PROVE  Contains(browser[r], x) <=> \E j \in 1..(k - 1) : script[j] = x
      OBVIOUS
    <3>1. ASSUME NEW i \in 1..k, browser[r][i] = x PROVE \E j \in 1..(k - 1) : script[j] = x
      <4>1. i - 1 \in 1..(k - 1) /\ (i - 1) + 1 = i
        BY <1>5, <1>8, <2>1, <3>1
      <4> QED
        BY <1>8, <3>1, <4>1
    <3>2. ASSUME NEW j \in 1..(k - 1), script[j] = x PROVE \E i \in 1..k : browser[r][i] = x
      <4>1. j + 1 \in 1..k
        BY <2>1
      <4> QED
        BY <1>8, <3>2, <4>1
    <3> QED
      BY <1>8, <3>1, <3>2 DEF Contains
  <2> HIDE DEF script, text
  <2>3. ASSUME NEW j \in 1..k
        PROVE  /\ j \in 1..Len(script) /\ script[j] # RuntimeError /\ script[j] # ServiceError
               /\ script[j] = Finished <=> j = Len(script)
               /\ script[j] = StateDelta <=> j = text + 1
               /\ script[j] = Approval => j = Len(script) - 1
    <3>1. j \in 1..Len(script)
      BY <2>1 DEF script
    <3> QED
      BY <1>8, <3>1, ScriptEvents DEF script, text
  <2>4. \A j \in 1..(k - 1) : j \in 1..k /\ j # Len(script)
    BY <1>8, <2>1 DEF script
  <2>5. /\ k \in 1..k /\ e = script[k] /\ e # RuntimeError /\ e # ServiceError
        /\ e = Finished <=> k = Len(script)
        /\ e = StateDelta <=> k = text + 1
        /\ e = Approval => k = Len(script) - 1
    <3>1. k \in 1..k
      BY <2>1
    <3> QED
      BY <1>8, <2>3, <3>1 DEF script
  <2>6. ~Failed(r) /\ ~Failed(r)'
    BY <1>3, <1>5, <2>2, <2>3, <2>4, <2>5 DEF Failed
  <2>7. ~Contains(browser[r], Finished)
    BY <1>5, <2>2, <2>3, <2>4
  <2>8. browser[r] # <<>>
    BY <1>8, <2>1
  <2>9. Phase(r) = "running"
    BY <1>2, <2>6, <2>7, <2>8 DEF Phase
  <2>10. Contains(browser[r], StateDelta) <=> k > text + 1
    <3>1. Contains(browser[r], StateDelta) <=> text + 1 \in 1..(k - 1)
      BY <1>5, <2>2, <2>3, <2>4
    <3> QED
      BY <2>1, <3>1
  <2>11. Contains(browser[r], Approval) => k = Len(script)
    <3>1. Contains(browser[r], Approval) => Len(script) - 1 \in 1..(k - 1)
      BY <1>5, <2>2, <2>3, <2>4
    <3> QED
      BY <1>8, <2>1, <3>1 DEF script
  <2>12. CASE e = Finished
    <3>1. Phase(r)' = "finished"
      BY <1>3, <2>6, <2>12 DEF Phase
    <3>2. Shown(r)' = Shown(r)
      BY <1>3, <1>5, <2>12 DEF Shown
    <3>3. Shown(r) \in {"plan", "approval"}
      BY <2>1, <2>5, <2>10, <2>12 DEF Shown
    <3> QED
      BY <1>2, <2>9, <3>1, <3>2, <3>3 DEF Keeps
  <2>13. ASSUME e # Finished PROVE Phase(r)' = Phase(r)
    <3>1. ~Contains(browser'[r], Finished)
      BY <1>3, <2>7, <2>13
    <3> QED
      BY <1>2, <1>4, <2>6, <2>9, <3>1 DEF Phase
  <2>14. CASE e = StateDelta
    <3>1. ~Contains(browser[r], StateDelta) /\ ~Contains(browser[r], Approval)
      BY <1>8, <2>1, <2>5, <2>10, <2>11, <2>14 DEF script
    <3>2. Contains(browser'[r], StateDelta) /\ ~Contains(browser'[r], Approval)
      BY <1>3, <1>5, <2>14, <3>1
    <3>3. Shown(r) = "nothing" /\ Shown(r)' = "plan"
      BY <3>1, <3>2 DEF Shown
    <3> QED
      BY <1>2, <1>5, <1>8, <2>9, <2>13, <2>14, <3>3 DEF Keeps
  <2>15. CASE e = Approval
    <3>1. Contains(browser[r], StateDelta) /\ ~Contains(browser[r], Approval)
      <4>1. k = Len(script) - 1 /\ k # text + 1
        BY <1>5, <2>5, <2>15
      <4> QED
        BY <2>1, <2>10, <2>11, <4>1
    <3>2. Contains(browser'[r], Approval)
      BY <1>3, <2>15
    <3>3. Shown(r) = "plan" /\ Shown(r)' = "approval"
      BY <3>1, <3>2 DEF Shown
    <3> QED
      BY <1>2, <1>5, <1>8, <2>9, <2>13, <2>15, <3>3 DEF Keeps
  <2>16. CASE e \notin {Finished, StateDelta, Approval}
    <3>1. Shown(r)' = Shown(r)
      BY <1>3, <2>16 DEF Shown
    <3> QED
      BY <1>2, <2>13, <2>16, <3>1 DEF Keeps
  <2> QED
    BY <2>12, <2>14, <2>15, <2>16
<1> QED
  BY <1>1, <1>6, <1>7, <1>8, ForwardCases

(* Nobody listens any more: the run is lost, unless it was done.               *)
LEMMA LostKeeps ==
    ASSUME StreamInv, NEW r \in Runs, BrowserLost(r)
    PROVE  Keeps(r)
<1>1. /\ browser' = browser /\ saved' = saved /\ gw[r] = "reading" /\ gw'[r] = "lost"
  BY DEF BrowserLost, Leave, agentVars, StreamInv, Typed
<1>2. Shown(r)' = Shown(r)
  BY <1>1 DEF Shown
<1>3. Failed(r)' <=> Failed(r)
  BY <1>1 DEF Failed
<1>4. CASE Failed(r) \/ Contains(browser[r], Finished)
  <2>1. Phase(r)' = Phase(r)
    BY <1>1, <1>3, <1>4 DEF Phase
  <2> QED
    BY <1>1, <1>2, <2>1 DEF Keeps
<1>5. CASE ~Failed(r) /\ ~Contains(browser[r], Finished)
  <2>1. Phase(r) \in {"new", "running"}
    BY <1>1, <1>5, PhaseCases
  <2>2. Phase(r)' = "lost"
    BY <1>1, <1>3, <1>5 DEF Phase
  <2> QED
    BY <1>1, <1>2, <2>1, <2>2 DEF Keeps
<1> QED
  BY <1>4, <1>5

(* Each of the SETs of the workflow and of its thread is made in its turn.      *)
LEMMA StoreKeeps ==
    ASSUME StreamInv, NEW r \in Runs, Store(r) \/ StoreRaises(r)
    PROVE  Keeps(r)
<1>1. browser' = browser /\ gw' = gw
  BY DEF Store, StoreRaises, gatewayVars
<1>2. Phase(r)' = Phase(r) /\ Shown(r)' = Shown(r)
  BY <1>1, SameView
<1>3. /\ pc[r] = "workflow" => saved[r] = "nothing"
      /\ pc[r] = "thread" => saved[r] = "workflow"
  BY DEF StreamInv, StreamOk, StageOk
<1>4. \/ saved' = saved
      \/ pc[r] \in {"workflow", "thread"} /\ saved' = [saved EXCEPT ![r] = pc[r]]
  BY DEF Store, StoreRaises
<1> QED
  BY <1>2, <1>3, <1>4 DEF Keeps

(* Every step done for a run keeps the promise.                               *)
LEMMA OfRunKeeps ==
    ASSUME StreamInv, NEW r \in Runs, OfRun(r)
    PROVE  Keeps(r)
<1>1. CASE Store(r) \/ StoreRaises(r)
  BY <1>1, StoreKeeps
<1>2. CASE Forward(r) \/ BrowserLost(r)
  BY <1>2, ForwardKeeps, LostKeeps
<1>3. CASE ReadFails(r) \/ ConnectFails(r) \/ ConnectionLost(r)
  <2>1. Error(r) /\ gw[r] \in {"idle", "reading"} /\ UNCHANGED agentVars
    BY <1>3 DEF ReadFails, ConnectFails, ConnectionLost
  <2> QED
    BY <2>1, ErrorKeeps
<1>4. CASE Connect(r) \/ ReadEof(r)
  <2>1. browser' = browser /\ saved' = saved /\ gw[r] # "lost" /\ gw'[r] # "lost"
    BY <1>4 DEF Connect, ReadEof, Leave, agentVars, StreamInv, Typed
  <2>2. Failed(r)' <=> Failed(r)
    BY <2>1 DEF Failed
  <2>3. Phase(r)' = Phase(r) /\ Shown(r)' = Shown(r)
    BY <2>1, <2>2 DEF Phase, Shown
  <2> QED
    BY <2>1, <2>3 DEF Keeps
<1>5. CASE Agent(r) /\ ~Store(r)
  <2>1. browser' = browser /\ gw' = gw /\ saved' = saved
    BY <1>5 DEF Agent, Start, Attempt, RuntimeTimesOut, Emit, EmitError, Close, Cancel, gatewayVars
  <2>2. Phase(r)' = Phase(r) /\ Shown(r)' = Shown(r)
    BY <2>1, SameView
  <2> QED
    BY <2>1, <2>2 DEF Keeps
<1> QED
  BY <1>1, <1>2, <1>3, <1>4, <1>5 DEF OfRun, Gateway

(* The first state of the stream is that of the life cycle.                    *)
LEMMA LifecycleInit == Init => Lifecycle!Init
<1> SUFFICES ASSUME Init PROVE Lifecycle!Init
  OBVIOUS
<1>1. ASSUME NEW r \in Runs PROVE Phase(r) = "new" /\ Shown(r) = "nothing"
  <2>1. browser[r] = <<>> /\ gw[r] = "idle"
    BY DEF Init
  <2>2. \A x : ~Contains(browser[r], x)
    BY <2>1 DEF Contains
  <2>3. ~Failed(r) /\ ~Contains(browser[r], Finished)
    BY <2>2 DEF Failed
  <2> QED
    BY <2>1, <2>2, <2>3 DEF Phase, Shown
<1> QED
  BY <1>1 DEF Lifecycle!Init, Init

(* The detailed stream of generator, connection and gateway implements the      *)
(* life cycle the browser is promised: each of its steps is a step of        *)
(* RunLifecycle or none.                                                    *)
THEOREM StreamImplementsLifecycle == Spec => KeepsLifecycle
<1>1. StreamInv /\ [Next]_vars => [Lifecycle!Next]_(Lifecycle!vars)
  <2> SUFFICES ASSUME StreamInv, [Next]_vars PROVE [Lifecycle!Next]_(Lifecycle!vars)
    OBVIOUS
  <2>1. ASSUME NEW r \in Runs, OfRun(r) PROVE [Lifecycle!Next]_(Lifecycle!vars)
    <3>1. Keeps(r)
      BY <2>1, OfRunKeeps
    <3>2. \A q \in Runs \ {r} : Phase(q)' = Phase(q) /\ Shown(q)' = Shown(q)
      <4> TAKE q \in Runs \ {r}
      <4>1. Untouched(q)
        BY <2>1, RunsApart DEF StreamInv
      <4> QED
        BY <4>1, SameView DEF Untouched
    <3> QED
      BY <3>1, <3>2, KeepsIsStep
  <2>2. CASE UNCHANGED <<browser, gw, saved>>
    <3>1. \A r \in Runs : Phase(r)' = Phase(r) /\ Shown(r)' = Shown(r)
      BY <2>2, SameView
    <3> QED
      BY <2>2, <3>1 DEF Lifecycle!vars
  <2> QED
    BY <2>1, <2>2, NextCases DEF AgentCrash, Tick, vars, agentVars, gatewayVars
<1> QED
  BY <1>1, LifecycleInit, StreamInvariance, PTL DEF Spec, KeepsLifecycle, Lifecycle!Spec
==============================================================================
