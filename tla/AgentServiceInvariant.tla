------------------------ MODULE AgentServiceInvariant ------------------------
(***************************************************************************)
(* The inductive invariant of AgentService: which record, request and wire *)
(* message a handler can hold at which await.  Its parts are what the      *)
(* proofs in AgentServiceProofs carry from step to step.                   *)
(***************************************************************************)
EXTENDS AgentService

Executing == {"exchange", "dispatch", "await"}
\* The handler holds a record it read from the store, or made from one.
Holding == Executing \cup {"authctx", "save", "threadGet", "threadPut"}
\* The handler has gone beyond its claim, or never made one.
Late == {"save", "threadGet", "threadPut", "done"}

\* The plan p has been dispatched.
Planned(p) == p \in Plans /\ content[p] \in PlanInputs

AllOk(a) == \A i \in DOMAIN calls[a] : calls[a][i].ok

(* A planning handler knows its input from its start to its end, and no     *)
(* record names its plan before its save_workflow.                          *)
PlanInv ==
    \A p \in Plans :
        /\ pc[p] \in {"idle", "session", "save", "threadGet", "threadPut", "done"}
        /\ pc[p] # "idle" <=> Planned(p)
        /\ pc[p] \in {"threadGet", "threadPut"} => content[p].thread # None
        /\ pc[p] \in {"idle", "session", "save"} =>
             /\ \A w \in Workflows : workflows[w].plan # p
             /\ \A b \in Approvals : rec[b].plan # p

(* A stored record lies under the workflow id of its plan.                  *)
StoreInv ==
    \A w \in Workflows : workflows[w].status # "absent" =>
        Planned(workflows[w].plan) /\ content[workflows[w].plan].wf = w

(* An approval handler holds the record of the plan it was asked about.     *)
HandlerOk(a) ==
    /\ pc[a] # "session"
    /\ pc[a] # "idle" => asked[a] \in ApprovalRequest
    /\ pc[a] \in Holding => Planned(rec[a].plan) /\ rec[a].plan = asked[a].hash
    /\ pc[a] = "threadPut" => content[rec[a].plan].thread # None
    /\ pc[a] \in Executing \cup {"authctx"} => asked[a].approved
    /\ pc[a] = "save" =>
         /\ rec[a].status \in Settled
         /\ rec[a].status # "cancelled" => asked[a].approved
    /\ pc[a] = "dispatch" => next[a] > 0

HandlerInv == \A a \in Approvals : HandlerOk(a)

(* From its claim on, an approval handler works on the record it claimed.   *)
ClaimOk(a) ==
    /\ pc[a] \in Executing =>
         a \in claimed /\ rec[a].status = "executing" /\ rec[a].approval = a
    /\ pc[a] = "save" /\ rec[a].status # "cancelled" => rec[a].approval = a
    /\ pc[a] = "save" /\ rec[a].status \in {"completed", "failed"} => a \in claimed
    /\ a \in claimed =>
         /\ pc[a] \in Executing \cup Late
         /\ Planned(rec[a].plan)
         /\ pc[a] = "save" => rec[a].status \in {"completed", "failed"}

ClaimInv == \A a \in Approvals : ClaimOk(a)

(* A pending record has not been claimed.                                   *)
PendingInv ==
    \A w \in Workflows : workflows[w].status \in Pending =>
        \A b \in claimed : rec[b].plan # workflows[w].plan

(* An executing record belongs to the plan its owner claimed.               *)
OwnerInv ==
    \A w \in Workflows :
        LET r == workflows[w] IN
        r.status = "executing" =>
            /\ r.approval \in claimed
            /\ rec[r.approval].plan = r.plan
            /\ \/ pc[r.approval] \in Executing \cup {"save"}
               \/ pc[r.approval] = "done" /\ resp[r.approval] \in {"500", "lost"}

(* What is on the wire is a step of the approved plan.                      *)
WireOk(a) ==
    wire[a].st # "none" =>
        /\ pc[a] \in Late \cup {"await"}
        /\ asked[a] \in ApprovalRequest /\ asked[a].approved
        /\ wire[a].plan = asked[a].hash /\ Planned(wire[a].plan)
        /\ wire[a].step \in 1 .. Len(content[wire[a].plan].steps)
        /\ LET s == content[wire[a].plan].steps[wire[a].step] IN
             s.mcp /\ wire[a].need = s.scopes
        /\ wire[a].expires = expires[a]
        /\ wire[a].st = "calling" =>
             wire[a].need \subseteq wire[a].have /\ wire[a].authorized < expires[a]

WireInv == \A a \in Approvals : WireOk(a)

(* How far the calls of an approval have come, from what its handler and    *)
(* its wire show.                                                           *)
ProgressOk(a) ==
    /\ wire[a].st \in {"sent", "calling"} =>
         Len(calls[a]) = wire[a].step - 1 /\ AllOk(a)
    /\ wire[a].st = "completed" => Len(calls[a]) = wire[a].step /\ AllOk(a)
    /\ pc[a] = "await" => wire[a].st # "none" /\ wire[a].step = next[a]
    /\ pc[a] = "dispatch" =>
         /\ wire[a].st = "none"
         /\ Len(calls[a]) = next[a] - 1 /\ AllOk(a)
         /\ next[a] - 1 <= Len(content[rec[a].plan].steps)
    /\ pc[a] \in {"idle", "require", "authctx", "exchange"} =>
         wire[a].st = "none" /\ calls[a] = <<>>
    /\ pc[a] = "save" /\ rec[a].status \in {"cancelled", "executing"} =>
         wire[a].st = "none" /\ calls[a] = <<>>

ProgressInv == \A a \in Approvals : ProgressOk(a)

(* Every call executed under an approval: the conjunction, for one          *)
(* approval, of what the safety properties say of its calls.                *)
CallOk(a, i) ==
    LET c == calls[a][i] IN
    /\ asked[a] \in ApprovalRequest /\ asked[a].approved
    /\ c.plan = asked[a].hash /\ Planned(c.plan)
    /\ content[c.plan].steps[c.step].mcp
    /\ content[c.plan].steps[c.step].scopes \subseteq c.have
    /\ c.step = i
    /\ i < Len(calls[a]) => c.ok
    /\ c.authorized < expires[a]

CallsOk(a) == \A i \in DOMAIN calls[a] : CallOk(a, i)

CallsInv == \A a \in Approvals : CallsOk(a)

(* Nothing is executed any more under approval a, and all of it succeeded.  *)
Ended(a) ==
    /\ a \in claimed /\ pc[a] \in Late
    /\ wire[a].st = "none" /\ AllOk(a)

(* A completed record: its approval has executed everything and is past it. *)
Complete(r) ==
    r.status = "completed" =>
        /\ Ended(r.approval)
        /\ Planned(r.plan)
        /\ Len(calls[r.approval]) = Len(content[r.plan].steps)

CompleteInv ==
    /\ \A w \in Workflows : Complete(workflows[w])
    /\ \A t \in Threads : Complete(threads[t].workflow)
    /\ \A a \in Approvals : Complete(rec[a])
    /\ \A h \in Handlers : Complete(thr[h].workflow)

IInv ==
    /\ TypeOK
    /\ PlanInv
    /\ StoreInv
    /\ HandlerInv
    /\ ClaimInv
    /\ PendingInv
    /\ OwnerInv
    /\ WireInv
    /\ ProgressInv
    /\ CallsInv
    /\ CompleteInv
------------------------------------------------------------------------------
(* With requests one at a time.  A handler that is to act on a plan read its *)
(* record before anybody claimed it, and nobody else is there to claim it.   *)
Alone == \A g, h \in InFlight : g = h

Fresh ==
    \A a \in Approvals :
        pc[a] = "authctx" \/ (pc[a] = "save" /\ a \notin claimed) =>
            \A b \in claimed : rec[b].plan # rec[a].plan

OneClaim == \A a, b \in claimed : rec[a].plan = rec[b].plan => a = b

CancelledUnclaimed ==
    \A w \in Workflows : workflows[w].status = "cancelled" =>
        \A b \in claimed : rec[b].plan # workflows[w].plan

\* Only a claim of the plan that was asked about sends anything.
Asking(a) ==
    /\ a \in claimed => rec[a].plan = asked[a].hash
    /\ a \notin claimed => wire[a].st = "none" /\ calls[a] = <<>>

SerialClaims ==
    Alone /\ Fresh /\ OneClaim /\ CancelledUnclaimed /\ \A a \in Approvals : Asking(a)

\* A planning handler that has saved its record, or will not any more.
Shown == {"threadGet", "threadPut", "done"}

\* An approval handler on its way from its claim to the thread.
Updating == Executing \cup {"save", "threadGet", "threadPut"}

(* Without faults, a thread agrees with the store but for the handler that   *)
(* has changed the record and not yet the thread.                           *)

SnapshotOk(t) ==
    /\ ~threads[t].present => threads[t] = NoThread
    /\ LET q == threads[t].workflow.plan IN
       q # None => Planned(q) /\ content[q].thread = t /\ pc[q] \in Shown

Agrees(t) ==
    LET r == threads[t].workflow
        s == workflows[content[r.plan].wf] IN
    r.plan # None /\ s.plan = r.plan =>
        s = r \/ \E a \in Approvals : pc[a] \in Updating /\ rec[a].plan = r.plan

\* What a handler holds is what is stored.
HeldOk(h) ==
    /\ pc[h] \in {"threadGet", "threadPut"} =>
         workflows[content[PlanOf(h)].wf] = RecordOf(h)
    /\ pc[h] = "threadPut" /\ h \in Approvals => thr[h].present

ThreadsOk ==
    /\ \A t \in Threads : SnapshotOk(t) /\ Agrees(t)
    /\ \A h \in Handlers : HeldOk(h)

SerialThreads == faults = 0 => ThreadsOk

(* Faults or not, a missing thread has no messages, and the handler that is  *)
(* about to write a thread holds every message the thread has.               *)
Whole(r) == r.present \/ r.msgs = {}

ThreadHeld ==
    /\ \A t \in Threads : Whole(threads[t])
    /\ \A h \in Handlers : pc[h] = "threadPut" =>
         Whole(thr[h]) /\ threads[content[PlanOf(h)].thread].msgs \subseteq thr[h].msgs
==============================================================================
