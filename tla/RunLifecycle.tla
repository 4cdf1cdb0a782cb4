----------------------------- MODULE RunLifecycle -----------------------------
(***************************************************************************)
(* What a run promises to the browser: it starts once, the plan is shown   *)
(* only when workflow and thread are stored, it is finished only when the  *)
(* plan and the request for its approval were shown, and once it failed or *)
(* is lost the browser hears no more of it, although the plan may still be *)
(* stored.  A finished run can still be reported failed.                   *)
(***************************************************************************)
EXTENDS Naturals

CONSTANT Runs

VARIABLES
    phase,  \* phase[r]: how the run r looks from the browser
    saved,  \* saved[r]: what Redis holds of it
    shown   \* shown[r]: what the browser was shown of its plan

vars == <<phase, saved, shown>>

Init ==
    /\ phase = [r \in Runs |-> "new"]
    /\ saved = [r \in Runs |-> "nothing"]
    /\ shown = [r \in Runs |-> "nothing"]

Move(r, from, to) ==
    /\ phase[r] \in from
    /\ phase' = [phase EXCEPT ![r] = to]
    /\ UNCHANGED <<saved, shown>>

Start(r) == Move(r, {"new"}, "running")
Fail(r) == Move(r, {"new", "running", "finished"}, "failed")
Lose(r) == Move(r, {"new", "running"}, "lost")

Finish(r) ==
    /\ shown[r] \in {"plan", "approval"}
    /\ Move(r, {"running"}, "finished")

Save(r) ==
    /\ \/ saved[r] = "nothing" /\ saved' = [saved EXCEPT ![r] = "workflow"]
       \/ saved[r] = "workflow" /\ saved' = [saved EXCEPT ![r] = "thread"]
    /\ UNCHANGED <<phase, shown>>

Show(r) ==
    /\ phase[r] = "running" /\ saved[r] = "thread"
    /\ \/ shown[r] = "nothing" /\ shown' = [shown EXCEPT ![r] = "plan"]
       \/ shown[r] = "plan" /\ shown' = [shown EXCEPT ![r] = "approval"]
    /\ UNCHANGED <<phase, saved>>

Next == \E r \in Runs :
    Start(r) \/ Fail(r) \/ Lose(r) \/ Finish(r) \/ Save(r) \/ Show(r)

Spec == Init /\ [][Next]_vars
==============================================================================
