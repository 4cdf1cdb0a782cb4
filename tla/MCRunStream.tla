----------------------------- MODULE MCRunStream -----------------------------
(* Instances of RunStream for TLC.                                          *)
EXTENDS RunStream

CONSTANTS r1, r2

TwoRuns == {r1, r2}

(* Two runs meet in the provider that they share and nowhere else: the       *)
(* second begins while the first is in the runtime, then neither goes on     *)
(* past it, and of the faults one may happen.                                *)
Together == gw'[r2] # "idle"

MeetInRuntime ==
    /\ Together /\ gw[r2] = "idle" => pc[r1] = "runtime"
    /\ Together => /\ faults' <= 1
                   /\ \A r \in Runs :
                        pc'[r] \in {"idle", "start", "runtime", "error", "close", "gone"}

StreamSpec ==
    /\ Init
    /\ [][Next /\ MeetInRuntime]_vars
    /\ Fairness
==============================================================================
