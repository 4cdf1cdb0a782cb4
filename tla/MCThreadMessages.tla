--------------------------- MODULE MCThreadMessages ---------------------------
(* Instances of ThreadMessages for TLC.                                     *)
EXTENDS ThreadMessages, SequencesExt, TLC

CONSTANTS r1, r2, r3, c1, c2, h1, h2, res1, res2

AllPlans == Plan

Symmetry == Permutations(Runs)

(* Clients may send anything: calls given twice or without an id, results of *)
(* unknown calls or of none, parts and roles the service does not know.     *)
Odd ==
    {Message("user", h1, <<>>, <<>>), Message("other", h1, <<>>, <<>>),
     Message("assistant", h1, <<Part("tool-call", c1, None, FALSE),
         Part("tool-call", None, None, FALSE)>>, <<c1, c2>>),
     Message("assistant", h2, <<Part("unknown", None, None, FALSE), Text,
         Part("tool-call", c1, res2, FALSE), Part("tool-call", c1, None, FALSE)>>, <<>>),
     ToolMessage(c1, res1, FALSE), ToolMessage(c1, res2, TRUE), ToolMessage(c2, res1, FALSE),
     [ToolMessage(h1, res1, FALSE) EXCEPT !.call = None]}

\* A tab starts empty and makes every run, or starts oddly and makes one.
Start == BoundedSeq(Odd, 3)

ThreadInit == Init /\ Cardinality(open) = IF tab = <<>> THEN Cardinality(Runs) ELSE 1

ThreadSpec == ThreadInit /\ [][Next]_vars
==============================================================================
