-------------------------------- MODULE MCLogin --------------------------------
(* Instances of Login for TLC.                                              *)
EXTENDS Login, TLC

CONSTANTS c1, c2, n1, n2

TwoCallbacks == {c1, c2}
TwoLogins == {n1, n2}
Symmetry == Permutations(TwoCallbacks) \cup Permutations(TwoLogins)
==============================================================================
