SPECIFICATION Spec
CONSTANTS
  None = None
  w1 = w1
  t1 = t1
  k1 = k1
  s1 = s1
  Approvals = {a1, a2}
  Plans = {p1, p2}
  Scopes = {s1}
  Workflows = {w1}
  Threads = {t1}
  TokenRefs = {k1}
  PlanInputs <- Shapes
  ApprovalTTL = 1
  ContextTTL = 1
  MaxTime = 0
  MaxInFlight = 4
  MaxFaults = 1
SYMMETRY Symmetry
CONSTRAINT RaceOrShape
INVARIANT TypeOK
INVARIANT StepsInOrder
INVARIANT ExecutedAsApproved
INVARIANT CompletedMeansExecuted
INVARIANT ExecutingHasOwner
PROPERTY NoActionAfterClaim
