SPECIFICATION Spec
CONSTANTS
  None = None
  w1 = w1
  t1 = t1
  k1 = k1
  s1 = s1
  Approvals = {a1, a2}
  Plans = {p1, p2}
  Scopes = {s1}
  Workflows = {w1}
  Threads = {t1}
  TokenRefs = {k1}
  PlanInputs <- Threaded
  ApprovalTTL = 3
  ContextTTL = 2
  MaxTime = 5
  MaxInFlight = 1
  MaxFaults = 1
SYMMETRY Symmetry
CONSTRAINT OneScenario
INVARIANT DispatchedOnce
INVARIANT CancelledNeverExecuted
INVARIANT ThreadAgrees
INVARIANT AuthorizedInTime
PROPERTY MessagesKept
