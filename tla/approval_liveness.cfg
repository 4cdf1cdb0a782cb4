SPECIFICATION FairSpec
CONSTANTS
  None = None
  w1 = w1
  t1 = t1
  k1 = k1
  s1 = s1
  Approvals = {a1, a2}
  Plans = {p1}
  Scopes = {s1}
  Workflows = {w1}
  Threads = {t1}
  TokenRefs = {k1}
  PlanInputs <- OneStep
  ApprovalTTL = 1
  ContextTTL = 1
  MaxTime = 0
  MaxInFlight = 3
  MaxFaults = 0
PROPERTY ApproveReturns
PROPERTY ExecutingResolves
