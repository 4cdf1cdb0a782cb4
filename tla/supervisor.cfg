SPECIFICATION FairSpec
CONSTANTS
  None = None
  s1 = s1
  Sessions = {s1}
  MaxItems = 2
  SidecarConfigured = TRUE
  MaxRestarts = 2
INVARIANT TelemetryTruthful
INVARIANT FailureHasCause
PROPERTY SupervisorAnswers
