SPECIFICATION LoginSpec
CONSTANTS
  None = None
  c1 = c1
  c2 = c2
  n1 = n1
  n2 = n2
  Sessions <- TwoCallbacks
  Logins <- TwoLogins
  MaxItems = 1
  SidecarConfigured = FALSE
  MaxRestarts = 1
  MaxLogouts = 2
  MaxReloads = 1
SYMMETRY Symmetry
CHECK_DEADLOCK FALSE
INVARIANT SessionReady
INVARIANT LoggedOutStaysOut
INVARIANT CookieResolves
