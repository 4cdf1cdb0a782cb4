SPECIFICATION StoreSpec
CONSTANTS
  None = None
  Callers = {c1, c2, c3}
  Versions = {0, 1}
  Ttls = {t1}
  DefaultTtl = None
  MaxFaults = 1
  Texts <- SomeTexts
  Appenders = {a1, a2, a3}
  EventNames <- SomeNames
  TtlConfigured = TRUE
INVARIANT TypeOK
INVARIANT NoUpdateLost
INVARIANT VersionsUnique
INVARIANT ReturnedExpires
INVARIANT OneOwner
PROPERTY AtomicSpec
PROPERTY CallsReturn
