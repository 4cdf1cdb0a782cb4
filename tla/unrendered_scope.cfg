SPECIFICATION BrokerSpec
CONSTANTS
  None = None
  network = network
  cloud = cloud
  own = own
  Payloads <- Sample
  MaxPayloads = 3
  AllowLists <- Lists
  TokenScopes <- IssuedScopes
  Approved <- SomeApproved
  Audiences <- AllAudiences
  DefaultAudience = own
  ServerAudience <- OneMapped
  Configured <- SomeConfigured
INVARIANT PlanningFails
