SPECIFICATION FairSpec
CONSTANTS
  k1 = k1
  k2 = k2
  k3 = k3
  NoCaller = NoCaller
  Callers <- Requests
  Priorities <- Ranks
  RetryAfter <- NowOrSoon
  Configured = TRUE
  MaxRetries = 2
  MinInterval = 2
  Timeout = 2
  Threshold = 3
  Cooldown = 3
INVARIANTS
  TypeOK
  OneDrainer
  BreakerAgrees
PROPERTIES
  Spaced
  SkipsOnlyCooling
  ImplementsService
  UrgentServed
  TrialDecides
