SPECIFICATION FrontendSpec
CONSTANTS
  H1 = H1
  H2 = H2
  V1 = V1
  V2 = V2
  C = C
  Clients = {C}
  LongIds = {}
  Handlers = {H1, H2}
  Versions = {V1, V2}
  Lifetimes = {0, 1, 5}
  RpCacheTtl = 2
  FailureTtl = 2
  Wait = 1
  MaxNow = 4
  MaxLogins = 1
  Idle = Idle
  NoEntry = NoEntry
  NoDecision = NoDecision
  NoUse = NoUse
  Never = Never
SYMMETRY Symmetry
INVARIANTS
  RegistrationInForce
  RegistrationRecent
  RedirectsRegistered
