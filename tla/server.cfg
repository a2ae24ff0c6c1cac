SPECIFICATION FairSpec
CONSTANTS
  Configs <- AllConfigs
  Clients = {C1}
  Reloads = {R1, R2}
  MaxRenewal = 3
  MaxStarts = 2
  KeyOf <- RenewedKeys
  Idle = Idle
  Begun = Begun
  NoConfig = NoConfig
  NoIdentity = NoIdentity
  NoConnection = NoConnection
  Torn = Torn
  Plain = Plain
INVARIANTS
  IdentityWhole
  HupHarmless
  RouteOwner
PROPERTIES
  NoStepBack
  RenewalServed
CHECK_DEADLOCK FALSE
