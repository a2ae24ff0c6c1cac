SPECIFICATION Spec
CONSTANTS
  R1 = R1
  R2 = R2
  T1 = T1
  T2 = T2
  Old = Old
  New = New
  NoCookie = NoCookie
  NoState = NoState
  Idle = Idle
  Replicas = {R1, R2}
  Tabs = {T1, T2}
  Offset <- Ahead
  Skew = 1
  TTL = 3
  Sizes <- SomeSizes
  InflateCap = 1
  CookieCap = 1
  SecretKeys = {Old, New}
  Plan <- TwoPhase
  Wait = 3
  MaxNow = 4
SYMMETRY Symmetry
INVARIANTS
  FlowContinues
  AbsoluteLifetime
