SPECIFICATION Spec
CONSTANTS
  A = A
  B = B
  F1 = F1
  F2 = F2
  R1 = R1
  R2 = R2
  B1 = B1
  B2 = B2
  I1 = I1
  I2 = I2
  NoFlow = NoFlow
  NoFrontend = NoFrontend
  NoBackend = NoBackend
  NoRequester = NoRequester
  NoIssuer = NoIssuer
  NoCookie = NoCookie
  NoLogin = NoLogin
  NoRequest = NoRequest
  NoSnapshot = NoSnapshot
  NoSuspension = NoSuspension
  StepUp = StepUp
  Flows = {A, B}
  Frontends = {F1, F2}
  Requesters = {R1, R2}
  Backends = {B1, B2}
  Issuers = {I1}
  FrontendOf <- OwnFrontend
  RequesterOf <- RequesterOwn
  Pin <- PinnedToFirst
  Default = B1
  N = 1
  DiscoAt = 0
  RouteAt = 1
  StepUpAt = 0
  Route <- RouteToSecond
  Allowed <- AllowNone
  Discovering = {B2}
  MfaFlows = {}
  Refused <- RefuseNone
  FailingServices = {1}
  FailingBackends = {B1}
  SealMayFail = FALSE
  TTL = 2
  MaxNow = 0
  MaxLogins = 3
  MaxWire = 2
INVARIANTS
  RequesterCoherent
  AnswerMatchesLogin
  PinHonoured
