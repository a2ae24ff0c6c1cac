SPECIFICATION Spec
CONSTANTS
  A = A
  B = B
  F1 = F1
  F2 = F2
  R1 = R1
  R2 = R2
  B1 = B1
  B2 = B2
  I1 = I1
  I2 = I2
  NoFlow = NoFlow
  NoFrontend = NoFrontend
  NoBackend = NoBackend
  NoRequester = NoRequester
  NoIssuer = NoIssuer
  NoCookie = NoCookie
  NoLogin = NoLogin
  NoRequest = NoRequest
  NoSnapshot = NoSnapshot
  NoSuspension = NoSuspension
  StepUp = StepUp
  Flows = {A, B}
  Frontends = {F1}
  Requesters = {R1, R2}
  Backends = {B1, B2}
  Issuers = {I1, I2}
  FrontendOf <- OneFrontend
  RequesterOf <- RequesterOwn
  Pin <- Unpinned
  Default = B1
  N = 4
  DiscoAt = 1
  RouteAt = 2
  StepUpAt = 3
  Route <- RouteByIssuer
  Allowed <- AllowFirst
  Discovering = {B1}
  MfaFlows = {A, B}
  Refused <- RefuseNone
  FailingServices = {3, 4}
  FailingBackends = {B2}
  SealMayFail = TRUE
  TTL = 2
  MaxNow = 2
  MaxLogins = 3
  MaxWire = 1
INVARIANTS
  RequestChainComplete
  ResponseChainComplete
  OneAnswerPerLogin
  RedirectCarriesState
PROPERTY
  ServiceKept
