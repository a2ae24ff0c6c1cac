SPECIFICATION Spec
CONSTANTS
  NoValue = NoValue
  Failed = Failed
  Redirected = Redirected
  NoLogin = NoLogin
  NoFrontend = NoFrontend
  NoSuspension = NoSuspension
  LowerCase <- Folded
  Before <- InOrder
  Map <- AttributeMap
  UserIdFrom <- ComposedFrom
  Backends <- BackendConfigs
  Frontends <- FrontendConfigs
  Logins <- AllLogins
  RequestOf <- LoginRequests
  Responses <- ProviderResponses
  Chains <- AllChains
  Authoritative <- MappedOnly
  Assurances <- SecondLogins
  Clients <- AllClients
  MaxRegistrations = 1
  MaxAnswers = 2
INVARIANTS
  TypeOK
  Unlinkable
  NameIdShaped
  NothingForged
  AuthorizationHolds
  AuthorityTrue
  IdentifiersDistinct
CHECK_DEADLOCK FALSE
