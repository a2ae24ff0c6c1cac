SPECIFICATION Spec
CONSTANTS
  Ops = {P1, P2}
  Configured = {NoOp, P1, P2}
  Handlers = {H1, H2}
  Lifetimes = {0, 2, 4}
  OpCacheTtl = 2
  Wait = 1
  MaxNow = 3
  MaxIds = 3
  NoOp = NoOp
  NoEntry = NoEntry
  NoVerifier = NoVerifier
  NoLogin = NoLogin
  NoDecision = NoDecision
  NoUse = NoUse
  Idle = Idle
SYMMETRY Symmetry
INVARIANTS
  TrustInForce
  BoundedStaleness
  CodesReachTheirOp
