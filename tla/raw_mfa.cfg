SPECIFICATION Spec
CONSTANTS
  A = A
  B = B
  C = C
  Trusted = Trusted
  Plain = Plain
  Alice = Alice
  Bob = Bob
  AliceKey = AliceKey
  BobKey = BobKey
  Top = Top
  Low = Low
  Native = Native
  MFA = MFA
  RelayA = RelayA
  RelayB = RelayB
  NoFlow = NoFlow
  NoIdp = NoIdp
  NoLoa = NoLoa
  NoRelay = NoRelay
  NoSettings = NoSettings
  NoAccount = NoAccount
  NoIdentifier = NoIdentifier
  NoBehavior = NoBehavior
  NoPolicy = NoPolicy
  NoSnapshot = NoSnapshot
  NoLogin = NoLogin
  NoSecond = NoSecond
  NoCookie = NoCookie
  NoAnswer = NoAnswer
  Flows = {A, B, C}
  Idps = {Trusted, Plain}
  Users = {Alice, Bob}
  Identifiers = {AliceKey, BobKey}
  Loas = {Top, MFA, Low, Native}
  Relays = {RelayA, RelayB}
  LoasOf <- LoasDiffer
  RelayOf <- RelayOfAB
  Passive = {}
  Hinted <- HintForB
  Behaviors = {"hardened"}
  ByEntity <- NoEntities
  ByCategory <- NoRows
  ByCertification <- Certified
  Categories <- NoValues
  Certifications <- CertificationsOfTrusted
  AccountOf <- Accounts
  Supported <- Order
  Rewrite <- NativeWord
  Lowest = NoLoa
  AllowStronger = TRUE
  DefaultAcr = Low
  Asserts <- Asserted
  MaxLogins = 3
  MaxWire = 1
INVARIANTS
  RawMfaNotSufficient
