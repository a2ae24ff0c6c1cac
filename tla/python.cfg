SPECIFICATION FairSpec
CONSTANTS
  Requests = {R1, R2}
  MaxCalls = 1
  CallTimeout = 2
  Backends = {B1}
  Names = {B1, Ghost}
  Reserved = {Target}
  ReadOnly = {Scopes}
  Keys = {Target, Scopes}
  Values = {V}
  Unset = Unset
  Fields = {Sent, Changed}
  Sent = Sent
  Returns <- ReturnsSet
  NoBackend = NoBackend
  NoCall = NoCall
  Running = Running
  Failed = Failed
  MaxNow = 4
  B1 = B1
  Ghost = Ghost
  Target = Target
  Scopes = Scopes
  V = V
  Changed = Changed
INVARIANTS
  ContextTrusted
PROPERTIES
  RefusedOnlyWhenFull
  EveryExecutionEnds
CHECK_DEADLOCK FALSE
