SPECIFICATION FairSpec
CONSTANTS
  Lookups = {L1, L2, L3}
  Entities = {E1, E2}
  Locks = {K1, K2}
  Capacity = 1
  MaxVersion = 2
  NoDoc = NoDoc
  NoLock = NoLock
  NoLookup = NoLookup
  NoEntity = NoEntity
  NoAnswer = NoAnswer
INVARIANTS
  RetainedHasScopes
PROPERTIES
  ServesOneDocument
  EveryLookupEnds
CHECK_DEADLOCK FALSE
