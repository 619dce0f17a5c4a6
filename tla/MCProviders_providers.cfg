SPECIFICATION FairProviderSpec
CONSTANTS
  PipeSize = 1
  Payload = 2
  Limit = 1
  MaxSaid = 2
  Vaults <- SmallVaults
INVARIANTS
  ValueIsWhole
  OnlyThePinned
  NoneLeftRunning
PROPERTIES
  PoliteRunEnds
