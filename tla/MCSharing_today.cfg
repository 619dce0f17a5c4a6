CONSTANTS
  alice = alice
  bob = bob
  People <- Both
  Owners <- Alice
  Names = {a, b}
  Starts <- Today
  MaxOps = 4
SPECIFICATION Spec
INVARIANTS WrappingsCurrent FullReadsAll OwnerRegainsAll
PROPERTY RecipientsKeepReading
CHECK_DEADLOCK FALSE
