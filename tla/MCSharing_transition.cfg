CONSTANTS
  alice = alice
  bob = bob
  People <- Both
  Owners <- Alice
  Names = {a, b}
  Starts <- Transition
  MaxOps = 4
SPECIFICATION Spec
PROPERTY RecipientsKeepReading
CHECK_DEADLOCK FALSE
