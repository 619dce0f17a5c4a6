CONSTANTS
  alice = alice
  bob = bob
  People <- Both
  Owners <- Alice
  Names = {a, b}
  Starts <- Direct
  MaxOps = 4
SPECIFICATION Spec
INVARIANT ProjectKeyOpensAll
CHECK_DEADLOCK FALSE
