\* Two starts with any two of three names, two clients, two creations.
\* A behaviour ends when no start is left, hence CHECK_DEADLOCK FALSE.
CONSTANTS
  c1 = c1
  c2 = c2
  alice = alice
  bob = bob
  carol = carol
  Clients = {c1, c2}
  Names = {alice, bob, carol}
  none = none
  MaxStarts = 2
  MaxCreates = 2
SPECIFICATION FairSpec
INVARIANTS TypeOK BuiltInsStand TokensTellTruth
PROPERTY ComesUp
CHECK_DEADLOCK FALSE
