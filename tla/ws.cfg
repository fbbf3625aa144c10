SPECIFICATION Spec
CONSTANTS
  Clients = {c1, c2, c3}
  Broadcasters = {b1, b2}
SYMMETRY Symmetry
INVARIANTS RegistryMatchesEndpoints BroadcastsAreExact
CHECK_DEADLOCK FALSE
