CONSTANTS
  Agents = {a1}
  Names = {n1}
  NameOf <- MCNameOf
  None = None
  HeartbeatInterval = 3
  PostTimeout = 3
  MaxInspect = 1
  MaxDelay = 3
SPECIFICATION Spec
INVARIANTS TypeOK GhostBound GhostInv SteadyShown SteadyInv
PROPERTIES Rejoins
