CONSTANTS
  Agents = {a1}
  Names = {n1}
  NameOf <- MCNameOf
  None = None
  HeartbeatInterval = 3
  PostTimeout = 3
  MaxInspect = 1
  MaxDelay = 4
SPECIFICATION PatientSpec
PROPERTIES NeverRegresses
