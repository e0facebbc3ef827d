CONSTANTS
  Names = {n1, n2}
  NoName = NoName
  Reports = {r1, r2}
  None = None
  HeartbeatInterval = 2
  MaxNow = 12
SPECIFICATION Spec
INVARIANTS TypeOK NoLeak RegistryInv
PROPERTIES ReapUnseen KeepsPromise
