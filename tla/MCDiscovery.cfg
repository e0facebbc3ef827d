CONSTANTS
  All <- MCAll
  Preferred <- MCPreferred
  Models = {m1}
  MaxChanges = 1
  None = None
SPECIFICATION Spec
INVARIANTS TypeOK Attested NothingMissed Seam
PROPERTIES Fresh
