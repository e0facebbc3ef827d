CONSTANTS
  N = 2
  here = 1
  llama3 = llama3
  target = llama3
  LabelOf <- MCLabelOf
  Frees = {8}
  Sizes = {0, 40}
  Unlisted = Unlisted
  Absent = Absent
  None = None
  MaxChanges = 2
SPECIFICATION Spec
INVARIANTS TypeOK OneMoment Attested
PROPERTIES Ends
CHECK_DEADLOCK FALSE
