CONSTANTS
  Procs = {p1, p2}
  Modes = {"release"}
  None = None
  Edits = {"none"}
  MaxCommits = 1
SPECIFICATION Spec
INVARIANTS InstalledWhole
