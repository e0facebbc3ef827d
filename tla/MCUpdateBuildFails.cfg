CONSTANTS
  Procs = {p1}
  Modes = {"source"}
  None = None
  Edits = {"none"}
  MaxCommits = 2
SPECIFICATION Spec
INVARIANTS UpToDateIsInstalled
