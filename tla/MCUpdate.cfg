CONSTANTS
  Procs = {p1}
  Modes = {"source", "release"}
  None = None
  Edits = {"none", "bump"}
  MaxCommits = 2
SPECIFICATION FairSpec
INVARIANTS TypeOK InstalledWhole HonestUpdate LatestStands VersionsGrow
PROPERTIES CatchesUp Transactional
