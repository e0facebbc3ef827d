CONSTANTS
  N = 3
  Labels = {"ollama"}
  Frees = {2, 12, 128}
  Utils = {0, 50}
  llama3 = llama3
  None = None
  Absent = Absent
  model <- MCModel
SPECIFICATION Spec
INVARIANTS TypeOK SelectsEligible BestFirst
PROPERTIES WinnerKeepsWinning LosersDoNotMatter
