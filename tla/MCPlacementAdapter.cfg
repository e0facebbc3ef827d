CONSTANTS
  N = 1
  Labels = {"ollama", "vllm", "llama.cpp"}
  Frees = {2, 12}
  Utils = {0, 50}
  llama3 = llama3
  None = None
  Absent = Absent
  model <- MCModel
SPECIFICATION Spec
INVARIANTS AdapterOfNode
