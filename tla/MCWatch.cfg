CONSTANTS
  Names = {1, 2}
  idle = idle
  busy = busy
  llama3 = llama3
  mistral = mistral
  Reports <- MCReports
  Models <- MCModels
  JobsOf <- MCJobsOf
  None = None
  DegradedAfter = 2
  EvictAfter = 4
SPECIFICATION Spec
INVARIANTS TypeOK FrameWhole
PROPERTIES NodesStable
