SPECIFICATION FairSpec
CONSTANTS
  j1 = j1
  j2 = j2
  Nodes = {n1}
  Jobs = {j1, j2}
  NoNode = NoNode
  NoJob = NoJob
  Needs <- MCNeeds
  Facts <- MCFacts
  Slots = {s1, s2}
  Results = {"succeeded", "failed"}
  LeaseTTL = 2
  MaxLag = 1
  MaxFaults = 1
  Timely = TRUE
INVARIANTS
  TypeOK
  OneExecutionPerOpenJob
  EngineHearsTheRecord
PROPERTIES
  OverIsNotHandedOut
  DisabledIsOutOfWork
  DispatchedJobsEnd
