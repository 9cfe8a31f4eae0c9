\* A task whose job could not be rendered, and a task that depends on it.
SPECIFICATION PackageSpec
CONSTANTS
  NumDataflows = 3
  NumPipelines = 2
  NumTasks = 3
  Members = {m1, m2, m3}
  MemberConstructs <- MCConstructs
  Manifest <- MCManifest
  Documents <- MCDocuments
  BaseNames <- MCBaseNames
INVARIANT PlanBlocksReachDownstream
CHECK_DEADLOCK FALSE
