\* Analysis, emission and the workflow plan: every dependency graph over three tasks,
\* every source of a block, and job names that collide.
SPECIFICATION PackageSpec
CONSTANTS
  NumDataflows = 3
  NumPipelines = 2
  NumTasks = 3
  Members = {m1, m2, m3}
  MemberConstructs <- MCConstructs
  Manifest <- MCManifest
  Documents <- MCDocuments
  BaseNames <- MCBaseNames
INVARIANTS
  PackageTypeOK BlockedIsLeastClosure BlocksMatchDecisions LaunchesOnlySupported
  AnalysisBlocksHaveReasons
PROPERTY Terminates
CHECK_DEADLOCK FALSE
