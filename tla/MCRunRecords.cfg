\* Every dependency graph over three tasks, plans of two pipelines, and two runs in one
\* directory.
SPECIFICATION RecordsSpec
CONSTANTS
  NumPipelines = 2
  NumTasks = 3
  Plans <- MCPlans
  Names <- MCNames
  Packages <- MCPackages
  Reruns <- MCReruns
  MaxRuns = 2
INVARIANTS
  RecordsTypeOK OrderIsLinearExtension StatusesStandUp LaunchesAreSound AbortsOnlyOnCycle
  VerdictIsHonest SuccessHasItsSettings OwnFileOwnLog
PROPERTIES RunsImplementMeaning DecisionsAreFinal EveryRunEnds
CHECK_DEADLOCK FALSE
