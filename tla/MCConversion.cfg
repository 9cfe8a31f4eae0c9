\* Plug-ins are loaded, then two conversions share one output directory.
SPECIFICATION Spec
CONSTANTS
  Installed <- MCInstalled
  ByHand <- MCByHand
  Requests <- MCRequests
  TargetIds <- MCTargetIds
  SortedLists <- MCSortedLists
  MaxJobs = 2
INVARIANTS FirstPluginWins PlansStandOnTheirJobs SummaryVouches
CHECK_DEADLOCK FALSE
