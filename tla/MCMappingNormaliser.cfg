SPECIFICATION Spec
CONSTANTS
  Mappings <- MCMappings
  Datasets <- MCDatasets
  NameOrder <- MCNameOrder
INVARIANTS
  MeaningKept
  OnlyKnownErrors
  ColumnsArrive
CHECK_DEADLOCK FALSE
