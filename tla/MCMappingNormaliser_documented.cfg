SPECIFICATION Spec
CONSTANTS
  Mappings <- UndocumentedOnly
  Datasets <- MCDatasets
  NameOrder <- MCNameOrder
INVARIANT ConvertedAsDocumented
CHECK_DEADLOCK FALSE
