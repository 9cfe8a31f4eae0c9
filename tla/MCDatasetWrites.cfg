\* Jobs of one and two writes, one after the other over two datasets.
SPECIFICATION Spec
CONSTANTS
  Values = {"k1", "k2", "k3", "old", "new", "kept", "null"}
  Datasets = {"t1", "t2"}
  Jobs <- MCJobs
  Contents <- MCContents
  MaxWrites = 3
INVARIANTS SuccessIsExact KeyedWritesAreWhole
PROPERTY ExistingPartsAreKept
CHECK_DEADLOCK FALSE
