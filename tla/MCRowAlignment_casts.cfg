\* A passed column that is declared with another type than it has upstream.
SPECIFICATION Spec
CONSTANTS
  Dataflows <- MCDataflows
  SlotNames <- MCSlotNames
INVARIANT MergesKeepCasts
CHECK_DEADLOCK FALSE
