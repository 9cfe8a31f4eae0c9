\* Fusion of dataflows with a merge of two row-preserving operations.
SPECIFICATION Spec
CONSTANTS
  Dataflows <- MCDataflows
  SlotNames <- MCSlotNames
INVARIANTS OrderIsLeastExtension MergesKeepMeaning FailsIffNotAligned OneUpstreamPerSlot FusionMakesNoCycle
PROPERTY RoundsShrink
CHECK_DEADLOCK FALSE
