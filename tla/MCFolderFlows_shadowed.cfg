\* A workflow called "mapping" whose session has the name of a mapping no session uses.
SPECIFICATION Spec
CONSTANTS
  Slots <- MCSlots
  Bodies <- MCBodies
  Exports <- MCExports
  Folders <- MCFolders
  Names <- MCNames
INVARIANT SessionsHaveTheirDataflow
CHECK_DEADLOCK FALSE
