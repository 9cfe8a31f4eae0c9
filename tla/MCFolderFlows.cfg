\* Up to four definitions in any order over two files, and a workflow in a third.
SPECIFICATION Spec
CONSTANTS
  Slots <- MCSlots
  Bodies <- MCBodies
  Exports <- MCExports
  Folders <- MCFolders
  Names <- MCNames
INVARIANTS ResolvesIffUnanimous TasksRunWhatTheyName InventoryAgrees LinksBecomeDependencies
CHECK_DEADLOCK FALSE
