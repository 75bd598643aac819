SPECIFICATION Spec
CONSTANTS
  Sector <- mcSector
  LastSector = 2
  MaxNumber = 2
  Content = {own, blank, torn, foreign}
  Blank = blank
  Torn = torn
  Foreign = foreign
  None = None
  Damaged = Damaged
INVARIANTS RestoreUndoable NoForeignPages WrittenAsChecked
PROPERTY NeverOverwrites
