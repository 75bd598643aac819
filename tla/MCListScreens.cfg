\* A window of three rows for four namespaces and of two for three keys.
SPECIFICATION Spec
CONSTANTS
  Contents <- mcContents
  Codes <- mcCodes
  ListRows = 3
  DetailRows = 2
  MaxLength = 1
INVARIANTS ListTypeOK ListsAreCurrent SelectionIsDrawn
PROPERTIES KeepsTheName AsksForTheMarked
CHECK_DEADLOCK FALSE
