SPECIFICATION Spec
CONSTANTS
  n1 = n1
  n2 = n2
  k1 = k1
  k2 = k2
  a = a
  b = b
  Names = {n1, n2}
  Keys = {k1, k2}
  Values = {a}
  MaxIndex = 3
  Room = 8
  MaxHandle = 6
  MaxLife = 3
  OtherHandles = 2
  Images <- mcImages
INVARIANTS ChangeTypeOK NamesAreSound HandleMeansName OkMeansDone ShownIsFlash HandlesClosed
PROPERTIES OnlyOwnKeys NeverCreates OnlyTargetChanges ChangesEnd
CHECK_DEADLOCK FALSE
