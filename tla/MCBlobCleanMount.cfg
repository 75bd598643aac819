SPECIFICATION Spec
CONSTANTS
  k1 = k1
  k2 = k2
  space = space
  Keys = {k1, k2}
  Values <- mcUpToFive
  Namespaces = {space}
  None = None
  NsOf <- mcNsOf
  PageCount = 3
  EntryCount = 6
  SmallTail = 1
  MaxSeq = 6
PROPERTY CleanMountKeepsBlobs
CHECK_DEADLOCK FALSE
