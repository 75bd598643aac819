SPECIFICATION FairSpec
CONSTANTS
  k1 = k1
  k2 = k2
  space = space
  Keys = {k1}
  Values <- mcGrowing
  Namespaces = {space}
  None = None
  NsOf <- mcNsOf
  PageCount = 3
  EntryCount = 6
  SmallTail = 1
  MaxSeq = 7
PROPERTY MountCleansUp
CHECK_DEADLOCK FALSE
