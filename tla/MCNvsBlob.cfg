SPECIFICATION FairSpec
CONSTANTS
  k1 = k1
  k2 = k2
  space = space
  Keys = {k1}
  Values <- mcLong
  Namespaces = {space}
  None = None
  NsOf <- mcNsOf
  PageCount = 3
  EntryCount = 4
  SmallTail = 1
  MaxSeq = 5
INVARIANT CleanWhenIdle
PROPERTIES ImplementsKeyStore Settles
CHECK_DEADLOCK FALSE
