SPECIFICATION FairSpec
CONSTANTS
  k1 = k1
  k2 = k2
  space = space
  scalar = scalar
  string = string
  Keys = {k1, k2}
  Values = {scalar, string}
  Namespaces = {space}
  None = None
  NsOf <- mcNsOf
  PageCount = 2
  EntryCount = 3
  Types = {"any"}
  TypeOf <- mcOneType
  Span <- mcSpan
  Hash <- mcHash
  MaxSeq = 5
  Blank = Blank
  NoPlace = NoPlace
INVARIANTS TypeOK
PROPERTIES ScalarFits Settles
CHECK_DEADLOCK FALSE
