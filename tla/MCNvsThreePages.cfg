SPECIFICATION Spec
CONSTANTS
  k1 = k1
  k2 = k2
  space = space
  scalar = scalar
  string = string
  Keys = {k1, k2}
  Values = {scalar, string}
  Namespaces = {space}
  None = None
  NsOf <- mcNsOf
  PageCount = 3
  EntryCount = 3
  Types = {"any"}
  TypeOf <- mcOneType
  Span <- mcSpan
  Hash <- mcHash
  MaxSeq = 4
  Blank = Blank
  NoPlace = NoPlace
SYMMETRY mcSymmetry
INVARIANTS OneCopy AlwaysMounts ReservedPage
PROPERTIES ImplementsKeyStore
CHECK_DEADLOCK FALSE
