SPECIFICATION Spec
CONSTANTS
  k1 = k1
  k2 = k2
  space = space
  scalar = scalar
  string = string
  Keys = {k1, k2}
  Values = {scalar, string}
  Namespaces = {space}
  None = None
  NsOf <- mcNsOf
  PageCount = 3
  EntryCount = 3
  Types = {"u8", "str"}
  TypeOf <- mcTwoTypes
  Span <- mcSpan
  Hash <- mcHash
  MaxSeq = 4
  Blank = Blank
  NoPlace = NoPlace
SYMMETRY mcSymmetry
INVARIANT DuplicateErased
CHECK_DEADLOCK FALSE
