SPECIFICATION Spec
CONSTANTS
  LongBits = 5
  NarrowBits = 3
  Typed <- mcTyped
  Strings <- mcLong
  MaxNumberLength = 4
  MaxStringLength = 3
INVARIANT UntouchedTextStays
CHECK_DEADLOCK FALSE
