SPECIFICATION Spec
CONSTANTS
  LongBits = 5
  NarrowBits = 3
  Typed <- mcTyped
  Strings <- mcStrings
  MaxNumberLength = 4
  MaxStringLength = 3
INVARIANTS AcceptsWhatItSpells UntouchedNumberStays
CHECK_DEADLOCK FALSE
