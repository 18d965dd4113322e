SPECIFICATION Spec
CONSTANTS
  Width = 3
  RADIX_LENGTH = 2
  PlainLength = 5
  MaxEntries = 3
INVARIANTS IndexExact GivenUnlessCovered ZeroExcluded
CHECK_DEADLOCK FALSE
