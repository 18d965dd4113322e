SPECIFICATION Spec
CONSTANTS
  Width = 3
  RADIX_LENGTH = 2
  PlainLength = 5
  MaxEntries = 3
INVARIANT BlacklistHolds
CHECK_DEADLOCK FALSE
