SPECIFICATION Spec
CHECK_DEADLOCK FALSE
CONSTANTS
  Readers = {"r1", "r2"}
  Segments <- MCSegments
  Filters = {"null", "plain", "reads", "throws"}
  Ids <- MCIds
  MaxContexts = 2
  MaxStarts = 1
INVARIANTS
  ProcessedExact
PROPERTIES
  Consumed
