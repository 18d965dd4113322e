SPECIFICATION FairSpec
CONSTANTS
  Capacity = 2
  Room = 2
  Space = 3
  Sizes = {1, 2, 4}
  Timeout = 1
  MaxRecords = 4
  MaxCloses = 1
  MaxCrashes = 1
INVARIANTS StreamExact AtMostOnce AtLeastOnce
PROPERTIES QueueSpec PutReturns Consumed
