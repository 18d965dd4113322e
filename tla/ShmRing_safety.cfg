SPECIFICATION FairSpec
CONSTANTS
  Entries = 2
  Word = 8
  MaxWrites = 4
  MaxStarts = 2
  MaxCrashes = 1
INVARIANT RingExact
PROPERTIES InOrder QueueSpec Drained
