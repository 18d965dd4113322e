SPECIFICATION Spec
CONSTANTS
  Prime = 7
  Primroot = 3
  Factors = {2, 3}
  Limit = 16
  MaxIndex = 5
  Shards = 1
  Senders = 2
  MaxTargets = 1000
  Listed = {}
  HasList = FALSE
  MaxRuntime = FALSE
  Fresh = {0}
INVARIANT Coverage
