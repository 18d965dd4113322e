SPECIFICATION Spec
CONSTANTS
  Prime = 13
  Primroot = 2
  Factors = {2, 3}
  Limit = 16
  MaxIndex = 9
  Shards = 3
  Senders = 1
  MaxTargets = 1000
  Listed = {0, 2, 3, 5, 6, 7, 9}
  HasList = TRUE
  MaxRuntime = FALSE
  Fresh = {0}
INVARIANTS OnlyOnce Coverage OnlyWanted
PROPERTY AllReturn
