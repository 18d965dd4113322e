SPECIFICATION FairScan
CONSTANTS
  Prime = 7
  Primroot = 3
  Factors = {2, 3}
  Limit = 16
  MaxIndex = 5
  Shards = 1
  Senders = 2
  MaxTargets = 4
  Listed = {}
  HasList = FALSE
  MaxRuntime = FALSE
  Fresh = {0}
  MaxResults = 2
  Mine = {100}
INVARIANTS ResultsExact LateBounded CapRespected
PROPERTY CompleteStops
