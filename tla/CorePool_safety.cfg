SPECIFICATION FairSpec
CONSTANTS
  Cores = 8
  Tasks = 3
  Masks <- AnyMasks
INVARIANT WaitSound
PROPERTIES FJSpec BusyWaitReturns
