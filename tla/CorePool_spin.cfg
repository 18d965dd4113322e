SPECIFICATION FairSpec
CONSTANTS
  Cores = 8
  Tasks = 2
  Masks <- DefaultMask
PROPERTIES WaitReturns
