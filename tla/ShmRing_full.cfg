SPECIFICATION Spec
CONSTANTS
  Entries = 2
  Word = 8
  MaxWrites = 5
  MaxStarts = 1
  MaxCrashes = 0
PROPERTIES FullRefused
