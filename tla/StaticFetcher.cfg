SPECIFICATION FairSpec
CONSTANTS
  MaxVersion = 3
  Published = 0
  Blocks = 2
  Failures = TRUE
  Stops = TRUE
  Crashes = TRUE
INVARIANTS
  TypeOK
  PartLeftOnlyIfCut
PROPERTIES
  WholeStaysWhole
  CloseReturns
  ServedUnlessSpoiled
