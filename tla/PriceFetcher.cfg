SPECIFICATION FairSpec
CONSTANTS
  Regions = {r1, r2}
  MaxPage = 2
  Markets = {jita, universe}
  Types = {t1}
INVARIANTS
  AggregatesAlone
PROPERTIES
  AllOrdersOrNone
  RefreshedAgain
  CloseReturns
