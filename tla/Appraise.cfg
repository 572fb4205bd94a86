SPECIFICATION Spec
CONSTANTS
  Junk = "junk"
  Known <- MCKnown
  TypeInfo <- MCTypes
  Price <- MCPrice
  Rate <- MCRate
  BaseAdjustment = 90
  Adjustment <- MCAdjustment
  Pastes <- MCPastes
  Market = "amarr"
CHECK_DEADLOCK FALSE
INVARIANTS LineCountedOnce KnownLineKept QuantitiesKept BuybackSumsUp PanicNeedsKnownType
