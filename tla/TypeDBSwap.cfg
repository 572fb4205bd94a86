SPECIFICATION Spec
CONSTANTS
  Handles = {h1, h2, h3, h4}
  NoDB = NoDB
  Requests = {r1, r2}
  MaxFailed = 1
INVARIANTS TypeOK CurrentOpen SwapWhole MissOnlyIfSwapped
