SPECIFICATION Spec
CONSTANTS
  Webhooks = {TRUE}
  Flaws = {"terms", "place", "items", "none"}
  Views = {v1, v2}
  Faults = 1
  Restarts = 1
INVARIANTS StoredIsPosted VerdictExplained
PROPERTIES EventuallyTold
