SPECIFICATION MergeSpec
CONSTANTS
  TypeIDs = {t1, t2}
  Volumes = {0, 1, 2, 9, 10}
INVARIANTS MergedAsChosen UniverseSettled
