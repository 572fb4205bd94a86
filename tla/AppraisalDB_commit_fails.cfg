SPECIFICATION Spec
CONSTANTS
  u1 = u1
  u2 = u2
  r1 = r1
  r2 = r2
  t1 = t1
  t2 = t2
  Users = {u1, u2}
  NoUser = NoUser
  LegacyIDs = {1}
  SequenceStart = 1
  MaxSequence = 2
  ExpireTime = 0
  Statuses = {"valid"}
  Requests = {r1}
  Touchers = {t1}
  CommitFails = TRUE
SYMMETRY Symmetry
PROPERTIES
  DeletedForGood
  NeverOverwritten
