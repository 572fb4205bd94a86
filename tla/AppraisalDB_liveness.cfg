SPECIFICATION FairSpec
CONSTANTS
  u1 = u1
  u2 = u2
  r1 = r1
  r2 = r2
  t1 = t1
  t2 = t2
  Users = {u1}
  NoUser = NoUser
  LegacyIDs = {}
  SequenceStart = 1
  MaxSequence = 2
  ExpireTime = 0
  Statuses = {"valid", "invalid"}
  Requests = {r1, r2}
  Touchers = {t1}
  CommitFails = FALSE
INVARIANTS NotifiedWhole
PROPERTIES
  OrphansReaped
  ExpiredReaped
  CloseReturns
