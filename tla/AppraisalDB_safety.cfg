SPECIFICATION Spec
CONSTANTS
  u1 = u1
  u2 = u2
  r1 = r1
  r2 = r2
  t1 = t1
  t2 = t2
  Users = {u1}
  NoUser = NoUser
  LegacyIDs = {1}
  SequenceStart = 1
  MaxSequence = 3
  ExpireTime = 0
  Statuses = {}
  Requests = {r1, r2}
  Touchers = {t1}
  CommitFails = FALSE
SYMMETRY Symmetry
INVARIANTS
  TypeOK
  IndexExact
  NoTraceBeforeIssue
PROPERTIES
  RemovedByOwnerOrReaper
  ImplementsStore
