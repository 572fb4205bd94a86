SPECIFICATION Spec
CONSTANTS
  Users = {u1, u2}
  NoUser = NoUser
  User = u1
  Kinds = {k1, k2}
  AnyKind = AnyKind
  Limit = 2
  MaxID = 5
INVARIANTS PagesDescend WalkComplete
