SPECIFICATION Spec
CONSTANTS
  a = a
  b = b
  c = c
  na = na
  nb = nb
  Ids = {a, b}
  Names = {na, nb}
  Requests = {r1}
  Enrolling = {}
  r1 = r1
  r2 = r2
  Admin0 = a
  AdminName = na
  NoAccount = NoAccount
  NoWrite = NoWrite
INVARIANT DeletedIsGone
CHECK_DEADLOCK FALSE
