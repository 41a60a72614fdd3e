SPECIFICATION Spec
CONSTANTS
  a = a
  b = b
  c = c
  na = na
  nb = nb
  Ids = {a, b, c}
  Names = {na, nb}
  Requests = {r1}
  Enrolling = {b, c}
  r1 = r1
  r2 = r2
  Admin0 = a
  AdminName = na
  NoAccount = NoAccount
  NoWrite = NoWrite
SYMMETRY Symmetry
INVARIANTS
  TypeOK
  UniqueNames
  ActiveAdminRemains
  RequiredMfaIsAsked
  AnswersStand
CHECK_DEADLOCK FALSE
