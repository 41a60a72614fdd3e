SPECIFICATION Spec
CONSTANTS
  t1 = t1
  t2 = t2
  c1 = c1
  NoRecord = NoRecord
  Tokens = {t1}
  Uploads = {u1, u2, u3}
  Revokes = {}
  Brief = {}
  Limit <- TwoUses
  CaseOf <- SameCase
  MaxOutages = 0
  MaxRestarts = 1
  Evictions = TRUE
SYMMETRY UploadSymmetry
INVARIANTS TypeOK UsesAreCounted NoAdmissionOnceSpent ExpiredStaysDead
PROPERTY LedgerSpec
CHECK_DEADLOCK FALSE
