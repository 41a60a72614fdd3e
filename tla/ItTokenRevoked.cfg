SPECIFICATION Spec
CONSTANTS
  t1 = t1
  t2 = t2
  c1 = c1
  NoRecord = NoRecord
  Tokens = {t1}
  Uploads = {u1, u2}
  Revokes = {r1}
  Brief = {}
  Limit <- TwoUses
  CaseOf <- SameCase
  MaxOutages = 0
  MaxRestarts = 0
  Evictions = FALSE
INVARIANT RevokedIsRefused
CHECK_DEADLOCK FALSE
