SPECIFICATION FairSpec
CONSTANTS
  t1 = t1
  t2 = t2
  c1 = c1
  NoRecord = NoRecord
  Tokens = {t1}
  Uploads = {u1, u2}
  Revokes = {r1}
  Brief = {t1}
  Limit <- TwoUses
  CaseOf <- SameCase
  MaxOutages = 1
  MaxRestarts = 0
  Evictions = TRUE
INVARIANTS
  UsableTokenIsListed
PROPERTY RevokedEventuallyDead
CHECK_DEADLOCK FALSE
