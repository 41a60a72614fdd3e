SPECIFICATION Spec
CONSTANTS
  i1 = i1
  t1 = t1
  e1 = e1
  Iocs = {i1, t1}
  Seeds = {t1}
  Observables = {i1}
  Events = {e1}
  Carries <- Carried
  Target = {e1}
  Window = 3
  HitLimit = 1
  Sample = 1
  MaxSyncs = 2
  MaxScripts = 1
  MaxFaults = 1
INVARIANTS
  TypeOK
  MatchIsGenuine
  MissIsExplained
  UnifiedFollows
  PassLeavesNone
CHECK_DEADLOCK FALSE
