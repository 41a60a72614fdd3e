SPECIFICATION FairSpec
CONSTANTS
  f = f
  g = g
  r = r
  c = c
  d = d
  Files = {f}
  Reports = {}
  Cases = {c, d}
  CaseOf <- OneCase
  Evtx = {f}
  Short = {}
  Rowless = {}
  Plaso = TRUE
  Worker = Worker
  Retries = 2
  PageSize = 1
  MaxFaults = 1
  MaxRepairs = 2
INVARIANTS
  OkIsBacked
PROPERTIES
  ImportsAdvance
  ImportsEnd
CHECK_DEADLOCK FALSE
