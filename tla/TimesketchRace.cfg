SPECIFICATION Spec
CONSTANTS
  f = f
  g = g
  r = r
  c = c
  d = d
  Files = {f, g}
  Reports = {r}
  Cases = {c, d}
  CaseOf <- TwoCases
  Evtx = {f, g}
  Short = {}
  Rowless = {g}
  Plaso = TRUE
  Worker = Worker
  Retries = 2
  PageSize = 1
  MaxFaults = 1
  MaxRepairs = 0
INVARIANTS
  TypeOK
  SketchPerCase
  OneTimelinePerFile
  OkIsBacked
  BadIsExplained
CHECK_DEADLOCK FALSE
