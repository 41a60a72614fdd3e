SPECIFICATION FairSpec
CONSTANTS
  a = a
  s1 = s1
  s2 = s2
  Indices = {a}
  Dotted = {}
  Uuid = {a}
  Shards = {s1, s2}
  MaxIncidents = 3
  MaxFaults = 2
INVARIANTS
  TypeOK
  ExitIsSound
PROPERTIES
  DeletedWasLost
  ReplicasGivenUpLate
  RunEnds
CHECK_DEADLOCK FALSE
