SPECIFICATION FairSpec
CONSTANTS
  u1 = u1
  u2 = u2
  nobody = nobody
  Nobody = nobody
  Uploads = {u1}
  It = {}
  Text = {u1}
  Relayed = {u1}
  Incidents = {"redisRestart", "workerCrash", "osOutage", "eviction", "lostReply", "repair", "portalCrash"}
  MaxKinds = 2
  MaxIncidents = 1
INVARIANTS
  PassesAreBounded
  JobHasItsFile
  ProcessingIsHeld
PROPERTIES
  LifecycleSpec
  JobsAreDrained
  AcceptedSettles
CHECK_DEADLOCK FALSE
