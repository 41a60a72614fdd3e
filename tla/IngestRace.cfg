SPECIFICATION Spec
CONSTANTS
  u1 = u1
  u2 = u2
  nobody = nobody
  Nobody = nobody
  Uploads = {u1, u2}
  It = {u1}
  Text = {u2}
  Relayed = {u2}
  Incidents = {"portalCrash", "lostReply", "repair"}
  MaxKinds = 1
  MaxIncidents = 1
INVARIANTS
  TypeOK
  PassesAreBounded
  QueuedIsAccounted
PROPERTY LifecycleSpec
CHECK_DEADLOCK FALSE
