SPECIFICATION FairSpec
CONSTANTS
  u1 = u1
  u2 = u2
  nobody = nobody
  Nobody = nobody
  Uploads = {u1}
  It = {}
  Text = {}
  Relayed = {u1}
  Incidents = {"redisRestart"}
  MaxKinds = 1
  MaxIncidents = 1
PROPERTY PendingIsIngested
CHECK_DEADLOCK FALSE
