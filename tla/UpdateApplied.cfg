CONSTANTS
  MaxRelease = 1
  MaxTime = 1
  SnoozeTime = 1
  RollingTag = RollingTag
  Null = Null
  Checks = {k1}
  Requests = {r1}
  Images <- AppliedImages
  HostTypes = {"agent"}
SPECIFICATION AppliedSpec
CHECK_DEADLOCK FALSE
INVARIANT NoFurtherAlerts
