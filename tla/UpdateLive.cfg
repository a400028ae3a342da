CONSTANTS
  MaxRelease = 1
  MaxTime = 1
  SnoozeTime = 1
  RollingTag = RollingTag
  Null = Null
  Checks = {k1}
  Requests = {r1}
  Images <- LiveImages
  HostTypes = {"agent"}
SPECIFICATION FairTeamSpec
CHECK_DEADLOCK FALSE
PROPERTY OutdatedAlerts FlagConverges
