CONSTANTS
  MaxRelease = 2
  MaxTime = 1
  SnoozeTime = 1
  RollingTag = RollingTag
  Null = Null
  Checks = {k1, k2}
  Requests = {r1}
  Images <- EveryImage
  HostTypes = {"direct", "agent"}
SPECIFICATION TeamSpec
SYMMETRY CheckSymmetry
CHECK_DEADLOCK FALSE
INVARIANT TypeOK AckHolds LatestPair AlertNamesAChange
PROPERTY AckNotLost
