SPECIFICATION Spec
CONSTANTS
  Clouds <- MCClouds
  TimeSyncEn = FALSE
  TimeDiffLidarToImu = 0
  SyncGap = 2
  SyncLead = 1
  MaxIniCount = 1
  Uninitialized = {0}
  Period = 1
  ImuPeriod = 1
  MaxTime = 4
  MaxScans = 3
  MaxImus = 3
  MaxLoopBacks = 1
CHECK_DEADLOCK FALSE
INVARIANT GroupHoldsItsStamp
