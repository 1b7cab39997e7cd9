SPECIFICATION Spec
CONSTANTS
  Clouds <- MCClouds
  TimeSyncEn = FALSE
  TimeDiffLidarToImu = 0
  SyncGap = 2
  SyncLead = 1
  MaxIniCount = 1
  Uninitialized = {0}
  Period = 1
  ImuPeriod = 1
  MaxTime = 6
  MaxScans = 5
  MaxImus = 5
  MaxLoopBacks = 0
CHECK_DEADLOCK FALSE
INVARIANTS ImuSplitAtScanEnd PropagatedToScanEnd
PROPERTIES OdometryStampsMonotone ScansAreTaken
