SPECIFICATION Spec
CONSTANTS
  Positions <- MCPositions
  OdomPoses <- MCOdomPoses
  ZoneWidth = 2
  ZoneReach = 1
  Zones <- MCZones
  UseLocalCartesian = FALSE
  UseOdometryYaw = FALSE
  PublishGps = TRUE
  Overwrite = TRUE
  MaxLaunches = 2
  MaxCommands = 1
CHECK_DEADLOCK FALSE
INVARIANTS SmoothedWithoutTransform
