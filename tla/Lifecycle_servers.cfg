SPECIFICATION Spec
CONSTANTS
  controller_server = controller_server
  bt_navigator = bt_navigator
  waypoint_follower = waypoint_follower
  NodeNames <- MCNodeNames
  BondTimeouts = {0, 4}
  AttemptRespawn = TRUE
  MaxRespawnChecks = 1
  MaxCommands = 3
  MaxFaults = 3
CHECK_DEADLOCK FALSE
INVARIANTS ActiveMeansWatched NullOnlyAfterShutdown BringUpOrder
PROPERTIES RecoversWhenAllAlive
