SPECIFICATION Spec
CONSTANTS
  Topics = {odom0, odom1}
  Differential = {}
  SmoothLaggedData = TRUE
  HistoryLength = 2
  PredictSettings = {FALSE}
  SensorTimeout = 2
  UseControl = TRUE
  DisabledAtStartup = FALSE
  PermitCorrected = FALSE
  Skew = 0
  MaxTime = 4
  MaxMeasurements = 4
  MaxCommands = 3
SYMMETRY TopicSymmetry
CHECK_DEADLOCK FALSE
INVARIANTS NoMeasurementLost SmoothedInOrder SetPoseIsolates HistoryPrecedesQueue
PROPERTIES PublishedStampsIncrease
