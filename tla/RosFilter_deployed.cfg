SPECIFICATION Spec
CONSTANTS
  Topics = {odom0, odom1}
  Differential = {odom0}
  SmoothLaggedData = FALSE
  HistoryLength = 2
  PredictSettings = {TRUE, FALSE}
  SensorTimeout = 2
  UseControl = TRUE
  DisabledAtStartup = FALSE
  PermitCorrected = FALSE
  Skew = 1
  MaxTime = 3
  MaxMeasurements = 3
  MaxCommands = 3
CHECK_DEADLOCK FALSE
INVARIANTS TypeOK NotAheadOfClock
PROPERTIES DifferentialCovers NewOutputByTimeout QueueDrains
