SPECIFICATION Spec
CONSTANTS
  Topics = {odom0, odom1}
  Differential = {}
  SmoothLaggedData = TRUE
  HistoryLength = 2
  PredictSettings = {FALSE}
  SensorTimeout = 2
  UseControl = FALSE
  DisabledAtStartup = FALSE
  PermitCorrected = FALSE
  Skew = 0
  MaxTime = 4
  MaxMeasurements = 4
  MaxCommands = 2
SYMMETRY TopicSymmetry
CHECK_DEADLOCK FALSE
INVARIANTS AllMeasurementsFused
