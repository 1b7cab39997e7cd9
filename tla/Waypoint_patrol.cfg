SPECIFICATION Spec
CONSTANTS
  Runner = Runner
  Operator = Operator
  Goals = {Runner, Operator}
  NoGoal = NoGoal
  NavIds <- MCNavIds
  NoNav = NoNav
  MaxPoses = 2
  TaskOutcomes <- MCTaskOutcomes
  Poses = {p1, p2}
  NoPose = NoPose
  MaxClicks = 1
  MaxEstimates = 1
  EstimatePoses = {p2}
  AmclPoses = {p1}
  MaxDisturbances = 1
CHECK_DEADLOCK FALSE
INVARIANTS AloneNeverStuck
PROPERTIES GoalsKeepPromise StartIsLatestEstimate GoalsAnswered DeactivationReturns PatrolServes
