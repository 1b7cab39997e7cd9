\* A vehicle at half the speed limit, three ticks, one step of the lidar's clock.
CONSTANTS
    Positions <- MCPositions
    Turn = 4
    max_linear_speed = 2
    max_position_step = 1
    max_yaw_rate = 1
    VehicleSpeed = 1
    VehicleYawRate = 0
    restamp_to_now = FALSE
    estimate_twist_from_pose = TRUE
    reject_kinematic_outliers = TRUE
    MaxTime = 3
    MaxSteps = 1
SPECIFICATION Spec
INVARIANTS DriftBounded ValidIsAccepted TwistWithinLimits
