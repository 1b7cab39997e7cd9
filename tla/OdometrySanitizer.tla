------------------------- MODULE OdometrySanitizer -------------------------
(***************************************************************************)
(* odometry_sanitizer.py: FAST-LIO's odometry on its way to the EKFs.  Each  *)
(* message gets a twist estimated from the last input pose, and is dropped   *)
(* when it cannot be reached from the last published pose at the vehicle's   *)
(* speed.  The environment is a vehicle that keeps to its own speed, an      *)
(* odometry that is right or shows any pose at all, several times in one     *)
(* instant or not for a while, and a lidar clock that may step back.         *)
(*                                                                         *)
(* A pose is a position on a line and a yaw; one unit of time is more than   *)
(* the 0.1 ms below which two stamps count as equal.  Covariances, frames    *)
(* and the message counters only pass through.                               *)
(***************************************************************************)
EXTENDS Integers

CONSTANTS
    Positions,       \* the positions on the line, a finite set of integers
    Turn,            \* units of yaw in a full turn
    max_linear_speed, max_position_step, max_yaw_rate,
    VehicleSpeed, VehicleYawRate,  \* what the vehicle can really do
    restamp_to_now, estimate_twist_from_pose, reject_kinematic_outliers,
    MaxTime,         \* bound: the clock
    MaxSteps         \* bound: steps back of the lidar's clock

ASSUME SanitizerAssumption ==
    /\ Positions \subseteq Int /\ Positions # {}
    /\ Turn \in Nat \ {0}
    /\ max_linear_speed \in Nat /\ max_position_step \in Nat /\ max_yaw_rate \in Nat
    /\ VehicleSpeed \in 0 .. max_linear_speed /\ VehicleYawRate \in 0 .. max_yaw_rate
    /\ restamp_to_now \in BOOLEAN /\ estimate_twist_from_pose \in BOOLEAN
    /\ reject_kinematic_outliers \in BOOLEAN
    /\ MaxTime \in Nat \ {0} /\ MaxSteps \in Nat

VARIABLES
    now,              \* the node's clock
    behind,           \* how far the lidar's clock is behind it
    vehicle,          \* the pose of the vehicle
    last_input,       \* last_input_pose and last_input_time, or None
    last_published,   \* last_published_pose and last_published_time, or None
    first,            \* history: the first message published since the stamps last went back
    shown,            \* history: where the vehicle was when last_published was
    stepped,          \* history: the lidar's clock has stepped since, or did not stamp it
    clean             \* history: the last message was later than the others, and published

vars == <<now, behind, vehicle, last_input, last_published, first, shown, stepped, clean>>

Poses == [x : Positions, yaw : 0 .. Turn - 1]
None == [time |-> -1]
Abs(n) == IF n < 0 THEN -n ELSE n
Distance(p, q) == Abs(p.x - q.x)
\* normalize_angle: the turn from q to p, at most half a turn either way.
normalize_angle(a) == LET r == a % Turn IN IF 2 * r > Turn THEN r - Turn ELSE r
Turned(p, q) == Abs(normalize_angle(p.yaw - q.yaw))
-----------------------------------------------------------------------------
\* A message without a stamp counts as stamped now.
_stamp_seconds(stamp) == IF stamp > 0 THEN stamp ELSE now

\* The stamp of the message sent on, which restamp_to_now replaces.
Stamp == _stamp_seconds(IF restamp_to_now THEN now ELSE now - behind)

\* The twist is estimated from the last input, whatever becomes of it; a
\* message that is not later leaves the last input alone and keeps its twist.
Estimates(t) == estimate_twist_from_pose /\ last_input # None /\ t > last_input.time

\* Mutant: the estimate is always from the first input.
_estimate_from_first(p, t) == last_input' = IF last_input = None THEN [pose |-> p, time |-> t] ELSE last_input

_estimate_twist_from_pose(p, t) ==
    last_input' = IF estimate_twist_from_pose /\ (last_input = None \/ Estimates(t))
                  THEN [pose |-> p, time |-> t]
                  ELSE last_input

\* Mutant: the step limit holds for any gap.
_is_kinematic_outlier_by_step(p, t) ==
    /\ last_published # None
    /\ Distance(p, last_published.pose) > max_position_step

_is_kinematic_outlier(p, t) ==
    /\ reject_kinematic_outliers
    /\ last_published # None
    /\ LET dt == t - last_published.time
           distance == Distance(p, last_published.pose)
           allowed == max_linear_speed * dt
       IN /\ dt > 0
          /\ \/ distance > (IF max_position_step > allowed THEN max_position_step ELSE allowed)
             \/ distance > allowed
             \/ Turned(p, last_published.pose) > max_yaw_rate * dt

\* Mutant: a message that is dropped becomes the reference too.
RememberAnyway(p, t, published) == last_published' = [pose |-> p, time |-> t]

Remember(p, t, published) ==
    last_published' = IF published THEN [pose |-> p, time |-> t] ELSE last_published

_callback(p) ==
    LET t == Stamp
        published == ~_is_kinematic_outlier(p, t)
        later == last_published = None \/ t > last_published.time
    IN /\ _estimate_twist_from_pose(p, t)
       /\ Remember(p, t, published)
       /\ first' = IF published /\ (first = None \/ ~later) THEN [pose |-> p, time |-> t] ELSE first
       /\ shown' = IF published THEN vehicle ELSE shown
       /\ stepped' = IF published THEN now <= behind ELSE stepped
       /\ clean' = (published /\ (last_input = None \/ t > last_input.time))
       /\ UNCHANGED <<now, behind, vehicle>>
-----------------------------------------------------------------------------
(* The environment. *)

\* Time passes and the vehicle moves, no faster than it can.
Drive(p) ==
    /\ now < MaxTime
    /\ Distance(p, vehicle) <= VehicleSpeed /\ Turned(p, vehicle) <= VehicleYawRate
    /\ now' = now + 1
    /\ vehicle' = p
    /\ UNCHANGED <<behind, last_input, last_published, first, shown, stepped, clean>>

\* The lidar's clock steps back, at most to before its start.
ClockSteps(by) ==
    /\ behind < MaxSteps
    /\ behind' = behind + by
    /\ stepped' = TRUE
    /\ UNCHANGED <<now, vehicle, last_input, last_published, first, shown, clean>>

Init ==
    /\ now = 1 /\ behind = 0
    /\ vehicle \in Poses
    /\ last_input = None /\ last_published = None /\ first = None
    /\ shown = vehicle /\ stepped = FALSE /\ clean = FALSE

Next ==
    \/ \E p \in Poses : _callback(p) \/ Drive(p)
    \/ \E by \in 1 .. MaxSteps - behind : ClockSteps(by)

Spec == Init /\ [][Next]_vars
-----------------------------------------------------------------------------
Messages == [pose : Poses, time : 1 .. MaxTime] \cup {None}

TypeOK ==
    /\ now \in 1 .. MaxTime /\ behind \in 0 .. MaxSteps
    /\ vehicle \in Poses /\ shown \in Poses
    /\ last_input \in Messages /\ last_published \in Messages /\ first \in Messages
    /\ stepped \in BOOLEAN /\ clean \in BOOLEAN

\* What is published is a motion the vehicle limits allow, not only from one
\* message to the next: however many messages were dropped or lost in between,
\* it strays from where it began no faster than max_linear_speed, until a
\* message with an older or an equal stamp gets through unchecked.
DriftBounded ==
    reject_kinematic_outliers /\ first # None =>
        Distance(last_published.pose, first.pose)
            <= max_linear_speed * (last_published.time - first.time)

\* Right odometry is not rejected for ever: it is accepted as soon as the gap
\* outgrows the error of the last message published, at once when that was
\* right, even if the messages since were all dropped (the comment at the step
\* limit: "judge longer gaps by speed or we can get stuck rejecting valid
\* odom").  Excepted is a step of the lidar's clock since then, or a message
\* without a stamp.
ValidIsAccepted ==
    LET gap == Stamp - last_published.time
    IN last_published # None /\ (restamp_to_now \/ ~stepped)
       /\ Distance(last_published.pose, shown) <= (max_linear_speed - VehicleSpeed) * gap
       /\ Turned(last_published.pose, shown) <= (max_yaw_rate - VehicleYawRate) * gap
       => ~_is_kinematic_outlier(vehicle, Stamp)

\* A published message has a twist within max_linear_speed, when the message
\* before it was published and neither repeated a stamp: the pose it is
\* estimated from is the pose it is judged against.
TwistWithinLimits ==
    reject_kinematic_outliers /\ clean /\ Estimates(Stamp) =>
        \A p \in Poses : ~_is_kinematic_outlier(p, Stamp) =>
            Distance(p, last_input.pose) <= max_linear_speed * (Stamp - last_input.time)
=============================================================================
