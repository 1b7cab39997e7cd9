--------------------------- MODULE NavSatTransform ---------------------------
(***************************************************************************)
(* robot_localization's navsat_transform node: it turns GPS fixes into      *)
(* odometry of the world frame.  One executor thread runs the callbacks of  *)
(* the odometry, fix and heading subscriptions, of the datum and setUTMZone *)
(* services and of the parameters, and a timer that first computes the      *)
(* transform and then publishes.                                            *)
(*                                                                         *)
(* The earth is a line.  A position is an integer, a heading is 1 (towards  *)
(* greater positions) or -1; a grid (a UTM zone, or a plane tangent at some *)
(* origin) subtracts its own base from a position; a rigid transform is     *)
(* x -> at + dir * x.                                                       *)
(***************************************************************************)
EXTENDS Integers

CONSTANTS
    Positions,          \* where fixes and datums may be
    OdomPoses,          \* positions the odometry reports in the world frame
    ZoneWidth,          \* positions per UTM zone
    ZoneReach,          \* zones on either side that a position can be converted to
    UseLocalCartesian,  \* use_local_cartesian_
    UseOdometryYaw,     \* use_odometry_yaw_
    PublishGps          \* publish_gps_

ASSUME EarthAssumption ==
    /\ Positions \subseteq Nat /\ OdomPoses \subseteq Int
    /\ ZoneWidth \in Nat \ {0} /\ ZoneReach \in Nat
ASSUME NavSatParameters ==
    UseLocalCartesian \in BOOLEAN /\ UseOdometryYaw \in BOOLEAN /\ PublishGps \in BOOLEAN

VARIABLES
    transform_good, has_transform_odom, has_transform_gps, has_transform_imu,
    use_manual_datum, manual_datum_geopose,
    force_user_utm, utm_zone,   \* utm_zone 0: not set yet, GeographicLib's UPS
    local_origin,               \* the origin of gps_local_cartesian_
    transform_cartesian_pose, transform_world_pose, transform_orientation,
    cartesian_world_transform,
    latest_cartesian_pose, gps_updated, odom_updated,
    imu_sub,                    \* the heading is subscribed to
    latest_fix                  \* history: the position latest_cartesian_pose is of

nvars == <<transform_good, has_transform_odom, has_transform_gps, has_transform_imu,
           use_manual_datum, manual_datum_geopose, force_user_utm, utm_zone, local_origin,
           transform_cartesian_pose, transform_world_pose, transform_orientation,
           cartesian_world_transform, latest_cartesian_pose,
           gps_updated, odom_updated, imu_sub, latest_fix>>
grid == <<utm_zone, local_origin>>
flags == <<transform_good, has_transform_odom, has_transform_gps, has_transform_imu>>
latest == <<latest_cartesian_pose, gps_updated, odom_updated, latest_fix>>
reference == <<transform_cartesian_pose, transform_world_pose, transform_orientation>>
-----------------------------------------------------------------------------
(* Geometry. *)

Headings == {1, -1}
Poses == [at : Int, dir : Headings]
Pose(x, d) == [at |-> x, dir |-> d]
Zero == Pose(0, 1)

Apply(t, x) == t.at + t.dir * x
Compose(t, u) == Pose(Apply(t, u.at), t.dir * u.dir)
Invert(t) == Pose(-t.dir * t.at, t.dir)

\* GeographicLib: the zone a position belongs to, and its coordinate in a grid.
\* A conversion to a UTM zone too far away throws, and so does one to UPS, the
\* zone before one is chosen; before an origin is chosen the local plane is
\* tangent at latitude and longitude 0.
StandardZone(p) == 1 + (p \div ZoneWidth)
NullIsland == 0
Base == IF UseLocalCartesian THEN local_origin ELSE 10 * utm_zone
Forward(p, base) == p - base
InZone(p, zone) == zone # 0 /\ zone - StandardZone(p) \in -ZoneReach .. ZoneReach
Converts(p, zone) == UseLocalCartesian \/ InZone(p, zone)

\* Where a fix is in the world frame a datum defines.
MapOf(datum, p) == datum.dir * (p - datum.at)
-----------------------------------------------------------------------------
(* The constructor.  wait_for_datum calls datumCallback with the datum, and  *)
(* the heading is subscribed to only if it can be needed.                    *)
NavSatStart(wait_for_datum, datum) ==
    /\ transform_good' = FALSE
    /\ has_transform_odom' = FALSE /\ has_transform_gps' = FALSE /\ has_transform_imu' = FALSE
    /\ use_manual_datum' = wait_for_datum
    /\ manual_datum_geopose' = IF wait_for_datum THEN datum ELSE Zero
    /\ force_user_utm' = FALSE /\ utm_zone' = 0 /\ local_origin' = NullIsland
    /\ transform_cartesian_pose' = 0
    /\ transform_world_pose' = Zero /\ transform_orientation' = 1
    /\ cartesian_world_transform' = Zero
    /\ latest_cartesian_pose' = 0
    /\ gps_updated' = FALSE /\ odom_updated' = FALSE
    /\ imu_sub' = (~UseOdometryYaw /\ ~wait_for_datum)
    /\ latest_fix' = 0

\* setTransformGps: the fix becomes the origin of the local plane, or chooses
\* the UTM zone unless the user has; a position that the user's zone does not
\* reach leaves everything as it was.
ZoneFor(p) == IF force_user_utm THEN utm_zone ELSE StandardZone(p)
setTransformGps(p) ==
    IF Converts(p, ZoneFor(p))
    THEN /\ local_origin' = IF UseLocalCartesian THEN p ELSE local_origin
         /\ utm_zone' = IF UseLocalCartesian THEN utm_zone ELSE ZoneFor(p)
         /\ transform_cartesian_pose' = Forward(p, Base')
         /\ has_transform_gps' = TRUE
    ELSE UNCHANGED <<grid, transform_cartesian_pose, has_transform_gps>>

\* imuCallback while it still takes headings; can_transform: the heading's
\* frame is known.  Nothing can be known before odometry names the base frame.
TakesHeading == ~transform_good \/ UseOdometryYaw \/ use_manual_datum
imuCallback(yaw, can_transform) ==
    /\ imu_sub
    /\ IF TakesHeading /\ has_transform_odom
       THEN /\ transform_orientation' = yaw
            /\ has_transform_imu' = (has_transform_imu \/ can_transform)
       ELSE UNCHANGED <<transform_orientation, has_transform_imu>>
    /\ UNCHANGED <<transform_good, has_transform_odom, has_transform_gps, use_manual_datum,
                   manual_datum_geopose, force_user_utm, grid, transform_cartesian_pose,
                   transform_world_pose, cartesian_world_transform, latest, imu_sub>>

\* odomCallback: the reference pose until the transform is good (with its yaw
\* as the heading under use_odometry_yaw), and the latest pose, which only the
\* filtered fix shows.
odomCallback(pose) ==
    /\ IF transform_good
       THEN UNCHANGED <<transform_world_pose, has_transform_odom, transform_orientation,
                        has_transform_imu>>
       ELSE /\ transform_world_pose' = pose
            /\ has_transform_odom' = TRUE
            /\ IF UseOdometryYaw /\ ~use_manual_datum
               THEN transform_orientation' = pose.dir /\ has_transform_imu' = TRUE
               ELSE UNCHANGED <<transform_orientation, has_transform_imu>>
    /\ odom_updated' = TRUE
    /\ UNCHANGED <<transform_good, has_transform_gps, use_manual_datum, manual_datum_geopose,
                   force_user_utm, grid, transform_cartesian_pose, cartesian_world_transform,
                   latest_cartesian_pose, gps_updated, imu_sub, latest_fix>>

\* gpsFixCallback for a usable fix: the reference until the transform is good,
\* and the latest fix, projected into the grid of this moment; a conversion
\* that throws drops it.
gpsFixCallback(p) ==
    /\ IF ~transform_good /\ ~use_manual_datum
       THEN setTransformGps(p)
       ELSE UNCHANGED <<grid, transform_cartesian_pose, has_transform_gps>>
    /\ IF Converts(p, utm_zone')
       THEN /\ latest_cartesian_pose' = Forward(p, Base')
            /\ gps_updated' = TRUE
            /\ latest_fix' = p
       ELSE UNCHANGED <<latest_cartesian_pose, gps_updated, latest_fix>>
    /\ UNCHANGED <<transform_good, has_transform_odom, has_transform_imu, use_manual_datum,
                   manual_datum_geopose, force_user_utm, transform_world_pose,
                   transform_orientation, cartesian_world_transform, odom_updated, imu_sub>>

\* The datum service: from now on a datum is used, and the transform is
\* computed again.
datumCallback(datum) ==
    /\ manual_datum_geopose' = datum
    /\ use_manual_datum' = TRUE
    /\ transform_good' = FALSE
    /\ UNCHANGED <<has_transform_odom, has_transform_gps, has_transform_imu, force_user_utm,
                   grid, reference, cartesian_world_transform, latest, imu_sub>>

\* The setUTMZone service: the zone is kept, the datum is not.
setUTMZoneCallback(zone) ==
    /\ utm_zone' = zone
    /\ force_user_utm' = TRUE
    /\ use_manual_datum' = FALSE
    /\ transform_good' = FALSE
    /\ has_transform_gps' = FALSE
    /\ UNCHANGED <<has_transform_odom, has_transform_imu, manual_datum_geopose, local_origin,
                   reference, cartesian_world_transform, latest, imu_sub>>

\* A new magnetic declination: the transform is computed again.
parametersCallback ==
    /\ transform_good' = FALSE
    /\ UNCHANGED <<has_transform_odom, has_transform_gps, has_transform_imu, use_manual_datum,
                   manual_datum_geopose, force_user_utm, grid, reference,
                   cartesian_world_transform, latest, imu_sub>>
-----------------------------------------------------------------------------
(* The timer. *)

\* Mutant: the odometry pose of the moment is kept as the reference.
setManualDatumAtOdometry ==
    /\ setTransformGps(manual_datum_geopose.at)
    /\ UNCHANGED transform_world_pose
    /\ transform_orientation' = manual_datum_geopose.dir
    /\ has_transform_imu' = TRUE

\* Mutant: the datum's heading is not taken.
setManualDatumNoHeading ==
    /\ setTransformGps(manual_datum_geopose.at)
    /\ transform_world_pose' = Zero
    /\ UNCHANGED <<transform_orientation, has_transform_imu>>

\* setManualDatum: the datum stands in for the fix and the heading, and the
\* origin of the world frame for the odometry.
setManualDatum ==
    /\ setTransformGps(manual_datum_geopose.at)
    /\ transform_world_pose' = Zero
    /\ transform_orientation' = manual_datum_geopose.dir
    /\ has_transform_imu' = TRUE

\* computeTransform: the datum first, then the transform if everything is there.
computeTransform ==
    /\ ~transform_good
    /\ IF has_transform_odom /\ use_manual_datum
       THEN setManualDatum
       ELSE UNCHANGED <<grid, reference, has_transform_gps, has_transform_imu>>
    /\ IF has_transform_odom /\ has_transform_gps' /\ has_transform_imu'
       THEN /\ transform_good' = TRUE
            /\ cartesian_world_transform' =
                  Compose(transform_world_pose',
                          Invert(Pose(transform_cartesian_pose', transform_orientation')))
       ELSE UNCHANGED <<transform_good, cartesian_world_transform>>
    /\ UNCHANGED <<has_transform_odom, use_manual_datum, manual_datum_geopose, force_user_utm,
                   latest, imu_sub>>

\* getRobotOriginWorldPose with the receiver at the robot's origin: without the
\* transform from the world frame to the robot the result is the identity.
getRobotOriginWorldPose(x, can_transform) == IF can_transform THEN x ELSE 0

\* prepareGpsOdometry has something to say, and what.
GpsOdometryReady == transform_good /\ gps_updated /\ odom_updated
GpsOdometry(can_transform) ==
    getRobotOriginWorldPose(Apply(cartesian_world_transform, latest_cartesian_pose), can_transform)

\* transformCallback with a good transform: the GPS odometry, and then the
\* filtered fix, which uses up the odometry.
publishGps ==
    /\ transform_good
    /\ gps_updated' = (gps_updated /\ ~odom_updated)
    /\ odom_updated' = (odom_updated /\ ~PublishGps)
    /\ UNCHANGED <<flags, use_manual_datum, manual_datum_geopose, force_user_utm, grid, reference,
                   cartesian_world_transform, latest_cartesian_pose, imu_sub, latest_fix>>
-----------------------------------------------------------------------------
NavSatTypeOK ==
    /\ flags \in BOOLEAN \X BOOLEAN \X BOOLEAN \X BOOLEAN
    /\ use_manual_datum \in BOOLEAN /\ manual_datum_geopose \in Poses
    /\ force_user_utm \in BOOLEAN /\ utm_zone \in Nat /\ local_origin \in Int
    /\ transform_cartesian_pose \in Int /\ transform_world_pose \in Poses
    /\ transform_orientation \in Headings
    /\ cartesian_world_transform \in Poses
    /\ latest_cartesian_pose \in Int
    /\ gps_updated \in BOOLEAN /\ odom_updated \in BOOLEAN
    /\ imu_sub \in BOOLEAN /\ latest_fix \in Int
=============================================================================
