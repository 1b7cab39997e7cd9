--------------------------- MODULE RtkLocalization ---------------------------
(***************************************************************************)
(* The RTK path of rtk_global_localization: receiver -> navsat_fix_sanitizer *)
(* -> navsat_transform -> odometry_low_pass_filter -> global EKF, and the    *)
(* map origin that ties sessions together.  A mapping session records the    *)
(* origin into a file (map_origin_recorder, start_filters:=false); a         *)
(* navigation session is launched with the origin in the file as             *)
(* navsat_transform's datum and smooths its output; a free session has no    *)
(* fixed origin.  A session may end, or the machine may go down, between     *)
(* any two steps.                                                            *)
(***************************************************************************)
EXTENDS NavSatTransform, FiniteSets

CONSTANTS
    Overwrite,    \* the recorder's overwrite parameter
    Zones,        \* UTM zones the setUTMZone service may be called with
    MaxLaunches,  \* bound: sessions
    MaxCommands   \* bound: service calls and parameter changes per session

ASSUME RtkAssumption ==
    /\ Overwrite \in BOOLEAN /\ Zones \subseteq Nat
    /\ MaxLaunches \in Nat /\ MaxCommands \in Nat

VARIABLES
    session,      \* "off", "mapping", "navigation" or "free"
    file,         \* map_origin.yaml: missing, truncated, or an origin
    latest_yaw,   \* the recorder's latest_yaw; 0: None
    heard,        \* the position of the recorder's latest_fix; {}: None
    recorded,     \* the recorder's recorded
    writing,      \* the content between open("w"), which truncates, and close
    tf,           \* the transform from the world frame to the robot is known
    mixed,        \* the GPS odometry the low-pass state is a weighted mean of
    sent,         \* history: positions of the usable fixes of this session
    blind,        \* history: a GPS odometry was published without tf
    launches, commands

rvars == <<session, file, latest_yaw, heard, recorded, writing, tf, mixed, sent, blind,
           launches, commands>>
vars == <<nvars, rvars>>

NoFile == [content |-> "missing"]
Truncated == [content |-> "nothing"]
Origins == [at : Positions, dir : Headings]
Nothing == [content |-> "none"]

Sessions == {"mapping", "navigation", "free"}
\* navsat_transform and the EKFs run.
Filters == session \in {"navigation", "free"}
-----------------------------------------------------------------------------
(* navsat_fix_sanitizer. *)

\* What the receiver may send: a position, the zero position of a receiver
\* without one, or a message without a fix or with a value that is not finite.
RawFixes == [pos : Positions, kind : {"fix", "no_fix", "not_finite"}]
            \cup {[pos |-> NullIsland, kind |-> "zero"]}

\* Mutant: the zero position is let through.
_valid_fix_or_zero(raw) == raw.kind \notin {"not_finite", "no_fix"}

_valid_fix(raw) == raw.kind \notin {"not_finite", "zero", "no_fix"}

\* The sanitized fix reaches navsat_transform.
Fix(raw) ==
    /\ Filters
    /\ _valid_fix(raw)
    /\ gpsFixCallback(raw.pos)
    /\ sent' = IF raw.kind = "fix" THEN sent \cup {raw.pos} ELSE sent
    /\ UNCHANGED <<session, file, latest_yaw, heard, recorded, writing, tf, mixed, blind, launches, commands>>
-----------------------------------------------------------------------------
(* navsat_transform and what it reads. *)

Odom(pose) ==
    /\ Filters
    /\ odomCallback(pose)
    /\ UNCHANGED rvars

Heading(yaw, can_transform) ==
    /\ Filters
    /\ imuCallback(yaw, can_transform)
    /\ UNCHANGED <<latest_fix, rvars>>

\* The EKFs have broadcast the transforms from the world frame to the robot.
TransformKnown ==
    /\ Filters /\ ~tf
    /\ tf' = TRUE
    /\ UNCHANGED <<nvars, session, file, latest_yaw, heard, recorded, writing, mixed, sent, blind,
                   launches, commands>>

Command ==
    /\ Filters /\ commands < MaxCommands
    /\ commands' = commands + 1
    /\ \/ \E datum \in Origins : datumCallback(datum)
       \/ \E zone \in Zones : setUTMZoneCallback(zone)
       \/ parametersCallback
    /\ UNCHANGED <<session, file, latest_yaw, heard, recorded, writing, tf, mixed, sent, blind, launches>>

\* The low-pass filter: the first position as it is, then a weighted mean of
\* the state and the new position; it is never reset.
LowPass(x) == mixed' = IF session = "navigation" THEN mixed \cup {x} ELSE mixed

\* transformCallback, and the low-pass filter's callback for what it publishes.
Timer ==
    /\ Filters
    /\ \/ computeTransform /\ UNCHANGED <<mixed, blind>>
       \/ /\ publishGps
          /\ IF GpsOdometryReady
             THEN LowPass(GpsOdometry(tf)) /\ blind' = (blind \/ ~tf)
             ELSE UNCHANGED <<mixed, blind>>
    /\ UNCHANGED <<session, file, latest_yaw, heard, recorded, writing, tf, sent, launches, commands>>
-----------------------------------------------------------------------------
(* map_origin_recorder, in a mapping session. *)

Recording == session = "mapping" /\ ~recorded /\ writing = Nothing

\* _try_record with a fix and a heading at hand: an existing file is left alone
\* unless overwrite is set; otherwise it is truncated first.  The heading is
\* required (require_heading).
_try_record(fixes, yaw) ==
    IF fixes = {} \/ yaw = 0
    THEN UNCHANGED <<file, writing, recorded>>
    ELSE IF file # NoFile /\ ~Overwrite
    THEN recorded' = TRUE /\ UNCHANGED <<file, writing>>
    ELSE /\ file' = Truncated
         /\ \E p \in fixes : writing' = Pose(p, yaw)
         /\ UNCHANGED recorded

_heading_callback(yaw) ==
    /\ Recording
    /\ latest_yaw' = yaw
    /\ _try_record(heard, yaw)
    /\ UNCHANGED <<nvars, session, heard, tf, mixed, sent, blind, launches, commands>>

\* The recorder listens to the sanitized fixes.
_fix_callback(raw) ==
    /\ Recording
    /\ _valid_fix(raw)
    /\ heard' = {raw.pos}
    /\ _try_record({raw.pos}, latest_yaw)
    /\ UNCHANGED <<nvars, session, latest_yaw, tf, mixed, sent, blind, launches, commands>>

WriteOrigin ==
    /\ writing # Nothing
    /\ file' = writing
    /\ writing' = Nothing
    /\ recorded' = TRUE
    /\ UNCHANGED <<nvars, session, latest_yaw, heard, tf, mixed, sent, blind, launches, commands>>
-----------------------------------------------------------------------------
(* Sessions. *)

\* The launch file passes the origin as the datum; without a file, or without
\* the keys in it, a navigation session does not start.
Launch(kind) ==
    /\ session = "off" /\ launches < MaxLaunches
    /\ kind = "navigation" => file \in Origins
    /\ session' = kind
    /\ NavSatStart(kind = "navigation", file)
    /\ latest_yaw' = 0 /\ heard' = {} /\ recorded' = FALSE /\ writing' = Nothing
    /\ tf' = FALSE /\ mixed' = {} /\ sent' = {} /\ blind' = FALSE
    /\ launches' = launches + 1 /\ commands' = 0
    /\ UNCHANGED file

\* Everything stops, whatever it is doing; only the file is left.
Stop ==
    /\ session # "off"
    /\ session' = "off"
    /\ NavSatStart(FALSE, Zero)
    /\ latest_yaw' = 0 /\ heard' = {} /\ recorded' = FALSE /\ writing' = Nothing
    /\ tf' = FALSE /\ mixed' = {} /\ sent' = {} /\ blind' = FALSE /\ commands' = 0
    /\ UNCHANGED <<file, launches>>

Init ==
    /\ session = "off" /\ file = NoFile
    /\ latest_yaw = 0 /\ heard = {} /\ recorded = FALSE /\ writing = Nothing
    /\ tf = FALSE /\ mixed = {} /\ sent = {} /\ blind = FALSE
    /\ launches = 0 /\ commands = 0
    /\ transform_good = FALSE
    /\ has_transform_odom = FALSE /\ has_transform_gps = FALSE /\ has_transform_imu = FALSE
    /\ use_manual_datum = FALSE /\ manual_datum_geopose = Zero
    /\ force_user_utm = FALSE /\ utm_zone = 0 /\ local_origin = NullIsland
    /\ transform_cartesian_pose = 0
    /\ transform_world_pose = Zero /\ transform_orientation = 1
    /\ cartesian_world_transform = Zero
    /\ latest_cartesian_pose = 0 /\ gps_updated = FALSE /\ odom_updated = FALSE
    /\ imu_sub = (~UseOdometryYaw) /\ latest_fix = 0

Next ==
    \/ \E raw \in RawFixes : Fix(raw) \/ _fix_callback(raw)
    \/ \E x \in OdomPoses, d \in Headings : Odom(Pose(x, d))
    \/ \E yaw \in Headings, can \in BOOLEAN : Heading(yaw, can)
    \/ \E yaw \in Headings : _heading_callback(yaw)
    \/ TransformKnown
    \/ Command
    \/ Timer
    \/ WriteOrigin
    \/ \E kind \in Sessions : Launch(kind)
    \/ Stop

\* The sensors and the filters keep sending, and the timer fires.
Spec == /\ Init /\ [][Next]_vars
        /\ WF_vars(\E raw \in RawFixes : Fix(raw))
        /\ WF_vars(\E x \in OdomPoses, d \in Headings : Odom(Pose(x, d)))
        /\ WF_vars(\E yaw \in Headings : Heading(yaw, TRUE))
        /\ WF_vars(Timer)
-----------------------------------------------------------------------------
(* Properties. *)

TypeOK ==
    /\ NavSatTypeOK
    /\ session \in Sessions \cup {"off"}
    /\ file \in {NoFile, Truncated} \cup Origins
    /\ latest_yaw \in Headings \cup {0} /\ heard \in SUBSET Positions /\ recorded \in BOOLEAN
    /\ writing \in {Nothing} \cup Origins
    /\ tf \in BOOLEAN /\ blind \in BOOLEAN
    /\ mixed \in SUBSET Int /\ sent \in SUBSET Positions
    /\ launches \in 0 .. MaxLaunches /\ commands \in 0 .. MaxCommands

\* While a datum is in force, what prepareGpsOdometry makes of the latest fix
\* is the fix's position relative to that datum, whatever was computed before
\* the datum was set, provided the fix was projected into the grid in force and
\* the datum converts to it.  A datum that the user's zone does not reach leaves
\* the position of the former reference in a transform declared good.
DatumInForce ==
    /\ transform_good /\ use_manual_datum
    /\ Converts(manual_datum_geopose.at, utm_zone)
    /\ latest_cartesian_pose = Forward(latest_fix, Base)
    => Apply(cartesian_world_transform, latest_cartesian_pose) = MapOf(manual_datum_geopose, latest_fix)

\* Wherever the vehicle is when a navigation session starts, the smoothed GPS
\* position is made of positions on the recorded map, of fixes of this
\* session and of nothing else, as long as nobody replaces the datum and the
\* robot's transform is known when the GPS odometry is published.  It is about
\* UTM grids (use_local_cartesian: false, navsat_transform.yaml:14).
SmoothedOnMap ==
    session = "navigation" /\ commands = 0 /\ ~blind
    => mixed \subseteq {MapOf(file, p) : p \in sent}

\* The message of getRobotOriginWorldPose, "Will not remove offset of navsat
\* device from robot's origin": without the transform the position is still
\* that of the receiver.
SmoothedWithoutTransform ==
    session = "navigation" /\ commands = 0
    => mixed \subseteq {MapOf(file, p) : p \in sent}

\* A heading for the transform is at hand or can still come.  It cannot after
\* setUTMZone has cancelled a datum before the timer took its heading.
HeadingComes == use_manual_datum \/ has_transform_imu \/ imu_sub \/ UseOdometryYaw

\* A position for it is at hand or can still come.  It cannot while the user's
\* zone does not reach the datum or the place where the receiver is.
PositionComes ==
    \/ has_transform_gps \/ ~force_user_utm
    \/ IF use_manual_datum THEN Converts(manual_datum_geopose.at, utm_zone)
                           ELSE \A p \in Positions : Converts(p, utm_zone)

\* A fix that waits is published, or a newer one in its place, whatever datum,
\* zone or declination is set meanwhile, as long as the transform can be had.
FixesArePublished ==
    (Filters /\ gps_updated /\ HeadingComes /\ PositionComes)
        ~> (~Filters \/ ~gps_updated \/ ~HeadingComes \/ ~PositionComes)
=============================================================================
