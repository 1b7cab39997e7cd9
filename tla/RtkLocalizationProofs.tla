----------------------- MODULE RtkLocalizationProofs -----------------------
(***************************************************************************)
(* Proofs about RtkLocalization and the NavSatTransform it contains: types, *)
(* the datum in force, and that a navigation session is smoothed on the     *)
(* recorded map.                                                            *)
(***************************************************************************)
EXTENDS RtkLocalization, TLAPS
-----------------------------------------------------------------------------
(* Types. *)

\* NavSatTypeOK, the flags one by one.
NavType ==
  /\ transform_good \in BOOLEAN /\ has_transform_odom \in BOOLEAN
  /\ has_transform_gps \in BOOLEAN /\ has_transform_imu \in BOOLEAN
  /\ use_manual_datum \in BOOLEAN /\ manual_datum_geopose \in Poses
  /\ force_user_utm \in BOOLEAN /\ utm_zone \in Nat /\ local_origin \in Int
  /\ transform_cartesian_pose \in Int /\ transform_world_pose \in Poses
  /\ transform_orientation \in Headings
  /\ cartesian_world_transform \in Poses
  /\ latest_cartesian_pose \in Int
  /\ gps_updated \in BOOLEAN /\ odom_updated \in BOOLEAN
  /\ imu_sub \in BOOLEAN /\ latest_fix \in Int

RtkType ==
  /\ session \in Sessions \cup {"off"}
  /\ file \in {NoFile, Truncated} \cup Origins
  /\ latest_yaw \in Headings \cup {0} /\ heard \in SUBSET Positions /\ recorded \in BOOLEAN
  /\ writing \in {Nothing} \cup Origins
  /\ tf \in BOOLEAN /\ blind \in BOOLEAN
  /\ mixed \in SUBSET Int /\ sent \in SUBSET Positions
  /\ launches \in 0 .. MaxLaunches /\ commands \in 0 .. MaxCommands

\* The transform computed for a datum: the datum's position is the origin of
\* the world frame, its heading the direction of the x axis.
ForDatum(t, datum, base) ==
  /\ t.dir = datum.dir
  /\ t.at = -(datum.dir * (datum.at - base))

\* What makes DatumInForce inductive: a datum is an origin somebody recorded or
\* sent, and while it is used a good transform is the one computed for it in the
\* grid in force, if the datum converts to it.
DatumInv ==
  /\ use_manual_datum => manual_datum_geopose \in Origins
  /\ transform_good /\ use_manual_datum /\ Converts(manual_datum_geopose.at, utm_zone) =>
       ForDatum(cartesian_world_transform, manual_datum_geopose, Base)

TypeInv == NavType /\ RtkType /\ DatumInv

LEMMA HeadingTypes ==
  /\ 1 \in Headings /\ -1 \in Headings /\ Zero \in Poses
  /\ Zero.at = 0 /\ Zero.dir = 1
  /\ \A d \in Headings : d = 1 \/ d = -1
BY DEF Headings, Zero, Poses, Pose

LEMMA OriginTypes ==
  /\ Origins \subseteq Poses
  /\ \A o \in Origins : o.at \in Nat /\ o.at \in Positions /\ o.dir \in Headings
  /\ \A p \in Positions, d \in Headings : Pose(p, d) \in Origins
<1>1. ASSUME NEW o \in Origins
      PROVE  o \in Poses /\ o.at \in Nat /\ o.at \in Positions /\ o.dir \in Headings
  <2>1. o.at \in Positions /\ o.dir \in Headings /\ o = [at |-> o.at, dir |-> o.dir]
    BY DEF Origins
  <2>2. o.at \in Nat /\ o.at \in Int
    BY <2>1, EarthAssumption
  <2>3. QED
    BY <2>1, <2>2 DEF Poses
<1>2. \A p \in Positions, d \in Headings : Pose(p, d) \in Origins
  BY DEF Origins, Pose
<1>3. QED
  BY <1>1, <1>2

LEMMA ZoneType == \A p \in Nat : StandardZone(p) \in Nat
<1> SUFFICES ASSUME NEW p \in Nat PROVE 1 + (p \div ZoneWidth) \in Nat
  BY DEF StandardZone
<1>1. ZoneWidth \in Nat \ {0}
  BY EarthAssumption
<1>2. p \div ZoneWidth \in Nat
  BY <1>1
<1>3. QED
  BY <1>2

\* A position converts to the zone it belongs to.
LEMMA OwnZone == \A p \in Nat : Converts(p, StandardZone(p))
<1> SUFFICES ASSUME NEW p \in Nat PROVE InZone(p, StandardZone(p))
  BY DEF Converts
<1>1. ZoneWidth \in Nat \ {0} /\ ZoneReach \in Nat
  BY EarthAssumption
<1>2. p \div ZoneWidth \in Nat
  BY <1>1
<1>3. StandardZone(p) = 1 + (p \div ZoneWidth)
  BY DEF StandardZone
<1>4. StandardZone(p) # 0 /\ StandardZone(p) - StandardZone(p) = 0
  BY <1>2, <1>3
<1>5. 0 \in -ZoneReach .. ZoneReach
  BY <1>1
<1>6. QED
  BY <1>4, <1>5 DEF InZone

LEMMA BaseType == NavType => Base \in Int
BY DEF NavType, Base

\* The transform for a reference at the origin of the world frame.
LEMMA TransformForDatum ==
  ASSUME NEW datum \in Poses, NEW base \in Int
  PROVE  /\ Compose(Zero, Invert(Pose(Forward(datum.at, base), datum.dir))) \in Poses
         /\ ForDatum(Compose(Zero, Invert(Pose(Forward(datum.at, base), datum.dir))),
                     datum, base)
<1> DEFINE c == datum.at - base
           d == datum.dir
           t == Compose(Zero, Invert(Pose(Forward(datum.at, base), datum.dir)))
<1>1. c \in Int /\ d \in Headings
  BY DEF Poses
<1>2. t = [at |-> 0 + 1 * (-(d * c)), dir |-> 1 * d]
  BY HeadingTypes DEF Compose, Invert, Pose, Forward, Apply
<1> HIDE DEF c, d
<1>3. 0 + 1 * (-(d * c)) = -(d * c) /\ 1 * d = d /\ -(d * c) \in Int
  BY <1>1 DEF Headings
<1>4. t.at = -(d * c) /\ t.dir = d /\ t \in Poses
  BY <1>1, <1>2, <1>3 DEF Poses
<1>5. QED
  BY <1>4 DEF ForDatum, c, d

\* The composition of poses is a pose.
LEMMA ComposeType ==
  ASSUME NEW w \in Poses, NEW x \in Int, NEW d \in Headings
  PROVE  Compose(w, Invert(Pose(x, d))) \in Poses
<1>1. w.at \in Int /\ w.dir \in Headings
  BY DEF Poses
<1>2. Compose(w, Invert(Pose(x, d))) = [at |-> w.at + w.dir * (-(d * x)), dir |-> w.dir * d]
  BY DEF Compose, Invert, Pose, Apply
<1>3. -(d * x) \in Int /\ w.dir * (-(d * x)) \in Int /\ w.dir * d \in Headings
  BY <1>1 DEF Headings
<1>4. QED
  BY <1>1, <1>2, <1>3 DEF Poses

\* The world position of a fix projected into the grid the transform was
\* computed in does not depend on the grid.
LEMMA AppliedToFix ==
  ASSUME NEW t \in Poses, NEW datum \in Poses, NEW base \in Int, NEW p \in Int,
         ForDatum(t, datum, base)
  PROVE  Apply(t, Forward(p, base)) = MapOf(datum, p)
<1> DEFINE a == datum.at
           d == datum.dir
<1>1. a \in Int /\ (d = 1 \/ d = -1)
  BY HeadingTypes DEF Poses
<1>2. t.dir = d /\ t.at = -(d * (a - base))
  BY DEF ForDatum
<1>3. /\ Apply(t, Forward(p, base)) = t.at + t.dir * (p - base)
      /\ MapOf(datum, p) = d * (p - a)
  BY DEF Apply, Forward, MapOf
<1> HIDE DEF a, d
<1>4. CASE d = 1
  BY <1>1, <1>2, <1>3, <1>4
<1>5. CASE d = -1
  BY <1>1, <1>2, <1>3, <1>5
<1>6. QED
  BY <1>1, <1>4, <1>5

LEMMA DatumFromInv == TypeInv => DatumInForce
<1> SUFFICES ASSUME TypeInv, transform_good, use_manual_datum,
                    Converts(manual_datum_geopose.at, utm_zone),
                    latest_cartesian_pose = Forward(latest_fix, Base)
             PROVE  Apply(cartesian_world_transform, latest_cartesian_pose)
                      = MapOf(manual_datum_geopose, latest_fix)
  BY DEF DatumInForce
<1>1. /\ cartesian_world_transform \in Poses /\ manual_datum_geopose \in Poses
      /\ latest_fix \in Int /\ Base \in Int
  BY BaseType DEF TypeInv, NavType
<1>2. ForDatum(cartesian_world_transform, manual_datum_geopose, Base)
  BY DEF TypeInv, DatumInv
<1>3. QED
  BY <1>1, <1>2, AppliedToFix

\* A step that leaves the datum, the transform and, while it is good for that
\* datum, the grid alone.
LEMMA DatumKept ==
  ASSUME DatumInv, manual_datum_geopose' = manual_datum_geopose,
         cartesian_world_transform' = cartesian_world_transform,
         use_manual_datum' = use_manual_datum,
         transform_good' /\ use_manual_datum' =>
           transform_good /\ Base' = Base /\ utm_zone' = utm_zone
  PROVE  DatumInv'
<1>1. use_manual_datum' => manual_datum_geopose' \in Origins'
  BY DEF DatumInv, Origins, Headings
<1>2. ASSUME transform_good', use_manual_datum',
             Converts(manual_datum_geopose.at, utm_zone)'
      PROVE  ForDatum(cartesian_world_transform, manual_datum_geopose, Base)'
  <2>1. Converts(manual_datum_geopose.at, utm_zone)
    BY <1>2 DEF Converts, InZone, StandardZone
  <2>2. ForDatum(cartesian_world_transform, manual_datum_geopose, Base)
    BY <1>2, <2>1 DEF DatumInv
  <2>3. QED
    BY <1>2, <2>2 DEF ForDatum
<1>3. QED
  BY <1>1, <1>2 DEF DatumInv

\* setTransformGps leaves numbers in the grid and in the reference, also in the
\* grid it has just chosen; what it does when the position converts.
LEMMA TransformGpsType ==
  ASSUME NavType, NEW p \in Nat, setTransformGps(p)
  PROVE  /\ local_origin' \in Int /\ utm_zone' \in Nat /\ Base' \in Int
         /\ transform_cartesian_pose' \in Int /\ has_transform_gps' \in BOOLEAN
<1>1. local_origin' = local_origin \/ local_origin' = p
  BY DEF setTransformGps, grid
<1>2. utm_zone' = utm_zone \/ utm_zone' = StandardZone(p)
  BY DEF setTransformGps, ZoneFor, grid
<1>3. local_origin' \in Int /\ utm_zone' \in Nat
  BY <1>1, <1>2, ZoneType DEF NavType
<1>4. Base' \in Int
  BY <1>3 DEF Base
<1>5. \/ transform_cartesian_pose' = Forward(p, Base') /\ has_transform_gps' = TRUE
      \/ UNCHANGED <<transform_cartesian_pose, has_transform_gps>>
  BY DEF setTransformGps
<1>6. Forward(p, Base') \in Int
  BY <1>4 DEF Forward
<1>7. transform_cartesian_pose' \in Int /\ has_transform_gps' \in BOOLEAN
  BY <1>5, <1>6 DEF NavType
<1>8. QED
  BY <1>3, <1>4, <1>7

\* A position the grid reaches after setTransformGps has been taken as the
\* reference: the error return leaves a zone that does not reach it.
LEMMA TransformGpsTaken ==
  ASSUME NEW p \in Nat, setTransformGps(p), Converts(p, utm_zone')
  PROVE  transform_cartesian_pose' = Forward(p, Base') /\ has_transform_gps' = TRUE
<1>1. CASE Converts(p, ZoneFor(p))
  BY <1>1 DEF setTransformGps
<1>2. CASE ~Converts(p, ZoneFor(p))
  <2>1. utm_zone' = utm_zone
    BY <1>2 DEF setTransformGps, grid
  <2>2. ~force_user_utm
    BY <1>2, <2>1 DEF ZoneFor
  <2>3. ZoneFor(p) = StandardZone(p)
    BY <2>2 DEF ZoneFor
  <2>4. QED
    BY <1>2, <2>3, OwnZone
<1>3. QED
  BY <1>1, <1>2

LEMMA FixNav ==
  ASSUME NavType, DatumInv, NEW p \in Positions, gpsFixCallback(p)
  PROVE  NavType' /\ DatumInv'
<1>0. p \in Nat
  BY EarthAssumption
<1>1. UNCHANGED <<transform_good, has_transform_odom, has_transform_imu, use_manual_datum,
                  manual_datum_geopose, force_user_utm, transform_world_pose,
                  transform_orientation, cartesian_world_transform, odom_updated, imu_sub>>
  BY DEF gpsFixCallback
<1>2. /\ local_origin' \in Int /\ utm_zone' \in Nat /\ Base' \in Int
      /\ transform_cartesian_pose' \in Int /\ has_transform_gps' \in BOOLEAN
  <2>1. CASE ~transform_good /\ ~use_manual_datum
    <3>1. setTransformGps(p)
      BY <2>1 DEF gpsFixCallback
    <3>2. QED
      BY <1>0, <3>1, TransformGpsType
  <2>2. CASE transform_good \/ use_manual_datum
    <3>1. UNCHANGED <<utm_zone, local_origin, transform_cartesian_pose, has_transform_gps>>
      BY <2>2 DEF gpsFixCallback, grid
    <3>2. QED
      BY <3>1 DEF NavType, Base
  <2>3. QED
    BY <2>1, <2>2
<1>3. latest_cartesian_pose' \in Int /\ gps_updated' \in BOOLEAN /\ latest_fix' \in Int
  <2>1. CASE ~Converts(p, utm_zone')
    BY <2>1 DEF gpsFixCallback, NavType
  <2>2. CASE Converts(p, utm_zone')
    <3>1. latest_cartesian_pose' = Forward(p, Base') /\ gps_updated' = TRUE /\ latest_fix' = p
      BY <2>2 DEF gpsFixCallback
    <3>2. QED
      BY <1>0, <1>2, <3>1 DEF Forward
  <2>3. QED
    BY <2>1, <2>2
<1>4. NavType'
  BY <1>1, <1>2, <1>3 DEF NavType
<1>5. transform_good' /\ use_manual_datum' =>
        transform_good /\ Base' = Base /\ utm_zone' = utm_zone
  <2>1. ASSUME transform_good PROVE Base' = Base /\ utm_zone' = utm_zone
    BY <2>1 DEF gpsFixCallback, grid, Base
  <2>2. QED
    BY <1>1, <2>1
<1>6. QED
  BY <1>1, <1>4, <1>5, DatumKept

LEMMA OdomNav ==
  ASSUME NavType, DatumInv, NEW pose \in Poses, odomCallback(pose)
  PROVE  NavType' /\ DatumInv'
<1>1. /\ UNCHANGED <<transform_good, has_transform_gps, use_manual_datum, manual_datum_geopose,
                     force_user_utm, utm_zone, local_origin, transform_cartesian_pose,
                     cartesian_world_transform, latest_cartesian_pose, gps_updated, imu_sub,
                     latest_fix>>
      /\ odom_updated' = TRUE
  BY DEF odomCallback, grid
<1>2. /\ transform_world_pose' \in Poses /\ has_transform_odom' \in BOOLEAN
      /\ transform_orientation' \in Headings /\ has_transform_imu' \in BOOLEAN
  <2>1. pose.dir \in Headings
    BY DEF Poses
  <2>2. CASE transform_good
    BY <2>2 DEF odomCallback, NavType
  <2>3. CASE ~transform_good
    <3>1. transform_world_pose' = pose /\ has_transform_odom' = TRUE
      BY <2>3 DEF odomCallback
    <3>2. \/ transform_orientation' = pose.dir /\ has_transform_imu' = TRUE
          \/ UNCHANGED <<transform_orientation, has_transform_imu>>
      BY <2>3 DEF odomCallback
    <3>3. QED
      BY <2>1, <3>1, <3>2 DEF NavType
  <2>4. QED
    BY <2>2, <2>3
<1>3. NavType'
  BY <1>1, <1>2 DEF NavType
<1>4. transform_good' /\ use_manual_datum' =>
        transform_good /\ Base' = Base /\ utm_zone' = utm_zone
  BY <1>1 DEF Base
<1>5. QED
  BY <1>1, <1>3, <1>4, DatumKept

LEMMA HeadingNav ==
  ASSUME NavType, DatumInv, NEW yaw \in Headings, NEW can \in BOOLEAN,
         imuCallback(yaw, can), latest_fix' = latest_fix
  PROVE  NavType' /\ DatumInv'
<1>1. UNCHANGED <<transform_good, has_transform_odom, has_transform_gps, use_manual_datum,
                  manual_datum_geopose, force_user_utm, utm_zone, local_origin,
                  transform_cartesian_pose, transform_world_pose, cartesian_world_transform,
                  latest_cartesian_pose, gps_updated, odom_updated, imu_sub>>
  BY DEF imuCallback, grid, latest
<1>2. transform_orientation' \in Headings /\ has_transform_imu' \in BOOLEAN
  <2>1. CASE TakesHeading /\ has_transform_odom
    <3>1. transform_orientation' = yaw
      BY <2>1 DEF imuCallback
    <3>2. has_transform_imu' = (has_transform_imu \/ can)
      BY <2>1 DEF imuCallback
    <3>3. (has_transform_imu \/ can) \in BOOLEAN
      OBVIOUS
    <3>4. has_transform_imu' \in BOOLEAN
      BY <3>2, <3>3, Zenon
    <3>5. QED
      BY <3>1, <3>4
  <2>2. CASE ~(TakesHeading /\ has_transform_odom)
    BY <2>2 DEF imuCallback, NavType
  <2>3. QED
    BY <2>1, <2>2
<1>3. NavType'
  BY <1>1, <1>2 DEF NavType
<1>4. transform_good' /\ use_manual_datum' =>
        transform_good /\ Base' = Base /\ utm_zone' = utm_zone
  BY <1>1 DEF Base
<1>5. QED
  BY <1>1, <1>3, <1>4, DatumKept

LEMMA ServiceNav ==
  ASSUME NavType, DatumInv,
         \/ \E datum \in Origins : datumCallback(datum)
         \/ \E zone \in Zones : setUTMZoneCallback(zone)
         \/ parametersCallback
  PROVE  NavType' /\ DatumInv'
<1>1. ASSUME NEW datum \in Origins, datumCallback(datum) PROVE NavType' /\ DatumInv'
  <2>1. datum \in Poses
    BY OriginTypes
  <2>2. NavType'
    BY <1>1, <2>1 DEF datumCallback, NavType, grid, reference, latest
  <2>3. manual_datum_geopose' = datum /\ transform_good' = FALSE
    BY <1>1 DEF datumCallback
  <2>4. DatumInv'
    BY <2>3 DEF DatumInv, Origins, Headings
  <2>5. QED
    BY <2>2, <2>4
<1>2. ASSUME NEW zone \in Zones, setUTMZoneCallback(zone)
      PROVE  NavType' /\ DatumInv'
  <2>1. zone \in Nat
    BY RtkAssumption
  <2>2. NavType'
    BY <1>2, <2>1 DEF setUTMZoneCallback, NavType, reference, latest
  <2>3. use_manual_datum' = FALSE
    BY <1>2 DEF setUTMZoneCallback
  <2>4. QED
    BY <2>2, <2>3 DEF DatumInv
<1>3. CASE parametersCallback
  <2>1. NavType'
    BY <1>3 DEF parametersCallback, NavType, grid, reference, latest
  <2>2. QED
    BY <1>3, <2>1, DatumKept DEF parametersCallback
<1>4. QED
  BY <1>1, <1>2, <1>3

\* computeTransform with a datum computes the transform for it, whatever was
\* there before.
LEMMA ComputeNav ==
  ASSUME NavType, DatumInv, computeTransform
  PROVE  NavType' /\ DatumInv'
<1>1. UNCHANGED <<has_transform_odom, use_manual_datum, manual_datum_geopose, force_user_utm,
                  latest_cartesian_pose, gps_updated, odom_updated, latest_fix, imu_sub>>
  BY DEF computeTransform, latest
<1>2. CASE has_transform_odom /\ use_manual_datum
  <2>1. setManualDatum
    BY <1>2 DEF computeTransform
  <2>2. manual_datum_geopose \in Origins /\ manual_datum_geopose \in Poses
    BY <1>2, OriginTypes DEF DatumInv
  <2>3. manual_datum_geopose.at \in Nat /\ manual_datum_geopose.dir \in Headings
    BY <2>2, OriginTypes
  <2>4. setTransformGps(manual_datum_geopose.at)
    BY <2>1 DEF setManualDatum
  <2>5. /\ local_origin' \in Int /\ utm_zone' \in Nat /\ Base' \in Int
        /\ transform_cartesian_pose' \in Int /\ has_transform_gps' \in BOOLEAN
    BY <2>3, <2>4, TransformGpsType
  <2>6. /\ transform_world_pose' = Zero /\ has_transform_imu' = TRUE
        /\ transform_orientation' = manual_datum_geopose.dir
    BY <2>1 DEF setManualDatum
  <2>7. \/ /\ transform_good' = TRUE
           /\ cartesian_world_transform' =
                Compose(transform_world_pose',
                        Invert(Pose(transform_cartesian_pose', transform_orientation')))
        \/ ~has_transform_gps' /\ UNCHANGED <<transform_good, cartesian_world_transform>>
    BY <1>2, <2>6 DEF computeTransform
  <2>8. transform_good' \in BOOLEAN /\ cartesian_world_transform' \in Poses
    <3>1. /\ transform_world_pose' \in Poses /\ transform_cartesian_pose' \in Int
          /\ transform_orientation' \in Headings
      BY <2>3, <2>5, <2>6, HeadingTypes
    <3>2. Compose(transform_world_pose',
                  Invert(Pose(transform_cartesian_pose', transform_orientation'))) \in Poses
      BY <3>1, ComposeType
    <3>3. QED
      BY <2>7, <3>2 DEF NavType
  <2>9. NavType'
    BY <1>1, <2>3, <2>5, <2>6, <2>8, HeadingTypes DEF NavType
  <2>10. ASSUME Converts(manual_datum_geopose.at, utm_zone')
         PROVE  ForDatum(cartesian_world_transform', manual_datum_geopose, Base')
    <3>1. /\ transform_cartesian_pose' = Forward(manual_datum_geopose.at, Base')
          /\ has_transform_gps' = TRUE
      BY <2>3, <2>4, <2>10, TransformGpsTaken
    <3>2. cartesian_world_transform' =
            Compose(Zero, Invert(Pose(Forward(manual_datum_geopose.at, Base'),
                                      manual_datum_geopose.dir)))
      BY <2>6, <2>7, <3>1
    <3>3. QED
      BY <2>2, <2>5, <3>2, TransformForDatum
  <2>11. DatumInv'
    <3>1. manual_datum_geopose' \in Origins'
      BY <1>1, <2>2 DEF Origins, Headings
    <3>2. ASSUME Converts(manual_datum_geopose.at, utm_zone)'
          PROVE  ForDatum(cartesian_world_transform, manual_datum_geopose, Base)'
      <4>1. Converts(manual_datum_geopose.at, utm_zone')
        BY <1>1, <3>2 DEF Converts, InZone, StandardZone
      <4>2. QED
        BY <1>1, <2>10, <4>1 DEF ForDatum
    <3>3. QED
      BY <3>1, <3>2 DEF DatumInv
  <2>12. QED
    BY <2>9, <2>11
<1>3. CASE ~(has_transform_odom /\ use_manual_datum)
  <2>1. UNCHANGED <<utm_zone, local_origin, transform_cartesian_pose, transform_world_pose,
                    transform_orientation, has_transform_gps, has_transform_imu>>
    BY <1>3 DEF computeTransform, grid, reference
  <2>2. \/ /\ transform_good' = TRUE /\ has_transform_odom
           /\ cartesian_world_transform' =
                Compose(transform_world_pose,
                        Invert(Pose(transform_cartesian_pose, transform_orientation)))
        \/ UNCHANGED <<transform_good, cartesian_world_transform>>
    BY <2>1 DEF computeTransform
  <2>3. transform_good' \in BOOLEAN /\ cartesian_world_transform' \in Poses
    BY <2>2, ComposeType DEF NavType
  <2>4. NavType'
    BY <1>1, <2>1, <2>3 DEF NavType
  <2>5. ~(transform_good' /\ use_manual_datum')
    BY <1>1, <1>3, <2>2 DEF computeTransform
  <2>6. DatumInv'
    BY <1>1, <2>5 DEF DatumInv, Origins, Headings
  <2>7. QED
    BY <2>4, <2>6
<1>4. QED
  BY <1>2, <1>3

LEMMA PublishNav ==
  ASSUME NavType, DatumInv, publishGps
  PROVE  NavType' /\ DatumInv'
<1>1. UNCHANGED <<transform_good, has_transform_odom, has_transform_gps, has_transform_imu,
                  use_manual_datum, manual_datum_geopose, force_user_utm, utm_zone,
                  local_origin, transform_cartesian_pose, transform_world_pose,
                  transform_orientation, cartesian_world_transform, latest_cartesian_pose,
                  imu_sub, latest_fix>>
  BY DEF publishGps, flags, grid, reference
<1>2. (gps_updated /\ ~odom_updated) \in BOOLEAN /\ (odom_updated /\ ~PublishGps) \in BOOLEAN
  OBVIOUS
<1>3. gps_updated' \in BOOLEAN /\ odom_updated' \in BOOLEAN
  BY <1>2, Zenon DEF publishGps
<1>4. NavType'
  BY <1>1, <1>3 DEF NavType
<1>5. transform_good' /\ use_manual_datum' =>
        transform_good /\ Base' = Base /\ utm_zone' = utm_zone
  BY <1>1 DEF Base
<1>6. QED
  BY <1>1, <1>4, <1>5, DatumKept

LEMMA StartNav ==
  ASSUME NEW wait \in BOOLEAN, NEW datum, wait => datum \in Origins, NavSatStart(wait, datum)
  PROVE  NavType' /\ DatumInv'
<1>1. /\ transform_good' = FALSE
      /\ has_transform_odom' = FALSE /\ has_transform_gps' = FALSE /\ has_transform_imu' = FALSE
      /\ force_user_utm' = FALSE /\ utm_zone' = 0 /\ local_origin' = 0
      /\ transform_cartesian_pose' = 0
      /\ transform_world_pose' = Zero /\ transform_orientation' = 1
      /\ cartesian_world_transform' = Zero
      /\ latest_cartesian_pose' = 0
      /\ gps_updated' = FALSE /\ odom_updated' = FALSE
      /\ latest_fix' = 0
  BY DEF NavSatStart, NullIsland
<1>2. imu_sub' \in BOOLEAN
  <2>1. (~UseOdometryYaw /\ ~wait) \in BOOLEAN
    OBVIOUS
  <2>2. imu_sub' = (~UseOdometryYaw /\ ~wait)
    BY DEF NavSatStart
  <2>3. QED
    BY <2>1, <2>2, Zenon
<1>3. manual_datum_geopose' \in Poses /\ (wait => manual_datum_geopose' \in Origins)
  <2>1. manual_datum_geopose' = IF wait THEN datum ELSE Zero
    BY DEF NavSatStart
  <2>2. QED
    BY <2>1, HeadingTypes, OriginTypes
<1>0. use_manual_datum' = wait
  BY DEF NavSatStart
<1>4. NavType'
  <2>1. use_manual_datum' \in BOOLEAN
    BY <1>0, Zenon
  <2>3. /\ transform_world_pose' \in Poses /\ cartesian_world_transform' \in Poses
        /\ transform_orientation' \in Headings
    BY <1>1, HeadingTypes
  <2>4. /\ utm_zone' \in Nat /\ local_origin' \in Int /\ transform_cartesian_pose' \in Int
        /\ latest_cartesian_pose' \in Int /\ latest_fix' \in Int
    BY <1>1
  <2>5. /\ transform_good' \in BOOLEAN /\ has_transform_odom' \in BOOLEAN
        /\ has_transform_gps' \in BOOLEAN /\ has_transform_imu' \in BOOLEAN
        /\ force_user_utm' \in BOOLEAN /\ gps_updated' \in BOOLEAN /\ odom_updated' \in BOOLEAN
    BY <1>1
  <2>6. QED
    BY <1>2, <1>3, <2>1, <2>3, <2>4, <2>5 DEF NavType
<1>5. DatumInv'
  BY <1>0, <1>1, <1>3 DEF DatumInv, Origins, Headings
<1>6. QED
  BY <1>4, <1>5

LEMMA TypeInit == Init => TypeInv
<1> SUFFICES ASSUME Init PROVE TypeInv
  OBVIOUS
<1>1. imu_sub \in BOOLEAN
  <2>1. (~UseOdometryYaw) \in BOOLEAN
    OBVIOUS
  <2>2. imu_sub = (~UseOdometryYaw)
    BY DEF Init
  <2>3. QED
    BY <2>1, <2>2, Zenon
<1>2. NavType
  <2>2. /\ transform_world_pose \in Poses /\ cartesian_world_transform \in Poses
        /\ manual_datum_geopose \in Poses /\ transform_orientation \in Headings
    BY HeadingTypes DEF Init
  <2>3. /\ utm_zone \in Nat /\ local_origin \in Int /\ transform_cartesian_pose \in Int
        /\ latest_cartesian_pose \in Int /\ latest_fix \in Int
    BY DEF Init, NullIsland
  <2>4. /\ transform_good \in BOOLEAN /\ has_transform_odom \in BOOLEAN
        /\ has_transform_gps \in BOOLEAN /\ has_transform_imu \in BOOLEAN
        /\ use_manual_datum \in BOOLEAN
        /\ force_user_utm \in BOOLEAN /\ gps_updated \in BOOLEAN /\ odom_updated \in BOOLEAN
    BY DEF Init
  <2>5. QED
    BY <1>1, <2>2, <2>3, <2>4 DEF NavType
<1>3. RtkType
  <2>1. 0 \in 0 .. MaxLaunches /\ 0 \in 0 .. MaxCommands
    BY RtkAssumption
  <2>2. /\ session = "off" /\ file = NoFile /\ latest_yaw = 0 /\ heard = {} /\ recorded = FALSE
        /\ writing = Nothing /\ tf = FALSE /\ mixed = {} /\ sent = {} /\ blind = FALSE
        /\ launches = 0 /\ commands = 0
    BY DEF Init
  <2>3. QED
    BY <2>1, <2>2 DEF RtkType
<1>4. DatumInv
  BY DEF Init, DatumInv
<1>5. QED
  BY <1>2, <1>3, <1>4 DEF TypeInv

\* A fix the sanitizer lets through is one the receiver computed.
LEMMA ValidFix ==
  ASSUME NEW raw \in RawFixes, _valid_fix(raw)
  PROVE  raw.kind = "fix" /\ raw.pos \in Positions
BY DEF RawFixes, _valid_fix

\* Steps that leave navsat_transform alone.
LEMMA TypeKept ==
  ASSUME TypeInv, UNCHANGED nvars, RtkType'
  PROVE  TypeInv'
<1>1. NavType'
  BY DEF TypeInv, NavType, nvars
<1>2. Base' = Base /\ UNCHANGED <<transform_good, use_manual_datum, manual_datum_geopose,
                                  cartesian_world_transform>>
  BY DEF nvars, Base
<1>0. utm_zone' = utm_zone
  BY DEF nvars
<1>3. DatumInv'
  BY <1>0, <1>2, DatumKept DEF TypeInv
<1>4. QED
  BY <1>1, <1>3 DEF TypeInv

LEMMA OdometryType == NavType => \A can \in BOOLEAN : GpsOdometry(can) \in Int
<1> SUFFICES ASSUME NavType, NEW can \in BOOLEAN PROVE GpsOdometry(can) \in Int
  OBVIOUS
<1> DEFINE t == cartesian_world_transform
           x == Apply(t, latest_cartesian_pose)
<1>1. t.at \in Int /\ t.dir \in Headings /\ latest_cartesian_pose \in Int
  BY DEF NavType, Poses
<1>2. t.dir * latest_cartesian_pose \in Int
  BY <1>1 DEF Headings
<1>3. x \in Int
  BY <1>1, <1>2 DEF Apply
<1>4. GpsOdometry(can) = x \/ GpsOdometry(can) = 0
  BY DEF GpsOdometry, getRobotOriginWorldPose
<1>5. QED
  BY <1>3, <1>4

\* What a launch leaves behind.
LEMMA LaunchType ==
  ASSUME TypeInv, NEW kind \in Sessions, Launch(kind)
  PROVE  TypeInv'
<1>1. /\ session' = kind /\ launches < MaxLaunches /\ launches' = launches + 1
      /\ latest_yaw' = 0 /\ heard' = {} /\ recorded' = FALSE /\ writing' = Nothing
      /\ tf' = FALSE /\ mixed' = {} /\ sent' = {} /\ blind' = FALSE
      /\ commands' = 0 /\ file' = file
  BY DEF Launch
<1>2. NavType' /\ DatumInv'
  <2>1. CASE kind = "navigation"
    <3>1. file \in Origins /\ NavSatStart(TRUE, file)
      BY <2>1 DEF Launch
    <3>2. QED
      BY <3>1, StartNav
  <2>2. CASE kind # "navigation"
    <3>1. NavSatStart(FALSE, file)
      BY <2>2 DEF Launch
    <3>2. QED
      BY <3>1, StartNav
  <2>3. QED
    BY <2>1, <2>2
<1>3. launches' \in 0 .. MaxLaunches /\ commands' \in 0 .. MaxCommands
  BY <1>1, RtkAssumption DEF TypeInv, RtkType
<1>4. RtkType'
  BY <1>1, <1>3 DEF TypeInv, RtkType, Origins, Headings, NoFile, Truncated
<1>5. QED
  BY <1>2, <1>4 DEF TypeInv

\* What the recorder may write.
LEMMA RecordType ==
  ASSUME NEW fixes \in SUBSET Positions, NEW yaw \in Headings \cup {0}, recorded \in BOOLEAN,
         _try_record(fixes, yaw)
  PROVE  /\ file' \in {file, Truncated} /\ writing' \in {writing} \cup Origins
         /\ recorded' \in BOOLEAN
<1>1. CASE fixes = {} \/ yaw = 0
  BY <1>1 DEF _try_record
<1>2. CASE ~(fixes = {} \/ yaw = 0) /\ file # NoFile /\ ~Overwrite
  BY <1>2 DEF _try_record
<1>3. CASE ~(fixes = {} \/ yaw = 0) /\ ~(file # NoFile /\ ~Overwrite)
  <2>1. /\ file' = Truncated /\ UNCHANGED recorded
        /\ \E p \in fixes : writing' = Pose(p, yaw)
    BY <1>3 DEF _try_record
  <2>2. \A p \in fixes : Pose(p, yaw) \in Origins
    BY <1>3, OriginTypes
  <2>3. QED
    BY <2>1, <2>2
<1>4. QED
  BY <1>1, <1>2, <1>3

LEMMA TypeStep ==
  ASSUME TypeInv, [Next]_vars
  PROVE  TypeInv'
<1> USE DEF TypeInv
<1>1. ASSUME NEW raw \in RawFixes, Fix(raw) PROVE TypeInv'
  <2>1. raw.pos \in Positions
    BY <1>1, ValidFix DEF Fix
  <2>2. NavType' /\ DatumInv'
    BY <1>1, <2>1, FixNav DEF Fix
  <2>3. sent' = sent \/ sent' = sent \cup {raw.pos}
    BY <1>1 DEF Fix
  <2>4. RtkType'
    BY <1>1, <2>1, <2>3 DEF Fix, RtkType, Origins, Headings, NoFile, Truncated, Nothing
  <2>5. QED
    BY <2>2, <2>4
<1>2. ASSUME NEW raw \in RawFixes, _fix_callback(raw) PROVE TypeInv'
  <2>1. raw.pos \in Positions
    BY <1>2, ValidFix DEF _fix_callback
  <2>2. file' \in {file, Truncated} /\ writing' \in {writing} \cup Origins /\ recorded' \in BOOLEAN
    BY <1>2, <2>1, RecordType DEF _fix_callback, RtkType
  <2>3. RtkType'
    BY <1>2, <2>1, <2>2 DEF _fix_callback, RtkType, Origins, Headings, NoFile, Truncated, Nothing
  <2>4. QED
    BY <1>2, <2>3, TypeKept DEF _fix_callback
<1>3. ASSUME NEW x \in OdomPoses, NEW d \in Headings, Odom(Pose(x, d)) PROVE TypeInv'
  <2>1. Pose(x, d) \in Poses
    BY EarthAssumption DEF Pose, Poses
  <2>2. NavType' /\ DatumInv'
    BY <1>3, <2>1, OdomNav DEF Odom
  <2>3. RtkType'
    BY <1>3 DEF Odom, rvars, RtkType, Origins, Headings, NoFile, Truncated, Nothing
  <2>4. QED
    BY <2>2, <2>3
<1>4. ASSUME NEW yaw \in Headings, NEW can \in BOOLEAN, Heading(yaw, can) PROVE TypeInv'
  <2>1. NavType' /\ DatumInv'
    BY <1>4, HeadingNav DEF Heading
  <2>2. RtkType'
    BY <1>4 DEF Heading, rvars, RtkType, Origins, Headings, NoFile, Truncated, Nothing
  <2>3. QED
    BY <2>1, <2>2
<1>5. ASSUME NEW yaw \in Headings, _heading_callback(yaw) PROVE TypeInv'
  <2>1. file' \in {file, Truncated} /\ writing' \in {writing} \cup Origins /\ recorded' \in BOOLEAN
    BY <1>5, RecordType DEF _heading_callback, RtkType
  <2>2. RtkType'
    BY <1>5, <2>1 DEF _heading_callback, RtkType, Origins, Headings, NoFile, Truncated, Nothing
  <2>3. QED
    BY <1>5, <2>2, TypeKept DEF _heading_callback
<1>6. CASE TransformKnown
  <2>1. RtkType'
    BY <1>6 DEF TransformKnown, RtkType, Origins, Headings, NoFile, Truncated, Nothing
  <2>2. QED
    BY <1>6, <2>1, TypeKept DEF TransformKnown
<1>7. CASE Command
  <2>1. NavType' /\ DatumInv'
    BY <1>7, ServiceNav DEF Command
  <2>2. commands' \in 0 .. MaxCommands
    BY <1>7, RtkAssumption DEF Command, RtkType
  <2>3. RtkType'
    BY <1>7, <2>2 DEF Command, RtkType, Origins, Headings, NoFile, Truncated, Nothing
  <2>4. QED
    BY <2>1, <2>3
<1>8. CASE Timer
  <2>1. NavType' /\ DatumInv'
    BY <1>8, ComputeNav, PublishNav DEF Timer
  <2>2. mixed' = mixed \/ mixed' = mixed \cup {GpsOdometry(tf)}
    BY <1>8 DEF Timer, LowPass
  <2>3. GpsOdometry(tf) \in Int
    BY OdometryType DEF RtkType
  <2>4. mixed' \in SUBSET Int
    BY <2>2, <2>3 DEF RtkType
  <2>5. blind' \in BOOLEAN
    <3>1. (blind \/ ~tf) \in BOOLEAN
      OBVIOUS
    <3>2. blind' = blind \/ blind' = (blind \/ ~tf)
      BY <1>8, Zenon DEF Timer
    <3>3. QED
      BY <3>1, <3>2, Zenon DEF RtkType
  <2>6. UNCHANGED <<session, file, latest_yaw, heard, recorded, writing, tf, sent, launches, commands>>
    BY <1>8 DEF Timer
  <2>7. RtkType'
    BY <2>4, <2>5, <2>6 DEF RtkType, Origins, Headings, NoFile, Truncated, Nothing
  <2>8. QED
    BY <2>1, <2>7
<1>9. CASE WriteOrigin
  <2>1. writing \in Origins
    BY <1>9 DEF WriteOrigin, RtkType
  <2>2. RtkType'
    BY <1>9, <2>1 DEF WriteOrigin, RtkType, Origins, Headings, NoFile, Truncated, Nothing
  <2>3. QED
    BY <1>9, <2>2, TypeKept DEF WriteOrigin
<1>10. ASSUME NEW kind \in Sessions, Launch(kind) PROVE TypeInv'
  BY <1>10, LaunchType
<1>11. CASE Stop
  <2>1. NavType' /\ DatumInv'
    BY <1>11, StartNav DEF Stop
  <2>2. RtkType'
    <3>1. 0 \in 0 .. MaxCommands
      BY RtkAssumption
    <3>2. /\ session' = "off" /\ latest_yaw' = 0 /\ heard' = {} /\ recorded' = FALSE /\ writing' = Nothing
          /\ tf' = FALSE /\ mixed' = {} /\ sent' = {} /\ blind' = FALSE /\ commands' = 0
          /\ UNCHANGED <<file, launches>>
      BY <1>11 DEF Stop
    <3>3. QED
      BY <3>1, <3>2 DEF RtkType, Origins, Headings, NoFile, Truncated
  <2>3. QED
    BY <2>1, <2>2
<1>12. CASE UNCHANGED vars
  <2>1. UNCHANGED nvars /\ UNCHANGED rvars
    BY <1>12 DEF vars
  <2>2. RtkType'
    BY <2>1 DEF rvars, RtkType, Origins, Headings, NoFile, Truncated, Nothing
  <2>3. QED
    BY <2>1, <2>2, TypeKept
<1>13. QED
  BY <1>1, <1>2, <1>3, <1>4, <1>5, <1>6, <1>7, <1>8, <1>9, <1>10, <1>11, <1>12 DEF Next

\* Types, for any set of positions and headings; in particular the zone is one
\* of the earth's and the map origin's file is never half of an origin.
THEOREM TypeCorrect == Spec => []TypeOK
<1>1. Init => TypeInv
  BY TypeInit
<1>2. TypeInv /\ [Next]_vars => TypeInv'
  BY TypeStep
<1>3. TypeInv => TypeOK
  <2>1. NavType => NavSatTypeOK
    BY DEF NavType, NavSatTypeOK, flags
  <2>2. QED
    BY <2>1 DEF TypeInv, RtkType, TypeOK
<1>4. QED
  BY <1>1, <1>2, <1>3, PTL DEF Spec

\* While a datum that converts to the grid is in force the fixes are positioned
\* relative to it, whatever navsat_transform computed before, in any grid, with
\* any odometry, any zone set by the user, whether it reaches the datum and the
\* fixes or not, and any order of fixes, datum and setUTMZone calls and timer
\* ticks.
THEOREM DatumStaysInForce == Spec => []DatumInForce
<1>1. Init => TypeInv
  BY TypeInit
<1>2. TypeInv /\ [Next]_vars => TypeInv'
  BY TypeStep
<1>3. TypeInv => DatumInForce
  BY DatumFromInv
<1>4. QED
  BY <1>1, <1>2, <1>3, PTL DEF Spec
-----------------------------------------------------------------------------
(* A navigation session in which nobody has called a service. *)

Undisturbed == session = "navigation" /\ commands = 0

\* What makes SmoothedOnMap inductive, in UTM grids: the datum is the origin in
\* the file, which nobody writes; before the transform is computed there is no
\* zone, so that no fix is kept; a good transform is in the datum's zone, which
\* no user has forced; and a fix that waits to be published was sent
\* in this session and projected into the grid in force.
MapInv ==
  /\ writing # Nothing => session = "mapping"
  /\ Undisturbed =>
       /\ use_manual_datum /\ manual_datum_geopose = file /\ ~force_user_utm
       /\ ~transform_good => utm_zone = 0 /\ ~gps_updated
       /\ transform_good => Converts(file.at, utm_zone)
       /\ gps_updated => latest_fix \in sent /\ latest_cartesian_pose = Forward(latest_fix, Base)
       /\ ~blind => mixed \subseteq {MapOf(file, p) : p \in sent}

LEMMA MapInit == Init => MapInv
BY DEF Init, MapInv, Undisturbed

\* A step that changes nothing a navigation session depends on.
LEMMA MapKept ==
  ASSUME MapInv, writing' = writing \/ writing' = Nothing \/ session' = "mapping",
         session' = session,
         Undisturbed' =>
           /\ UNCHANGED <<commands, use_manual_datum, manual_datum_geopose, file, transform_good,
                          force_user_utm, utm_zone, local_origin, latest_fix, latest_cartesian_pose, sent,
                          blind, mixed>>
           /\ gps_updated' => gps_updated
  PROVE  MapInv'
<1>1. (writing # Nothing => session = "mapping")'
  BY DEF MapInv, Nothing
<1>2. ASSUME Undisturbed'
      PROVE  /\ use_manual_datum' /\ manual_datum_geopose' = file' /\ ~force_user_utm'
             /\ ~transform_good' => utm_zone' = 0 /\ ~gps_updated'
             /\ transform_good' => Converts(file.at, utm_zone)'
             /\ gps_updated' => latest_fix' \in sent'
                                /\ latest_cartesian_pose' = Forward(latest_fix', Base')
             /\ ~blind' => mixed' \subseteq {MapOf(file', p) : p \in sent'}
  <2>1. Undisturbed /\ Base' = Base
    BY <1>2 DEF Undisturbed, Base
  <2>2. transform_good' => Converts(file.at, utm_zone)'
    BY <1>2, <2>1 DEF MapInv, Converts, InZone, StandardZone
  <2>3. QED
    BY <1>2, <2>1, <2>2 DEF MapInv, Forward
<1>3. QED
  BY <1>1, <1>2 DEF MapInv, Nothing

LEMMA MapFix ==
  ASSUME ~UseLocalCartesian, TypeInv, MapInv, NEW raw \in RawFixes, Fix(raw)
  PROVE  MapInv'
<1> DEFINE p == raw.pos
<1>1. /\ raw.kind = "fix" /\ p \in Positions /\ gpsFixCallback(p)
      /\ sent' = sent \cup {p}
      /\ UNCHANGED <<session, file, writing, mixed, blind, commands>>
  BY ValidFix DEF Fix
<1>2. (writing # Nothing => session = "mapping")'
  BY <1>1 DEF MapInv, Nothing
<1> SUFFICES ASSUME Undisturbed'
             PROVE  /\ use_manual_datum' /\ manual_datum_geopose' = file' /\ ~force_user_utm'
                    /\ ~transform_good' => utm_zone' = 0 /\ ~gps_updated'
                    /\ transform_good' => Converts(file.at, utm_zone)'
                    /\ gps_updated' => latest_fix' \in sent'
                                       /\ latest_cartesian_pose' = Forward(latest_fix', Base')
                    /\ ~blind' => mixed' \subseteq {MapOf(file', q) : q \in sent'}
  BY <1>2 DEF MapInv, Nothing
<1>3. Undisturbed
  BY <1>1 DEF Undisturbed
<1>4. use_manual_datum /\ manual_datum_geopose = file /\ ~force_user_utm
  BY <1>3 DEF MapInv
<1>5. UNCHANGED <<transform_good, use_manual_datum, manual_datum_geopose, force_user_utm,
                  utm_zone, local_origin>>
  BY <1>1, <1>4 DEF gpsFixCallback, grid
<1>6. Base' = Base
  BY <1>5 DEF Base
<1>0. transform_good' => Converts(file.at, utm_zone)'
  BY <1>1, <1>3, <1>5 DEF MapInv, Converts, InZone, StandardZone
<1>7. ~transform_good' => utm_zone' = 0 /\ ~gps_updated'
  <2> SUFFICES ASSUME ~transform_good' PROVE utm_zone' = 0 /\ ~gps_updated'
    OBVIOUS
  <2>1. utm_zone = 0 /\ ~gps_updated
    BY <1>3, <1>5 DEF MapInv
  <2>2. ~Converts(p, utm_zone')
    BY <1>5, <2>1 DEF Converts, InZone
  <2>3. gps_updated' = gps_updated
    BY <1>1, <2>2 DEF gpsFixCallback
  <2>4. QED
    BY <1>5, <2>1, <2>3
<1>8. gps_updated' => latest_fix' \in sent' /\ latest_cartesian_pose' = Forward(latest_fix', Base')
  <2>1. CASE ~Converts(p, utm_zone')
    <3>1. UNCHANGED <<latest_cartesian_pose, gps_updated, latest_fix>>
      BY <1>1, <2>1 DEF gpsFixCallback
    <3>2. QED
      BY <1>1, <1>3, <1>6, <3>1 DEF MapInv, Forward
  <2>2. CASE Converts(p, utm_zone')
    <3>1. latest_cartesian_pose' = Forward(p, Base') /\ latest_fix' = p
      BY <1>1, <2>2 DEF gpsFixCallback
    <3>2. QED
      BY <1>1, <3>1 DEF Forward
  <2>3. QED
    BY <2>1, <2>2
<1>9. ~blind' => mixed' \subseteq {MapOf(file', q) : q \in sent'}
  BY <1>1, <1>3 DEF MapInv
<1>10. QED
  BY <1>0, <1>1, <1>4, <1>5, <1>7, <1>8, <1>9

\* The transform is computed while no fix waits; a fix is published through the
\* transform for the datum in force.
LEMMA MapTimer ==
  ASSUME ~UseLocalCartesian, TypeInv, MapInv, Timer
  PROVE  MapInv'
<1>1. UNCHANGED <<session, file, writing, tf, sent, commands>>
  BY DEF Timer
<1>2. (writing # Nothing => session = "mapping")'
  BY <1>1 DEF MapInv, Nothing
<1> SUFFICES ASSUME Undisturbed'
             PROVE  /\ use_manual_datum' /\ manual_datum_geopose' = file' /\ ~force_user_utm'
                    /\ ~transform_good' => utm_zone' = 0 /\ ~gps_updated'
                    /\ transform_good' => Converts(file.at, utm_zone)'
                    /\ gps_updated' => latest_fix' \in sent'
                                       /\ latest_cartesian_pose' = Forward(latest_fix', Base')
                    /\ ~blind' => mixed' \subseteq {MapOf(file', q) : q \in sent'}
  BY <1>2 DEF MapInv, Nothing
<1>3. Undisturbed
  BY <1>1 DEF Undisturbed
<1>4. /\ use_manual_datum /\ manual_datum_geopose = file /\ ~force_user_utm
      /\ transform_good => Converts(file.at, utm_zone)
      /\ ~transform_good => utm_zone = 0 /\ ~gps_updated
      /\ gps_updated => latest_fix \in sent /\ latest_cartesian_pose = Forward(latest_fix, Base)
      /\ ~blind => mixed \subseteq {MapOf(file, p) : p \in sent}
  BY <1>3 DEF MapInv
<1>5. CASE computeTransform /\ UNCHANGED <<mixed, blind>>
  <2>1. UNCHANGED <<use_manual_datum, manual_datum_geopose, force_user_utm, gps_updated,
                    latest_fix, latest_cartesian_pose>>
    BY <1>5 DEF computeTransform, latest
  <2>2. ~gps_updated'
    BY <1>4, <1>5, <2>1 DEF computeTransform
  <2>3. /\ ~transform_good' => utm_zone' = 0
        /\ transform_good' => Converts(file.at, utm_zone)'
    <3>1. CASE has_transform_odom /\ use_manual_datum
      <4>1. setManualDatum
        BY <1>5, <3>1 DEF computeTransform
      <4>2. file \in Origins /\ setTransformGps(file.at) /\ has_transform_imu' = TRUE
        BY <1>4, <4>1 DEF setManualDatum, TypeInv, DatumInv
      <4>3. file.at \in Nat
        BY <4>2, OriginTypes
      <4>4. ZoneFor(file.at) = StandardZone(file.at)
        BY <1>4 DEF ZoneFor
      <4>5. Converts(file.at, StandardZone(file.at))
        BY <4>3, OwnZone
      <4>6. utm_zone' = StandardZone(file.at) /\ has_transform_gps' = TRUE
        BY <4>2, <4>4, <4>5 DEF setTransformGps
      <4>7. transform_good' = TRUE
        BY <1>5, <3>1, <4>2, <4>6 DEF computeTransform
      <4>8. Converts(file.at, utm_zone)'
        BY <1>1, <4>5, <4>6 DEF Converts, InZone, StandardZone
      <4>9. QED
        BY <4>7, <4>8
    <3>2. CASE ~(has_transform_odom /\ use_manual_datum)
      BY <1>4, <1>5, <3>2 DEF computeTransform, grid
    <3>3. QED
      BY <3>1, <3>2
  <2>4. QED
    BY <1>1, <1>4, <1>5, <2>1, <2>2, <2>3
<1>6. CASE /\ publishGps
           /\ IF GpsOdometryReady
              THEN LowPass(GpsOdometry(tf)) /\ blind' = (blind \/ ~tf)
              ELSE UNCHANGED <<mixed, blind>>
  <2>1. UNCHANGED <<use_manual_datum, manual_datum_geopose, transform_good, force_user_utm,
                    utm_zone, local_origin, latest_fix, latest_cartesian_pose>>
    BY <1>6 DEF publishGps, flags, grid
  <2>2. transform_good /\ (gps_updated' => gps_updated)
    BY <1>6 DEF publishGps
  <2>3. gps_updated' => latest_fix' \in sent'
                        /\ latest_cartesian_pose' = Forward(latest_fix', Base')
    BY <1>1, <1>4, <2>1, <2>2 DEF Forward, Base
  <2>4. ASSUME ~blind' PROVE mixed' \subseteq {MapOf(file', q) : q \in sent'}
    <3>1. CASE GpsOdometryReady
      <4>1. tf /\ ~blind
        BY <1>6, <2>4, <3>1
      <4>2. mixed' = mixed \cup {GpsOdometry(tf)}
        BY <1>3, <1>6, <3>1 DEF LowPass, Undisturbed
      <4>3. GpsOdometry(tf) = Apply(cartesian_world_transform, latest_cartesian_pose)
        BY <4>1 DEF GpsOdometry, getRobotOriginWorldPose
      <4>4. gps_updated
        BY <3>1 DEF GpsOdometryReady
      <4>5. DatumInForce
        BY DatumFromInv
      <4>6. GpsOdometry(tf) = MapOf(file, latest_fix) /\ latest_fix \in sent
        BY <1>4, <2>2, <4>3, <4>4, <4>5 DEF DatumInForce
      <4>7. QED
        BY <1>1, <1>4, <4>1, <4>2, <4>6
    <3>2. CASE ~GpsOdometryReady
      BY <1>1, <1>4, <1>6, <2>4, <3>2
    <3>3. QED
      BY <3>1, <3>2
  <2>5. transform_good' => Converts(file.at, utm_zone)'
    BY <1>1, <1>4, <2>1 DEF Converts, InZone, StandardZone
  <2>6. QED
    BY <1>1, <1>4, <2>1, <2>2, <2>3, <2>4, <2>5
<1>7. QED
  BY <1>5, <1>6 DEF Timer

LEMMA MapStep ==
  ASSUME ~UseLocalCartesian, TypeInv, MapInv, [Next]_vars
  PROVE  MapInv'
<1>1. ASSUME NEW raw \in RawFixes, Fix(raw) PROVE MapInv'
  BY <1>1, MapFix
<1>2. ASSUME NEW raw \in RawFixes, _fix_callback(raw) PROVE MapInv'
  <2>1. session = "mapping" /\ session' = session
    BY <1>2 DEF _fix_callback, Recording
  <2>2. QED
    BY <2>1, MapKept DEF Undisturbed
<1>3. ASSUME NEW x \in OdomPoses, NEW d \in Headings, Odom(Pose(x, d)) PROVE MapInv'
  <2>1. UNCHANGED <<session, writing, commands, use_manual_datum, manual_datum_geopose, file,
                    transform_good, force_user_utm, utm_zone, local_origin, latest_fix,
                    latest_cartesian_pose, sent, blind, mixed, gps_updated>>
    BY <1>3 DEF Odom, odomCallback, rvars, grid
  <2>2. QED
    BY <2>1, MapKept
<1>4. ASSUME NEW yaw \in Headings, NEW can \in BOOLEAN, Heading(yaw, can) PROVE MapInv'
  <2>1. UNCHANGED <<session, writing, commands, use_manual_datum, manual_datum_geopose, file,
                    transform_good, force_user_utm, utm_zone, local_origin, latest_fix,
                    latest_cartesian_pose, sent, blind, mixed, gps_updated>>
    BY <1>4 DEF Heading, imuCallback, rvars, grid, latest
  <2>2. QED
    BY <2>1, MapKept
<1>5. ASSUME NEW yaw \in Headings, _heading_callback(yaw) PROVE MapInv'
  <2>1. session = "mapping" /\ session' = session
    BY <1>5 DEF _heading_callback, Recording
  <2>2. QED
    BY <2>1, MapKept DEF Undisturbed
<1>6. CASE TransformKnown
  BY <1>6, MapKept DEF TransformKnown, nvars
<1>7. CASE Command
  <2>1. commands' # 0 /\ UNCHANGED <<session, writing>>
    BY <1>7 DEF Command, TypeInv, RtkType
  <2>2. QED
    BY <2>1, MapKept DEF Undisturbed
<1>8. CASE Timer
  BY <1>8, MapTimer
<1>9. CASE WriteOrigin
  <2>1. session = "mapping" /\ session' = session
    BY <1>9 DEF WriteOrigin, MapInv
  <2>2. QED
    BY <2>1, MapKept DEF Undisturbed
<1>10. ASSUME NEW kind \in Sessions, Launch(kind) PROVE MapInv'
  <2>1. /\ session' = kind /\ writing' = Nothing /\ mixed' = {} /\ file' = file
        /\ NavSatStart(kind = "navigation", file)
    BY <1>10 DEF Launch
  <2>2. CASE kind = "navigation"
    <3>1. NavSatStart(TRUE, file)
      BY <2>1, <2>2
    <3>2. /\ use_manual_datum' = TRUE /\ manual_datum_geopose' = file /\ utm_zone' = 0
          /\ gps_updated' = FALSE /\ force_user_utm' = FALSE /\ transform_good' = FALSE
      BY <3>1 DEF NavSatStart
    <3>3. QED
      BY <2>1, <3>2 DEF MapInv, Nothing
  <2>3. CASE kind # "navigation"
    BY <2>1, <2>3 DEF MapInv, Undisturbed, Nothing
  <2>4. QED
    BY <2>2, <2>3
<1>11. CASE Stop
  BY <1>11 DEF Stop, MapInv, Undisturbed, Nothing
<1>12. CASE UNCHANGED vars
  BY <1>12, MapKept DEF vars, nvars, rvars
<1>13. QED
  BY <1>1, <1>2, <1>3, <1>4, <1>5, <1>6, <1>7, <1>8, <1>9, <1>10, <1>11, <1>12 DEF Next

\* In UTM grids (use_local_cartesian: false, as deployed) a navigation session
\* in which nobody replaces the datum is smoothed on the recorded map only.  On
\* the local plane a fix that comes before the first odometry is projected into
\* the plane at latitude and longitude 0, and published through the transform
\* of another: there SmoothedOnMap does not hold.
THEOREM SmoothedStaysOnMap ==
  ASSUME ~UseLocalCartesian
  PROVE  Spec => []SmoothedOnMap
<1>1. Init => TypeInv /\ MapInv
  BY TypeInit, MapInit
<1>2. TypeInv /\ MapInv /\ [Next]_vars => (TypeInv /\ MapInv)'
  BY TypeStep, MapStep
<1>3. MapInv => SmoothedOnMap
  BY DEF MapInv, SmoothedOnMap, Undisturbed
<1>4. QED
  BY <1>1, <1>2, <1>3, PTL DEF Spec
=============================================================================
