------------------------------- MODULE FastLio -------------------------------
(***************************************************************************)
(* The front end of FAST_LIO's laser_mapping node: the callbacks that fill *)
(* the lidar and IMU buffers, sync_packages, which groups one scan with    *)
(* the IMU data up to its end, and the timer callback that initializes the *)
(* IMU, propagates the state through the group, builds the map and         *)
(* publishes /Odometry.                                                    *)
(*                                                                         *)
(* rclcpp::spin runs one callback at a time, so each callback is one       *)
(* action.  A point cloud is what the control flow reads of it: the time   *)
(* offset of its last point and its size after downsampling.  The state is *)
(* abstracted to the time it has been propagated to.  Times are counted in *)
(* the lidar driver's clock; get_ros_time and get_time_sec convert without *)
(* changing them.                                                          *)
(***************************************************************************)
EXTENDS Integers, Sequences, FiniteSets

CONSTANTS
  Clouds,              \* the point clouds a message may hold after preprocessing
  TimeSyncEn,          \* common.time_sync_en, with a Livox lidar
  TimeDiffLidarToImu,  \* common.time_offset_lidar_to_imu
  SyncGap,             \* the clocks differ by more: livox_pcl_cbk syncs them
  SyncLead,            \* the scan time it adds
  MaxIniCount,         \* MAX_INI_COUNT
  Uninitialized,       \* what ImuProcess::last_lidar_end_time_ may hold at first
  Period,              \* the least distance between the stamps of two scans
  ImuPeriod,           \* and of two IMU messages
  MaxTime,             \* bound: stamps
  MaxScans,            \* bound: lidar messages
  MaxImus,             \* bound: IMU messages
  MaxLoopBacks         \* bound: messages stamped before their predecessor

Cloud == [offset : Nat, size : Nat]

ASSUME FastLioAssumption ==
  /\ Clouds \subseteq Cloud
  /\ TimeSyncEn \in BOOLEAN
  /\ TimeDiffLidarToImu \in Int
  /\ {SyncGap, SyncLead, MaxIniCount, MaxTime, MaxScans, MaxImus, MaxLoopBacks}
       \subseteq Nat
  /\ {Period, ImuPeriod} \subseteq Nat \ {0}
  /\ Uninitialized \subseteq Int

VARIABLES
  lidarBuffer,       \* lidar_buffer
  timeBuffer,        \* time_buffer
  imuBuffer,         \* imu_buffer
  lastTimestampLidar,
  lastTimestampImu,
  timediff,          \* timediff_lidar_wrt_imu
  timediffSet,       \* timediff_set_flg
  lidarPushed,       \* lidar_pushed
  measures,          \* Measures, with lidar_end_time
  scanNum,           \* scan_num
  scanTimes,         \* scan_num * lidar_mean_scantime
  flgFirstScan,      \* flg_first_scan
  imuNeedInit,       \* imu_need_init_
  initIterNum,       \* init_iter_num
  lastImu,           \* stamp of last_imu_
  lastLidarEndTime,  \* last_lidar_end_time_
  featsUndistort,    \* feats_undistort, as the scan it was made from
  stateTime,         \* the time the state stands for (-1: not initialized)
  mapBuilt,          \* ikdtree.Root_Node != nullptr
  odometry,          \* the last odometry message published
  received           \* counts of messages; what the sensors' clocks did

buffers == <<lidarBuffer, timeBuffer, imuBuffer>>
stamps == <<lastTimestampLidar, lastTimestampImu>>
sync == <<timediff, timediffSet>>
grouping == <<lidarPushed, measures, scanNum, scanTimes>>
imuProcess == <<imuNeedInit, initIterNum, lastImu, lastLidarEndTime>>
estimator == <<featsUndistort, stateTime, mapBuilt, odometry>>
vars == <<buffers, stamps, sync, grouping, flgFirstScan, imuProcess, estimator,
          received>>

-----------------------------------------------------------------------------
\* What the variables hold.

Scan == [id : Nat, time : Int, cloud : Cloud]

\* id 0: none.
NoScan == [id |-> 0, time |-> 0, cloud |-> [offset |-> 0, size |-> 0]]

\* raw is the sensor's stamp, time the one the message gets.
Imu == [raw : Int, time : Int]

MeasureGroup == [lidar : Scan, begTime : Int, endTime : Int, imu : Seq(Imu)]

TypeOK ==
  /\ lidarBuffer \in Seq(Scan)
  /\ timeBuffer \in Seq(Int)
  /\ imuBuffer \in Seq(Imu)
  /\ lastTimestampLidar \in Int
  /\ lastTimestampImu \in Int
  /\ timediff \in Int
  /\ timediffSet \in BOOLEAN
  /\ lidarPushed \in BOOLEAN
  /\ measures \in MeasureGroup
  /\ scanNum \in Nat
  /\ scanTimes \in Nat
  /\ flgFirstScan \in BOOLEAN
  /\ imuNeedInit \in BOOLEAN
  /\ initIterNum \in 1..(MaxImus + 1)
  /\ lastImu \in Int
  /\ lastLidarEndTime \in Int
  /\ featsUndistort \in Scan
  /\ stateTime \in Int
  /\ mapBuilt \in BOOLEAN
  /\ odometry \in [stamp : Int, scan : Nat, state : Int]
  /\ received \in [scans : Nat, imus : Nat, rawImu : Int, loopBacks : Nat]

-----------------------------------------------------------------------------
\* Lidar and IMU callbacks.

Distance(a, b) == IF a < b THEN b - a ELSE a - b

\* The buffers after the loop-back test of the lidar callbacks.
ClearedOnLoopBack(looped) ==
  [scans |-> IF looped THEN <<>> ELSE lidarBuffer, times |-> timeBuffer]

\* livox_pcl_cbk; standard_pcl_cbk is the same without the time sync.  Before
\* the first scan (is_first_lidar) the last stamp is 0, before every stamp.
LidarCallback(time, cloud) ==
  LET looped == time < lastTimestampLidar
      cleared == ClearedOnLoopBack(looped)
      scan == [id |-> received.scans + 1, time |-> time, cloud |-> cloud]
      syncs == /\ TimeSyncEn
               /\ ~timediffSet
               /\ Distance(time, lastTimestampImu) > SyncGap
               /\ imuBuffer # <<>>
  IN /\ received.scans < MaxScans
     /\ IF looped THEN received.loopBacks < MaxLoopBacks
                  ELSE time >= lastTimestampLidar + Period
     /\ lidarBuffer' = Append(cleared.scans, scan)
     /\ timeBuffer' = Append(cleared.times, time)
     /\ lastTimestampLidar' = time
     /\ timediffSet' = (timediffSet \/ syncs)
     /\ timediff' = IF syncs THEN time + SyncLead - lastTimestampImu ELSE timediff
     /\ received' = [received EXCEPT !.scans = @ + 1,
                                     !.loopBacks = IF looped THEN @ + 1 ELSE @]
     /\ UNCHANGED <<imuBuffer, lastTimestampImu, grouping, flgFirstScan,
                    imuProcess, estimator>>

\* rclcpp::Time(double) takes its argument for nanoseconds.
NanosecondsPerSecond == 1000000000
TimeOfNanoseconds(t) == t \div NanosecondsPerSecond

\* The stamp imu_cbk gives a message.
ImuStamp(raw) ==
  IF TimeSyncEn /\ Distance(timediff, 0) > SyncLead
  THEN TimeOfNanoseconds(timediff + raw)
  ELSE raw - TimeDiffLidarToImu

\* The IMU buffer after imu_cbk's loop-back test.
ImuKept(time) == IF time < lastTimestampImu THEN <<>> ELSE imuBuffer

\* imu_cbk.
ImuCallback(raw) ==
  LET time == ImuStamp(raw)
  IN /\ received.imus < MaxImus
     /\ IF raw < received.rawImu THEN received.loopBacks < MaxLoopBacks
                                 ELSE raw >= received.rawImu + ImuPeriod
     /\ imuBuffer' = Append(ImuKept(time), [raw |-> raw, time |-> time])
     /\ lastTimestampImu' = time
     /\ received' = [received EXCEPT !.imus = @ + 1,
                                     !.rawImu = raw,
                                     !.loopBacks = IF raw < received.rawImu
                                                   THEN @ + 1 ELSE @]
     /\ UNCHANGED <<lidarBuffer, timeBuffer, lastTimestampLidar, sync, grouping,
                    flgFirstScan, imuProcess, estimator>>

-----------------------------------------------------------------------------
\* sync_packages.

\* Too few points, or a last point earlier than half the mean scan time.
LacksScanTime(cloud) == cloud.size <= 1 \/ 2 * cloud.offset * scanNum < scanTimes

\* lidar_mean_scantime, the mean over the scans counted so far.
LidarMeanScantime == IF scanNum = 0 THEN 0 ELSE scanTimes \div scanNum

\* How long a scan is taken to last.
ScanTime(cloud) == IF LacksScanTime(cloud) THEN LidarMeanScantime ELSE cloud.offset

\* Mutant of ScanStamp: the newest stamp instead of the oldest.
ScanStampNewest == timeBuffer[Len(timeBuffer)]

\* The stamp the scan at the front is paired with.
ScanStamp == Head(timeBuffer)

\* Measures once a scan has been pushed into it.
Pushed ==
  IF lidarPushed
  THEN measures
  ELSE LET scan == Head(lidarBuffer)
       IN [measures EXCEPT !.lidar = scan,
                           !.begTime = ScanStamp,
                           !.endTime = ScanStamp + ScanTime(scan.cloud)]

\* The scan counts for the mean scan time when it is pushed.
CountScan ==
  LET cloud == Head(lidarBuffer).cloud
      counts == ~lidarPushed /\ ~LacksScanTime(cloud)
  IN /\ scanNum' = IF counts THEN scanNum + 1 ELSE scanNum
     /\ scanTimes' = IF counts THEN scanTimes + cloud.offset ELSE scanTimes

\* Mutant of ImuCovers: one IMU message in the buffer is enough.
ImuCoversAny(end) == imuBuffer # <<>>

\* Mutant of ImuCovers: a message exactly at the end does not count.
ImuCoversStrictly(end) == lastTimestampImu > end

\* The IMU data reaches the end of the scan.
ImuCovers(end) == ~(lastTimestampImu < end)

\* How many messages the loop moves from the IMU buffer into Measures: those
\* before the end of the scan, and the next one if it is stamped exactly at the
\* end.  None if already the first one is not before the end.
ImuTaken(end) ==
  LET n == Cardinality({i \in DOMAIN imuBuffer : imuBuffer[i].time < end})
      atEnd == n \in 1..(Len(imuBuffer) - 1) /\ imuBuffer[n + 1].time = end
  IN IF atEnd THEN n + 1 ELSE n

\* The IMU buffer after k messages are popped.
ImuLeft(k) == SubSeq(imuBuffer, k + 1, Len(imuBuffer))

\* sync_packages returns true.
TakeGroup ==
  LET k == ImuTaken(Pushed.endTime)
  IN /\ lidarBuffer # <<>>
     /\ imuBuffer # <<>>
     /\ ImuCovers(Pushed.endTime)
     /\ CountScan
     /\ measures' = [Pushed EXCEPT !.imu = SubSeq(imuBuffer, 1, k)]
     /\ imuBuffer' = ImuLeft(k)
     /\ lidarBuffer' = Tail(lidarBuffer)
     /\ timeBuffer' = Tail(timeBuffer)
     /\ lidarPushed' = FALSE
     /\ UNCHANGED <<stamps, sync, received>>

-----------------------------------------------------------------------------
\* The timer callback.

\* sync_packages returns false but pushes a scan, whose IMU data is awaited.
PushScan ==
  /\ lidarBuffer # <<>>
  /\ imuBuffer # <<>>
  /\ ~lidarPushed
  /\ ~ImuCovers(Pushed.endTime)
  /\ CountScan
  /\ measures' = Pushed
  /\ lidarPushed' = TRUE
  /\ UNCHANGED <<buffers, stamps, sync, flgFirstScan, imuProcess, estimator,
                 received>>

\* The first scan only sets first_lidar_time.
DiscardFirstScan ==
  /\ flgFirstScan
  /\ TakeGroup
  /\ flgFirstScan' = FALSE
  /\ UNCHANGED <<imuProcess, estimator>>

\* The rest of the callback after ImuProcess::Process, with the contents of
\* feats_undistort: too few points are skipped, the first map needs more than
\* five, and a scan registered in the map gives the odometry.
Register(scan) ==
  LET builds == ~mapBuilt /\ scan.cloud.size > 5
      registers == mapBuilt /\ scan.cloud.size >= 5
  IN /\ mapBuilt' = (mapBuilt \/ builds)
     /\ odometry' = IF registers
                    THEN [stamp |-> measures'.endTime, scan |-> scan.id,
                          state |-> stateTime']
                    ELSE odometry

\* Process returns at once without IMU data: feats_undistort is as it was.
ProcessWithoutImu ==
  /\ ~flgFirstScan
  /\ TakeGroup
  /\ measures'.imu = <<>>
  /\ UNCHANGED <<flgFirstScan, imuProcess, featsUndistort, stateTime>>
  /\ Register(featsUndistort)

\* Process while the IMU is being initialized (IMU_init).
ProcessImuInit ==
  /\ ~flgFirstScan
  /\ imuNeedInit
  /\ TakeGroup
  /\ measures'.imu # <<>>
  /\ initIterNum' = initIterNum + Len(measures'.imu)
  /\ imuNeedInit' = ~(initIterNum' > MaxIniCount)
  /\ lastImu' = measures'.imu[Len(measures'.imu)].time
  /\ stateTime' = lastImu'
  /\ UNCHANGED <<flgFirstScan, lastLidarEndTime, featsUndistort>>
  /\ Register(featsUndistort)

\* Mutant of PropagationStep: the part before the last scan's end is not cut off.
PropagationStepUncut(head, tail) == tail - head

\* dt of one turn of UndistortPcl's loop, between two IMU messages; one that
\* ends before the last scan's end is skipped.
PropagationStep(head, tail) ==
  IF tail < lastLidarEndTime
  THEN 0
  ELSE IF head < lastLidarEndTime THEN tail - lastLidarEndTime ELSE tail - head

\* How far the loop has propagated the state when it has come to stamp v[i].
Propagated(v) ==
  LET dt[i \in 1..Len(v)] ==
        IF i = 1 THEN 0 ELSE dt[i - 1] + PropagationStep(v[i - 1], v[i])
  IN dt

\* The stamps of v_imu: last_imu_ and the IMU messages of the group.
ImuStamps(group) == <<lastImu>> \o [i \in DOMAIN group.imu |-> group.imu[i].time]

\* The time UndistortPcl propagates the state by: through the IMU messages, then
\* to the end of the scan.
Propagation(group) ==
  LET v == ImuStamps(group)
  IN Propagated(v)[Len(v)] + Distance(group.endTime, v[Len(v)])

\* Process once the IMU is initialized (UndistortPcl).
ProcessUndistort ==
  /\ ~flgFirstScan
  /\ ~imuNeedInit
  /\ TakeGroup
  /\ measures'.imu # <<>>
  /\ stateTime' = stateTime + Propagation(measures')
  /\ lastImu' = measures'.imu[Len(measures'.imu)].time
  /\ lastLidarEndTime' = measures'.endTime
  /\ featsUndistort' = measures'.lidar
  /\ UNCHANGED <<flgFirstScan, imuNeedInit, initIterNum>>
  /\ Register(measures'.lidar)

-----------------------------------------------------------------------------
\* The specification.

Init ==
  /\ lidarBuffer = <<>>
  /\ timeBuffer = <<>>
  /\ imuBuffer = <<>>
  /\ lastTimestampLidar = 0
  /\ lastTimestampImu = -1
  /\ timediff = 0
  /\ timediffSet = FALSE
  /\ lidarPushed = FALSE
  /\ measures = [lidar |-> NoScan, begTime |-> 0, endTime |-> 0, imu |-> <<>>]
  /\ scanNum = 0
  /\ scanTimes = 0
  /\ flgFirstScan = TRUE
  /\ imuNeedInit = TRUE
  /\ initIterNum = 1
  /\ lastImu = 0
  /\ lastLidarEndTime \in Uninitialized
  /\ featsUndistort = NoScan
  /\ stateTime = -1
  /\ mapBuilt = FALSE
  /\ odometry = [stamp |-> -1, scan |-> 0, state |-> -1]
  /\ received = [scans |-> 0, imus |-> 0, rawImu |-> 0, loopBacks |-> 0]

TimerCallback ==
  \/ PushScan
  \/ DiscardFirstScan
  \/ ProcessWithoutImu
  \/ ProcessImuInit
  \/ ProcessUndistort

Next ==
  \/ \E time \in 1..MaxTime, cloud \in Clouds : LidarCallback(time, cloud)
  \/ \E raw \in 1..MaxTime : ImuCallback(raw)
  \/ TimerCallback

\* The timer fires every 10 ms for as long as the node spins.
Spec == Init /\ [][Next]_vars /\ WF_vars(TimerCallback)

-----------------------------------------------------------------------------
\* Properties.

\* The sensors' clocks never went back.
Monotone == received.loopBacks = 0

\* A group's stamp belongs to its scan: "Lidar data and imu dates for the
\* curent process" (common_lib.h, MeasureGroup).  A loop back clears
\* lidar_buffer and not time_buffer, which are used in pairs.
GroupHoldsItsStamp == measures.begTime = measures.lidar.time

\* A group's IMU data ends where its scan ends: none of it is later, and what
\* is still buffered, or arrives only after the group was taken, is not earlier
\* (sync_packages).
ImuSplitAtScanEnd ==
  Monotone /\ ~lidarPushed /\ measures.lidar # NoScan =>
    /\ \A i \in DOMAIN measures.imu : measures.imu[i].time <= measures.endTime
    /\ \A i \in DOMAIN imuBuffer : measures.endTime <= imuBuffer[i].time

\* The state is propagated through time without gap or overlap: after every
\* scan processed with IMU data it stands for the end of that scan, however the
\* IMU messages fall around the ends of the scans, also if groups without IMU
\* data lie between (UndistortPcl).  The first scan relies on
\* last_lidar_end_time_, which no constructor sets, being zero.
PropagatedToScanEnd ==
  Monotone /\ featsUndistort # NoScan => stateTime = lastLidarEndTime

\* /Odometry stamps do not go back, so the filter behind it never has to drop a
\* message as older than its predecessor (publish_odometry stamps each with
\* lidar_end_time, which scans without point offsets only estimate).
OdometryStampsMonotone ==
  [][Monotone' => odometry'.stamp >= odometry.stamp]_vars

\* The stamp an IMU message has in the lidar's clock.
AlignedStamp(raw) == raw + timediff - (IF timediffSet THEN 0 ELSE TimeDiffLidarToImu)

\* Scans whose time the IMU data covers are taken: none waits at the front of
\* the buffer for ever.  With time_sync_en the README promises "a very simple
\* software time sync", by which the IMU stamps are shifted to the lidar's.
ScansAreTaken ==
  LET Waits ==
        /\ Monotone
        /\ lidarBuffer # <<>>
        /\ \A c \in Clouds : Head(lidarBuffer).time + c.offset
                             <= AlignedStamp(received.rawImu)
  IN Waits ~> ~Waits
=============================================================================
