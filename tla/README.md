# TLA+ models of the RTK global localization workspace

Specifications, model-checking configurations and machine-checked proofs for
the parts of this ROS 2 workspace whose correctness depends on the order in
which things happen: the state estimation node, the GPS path and the odometry
sanitizer in front of it, the lidar-inertial odometry with the thread that
rebuilds its map, the lidar driver, and the part of Nav2 that brings the servers
up and drives the patrol.

## 1. The system

    Livox lidar -> livox_ros_driver2 -> FAST_LIO -> /Odometry
        -> odometry_sanitizer.py -> differential pose input   \
    /ap/navsat -> navsat_fix_sanitizer.py -> navsat_transform  |-> ekf_filter_node_map
        -> odometry_low_pass_filter.py -> absolute x, y input  |   (RosFilter<Ekf>)
    IMU -> imu_ned_to_enu.py -> map_relative_heading_imu.py   /    -> /odometry/global,
        -> absolute yaw input                                      map->odom transform -> Nav2

| Component | State it keeps | Operations | Hard behaviour | What makes it correct |
|---|---|---|---|---|
| `robot_localization` `RosFilter` | measurement priority queue, filter state and its time, state and measurement histories, last message times, previous differential poses, controls, lifecycle and enable flags | sensor callbacks, control, `periodicUpdate`, `set_pose`, `reset`, `toggle`, `enable`, lifecycle transitions | out-of-order and lagged data, replay, equal stamps, data from the future, failing transforms, commands between a message and its use | no measurement lost or used twice, stamp order, a set pose is not undone, output time increases and never passes the clock, queue drains |
| FAST_LIO front end | lidar, stamp and IMU buffers, the group being built, IMU initialization, time of the last scan's end | `livox_pcl_cbk`, `standard_pcl_cbk`, `imu_cbk`, `timer_callback` (`sync_packages`, `ImuProcess::Process`) | two streams with different rates and clocks, clocks that go back, scans without IMU data | IMU data split exactly at scan ends, propagation without gap or overlap, stamps that belong to their scan, no scan waits for ever |
| FAST_LIO ikd-Tree | tree, rebuild pointer and flag, operation log, search counter, two mutexes | insert, delete, searches, rebuild thread | replay of logged operations, swap and free under concurrent searches | no operation lost by a rebuild, no search in a subtree that is flattened or swapped, no deadlock |
| FAST_LIO local map | cube of the map | `lasermap_fov_segment`, `map_incremental` | none, one thread | the sensor's range stays inside the cube |
| `livox_ros_driver2` | per lidar: configuration bits, connection state, frame ring buffer, IMU queue; semaphores, exit flags | SDK callbacks, frame and IMU storage, two poll threads, destructor | lock-free queue, check-then-signal, timeouts and refusals of commands, shutdown of blocked threads | the queue is a FIFO, no torn read, no lost wake-up, sampling only when configured |
| `livox_ros_driver2` frame assembly | raw packet queue, frame under construction | `OnLivoxLidarPointCloudCallback`, `CheckTimer` | lost and late packets | every point published once, frames of one interval |
| `odometry_sanitizer.py` | last input, last published pose and time | one callback | outliers, gaps, equal and older stamps | no drift faster than the vehicle, right odometry is not rejected for ever |
| `navsat_fix_sanitizer.py`, `odometry_low_pass_filter.py`, `map_origin_recorder.py` | low-pass state; origin file, recorded flag | one callback each | crash while writing, state that is never reset | one origin for all sessions, positions on its map |
| `navsat_transform` | datum, grid, transform and the flags of what has arrived | fix, odometry, heading, datum, zone, parameters, timer | order of arrival, a datum or zone set late, missing transforms | positions relative to the datum in force, every fix published |
| Nav2 lifecycle manager | states of the servers, bonds, timers, clients | five commands, bond timer, respawn timer | servers that die, refuse or come back in the middle of a command | what is reported active is watched; order of bring-up; recovery |
| Nav2 waypoint follower and `SimpleActionServer` | current and pending goal, worker, inner navigation goal, index, failed poses | goals, cancel, preempt, results, deactivation | three threads, late and crossed answers | no pose skipped, every goal answered, no wait for ever |
| `model` waypoint runner | clicked goal, start pose, goal in flight | callbacks, action client loop | it hears its topics only where it spins | the start is the latest estimate, rounds go on |
| relays, `pcd2pgm`, `pointcloud_to_laserscan` | none worth modelling | conversions | none | none |
| the rest of `navigation2`, `Livox-SDK2` | upstream code | | | taken as they are |

Threads: `RosFilter`, `navsat_transform`, `laser_mapping` and the Python nodes are
spun by a single-threaded executor, so a callback is atomic. `laser_mapping` has
the ikd-Tree's rebuild thread and an OpenMP team of searches besides. The Livox
driver has the SDK's command and data threads, the frame assembly thread, two
poll threads and whoever destroys the node. The waypoint follower has its
executor and the worker of its action server. The map origin file is the only
state that survives a restart and is read again.

## 2. Modules

| Module | What it is |
|---|---|
| `RosFilter` | the state estimation node (`ros_filter.cpp`, `filter_base.cpp`) |
| `RosFilterProofs` | its theorems |
| `MCRosFilter` | topic symmetry for TLC |
| `FastLio` | the FAST_LIO front end (`laserMapping.cpp`, `IMU_Processing.hpp`) |
| `FastLioProofs` | its theorems |
| `MCFastLio` | the point clouds TLC uses |
| `FrameFifo` | abstract specification: a bounded FIFO of frames |
| `LivoxDriver` | the driver between SDK and topics, which implements `FrameFifo` per lidar |
| `LivoxDriverProofs` | its theorems, among them the refinement of `FrameFifo` |
| `MCLivoxDriver` | two of the four configuration options, for TLC |
| `IkdRebuild` | the ikd-Tree's rebuild thread against the mapping thread and its team (`ikd_Tree.cpp`) |
| `IkdRebuildProofs` | its theorems |
| `MCIkdRebuild` | its instance for TLC |
| `NavSatTransform` | the `navsat_transform` node |
| `RtkLocalization` | `NavSatTransform` composed with the fix sanitizer, the low-pass filter, the origin recorder and the launch file, over sessions |
| `RtkLocalizationProofs` | its theorems |
| `MCRtkLocalization` | two positions in two UTM zones, and a zone the user may force that reaches only one of them |
| `OdometrySanitizer` | `odometry_sanitizer.py` with a vehicle and a lidar clock |
| `OdometrySanitizerProofs` | its theorems |
| `MCOdometrySanitizer` | its positions |
| `LifecycleManager` | `nav2_lifecycle_manager` and the servers it manages |
| `LifecycleManagerProofs` | its theorems |
| `MCLifecycleManager` | three of the seven servers of `navigation_launch.py` |
| `ActionGoal` | abstract specification: a goal as its client sees it |
| `SimpleActionServer` | `nav2_util::SimpleActionServer` |
| `WaypointFollower` | `nav2_waypoint_follower` over `SimpleActionServer`, with `bt_navigator` reduced to what its action server answers |
| `WaypointLoop` | `waypoint_loop_runner.py` and an operator over `WaypointFollower`, which implements `ActionGoal` per goal |
| `WaypointLoopProofs` | theorems about all three, among them the refinement of `ActionGoal` |
| `MCWaypointLoop` | its instance for TLC |

A definition whose comment begins with "Mutant" is a plausible mistake in the
definition that follows it or that the comment names; it is used only to confirm that a property would
notice the mistake. `PROJECT.json` pairs each property with such a definition
and maps every definition to the source lines it stands for.

### RosFilter

Each callback is one action (`SensorCallback`, `ControlCallback`, `SetPose`,
`ResetSrv`, `ToggleFilterProcessing`, `EnableFilter`, `OnConfigure` ...
`OnShutdown`). `periodicUpdate` is unrolled into `BeginUpdate` (the revert),
`IntegrateOne` (one turn of the loop) and `FinishUpdate` (prediction,
publication, expiry), because `std::priority_queue` leaves the order of equal
stamps open; `pc` keeps everything else out while the loop runs, as the executor
does. Variables carry the members' names.

The state vector and covariance are abstracted to their *lineage*: the sequence
of measurements processed since the last reset or `set_pose`. A measurement that
the Mahalanobis test gates out is in the lineage too. Time is in nanoseconds,
so `revertTo(t - 1ns)` is `t - 1`. Whether a transform is available is chosen
freely per message. A differential measurement records the stamp of the pose it
was subtracted from (`from`) and its divisor (`dt`), which is 0 for a topic's
first message after a reset: `last_message_times_` is given the message's own stamp
before it is read (`LastMessageTime`). `predict_to_current_time` is a variable,
chosen in `OnConfigure` from `PredictSettings`, so that one run covers both
settings. Two ghost variables record what properties except: `predictedTo`, the
latest time the filter was moved to ahead of its data, and `poseFailed`, the
topics whose last pose could not be transformed.

A message with several parts (odometry: pose and twist; IMU: all three) is
several `SensorCallback`s in a row; the model also lets other callbacks run in
between, which only adds behaviours.

### FastLio

`LidarCallback` and `ImuCallback` are the three subscription callbacks;
`PushScan`, `DiscardFirstScan`, `ProcessWithoutImu`, `ProcessImuInit` and
`ProcessUndistort` are the paths through `timer_callback` that change state,
each with all of `sync_packages` (`TakeGroup`), `ImuProcess::Process` and what
follows it (`Register`). A cloud is reduced to the offset of its last point and
its size; the state to the time it stands for (`stateTime`), advanced by the sum
of the intervals `UndistortPcl` integrates over (`Propagation`; its loop is the
recursive function `Propagated`). `received` tracks what the
sensors' clocks did, so that properties can be restricted to clocks that never
went back.

### LivoxDriver

One step is what a thread does between two accesses to shared data: the ring
buffer's slot (`WriteSlot`, `CopySlot`), its indices (`AdvanceIndex`,
`PopAndPublish`), the semaphore's count without (`CheckSemaphore`) and with its
mutex (`Signal`, `PollWait`), `request_exit_` and the exit future (`PollTop`,
`PollFuture`). The two indices are `volatile` and not atomic; the model gives
each thread a possibly stale copy of the other's index (`rdSeen`, `wrSeen`) that
becomes current at some later time (`StoreVisible`) or when a mutex is taken.
A store is never seen before an earlier store of the same thread: this is
x86-64. On ARM the code has no such guarantee, and the results do not carry over.

The configuration handshake is `AddLidar`, `ConfigureLidar` and the three
outcomes of a set command; each option has its own outstanding requests, since
repeated `LidarInfoChangeCallback`s can send the same command twice.
`~DriverNode` is `RequestExit`, `SetExitSignal` and two `Join`s.

`FrameFifo` says what this machinery promises: frames enter at the back, leave
at the front, once and in order, and at most `Capacity` are stored. The mapping
takes `queue` to the slots between `rd` and `wr` and `delivered` to the last
frame published; `QueueIsFifo` states that the driver implements it.

### IkdRebuild

The tree is reduced to the subtree under `Rebuild_Ptr`, and that to its set of
points. One step is what a thread does between two accesses to shared state: the
mapping thread compares the node with `*Rebuild_Ptr` (`Descend`), then either
changes the subtree directly (`Direct`) or locks, applies, logs and unlocks
(`Lock`, `ApplyAndLog`); its OpenMP team counts itself in and out
(`SearchCompare`, `SearchEnter`, `SearchLeave`), while it waits for the team;
`RangeBegin` and `RangeEnd` are `Search_by_range`. The rebuild thread is `Start`
to `Delete`, one action per critical section of `multi_thread_rebuild`. The
unlocked comparison reads two pointers; when the swap falls between the loads the
thread goes on in the old nodes (`Straddles`, states "torn" and "lost").
`rebuild_logger_mutex` is only taken inside the others' critical sections, and
`rebuild_ptr_mutex` is held whenever the rebuild thread is not idle. Push_Down by
a searcher is attributed to the mapping thread as a `DELETE_BOX`. The withdrawal
of a request at line 843 never happens, since `TreeSize` counts deleted points.

### NavSatTransform and RtkLocalization

The earth is a line: a position is an integer, a heading 1 or -1, a grid (UTM
zone or local plane) subtracts its base, and a rigid transform is `at + dir * x`.
So a position has a value on its whole way, and a transform computed with the
wrong datum, grid or heading shows. Each callback, service and the timer is one
action. `RtkLocalization` adds what is around the node: which fixes the sanitizer
lets through, the low-pass state as the set of positions mixed into it, the
recorder, which keeps its latest fix and heading, truncates the file in one step
and writes in another, and `Launch` and `Stop`, which may come between any two
steps. Its `require_heading` is taken as set, as in the launch file.

`UTMUPS::Forward` throws for a zone whose central meridian is too far from the
position (60 degrees in GeographicLib). In the model a zone reaches `ZoneReach`
zones to either side (`Converts`), and `setUTMZone` may force any of `Zones` or the
standard zone of a position. The error returns of `setTransformGps`, which leaves
`transform_cartesian_pose_` and `has_transform_gps_` as they were, and of
`gpsFixCallback` are modelled. A zone string that cannot be parsed, whose exception
nothing catches, is not.

### OdometrySanitizer

A pose is a position on a line and a yaw on a circle. `_callback` takes any pose
at all, so outliers and losses need no actions of their own; `Drive` moves the
vehicle and `ClockSteps` sets the lidar's clock back.

### LifecycleManager

The service thread executes one operation at a time, as a sequence of calls
(`op` is where it is); `Die`, `Respawn` and the other faults come between any two
calls or into one. A client's exception, a call without an answer ("hung"), a
null client and a null bond are outcomes of the calls.

`bond_timeout` is chosen from `BondTimeouts` at the start. With the 0.0 that
`rtk_global_localization.launch.py:497` gives the manager of the EKF nodes,
`createBondConnection` makes no bond and `createBondTimer` no timer (`Bonding`).
`onRclPreshutdown` runs on the thread that shuts the context down: it destroys the
bond timer at any time (`closing`), then waits for the service thread and clears
the maps (`joinServiceThread`). That both threads use the `bond_timer_` pointer
without a lock is not modelled.

### SimpleActionServer, WaypointFollower and WaypointLoop

`SimpleActionServer` holds the two goal handles and the worker; its operations
are atomic under `update_mutex_`, `handle_accepted` and the end of `work()` are
split where the lock is released. `WaypointFollower` unrolls `followWaypoints`
at each call another thread can come between. `bt_navigator` is a
`SimpleActionServer` too; here a navigation goal is accepted or rejected, and ends in
any way its behavior tree, a preemption or a cancellation may end it. Its responses and
results arrive in any order and are delivered only where the follower spins its
own executor. `goal` and `goal_size` are the function's own copy of its goal,
which it keeps when the executor takes the goal away and the client reuses its
handle. `WaypointLoop` adds the runner, whose callbacks run only where it
spins, an operator who sends and cancels goals, and deactivation.

`ActionGoal` says what a client may rely on: its goal is accepted or rejected
once, answered at most once, canceled only on request, no pose reached is
forgotten while it is under way, and it has succeeded only if every pose was
reached or is among the missed ones. It says nothing of the other clients, and
lets any goal be aborted at any time, since others may preempt or deactivate. The
mapping takes the goal's own status, size and missed poses, and as the poses
reached those of the goal that the action server holds and `followWaypoints`
executes, and none otherwise; `GoalsKeepPromise` states that every goal follows it.

## 3. Runs

All runs are exhaustive for their bounds. `CHECK_DEADLOCK FALSE` is set wherever
the bounds on inputs let every behaviour stop, that is everywhere but in
`sanitizer_outliers`.

| Run | Configuration | Checks | Shows |
|---|---|---|---|
| `smooth` | smoothing and control input, no `predict_to_current_time`, 2 topics, 4 measurements, 4 instants, 3 commands, history of 2 | `NoMeasurementLost`, `SmoothedInOrder`, `SetPoseIsolates`, `HistoryPrecedesQueue`, `PublishedStampsIncrease` | replay after lagged data is right, also at the edge of the history and across `set_pose`, and no stamp is sent twice, except up to a predicted time |
| `deployed` | the flags of `ekf_map.yaml`, with both settings of `predict_to_current_time`, plus control input; 3 measurements, 3 instants, 3 commands, stamps up to 1 ahead of the clock | `TypeOK`, `NotAheadOfClock`, `DifferentialCovers`, `NewOutputByTimeout`, `QueueDrains` | the node keeps time, divides a displacement by its own interval unless a transform failed, gives newer output in the end after a timeout, and drains its queue |
| `short_history` | as `smooth`, without control, 2 commands | `AllMeasurementsFused` fails | finding 1 |
| `lio_sync` | 5 scans, 5 IMU messages, 6 instants, clocks that do not go back | `ImuSplitAtScanEnd`, `PropagatedToScanEnd`, `OdometryStampsMonotone`, `ScansAreTaken` | grouping and propagation are exact |
| `lio_loop_back` | one step back | `GroupHoldsItsStamp` fails | finding 2 |
| `livox` | 1 lidar not in the file, 2 options; ring of 2, indices of 4 values; either 5 frames and 2 info changes, or 3 info changes, a refusal and an IMU packet; timeouts without bound | `SamplingIsConfigured`, `NoTornRead`, `ConfiguredIsSampled`, `DataReleasesPoller`, `QueueIsFifo`, `PublishedWhenFollowed` | the handshake is right, and the queue is a FIFO through full, empty and wrap-around |
| `lifecycle_servers` | 3 servers, bond timeouts 0 and 4, 3 commands, 3 faults | `ActiveMeansWatched`, `NullOnlyAfterShutdown`, `BringUpOrder`, `RecoversWhenAllAlive` | with bonds, the manager knows what it reports, and recovers |
| `waypoint_patrol` | 2 clients, 3 navigation goals under way, 2 poses, 1 click, 1 estimate, 1 disturbance | `AloneNeverStuck`, `GoalsKeepPromise`, `StartIsLatestEstimate`, `GoalsAnswered`, `DeactivationReturns`, `PatrolServes` | each client is kept the promise of `ActionGoal`, no pose is skipped and no goal forgotten, apart from the exceptions in section 6 |
| `rtk_datum` | 2 sessions, 2 positions in 2 zones, a forced zone that reaches one of them, 2 commands per session | `DatumInForce`, `SmoothedOnMap`, `FixesArePublished` | positions are on the map of the recorded origin |
| `rtk_no_transform` | the same | `SmoothedWithoutTransform` fails | finding 3 |
| `ikd_rebuild` | 2 points, a team of 2, 4 operations | `NoReaderInside`, `FreedUnread`, `SwapPreserves`, `RebuildEnds` | the rebuild loses nothing and blocks nobody |
| `sanitizer_outliers` | 4 positions, 4 yaws, 3 instants, 1 step back of the clock | `DriftBounded`, `ValidIsAccepted`, `TwistWithinLimits` | outliers neither pass nor lock the filter |

Why the bounds suffice. A revert needs a state saved before, one saved after and
a lagged measurement: three measurements, two of which may share a stamp; the
fourth is a second lagged one, which reverts to a state saved after the first
revert. Four instants with a history of two let entries expire. A group can straddle a scan's
end, be empty, or follow an empty one within three scans after the first (which
is discarded) and the one that initializes the IMU. Five frames fill a ring of
two, wrap indices of four values, and leave one frame to be dropped. Two options
are enough for one to be acknowledged while the other is outstanding, and the third
info change sends commands again that are outstanding. Frames and the rest are
kept apart (`MaxMixed`), since the two paths share only the exit flag and whether the
lidar is sampling, both of which change in either case. A rebuild
needs one operation to ask for it, one logged during it and one that collides
with its end; the fourth is the next rebuild's. Three servers have a first, a
middle and a last one, and three faults are a death, a refusal and an intervention in any order.
Two navigation goals of an old route can be under way when a third is sent. Two
sessions are a recording, whole or cut short, and a navigation with it, or a
second recording; two commands are a forced zone and then a datum that it may not
reach, or the other way round. `ikd_rebuild` with 5 operations (1.9 million states) and
`sanitizer_outliers` with 5 positions, 4 instants and 2 steps of the clock (2.2
million states) were checked as well, with the same result, and so was
`GoalsKeepPromise` with 3 disturbances and no estimate (5.7 million states).

Fairness. `RosFilter`: weak for the update (the timer fires while the node is
active) and strong for the clock, which updates interrupt in the model but not in
fact. `FastLio`: weak for the 10 ms timer. `LivoxDriver`: weak for every thread
that can go on, for stores becoming visible, and for the success of a set command
(a lidar that does not refuse answers in the end, since timeouts are retried).
`IkdRebuild`: weak for each thread; a mutex is only sure to be had when it stays
free. `LifecycleManager`: weak for the service thread, for the two timers and, once the context shuts
down, for the wait for the service thread;
nobody is assumed to restart a dead server (`use_respawn` is off by default). `WaypointLoop`:
weak for the follower's two threads, the runner, the passing of time, and for the
navigator, which ends every goal it has accepted in one way or another.
`RtkLocalization`: weak for the timer and for the three sensors, which publish
periodically. No fairness is assumed of commands, faults, crashes, `RequestExit`
or refusals, nor of the sensors of the other modules.

## 4. What is proved

TLAPS proves the theorems below for every value of the constants: any number of
lidars, servers, points, topics, goals and poses, any bound, any configuration.
What is assumed of the constants is named in the module that declares them, and
is no more than the types of the parameters and what the code fixes:

- `ConfigAssumption`, `FastLioAssumption`, `EarthAssumption`, `NavSatParameters`,
  `RtkAssumption`, `BoundsAssumption`, `FollowerAssumption`, `GoalsAssumption`:
  types of the parameters, and "no goal" is not a goal.
- `LivoxAssumption`: a ring of at most 128 packets (`publish_freq` is clamped to
  100, so 101 are asked for at most), an index range that is a multiple of the
  ring's size and at least twice it (the sizes are powers of two, the indices 32
  bits wide).
- `IkdAssumption`: there is a point, and the team of searches is finite.
- `SanitizerAssumption`: the vehicle keeps within the limits it is configured with.
- `NodeNamesAssumption`: the list of servers is not empty and names none twice.
- `LoopAssumption`: two clients, the runner and an operator; a route has at least
  two poses.

Hypotheses a theorem states beyond these, and why the deployed configuration
satisfies them:

| Hypothesis | Theorem | Why |
|---|---|---|
| `~TimeSyncEn` | `ImuIsSplitAtScanEnd`, `StateIsAtScanEnd` | `time_sync_en: false`; the sync shifts the stamps of the messages that come after it only |
| `StartsBeforeImu` | `StateIsAtScanEnd` | what `last_lidar_end_time_` holds before the first scan is not later than any IMU stamp; no constructor sets it, zero satisfies this with stamps since 1970, and a later value would cut the first steps short |
| `ScansApart` | `OdometryIsInOrder` | no point of a cloud is later than the next scan, as a lidar that sends frames one after the other has it |
| `~UseLocalCartesian` | `SmoothedStaysOnMap` | `navsat_transform.yaml:14` |

### The estimation node (`RosFilterProofs`)

- `TypeCorrect`: all of `TypeOK`.
- `NeverAheadOfClock`: `NotAheadOfClock`. The invariant is `TimeInv`:
  besides the filter's own time it bounds the times of all saved states, since
  `revertTo` makes one of them the filter's state, and the last published stamp.
- `StampsIncrease`: the action property `PublishedStampsIncrease`, for every
  configuration. The guard in `periodicUpdate` compares with
  `last_published_stamp_`, which a revert lowers, so the argument is about what a
  revert can lower it to. `StampInv`: the filter's time, the last stamp and the time
  of every saved state is `Backed`, that is, no revert takes the filter behind it for
  good: it is not past `predictedTo`, or no saved state is older, or a measurement
  as late is in the history or due in the queue. And a last stamp that the
  filter has fallen behind is awaited, by a queued measurement that will bring the
  filter back to it before the update ends. `SentInv`: what was sent last is the
  last stamp, unless both are explained by a prediction. `PastInv` keeps the last
  stamp behind the clock. Where the filter had been moved ahead of its data the
  property says less, because the code does (section 6).
- `SetPoseIsIsolated`: `SetPoseIsolates`. `IsolationInv` extends the
  property to the queue, the measurement history and the lineage of every saved
  state, the three ways by which old data could come back.
- `HistoryIsOrdered`: `HistoryPrecedesQueue`. `HistoryInv` adds that the history
  is no later than the filter and the last saved state (`Covered`), except during
  a replay as long as a measurement that is due waits.
- `NoneIsLost` and `SmoothedIsInOrder`: `NoMeasurementLost` and
  `SmoothedInOrder`. `ProcessedInv` says where processed measurements may be, and
  `ReplayInv` is the argument why a revert is harmless: the saved states are
  ordered, each last one of its stamp holds everything processed up to it
  (`StatesComplete`), what is later is in the history or queued again (`LaterKept`),
  and every stamp of the history has its state (`StampsSaved`). It holds until a
  revert finds no state that is old enough; `PlainInv` covers filters that do
  not smooth.
- `DifferentialIsCovered`: the action property `DifferentialCovers`, from
  `DifferentialInv`: a topic's stored pose is that of its last message, unless the
  last pose could not be transformed, and is never newer.

### FAST_LIO (`FastLioProofs`, `IkdRebuildProofs`)

- `GroupsAreStamped`: as long as no clock goes back (`Monotone`), every group has
  the stamp of its own scan (`PairInv`: the two buffers are in step). Run
  `lio_loop_back` shows what one step back does to it.
- `OdometryIsInOrder`: `OdometryStampsMonotone`. `ScanTimeInv` bounds the mean
  scan time, from which the end of a scan without offsets is estimated; `StampInv`
  says that the scans in the buffer are a period apart and the last group ends
  before them.
- `ImuIsSplitAtScanEnd`: `ImuSplitAtScanEnd`. `SplitInv` adds that `imu_buffer` is
  ordered and no later than the last stamp received, so that what is taken from its
  front is exactly what lies before the scan's end.
- `StateIsAtScanEnd`: `PropagatedToScanEnd`. `PropagationInv` says that an initialized
  state stands for the later one of `last_imu_` and the end of the last scan
  (`Later`), and that no IMU message still to come is earlier. The steps of a group
  then telescope to the time from there to the group's last message
  (`PropagatedSum`), to which the remainder of the scan is added.
  The lemmas about `Propagated` are inductions over the messages, made as
  arguments by a least counterexample (`Least`, from the well-foundedness of the
  naturals): that the recursion defines a function at all (`PropagatedDef`), that it
  gives numbers, and what they are.
- `TypeCorrect`: all of `TypeOK`, with `FrontType` for the buffers and `BackType` for
  the rest. That `init_iter_num` stays within the messages received needs to know
  that those it counted have left the buffer.
- `ReadersDrained`, `RangeBeforeDelete` and `SwapCorrect`: `NoReaderInside`,
  `FreedUnread` and `SwapPreserves` of `IkdRebuild`, for any points, team and
  number of operations. One inductive invariant `IInv` serves all three. `Control`
  ties the request, the flag and the owner of `working_flag_mutex` to the places
  of the threads. `Counting` says that the counter is the number of searches
  counted in, or -1 and there are none. `Ranging` says that a range search of a
  son holds `search_flag_mutex`, which `Unlock` has to take before the nodes are
  freed. `Logging` says that the copy with the logged operations replayed on it is
  the subtree; since a replay is a recursion over the log, it is stated per point
  by the last operation that concerns it (`Matches`), and three lemmas show what
  appending to and popping from the log do to it.

### The Livox driver (`LivoxDriverProofs`)

- `OnlyConfiguredIsSampled`: `SamplingIsConfigured`.
  `ConfigInv` adds that an option of a configured lidar is acknowledged unless
  its bit is still set, and that only a configured lidar owes an answer.
- `TypeCorrect`: among the types, that no semaphore is counted past 1. `DataInv`
  says that the only thread that signals one found it at 0.
- `ReadsAreWhole`: `NoTornRead`. `IndexInv` bounds how far each index, and each
  thread's late view of the other's index, may lag: the storing thread sees no more
  room than there is, the poll thread no more frames, and what either found when it
  looked still holds while it acts.
- `RingImplementsFifo`: `Spec => QueueIsFifo`, the refinement of `FrameFifo` with
  the frames between the two indices as the queue. `FrameInv` adds that
  the frames are no newer than the one being stored, that the slot behind the last
  holds the frame to be appended, and that the packet being published is the oldest
  frame. The lemmas before it are the arithmetic of wrapped indices.

### Global localization (`RtkLocalizationProofs`, `OdometrySanitizerProofs`)

- `DatumStaysInForce`: `DatumInForce`, and `TypeCorrect`. `DatumInv`: a datum in
  force is one that was recorded or sent, and a good transform is the one
  `computeTransform` gives for it in the grid in force, if the datum converts to that
  grid; `TransformGpsTaken` says when `setTransformGps` takes a position and when its
  error return leaves the old one. The world position of a fix does not depend on
  the grid, so that a zone forced later changes nothing for a datum in its reach.
- `SmoothedStaysOnMap`: `SmoothedOnMap`. `MapInv`: in an undisturbed navigation
  session the datum is the origin in the file; before the transform there is no
  zone, so no fix is kept; a fix that waits was sent in this session and projected
  into the grid in force; nobody has forced a zone, so that the grid is the origin's
  own, to which it converts (`OwnZone`).
- `DriftIsBounded`: `DriftBounded` by the triangle inequality over the messages
  published since `first` (`DriftInv`). Lemma `AcceptedBySpeed`: a message within
  the speed limit is accepted and one outside is not, whatever `max_position_step`.
- `TwistIsWithinLimits` (`TwistInv`) and `RightOdometryIsAccepted`
  (`MotionInv`: since the last message published the vehicle has moved no further
  than it can in the time that the stamps show).

### Navigation (`LifecycleManagerProofs`, `WaypointLoopProofs`)

- `WatchedWhileActive` and `NullBondNeverMet`: `ActiveMeansWatched` and
  `NullOnlyAfterShutdown`, from `WatchInv`: only an operation that brings the
  system up runs while it is declared active, and with a bond timeout (`Bonding`), by
  the time it activates a server, it has a bond to all servers before it.
  `ActiveMeansWatched` says nothing of a manager without a bond timeout, which
  watches nothing (section 6).
- `OrderKept`: `BringUpOrder`, from `OrderInv`: while no server fails, a bring-up
  has activated what it passed and a take-down leaves nothing active behind.
- `FollowerImplementsPromise`: `Spec => GoalsKeepPromise`, the refinement of
  `ActionGoal`, one lemma per actor: a step of `followWaypoints`, of the action
  server, of the navigator or of a client is a step of each goal or leaves it alone.
  Besides `RouteInv` below it needs `DriveInv`: what is reached or under way are
  poses of the goal that is executed, none before the worker has read it, and a
  worker about to accept a pending goal finds it unless both goals were taken
  away, so that no goal in progress loses what it has reached.
- `PosesAreReachedOrMissed`: the action property `ReachedOrMissed`, the part of the
  promise that is about poses, against any
  sequence of preemptions, cancellations, late answers and deactivations.
  `RouteInv` has four parts beyond types. `HandleInv`: a goal the action server
  holds is active, and the two handles differ. `PlaceInv`: the function's copy of its
  goal belongs to the goal that is held, if one still is, and `goal_index` is within
  it. `NavInv`: whatever is under way is known to the client. `ReachInv`: every pose
  below `goal_index` was reached or has failed, and a success that is reported or
  still on its way is one for the pose at `goal_index`, whatever is still under way
  for other poses and goals.
- `RunnerAloneIsSafe`: `AloneNeverStuck`. `AloneInv`: the worker executes only the
  runner's goal and nothing is pending while it does; the next navigation goal is
  sent only when the one before has ended, so no answer meets another goal's.
- `StartsFromLatest`: the action property `StartIsLatestEstimate`, from `StartInv`:
  a locked start is the latest estimate.
- `TypeCorrect`: all of `TypeOK` of the three modules, from the invariants above and
  three that only hold types (`ThreadsTyped`, `ReportTyped`, `CountBounded`).

### What the proofs found

An earlier `NoMeasurementLost` had no exception: `ReplayInv` is not inductive when
the history is too short, which led to finding 1. `SmoothedOnMap` fails with
`use_local_cartesian`, and `ImuSplitAtScanEnd` fails with `time_sync_en` (section 6).
`max_position_step` never decides. The follower reads its own copy of a goal, whose
size need not be that of the client's next one; the model now keeps both, and a
goal without poses that preempts another is an error (section 6).

### Only model-checked

The liveness properties (`QueueDrains`, `NewOutputByTimeout`, `ScansAreTaken`,
`PublishedWhenFollowed`, `ConfiguredIsSampled`, `DataReleasesPoller`,
`RecoversWhenAllAlive`, `GoalsAnswered`, `DeactivationReturns`, `PatrolServes`,
`FixesArePublished`, `RebuildEnds`) rest on fairness and are out of the prover's
reach. The three properties the code violates have counterexamples instead. Every invariant and
every action property that a passing run checks is proved, and so is the type
invariant of every module.

## 5. Findings

1. **A revert beyond the history loses measurements and fuses others twice**
   (`ros_filter.cpp:3853`). When the history is too short for a lagged
   measurement, `revertTo` restores the oldest state. Measurements stamped at that
   state's time are queued again although it contains them. Those stamped before
   it are taken out of the history and not queued ("Don't need to restore
   measurements that predate our earliest state time"), but a state saved after an
   earlier such revert stands for a time past measurements it does not contain. The
   second half came out of the proof of `NoMeasurementLost`, which an earlier
   version of the model stated without the exception of such reverts.
2. **Stamps of cleared scans stay behind** (`laserMapping.cpp:292`, `320`).
3. **GPS odometry at the map's origin** (`navsat_transform.cpp:719`). While the
   robot's transform is not available, `prepareGpsOdometry` publishes the
   identity pose; the error message says that only the offset of the receiver is
   not removed. The low-pass filter keeps a share of that position.

## 6. Other observations

Seen while modelling, without a run of their own. Where a property excepts a
case, the exception is one of these.

- Differential velocities over the wrong interval (`ros_filter.cpp:3474`): the
  divisor is the time since the last message, the displacement is since the last
  stored pose, and a failed transform of the pose updates the first only. The velocity
  of the next message is overstated; `DifferentialCovers` shows that the two intervals
  agree in every other case and that no velocity is understated.
  `ekf_map.yaml` uses `odom0_differential: true`.
- `time_sync_en` stops the odometry (`laserMapping.cpp:361`): seconds are passed as
  nanoseconds. With `TimeSyncEn = TRUE` `ScansAreTaken` fails, and so does
  `ImuSplitAtScanEnd`: the IMU data stamped after the sync is put near time 0.

- Smoothing without `predict_to_current_time`: a revert can leave the estimate
  older than the last message, which the comment at `ros_filter.cpp:2469` says
  "should never happen". The replay brings it back to the last measurement's time,
  but not to a time the filter was predicted to on a sensor timeout, or moved to while
  toggled off. The message is then held back, but `last_published_stamp_` is lowered,
  so later messages repeat or precede stamps up to that time (the exception of
  `PublishedStampsIncrease`).
- Smoothing with `use_control`: after a replay the filter predicts with the last
  replayed control, not the latest one.
- With `use_local_cartesian: true` a fix that comes before the first odometry is
  projected into the plane at latitude and longitude 0 and published through the
  transform of another, so `SmoothedOnMap` fails; `navsat_transform.yaml:14`
  leaves it off, and the theorem assumes so.
- `disabled_at_startup` has no effect: `on_activate` sets `enabled_`. A node left
  inactive and enabled queues measurements that nothing removes.
- `setPoseCallback` ignores a failed transform, and does not initialize the filter.
- Messages of one topic with equal stamps are accepted (`<=`; the comment says
  "newer"), so a differential measurement can divide by zero.
- Without `predict_to_current_time` the sensor timeout is looked at only when the
  queue is empty, so a measurement stamped in the future, and without smoothing each
  lagged one, puts off the output that `sensor_timeout` promises within its time;
  `NewOutputByTimeout` shows that it comes in the end.
- FAST_LIO: a group without IMU data registers the previous scan again under the
  new stamp; `last_lidar_end_time_` is uninitialized before the first scan (the
  runs take it as 0); after a lidar loop back with a scan pushed, one scan is
  popped unprocessed.
- Livox: if no more data arrives, `~DriverNode` joins threads that stay blocked in
  `Semaphore::Wait`; a refused set command keeps a lidar silent for ever; a lidar
  missing from the configuration file is configured only at its second
  `LidarInfoChangeCallback`.
- ikd-Tree: `rebuild_flag` is cleared after the mutex is unlocked
  (`ikd_Tree.cpp:352`), so an operation can stay in the logger until the next
  rebuild replays it (`stale`). A subtree that was empty when flattened takes a
  path on which the logger is not drained, `new_root_node` is null at line 332 and
  a mutex is unlocked that the thread does not hold. A comparison that straddles
  the swap loses the operation or searches old nodes, and `Search_by_range` at the
  root walks nodes that may be freed. `Delete_by_range` leaves `working_flag` true
  when it returns early (line 776). The logger is a ring whose `push` does not test
  for full (`ikd_Tree.h:238`).
- Lifecycle manager: when a server has died, the hard reset catches its exception,
  which ends `DEACTIVATE` before the servers listed ahead of it are reached, and the
  `||` at line 315 skips `CLEANUP` for all, although the comment at line
  435 says "hard reset to transition all still active down". In the startup that
  follows the servers left inactive pass `CONFIGURE`, since the state read back is
  the one wanted, and those left active fail it. With the `bond_timeout` of 0.0 of
  `rtk_global_localization.launch.py:497` no server is watched: the system is reported
  active whatever has become of its servers. A call to a server that dies
  while it is under way blocks the manager for ever. After `shutdown` the respawn
  timer uses clients that are gone (line 477).
- Waypoint follower: a goal accepted while the worker is about to leave stays
  pending with no worker, contrary to the comment at
  `simple_action_server.hpp:195`; a result of an old goal that arrives before the
  response to the new one blocks the follower in `future_goal_handle_.get()`, and
  after a rejection uses a null handle; `is_cancel_requested` looks only at the
  pending goal when there is one; `failed_ids_` survives cancellation and
  preemption; a goal without poses succeeds when it is the first, but when it
  preempts another `goal->poses[0]` is read all the same (`waypoint_follower.cpp:199`);
  `publish_feedback` reads `current_handle_` twice; an empty
  completion callback would throw.
- Waypoint runner: a goal rejected before the follower is active ends the process;
  an aborted result counts as a completed round; with static waypoints that are
  too close the loop never spins.
- `navsat_transform`: `setUTMZone` before the datum's heading was taken cancels the
  datum and leaves no heading to come (`HeadingComes`); after it, or after a
  declination, an old fix may be paired with a new transform until the next fix. When
  the zone does not reach the datum, `setTransformGps` returns at line 1042 and
  `setManualDatum` goes on: if an earlier fix was in reach, the transform is computed
  with that fix's position and declared good (the premise of `DatumInForce`), and
  otherwise, as without a datum when no fix is in reach, `has_transform_gps_` stays
  false and nothing is published any more (`PositionComes`).
- `map_origin_recorder.py`: a crash between truncating and writing leaves an empty
  file, which `overwrite=false` never repairs; `navsat_fix_sanitizer.py` repairs
  only the diagonal of a covariance; the low-pass filter is never reset.
- `odometry_sanitizer.py`: a message at most 0.1 ms after its predecessor, or
  before it, is always accepted and becomes the reference; the message after a
  dropped one has a twist measured from the dropped pose; after a step back of the
  clock no twist is estimated until the old time is reached again;
  `max_position_step` has no effect, since the speed is tested besides (line 229).

## 7. Not modelled

The Kalman filters' arithmetic, point cloud geometry, preprocessing and message
layouts (no finite control to check); frame assembly, whose cuts depend on
arithmetic of packet times; `DeInitQueue`, LVX file playback and ROS 1 code (not
used by the ROS 2 node); diagnostics and logging; process start-up; the nodes that
convert one message into another.

Of the ikd-Tree, besides geometry: `size`, `validnum` and `root_alpha` (a trylock
and a cached value), `stop_thread`, and a request that is replaced by one for a
larger subtree before the rebuild thread takes it. Of the runner: static
waypoints and the path and pose topics. Of the follower: configuration, cleanup and
what the task executors do. Of `SimpleActionServer`: the catch block of `work()`
(lines 218 to 225), since `followWaypoints` throws nothing the model has. Of the
navigator: its behavior tree, every outcome of which is possible in the model.

Most lines of the repository are vendored: `navigation2` is many times
the size of everything else together, and nearly all of it is planners,
controllers, costmaps and behavior tree nodes, whose correctness is geometry, search and numerics. The modules cover the
parts of it whose control this workspace depends on, the lifecycle manager and the
waypoint follower with its action server, and otherwise the workspace's own code.

## 8. Plan

Done: `RosFilter`, `FastLio`, `LivoxDriver` with `FrameFifo`, `IkdRebuild`,
`NavSatTransform` with `RtkLocalization`, `OdometrySanitizer`,
`LifecycleManager`, and `WaypointLoop` over `WaypointFollower` and
`SimpleActionServer` with `ActionGoal`; proofs of every safety property the passing
runs check, of both refinements and of all type invariants. Left, in order of importance:

1. The control of `bt_navigator`'s own behavior tree in place of arbitrary outcomes in
   `WaypointFollower`.
2. The local map box of FAST_LIO, and a rebuild request that is replaced by one for a
   larger subtree.
