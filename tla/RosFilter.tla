------------------------------ MODULE RosFilter ------------------------------
(***************************************************************************)
(* The state estimation node of robot_localization (RosFilter<T> over      *)
(* FilterBase), which this workspace runs as ekf_filter_node_map.          *)
(*                                                                         *)
(* One single-threaded executor runs every callback to completion, so each *)
(* callback is one action, except periodicUpdate: its loop over the        *)
(* measurement queue is unrolled (pc) because std::priority_queue leaves   *)
(* the order of equal stamps open.  Nothing else runs between the steps of *)
(* that loop, and the clock does not move either: the loop reads the time  *)
(* once, into cur_time.                                                    *)
(*                                                                         *)
(* The estimate is abstracted to its lineage: the sequence of measurements *)
(* that corrected it since it was last reset or set.  Time is a number of  *)
(* nanoseconds; 0 is rclcpp::Time(0) and "no entry" in the maps.           *)
(***************************************************************************)
EXTENDS Integers, Sequences, FiniteSets

CONSTANTS
  Topics,                \* the CallbackData topics (odom0_pose, imu0_twist, ...)
  Differential,          \* the topics whose xxx_differential is true
  SmoothLaggedData,      \* smooth_lagged_data
  HistoryLength,         \* history_length
  PredictSettings,       \* the values predict_to_current_time may be given
  SensorTimeout,         \* sensor_timeout
  UseControl,            \* use_control
  DisabledAtStartup,     \* disabled_at_startup
  PermitCorrected,       \* permit_corrected_publication
  Skew,                  \* how far a stamp may be ahead of the node's clock
  MaxTime,               \* bound: the last instant of the clock
  MaxMeasurements,       \* bound: measurements enqueued
  MaxCommands            \* bound: control messages, set_pose, reset, toggle, enable
                         \* and lifecycle calls

ASSUME ConfigAssumption ==
  /\ Differential \subseteq Topics
  /\ HistoryLength \in Nat
  /\ SensorTimeout \in Nat
  /\ Skew \in Nat
  /\ MaxTime \in Nat
  /\ MaxMeasurements \in Nat
  /\ MaxCommands \in Nat
  /\ SmoothLaggedData \in BOOLEAN
  /\ PredictSettings \subseteq BOOLEAN
  /\ UseControl \in BOOLEAN
  /\ DisabledAtStartup \in BOOLEAN
  /\ PermitCorrected \in BOOLEAN

VARIABLES
  clock,                \* this->now()
  lifecycle,            \* state of the lifecycle node
  pc,                   \* where periodicUpdate is
  enabled,              \* enabled_
  toggledOn,            \* toggled_on_
  predictToCurrentTime, \* predict_to_current_time_
  lastSetPoseTime,      \* last_set_pose_time_
  lastMessageTimes,     \* last_message_times_
  previousMeasurements, \* stamps of the poses in previous_measurements_
  measurementQueue,     \* measurement_queue_
  filter,               \* filter_
  stateHistory,         \* filter_state_history_
  measurementHistory,   \* measurement_history_
  restoredCount,        \* restored_measurement_count
  latestControl,        \* latest_control_, as the number of the command
  lastPublishedStamp,   \* last_published_stamp_
  published,            \* stamp of the last odometry message sent since the last reset
  count,                \* environment budget used, per kind of input
  processed,            \* history: measurements processed since the last reset
  revertedShort,        \* history: a revert found no state old enough
  predictedTo,          \* history: the last time the filter was moved to without data
  poseFailed            \* history: topics whose last pose could not be transformed

inputs == <<lastSetPoseTime, lastMessageTimes, previousMeasurements, poseFailed>>
histories == <<stateHistory, measurementHistory>>
output == <<lastPublishedStamp, published, predictedTo>>
ghosts == <<processed, revertedShort>>
mode == <<lifecycle, enabled, toggledOn, predictToCurrentTime>>
vars == <<clock, mode, pc, inputs, measurementQueue, filter, histories,
          restoredCount, latestControl, output, count, ghosts>>

-----------------------------------------------------------------------------
\* What the variables hold.

Time == Nat

Measurement ==
  [id : Nat, topic : Topics, time : Time, from : Time, dt : Time, control : Nat]

\* The lineage: the measurements that corrected the state, in that order.
Estimate == Seq(Measurement)

FilterState == [estimate : Estimate, time : Time]

Filter == [initialized : BOOLEAN, estimate : Estimate, time : Time, control : Nat]

TypeOK ==
  /\ clock \in Time
  /\ lifecycle \in {"unconfigured", "inactive", "active", "finalized"}
  /\ pc \in {"idle", "integrate", "timeout"}
  /\ enabled \in BOOLEAN
  /\ toggledOn \in BOOLEAN
  /\ predictToCurrentTime \in BOOLEAN
  /\ lastSetPoseTime \in Time
  /\ lastMessageTimes \in [Topics -> Time]
  /\ previousMeasurements \in [Topics -> Time]
  /\ measurementQueue \in SUBSET Measurement
  /\ filter \in Filter
  /\ stateHistory \in Seq(FilterState)
  /\ measurementHistory \in Seq(Measurement)
  /\ restoredCount \in Nat
  /\ latestControl \in Nat
  /\ lastPublishedStamp \in Time
  /\ published \in Time
  /\ count \in [{"measurement", "command"} -> Nat]
  /\ processed \in SUBSET Measurement
  /\ revertedShort \in BOOLEAN
  /\ predictedTo \in Time
  /\ poseFailed \subseteq Topics

-----------------------------------------------------------------------------
\* FilterBase.

\* FilterBase::reset: uninitialized, zero state, time zero; the control stays.
ResetFilter(f) ==
  [f EXCEPT !.initialized = FALSE,
            !.estimate = <<>>,
            !.time = 0]

\* FilterBase::processMeasurement: predict forward if the measurement is
\* newer, then correct; the first measurement instead overwrites the state.
ProcessMeasurement(f, m) ==
  [f EXCEPT !.initialized = TRUE,
            !.estimate = Append(@, m),
            !.time = IF f.initialized /\ m.time < @ THEN @ ELSE m.time]

\* FilterBase::predict and setLastMeasurementTime, as integrateMeasurements and
\* periodicUpdate use them: the state now stands for time t.
SetLastMeasurementTime(f, t) == [f EXCEPT !.time = t]

-----------------------------------------------------------------------------
\* Sensor input.

\* Mutant of AcceptsMessage: the topic's last stamp is not compared.
AcceptsMessageOfAnyAge(topic, stamp) == enabled /\ lastSetPoseTime < stamp

\* The early returns of poseCallback, twistCallback, accelerationCallback (and
\* of odometryCallback and imuCallback before them): disabled, stamped at or
\* before the last set_pose, older than the topic's previous message.
AcceptsMessage(topic, stamp) ==
  /\ enabled
  /\ lastSetPoseTime < stamp
  /\ lastMessageTimes[topic] <= stamp

\* The topic's entry in last_message_times_: its first message puts its own
\* stamp there before it is prepared.
LastMessageTime(topic, stamp) ==
  IF lastMessageTimes[topic] = 0 THEN stamp ELSE lastMessageTimes[topic]

\* The measurement a message becomes.  In differential mode it is the
\* displacement since the pose stored for the topic, over the time since the
\* topic's last message.
MeasurementOf(topic, stamp) ==
  LET diff == topic \in Differential
  IN [id |-> count["measurement"] + 1,
      topic |-> topic,
      time |-> stamp,
      from |-> IF diff THEN previousMeasurements[topic] ELSE 0,
      dt |-> IF diff THEN stamp - LastMessageTime(topic, stamp) ELSE 0,
      control |-> latestControl]

\* preparePose and prepareTwist fail without the transform; in differential
\* mode also when there is no earlier pose to subtract.
Prepared(topic, poseTf, twistTf) ==
  IF topic \in Differential
  THEN poseTf /\ twistTf /\ previousMeasurements[topic] # 0
  ELSE poseTf

\* Mutant of StoresPose: the pose is stored only if the message is used.
StoresUsedPose(topic, poseTf, twistTf) == topic \in Differential /\ poseTf /\ twistTf

\* In differential mode preparePose stores the pose it could transform, also
\* when prepareTwist then fails.
StoresPose(topic, poseTf, twistTf) == topic \in Differential /\ poseTf

\* A sensor message, handled up to enqueueMeasurement.  poseTf and twistTf say
\* whether the lookups of preparePose and of the prepareTwist it calls succeed.
SensorCallback(topic, stamp, poseTf, twistTf) ==
  /\ pc = "idle"
  /\ lifecycle \in {"inactive", "active"}
  /\ stamp <= clock + Skew
  /\ count["measurement"] < MaxMeasurements
  /\ AcceptsMessage(topic, stamp)
  /\ measurementQueue' = IF Prepared(topic, poseTf, twistTf)
                         THEN measurementQueue \cup {MeasurementOf(topic, stamp)}
                         ELSE measurementQueue
  /\ previousMeasurements' = IF StoresPose(topic, poseTf, twistTf)
                             THEN [previousMeasurements EXCEPT ![topic] = stamp]
                             ELSE previousMeasurements
  /\ lastMessageTimes' = [lastMessageTimes EXCEPT ![topic] = stamp]
  /\ poseFailed' = IF poseTf THEN poseFailed \ {topic} ELSE poseFailed \cup {topic}
  /\ count' = [count EXCEPT !["measurement"] = @ + 1]
  /\ UNCHANGED <<clock, mode, pc, lastSetPoseTime, filter, histories,
                 restoredCount, latestControl, output, ghosts>>

-----------------------------------------------------------------------------
\* Lagged data: revertTo.

\* Popping the back of h while it is later than t leaves its first k entries.
PopBackLeaves(h, t, k) ==
  /\ k > 0 => h[k].time <= t
  /\ \A i \in (k + 1)..Len(h) : h[i].time > t

\* Popping the front of h while it is earlier than t removes k entries.
PopFrontRemoves(h, t, k) ==
  /\ \A i \in 1..k : h[i].time < t
  /\ k < Len(h) => h[k + 1].time >= t

\* Mutant of RevertTarget: the last state popped instead of the one kept.
RevertTargetPopped(k) ==
  IF k < Len(stateHistory) THEN stateHistory[k + 1] ELSE stateHistory[k]

\* The state revertTo restores when it keeps k states: the last one kept, or,
\* when the history is too short, the oldest one it had.
RevertTarget(k) == IF k > 0 THEN stateHistory[k] ELSE stateHistory[1]

\* Mutant of Restored: the first measurement popped is not put back.
RestoredAllButOne(target, k) ==
  {m \in {measurementHistory[i] : i \in (k + 2)..Len(measurementHistory)} :
     target.time <= m.time}

\* The popped measurements that revertTo puts back into the queue: those not
\* earlier than the restored state.
Restored(target, k) ==
  {m \in {measurementHistory[i] : i \in (k + 1)..Len(measurementHistory)} :
     target.time <= m.time}

\* revertTo(t).  With no state at all nothing is reverted.
RevertTo(t) ==
  IF stateHistory = <<>>
  THEN /\ UNCHANGED <<filter, measurementQueue, histories>>
       /\ restoredCount' = 0
       /\ revertedShort' = TRUE
  ELSE \E k \in 0..Len(stateHistory), j \in 0..Len(measurementHistory) :
         LET target == RevertTarget(k)
         IN /\ PopBackLeaves(stateHistory, t, k)
            /\ PopBackLeaves(measurementHistory, t, j)
            /\ filter' = [filter EXCEPT !.estimate = target.estimate,
                                        !.time = target.time]
            /\ stateHistory' = SubSeq(stateHistory, 1, k)
            /\ measurementHistory' = SubSeq(measurementHistory, 1, j)
            /\ measurementQueue' = measurementQueue \cup Restored(target, j)
            /\ restoredCount' = Cardinality(Restored(target, j))
            /\ revertedShort' = (revertedShort \/ k = 0)

-----------------------------------------------------------------------------
\* periodicUpdate.

\* Mutant of Top: the comparison of Measurement::operator() reversed.
TopLatest == {m \in measurementQueue : \A n \in measurementQueue : n.time <= m.time}

\* The measurements std::priority_queue may hold on top: the earliest ones.
Top == {m \in measurementQueue : \A n \in measurementQueue : m.time <= n.time}

\* Mutant of Due: no test for measurements ahead of the clock.
DueAlways(m) == TRUE

\* A measurement stamped later than now waits for a later update.
Due(m) == ~(clock < m.time)

CanUpdate == pc = "idle" /\ lifecycle = "active" /\ enabled

\* integrateMeasurements up to its loop: a first measurement older than the
\* filter makes a smoothing filter revert.
BeginUpdate ==
  /\ CanUpdate
  /\ toggledOn
  /\ pc' = IF measurementQueue = {} THEN "timeout" ELSE "integrate"
  /\ IF SmoothLaggedData /\ \E m \in Top : m.time < filter.time
     THEN \E m \in Top : RevertTo(m.time - 1)
     ELSE /\ restoredCount' = 0
          /\ UNCHANGED <<filter, measurementQueue, histories, revertedShort>>
  /\ UNCHANGED <<clock, mode, inputs, latestControl, output, count, processed>>

\* The state is saved once per time stamp.
SavesState(f, queue) ==
  queue = {} \/ \E m \in queue : (\A n \in queue : m.time <= n.time) /\ m.time # f.time

\* The control stored with a measurement is used only while replaying.
UsesStoredControl == UseControl /\ restoredCount > 0

\* One turn of the loop of integrateMeasurements.
IntegrateOne(m) ==
  LET controlled == UsesStoredControl
      f == [filter EXCEPT !.control = IF controlled THEN m.control ELSE @]
      g == ProcessMeasurement(f, m)
      rest == measurementQueue \ {m}
  IN /\ pc = "integrate"
     /\ m \in Top
     /\ Due(m)
     /\ measurementQueue' = rest
     /\ filter' = g
     /\ restoredCount' = IF controlled THEN restoredCount - 1 ELSE restoredCount
     /\ processed' = processed \cup {m}
     /\ IF SmoothLaggedData
        THEN /\ measurementHistory' = Append(measurementHistory, m)
             /\ stateHistory' = IF SavesState(g, rest)
                                THEN Append(stateHistory, [estimate |-> g.estimate,
                                                           time |-> g.time])
                                ELSE stateHistory
        ELSE UNCHANGED histories
     /\ UNCHANGED <<clock, mode, pc, inputs, latestControl, output, count,
                    revertedShort>>

\* Mutant of Predicts: the sensor timeout does not make the filter predict.
PredictsIfConfigured == filter.initialized /\ predictToCurrentTime

\* The rest of integrateMeasurements predicts to the current time if so
\* configured, or if the queue was empty and the sensors have timed out.
Predicts ==
  /\ filter.initialized
  /\ \/ predictToCurrentTime
     \/ pc = "timeout" /\ clock - filter.time >= SensorTimeout

\* Mutant of CorrectedData: no estimate is held back.
CorrectedDataNever(f) == FALSE

\* corrected_data: the estimate's stamp is not later than the last one.
CorrectedData(f) == ~PermitCorrected /\ lastPublishedStamp >= f.time

\* An odometry message carries the filter's time.  Corrected data is not sent;
\* the last stamp is replaced in every case.
Publish(f) ==
  IF f.initialized
  THEN /\ published' = IF CorrectedData(f) THEN published ELSE f.time
       /\ lastPublishedStamp' = f.time
  ELSE UNCHANGED <<lastPublishedStamp, published>>

\* clearExpiredHistory, called when smoothing.
ClearExpiredHistory(f) ==
  IF SmoothLaggedData /\ f.time > HistoryLength
  THEN \E k \in 0..Len(stateHistory), j \in 0..Len(measurementHistory) :
         /\ PopFrontRemoves(stateHistory, f.time - HistoryLength, k)
         /\ PopFrontRemoves(measurementHistory, f.time - HistoryLength, j)
         /\ stateHistory' = SubSeq(stateHistory, k + 1, Len(stateHistory))
         /\ measurementHistory' =
              SubSeq(measurementHistory, j + 1, Len(measurementHistory))
  ELSE UNCHANGED histories

\* The end of periodicUpdate, once no queued measurement is due.
FinishUpdate ==
  LET f == IF Predicts THEN SetLastMeasurementTime(filter, clock) ELSE filter
  IN /\ \/ pc = "timeout"
        \/ pc = "integrate" /\ \A m \in Top : ~Due(m)
     /\ pc' = "idle"
     /\ filter' = f
     /\ predictedTo' = IF Predicts THEN clock ELSE predictedTo
     /\ Publish(f)
     /\ ClearExpiredHistory(f)
     /\ UNCHANGED <<clock, mode, inputs, measurementQueue, restoredCount,
                    latestControl, count, ghosts>>

\* periodicUpdate while processing is toggled off: measurements are dropped
\* and the filter's time follows the clock.
UpdateToggledOff ==
  LET f == IF filter.initialized THEN SetLastMeasurementTime(filter, clock) ELSE filter
  IN /\ CanUpdate
     /\ ~toggledOn
     /\ measurementQueue' = {}
     /\ filter' = f
     /\ predictedTo' = IF filter.initialized THEN clock ELSE predictedTo
     /\ Publish(f)
     /\ ClearExpiredHistory(f)
     /\ UNCHANGED <<clock, mode, pc, inputs, restoredCount, latestControl, count,
                    ghosts>>

-----------------------------------------------------------------------------
\* Commands: the control and set_pose topics, services and the lifecycle.

Command ==
  /\ pc = "idle"
  /\ count["command"] < MaxCommands
  /\ count' = [count EXCEPT !["command"] = @ + 1]

ServicesUp == lifecycle \in {"inactive", "active"}

\* controlCallback and controlStampedCallback (frame accepted).
ControlCallback ==
  /\ Command
  /\ ServicesUp
  /\ UseControl
  /\ latestControl' = latestControl + 1
  /\ filter' = [filter EXCEPT !.control = latestControl']
  /\ UNCHANGED <<clock, mode, pc, inputs, measurementQueue, histories,
                 restoredCount, output, ghosts>>

\* Mutant of ClearHistories: the saved states survive.
ClearMeasurementHistory == measurementHistory' = <<>> /\ UNCHANGED stateHistory

ClearHistories == stateHistory' = <<>> /\ measurementHistory' = <<>>

\* reset(), shared by the reset service and on_deactivate.
Reset ==
  /\ measurementQueue' = {}
  /\ ClearHistories
  /\ previousMeasurements' = [t \in Topics |-> 0]
  /\ poseFailed' = {}
  /\ lastMessageTimes' = [t \in Topics |-> 0]
  /\ lastSetPoseTime' = 0
  /\ lastPublishedStamp' = 0
  /\ published' = 0
  /\ predictedTo' = 0
  /\ filter' = ResetFilter(filter)
  /\ processed' = {}
  /\ revertedShort' = FALSE
  /\ UNCHANGED <<clock, toggledOn, predictToCurrentTime, pc, restoredCount,
                 latestControl>>

\* resetSrvCallback.
ResetSrv ==
  /\ Command
  /\ ServicesUp
  /\ Reset
  /\ UNCHANGED <<lifecycle, enabled>>

\* setPoseCallback.  The messages' stamps already seen are kept.
SetPose(stamp) ==
  /\ Command
  /\ ServicesUp
  /\ stamp <= clock + Skew
  /\ measurementQueue' = {}
  /\ ClearHistories
  /\ previousMeasurements' = [t \in Topics |-> 0]
  /\ poseFailed' = {}
  /\ lastSetPoseTime' = stamp
  /\ filter' = [filter EXCEPT !.estimate = <<>>, !.time = clock]
  /\ processed' = {}
  /\ revertedShort' = FALSE
  /\ UNCHANGED <<clock, mode, pc, lastMessageTimes, restoredCount, latestControl,
                 output>>

\* toggleFilterProcessingCallback.
ToggleFilterProcessing ==
  /\ Command
  /\ ServicesUp
  /\ toggledOn' = ~toggledOn
  /\ UNCHANGED <<clock, lifecycle, enabled, predictToCurrentTime, pc, inputs,
                 measurementQueue, filter, histories, restoredCount,
                 latestControl, output, ghosts>>

\* enableFilterSrvCallback.
EnableFilter ==
  /\ Command
  /\ ServicesUp
  /\ enabled' = TRUE
  /\ UNCHANGED <<clock, lifecycle, toggledOn, predictToCurrentTime, pc,
                 inputs, measurementQueue, filter, histories, restoredCount,
                 latestControl, output, ghosts>>

\* on_configure and the loadParams it calls.
OnConfigure ==
  /\ Command
  /\ lifecycle = "unconfigured"
  /\ lifecycle' = "inactive"
  /\ enabled' = ~DisabledAtStartup
  /\ predictToCurrentTime' \in PredictSettings
  /\ UNCHANGED <<clock, toggledOn, pc, inputs, measurementQueue, filter, histories,
                 restoredCount, latestControl, output, ghosts>>

\* on_activate.
OnActivate ==
  /\ Command
  /\ lifecycle = "inactive"
  /\ lifecycle' = "active"
  /\ enabled' = TRUE
  /\ UNCHANGED <<clock, toggledOn, predictToCurrentTime, pc, inputs,
                 measurementQueue, filter, histories, restoredCount,
                 latestControl, output, ghosts>>

\* on_deactivate.
OnDeactivate ==
  /\ Command
  /\ lifecycle = "active"
  /\ lifecycle' = "inactive"
  /\ enabled' = FALSE
  /\ Reset

\* on_cleanup: the queue and the filter are left as they are.
OnCleanup ==
  /\ Command
  /\ lifecycle = "inactive"
  /\ lifecycle' = "unconfigured"
  /\ enabled' = FALSE
  /\ UNCHANGED <<clock, toggledOn, predictToCurrentTime, pc, inputs,
                 measurementQueue, filter, histories, restoredCount,
                 latestControl, output, ghosts>>

\* on_shutdown.
OnShutdown ==
  /\ Command
  /\ lifecycle # "finalized"
  /\ lifecycle' = "finalized"
  /\ UNCHANGED <<clock, enabled, toggledOn, predictToCurrentTime, pc, inputs,
                 measurementQueue, filter, histories, restoredCount,
                 latestControl, output, ghosts>>

-----------------------------------------------------------------------------
\* The specification.

\* The constructor.
Init ==
  /\ clock = 1
  /\ lifecycle = "unconfigured"
  /\ pc = "idle"
  /\ enabled = FALSE
  /\ toggledOn = TRUE
  /\ predictToCurrentTime = FALSE
  /\ lastSetPoseTime = 0
  /\ lastMessageTimes = [t \in Topics |-> 0]
  /\ previousMeasurements = [t \in Topics |-> 0]
  /\ measurementQueue = {}
  /\ filter = [initialized |-> FALSE,
               estimate |-> <<>>, time |-> 0, control |-> 0]
  /\ stateHistory = <<>>
  /\ measurementHistory = <<>>
  /\ restoredCount = 0
  /\ latestControl = 0
  /\ lastPublishedStamp = 0
  /\ published = 0
  /\ count = [k \in {"measurement", "command"} |-> 0]
  /\ processed = {}
  /\ revertedShort = FALSE
  /\ predictedTo = 0
  /\ poseFailed = {}

\* Time passes between callbacks.
Tick ==
  /\ pc = "idle"
  /\ clock < MaxTime
  /\ clock' = clock + 1
  /\ UNCHANGED <<mode, pc, inputs, measurementQueue, filter, histories,
                 restoredCount, latestControl, output, count, ghosts>>

Stamps == 1..(MaxTime + Skew)

Update ==
  \/ BeginUpdate
  \/ \E m \in measurementQueue : IntegrateOne(m)
  \/ FinishUpdate
  \/ UpdateToggledOff

Environment ==
  \/ \E topic \in Topics, stamp \in Stamps, poseTf, twistTf \in BOOLEAN :
       SensorCallback(topic, stamp, poseTf, twistTf)
  \/ ControlCallback
  \/ \E stamp \in Stamps : SetPose(stamp)
  \/ ResetSrv
  \/ ToggleFilterProcessing
  \/ EnableFilter
  \/ OnConfigure
  \/ OnActivate
  \/ OnDeactivate
  \/ OnCleanup
  \/ OnShutdown

Next == Tick \/ Update \/ Environment

\* The timer keeps firing while the node is active, and the clock runs on
\* whatever the node does: strongly fair, since updates interrupt it here.
Fairness == WF_vars(Update) /\ SF_vars(Tick)

Spec == Init /\ [][Next]_vars /\ Fairness

-----------------------------------------------------------------------------
\* Properties that hold.

\* The measurements in a lineage.
Fused(e) == {e[i] : i \in DOMAIN e}

\* Replay loses nothing: as long as the history reached back far enough, every
\* measurement taken out of the queue since the last reset or set_pose is part
\* of the estimate between updates, whatever revertTo popped and
\* clearExpiredHistory dropped in the meantime (integrateMeasurements,
\* revertTo, saveFilterState).
NoMeasurementLost ==
  pc = "idle" /\ ~revertedShort => processed = Fused(filter.estimate)

\* What smooth_lagged_data is for: as long as the history reached back far
\* enough, the estimate results from processing each measurement once, in the
\* order of the stamps, in whatever order they arrived (revertTo).
SmoothedInOrder ==
  SmoothLaggedData /\ pc = "idle" /\ ~revertedShort =>
    LET f == filter.estimate
    IN \A i, j \in DOMAIN f : i < j => f[i].time <= f[j].time /\ f[i].id # f[j].id

\* A pose set by the user is not undone by older data: nothing stamped at or
\* before the last set_pose is in the estimate afterwards, neither through the
\* queue nor through a revert (setPoseCallback).
SetPoseIsolates == \A m \in Fused(filter.estimate) : lastSetPoseTime < m.time

\* The estimate is never stamped in the future: measurements ahead of the
\* clock wait in the queue (integrateMeasurements).
NotAheadOfClock == filter.time <= clock

\* The measurements kept for replay are in the order of their stamps, and none
\* is later than one still in the queue: the loop invariant the comment in
\* integrateMeasurements relies on, with <= since stamps may be equal.
HistoryPrecedesQueue ==
  /\ \A i, j \in DOMAIN measurementHistory :
       i < j => measurementHistory[i].time <= measurementHistory[j].time
  /\ pc = "integrate" =>
       \A i \in DOMAIN measurementHistory, m \in measurementQueue :
         measurementHistory[i].time <= m.time

\* A differential velocity is the displacement over the interval it is divided
\* by: the stamp of the pose subtracted and the topic's last stamp, kept and
\* cleared apart, agree whenever a measurement is made from them (preparePose,
\* poseCallback, reset, setPoseCallback).  The exception is the first message
\* after one whose pose could not be transformed: its displacement spans more
\* than the interval, so that the velocity is overstated, never understated.
DifferentialCovers ==
  [][\A m \in measurementQueue' :
       m.id > count["measurement"] /\ m.topic \in Differential =>
         /\ m.dt <= m.time - m.from
         /\ m.topic \notin poseFailed => m.dt = m.time - m.from]_vars

\* An odometry message is sent.
Sends ==
  /\ FinishUpdate \/ UpdateToggledOff
  /\ filter'.initialized /\ ~CorrectedData(filter')

\* Unless permit_corrected_publication is set, no stamp is sent twice and none
\* after a later one, whatever the filter reverted to: a replay brings it back
\* at least to the time it had.  Only where it had been moved ahead of its
\* data, by a prediction or while toggled off, can a revert take the stamps
\* back: then up to the time it was moved to (periodicUpdate, revertTo).
PublishedStampsIncrease ==
  [][Sends /\ ~PermitCorrected =>
       published' > published \/ published' <= predictedTo]_vars

\* state_estimation_nodes.rst, sensor_timeout: it is "the inverse of the minimum
\* frequency at which the filter will generate *new* output".  The timeout is
\* looked at only when the queue is empty, so lagged measurements and those
\* stamped ahead of the clock put it off; but a running filter whose output is
\* a timeout old gives a newer one in the end, unless the queue holds a stamp
\* that the clock never reaches (integrateMeasurements).
NewOutputByTimeout ==
  \A stamp \in 0..MaxTime :
    LET Running == lifecycle = "active" /\ enabled /\ filter.initialized
        Overdue == stamp < clock /\ clock - stamp >= SensorTimeout
        NeverDue == \E m \in measurementQueue : m.time > MaxTime
    IN (Running /\ lastPublishedStamp = stamp /\ Overdue)
         ~> (lastPublishedStamp > stamp \/ ~Running \/ NeverDue)

\* Every measurement queued in an active, enabled node whose stamp the clock
\* reaches leaves the queue, whatever future-stamped data is queued with it.
QueueDrains ==
  \A id \in 1..MaxMeasurements :
    LET Waiting == \E m \in measurementQueue : m.id = id /\ m.time <= MaxTime
        Running == lifecycle = "active" /\ enabled
    IN (Waiting /\ Running) ~> (~Waiting \/ ~Running)

-----------------------------------------------------------------------------
\* Properties stated by the documentation or by comments that the code does
\* not have.

\* state_estimation_nodes.rst, smooth_lagged_data: the filter will "revert to
\* the last state prior to the lagged measurement, then process all
\* measurements until the current time": none is left out.  It fails after a
\* revert that found no state old enough: measurements older than the oldest
\* state are taken out of the history and not put back, though that state was
\* saved before they were processed; those stamped as that state are put back
\* though it contains them.
AllMeasurementsFused ==
  pc = "idle" => processed \subseteq Fused(filter.estimate)
=============================================================================
