----------------------------- MODULE LivoxDriver -----------------------------
(***************************************************************************)
(* livox_ros_driver2 between the SDK and the ROS topics.                   *)
(*                                                                         *)
(* Threads: the SDK's command thread (LidarInfoChangeCallback and the      *)
(* answers to the set commands); the SDK's data thread, which stores IMU   *)
(* data; point_process_thread_, which stores assembled frames; the two     *)
(* poll threads of DriverNode; and the thread that destroys the node.      *)
(* A step is what a thread does between two accesses to shared state.      *)
(*                                                                         *)
(* The indices of the ring buffer are volatile and not atomic.  As on      *)
(* x86, a thread's store to its own index may become visible to the other  *)
(* thread late (wrSeen, rdSeen), but not before the slot it follows;       *)
(* taking the semaphore's mutex makes it visible.  Frames are numbered in  *)
(* the order in which they are assembled; their points are left out.       *)
(***************************************************************************)
EXTENDS Integers, Sequences, FiniteSets, FiniteSetsExt

CONSTANTS
  Lidars,           \* handles
  Configured,       \* those with an entry in lidar_configs
  Options,          \* LivoxLidarConfigBit: what can be set in a lidar
  SetOptions,       \* the options the entries in lidar_configs give
  MaxSourceLidar,   \* kMaxSourceLidar
  PacketQueueSize,  \* CalculatePacketQueueSize(publish_freq_)
  IndexRange,       \* number of values of rd_idx and wr_idx (2^32)
  MaxFrames,        \* bound: frames assembled
  MaxImus,          \* bound: IMU packets
  MaxInfoChanges,   \* bound: calls of LidarInfoChangeCallback
  MaxFailures,      \* bound: set commands that fail
  MaxMixed          \* bound: frames, where all info changes, a failure or IMU packets happen

Kinds == {"pcd", "imu"}

VARIABLES
  known,         \* handles in map_index_
  asked,         \* lidars LidarInfoChangeCallback has configured
  setBits,       \* livox_config.set_bits
  connectState,  \* connect_state
  requests,      \* set commands sent and not answered, per lidar and option
  acked,         \* history: options the lidar has acknowledged
  failed,        \* history: lidars that refused a set command
  ring,          \* LidarDevice::data
  published,     \* last frame published, per lidar
  imuQueue,      \* length of LidarDevice::imu_data
  semaphore,     \* pcd_semaphore_ and imu_semaphore_
  producer,      \* where the threads that store data are
  poller,        \* where the poll threads are
  packet,        \* the pkg of PublishPointcloud2
  requestExit,   \* request_exit_
  exitSignal,    \* exit_signal_ is set
  joined,        \* poll threads ~DriverNode has joined
  count          \* inputs so far

config == <<known, asked, setBits, connectState, requests, acked, failed>>
shutdown == <<requestExit, exitSignal, joined>>
vars == <<config, ring, published, imuQueue, semaphore, producer, poller, packet,
          shutdown, count>>

-----------------------------------------------------------------------------
\* The ring buffer (ldq.cpp).

\* RoundupPowerOf2; the sizes asked for are at most 101 (publish_freq 100).
PowersOf2 == {1, 2, 4, 8, 16, 32, 64, 128}
RoundupPowerOf2(n) == Min({p \in PowersOf2 : n <= p})

\* InitQueue.
QueueSize == RoundupPowerOf2(PacketQueueSize)

ASSUME LivoxAssumption ==
  /\ Configured \subseteq Lidars
  /\ SetOptions \subseteq Options
  /\ {MaxSourceLidar, MaxFrames, MaxImus, MaxInfoChanges, MaxFailures, MaxMixed} \subseteq Nat
  /\ PacketQueueSize \in 1..128
  /\ IndexRange \in Nat /\ IndexRange >= 2 * QueueSize /\ IndexRange % QueueSize = 0

Index == 0..(IndexRange - 1)

Ring == [slots : [0..(QueueSize - 1) -> Nat],
         rd : Index, wr : Index, rdSeen : Index, wrSeen : Index]

Slot(idx) == idx % QueueSize

Used(wr, rd) == (wr - rd) % IndexRange

\* Mutant of QueueIsFull: one frame too many.
QueueIsFullLate(wr, rd) == Used(wr, rd) > QueueSize

QueueIsFull(wr, rd) == Used(wr, rd) > QueueSize - 1

\* Mutant of Advanced: the index starts over before the end of its range.
AdvancedTooShort(idx) == (idx + 1) % (IndexRange - 1)

Advanced(idx) == (idx + 1) % IndexRange

\* QueueIsEmpty as the poll thread, and as the storing thread, see it.
EmptyForPoller(l) == ring[l].rd = ring[l].wrSeen
EmptyForProducer(l) == ring[l].rdSeen = ring[l].wr

TypeOK ==
  /\ known \in SUBSET Lidars
  /\ asked \in SUBSET Lidars
  /\ setBits \in [Lidars -> SUBSET Options]
  /\ connectState \in [Lidars -> {"off", "sampling"}]
  /\ requests \in [Lidars -> [Options -> Nat]]
  /\ acked \in [Lidars -> SUBSET Options]
  /\ failed \in SUBSET Lidars
  /\ ring \in [Lidars -> Ring]
  /\ published \in [Lidars -> Nat]
  /\ imuQueue \in [Lidars -> Nat]
  /\ semaphore \in [Kinds -> 0..1]
  /\ producer \in [Kinds -> [pc : {"idle", "write", "advance", "empty", "check", "signal"},
                             lidar : Lidars]]
  /\ poller \in [Kinds -> [pc : {"top", "wait", "scan", "outer", "inner", "copy",
                                 "pop", "future", "done"},
                           lidar : Lidars, todo : SUBSET Lidars]]
  /\ packet \in Nat
  /\ requestExit \in BOOLEAN
  /\ exitSignal \in BOOLEAN
  /\ joined \in SUBSET Kinds
  /\ count \in [{"frame", "imu", "info", "failure"} -> Nat]

\* An input within its bound, and within MaxMixed if there are others.
Counts(kind, bound) ==
  /\ count[kind] < bound
  /\ count' = [count EXCEPT ![kind] = @ + 1]
  /\ count'["frame"] > MaxMixed =>
       count'["imu"] = 0 /\ count'["failure"] = 0 /\ count'["info"] < MaxInfoChanges

-----------------------------------------------------------------------------
\* The command thread (livox_lidar_callback.cpp, cache_index.cpp).

\* The options to set: those of the user's entry.  A lidar found without one
\* has a zeroed livox_config, in which no option is -1.
OptionsOf(l) == IF l \in Configured THEN SetOptions ELSE Options

\* LidarInfoChangeCallback for a lidar without a device: it gets one, and no
\* configuration.  GetFreeIndex fails if all indices are taken.
AddLidar(l) ==
  /\ l \notin known
  /\ Counts("info", MaxInfoChanges)
  /\ known' = IF Cardinality(known) < MaxSourceLidar THEN known \cup {l} ELSE known
  /\ UNCHANGED <<asked, setBits, connectState, requests, acked, failed, ring,
                 published, imuQueue, semaphore, producer, poller, packet, shutdown>>

\* LidarInfoChangeCallback for a lidar with a device.  config_mutex_ is held
\* until all commands are sent, so no answer is handled in between.
ConfigureLidar(l) ==
  /\ l \in known
  /\ Counts("info", MaxInfoChanges)
  /\ asked' = asked \cup {l}
  /\ setBits' = [setBits EXCEPT ![l] = @ \cup OptionsOf(l)]
  /\ requests' = [requests EXCEPT ![l] =
                    [o \in Options |-> IF o \in OptionsOf(l) THEN @[o] + 1 ELSE @[o]]]
  /\ UNCHANGED <<known, connectState, acked, failed, ring, published, imuQueue,
                 semaphore, producer, poller, packet, shutdown>>

\* Mutant of Ready: the other options are not waited for.
ReadyAtOnce(bits) == TRUE

\* The lidar's data is published once no bit is left.
Ready(bits) == bits = {}

\* SetDataTypeCallback, SetPatternModeCallback, SetBlindSpotCallback and
\* SetDualEmitCallback, status success.
SetSucceeded(l, o) ==
  LET bits == setBits[l] \ {o}
  IN /\ requests[l][o] > 0
     /\ requests' = [requests EXCEPT ![l][o] = @ - 1]
     /\ setBits' = [setBits EXCEPT ![l] = bits]
     /\ connectState' = IF Ready(bits)
                        THEN [connectState EXCEPT ![l] = "sampling"]
                        ELSE connectState
     /\ acked' = [acked EXCEPT ![l] = @ \cup {o}]
     /\ UNCHANGED <<known, asked, failed, ring, published, imuQueue, semaphore,
                    producer, poller, packet, shutdown, count>>

\* Mutant of SetTimedOut: the command is not sent again.
SetTimedOutGivenUp(l, o) ==
  /\ requests[l][o] > 0
  /\ requests' = [requests EXCEPT ![l][o] = @ - 1]
  /\ UNCHANGED <<known, asked, setBits, connectState, acked, failed, ring, published,
                 imuQueue, semaphore, producer, poller, packet, shutdown, count>>

\* The same, status timeout: the command is sent again, and nothing changes.
SetTimedOut(l, o) == requests[l][o] > 0 /\ UNCHANGED vars

\* The same, any other status: the bit stays set.
SetFailed(l, o) ==
  /\ requests[l][o] > 0
  /\ Counts("failure", MaxFailures)
  /\ requests' = [requests EXCEPT ![l][o] = @ - 1]
  /\ failed' = failed \cup {l}
  /\ UNCHANGED <<known, asked, setBits, connectState, acked, ring, published,
                 imuQueue, semaphore, producer, poller, packet, shutdown>>

-----------------------------------------------------------------------------
\* Storing data (lds.cpp, ldq.cpp, semaphore.cpp).

At(thread, kind, pc) == thread[kind].pc = pc

Goto(thread, kind, pc) == [thread EXCEPT ![kind].pc = pc]

\* An index becomes visible to the other thread.
WrVisible(r) == [r EXCEPT !.wrSeen = r.wr]
RdVisible(r) == [r EXCEPT !.rdSeen = r.rd]

StoreVisible(l) ==
  /\ ring' \in {[ring EXCEPT ![l] = WrVisible(@)], [ring EXCEPT ![l] = RdVisible(@)]}
  /\ ring' # ring
  /\ UNCHANGED <<config, published, imuQueue, semaphore, producer, poller, packet,
                 shutdown, count>>

\* StoragePointData and PushLidarData up to the write: a frame of a lidar
\* without index is dropped, and so is one that finds the queue full, which
\* still wakes the poll thread.  RawDataProcess has taken packet_mutex_ since
\* the last frame, so that one's index is visible by now.
StoragePointData(l) ==
  /\ At(producer, "pcd", "idle")
  /\ Counts("frame", MaxFrames)
  /\ producer' = IF l \notin known
                 THEN producer
                 ELSE [producer EXCEPT !["pcd"] =
                         [pc |-> IF QueueIsFull(ring[l].wr, ring[l].rdSeen)
                                 THEN "check" ELSE "write",
                          lidar |-> l]]
  /\ ring' = [i \in Lidars |-> WrVisible(ring[i])]
  /\ UNCHANGED <<config, published, imuQueue, semaphore, poller, packet, shutdown>>

\* QueuePushAny: the slot is written, ...
WriteSlot ==
  LET l == producer["pcd"].lidar
  IN /\ At(producer, "pcd", "write")
     /\ ring' = [ring EXCEPT ![l].slots[Slot(ring[l].wr)] = count["frame"]]
     /\ producer' = Goto(producer, "pcd", "advance")
     /\ UNCHANGED <<config, published, imuQueue, semaphore, poller, packet,
                    shutdown, count>>

\* ... then the index.
AdvanceIndex ==
  LET l == producer["pcd"].lidar
  IN /\ At(producer, "pcd", "advance")
     /\ ring' = [ring EXCEPT ![l].wr = Advanced(@)]
     /\ producer' = Goto(producer, "pcd", "empty")
     /\ UNCHANGED <<config, published, imuQueue, semaphore, poller, packet,
                    shutdown, count>>

\* StorageImuData up to the push.
StorageImuData(l) ==
  /\ At(producer, "imu", "idle")
  /\ Counts("imu", MaxImus)
  /\ imuQueue' = IF l \in known THEN [imuQueue EXCEPT ![l] = @ + 1] ELSE imuQueue
  /\ producer' = IF l \in known
                 THEN [producer EXCEPT !["imu"] = [pc |-> "empty", lidar |-> l]]
                 ELSE producer
  /\ UNCHANGED <<config, ring, published, semaphore, poller, packet, shutdown>>

\* The semaphore is left alone if what was stored has been taken already.
CheckEmpty(kind) ==
  LET l == producer[kind].lidar
      empty == IF kind = "pcd" THEN EmptyForProducer(l) ELSE imuQueue[l] = 0
  IN /\ At(producer, kind, "empty")
     /\ producer' = Goto(producer, kind, IF empty THEN "idle" ELSE "check")
     /\ UNCHANGED <<config, ring, published, imuQueue, semaphore, poller, packet,
                    shutdown, count>>

\* Mutant of NeedsSignal: never while a poll thread is awake.
NeedsSignalWhenAsleep(kind) == semaphore[kind] <= 0 /\ At(poller, kind, "wait")

\* The semaphore counts no further than 1.
NeedsSignal(kind) == semaphore[kind] <= 0

\* The semaphore's count is read without its mutex, ...
CheckSemaphore(kind) ==
  /\ At(producer, kind, "check")
  /\ producer' = Goto(producer, kind, IF NeedsSignal(kind) THEN "signal" ELSE "idle")
  /\ UNCHANGED <<config, ring, published, imuQueue, semaphore, poller, packet,
                 shutdown, count>>

\* ... and incremented with it.
Signal(kind) ==
  /\ At(producer, kind, "signal")
  /\ semaphore' = [semaphore EXCEPT ![kind] = @ + 1]
  /\ ring' = IF kind = "pcd" THEN [l \in Lidars |-> WrVisible(ring[l])] ELSE ring
  /\ producer' = Goto(producer, kind, "idle")
  /\ UNCHANGED <<config, published, imuQueue, poller, packet, shutdown, count>>

-----------------------------------------------------------------------------
\* The poll threads (lddc.cpp, PointCloudDataPollThread, ImuDataPollThread).

PollerStep(kind, pc, next) ==
  /\ At(poller, kind, pc)
  /\ poller' = Goto(poller, kind, next)
  /\ UNCHANGED <<config, imuQueue, producer, packet, shutdown, count>>

\* Mutant of PollTop: request_exit_ is not looked at before waiting.
PollTopUnaware(kind) ==
  /\ PollerStep(kind, "top", "wait")
  /\ UNCHANGED <<ring, published, semaphore>>

\* DistributePointCloudData and DistributeImuData return at once on exit.
PollTop(kind) ==
  /\ PollerStep(kind, "top", IF requestExit THEN "future" ELSE "wait")
  /\ UNCHANGED <<ring, published, semaphore>>

\* Semaphore::Wait, then all lidars in turn.
PollWait(kind) ==
  /\ At(poller, kind, "wait")
  /\ semaphore[kind] > 0
  /\ semaphore' = [semaphore EXCEPT ![kind] = @ - 1]
  /\ ring' = IF kind = "pcd" THEN [l \in Lidars |-> RdVisible(ring[l])] ELSE ring
  /\ poller' = [poller EXCEPT ![kind].pc = "scan", ![kind].todo = Lidars]
  /\ UNCHANGED <<config, published, imuQueue, producer, packet, shutdown, count>>

\* Only a lidar that is sampling is polled.
PollLidar(kind, l) ==
  /\ At(poller, kind, "scan")
  /\ l \in poller[kind].todo
  /\ poller' = [poller EXCEPT ![kind].pc = IF connectState[l] = "sampling"
                                           THEN "outer" ELSE "scan",
                              ![kind].lidar = l,
                              ![kind].todo = @ \ {l}]
  /\ UNCHANGED <<config, ring, published, imuQueue, semaphore, producer, packet,
                 shutdown, count>>

PollEnd(kind) ==
  /\ poller[kind].todo = {}
  /\ PollerStep(kind, "scan", "future")
  /\ UNCHANGED <<ring, published, semaphore>>

\* The loop of the poll thread ends when exit_signal_ is set.
PollFuture(kind) ==
  /\ PollerStep(kind, "future", IF exitSignal THEN "done" ELSE "top")
  /\ UNCHANGED <<ring, published, semaphore>>

\* PollingLidarPointCloudData.
PollOuter ==
  /\ PollerStep("pcd", "outer",
                IF requestExit \/ EmptyForPoller(poller["pcd"].lidar)
                THEN "scan" ELSE "inner")
  /\ UNCHANGED <<ring, published, semaphore>>

\* PublishPointcloud2 and PublishCustomPointcloud do not look at request_exit_.
PollInner ==
  /\ PollerStep("pcd", "inner",
                IF EmptyForPoller(poller["pcd"].lidar) THEN "outer" ELSE "copy")
  /\ UNCHANGED <<ring, published, semaphore>>

\* QueuePrePop.
CopySlot ==
  LET r == ring[poller["pcd"].lidar]
  IN /\ At(poller, "pcd", "copy")
     /\ packet' = r.slots[Slot(r.rd)]
     /\ poller' = Goto(poller, "pcd", "pop")
     /\ UNCHANGED <<config, ring, published, imuQueue, semaphore, producer,
                    shutdown, count>>

\* QueuePopUpdate; the frame is published.
PopAndPublish ==
  LET l == poller["pcd"].lidar
  IN /\ PollerStep("pcd", "pop", "inner")
     /\ ring' = [ring EXCEPT ![l].rd = Advanced(@)]
     /\ published' = [published EXCEPT ![l] = packet]
     /\ UNCHANGED semaphore

\* PollingLidarImuData with one PublishImuData.
PollImu ==
  LET l == poller["imu"].lidar
  IN /\ At(poller, "imu", "outer")
     /\ IF requestExit \/ imuQueue[l] = 0
        THEN /\ poller' = Goto(poller, "imu", "scan")
             /\ UNCHANGED imuQueue
        ELSE /\ imuQueue' = [imuQueue EXCEPT ![l] = @ - 1]
             /\ UNCHANGED poller
     /\ UNCHANGED <<config, ring, published, semaphore, producer, packet, shutdown,
                    count>>

-----------------------------------------------------------------------------
\* ~DriverNode.

DestroyStep ==
  UNCHANGED <<config, ring, published, imuQueue, semaphore, producer, poller, packet,
              count>>

RequestExit ==
  /\ ~requestExit
  /\ requestExit' = TRUE
  /\ UNCHANGED <<exitSignal, joined>>
  /\ DestroyStep

SetExitSignal ==
  /\ requestExit /\ ~exitSignal
  /\ exitSignal' = TRUE
  /\ UNCHANGED <<requestExit, joined>>
  /\ DestroyStep

\* pointclouddata_poll_thread_ first, then imudata_poll_thread_.
Join(kind) ==
  /\ exitSignal
  /\ joined = IF kind = "pcd" THEN {} ELSE {"pcd"}
  /\ At(poller, kind, "done")
  /\ joined' = joined \cup {kind}
  /\ UNCHANGED <<requestExit, exitSignal>>
  /\ DestroyStep

-----------------------------------------------------------------------------
\* The specification.

\* After DriverNode's constructor: InitLivoxLidar has given the configured
\* lidars their indices.
Init ==
  /\ known = Configured
  /\ asked = {}
  /\ setBits = [l \in Lidars |-> {}]
  /\ connectState = [l \in Lidars |-> "off"]
  /\ requests = [l \in Lidars |-> [o \in Options |-> 0]]
  /\ acked = [l \in Lidars |-> {}]
  /\ failed = {}
  /\ ring = [l \in Lidars |-> [slots |-> [i \in 0..(QueueSize - 1) |-> 0],
                               rd |-> 0, wr |-> 0, rdSeen |-> 0, wrSeen |-> 0]]
  /\ published = [l \in Lidars |-> 0]
  /\ imuQueue = [l \in Lidars |-> 0]
  /\ semaphore = [k \in Kinds |-> 0]
  /\ \E l \in Lidars :
       /\ producer = [k \in Kinds |-> [pc |-> "idle", lidar |-> l]]
       /\ poller = [k \in Kinds |-> [pc |-> "top", lidar |-> l, todo |-> {}]]
  /\ packet = 0
  /\ requestExit = FALSE
  /\ exitSignal = FALSE
  /\ joined = {}
  /\ count = [k \in {"frame", "imu", "info", "failure"} |-> 0]

Answer(l, o) == SetSucceeded(l, o) \/ SetTimedOut(l, o) \/ SetFailed(l, o)

\* A thread in the middle of storing data.
Store(kind) ==
  \/ kind = "pcd" /\ (WriteSlot \/ AdvanceIndex)
  \/ CheckEmpty(kind) \/ CheckSemaphore(kind) \/ Signal(kind)

PollImuThread ==
  \/ PollImu
  \/ PollTop("imu") \/ PollWait("imu") \/ PollEnd("imu") \/ PollFuture("imu")
  \/ \E l \in Lidars : PollLidar("imu", l)

PollPcdThread ==
  \/ PollOuter \/ PollInner \/ CopySlot \/ PopAndPublish
  \/ PollTop("pcd") \/ PollWait("pcd") \/ PollEnd("pcd") \/ PollFuture("pcd")
  \/ \E l \in Lidars : PollLidar("pcd", l)

Destroy == SetExitSignal \/ \E k \in Kinds : Join(k)

Next ==
  \/ \E l \in Lidars :
       \/ AddLidar(l) \/ ConfigureLidar(l)
       \/ \E o \in Options : Answer(l, o)
       \/ StoragePointData(l)
       \/ StorageImuData(l)
       \/ StoreVisible(l)
  \/ \E k \in Kinds : Store(k)
  \/ PollImuThread
  \/ PollPcdThread
  \/ RequestExit
  \/ Destroy

\* Every thread that can go on does; a store reaches memory; a lidar that does
\* not refuse a command answers it in the end.
Fairness ==
  /\ \A k \in Kinds : WF_vars(Store(k))
  /\ WF_vars(PollImuThread)
  /\ WF_vars(PollPcdThread)
  /\ WF_vars(Destroy)
  /\ \A l \in Lidars : WF_vars(StoreVisible(l))
  /\ \A l \in Lidars, o \in Options : WF_vars(SetSucceeded(l, o))

Spec == Init /\ [][Next]_vars /\ Fairness

-----------------------------------------------------------------------------
\* Properties.

\* The frames stored for a lidar and not yet taken, oldest first.
Contents(l) ==
  LET r == ring[l]
  IN [i \in 1..Used(r.wr, r.rd) |-> r.slots[Slot(r.rd + i - 1)]]

Fifo(l) == INSTANCE FrameFifo
           WITH Capacity <- QueueSize, queue <- Contents(l), delivered <- published[l]

\* The ring buffer, its two unlocked indices and the threads on either side of
\* it implement a bounded queue: frames are published in order, once, none that
\* was stored is overwritten, also when the indices wrap around (PushLidarData,
\* QueuePushAny, QueuePop).
QueueIsFifo ==
  /\ \A l \in Lidars : Fifo(l)!Init
  /\ [][\A l \in Lidars : Fifo(l)!Step]_vars

\* The slot a frame is copied from is not being written at the same time: the
\* indices are all that keeps the two threads apart (QueuePrePop, QueuePushAny).
NoTornRead ==
  LET w == producer["pcd"]
      r == poller["pcd"]
  IN w.pc = "write" /\ r.pc = "copy" /\ w.lidar = r.lidar
       => Slot(ring[w.lidar].wr) # Slot(ring[r.lidar].rd)

\* A lidar's data is published only after the lidar has acknowledged every
\* option the driver sets, however answers, refusals and repeated
\* LidarInfoChangeCallbacks interleave.
SamplingIsConfigured ==
  \A l \in Lidars : connectState[l] = "sampling" => OptionsOf(l) \subseteq acked[l]

\* A lidar the driver configures is polled in the end, unless it refuses one of
\* the commands or there is none (SetDataTypeCallback and the others).
ConfiguredIsSampled ==
  \A l \in Lidars :
    l \in asked /\ OptionsOf(l) # {} ~> connectState[l] = "sampling" \/ l \in failed

\* No wake-up is lost for long: although the semaphore's count is read without
\* its mutex, and signalled only if it was 0, a frame stored in the queue is
\* published once a later frame has come (PushLidarData).
PublishedWhenFollowed ==
  \A l \in Lidars :
    LET Followed == \E i \in DOMAIN Contents(l) : Contents(l)[i] < count["frame"]
    IN Followed /\ connectState[l] = "sampling" /\ producer["pcd"].pc = "check"
       ~> ~Followed \/ requestExit

\* The next data after request_exit_ was set releases a poll thread that is
\* blocked in Semaphore::Wait, so that ~DriverNode can join it.  Without any
\* more data it stays there for ever.
DataReleasesPoller ==
  \A k \in Kinds : requestExit /\ producer[k].pc = "check" ~> poller[k].pc = "done"
=============================================================================
