------------------------- MODULE LivoxDriverProofs -------------------------
(***************************************************************************)
(* Proofs about LivoxDriver: the configuration of the lidars, and the ring *)
(* buffer between the thread that stores frames and the one that publishes *)
(* them, which implements FrameFifo.                                       *)
(***************************************************************************)
EXTENDS LivoxDriver, SequenceTheorems, TLAPS
-----------------------------------------------------------------------------
(* The configuration of the lidars. *)

\* The types of the variables of the configuration.
ConfigType ==
  /\ asked \in SUBSET Lidars
  /\ setBits \in [Lidars -> SUBSET Options]
  /\ connectState \in [Lidars -> {"off", "sampling"}]
  /\ requests \in [Lidars -> [Options -> Nat]]
  /\ acked \in [Lidars -> SUBSET Options]

\* What makes SamplingIsConfigured inductive: only a lidar that has been
\* configured owes an answer, and an option of such a lidar is acknowledged
\* unless its bit is still set.
ConfigInv ==
  /\ ConfigType
  /\ SamplingIsConfigured
  /\ \A l \in Lidars :
       /\ l \in asked => OptionsOf(l) \subseteq acked[l] \cup setBits[l]
       /\ \A o \in Options : requests[l][o] > 0 => l \in asked

\* The options set in a lidar are options.
LEMMA OptionsOfType == \A l : OptionsOf(l) \subseteq Options
BY LivoxAssumption DEF OptionsOf

\* The constructor leaves every lidar unconfigured.
LEMMA ConfigInit == Init => ConfigInv
<1> SUFFICES ASSUME Init PROVE ConfigInv
  OBVIOUS
<1>1. ConfigType
  BY DEF Init, ConfigType
<1>2. SamplingIsConfigured
  BY DEF Init, SamplingIsConfigured
<1>3. \A l \in Lidars : \A o \in Options : ~(requests[l][o] > 0)
  BY DEF Init
<1>4. asked = {}
  BY DEF Init
<1>5. QED
  BY <1>1, <1>2, <1>3, <1>4 DEF ConfigInv

\* A step that leaves the configuration alone keeps the invariant.
LEMMA ConfigStutter ==
  ASSUME ConfigInv,
         UNCHANGED <<asked, setBits, connectState, requests, acked>>
  PROVE  ConfigInv'
BY DEF ConfigInv, ConfigType, SamplingIsConfigured, OptionsOf

\* LidarInfoChangeCallback sets the bits of all options it sends.
LEMMA ConfigureKeeps ==
  ASSUME ConfigInv, NEW l \in Lidars, ConfigureLidar(l)
  PROVE  ConfigInv'
<1> USE OptionsOfType
<1>1. /\ asked' = asked \cup {l}
      /\ setBits' = [setBits EXCEPT ![l] = @ \cup OptionsOf(l)]
      /\ requests' = [requests EXCEPT ![l] =
            [o \in Options |-> IF o \in OptionsOf(l) THEN @[o] + 1 ELSE @[o]]]
      /\ connectState' = connectState
      /\ acked' = acked
  BY DEF ConfigureLidar
<1>2. ConfigType'
  <2>1. [o \in Options |-> IF o \in OptionsOf(l) THEN requests[l][o] + 1
                                                 ELSE requests[l][o]]
          \in [Options -> Nat]
    BY DEF ConfigInv, ConfigType
  <2>2. requests' \in [Lidars -> [Options -> Nat]]
    BY <1>1, <2>1 DEF ConfigInv, ConfigType
  <2>3. setBits' \in [Lidars -> SUBSET Options]
    BY <1>1 DEF ConfigInv, ConfigType
  <2>4. QED
    BY <1>1, <2>2, <2>3 DEF ConfigInv, ConfigType
<1>3. SamplingIsConfigured'
  BY <1>1 DEF ConfigInv, SamplingIsConfigured, OptionsOf
<1>4. ASSUME NEW k \in Lidars
      PROVE  /\ k \in asked' => OptionsOf(k) \subseteq acked'[k] \cup setBits'[k]
             /\ \A o \in Options : requests'[k][o] > 0 => k \in asked'
  <2>1. CASE k = l
    BY <1>1, <2>1 DEF ConfigInv, ConfigType
  <2>2. CASE k # l
    BY <1>1, <2>2 DEF ConfigInv, ConfigType
  <2>3. QED
    BY <2>1, <2>2
<1>5. QED
  BY <1>2, <1>3, <1>4 DEF ConfigInv, OptionsOf

\* An acknowledged option has its bit cleared; the last one makes the lidar
\* sample.
LEMMA SucceededKeeps ==
  ASSUME ConfigInv, NEW l \in Lidars, NEW o \in Options, SetSucceeded(l, o)
  PROVE  ConfigInv'
<1> DEFINE bits == setBits[l] \ {o}
<1>1. /\ requests[l][o] > 0
      /\ requests' = [requests EXCEPT ![l][o] = @ - 1]
      /\ setBits' = [setBits EXCEPT ![l] = bits]
      /\ connectState' = IF bits = {}
                         THEN [connectState EXCEPT ![l] = "sampling"]
                         ELSE connectState
      /\ acked' = [acked EXCEPT ![l] = @ \cup {o}]
      /\ asked' = asked
  BY DEF SetSucceeded, Ready
<1>2. ConfigType'
  <2>1. requests' \in [Lidars -> [Options -> Nat]]
    BY <1>1 DEF ConfigInv, ConfigType
  <2>2. /\ setBits' \in [Lidars -> SUBSET Options]
        /\ acked' \in [Lidars -> SUBSET Options]
    BY <1>1 DEF ConfigInv, ConfigType
  <2>3. connectState' \in [Lidars -> {"off", "sampling"}]
    BY <1>1 DEF ConfigInv, ConfigType
  <2>4. QED
    BY <1>1, <2>1, <2>2, <2>3 DEF ConfigInv, ConfigType
<1>3. l \in asked
  BY <1>1 DEF ConfigInv
<1>4. OptionsOf(l) \subseteq acked'[l] \cup setBits'[l]
  BY <1>1, <1>3 DEF ConfigInv, ConfigType
<1>5. ASSUME NEW k \in Lidars, connectState'[k] = "sampling"
      PROVE  OptionsOf(k) \subseteq acked'[k]
  <2>1. CASE k = l /\ bits = {}
    BY <1>1, <1>4, <2>1 DEF ConfigInv, ConfigType
  <2>2. CASE ~(k = l /\ bits = {})
    <3>1. connectState[k] = "sampling"
      BY <1>1, <1>5, <2>2 DEF ConfigInv, ConfigType
    <3>2. OptionsOf(k) \subseteq acked[k]
      BY <3>1 DEF ConfigInv, SamplingIsConfigured
    <3>3. acked[k] \subseteq acked'[k]
      BY <1>1 DEF ConfigInv, ConfigType
    <3>4. QED
      BY <3>2, <3>3
  <2>3. QED
    BY <2>1, <2>2
<1>6. ASSUME NEW k \in Lidars
      PROVE  /\ k \in asked' => OptionsOf(k) \subseteq acked'[k] \cup setBits'[k]
             /\ \A p \in Options : requests'[k][p] > 0 => k \in asked'
  <2>1. CASE k = l
    BY <1>1, <1>3, <1>4, <2>1
  <2>2. CASE k # l
    BY <1>1, <2>2 DEF ConfigInv, ConfigType
  <2>3. QED
    BY <2>1, <2>2
<1>7. SamplingIsConfigured'
  BY <1>5 DEF SamplingIsConfigured, OptionsOf
<1>8. QED
  BY <1>2, <1>6, <1>7 DEF ConfigInv, OptionsOf

\* A refused command leaves its bit set.
LEMMA FailedKeeps ==
  ASSUME ConfigInv, NEW l \in Lidars, NEW o \in Options, SetFailed(l, o)
  PROVE  ConfigInv'
<1>1. /\ requests[l][o] > 0
      /\ requests' = [requests EXCEPT ![l][o] = @ - 1]
      /\ UNCHANGED <<asked, setBits, connectState, acked>>
  BY DEF SetFailed
<1>2. ConfigType'
  <2>1. requests' \in [Lidars -> [Options -> Nat]]
    BY <1>1 DEF ConfigInv, ConfigType
  <2>2. QED
    BY <1>1, <2>1 DEF ConfigInv, ConfigType
<1>3. ASSUME NEW k \in Lidars, NEW p \in Options, requests'[k][p] > 0
      PROVE  requests[k][p] > 0
  BY <1>1, <1>3 DEF ConfigInv, ConfigType
<1>4. QED
  BY <1>1, <1>2, <1>3 DEF ConfigInv, SamplingIsConfigured, OptionsOf

\* Every step keeps the invariant.
LEMMA ConfigStep == ConfigInv /\ [Next]_vars => ConfigInv'
<1> SUFFICES ASSUME ConfigInv, [Next]_vars PROVE ConfigInv'
  OBVIOUS
<1> DEFINE same == UNCHANGED <<asked, setBits, connectState, requests, acked>>
<1>1. CASE UNCHANGED vars
  <2>1. same
    BY <1>1 DEF vars, config
  <2>2. QED
    BY <2>1, ConfigStutter
<1>2. ASSUME NEW l \in Lidars, AddLidar(l) PROVE ConfigInv'
  <2>1. same
    BY <1>2 DEF AddLidar
  <2>2. QED
    BY <2>1, ConfigStutter
<1>3. ASSUME NEW l \in Lidars, ConfigureLidar(l) PROVE ConfigInv'
  BY <1>3, ConfigureKeeps
<1>4. ASSUME NEW l \in Lidars, NEW o \in Options, Answer(l, o) PROVE ConfigInv'
  <2>1. CASE SetSucceeded(l, o)
    BY <2>1, SucceededKeeps
  <2>2. CASE SetTimedOut(l, o)
    BY <2>2, ConfigStutter DEF SetTimedOut, vars, config
  <2>3. CASE SetFailed(l, o)
    BY <2>3, FailedKeeps
  <2>4. QED
    BY <1>4, <2>1, <2>2, <2>3 DEF Answer
<1>5. ASSUME NEW l \in Lidars,
             StoragePointData(l) \/ StorageImuData(l) \/ StoreVisible(l)
      PROVE  ConfigInv'
  <2>1. same
    BY <1>5 DEF StoragePointData, StorageImuData, StoreVisible, config
  <2>2. QED
    BY <2>1, ConfigStutter
<1>6. ASSUME NEW k \in Kinds, Store(k) PROVE ConfigInv'
  <2>1. same
    BY <1>6 DEF Store, WriteSlot, AdvanceIndex, CheckEmpty, CheckSemaphore, Signal, config
  <2>2. QED
    BY <2>1, ConfigStutter
<1>7. CASE PollImuThread
  <2>1. same
    BY <1>7 DEF PollImuThread, PollImu, PollTop, PollWait, PollEnd, PollFuture,
                PollLidar, PollerStep, config
  <2>2. QED
    BY <2>1, ConfigStutter
<1>8. CASE PollPcdThread
  <2>1. same
    BY <1>8 DEF PollPcdThread, PollOuter, PollInner, CopySlot, PopAndPublish, PollTop,
                PollWait, PollEnd, PollFuture, PollLidar, PollerStep, config
  <2>2. QED
    BY <2>1, ConfigStutter
<1>9. CASE RequestExit \/ Destroy
  <2>1. same
    BY <1>9 DEF RequestExit, Destroy, SetExitSignal, Join, DestroyStep, config
  <2>2. QED
    BY <2>1, ConfigStutter
<1>10. QED
  BY <1>1, <1>2, <1>3, <1>4, <1>5, <1>6, <1>7, <1>8, <1>9 DEF Next

\* For any number of lidars and options: connect_state becomes
\* kConnectStateSampling, and the lidar's data is published, only after the
\* lidar has acknowledged every option its configuration sets, in whatever order
\* answers, refusals, retries and repeated LidarInfoChangeCallbacks come.
THEOREM OnlyConfiguredIsSampled == Spec => []SamplingIsConfigured
<1>1. Init => ConfigInv
  BY ConfigInit
<1>2. ConfigInv /\ [Next]_vars => ConfigInv'
  BY ConfigStep
<1>3. ConfigInv => SamplingIsConfigured
  BY DEF ConfigInv
<1>4. QED
  BY <1>1, <1>2, <1>3, PTL DEF Spec
-----------------------------------------------------------------------------
(* The size of the queue and the arithmetic of its indices. *)

\* The queue has at least one slot.
LEMMA QueueSizeType == QueueSize \in Nat \ {0}
<1> DEFINE S == {p \in PowersOf2 : PacketQueueSize <= p}
<1>1. PacketQueueSize \in 1..128
  BY LivoxAssumption
<1>2. \E x \in S : \A y \in S : x <= y
  <2>1. CASE PacketQueueSize <= 1
    BY <1>1, <2>1 DEF PowersOf2
  <2>2. CASE PacketQueueSize > 1 /\ PacketQueueSize <= 2
    BY <1>1, <2>2 DEF PowersOf2
  <2>3. CASE PacketQueueSize > 2 /\ PacketQueueSize <= 4
    BY <1>1, <2>3 DEF PowersOf2
  <2>4. CASE PacketQueueSize > 4 /\ PacketQueueSize <= 8
    BY <1>1, <2>4 DEF PowersOf2
  <2>5. CASE PacketQueueSize > 8 /\ PacketQueueSize <= 16
    BY <1>1, <2>5 DEF PowersOf2
  <2>6. CASE PacketQueueSize > 16 /\ PacketQueueSize <= 32
    BY <1>1, <2>6 DEF PowersOf2
  <2>7. CASE PacketQueueSize > 32 /\ PacketQueueSize <= 64
    BY <1>1, <2>7 DEF PowersOf2
  <2>8. CASE PacketQueueSize > 64 /\ PacketQueueSize <= 128
    BY <1>1, <2>8 DEF PowersOf2
  <2>9. QED
    BY <1>1, <2>1, <2>2, <2>3, <2>4, <2>5, <2>6, <2>7, <2>8
<1>3. Min(S) \in S
  BY <1>2 DEF Min
<1>4. QED
  BY <1>3 DEF QueueSize, RoundupPowerOf2, PowersOf2

\* The distance of two indices, and the next index, without remainders.
LEMMA IndexArithmetic ==
  /\ IndexRange \in Nat /\ IndexRange >= 2 * QueueSize /\ QueueSize \in Nat \ {0}
  /\ \A a, b \in Index : Used(a, b) = IF a >= b THEN a - b ELSE a - b + IndexRange
  /\ \A a \in Index : Advanced(a) = IF a = IndexRange - 1 THEN 0 ELSE a + 1
<1>1. IndexRange \in Nat /\ IndexRange >= 2 * QueueSize /\ QueueSize \in Nat \ {0}
  BY LivoxAssumption, QueueSizeType
<1>2. IndexRange \in Nat \ {0}
  BY <1>1
<1>3. ASSUME NEW a \in Index, NEW b \in Index
      PROVE  Used(a, b) = IF a >= b THEN a - b ELSE a - b + IndexRange
  BY <1>2 DEF Used, Index
<1>4. ASSUME NEW a \in Index
      PROVE  Advanced(a) = IF a = IndexRange - 1 THEN 0 ELSE a + 1
  BY <1>2 DEF Advanced, Index
<1>5. QED
  BY <1>1, <1>3, <1>4

\* How far apart two indices are.
LEMMA UsedValue ==
  ASSUME NEW a \in Index, NEW b \in Index
  PROVE  /\ a \in Int /\ b \in Int /\ a >= 0 /\ b >= 0 /\ a < IndexRange /\ b < IndexRange
         /\ Used(a, b) = IF a >= b THEN a - b ELSE a - b + IndexRange
         /\ Used(a, b) \in Nat /\ Used(a, b) < IndexRange
         /\ Used(a, b) = 0 <=> a = b
<1>1. IndexRange \in Nat
  BY IndexArithmetic
<1>2. a \in Int /\ b \in Int /\ a >= 0 /\ b >= 0 /\ a < IndexRange /\ b < IndexRange
  BY <1>1 DEF Index
<1>3. Used(a, b) = IF a >= b THEN a - b ELSE a - b + IndexRange
  BY IndexArithmetic
<1>4. QED
  BY <1>1, <1>2, <1>3

\* Moving an index by one.
LEMMA UsedAdvanced ==
  ASSUME NEW a \in Index, NEW b \in Index
  PROVE  /\ Advanced(a) \in Index
         /\ Used(a, b) < IndexRange - 1 => Used(Advanced(a), b) = Used(a, b) + 1
         /\ a # b => Used(a, Advanced(b)) = Used(a, b) - 1
<1>1. IndexRange \in Nat
  BY IndexArithmetic
<1>2. /\ a \in Int /\ b \in Int /\ a >= 0 /\ b >= 0 /\ a < IndexRange /\ b < IndexRange
      /\ Used(a, b) = IF a >= b THEN a - b ELSE a - b + IndexRange
  BY UsedValue
<1>3. /\ Advanced(a) = IF a = IndexRange - 1 THEN 0 ELSE a + 1
      /\ Advanced(b) = IF b = IndexRange - 1 THEN 0 ELSE b + 1
  BY IndexArithmetic
<1>4. Advanced(a) \in Index /\ Advanced(b) \in Index
  BY <1>1, <1>2, <1>3 DEF Index
<1> DEFINE a1 == Advanced(a)
           b1 == Advanced(b)
           ua == Used(a1, b)
           ub == Used(a, b1)
           u  == Used(a, b)
<1>5. /\ ua = IF a1 >= b THEN a1 - b ELSE a1 - b + IndexRange
      /\ ub = IF a >= b1 THEN a - b1 ELSE a - b1 + IndexRange
  <2>1. ua = IF a1 >= b THEN a1 - b ELSE a1 - b + IndexRange
    BY <1>4, UsedValue
  <2>2. ub = IF a >= b1 THEN a - b1 ELSE a - b1 + IndexRange
    BY <1>4, UsedValue
  <2>3. QED
    BY <2>1, <2>2
<1>6. /\ a1 = IF a = IndexRange - 1 THEN 0 ELSE a + 1
      /\ b1 = IF b = IndexRange - 1 THEN 0 ELSE b + 1
      /\ u = IF a >= b THEN a - b ELSE a - b + IndexRange
  BY <1>2, <1>3
<1> HIDE DEF a1, b1, ua, ub, u
<1>7. u < IndexRange - 1 => ua = u + 1
  BY <1>1, <1>2, <1>5, <1>6
<1>8. a # b => ub = u - 1
  BY <1>1, <1>2, <1>5, <1>6
<1>9. QED
  BY <1>4, <1>7, <1>8 DEF a1, b1, ua, ub, u

\* Quotient and remainder.
LEMMA Quotient ==
  ASSUME NEW n \in Nat \ {0}, NEW a \in Int
  PROVE  /\ a % n \in 0..(n - 1)
         /\ \E q \in Int : a = q * n + (a % n)
<1>1. a % n \in 0..(n - 1)
  OBVIOUS
<1>2. n \in Int /\ n > 0
  OBVIOUS
<1>3. a = (a \div n) * n + (a % n) /\ a \div n \in Int
  BY <1>2
<1>4. QED
  BY <1>1, <1>3

LEMMA Remainder ==
  ASSUME NEW n \in Nat \ {0}, NEW a \in Int, NEW q \in Int, NEW r \in 0..(n - 1),
         a = q * n + r
  PROVE  a % n = r
OBVIOUS

LEMMA Multiples ==
  ASSUME NEW n \in Nat \ {0}, NEW a \in Int, NEW b \in Int
  PROVE  /\ a * n \in Int
         /\ a * n + b * n = (a + b) * n
         /\ a * n - b * n = (a - b) * n
         /\ a * n > 0 => a * n >= n
<1>1. a * n \in Int /\ a * n + b * n = (a + b) * n /\ a * n - b * n = (a - b) * n
  OBVIOUS
<1>2. ASSUME a * n > 0 PROVE a * n >= n
  <2>1. a >= 1
    BY <1>2
  <2>2. QED
    BY <2>1
<1>3. QED
  BY <1>1, <1>2

\* The slot of an index does not depend on whether the index has wrapped around.
LEMMA SlotWraps ==
  ASSUME NEW a \in Int
  PROVE  Slot(a + IndexRange) = Slot(a) /\ Slot(a) \in 0..(QueueSize - 1)
<1>1. /\ QueueSize \in Nat \ {0} /\ IndexRange \in Nat /\ IndexRange % QueueSize = 0
  BY LivoxAssumption, QueueSizeType
<1>2. a % QueueSize \in 0..(QueueSize - 1)
  BY <1>1
<1>3. PICK q \in Int : a = q * QueueSize + (a % QueueSize)
  BY <1>1, Quotient
<1>4. PICK k \in Int : IndexRange = k * QueueSize + (IndexRange % QueueSize)
  <2>1. IndexRange \in Int
    BY <1>1
  <2>2. QED
    BY <2>1, QueueSizeType, Quotient, Zenon
<1>5. a + IndexRange = (q + k) * QueueSize + (a % QueueSize)
  <2>1. /\ q * QueueSize + k * QueueSize = (q + k) * QueueSize
        /\ q * QueueSize \in Int /\ k * QueueSize \in Int
    BY <1>1, Multiples
  <2> DEFINE x == q * QueueSize
             y == k * QueueSize
             r == a % QueueSize
  <2>2. a = x + r /\ IndexRange = y /\ x \in Int /\ y \in Int /\ r \in Int
    BY <1>1, <1>2, <1>3, <1>4, <2>1
  <2> HIDE DEF x, y, r
  <2>3. a + IndexRange = (x + y) + r
    BY <2>2
  <2>4. QED
    BY <2>1, <2>3 DEF x, y, r
<1>6. (a + IndexRange) % QueueSize = a % QueueSize
  <2> DEFINE r == a % QueueSize
             b == a + IndexRange
             m == q + k
  <2>1. r \in 0..(QueueSize - 1) /\ b \in Int /\ m \in Int /\ b = m * QueueSize + r
    BY <1>1, <1>2, <1>5
  <2> HIDE DEF r, b, m
  <2>2. b % QueueSize = r
    BY <1>1, <2>1, Remainder
  <2>3. QED
    BY <2>2 DEF r, b
<1>7. QED
  BY <1>2, <1>6 DEF Slot

\* Two indices less than the size of the queue apart have different slots.
LEMMA SlotsDiffer ==
  ASSUME NEW a \in Int, NEW b \in Int, a < b, b - a < QueueSize
  PROVE  Slot(a) # Slot(b)
<1>1. QueueSize \in Nat \ {0}
  BY QueueSizeType
<1> SUFFICES ASSUME a % QueueSize = b % QueueSize PROVE FALSE
  BY DEF Slot
<1>2. PICK q \in Int : a = q * QueueSize + (a % QueueSize)
  BY <1>1, Quotient
<1>3. PICK k \in Int : b = k * QueueSize + (b % QueueSize)
  BY <1>1, Quotient
<1> DEFINE x == q * QueueSize
           y == k * QueueSize
           z == (k - q) * QueueSize
           r == a % QueueSize
<1>4. a = x + r /\ b = y + r /\ x \in Int /\ y \in Int /\ r \in Int /\ y - x = z
  BY <1>1, <1>2, <1>3, Multiples, Quotient
<1>5. k - q \in Int /\ (z > 0 => z >= QueueSize)
  BY <1>1, Multiples
<1> HIDE DEF x, y, z, r
<1>6. QED
  BY <1>1, <1>4, <1>5
-----------------------------------------------------------------------------
(* Types: the threads, the queues and the semaphores. *)

Producers == [pc : {"idle", "write", "advance", "empty", "check", "signal"}, lidar : Lidars]

Pollers == [pc : {"top", "wait", "scan", "outer", "inner", "copy", "pop", "future", "done"},
            lidar : Lidars, todo : SUBSET Lidars]

DataType ==
  /\ known \in SUBSET Lidars
  /\ failed \in SUBSET Lidars
  /\ ring \in [Lidars -> Ring]
  /\ published \in [Lidars -> Nat]
  /\ imuQueue \in [Lidars -> Nat]
  /\ semaphore \in [Kinds -> 0..1]
  /\ producer \in [Kinds -> Producers]
  /\ poller \in [Kinds -> Pollers]
  /\ packet \in Nat
  /\ requestExit \in BOOLEAN
  /\ exitSignal \in BOOLEAN
  /\ joined \in SUBSET Kinds
  /\ count \in [{"frame", "imu", "info", "failure"} -> Nat]

\* What keeps the semaphores from counting past 1: the only thread that
\* signals one has found it at 0, and nobody else has signalled it since.
DataInv ==
  /\ DataType
  /\ \A k \in Kinds : producer[k].pc = "signal" => semaphore[k] = 0

\* What a thread's step to another pc leaves of the thread.
LEMMA GotoProducer ==
  ASSUME NEW k \in Kinds, producer \in [Kinds -> Producers],
         NEW pc \in {"idle", "write", "advance", "empty", "check", "signal"},
         producer' = Goto(producer, k, pc)
  PROVE  /\ producer' \in [Kinds -> Producers]
         /\ producer'[k].pc = pc /\ producer'[k].lidar = producer[k].lidar
         /\ \A j \in Kinds : j # k => producer'[j] = producer[j]
<1>1. producer[k] \in Producers
  OBVIOUS
<1>2. [producer[k] EXCEPT !.pc = pc] \in Producers
      /\ [producer[k] EXCEPT !.pc = pc].pc = pc
      /\ [producer[k] EXCEPT !.pc = pc].lidar = producer[k].lidar
  BY <1>1 DEF Producers
<1>3. producer' = [producer EXCEPT ![k] = [producer[k] EXCEPT !.pc = pc]]
  BY DEF Goto
<1>4. QED
  BY <1>2, <1>3

LEMMA GotoPoller ==
  ASSUME NEW k \in Kinds, poller \in [Kinds -> Pollers],
         NEW pc \in {"top", "wait", "scan", "outer", "inner", "copy", "pop", "future", "done"},
         poller' = Goto(poller, k, pc)
  PROVE  /\ poller' \in [Kinds -> Pollers]
         /\ poller'[k].pc = pc /\ poller'[k].lidar = poller[k].lidar
         /\ \A j \in Kinds : j # k => poller'[j] = poller[j]
<1>1. poller[k] \in Pollers
  OBVIOUS
<1>2. [poller[k] EXCEPT !.pc = pc] \in Pollers
      /\ [poller[k] EXCEPT !.pc = pc].pc = pc
      /\ [poller[k] EXCEPT !.pc = pc].lidar = poller[k].lidar
  BY <1>1 DEF Pollers
<1>3. poller' = [poller EXCEPT ![k] = [poller[k] EXCEPT !.pc = pc]]
  BY DEF Goto
<1>4. QED
  BY <1>2, <1>3

\* An index that becomes visible changes nothing else.
LEMMA VisibleFacts ==
  ASSUME NEW r \in Ring
  PROVE  /\ WrVisible(r) \in Ring /\ RdVisible(r) \in Ring
         /\ WrVisible(r).slots = r.slots /\ RdVisible(r).slots = r.slots
         /\ WrVisible(r).rd = r.rd /\ WrVisible(r).wr = r.wr
         /\ RdVisible(r).rd = r.rd /\ RdVisible(r).wr = r.wr
         /\ WrVisible(r).rdSeen = r.rdSeen /\ WrVisible(r).wrSeen = r.wr
         /\ RdVisible(r).rdSeen = r.rd /\ RdVisible(r).wrSeen = r.wrSeen
BY DEF Ring, WrVisible, RdVisible

\* The slot of the frame being stored, and the index after it.
LEMMA AdvancedType == \A a \in Index : Advanced(a) \in Index
BY IndexArithmetic DEF Index

LEMMA CountsType ==
  ASSUME count \in [{"frame", "imu", "info", "failure"} -> Nat],
         NEW kind \in {"frame", "imu", "info", "failure"}, NEW bound, Counts(kind, bound)
  PROVE  /\ count' \in [{"frame", "imu", "info", "failure"} -> Nat]
         /\ count'[kind] = count[kind] + 1
         /\ kind # "frame" => count'["frame"] = count["frame"]
BY DEF Counts

LEMMA DataInit == Init => DataInv
<1> SUFFICES ASSUME Init PROVE DataInv
  OBVIOUS
<1>1. PICK l \in Lidars :
        /\ producer = [k \in Kinds |-> [pc |-> "idle", lidar |-> l]]
        /\ poller = [k \in Kinds |-> [pc |-> "top", lidar |-> l, todo |-> {}]]
  BY DEF Init
<1>2. /\ producer \in [Kinds -> Producers] /\ poller \in [Kinds -> Pollers]
      /\ \A k \in Kinds : producer[k].pc = "idle"
  BY <1>1 DEF Producers, Pollers
<1>3. 0 \in Index
  BY IndexArithmetic DEF Index
<1>4. ring \in [Lidars -> Ring]
  <2>1. [i \in 0..(QueueSize - 1) |-> 0] \in [0..(QueueSize - 1) -> Nat]
    OBVIOUS
  <2>2. [slots |-> [i \in 0..(QueueSize - 1) |-> 0], rd |-> 0, wr |-> 0, rdSeen |-> 0,
         wrSeen |-> 0] \in Ring
    BY <1>3, <2>1 DEF Ring
  <2>3. QED
    BY <2>2 DEF Init
<1>5. known \in SUBSET Lidars
  BY LivoxAssumption DEF Init
<1>6. /\ published \in [Lidars -> Nat] /\ imuQueue \in [Lidars -> Nat]
      /\ semaphore \in [Kinds -> 0..1]
      /\ count \in [{"frame", "imu", "info", "failure"} -> Nat]
  BY DEF Init
<1>7. QED
  BY <1>2, <1>4, <1>5, <1>6 DEF Init, DataInv, DataType

\* The command thread.
LEMMA CommandData ==
  ASSUME DataInv, NEW l \in Lidars,
         AddLidar(l) \/ ConfigureLidar(l) \/ \E o \in Options : Answer(l, o)
  PROVE  DataInv'
<1>1. UNCHANGED <<ring, published, imuQueue, semaphore, producer, poller, packet,
                  requestExit, exitSignal, joined>>
  BY DEF AddLidar, ConfigureLidar, Answer, SetSucceeded, SetTimedOut, SetFailed, shutdown, vars
<1>2. known' \in SUBSET Lidars /\ failed' \in SUBSET Lidars
  BY DEF DataInv, DataType, AddLidar, ConfigureLidar, Answer, SetSucceeded, SetTimedOut,
         SetFailed, vars, config
<1>3. count' \in [{"frame", "imu", "info", "failure"} -> Nat]
  <2>1. \/ Counts("info", MaxInfoChanges) \/ Counts("failure", MaxFailures) \/ count' = count
    BY DEF AddLidar, ConfigureLidar, Answer, SetSucceeded, SetTimedOut, SetFailed, vars
  <2>2. QED
    BY <2>1, CountsType DEF DataInv, DataType
<1>4. QED
  BY <1>1, <1>2, <1>3 DEF DataInv, DataType

\* The threads that store data.
LEMMA StorageData ==
  ASSUME DataInv, NEW l \in Lidars, StoragePointData(l) \/ StorageImuData(l) \/ StoreVisible(l)
  PROVE  DataInv'
<1> USE VisibleFacts DEF DataInv, DataType
<1>1. CASE StoragePointData(l)
  <2>1. ring' \in [Lidars -> Ring]
    BY <1>1 DEF StoragePointData
  <2>2. count' \in [{"frame", "imu", "info", "failure"} -> Nat]
    BY <1>1, CountsType DEF StoragePointData
  <2>3. \/ producer' = producer
        \/ \E pc \in {"check", "write"} :
             producer' = [producer EXCEPT !["pcd"] = [pc |-> pc, lidar |-> l]]
    BY <1>1 DEF StoragePointData
  <2>4. /\ producer' \in [Kinds -> Producers]
        /\ \A k \in Kinds : producer'[k] = producer[k] \/ producer'[k].pc # "signal"
    BY <2>3 DEF Producers, Kinds
  <2>5. QED
    BY <1>1, <2>1, <2>2, <2>4 DEF StoragePointData, config, shutdown
<1>2. CASE StorageImuData(l)
  <2>1. imuQueue' \in [Lidars -> Nat]
    BY <1>2 DEF StorageImuData
  <2>2. count' \in [{"frame", "imu", "info", "failure"} -> Nat]
    BY <1>2, CountsType DEF StorageImuData
  <2>3. \/ producer' = producer
        \/ producer' = [producer EXCEPT !["imu"] = [pc |-> "empty", lidar |-> l]]
    BY <1>2 DEF StorageImuData
  <2>4. /\ producer' \in [Kinds -> Producers]
        /\ \A k \in Kinds : producer'[k] = producer[k] \/ producer'[k].pc # "signal"
    BY <2>3 DEF Producers, Kinds
  <2>5. QED
    BY <1>2, <2>1, <2>2, <2>4 DEF StorageImuData, config, shutdown
<1>3. CASE StoreVisible(l)
  <2>1. ring' \in [Lidars -> Ring]
    BY <1>3 DEF StoreVisible
  <2>2. QED
    BY <1>3, <2>1 DEF StoreVisible, config, shutdown
<1>4. QED
  BY <1>1, <1>2, <1>3

LEMMA WriteSlotFacts ==
  ASSUME DataInv, WriteSlot
  PROVE  LET l == producer["pcd"].lidar
         IN  /\ l \in Lidars /\ producer["pcd"].pc = "write"
             /\ ring' \in [Lidars -> Ring]
             /\ \A k \in Lidars :
                  /\ ring'[k].rd = ring[k].rd /\ ring'[k].wr = ring[k].wr
                  /\ ring'[k].rdSeen = ring[k].rdSeen /\ ring'[k].wrSeen = ring[k].wrSeen
                  /\ k # l => ring'[k].slots = ring[k].slots
             /\ Slot(ring[l].wr) \in 0..(QueueSize - 1)
             /\ ring'[l].slots = [ring[l].slots EXCEPT ![Slot(ring[l].wr)] = count["frame"]]
             /\ UNCHANGED <<poller, packet, published, count>>
             /\ producer' = Goto(producer, "pcd", "advance")
<1> DEFINE l == producer["pcd"].lidar
<1>1. l \in Lidars /\ producer["pcd"].pc = "write"
  BY DEF DataInv, DataType, WriteSlot, At, Kinds, Producers
<1>2. ring[l] \in Ring /\ ring \in [Lidars -> Ring]
  BY <1>1 DEF DataInv, DataType
<1>3. Slot(ring[l].wr) \in 0..(QueueSize - 1)
  <2>1. ring[l].wr \in Int
    BY <1>2 DEF Ring, Index
  <2>2. QED
    BY <2>1, SlotWraps
<1>4. count["frame"] \in Nat
  BY DEF DataInv, DataType
<1> DEFINE s == [ring[l].slots EXCEPT ![Slot(ring[l].wr)] = count["frame"]]
           r == [ring[l] EXCEPT !.slots = s]
<1>5. ring' = [ring EXCEPT ![l] = r]
  BY DEF WriteSlot
<1>6. s \in [0..(QueueSize - 1) -> Nat]
  BY <1>2, <1>3, <1>4 DEF Ring
<1> HIDE DEF s
<1>7. /\ r \in Ring /\ r.slots = s /\ r.rd = ring[l].rd /\ r.wr = ring[l].wr
      /\ r.rdSeen = ring[l].rdSeen /\ r.wrSeen = ring[l].wrSeen
  BY <1>2, <1>6 DEF Ring
<1> HIDE DEF r, l
<1>8. /\ ring' \in [Lidars -> Ring] /\ ring'[l] = r
      /\ \A k \in Lidars : k # l => ring'[k] = ring[k]
  BY <1>1, <1>2, <1>5, <1>7
<1>9. UNCHANGED <<poller, packet, published, count>>
      /\ producer' = Goto(producer, "pcd", "advance")
  BY DEF WriteSlot
<1>10. QED
  BY <1>1, <1>3, <1>7, <1>8, <1>9 DEF l, s

LEMMA AdvanceIndexFacts ==
  ASSUME DataInv, AdvanceIndex
  PROVE  LET l == producer["pcd"].lidar
         IN  /\ l \in Lidars /\ producer["pcd"].pc = "advance"
             /\ ring' \in [Lidars -> Ring]
             /\ \A k \in Lidars :
                  /\ ring'[k].rd = ring[k].rd /\ ring'[k].slots = ring[k].slots
                  /\ ring'[k].rdSeen = ring[k].rdSeen /\ ring'[k].wrSeen = ring[k].wrSeen
                  /\ k # l => ring'[k].wr = ring[k].wr
             /\ ring'[l].wr = Advanced(ring[l].wr)
             /\ UNCHANGED <<poller, packet, published, count>>
             /\ producer' = Goto(producer, "pcd", "empty")
<1> DEFINE l == producer["pcd"].lidar
<1>1. l \in Lidars /\ producer["pcd"].pc = "advance"
  BY DEF DataInv, DataType, AdvanceIndex, At, Kinds, Producers
<1>2. ring[l] \in Ring /\ ring \in [Lidars -> Ring]
  BY <1>1 DEF DataInv, DataType
<1> DEFINE w == Advanced(ring[l].wr)
           r == [ring[l] EXCEPT !.wr = w]
<1>3. w \in Index
  BY <1>2, AdvancedType DEF Ring
<1>4. ring' = [ring EXCEPT ![l] = r]
  BY DEF AdvanceIndex
<1> HIDE DEF w
<1>5. /\ r \in Ring /\ r.slots = ring[l].slots /\ r.rd = ring[l].rd /\ r.wr = w
      /\ r.rdSeen = ring[l].rdSeen /\ r.wrSeen = ring[l].wrSeen
  BY <1>2, <1>3 DEF Ring
<1> HIDE DEF r, l
<1>6. /\ ring' \in [Lidars -> Ring] /\ ring'[l] = r
      /\ \A k \in Lidars : k # l => ring'[k] = ring[k]
  BY <1>1, <1>2, <1>4, <1>5
<1>7. UNCHANGED <<poller, packet, published, count>>
      /\ producer' = Goto(producer, "pcd", "empty")
  BY DEF AdvanceIndex
<1>8. QED
  BY <1>1, <1>5, <1>6, <1>7 DEF l, w

LEMMA PopFacts ==
  ASSUME DataInv, PopAndPublish
  PROVE  LET l == poller["pcd"].lidar
         IN  /\ l \in Lidars /\ poller["pcd"].pc = "pop"
             /\ ring' \in [Lidars -> Ring]
             /\ \A k \in Lidars :
                  /\ ring'[k].wr = ring[k].wr /\ ring'[k].slots = ring[k].slots
                  /\ ring'[k].rdSeen = ring[k].rdSeen /\ ring'[k].wrSeen = ring[k].wrSeen
                  /\ k # l => ring'[k].rd = ring[k].rd
             /\ ring'[l].rd = Advanced(ring[l].rd)
             /\ published' = [published EXCEPT ![l] = packet]
             /\ UNCHANGED <<producer, packet, count, semaphore>>
             /\ poller' = Goto(poller, "pcd", "inner")
<1> DEFINE l == poller["pcd"].lidar
<1>1. l \in Lidars /\ poller["pcd"].pc = "pop"
  BY DEF DataInv, DataType, PopAndPublish, PollerStep, At, Kinds, Pollers
<1>2. ring[l] \in Ring /\ ring \in [Lidars -> Ring]
  BY <1>1 DEF DataInv, DataType
<1> DEFINE w == Advanced(ring[l].rd)
           r == [ring[l] EXCEPT !.rd = w]
<1>3. w \in Index
  BY <1>2, AdvancedType DEF Ring
<1>4. ring' = [ring EXCEPT ![l] = r]
  BY DEF PopAndPublish
<1> HIDE DEF w
<1>5. /\ r \in Ring /\ r.slots = ring[l].slots /\ r.wr = ring[l].wr /\ r.rd = w
      /\ r.rdSeen = ring[l].rdSeen /\ r.wrSeen = ring[l].wrSeen
  BY <1>2, <1>3 DEF Ring
<1> HIDE DEF r, l
<1>6. /\ ring' \in [Lidars -> Ring] /\ ring'[l] = r
      /\ \A k \in Lidars : k # l => ring'[k] = ring[k]
  BY <1>1, <1>2, <1>4, <1>5
<1>7. /\ published' = [published EXCEPT ![l] = packet]
      /\ UNCHANGED <<producer, packet, count, semaphore>>
      /\ poller' = Goto(poller, "pcd", "inner")
  BY DEF PopAndPublish, PollerStep, l
<1>8. QED
  BY <1>1, <1>5, <1>6, <1>7 DEF l, w

\* A thread in the middle of storing data.
LEMMA StoreData ==
  ASSUME DataInv, NEW k \in Kinds, Store(k)
  PROVE  DataInv'
<1> USE DEF DataInv, DataType
<1>0. "pcd" \in Kinds
  BY DEF Kinds
<1>1. CASE WriteSlot
  <2>1. ring' \in [Lidars -> Ring] /\ producer' = Goto(producer, "pcd", "advance")
    BY <1>1, WriteSlotFacts
  <2>2. /\ producer' \in [Kinds -> Producers]
        /\ \A j \in Kinds : producer'[j] = producer[j] \/ producer'[j].pc # "signal"
    BY <1>0, <2>1, GotoProducer
  <2>3. QED
    BY <1>1, <2>1, <2>2 DEF WriteSlot, config, shutdown
<1>2. CASE AdvanceIndex
  <2>1. ring' \in [Lidars -> Ring] /\ producer' = Goto(producer, "pcd", "empty")
    BY <1>2, AdvanceIndexFacts
  <2>2. /\ producer' \in [Kinds -> Producers]
        /\ \A j \in Kinds : producer'[j] = producer[j] \/ producer'[j].pc # "signal"
    BY <1>0, <2>1, GotoProducer
  <2>3. QED
    BY <1>2, <2>1, <2>2 DEF AdvanceIndex, config, shutdown
<1>3. CASE CheckEmpty(k)
  <2>1. \E pc \in {"idle", "check"} : producer' = Goto(producer, k, pc)
    BY <1>3 DEF CheckEmpty
  <2>2. /\ producer' \in [Kinds -> Producers]
        /\ \A j \in Kinds : producer'[j] = producer[j] \/ producer'[j].pc # "signal"
    BY <2>1, GotoProducer
  <2>3. QED
    BY <1>3, <2>2 DEF CheckEmpty, config, shutdown
<1>4. CASE CheckSemaphore(k)
  <2>1. \/ producer' = Goto(producer, k, "idle")
        \/ producer' = Goto(producer, k, "signal") /\ semaphore[k] <= 0
    BY <1>4 DEF CheckSemaphore, NeedsSignal
  <2>2. /\ producer' \in [Kinds -> Producers]
        /\ \A j \in Kinds : \/ producer'[j] = producer[j] \/ producer'[j].pc # "signal"
                            \/ semaphore[j] = 0
    BY <2>1, GotoProducer
  <2>3. QED
    BY <1>4, <2>2 DEF CheckSemaphore, config, shutdown
<1>5. CASE Signal(k)
  <2>1. semaphore[k] = 0
    BY <1>5 DEF Signal, At
  <2>2. /\ producer' = Goto(producer, k, "idle")
        /\ semaphore' = [semaphore EXCEPT ![k] = @ + 1]
    BY <1>5 DEF Signal
  <2>3. /\ producer' \in [Kinds -> Producers] /\ producer'[k].pc = "idle"
        /\ \A j \in Kinds : j # k => producer'[j] = producer[j]
    BY <2>2, GotoProducer
  <2>4. semaphore' \in [Kinds -> 0..1] /\ \A j \in Kinds : j # k => semaphore'[j] = semaphore[j]
    BY <2>1, <2>2
  <2>5. ring' \in [Lidars -> Ring]
    BY <1>5, VisibleFacts DEF Signal
  <2>6. QED
    BY <1>5, <2>3, <2>4, <2>5 DEF Signal, config, shutdown
<1>6. QED
  BY <1>1, <1>2, <1>3, <1>4, <1>5 DEF Store

\* A step of a poll thread that only moves it.
LEMMA PollerStepData ==
  ASSUME DataInv, NEW k \in Kinds, NEW pc,
         NEW next \in {"top", "wait", "scan", "outer", "inner", "copy", "pop", "future", "done"},
         PollerStep(k, pc, next), ring' \in [Lidars -> Ring], published' \in [Lidars -> Nat],
         semaphore' = semaphore
  PROVE  DataInv'
<1>1. poller' \in [Kinds -> Pollers]
  BY GotoPoller DEF PollerStep, DataInv, DataType
<1>2. QED
  BY <1>1 DEF PollerStep, DataInv, DataType, config, shutdown

\* A poll thread that starts its round, or looks at the next lidar.
LEMMA RoundFacts ==
  ASSUME DataInv, NEW k \in Kinds, PollWait(k) \/ \E l \in Lidars : PollLidar(k, l)
  PROVE  /\ poller' \in [Kinds -> Pollers] /\ poller'[k].pc \in {"scan", "outer"}
         /\ \A j \in Kinds : j # k => poller'[j] = poller[j]
<1>1. poller \in [Kinds -> Pollers] /\ poller[k] \in Pollers
  BY DEF DataInv, DataType
<1>2. CASE PollWait(k)
  <2> DEFINE q == [poller[k] EXCEPT !.pc = "scan", !.todo = Lidars]
  <2>1. poller' = [poller EXCEPT ![k] = q]
    BY <1>1, <1>2 DEF PollWait
  <2>2. q \in Pollers /\ q.pc = "scan"
    BY <1>1 DEF Pollers
  <2> HIDE DEF q
  <2>3. QED
    BY <1>1, <2>1, <2>2
<1>3. ASSUME NEW l \in Lidars, PollLidar(k, l)
      PROVE  /\ poller' \in [Kinds -> Pollers] /\ poller'[k].pc \in {"scan", "outer"}
             /\ \A j \in Kinds : j # k => poller'[j] = poller[j]
  <2> DEFINE pc == IF connectState[l] = "sampling" THEN "outer" ELSE "scan"
             q == [poller[k] EXCEPT !.pc = pc, !.lidar = l, !.todo = poller[k].todo \ {l}]
  <2>1. poller' = [poller EXCEPT ![k] = q]
    BY <1>1, <1>3 DEF PollLidar
  <2>2. pc \in {"scan", "outer"}
    OBVIOUS
  <2> HIDE DEF pc
  <2>3. q \in Pollers /\ q.pc = pc
    BY <1>1, <2>2 DEF Pollers
  <2> HIDE DEF q
  <2>4. QED
    BY <1>1, <2>1, <2>2, <2>3
<1>4. QED
  BY <1>2, <1>3

\* The steps both poll threads take.
LEMMA PollData ==
  ASSUME DataInv, NEW k \in Kinds,
         \/ PollTop(k) \/ PollWait(k) \/ PollEnd(k) \/ PollFuture(k)
         \/ \E l \in Lidars : PollLidar(k, l)
  PROVE  DataInv'
<1>1. CASE PollTop(k)
  BY <1>1, PollerStepData DEF PollTop, DataInv, DataType
<1>2. CASE PollEnd(k)
  BY <1>2, PollerStepData DEF PollEnd, DataInv, DataType
<1>3. CASE PollFuture(k)
  BY <1>3, PollerStepData DEF PollFuture, DataInv, DataType
<1>4. CASE PollWait(k)
  <2>1. poller' \in [Kinds -> Pollers]
    BY <1>4, RoundFacts
  <2>2. /\ semaphore' \in [Kinds -> 0..1]
        /\ \A j \in Kinds : semaphore'[j] = semaphore[j] \/ semaphore'[j] = 0
    BY <1>4 DEF PollWait, DataInv, DataType
  <2>3. ring' \in [Lidars -> Ring]
    BY <1>4, VisibleFacts DEF PollWait, DataInv, DataType
  <2>4. QED
    BY <1>4, <2>1, <2>2, <2>3 DEF PollWait, DataInv, DataType, config, shutdown
<1>5. ASSUME NEW l \in Lidars, PollLidar(k, l) PROVE DataInv'
  <2>1. poller' \in [Kinds -> Pollers]
    BY <1>5, RoundFacts
  <2>2. QED
    BY <1>5, <2>1 DEF PollLidar, DataInv, DataType, config, shutdown
<1>6. QED
  BY <1>1, <1>2, <1>3, <1>4, <1>5

\* The steps of the point cloud poll thread alone, and of the IMU one.
LEMMA PublishData ==
  ASSUME DataInv, PollOuter \/ PollInner \/ CopySlot \/ PopAndPublish \/ PollImu
  PROVE  DataInv'
<1>0. "pcd" \in Kinds /\ "imu" \in Kinds
  BY DEF Kinds
<1>1. CASE PollOuter
  BY <1>0, <1>1, PollerStepData DEF PollOuter, DataInv, DataType
<1>2. CASE PollInner
  BY <1>0, <1>2, PollerStepData DEF PollInner, DataInv, DataType
<1>3. CASE CopySlot
  <2>1. poller["pcd"].lidar \in Lidars
    BY <1>0 DEF DataInv, DataType, Pollers
  <2>2. /\ ring[poller["pcd"].lidar] \in Ring
        /\ ring[poller["pcd"].lidar].rd \in Int
    BY <2>1 DEF DataInv, DataType, Ring, Index
  <2>3. packet' \in Nat
    <3>1. Slot(ring[poller["pcd"].lidar].rd) \in 0..(QueueSize - 1)
      BY <2>2, SlotWraps
    <3>2. QED
      BY <1>3, <2>2, <3>1 DEF CopySlot, Ring
  <2>4. poller' \in [Kinds -> Pollers]
    BY <1>0, <1>3, GotoPoller DEF CopySlot, DataInv, DataType
  <2>5. QED
    BY <1>3, <2>3, <2>4 DEF CopySlot, DataInv, DataType, config, shutdown
<1>4. CASE PopAndPublish
  <2>1. ring' \in [Lidars -> Ring]
    BY <1>4, PopFacts
  <2>2. published' \in [Lidars -> Nat]
    BY <1>4 DEF PopAndPublish, DataInv, DataType
  <2>3. PollerStep("pcd", "pop", "inner") /\ semaphore' = semaphore
    BY <1>4 DEF PopAndPublish
  <2>4. QED
    BY <1>0, <2>1, <2>2, <2>3, PollerStepData
<1>5. CASE PollImu
  <2>1. poller["imu"].lidar \in Lidars
    BY <1>0 DEF DataInv, DataType, Pollers
  <2>2. poller' \in [Kinds -> Pollers]
    BY <1>0, <1>5, GotoPoller DEF PollImu, DataInv, DataType
  <2>3. imuQueue' \in [Lidars -> Nat]
    BY <1>5, <2>1 DEF PollImu, DataInv, DataType
  <2>4. QED
    BY <1>5, <2>2, <2>3 DEF PollImu, DataInv, DataType, config, shutdown
<1>6. QED
  BY <1>1, <1>2, <1>3, <1>4, <1>5

LEMMA DataStep == DataInv /\ [Next]_vars => DataInv'
<1> SUFFICES ASSUME DataInv, [Next]_vars PROVE DataInv'
  OBVIOUS
<1>1. ASSUME NEW l \in Lidars,
             AddLidar(l) \/ ConfigureLidar(l) \/ \E o \in Options : Answer(l, o)
      PROVE  DataInv'
  BY <1>1, CommandData
<1>2. ASSUME NEW l \in Lidars, StoragePointData(l) \/ StorageImuData(l) \/ StoreVisible(l)
      PROVE  DataInv'
  BY <1>2, StorageData
<1>3. ASSUME NEW k \in Kinds, Store(k) PROVE DataInv'
  BY <1>3, StoreData
<1>4. CASE PollImuThread \/ PollPcdThread
  <2>1. "pcd" \in Kinds /\ "imu" \in Kinds
    BY DEF Kinds
  <2>2. QED
    BY <1>4, <2>1, PollData, PublishData DEF PollImuThread, PollPcdThread
<1>5. CASE RequestExit \/ SetExitSignal
  BY <1>5 DEF RequestExit, SetExitSignal, DestroyStep, DataInv, DataType, config
<1>6. ASSUME NEW k \in Kinds, Join(k) PROVE DataInv'
  BY <1>6 DEF Join, DestroyStep, DataInv, DataType, config
<1>7. CASE UNCHANGED vars
  BY <1>7 DEF vars, DataInv, DataType, config, shutdown
<1>8. QED
  BY <1>1, <1>2, <1>3, <1>4, <1>5, <1>6, <1>7 DEF Next, Destroy

\* Types; in particular neither semaphore is counted past 1, although its count
\* is read without its mutex (CheckSemaphore) and incremented later.
THEOREM TypeCorrect == Spec => []TypeOK
<1>1. Init => ConfigInv /\ DataInv
  BY ConfigInit, DataInit
<1>2. ConfigInv /\ DataInv /\ [Next]_vars => (ConfigInv /\ DataInv)'
  BY ConfigStep, DataStep
<1>3. ConfigInv /\ DataInv => TypeOK
  BY DEF ConfigInv, ConfigType, DataInv, DataType, TypeOK, Producers, Pollers
<1>4. QED
  BY <1>1, <1>2, <1>3, PTL DEF Spec
-----------------------------------------------------------------------------
(* The two indices of the ring buffer. *)

\* Between QueueIsFull and the index behind the slot; between QueueIsEmpty and
\* the index behind the copy.
Writing == producer["pcd"].pc \in {"write", "advance"}
Taking == poller["pcd"].pc \in {"copy", "pop"}

\* What makes NoTornRead inductive: an index a thread sees is one the other
\* thread had; the storing thread sees no more room than there is, the poll
\* thread no more frames than there are, and what either found when it looked
\* still holds while it acts on it.
IndexInv ==
  /\ \A l \in Lidars :
       /\ Used(ring[l].wr, ring[l].rd) <= Used(ring[l].wr, ring[l].rdSeen)
       /\ Used(ring[l].wr, ring[l].rdSeen) <= QueueSize
       /\ Used(ring[l].wrSeen, ring[l].rd) <= Used(ring[l].wr, ring[l].rd)
  /\ Writing => \A l \in Lidars : l = producer["pcd"].lidar =>
       Used(ring[l].wr, ring[l].rdSeen) < QueueSize
  /\ Taking => \A l \in Lidars : l = poller["pcd"].lidar =>
       ring[l].rd # ring[l].wrSeen

\* The buffer of a lidar is left alone, except that an index may become visible.
Sees(l) ==
  /\ ring'[l].slots = ring[l].slots
  /\ ring'[l].rd = ring[l].rd /\ ring'[l].wr = ring[l].wr
  /\ ring'[l].rdSeen \in {ring[l].rdSeen, ring[l].rd}
  /\ ring'[l].wrSeen \in {ring[l].wrSeen, ring[l].wr}

\* A step that neither stores nor takes a frame, nor begins to.
Aside ==
  /\ \A l \in Lidars : Sees(l)
  /\ UNCHANGED <<packet, published>> /\ count'["frame"] = count["frame"]
  /\ producer'["pcd"] = producer["pcd"] \/ (~Writing /\ ~Writing')
  /\ poller'["pcd"] = poller["pcd"] \/ ~Taking'

\* A step that leaves the buffer, and the thread on one side of it, alone.
LEMMA SeesUnchanged == ring' = ring => \A l \in Lidars : Sees(l)
BY DEF Sees

LEMMA SeesVisible ==
  ASSUME DataInv, NEW l \in Lidars,
         ring'[l] = ring[l] \/ ring'[l] = WrVisible(ring[l]) \/ ring'[l] = RdVisible(ring[l])
  PROVE  Sees(l)
<1>1. ring[l] \in Ring
  BY DEF DataInv, DataType
<1>2. QED
  BY <1>1, VisibleFacts DEF Sees

\* Every step stores a frame, takes one, begins to, or is aside.
LEMMA StepKinds ==
  ASSUME DataInv, [Next]_vars
  PROVE  \/ Aside
         \/ \E l \in Lidars : StoragePointData(l)
         \/ WriteSlot \/ AdvanceIndex
         \/ PollInner \/ CopySlot \/ PopAndPublish
<1> USE DEF DataInv, DataType
<1>0. "pcd" \in Kinds /\ "imu" \in Kinds /\ "pcd" # "imu"
  BY DEF Kinds
<1>1. ASSUME NEW l \in Lidars,
             AddLidar(l) \/ ConfigureLidar(l) \/ \E o \in Options : Answer(l, o)
      PROVE  Aside
  <2>1. UNCHANGED <<ring, published, producer, poller, packet>>
    BY <1>1 DEF AddLidar, ConfigureLidar, Answer, SetSucceeded, SetTimedOut, SetFailed, vars
  <2>2. \/ Counts("info", MaxInfoChanges) \/ Counts("failure", MaxFailures) \/ count' = count
    BY <1>1 DEF AddLidar, ConfigureLidar, Answer, SetSucceeded, SetTimedOut, SetFailed, vars
  <2>3. count'["frame"] = count["frame"]
    BY <2>2, CountsType
  <2>4. QED
    BY <2>1, <2>3, SeesUnchanged DEF Aside
<1>2. ASSUME NEW l \in Lidars, StorageImuData(l) PROVE Aside
  <2>1. UNCHANGED <<ring, published, poller, packet>> /\ producer'["pcd"] = producer["pcd"]
    BY <1>0, <1>2 DEF StorageImuData
  <2>2. count'["frame"] = count["frame"]
    BY <1>2, CountsType DEF StorageImuData
  <2>3. QED
    BY <2>1, <2>2, SeesUnchanged DEF Aside
<1>3. ASSUME NEW l \in Lidars, StoreVisible(l) PROVE Aside
  <2>1. UNCHANGED <<published, producer, poller, packet, count>>
    BY <1>3 DEF StoreVisible
  <2>2. \A k \in Lidars : \/ ring'[k] = ring[k] \/ ring'[k] = WrVisible(ring[k])
                          \/ ring'[k] = RdVisible(ring[k])
    BY <1>3 DEF StoreVisible
  <2>3. QED
    BY <2>1, <2>2, SeesVisible DEF Aside
<1>4. ASSUME NEW k \in Kinds, CheckEmpty(k) \/ CheckSemaphore(k) \/ Signal(k) PROVE Aside
  <2>1. /\ UNCHANGED <<published, poller, packet, count>>
        /\ producer[k].pc \in {"empty", "check", "signal"}
    BY <1>4 DEF CheckEmpty, CheckSemaphore, Signal, At
  <2>2. \E pc \in {"idle", "check", "signal"} : producer' = Goto(producer, k, pc)
    BY <1>4 DEF CheckEmpty, CheckSemaphore, Signal
  <2>3. \/ k = "pcd" /\ producer'["pcd"].pc \in {"idle", "check", "signal"}
        \/ k = "imu" /\ producer'["pcd"] = producer["pcd"]
    BY <1>0, <2>2, GotoProducer DEF Kinds
  <2>4. \A l \in Lidars : ring'[l] = ring[l] \/ ring'[l] = WrVisible(ring[l])
    BY <1>4 DEF CheckEmpty, CheckSemaphore, Signal
  <2>5. QED
    BY <2>1, <2>3, <2>4, SeesVisible DEF Aside, Writing
<1>5. ASSUME NEW k \in Kinds, PollWait(k) \/ \E l \in Lidars : PollLidar(k, l) PROVE Aside
  <2>1. UNCHANGED <<published, producer, packet, count>>
    BY <1>5 DEF PollWait, PollLidar
  <2>2. \/ k = "pcd" /\ poller'["pcd"].pc \in {"scan", "outer"}
        \/ k = "imu" /\ poller'["pcd"] = poller["pcd"]
    BY <1>0, <1>5, RoundFacts DEF Kinds
  <2>3. \A l \in Lidars : ring'[l] = ring[l] \/ ring'[l] = RdVisible(ring[l])
    BY <1>5 DEF PollWait, PollLidar
  <2>4. QED
    BY <2>1, <2>2, <2>3, SeesVisible DEF Aside, Taking
<1>6. ASSUME NEW k \in Kinds, PollTop(k) \/ PollEnd(k) \/ PollFuture(k) PROVE Aside
  <2>1. UNCHANGED <<ring, published, producer, packet, count>>
    BY <1>6 DEF PollTop, PollEnd, PollFuture, PollerStep
  <2>2. \E pc \in {"top", "wait", "future", "done"} : poller' = Goto(poller, k, pc)
    BY <1>6 DEF PollTop, PollEnd, PollFuture, PollerStep
  <2>3. \/ k = "pcd" /\ poller'["pcd"].pc \in {"top", "wait", "future", "done"}
        \/ k = "imu" /\ poller'["pcd"] = poller["pcd"]
    BY <1>0, <2>2, GotoPoller DEF Kinds
  <2>4. QED
    BY <2>1, <2>3, SeesUnchanged DEF Aside, Taking
<1>7. CASE PollOuter
  <2>1. UNCHANGED <<ring, published, producer, packet, count>>
    BY <1>7 DEF PollOuter, PollerStep
  <2>2. \E pc \in {"scan", "inner"} : poller' = Goto(poller, "pcd", pc)
    BY <1>7 DEF PollOuter, PollerStep
  <2>3. poller'["pcd"].pc \in {"scan", "inner"}
    BY <1>0, <2>2, GotoPoller
  <2>4. QED
    BY <2>1, <2>3, SeesUnchanged DEF Aside, Taking
<1>8. CASE PollImu
  <2>1. UNCHANGED <<ring, published, producer, packet, count>>
    BY <1>8 DEF PollImu
  <2>2. poller' = poller \/ poller' = Goto(poller, "imu", "scan")
    BY <1>8 DEF PollImu
  <2>3. poller'["pcd"] = poller["pcd"]
    BY <1>0, <2>2, GotoPoller
  <2>4. QED
    BY <2>1, <2>3, SeesUnchanged DEF Aside
<1>9. CASE RequestExit \/ Destroy \/ UNCHANGED vars
  <2>1. UNCHANGED <<ring, published, producer, poller, packet, count>>
    BY <1>9 DEF RequestExit, Destroy, SetExitSignal, Join, DestroyStep, vars
  <2>2. QED
    BY <2>1, SeesUnchanged DEF Aside
<1>10. QED
  BY <1>0, <1>1, <1>2, <1>3, <1>4, <1>5, <1>6, <1>7, <1>8, <1>9
     DEF Next, Store, PollImuThread, PollPcdThread

\* The types of a buffer's indices.
LEMMA IndexTypes ==
  ASSUME DataInv, NEW l \in Lidars
  PROVE  /\ ring[l].rd \in Index /\ ring[l].wr \in Index
         /\ ring[l].rdSeen \in Index /\ ring[l].wrSeen \in Index
         /\ ring[l].slots \in [0..(QueueSize - 1) -> Nat]
BY DEF DataInv, DataType, Ring

\* What holds of the four indices of a buffer.
Ordered(r) ==
  /\ Used(r.wr, r.rd) <= Used(r.wr, r.rdSeen)
  /\ Used(r.wr, r.rdSeen) <= QueueSize
  /\ Used(r.wrSeen, r.rd) <= Used(r.wr, r.rd)

\* An index that becomes visible only makes room, or frames, visible.
LEMMA VisibleOrdered ==
  ASSUME NEW rd \in Index, NEW wr \in Index, NEW rs \in Index, NEW ws \in Index,
         Used(wr, rd) <= Used(wr, rs), Used(wr, rs) <= QueueSize,
         Used(ws, rd) <= Used(wr, rd), NEW rs2 \in {rs, rd}, NEW ws2 \in {ws, wr}
  PROVE  /\ Used(wr, rd) <= Used(wr, rs2) /\ Used(wr, rs2) <= QueueSize
         /\ Used(ws2, rd) <= Used(wr, rd)
         /\ Used(wr, rs) < QueueSize => Used(wr, rs2) < QueueSize
         /\ rd # ws => rd # ws2
<1>1. /\ Used(wr, rd) \in Nat /\ Used(wr, rs) \in Nat /\ Used(ws, rd) \in Nat
      /\ QueueSize \in Nat
      /\ Used(ws, rd) = 0 <=> ws = rd
      /\ Used(wr, rd) = 0 <=> wr = rd
  BY UsedValue, IndexArithmetic
<1>2. /\ Used(wr, rd) <= Used(wr, rs2) /\ Used(wr, rs2) <= QueueSize
      /\ Used(wr, rs) < QueueSize => Used(wr, rs2) < QueueSize
  BY <1>1
<1>3. Used(ws2, rd) <= Used(wr, rd)
  BY <1>1
<1>4. rd # ws => rd # ws2
  BY <1>1
<1>5. QED
  BY <1>2, <1>3, <1>4

\* A step that moves no index keeps the invariant, if a thread begins to write
\* only where it saw room and to take only where it saw a frame.
LEMMA SeesIndex ==
  ASSUME DataInv, IndexInv, \A l \in Lidars : Sees(l),
         \A l \in Lidars :
           /\ Writing' /\ l = producer'["pcd"].lidar =>
                Used(ring[l].wr, ring[l].rdSeen) < QueueSize
           /\ Taking' /\ l = poller'["pcd"].lidar => ring[l].rd # ring[l].wrSeen
  PROVE  IndexInv'
<1>1. ASSUME NEW l \in Lidars
      PROVE  /\ Ordered(ring'[l])
             /\ Used(ring[l].wr, ring[l].rdSeen) < QueueSize =>
                  Used(ring'[l].wr, ring'[l].rdSeen) < QueueSize
             /\ ring[l].rd # ring[l].wrSeen => ring'[l].rd # ring'[l].wrSeen
  <2> DEFINE rs2 == ring'[l].rdSeen
             ws2 == ring'[l].wrSeen
  <2>1. /\ ring'[l].rd = ring[l].rd /\ ring'[l].wr = ring[l].wr
        /\ rs2 \in {ring[l].rdSeen, ring[l].rd} /\ ws2 \in {ring[l].wrSeen, ring[l].wr}
    BY DEF Sees
  <2>2. /\ ring[l].rd \in Index /\ ring[l].wr \in Index
        /\ ring[l].rdSeen \in Index /\ ring[l].wrSeen \in Index
    BY IndexTypes
  <2>3. /\ Used(ring[l].wr, ring[l].rd) <= Used(ring[l].wr, ring[l].rdSeen)
        /\ Used(ring[l].wr, ring[l].rdSeen) <= QueueSize
        /\ Used(ring[l].wrSeen, ring[l].rd) <= Used(ring[l].wr, ring[l].rd)
    BY DEF IndexInv
  <2> HIDE DEF rs2, ws2
  <2>4. /\ Used(ring[l].wr, ring[l].rd) <= Used(ring[l].wr, rs2)
        /\ Used(ring[l].wr, rs2) <= QueueSize
        /\ Used(ws2, ring[l].rd) <= Used(ring[l].wr, ring[l].rd)
        /\ Used(ring[l].wr, ring[l].rdSeen) < QueueSize => Used(ring[l].wr, rs2) < QueueSize
        /\ ring[l].rd # ring[l].wrSeen => ring[l].rd # ws2
    BY <2>1, <2>2, <2>3, VisibleOrdered
  <2>5. QED
    BY <2>1, <2>4 DEF Ordered, rs2, ws2
<1>2. QED
  BY <1>1 DEF IndexInv, Ordered

\* Moving an index by one.
LEMMA AdvanceOrdered ==
  ASSUME NEW rd \in Index, NEW wr \in Index, NEW rs \in Index, NEW ws \in Index,
         Used(wr, rd) <= Used(wr, rs), Used(wr, rs) <= QueueSize,
         Used(ws, rd) <= Used(wr, rd)
  PROVE  /\ Used(wr, rs) < QueueSize =>
              /\ Used(Advanced(wr), rd) = Used(wr, rd) + 1
              /\ Used(Advanced(wr), rs) = Used(wr, rs) + 1
         /\ rd # ws =>
              /\ Used(wr, Advanced(rd)) = Used(wr, rd) - 1
              /\ Used(ws, Advanced(rd)) = Used(ws, rd) - 1
              /\ Used(wr, rd) > 0
<1>1. /\ Used(wr, rd) \in Nat /\ Used(wr, rs) \in Nat /\ Used(ws, rd) \in Nat
      /\ IndexRange \in Nat /\ QueueSize \in Nat \ {0} /\ IndexRange >= 2 * QueueSize
      /\ Used(ws, rd) = 0 <=> ws = rd
      /\ Used(wr, rd) = 0 <=> wr = rd
  BY UsedValue, IndexArithmetic
<1>2. ASSUME Used(wr, rs) < QueueSize
      PROVE  /\ Used(Advanced(wr), rd) = Used(wr, rd) + 1
             /\ Used(Advanced(wr), rs) = Used(wr, rs) + 1
  <2>1. Used(wr, rs) < IndexRange - 1 /\ Used(wr, rd) < IndexRange - 1
    BY <1>1, <1>2
  <2>2. QED
    BY <2>1, UsedAdvanced
<1>3. ASSUME rd # ws
      PROVE  /\ Used(wr, Advanced(rd)) = Used(wr, rd) - 1
             /\ Used(ws, Advanced(rd)) = Used(ws, rd) - 1
             /\ Used(wr, rd) > 0
  <2>1. Used(wr, rd) > 0 /\ wr # rd
    BY <1>1, <1>3
  <2>2. QED
    BY <1>3, <2>1, UsedAdvanced
<1>4. QED
  BY <1>2, <1>3

LEMMA IndexInit == Init => IndexInv
<1> SUFFICES ASSUME Init PROVE IndexInv
  OBVIOUS
<1>1. "pcd" \in Kinds /\ 0 \in Index /\ Used(0, 0) = 0 /\ 0 <= QueueSize
  BY IndexArithmetic DEF Index, Kinds
<1>2. ~Writing /\ ~Taking
  BY <1>1 DEF Init, Writing, Taking
<1>3. \A l \in Lidars : /\ ring[l].rd = 0 /\ ring[l].wr = 0
                        /\ ring[l].rdSeen = 0 /\ ring[l].wrSeen = 0
  BY DEF Init
<1>4. QED
  BY <1>1, <1>2, <1>3 DEF IndexInv

LEMMA IndexStep ==
  ASSUME DataInv, IndexInv, [Next]_vars
  PROVE  IndexInv'
<1>0. "pcd" \in Kinds /\ producer["pcd"] \in Producers /\ poller["pcd"] \in Pollers
      /\ producer \in [Kinds -> Producers] /\ poller \in [Kinds -> Pollers]
  BY DEF Kinds, DataInv, DataType
<1>1. CASE Aside
  BY <1>1, SeesIndex DEF Aside, IndexInv, Writing, Taking
<1>2. ASSUME NEW l \in Lidars, StoragePointData(l) PROVE IndexInv'
  <2>1. \A k \in Lidars : Sees(k)
    BY <1>2, SeesVisible DEF StoragePointData
  <2>2. /\ poller' = poller /\ ~Writing
        /\ Writing' => /\ producer'["pcd"].lidar = l
                       /\ ~QueueIsFull(ring[l].wr, ring[l].rdSeen)
    BY <1>0, <1>2 DEF StoragePointData, Writing, At
  <2>3. Used(ring[l].wr, ring[l].rdSeen) \in Int /\ QueueSize \in Int
    BY IndexTypes, IndexArithmetic DEF Index
  <2>4. Writing' => producer'["pcd"].lidar = l /\ Used(ring[l].wr, ring[l].rdSeen) < QueueSize
    BY <2>2, <2>3 DEF QueueIsFull
  <2>5. QED
    BY <2>1, <2>2, <2>4, SeesIndex DEF IndexInv, Taking
<1>3. CASE WriteSlot
  <2>1. \A k \in Lidars :
          /\ ring'[k].rd = ring[k].rd /\ ring'[k].wr = ring[k].wr
          /\ ring'[k].rdSeen = ring[k].rdSeen /\ ring'[k].wrSeen = ring[k].wrSeen
    BY <1>3, WriteSlotFacts
  <2>2. poller' = poller /\ producer["pcd"].pc = "write"
        /\ producer' = Goto(producer, "pcd", "advance")
    BY <1>3, WriteSlotFacts
  <2>3. producer'["pcd"].lidar = producer["pcd"].lidar
    BY <1>0, <2>2, GotoProducer
  <2>4. QED
    BY <2>1, <2>2, <2>3 DEF IndexInv, Writing, Taking
<1>4. CASE AdvanceIndex
  <2> DEFINE l == producer["pcd"].lidar
  <2>1. /\ l \in Lidars /\ producer["pcd"].pc = "advance" /\ poller' = poller
        /\ ring'[l].wr = Advanced(ring[l].wr)
        /\ \A k \in Lidars :
             /\ ring'[k].rd = ring[k].rd
             /\ ring'[k].rdSeen = ring[k].rdSeen /\ ring'[k].wrSeen = ring[k].wrSeen
             /\ k # l => ring'[k].wr = ring[k].wr
        /\ producer' = Goto(producer, "pcd", "empty")
    BY <1>4, AdvanceIndexFacts
  <2>2. ~Writing'
    BY <1>0, <2>1, GotoProducer DEF Writing
  <2>3. /\ Used(Advanced(ring[l].wr), ring[l].rd) = Used(ring[l].wr, ring[l].rd) + 1
        /\ Used(Advanced(ring[l].wr), ring[l].rdSeen) = Used(ring[l].wr, ring[l].rdSeen) + 1
        /\ Used(ring[l].wr, ring[l].rdSeen) < QueueSize
    BY <2>1, IndexTypes, AdvanceOrdered DEF IndexInv, Writing
  <2>4. /\ Used(ring[l].wr, ring[l].rd) \in Nat /\ Used(ring[l].wr, ring[l].rdSeen) \in Nat
        /\ Used(ring[l].wrSeen, ring[l].rd) \in Nat /\ QueueSize \in Nat
    <3>1. /\ ring[l].rd \in Index /\ ring[l].wr \in Index
          /\ ring[l].rdSeen \in Index /\ ring[l].wrSeen \in Index
      BY <2>1, IndexTypes
    <3>2. QED
      BY <3>1, UsedValue, QueueSizeType
  <2> HIDE DEF l
  <2>5. Ordered(ring'[l])
    BY <2>1, <2>3, <2>4 DEF Ordered, IndexInv
  <2>6. \A k \in Lidars : Ordered(ring'[k])
    BY <2>1, <2>5 DEF Ordered, IndexInv
  <2>7. QED
    BY <2>1, <2>2, <2>6 DEF IndexInv, Ordered, Taking
<1>5. CASE PollInner
  <2>1. /\ ring' = ring /\ producer' = producer
        /\ \/ poller' = Goto(poller, "pcd", "outer")
           \/ poller' = Goto(poller, "pcd", "copy") /\ ~EmptyForPoller(poller["pcd"].lidar)
    BY <1>5 DEF PollInner, PollerStep
  <2>2. poller'["pcd"].lidar = poller["pcd"].lidar
    BY <1>0, <2>1, GotoPoller
  <2>3. Taking' => ~EmptyForPoller(poller["pcd"].lidar)
    BY <1>0, <2>1, GotoPoller DEF Taking
  <2>4. QED
    BY <2>1, <2>2, <2>3, SeesUnchanged, SeesIndex DEF IndexInv, EmptyForPoller, Writing
<1>6. CASE CopySlot
  <2>1. /\ ring' = ring /\ producer' = producer /\ poller["pcd"].pc = "copy"
        /\ poller' = Goto(poller, "pcd", "pop")
    BY <1>6 DEF CopySlot, At
  <2>2. poller'["pcd"].lidar = poller["pcd"].lidar
    BY <1>0, <2>1, GotoPoller
  <2>3. QED
    BY <2>1, <2>2, SeesUnchanged, SeesIndex DEF IndexInv, Writing, Taking
<1>7. CASE PopAndPublish
  <2> DEFINE l == poller["pcd"].lidar
  <2>1. /\ l \in Lidars /\ poller["pcd"].pc = "pop" /\ producer' = producer
        /\ ring'[l].rd = Advanced(ring[l].rd)
        /\ \A k \in Lidars :
             /\ ring'[k].wr = ring[k].wr
             /\ ring'[k].rdSeen = ring[k].rdSeen /\ ring'[k].wrSeen = ring[k].wrSeen
             /\ k # l => ring'[k].rd = ring[k].rd
        /\ poller' = Goto(poller, "pcd", "inner")
    BY <1>7, PopFacts
  <2>2. ~Taking'
    BY <1>0, <2>1, GotoPoller DEF Taking
  <2>3. /\ Used(ring[l].wr, Advanced(ring[l].rd)) = Used(ring[l].wr, ring[l].rd) - 1
        /\ Used(ring[l].wrSeen, Advanced(ring[l].rd)) = Used(ring[l].wrSeen, ring[l].rd) - 1
    BY <2>1, IndexTypes, AdvanceOrdered DEF IndexInv, Taking
  <2>4. /\ Used(ring[l].wr, ring[l].rd) \in Nat /\ Used(ring[l].wr, ring[l].rdSeen) \in Nat
        /\ Used(ring[l].wrSeen, ring[l].rd) \in Nat /\ QueueSize \in Nat
    <3>1. /\ ring[l].rd \in Index /\ ring[l].wr \in Index
          /\ ring[l].rdSeen \in Index /\ ring[l].wrSeen \in Index
      BY <2>1, IndexTypes
    <3>2. QED
      BY <3>1, UsedValue, QueueSizeType
  <2> HIDE DEF l
  <2>5. Ordered(ring'[l])
    BY <2>1, <2>3, <2>4 DEF Ordered, IndexInv
  <2>6. \A k \in Lidars : Ordered(ring'[k])
    BY <2>1, <2>5 DEF Ordered, IndexInv
  <2>7. QED
    BY <2>1, <2>2, <2>6 DEF IndexInv, Ordered, Writing
<1>8. QED
  BY <1>1, <1>2, <1>3, <1>4, <1>5, <1>6, <1>7, StepKinds

-----------------------------------------------------------------------------
(* The slots between the two indices. *)

\* The slot behind the last frame is the one wr_idx points at, and no slot of a
\* frame is that slot while there is room.
LEMMA SlotBehind ==
  ASSUME NEW rd \in Index, NEW wr \in Index
  PROVE  /\ Slot(rd + Used(wr, rd)) = Slot(wr)
         /\ \A i \in 0..(Used(wr, rd) - 1) :
              Used(wr, rd) < QueueSize => Slot(rd + i) # Slot(wr)
<1>1. /\ wr \in Int /\ rd \in Int /\ Used(wr, rd) \in Nat /\ IndexRange \in Nat
      /\ QueueSize \in Nat
      /\ Used(wr, rd) = IF wr >= rd THEN wr - rd ELSE wr - rd + IndexRange
  BY UsedValue, IndexArithmetic
<1>2. rd + Used(wr, rd) = wr \/ rd + Used(wr, rd) = wr + IndexRange
  BY <1>1
<1>3. Slot(rd + Used(wr, rd)) = Slot(wr)
  BY <1>1, <1>2, SlotWraps
<1>4. ASSUME NEW i \in 0..(Used(wr, rd) - 1), Used(wr, rd) < QueueSize
      PROVE  Slot(rd + i) # Slot(wr)
  <2> DEFINE a == rd + i
             b == rd + Used(wr, rd)
  <2>1. a \in Int /\ b \in Int /\ a < b /\ b - a < QueueSize
    BY <1>1, <1>4
  <2> HIDE DEF a, b
  <2>2. Slot(a) # Slot(b)
    BY <2>1, SlotsDiffer
  <2>3. QED
    BY <1>3, <2>2 DEF a, b
<1>5. QED
  BY <1>3, <1>4

\* While one thread writes a slot and the other copies one, there is a frame
\* and there is room, so the slots differ.
LEMMA IndicesKeepApart ==
  ASSUME DataInv, IndexInv
  PROVE  NoTornRead
<1> SUFFICES ASSUME producer["pcd"].pc = "write", poller["pcd"].pc = "copy",
                    producer["pcd"].lidar = poller["pcd"].lidar
             PROVE  Slot(ring[producer["pcd"].lidar].wr) # Slot(ring[poller["pcd"].lidar].rd)
  BY DEF NoTornRead
<1> DEFINE l == producer["pcd"].lidar
           rd == ring[l].rd
           wr == ring[l].wr
<1>1. l \in Lidars
  BY DEF DataInv, DataType, Kinds, Producers
<1>2. rd \in Index /\ wr \in Index /\ ring[l].rdSeen \in Index /\ ring[l].wrSeen \in Index
  BY <1>1, IndexTypes
<1>3. /\ Used(wr, rd) <= Used(wr, ring[l].rdSeen)
      /\ Used(wr, ring[l].rdSeen) < QueueSize
      /\ Used(ring[l].wrSeen, rd) <= Used(wr, rd)
      /\ rd # ring[l].wrSeen
  BY <1>1 DEF IndexInv, Writing, Taking
<1>4. /\ Used(wr, rd) \in Nat /\ Used(wr, ring[l].rdSeen) \in Nat
      /\ Used(ring[l].wrSeen, rd) \in Nat /\ Used(ring[l].wrSeen, rd) # 0
      /\ QueueSize \in Nat /\ rd \in Int
  BY <1>2, <1>3, UsedValue, QueueSizeType
<1>5. 0 \in 0..(Used(wr, rd) - 1) /\ Used(wr, rd) < QueueSize /\ rd + 0 = rd
  BY <1>3, <1>4
<1> HIDE DEF l, rd, wr
<1>6. Slot(rd + 0) # Slot(wr)
  BY <1>2, <1>5, SlotBehind
<1>7. QED
  BY <1>5, <1>6 DEF l, rd, wr

\* The slot a frame is copied from is never being written: QueueIsFull and
\* QueueIsEmpty keep the two threads apart, although the indices they compare
\* are not atomic and are seen late.
THEOREM ReadsAreWhole == Spec => []NoTornRead
<1>1. Init => DataInv /\ IndexInv
  BY DataInit, IndexInit
<1>2. DataInv /\ IndexInv /\ [Next]_vars => (DataInv /\ IndexInv)'
  BY DataStep, IndexStep
<1>3. DataInv /\ IndexInv => NoTornRead
  BY IndicesKeepApart
<1>4. QED
  BY <1>1, <1>2, <1>3, PTL DEF Spec

-----------------------------------------------------------------------------
(* The ring buffer implements FrameFifo. *)

\* The frames in a buffer; Contents(l) is Frames(ring[l]).
Frames(r) == [i \in 1..Used(r.wr, r.rd) |-> r.slots[Slot(r.rd + i - 1)]]

LEMMA FramesType ==
  ASSUME NEW r \in Ring
  PROVE  /\ r.rd \in Index /\ r.wr \in Index /\ Used(r.wr, r.rd) \in Nat
         /\ r.slots \in [0..(QueueSize - 1) -> Nat]
         /\ Frames(r) \in Seq(Nat) /\ Len(Frames(r)) = Used(r.wr, r.rd)
         /\ \A i \in 1..Used(r.wr, r.rd) :
              /\ Frames(r)[i] = r.slots[Slot(r.rd + i - 1)]
              /\ Frames(r)[i] \in Nat
<1> DEFINE n == Used(r.wr, r.rd)
<1>1. r.rd \in Index /\ r.wr \in Index /\ r.slots \in [0..(QueueSize - 1) -> Nat]
  BY DEF Ring
<1>2. n \in Nat /\ r.rd \in Int
  BY <1>1, UsedValue
<1>3. ASSUME NEW i \in 1..n PROVE r.slots[Slot(r.rd + i - 1)] \in Nat
  <2>1. r.rd + i - 1 \in Int
    BY <1>2, <1>3
  <2>2. Slot(r.rd + i - 1) \in 0..(QueueSize - 1)
    BY <2>1, SlotWraps
  <2>3. QED
    BY <1>1, <2>2
<1>4. Frames(r) = [i \in 1..n |-> r.slots[Slot(r.rd + i - 1)]]
  BY DEF Frames
<1> HIDE DEF n
<1>5. Frames(r) \in [1..n -> Nat]
  BY <1>3, <1>4
<1>6. Frames(r) \in Seq(Nat) /\ Len(Frames(r)) = n
  BY <1>2, <1>5
<1>7. \A i \in 1..n : Frames(r)[i] = r.slots[Slot(r.rd + i - 1)]
  BY <1>4
<1>8. QED
  BY <1>1, <1>2, <1>3, <1>6, <1>7 DEF n

\* Writing the slot behind the last frame changes no frame (QueuePushAny, first
\* part).
LEMMA FramesWritten ==
  ASSUME NEW r \in Ring, NEW q \in Ring, NEW f \in Nat,
         q.rd = r.rd, q.wr = r.wr, Used(r.wr, r.rd) < QueueSize,
         q.slots = [r.slots EXCEPT ![Slot(r.wr)] = f]
  PROVE  Frames(q) = Frames(r)
<1>1. /\ r.rd \in Index /\ r.wr \in Index /\ Used(r.wr, r.rd) \in Nat
      /\ r.slots \in [0..(QueueSize - 1) -> Nat] /\ r.rd \in Int
  BY FramesType DEF Index
<1>2. ASSUME NEW i \in 1..Used(r.wr, r.rd)
      PROVE  q.slots[Slot(r.rd + i - 1)] = r.slots[Slot(r.rd + i - 1)]
  <2> DEFINE j == i - 1
  <2>1. j \in 0..(Used(r.wr, r.rd) - 1) /\ r.rd + j = r.rd + i - 1 /\ r.rd + j \in Int
    BY <1>1, <1>2
  <2> HIDE DEF j
  <2>2. Slot(r.rd + j) # Slot(r.wr)
    BY <1>1, <2>1, SlotBehind
  <2>3. Slot(r.rd + j) \in 0..(QueueSize - 1)
    BY <2>1, SlotWraps
  <2>4. QED
    BY <1>1, <2>1, <2>2, <2>3
<1>3. QED
  BY <1>2 DEF Frames

\* Advancing wr_idx appends the frame written there (QueuePushAny, second part).
LEMMA FramesPut ==
  ASSUME NEW r \in Ring, NEW q \in Ring,
         q.slots = r.slots, q.rd = r.rd, q.wr = Advanced(r.wr),
         Used(q.wr, r.rd) = Used(r.wr, r.rd) + 1
  PROVE  Frames(q) = Append(Frames(r), r.slots[Slot(r.wr)])
<1> DEFINE n == Used(r.wr, r.rd)
           f == r.slots[Slot(r.wr)]
           s == Append(Frames(r), f)
<1>1. /\ r.rd \in Index /\ r.wr \in Index /\ n \in Nat /\ r.rd \in Int /\ r.wr \in Int
      /\ Frames(r) \in Seq(Nat) /\ Len(Frames(r)) = n
      /\ \A i \in 1..n : Frames(r)[i] = r.slots[Slot(r.rd + i - 1)]
  BY FramesType DEF Index
<1>2. /\ Frames(q) \in Seq(Nat) /\ Len(Frames(q)) = n + 1
      /\ \A i \in 1..(n + 1) : Frames(q)[i] = r.slots[Slot(r.rd + i - 1)]
  BY FramesType
<1>3. f \in Nat
  <2>1. Slot(r.wr) \in 0..(QueueSize - 1)
    BY <1>1, SlotWraps
  <2>2. QED
    BY <2>1, FramesType
<1>4. f = r.slots[Slot(r.rd + n)]
  BY <1>1, SlotBehind
<1> HIDE DEF n, f
<1>5. /\ s \in Seq(Nat) /\ Len(s) = n + 1 /\ s[n + 1] = f
      /\ \A i \in 1..n : s[i] = Frames(r)[i]
  BY <1>1, <1>3, AppendProperties
<1> HIDE DEF s
<1>6. ASSUME NEW i \in 1..(n + 1) PROVE Frames(q)[i] = s[i]
  <2>1. CASE i = n + 1
    <3>1. r.rd + i - 1 = r.rd + n
      BY <1>1, <2>1
    <3>2. QED
      BY <1>2, <1>4, <1>5, <2>1, <3>1
  <2>2. CASE i # n + 1
    <3>1. i \in 1..n
      BY <1>1, <2>2
    <3>2. QED
      BY <1>1, <1>2, <1>5, <3>1
  <2>3. QED
    BY <2>1, <2>2
<1>7. Frames(q) = s
  BY <1>2, <1>5, <1>6, SeqEqual
<1>8. QED
  BY <1>7 DEF s, f

\* Advancing rd_idx removes the oldest frame (QueuePopUpdate).
LEMMA FramesGot ==
  ASSUME NEW r \in Ring, NEW q \in Ring,
         q.slots = r.slots, q.wr = r.wr, q.rd = Advanced(r.rd),
         Used(r.wr, r.rd) > 0, Used(r.wr, q.rd) = Used(r.wr, r.rd) - 1
  PROVE  /\ Frames(r) # <<>>
         /\ Head(Frames(r)) = r.slots[Slot(r.rd)]
         /\ Frames(q) = Tail(Frames(r))
<1> DEFINE n == Used(r.wr, r.rd)
           s == Frames(r)
           t == Tail(Frames(r))
<1>1. /\ r.rd \in Index /\ n \in Nat /\ r.rd \in Int /\ q.rd \in Int /\ n > 0
      /\ s \in Seq(Nat) /\ Len(s) = n
      /\ \A i \in 1..n : s[i] = r.slots[Slot(r.rd + i - 1)]
  BY FramesType DEF Index
<1>2. /\ Frames(q) \in Seq(Nat) /\ Len(Frames(q)) = n - 1
      /\ \A i \in 1..(n - 1) : Frames(q)[i] = r.slots[Slot(q.rd + i - 1)]
  BY FramesType
<1>3. /\ IndexRange \in Nat
      /\ q.rd = IF r.rd = IndexRange - 1 THEN 0 ELSE r.rd + 1
  BY <1>1, IndexArithmetic
<1> HIDE DEF n, s, t
<1>4. s # <<>>
  BY <1>1
<1>5. t \in Seq(Nat) /\ Len(t) = n - 1 /\ \A i \in 1..(n - 1) : t[i] = s[i + 1]
  BY <1>1, <1>4, HeadTailProperties DEF s, t
<1>6. Head(s) = s[1] /\ s[1] = r.slots[Slot(r.rd)]
  <2>1. 1 \in 1..n /\ r.rd + 1 - 1 = r.rd
    BY <1>1
  <2>2. s[1] = r.slots[Slot(r.rd)]
    BY <1>1, <2>1
  <2>3. QED
    BY <1>1, <1>4, <2>2
<1>7. ASSUME NEW i \in 1..(n - 1) PROVE Frames(q)[i] = t[i]
  <2> DEFINE a == q.rd + i - 1
             b == r.rd + (i + 1) - 1
  <2>0. q.rd = r.rd + 1 \/ q.rd + IndexRange = r.rd + 1
    BY <1>1, <1>3
  <2>1. a \in Int /\ (b = a \/ b = a + IndexRange) /\ i + 1 \in 1..n
    <3>1. a \in Int /\ i \in Int /\ i + 1 \in 1..n
      BY <1>1
    <3>2. b = a \/ b = a + IndexRange
      <4> DEFINE x == q.rd
                 y == r.rd
      <4>1. x \in Int /\ y \in Int /\ IndexRange \in Int /\ (x = y + 1 \/ x + IndexRange = y + 1)
            /\ a = x + i - 1 /\ b = y + (i + 1) - 1
        BY <1>1, <1>3, <2>0
      <4> HIDE DEF x, y, a, b
      <4>2. QED
        BY <3>1, <4>1
    <3>3. QED
      BY <3>1, <3>2
  <2> HIDE DEF a, b
  <2>2. Slot(a) = Slot(b)
    BY <2>1, SlotWraps
  <2>3. s[i + 1] = r.slots[Slot(b)]
    BY <1>1, <2>1 DEF b
  <2>4. Frames(q)[i] = r.slots[Slot(a)]
    BY <1>2 DEF a
  <2>5. QED
    BY <1>5, <2>2, <2>3, <2>4
<1>8. Frames(q) = t
  BY <1>2, <1>5, <1>7, SeqEqual
<1>9. QED
  BY <1>4, <1>6, <1>8 DEF s, t

\* The newest frame that may have been stored: the one the storing thread is
\* about to store is not, yet.
Newest == IF Writing THEN count["frame"] - 1 ELSE count["frame"]

\* What the refinement needs beyond the indices: the frames stored and published
\* are no newer than that; behind the last one is the frame to be appended; and
\* the packet to be published is the oldest one.
FrameInv ==
  /\ \A l \in Lidars :
       /\ published[l] <= Newest
       /\ \A i \in 1..Used(ring[l].wr, ring[l].rd) : Frames(ring[l])[i] <= Newest
  /\ \A l \in Lidars : producer["pcd"].pc = "advance" /\ l = producer["pcd"].lidar =>
       ring[l].slots[Slot(ring[l].wr)] = count["frame"]
  /\ \A l \in Lidars : poller["pcd"].pc = "pop" /\ l = poller["pcd"].lidar =>
       ring[l].slots[Slot(ring[l].rd)] = packet

\* A frame is put into the queue, taken from it, or nothing happens to it.
FifoStep == FrameInv' /\ \A l \in Lidars : Fifo(l)!Step

\* The frames depend on the slots and the two indices only.
LEMMA FramesSame ==
  ASSUME NEW r, NEW q, q.slots = r.slots, q.rd = r.rd, q.wr = r.wr
  PROVE  Frames(q) = Frames(r)
BY DEF Frames

\* The first part of the invariant, and the refinement, for a step that leaves
\* the frames alone.
LEMMA FramesKept ==
  ASSUME DataInv, FrameInv, published' = published, Newest \in Int, Newest' \in Int,
         Newest <= Newest',
         \A l \in Lidars :
           /\ Frames(ring'[l]) = Frames(ring[l])
           /\ ring'[l].rd = ring[l].rd /\ ring'[l].wr = ring[l].wr
  PROVE  /\ \A l \in Lidars :
              /\ published'[l] <= Newest'
              /\ \A i \in 1..Used(ring'[l].wr, ring'[l].rd) : Frames(ring'[l])[i] <= Newest'
         /\ \A l \in Lidars : Fifo(l)!Step
<1>1. ASSUME NEW l \in Lidars
      PROVE  /\ published'[l] <= Newest'
             /\ \A i \in 1..Used(ring'[l].wr, ring'[l].rd) : Frames(ring'[l])[i] <= Newest'
  <2>1. /\ published[l] \in Nat /\ ring[l] \in Ring
        /\ published[l] <= Newest
        /\ \A i \in 1..Used(ring[l].wr, ring[l].rd) : Frames(ring[l])[i] <= Newest
    BY DEF DataInv, DataType, FrameInv
  <2>2. \A i \in 1..Used(ring[l].wr, ring[l].rd) : Frames(ring[l])[i] \in Nat
    BY <2>1, FramesType
  <2>3. published'[l] <= Newest'
    BY <2>1
  <2>4. ASSUME NEW i \in 1..Used(ring'[l].wr, ring'[l].rd)
        PROVE  Frames(ring'[l])[i] <= Newest'
    <3> DEFINE f == Frames(ring[l])[i]
    <3>1. f \in Nat /\ f <= Newest /\ Frames(ring'[l])[i] = f
      BY <2>1, <2>2
    <3> HIDE DEF f
    <3>2. QED
      BY <3>1
  <2>5. QED
    BY <2>3, <2>4
<1>2. ASSUME NEW l \in Lidars PROVE Fifo(l)!Step
  <2>1. Contents(l)' = Contents(l)
    BY DEF Contents, Frames
  <2>2. QED
    BY <2>1 DEF Fifo!Step
<1>3. QED
  BY <1>1, <1>2

\* Types of the parts of the state that the steps below are about.
LEMMA FrameTypes ==
  ASSUME DataInv
  PROVE  /\ "pcd" \in Kinds /\ producer \in [Kinds -> Producers] /\ poller \in [Kinds -> Pollers]
         /\ producer["pcd"] \in Producers /\ poller["pcd"] \in Pollers
         /\ producer["pcd"].lidar \in Lidars /\ poller["pcd"].lidar \in Lidars
         /\ count["frame"] \in Nat /\ Newest \in Int
         /\ packet \in Nat /\ published \in [Lidars -> Nat]
         /\ \A l \in Lidars : ring[l] \in Ring
<1>1. /\ "pcd" \in Kinds /\ producer \in [Kinds -> Producers] /\ poller \in [Kinds -> Pollers]
      /\ count["frame"] \in Nat
      /\ packet \in Nat /\ published \in [Lidars -> Nat]
      /\ \A l \in Lidars : ring[l] \in Ring
  BY DEF Kinds, DataInv, DataType
<1>2. producer["pcd"] \in Producers /\ poller["pcd"] \in Pollers
  BY <1>1
<1>3. producer["pcd"].lidar \in Lidars /\ poller["pcd"].lidar \in Lidars
  BY <1>2 DEF Producers, Pollers
<1>4. Newest \in Int
  BY <1>1 DEF Newest
<1>5. QED
  BY <1>1, <1>2, <1>3, <1>4

LEMMA AsideFifo ==
  ASSUME DataInv, FrameInv, Aside
  PROVE  FifoStep
<1>1. /\ published' = published /\ packet' = packet /\ count'["frame"] = count["frame"]
      /\ producer'["pcd"] = producer["pcd"] \/ (~Writing /\ ~Writing')
      /\ poller'["pcd"] = poller["pcd"] \/ ~Taking'
      /\ \A l \in Lidars : /\ ring'[l].slots = ring[l].slots
                           /\ ring'[l].rd = ring[l].rd /\ ring'[l].wr = ring[l].wr
  BY DEF Aside, Sees
<1>2. \A l \in Lidars : Frames(ring'[l]) = Frames(ring[l])
  BY <1>1, FramesSame
<1>3. Newest' = Newest /\ Newest \in Int
  BY <1>1, FrameTypes DEF Newest, Writing
<1>4. Newest <= Newest' /\ Newest' \in Int
  BY <1>3
<1>5. /\ \A l \in Lidars :
           /\ published'[l] <= Newest'
           /\ \A i \in 1..Used(ring'[l].wr, ring'[l].rd) : Frames(ring'[l])[i] <= Newest'
      /\ \A l \in Lidars : Fifo(l)!Step
  BY <1>1, <1>2, <1>3, <1>4, FramesKept
<1>6. producer'["pcd"].pc = "advance" => producer'["pcd"] = producer["pcd"]
  BY <1>1 DEF Writing
<1>7. poller'["pcd"].pc = "pop" => poller'["pcd"] = poller["pcd"]
  BY <1>1 DEF Taking
<1>8. FrameInv'
  BY <1>1, <1>5, <1>6, <1>7 DEF FrameInv
<1>9. QED
  BY <1>5, <1>8 DEF FifoStep

LEMMA StorageFifo ==
  ASSUME DataInv, FrameInv, NEW l \in Lidars, StoragePointData(l)
  PROVE  FifoStep
<1>1. /\ published' = published /\ packet' = packet /\ poller' = poller
      /\ producer["pcd"].pc = "idle"
      /\ Counts("frame", MaxFrames)
      /\ \A k \in Lidars : ring'[k] = WrVisible(ring[k])
  BY DEF StoragePointData, At
<1>2. count'["frame"] = count["frame"] + 1
  BY <1>1 DEF Counts, DataInv, DataType
<1>3. producer'["pcd"].pc # "advance"
  BY <1>1, FrameTypes DEF StoragePointData
<1>4. \A k \in Lidars : /\ ring'[k].slots = ring[k].slots
                        /\ ring'[k].rd = ring[k].rd /\ ring'[k].wr = ring[k].wr
  BY <1>1, FrameTypes, VisibleFacts
<1>5. \A k \in Lidars : Frames(ring'[k]) = Frames(ring[k])
  BY <1>4, FramesSame
<1>6. Newest \in Int /\ Newest' \in Int /\ Newest <= Newest'
  <2>1. Newest = count["frame"] /\ count["frame"] \in Nat
    BY <1>1, FrameTypes DEF Newest, Writing
  <2>2. Newest' = count["frame"] \/ Newest' = count["frame"] + 1
    BY <1>2, <2>1 DEF Newest
  <2>3. QED
    BY <2>1, <2>2
<1>7. /\ \A k \in Lidars :
           /\ published'[k] <= Newest'
           /\ \A i \in 1..Used(ring'[k].wr, ring'[k].rd) : Frames(ring'[k])[i] <= Newest'
      /\ \A k \in Lidars : Fifo(k)!Step
  BY <1>1, <1>4, <1>5, <1>6, FramesKept
<1>8. FrameInv'
  BY <1>1, <1>3, <1>4, <1>7 DEF FrameInv
<1>9. QED
  BY <1>7, <1>8 DEF FifoStep

\* The slot written is neither one of a frame in the queue nor the one being
\* taken.
LEMMA WriteSlotFifo ==
  ASSUME DataInv, IndexInv, FrameInv, WriteSlot
  PROVE  FifoStep
<1> DEFINE l == producer["pcd"].lidar
<1>1. /\ l \in Lidars /\ producer["pcd"].pc = "write"
      /\ ring' \in [Lidars -> Ring]
      /\ \A k \in Lidars :
           /\ ring'[k].rd = ring[k].rd /\ ring'[k].wr = ring[k].wr
           /\ k # l => ring'[k].slots = ring[k].slots
      /\ Slot(ring[l].wr) \in 0..(QueueSize - 1)
      /\ ring'[l].slots = [ring[l].slots EXCEPT ![Slot(ring[l].wr)] = count["frame"]]
      /\ UNCHANGED <<poller, packet, published, count>>
      /\ producer' = Goto(producer, "pcd", "advance")
  BY WriteSlotFacts
<1>2. producer'["pcd"].pc = "advance" /\ producer'["pcd"].lidar = l
  BY <1>1, FrameTypes, GotoProducer
<1>3. /\ ring[l].rd \in Index /\ ring[l].wr \in Index /\ ring[l].rdSeen \in Index
      /\ ring[l].wrSeen \in Index /\ ring[l].slots \in [0..(QueueSize - 1) -> Nat]
      /\ ring[l] \in Ring /\ ring'[l] \in Ring /\ count["frame"] \in Nat
  BY <1>1, IndexTypes, FrameTypes
<1>4. /\ Used(ring[l].wr, ring[l].rd) <= Used(ring[l].wr, ring[l].rdSeen)
      /\ Used(ring[l].wr, ring[l].rdSeen) < QueueSize
      /\ Used(ring[l].wrSeen, ring[l].rd) <= Used(ring[l].wr, ring[l].rd)
  BY <1>1 DEF IndexInv, Writing
<1>5. /\ Used(ring[l].wr, ring[l].rd) \in Nat /\ Used(ring[l].wr, ring[l].rdSeen) \in Nat
      /\ Used(ring[l].wrSeen, ring[l].rd) \in Nat
      /\ Used(ring[l].wrSeen, ring[l].rd) = 0 <=> ring[l].wrSeen = ring[l].rd
      /\ QueueSize \in Nat /\ ring[l].rd \in Int
  BY <1>3, UsedValue, QueueSizeType
<1>6. Used(ring[l].wr, ring[l].rd) < QueueSize
  BY <1>4, <1>5
<1>7. \A k \in Lidars : Frames(ring'[k]) = Frames(ring[k])
  <2>1. Frames(ring'[l]) = Frames(ring[l])
    BY <1>1, <1>3, <1>6, FramesWritten
  <2>2. \A k \in Lidars : k # l => Frames(ring'[k]) = Frames(ring[k])
    BY <1>1, FramesSame
  <2>3. QED
    BY <2>1, <2>2
<1>8. Newest' = Newest /\ Newest \in Int
  BY <1>1, <1>2, FrameTypes DEF Newest, Writing
<1>9. Newest <= Newest' /\ Newest' \in Int
  BY <1>8
<1>10. /\ \A k \in Lidars :
            /\ published'[k] <= Newest'
            /\ \A i \in 1..Used(ring'[k].wr, ring'[k].rd) : Frames(ring'[k])[i] <= Newest'
       /\ \A k \in Lidars : Fifo(k)!Step
  BY <1>1, <1>7, <1>8, <1>9, FramesKept
<1>11. ring'[l].slots[Slot(ring'[l].wr)] = count'["frame"]
  BY <1>1, <1>3
<1>12. ASSUME NEW k \in Lidars, poller["pcd"].pc = "pop", k = poller["pcd"].lidar
       PROVE  ring'[k].slots[Slot(ring'[k].rd)] = packet
  <2>1. ring[k].slots[Slot(ring[k].rd)] = packet
    BY <1>12 DEF FrameInv
  <2>2. CASE k # l
    BY <1>1, <2>1, <2>2
  <2>3. CASE k = l
    <3>1. ring[l].rd # ring[l].wrSeen
      BY <1>12, <2>3 DEF IndexInv, Taking
    <3>2. 0 \in 0..(Used(ring[l].wr, ring[l].rd) - 1) /\ ring[l].rd + 0 = ring[l].rd
      BY <1>4, <1>5, <3>1
    <3>3. Slot(ring[l].rd + 0) # Slot(ring[l].wr)
      BY <1>3, <1>6, <3>2, SlotBehind
    <3>4. Slot(ring[l].rd) # Slot(ring[l].wr)
      BY <3>2, <3>3
    <3>5. Slot(ring[l].rd) \in 0..(QueueSize - 1)
      BY <1>5, SlotWraps
    <3>6. QED
      BY <1>1, <1>3, <2>1, <2>3, <3>4, <3>5
  <2>4. QED
    BY <2>2, <2>3
<1> HIDE DEF l
<1>13. FrameInv'
  BY <1>1, <1>2, <1>10, <1>11, <1>12 DEF FrameInv
<1>14. QED
  BY <1>10, <1>13 DEF FifoStep

\* The frame written last enters the queue.
LEMMA AdvanceIndexFifo ==
  ASSUME DataInv, IndexInv, FrameInv, AdvanceIndex
  PROVE  FifoStep
<1>a. PICK l \in Lidars : l = producer["pcd"].lidar
  BY FrameTypes
<1>b. PICK f \in Nat : f = count["frame"]
  BY FrameTypes
<1> DEFINE n == Used(ring[l].wr, ring[l].rd)
<1>1. /\ l = producer["pcd"].lidar /\ producer["pcd"].pc = "advance"
      /\ ring' \in [Lidars -> Ring]
      /\ \A k \in Lidars :
           /\ ring'[k].rd = ring[k].rd /\ ring'[k].slots = ring[k].slots
           /\ k # l => ring'[k].wr = ring[k].wr
      /\ ring'[l].wr = Advanced(ring[l].wr)
      /\ UNCHANGED <<poller, packet, published, count>>
      /\ producer' = Goto(producer, "pcd", "empty")
  BY <1>a, AdvanceIndexFacts
<1>2. producer'["pcd"].pc = "empty"
  BY <1>1, FrameTypes, GotoProducer
<1>3. /\ ring[l].rd \in Index /\ ring[l].wr \in Index /\ ring[l].rdSeen \in Index
      /\ ring[l].wrSeen \in Index
      /\ ring[l] \in Ring /\ ring'[l] \in Ring
  BY <1>1, IndexTypes, FrameTypes
<1>4. /\ n <= Used(ring[l].wr, ring[l].rdSeen)
      /\ Used(ring[l].wr, ring[l].rdSeen) < QueueSize
      /\ Used(ring[l].wrSeen, ring[l].rd) <= n
  BY <1>1 DEF IndexInv, Writing
<1>5. n \in Nat /\ Used(ring[l].wr, ring[l].rdSeen) \in Nat /\ QueueSize \in Nat
  BY <1>3, UsedValue, QueueSizeType
<1>6. n < QueueSize
  BY <1>4, <1>5
<1>7. Used(ring'[l].wr, ring[l].rd) = n + 1
  <2>1. Used(Advanced(ring[l].wr), ring[l].rd) = n + 1
    BY <1>3, <1>4, <1>5, AdvanceOrdered
  <2>2. QED
    BY <1>1, <2>1
<1>8. ring[l].slots[Slot(ring[l].wr)] = f
  BY <1>1, <1>b DEF FrameInv
<1>9. Frames(ring'[l]) = Append(Frames(ring[l]), f)
  BY <1>1, <1>3, <1>7, <1>8, FramesPut
<1>10. Newest = f - 1 /\ Newest' = f
  BY <1>1, <1>2, <1>b DEF Newest, Writing
<1>11. \A k \in Lidars :
         /\ published[k] \in Nat /\ published[k] <= f - 1 /\ ring[k] \in Ring
         /\ \A i \in 1..Used(ring[k].wr, ring[k].rd) : Frames(ring[k])[i] <= f - 1
  BY <1>10, FrameTypes DEF FrameInv
<1>12. \A k \in Lidars : \A i \in 1..Used(ring[k].wr, ring[k].rd) : Frames(ring[k])[i] \in Nat
  BY <1>11, FramesType
<1>13. Frames(ring[l]) \in Seq(Nat) /\ Len(Frames(ring[l])) = n
  BY <1>3, FramesType
<1> HIDE DEF n
<1>14. Fifo(l)!Step
  <2>1. Contents(l) = Frames(ring[l]) /\ Contents(l)' = Append(Frames(ring[l]), f)
    BY <1>9 DEF Contents, Frames
  <2> DEFINE s == Frames(ring[l])
             p == published[l]
  <2>2. s \in Seq(Nat) /\ Len(s) < QueueSize /\ p \in Nat /\ f > p /\ published'[l] = p
    BY <1>1, <1>3, <1>6, <1>11, <1>13
  <2>3. \A i \in DOMAIN s : f > s[i]
    <3>1. DOMAIN s = 1..n
      BY <1>13
    <3>2. \A i \in 1..n : s[i] <= f - 1 /\ s[i] \in Nat
      BY <1>1, <1>11, <1>12 DEF n
    <3> HIDE DEF s
    <3>3. QED
      BY <1>3, <3>1, <3>2
  <2>4. Fifo(l)!Put(f)
    BY <2>1, <2>2, <2>3 DEF Fifo!Put, Fifo!Newer
  <2>5. Contents(l)' # <<>> /\ Contents(l)'[Len(Contents(l)')] = f
    <3> HIDE DEF s
    <3>1. Append(s, f) # <<>> /\ Append(s, f)[Len(Append(s, f))] = f
      BY <1>3, <2>2, AppendProperties
    <3>2. QED
      BY <2>1, <3>1 DEF s
  <2>6. QED
    BY <2>4, <2>5 DEF Fifo!Step, Fifo!Next
<1>15. ASSUME NEW k \in Lidars, k # l PROVE Fifo(k)!Step
  <2>1. Contents(k)' = Contents(k) /\ published'[k] = published[k]
    BY <1>1, <1>15 DEF Contents
  <2>2. QED
    BY <2>1 DEF Fifo!Step
<1>16. ASSUME NEW k \in Lidars PROVE published'[k] <= Newest'
  BY <1>1, <1>3, <1>10, <1>11
<1>17. ASSUME NEW k \in Lidars, NEW i \in 1..Used(ring'[k].wr, ring'[k].rd)
       PROVE  Frames(ring'[k])[i] <= Newest'
  <2>1. CASE k = l /\ i = n + 1
    <3>1. Append(Frames(ring[l]), f)[n + 1] = f
      BY <1>3, <1>13, AppendProperties
    <3>2. Frames(ring'[k])[i] = f
      BY <1>9, <2>1, <3>1
    <3>3. f <= f
      OBVIOUS
    <3>4. QED
      BY <1>10, <3>2, <3>3
  <2>2. CASE ~(k = l /\ i = n + 1)
    <3>1. i \in 1..Used(ring[k].wr, ring[k].rd)
      BY <1>1, <1>5, <1>7, <1>17, <2>2 DEF n
    <3>2. Frames(ring'[k])[i] = Frames(ring[k])[i]
      <4>1. CASE k = l
        BY <1>3, <1>9, <1>13, <3>1, <4>1, AppendProperties DEF n
      <4>2. CASE k # l
        BY <1>1, <4>2, FramesSame
      <4>3. QED
        BY <4>1, <4>2
    <3>3. Frames(ring[k])[i] \in Nat /\ Frames(ring[k])[i] <= f - 1
      BY <1>11, <1>12, <3>1
    <3>4. QED
      BY <1>3, <1>10, <3>2, <3>3
  <2>3. QED
    BY <2>1, <2>2
<1>18. FrameInv'
  BY <1>1, <1>2, <1>16, <1>17 DEF FrameInv
<1>19. QED
  BY <1>14, <1>15, <1>18 DEF FifoStep

\* The poll thread looks at the queue, or copies the oldest frame.
LEMMA PollFifo ==
  ASSUME DataInv, FrameInv, PollInner \/ CopySlot
  PROVE  FifoStep
<1>1. ring' = ring /\ producer' = producer /\ published' = published /\ count' = count
  BY DEF PollInner, CopySlot, PollerStep
<1>2. \/ poller'["pcd"].pc # "pop"
      \/ /\ poller'["pcd"].lidar = poller["pcd"].lidar
         /\ packet' = ring[poller["pcd"].lidar].slots[Slot(ring[poller["pcd"].lidar].rd)]
  <2>1. CASE PollInner
    <3>1. poller' = Goto(poller, "pcd", "outer") \/ poller' = Goto(poller, "pcd", "copy")
      BY <2>1 DEF PollInner, PollerStep
    <3>2. QED
      BY <3>1, FrameTypes, GotoPoller
  <2>2. CASE CopySlot
    <3>1. poller' = Goto(poller, "pcd", "pop")
      BY <2>2 DEF CopySlot
    <3>2. QED
      BY <2>2, <3>1, FrameTypes, GotoPoller DEF CopySlot
  <2>3. QED
    BY <2>1, <2>2
<1>3. Newest' = Newest /\ Newest \in Int
  BY <1>1, FrameTypes DEF Newest, Writing
<1>4. Newest <= Newest' /\ Newest' \in Int
  BY <1>3
<1>5. /\ \A l \in Lidars :
           /\ published'[l] <= Newest'
           /\ \A i \in 1..Used(ring'[l].wr, ring'[l].rd) : Frames(ring'[l])[i] <= Newest'
      /\ \A l \in Lidars : Fifo(l)!Step
  BY <1>1, <1>3, <1>4, FramesKept
<1>6. FrameInv'
  BY <1>1, <1>2, <1>5 DEF FrameInv
<1>7. QED
  BY <1>5, <1>6 DEF FifoStep

\* The packet copied is still the oldest frame, and leaves the queue.
LEMMA PopFifo ==
  ASSUME DataInv, IndexInv, FrameInv, PopAndPublish
  PROVE  FifoStep
<1>a. PICK l \in Lidars : l = poller["pcd"].lidar
  BY FrameTypes
<1> DEFINE n == Used(ring[l].wr, ring[l].rd)
           s == Frames(ring[l])
<1>1. /\ l = poller["pcd"].lidar /\ poller["pcd"].pc = "pop"
      /\ ring' \in [Lidars -> Ring]
      /\ \A k \in Lidars :
           /\ ring'[k].wr = ring[k].wr /\ ring'[k].slots = ring[k].slots
           /\ k # l => ring'[k].rd = ring[k].rd
      /\ ring'[l].rd = Advanced(ring[l].rd)
      /\ published' = [published EXCEPT ![l] = packet]
      /\ UNCHANGED <<producer, packet, count>>
      /\ poller' = Goto(poller, "pcd", "inner")
  BY <1>a, PopFacts
<1>2. poller'["pcd"].pc = "inner"
  BY <1>1, FrameTypes, GotoPoller
<1>3. /\ ring[l].rd \in Index /\ ring[l].wr \in Index /\ ring[l].rdSeen \in Index
      /\ ring[l].wrSeen \in Index
      /\ ring[l] \in Ring /\ ring'[l] \in Ring
  BY <1>1, IndexTypes, FrameTypes
<1>4. /\ n <= Used(ring[l].wr, ring[l].rdSeen)
      /\ Used(ring[l].wr, ring[l].rdSeen) <= QueueSize
      /\ Used(ring[l].wrSeen, ring[l].rd) <= n
      /\ ring[l].rd # ring[l].wrSeen
  BY <1>1 DEF IndexInv, Taking
<1>5. n > 0 /\ Used(ring[l].wr, ring'[l].rd) = n - 1
  <2>1. n > 0 /\ Used(ring[l].wr, Advanced(ring[l].rd)) = n - 1
    BY <1>3, <1>4, AdvanceOrdered
  <2>2. QED
    BY <1>1, <2>1
<1>6. ring[l].slots[Slot(ring[l].rd)] = packet
  BY <1>1 DEF FrameInv
<1>7. /\ s # <<>> /\ Head(s) = packet /\ Frames(ring'[l]) = Tail(s)
  BY <1>1, <1>3, <1>5, <1>6, FramesGot
<1>8. /\ s \in Seq(Nat) /\ Len(s) = n /\ n \in Nat
  BY <1>3, FramesType
<1>9. Newest' = Newest /\ Newest \in Int
  BY <1>1, FrameTypes DEF Newest, Writing
<1>10. \A k \in Lidars :
         /\ published[k] <= Newest
         /\ \A i \in 1..Used(ring[k].wr, ring[k].rd) : Frames(ring[k])[i] <= Newest
  BY DEF FrameInv
<1>11. \A i \in 1..n : s[i] <= Newest
  BY <1>1, <1>10
<1>12. published'[l] = packet /\ \A k \in Lidars : k # l => published'[k] = published[k]
  BY <1>1, FrameTypes
<1> HIDE DEF n, s
<1>13. packet <= Newest
  <2>1. Head(s) = s[1] /\ 1 \in 1..n
    BY <1>5, <1>7, <1>8
  <2>2. QED
    BY <1>7, <1>11, <2>1
<1>14. ASSUME NEW k \in Lidars PROVE published'[k] <= Newest'
  <2>1. CASE k = l
    BY <1>9, <1>12, <1>13, <2>1
  <2>2. CASE k # l
    BY <1>9, <1>10, <1>12, <2>2
  <2>3. QED
    BY <2>1, <2>2
<1>15. ASSUME NEW k \in Lidars, NEW i \in 1..Used(ring'[k].wr, ring'[k].rd)
       PROVE  Frames(ring'[k])[i] <= Newest'
  <2>1. CASE k = l
    <3>1. i \in 1..(n - 1)
      BY <1>1, <1>5, <1>15, <2>1 DEF n
    <3>2. Tail(s)[i] = s[i + 1]
      BY <1>7, <1>8, <3>1, HeadTailProperties
    <3>3. i + 1 \in 1..n
      BY <1>8, <3>1
    <3>4. QED
      BY <1>7, <1>9, <1>11, <2>1, <3>2, <3>3
  <2>2. CASE k # l
    <3>1. Frames(ring'[k]) = Frames(ring[k]) /\ i \in 1..Used(ring[k].wr, ring[k].rd)
      BY <1>1, <1>15, <2>2, FramesSame
    <3>2. QED
      BY <1>9, <1>10, <3>1
  <2>3. QED
    BY <2>1, <2>2
<1>16. FrameInv'
  BY <1>1, <1>2, <1>14, <1>15 DEF FrameInv
<1>17. Fifo(l)!Step
  <2>1. Contents(l) = s /\ Contents(l)' = Tail(s)
    BY <1>7 DEF Contents, Frames, s
  <2>2. QED
    BY <1>7, <1>12, <2>1 DEF Fifo!Step, Fifo!Next, Fifo!Get
<1>18. ASSUME NEW k \in Lidars, k # l PROVE Fifo(k)!Step
  <2>1. Contents(k)' = Contents(k) /\ published'[k] = published[k]
    BY <1>1, <1>12, <1>18 DEF Contents
  <2>2. QED
    BY <2>1 DEF Fifo!Step
<1>19. QED
  BY <1>16, <1>17, <1>18 DEF FifoStep

\* At the start every buffer is empty and nothing has been published.
LEMMA FrameInit == Init => FrameInv /\ \A l \in Lidars : Fifo(l)!Init
<1> SUFFICES ASSUME Init PROVE FrameInv /\ \A l \in Lidars : Fifo(l)!Init
  OBVIOUS
<1>1. "pcd" \in Kinds /\ Used(0, 0) = 0
  BY IndexArithmetic DEF Index, Kinds
<1>2. /\ producer["pcd"].pc = "idle" /\ poller["pcd"].pc = "top"
      /\ count["frame"] = 0
      /\ \A l \in Lidars : ring[l].rd = 0 /\ ring[l].wr = 0 /\ published[l] = 0
  BY <1>1 DEF Init
<1>3. Newest = 0
  BY <1>2 DEF Newest, Writing
<1>4. FrameInv
  BY <1>1, <1>2, <1>3 DEF FrameInv
<1>5. ASSUME NEW l \in Lidars PROVE Fifo(l)!Init
  <2>1. Contents(l) = <<>>
    BY <1>1, <1>2 DEF Contents
  <2>2. QED
    BY <1>2, <2>1 DEF Fifo!Init
<1>6. QED
  BY <1>4, <1>5

\* Every step of the driver is, for each lidar, a step of a bounded queue or
\* leaves it alone.
LEMMA FrameStep ==
  ASSUME DataInv, IndexInv, FrameInv, [Next]_vars
  PROVE  FifoStep
BY StepKinds, AsideFifo, StorageFifo, WriteSlotFifo, AdvanceIndexFifo, PollFifo, PopFifo

\* The ring buffer, its two unlocked indices and the threads on either side of
\* it implement a bounded queue, for any number of lidars, any size of the queue
\* and any range of the indices that the size divides (ldq.cpp, PushLidarData,
\* PollingLidarPointCloudData).
THEOREM RingImplementsFifo == Spec => QueueIsFifo
<1> DEFINE Inv == DataInv /\ IndexInv /\ FrameInv
           Steps == \A l \in Lidars : Fifo(l)!Step
<1>1. Init => Inv /\ \A l \in Lidars : Fifo(l)!Init
  BY DataInit, IndexInit, FrameInit
<1>2. Inv /\ [Next]_vars => Inv'
  BY DataStep, IndexStep, FrameStep DEF FifoStep
<1>3. Inv /\ [Next]_vars => [Steps]_vars
  BY FrameStep DEF FifoStep
<1> HIDE DEF Inv
<1>4. Init /\ [][Next]_vars => (\A l \in Lidars : Fifo(l)!Init) /\ [][Steps]_vars
  BY <1>1, <1>2, <1>3, PTL
<1>5. QED
  BY <1>4 DEF Spec, QueueIsFifo
=============================================================================
