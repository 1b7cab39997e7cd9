--------------------------- MODULE FastLioProofs ---------------------------
(***************************************************************************)
(* Proofs about FastLio: how sync_packages pairs scans with their stamps   *)
(* and splits the IMU data, the stamps of /Odometry, and the time to which *)
(* UndistortPcl propagates the state.                                      *)
(***************************************************************************)
EXTENDS FastLio, FiniteSetTheorems, SequenceTheorems, WellFoundedInduction, TLAPS
-----------------------------------------------------------------------------
(* Types of what the callbacks and sync_packages use.  A loop back clears     *)
(* lidar_buffer only, so there is always a stamp for a scan.                  *)

FrontType ==
  /\ lidarBuffer \in Seq(Scan) /\ timeBuffer \in Seq(Int) /\ imuBuffer \in Seq(Imu)
  /\ Len(lidarBuffer) <= Len(timeBuffer)
  /\ lastTimestampLidar \in Int /\ lastTimestampImu \in Int /\ timediff \in Int
  /\ lidarPushed \in BOOLEAN /\ measures \in MeasureGroup
  /\ scanNum \in Nat /\ scanTimes \in Nat
  /\ odometry.stamp \in Int
  /\ received \in [scans : Nat, imus : Nat, rawImu : Int, loopBacks : Nat]

\* A scan leaves the buffers with the IMU data up to its end, and may give the
\* odometry its stamp.
Grouped ==
  /\ TakeGroup
  /\ odometry' = odometry \/ odometry'.stamp = measures'.endTime

\* sync_packages sets a scan aside until its IMU data is there.
SetAside == PushScan /\ odometry' = odometry

\* The timer callback does one or the other.
LEMMA TimerKinds == TimerCallback => Grouped \/ SetAside
<1>1. ASSUME NEW scan, Register(scan)
      PROVE  odometry' = odometry \/ odometry'.stamp = measures'.endTime
  BY <1>1 DEF Register
<1>2. DiscardFirstScan => Grouped
  BY DEF DiscardFirstScan, Grouped, estimator
<1>3. ProcessWithoutImu => Grouped
  BY <1>1 DEF ProcessWithoutImu, Grouped
<1>4. ProcessImuInit => Grouped
  BY <1>1 DEF ProcessImuInit, Grouped
<1>5. ProcessUndistort => Grouped
  BY <1>1 DEF ProcessUndistort, Grouped
<1>6. PushScan => SetAside
  BY DEF PushScan, SetAside, estimator
<1>7. QED
  BY <1>2, <1>3, <1>4, <1>5, <1>6 DEF TimerCallback

LEMMA CloudTypes ==
  /\ \A c \in Clouds : c \in Cloud
  /\ Period \in Nat \ {0} /\ ImuPeriod \in Nat \ {0} /\ TimeDiffLidarToImu \in Int
  /\ SyncLead \in Nat /\ MaxScans \in Nat
BY FastLioAssumption

\* The mean scan time is a natural number.
LEMMA MeanType ==
  ASSUME FrontType
  PROVE  LidarMeanScantime \in Nat
<1>1. scanNum \in Nat /\ scanTimes \in Nat
  BY DEF FrontType
<1>2. scanNum # 0 => scanTimes \div scanNum \in Nat
  BY <1>1
<1>3. QED
  BY <1>2 DEF LidarMeanScantime

\* What a scan at the front of the buffer becomes in Measures.
LEMMA PushedFacts ==
  ASSUME FrontType, lidarBuffer # <<>>
  PROVE  /\ Head(lidarBuffer) \in Scan /\ Head(timeBuffer) \in Int
         /\ Head(lidarBuffer) = lidarBuffer[1] /\ Head(timeBuffer) = timeBuffer[1]
         /\ Len(lidarBuffer) >= 1 /\ Len(timeBuffer) >= 1 /\ timeBuffer # <<>>
         /\ ScanTime(Head(lidarBuffer).cloud) \in Nat
         /\ Pushed \in MeasureGroup
         /\ lidarPushed => Pushed = measures
         /\ ~lidarPushed =>
              /\ Pushed.lidar = Head(lidarBuffer) /\ Pushed.begTime = Head(timeBuffer)
              /\ Pushed.endTime = Head(timeBuffer) + ScanTime(Head(lidarBuffer).cloud)
<1> DEFINE scan == Head(lidarBuffer)
           beg == Head(timeBuffer)
           len == ScanTime(scan.cloud)
<1>1. Len(lidarBuffer) \in Nat /\ Len(lidarBuffer) >= 1 /\ Len(timeBuffer) >= 1 /\ timeBuffer # <<>>
  BY DEF FrontType
<1>2. scan \in Scan /\ beg \in Int /\ scan = lidarBuffer[1] /\ beg = timeBuffer[1]
  BY <1>1 DEF FrontType
<1>3. scan.cloud \in Cloud /\ scan.cloud.offset \in Nat
  BY <1>2 DEF Scan, Cloud
<1>4. len \in Nat
  BY <1>3, MeanType DEF ScanTime
<1>5. measures \in MeasureGroup
  BY DEF FrontType
<1>6. CASE lidarPushed
  BY <1>1, <1>2, <1>4, <1>5, <1>6 DEF Pushed
<1>7. CASE ~lidarPushed
  <2>1. Pushed = [measures EXCEPT !.lidar = scan, !.begTime = beg, !.endTime = beg + len]
    BY <1>7 DEF Pushed, ScanStamp
  <2>2. beg + len \in Int
    BY <1>2, <1>4
  <2> DEFINE e == beg + len
  <2>3. /\ Pushed \in MeasureGroup
        /\ Pushed.lidar = scan /\ Pushed.begTime = beg /\ Pushed.endTime = e
    <3> HIDE DEF scan, beg, len, e
    <3>1. Pushed = [measures EXCEPT !.lidar = scan, !.begTime = beg, !.endTime = e]
      BY <2>1 DEF e
    <3>2. scan \in Scan /\ beg \in Int /\ e \in Int
      BY <1>2, <2>2 DEF e
    <3>3. QED
      BY <1>5, <3>1, <3>2 DEF MeasureGroup
  <2>4. QED
    BY <1>1, <1>2, <1>4, <1>7, <2>3
<1>8. QED
  BY <1>6, <1>7

LEMMA IntervalSize ==
  ASSUME NEW n \in Nat
  PROVE  IsFiniteSet(1..n) /\ Cardinality(1..n) = n
<1>1. IsFiniteSet(1..n) /\ Cardinality(1..n) = IF 1 > n THEN 0 ELSE n - 1 + 1
  BY FS_Interval
<1>2. (IF 1 > n THEN 0 ELSE n - 1 + 1) = n
  OBVIOUS
<1>3. QED
  BY <1>1, <1>2

\* A set of indices with no gap below its members is the interval of its size.
LEMMA PrefixIsInterval ==
  ASSUME NEW L \in Nat, NEW S \in SUBSET (1..L),
         \A i \in S, j \in 1..L : j < i => j \in S
  PROVE  Cardinality(S) \in 0..L /\ S = 1..Cardinality(S)
<1> DEFINE n == Cardinality(S)
<1>1. IsFiniteSet(1..L) /\ Cardinality(1..L) = L
  BY IntervalSize
<1>2. IsFiniteSet(S) /\ n \in Nat /\ n <= L
  BY <1>1, FS_Subset, FS_CardinalityType
<1>3. ASSUME NEW i \in S PROVE i \in 1..n
  <2>1. i \in Nat /\ i >= 1 /\ 1..i \in SUBSET S
    OBVIOUS
  <2>2. Cardinality(1..i) = i
    BY <2>1, IntervalSize
  <2>3. Cardinality(1..i) <= Cardinality(S)
    BY <1>2, <2>1, FS_Subset
  <2>4. i <= n
    BY <2>2, <2>3
  <2> HIDE DEF n
  <2>5. QED
    BY <1>2, <2>1, <2>4
<1>4. ASSUME NEW j \in 1..n, j \notin S PROVE FALSE
  <2> DEFINE m == j - 1
  <2>0. j \in Nat /\ j >= 1 /\ j <= n /\ j \in 1..L
    BY <1>2, <1>4
  <2>1. m \in Nat /\ m < n
    <3> HIDE DEF n
    <3>1. QED
      BY <1>2, <2>0
  <2>2. S \in SUBSET (1..m)
    BY <1>4, <2>0
  <2> HIDE DEF m
  <2>3. IsFiniteSet(1..m) /\ Cardinality(1..m) = m
    BY <2>1, IntervalSize
  <2>4. n <= m
    BY <2>2, <2>3, FS_Subset
  <2> HIDE DEF n
  <2>5. QED
    BY <1>2, <2>1, <2>4
<1>5. n \in 0..L
  <2> HIDE DEF n
  <2>1. QED
    BY <1>2
<1>6. S \subseteq 1..n
  BY <1>3
<1>7. 1..n \subseteq S
  BY <1>4
<1>8. QED
  BY <1>5, <1>6, <1>7

\* The IMU data taken: a prefix of the buffer.
LEMMA TakenType ==
  ASSUME FrontType, NEW end \in Int
  PROVE  ImuTaken(end) \in 0..Len(imuBuffer)
<1> DEFINE S == {i \in DOMAIN imuBuffer : imuBuffer[i].time < end}
           n == Cardinality(S)
           L == Len(imuBuffer)
<1>1. L \in Nat /\ DOMAIN imuBuffer = 1..L
  BY DEF FrontType
<1>2. IsFiniteSet(1..L) /\ Cardinality(1..L) = L
  BY <1>1, IntervalSize
<1>3. n \in Nat /\ n <= L
  <2>1. S \subseteq 1..L
    BY <1>1
  <2>2. QED
    BY <1>2, <2>1, FS_Subset, FS_CardinalityType
<1>4. ImuTaken(end) = n \/ (n \in 1..(L - 1) /\ ImuTaken(end) = n + 1)
  BY DEF ImuTaken
<1> HIDE DEF n
<1>5. QED
  BY <1>1, <1>3, <1>4

\* What becomes of the buffers when a group is taken.
LEMMA GroupedFacts ==
  ASSUME FrontType, Grouped
  PROVE  LET k == ImuTaken(Pushed.endTime)
         IN  /\ lidarBuffer # <<>> /\ ImuCovers(Pushed.endTime) /\ imuBuffer # <<>>
             /\ Pushed.endTime \in Int /\ k \in 0..Len(imuBuffer)
             /\ measures' \in MeasureGroup
             /\ measures'.lidar = Pushed.lidar /\ measures'.begTime = Pushed.begTime
             /\ measures'.endTime = Pushed.endTime
             /\ measures'.imu \in Seq(Imu) /\ Len(measures'.imu) = k
             /\ \A i \in 1..k : measures'.imu[i] = imuBuffer[i]
             /\ imuBuffer' \in Seq(Imu) /\ Len(imuBuffer') = Len(imuBuffer) - k
             /\ \A i \in 1..(Len(imuBuffer) - k) : imuBuffer'[i] = imuBuffer[k + i]
             /\ lidarBuffer' \in Seq(Scan) /\ Len(lidarBuffer') = Len(lidarBuffer) - 1
             /\ \A i \in 1..(Len(lidarBuffer) - 1) : lidarBuffer'[i] = lidarBuffer[i + 1]
             /\ timeBuffer' \in Seq(Int) /\ Len(timeBuffer') = Len(timeBuffer) - 1
             /\ \A i \in 1..(Len(timeBuffer) - 1) : timeBuffer'[i] = timeBuffer[i + 1]
             /\ lidarPushed' = FALSE
             /\ UNCHANGED <<lastTimestampLidar, lastTimestampImu, timediff, received>>
<1> DEFINE k == ImuTaken(Pushed.endTime)
           L == Len(imuBuffer)
<1>1. /\ lidarBuffer # <<>> /\ ImuCovers(Pushed.endTime) /\ imuBuffer # <<>>
      /\ measures' = [Pushed EXCEPT !.imu = SubSeq(imuBuffer, 1, k)]
      /\ imuBuffer' = SubSeq(imuBuffer, k + 1, L)
      /\ lidarBuffer' = Tail(lidarBuffer)
      /\ timeBuffer' = Tail(timeBuffer)
      /\ lidarPushed' = FALSE
      /\ UNCHANGED <<lastTimestampLidar, lastTimestampImu, timediff, received>>
  BY DEF Grouped, TakeGroup, ImuLeft, stamps, sync
<1>2. Pushed \in MeasureGroup /\ timeBuffer # <<>>
  BY <1>1, PushedFacts
<1>3. Pushed.endTime \in Int
  BY <1>2 DEF MeasureGroup
<1>4. k \in 0..L /\ L \in Nat
  <2>1. k \in 0..L
    BY <1>3, TakenType
  <2>2. L \in Nat
    BY DEF FrontType
  <2>3. QED
    BY <2>1, <2>2
<1> HIDE DEF k
<1>5. imuBuffer \in Seq(Imu)
  BY DEF FrontType
<1>6. /\ SubSeq(imuBuffer, 1, k) \in Seq(Imu) /\ Len(SubSeq(imuBuffer, 1, k)) = k
      /\ \A i \in 1..k : SubSeq(imuBuffer, 1, k)[i] = imuBuffer[i]
  BY <1>4, <1>5
<1>7. /\ imuBuffer' \in Seq(Imu) /\ Len(imuBuffer') = L - k
      /\ \A i \in 1..(L - k) : imuBuffer'[i] = imuBuffer[k + i]
  <2>1. k + 1 \in 1..(L + 1) /\ L \in (k + 1) - 1 .. L
    BY <1>4
  <2>2. QED
    BY <1>1, <1>4, <1>5, <2>1
<1>8. /\ lidarBuffer' \in Seq(Scan) /\ Len(lidarBuffer') = Len(lidarBuffer) - 1
      /\ \A i \in 1..(Len(lidarBuffer) - 1) : lidarBuffer'[i] = lidarBuffer[i + 1]
  BY <1>1, HeadTailProperties DEF FrontType
<1>9. /\ timeBuffer' \in Seq(Int) /\ Len(timeBuffer') = Len(timeBuffer) - 1
      /\ \A i \in 1..(Len(timeBuffer) - 1) : timeBuffer'[i] = timeBuffer[i + 1]
  BY <1>1, <1>2, HeadTailProperties DEF FrontType
<1> DEFINE s == SubSeq(imuBuffer, 1, k)
<1>10. /\ measures' \in MeasureGroup /\ measures'.lidar = Pushed.lidar
       /\ measures'.begTime = Pushed.begTime /\ measures'.endTime = Pushed.endTime
       /\ measures'.imu = s
  <2>1. s \in Seq(Imu) /\ measures' = [Pushed EXCEPT !.imu = s]
    BY <1>1, <1>6
  <2> HIDE DEF s
  <2>2. QED
    BY <1>2, <2>1 DEF MeasureGroup
<1>11. QED
  BY <1>1, <1>3, <1>4, <1>6, <1>7, <1>8, <1>9, <1>10 DEF k

\* What becomes of the count of scans when one is pushed.
LEMMA CountType ==
  ASSUME FrontType, lidarBuffer # <<>>, CountScan
  PROVE  /\ scanNum' \in Nat /\ scanTimes' \in Nat
         /\ \/ scanNum' = scanNum /\ scanTimes' = scanTimes
            \/ /\ scanNum' = scanNum + 1
               /\ scanTimes' = scanTimes + Head(lidarBuffer).cloud.offset
<1>1. Head(lidarBuffer) \in Scan
  BY PushedFacts
<1>2. Head(lidarBuffer).cloud.offset \in Nat
  BY <1>1 DEF Scan, Cloud
<1>3. \/ scanNum' = scanNum /\ scanTimes' = scanTimes
      \/ /\ scanNum' = scanNum + 1
         /\ scanTimes' = scanTimes + Head(lidarBuffer).cloud.offset
  BY DEF CountScan
<1> DEFINE o == Head(lidarBuffer).cloud.offset
<1>4. scanNum \in Nat /\ scanTimes \in Nat
  BY DEF FrontType
<1> HIDE DEF o
<1>5. scanNum' \in Nat /\ scanTimes' \in Nat
  <2>1. o \in Nat
    BY <1>2 DEF o
  <2>2. \/ scanNum' = scanNum /\ scanTimes' = scanTimes
        \/ scanNum' = scanNum + 1 /\ scanTimes' = scanTimes + o
    BY <1>3 DEF o
  <2>3. QED
    BY <1>4, <2>1, <2>2
<1>6. QED
  BY <1>3, <1>5

\* What a lidar callback does.
LEMMA LidarFacts ==
  ASSUME FrontType, NEW time \in Int, NEW cloud \in Clouds, LidarCallback(time, cloud)
  PROVE  \E scan \in Scan, rest \in {lidarBuffer, <<>>} :
           /\ scan.time = time /\ scan.cloud = cloud
           /\ lidarBuffer' = Append(rest, scan) /\ timeBuffer' = Append(timeBuffer, time)
           /\ lastTimestampLidar' = time
           /\ received' \in [scans : Nat, imus : Nat, rawImu : Int, loopBacks : Nat]
           /\ received'.imus = received.imus /\ received'.rawImu = received.rawImu
           /\ received'.loopBacks = received.loopBacks \/ received'.loopBacks = received.loopBacks + 1
           /\ received'.loopBacks = received.loopBacks =>
                rest = lidarBuffer /\ time >= lastTimestampLidar + Period
           /\ timediff' \in Int
           /\ UNCHANGED <<imuBuffer, lastTimestampImu, lidarPushed, measures, scanNum, scanTimes,
                          odometry>>
<1> DEFINE looped == time < lastTimestampLidar
           scan == [id |-> received.scans + 1, time |-> time, cloud |-> cloud]
           rest == IF looped THEN <<>> ELSE lidarBuffer
           r == [received EXCEPT !.scans = @ + 1,
                                 !.loopBacks = IF looped THEN @ + 1 ELSE @]
<1>1. received \in [scans : Nat, imus : Nat, rawImu : Int, loopBacks : Nat]
  BY DEF FrontType
<1>2. scan \in Scan /\ scan.time = time /\ scan.cloud = cloud
  BY <1>1, CloudTypes DEF Scan
<1>3. /\ r \in [scans : Nat, imus : Nat, rawImu : Int, loopBacks : Nat]
      /\ r.imus = received.imus /\ r.rawImu = received.rawImu
      /\ r.loopBacks = IF looped THEN received.loopBacks + 1 ELSE received.loopBacks
  <2> DEFINE s == received.scans + 1
             b == IF looped THEN received.loopBacks + 1 ELSE received.loopBacks
  <2>1. received.scans + 1 \in Nat /\ received.loopBacks \in Nat /\ received.loopBacks + 1 \in Nat
    BY <1>1
  <2>2. s \in Nat /\ b \in Nat
    BY <2>1
  <2>3. r = [received EXCEPT !.scans = s, !.loopBacks = b]
    BY <1>1
  <2> HIDE DEF s, b, r, looped
  <2>4. /\ r \in [scans : Nat, imus : Nat, rawImu : Int, loopBacks : Nat]
        /\ r.imus = received.imus /\ r.rawImu = received.rawImu /\ r.loopBacks = b
    BY <1>1, <2>2, <2>3
  <2>5. QED
    BY <2>4 DEF b
<1>4. /\ lidarBuffer' = Append(rest, scan) /\ timeBuffer' = Append(timeBuffer, time)
      /\ lastTimestampLidar' = time /\ received' = r
      /\ UNCHANGED <<imuBuffer, lastTimestampImu, lidarPushed, measures, scanNum, scanTimes,
                     odometry>>
  BY DEF LidarCallback, ClearedOnLoopBack, grouping, estimator
<1>5. ~looped => time >= lastTimestampLidar + Period
  BY DEF LidarCallback
<1>6. timediff' \in Int
  <2>1. timediff' = timediff \/ timediff' = time + SyncLead - lastTimestampImu
    BY DEF LidarCallback
  <2>2. QED
    BY <2>1, CloudTypes DEF FrontType
<1> HIDE DEF scan, r
<1>7. received.loopBacks \in Nat
  BY <1>1
<1>8. received'.loopBacks = received.loopBacks => rest = lidarBuffer /\ time >= lastTimestampLidar + Period
  BY <1>3, <1>4, <1>5, <1>7
<1>9. rest \in {lidarBuffer, <<>>}
  OBVIOUS
<1> HIDE DEF rest
<1>10. QED
  BY <1>2, <1>3, <1>4, <1>6, <1>8, <1>9

\* What an IMU callback does.
LEMMA ImuFacts ==
  ASSUME FrontType, NEW raw \in Int, ImuCallback(raw)
  PROVE  \E msg \in Imu, rest \in {imuBuffer, <<>>} :
           /\ imuBuffer' = Append(rest, msg) /\ lastTimestampImu' = msg.time
           /\ ~TimeSyncEn => msg.time = raw - TimeDiffLidarToImu
           /\ rest = <<>> => msg.time < lastTimestampImu \/ rest = imuBuffer
           /\ received' \in [scans : Nat, imus : Nat, rawImu : Int, loopBacks : Nat]
           /\ received'.imus = received.imus + 1 /\ received'.rawImu = raw
           /\ received'.loopBacks = received.loopBacks \/ received'.loopBacks = received.loopBacks + 1
           /\ received'.loopBacks = received.loopBacks => raw >= received.rawImu + ImuPeriod
           /\ UNCHANGED <<lidarBuffer, timeBuffer, lastTimestampLidar, timediff, lidarPushed,
                          measures, scanNum, scanTimes, odometry>>
<1> DEFINE time == ImuStamp(raw)
           msg == [raw |-> raw, time |-> time]
           rest == ImuKept(time)
           back == raw < received.rawImu
           r == [received EXCEPT !.imus = @ + 1, !.rawImu = raw,
                                 !.loopBacks = IF back THEN @ + 1 ELSE @]
<1>1. received \in [scans : Nat, imus : Nat, rawImu : Int, loopBacks : Nat] /\ timediff \in Int
  BY DEF FrontType
<1>2. time \in Int
  <2>1. timediff + raw \in Int /\ 1000000000 \in Nat \ {0}
    BY <1>1
  <2>2. TimeOfNanoseconds(timediff + raw) \in Int
    BY <2>1 DEF TimeOfNanoseconds, NanosecondsPerSecond
  <2>3. raw - TimeDiffLidarToImu \in Int
    BY CloudTypes
  <2>4. QED
    BY <2>2, <2>3 DEF ImuStamp
<1>3. ~TimeSyncEn => time = raw - TimeDiffLidarToImu
  BY DEF ImuStamp
<1>4. rest \in {imuBuffer, <<>>} /\ (rest = <<>> => time < lastTimestampImu \/ rest = imuBuffer)
  BY DEF ImuKept
<1>5. /\ r \in [scans : Nat, imus : Nat, rawImu : Int, loopBacks : Nat]
      /\ r.imus = received.imus + 1 /\ r.rawImu = raw
      /\ r.loopBacks = IF back THEN received.loopBacks + 1 ELSE received.loopBacks
  <2> DEFINE m == received.imus + 1
             b == IF back THEN received.loopBacks + 1 ELSE received.loopBacks
  <2>1. received.imus + 1 \in Nat /\ received.loopBacks \in Nat /\ received.loopBacks + 1 \in Nat
    BY <1>1
  <2>2. m \in Nat /\ b \in Nat
    BY <2>1
  <2>3. r = [received EXCEPT !.imus = m, !.rawImu = raw, !.loopBacks = b]
    BY <1>1
  <2> HIDE DEF m, b, r, back
  <2>4. /\ r \in [scans : Nat, imus : Nat, rawImu : Int, loopBacks : Nat]
        /\ r.imus = m /\ r.rawImu = raw /\ r.loopBacks = b
    BY <1>1, <2>2, <2>3
  <2>5. QED
    BY <2>4 DEF b, m
<1>6. /\ imuBuffer' = Append(rest, msg) /\ lastTimestampImu' = time /\ received' = r
      /\ UNCHANGED <<lidarBuffer, timeBuffer, lastTimestampLidar, timediff, lidarPushed,
                     measures, scanNum, scanTimes, odometry>>
  BY DEF ImuCallback, sync, grouping, estimator
<1>7. ~back => raw >= received.rawImu + ImuPeriod
  BY DEF ImuCallback
<1> HIDE DEF time, rest, r
<1>8. msg \in Imu /\ msg.time = time
  BY <1>2 DEF Imu
<1> HIDE DEF msg
<1>9. received.loopBacks \in Nat
  BY <1>1
<1>10. received'.loopBacks = received.loopBacks => raw >= received.rawImu + ImuPeriod
  BY <1>5, <1>6, <1>7, <1>9
<1>11. QED
  BY <1>3, <1>4, <1>5, <1>6, <1>8, <1>10

\* What becomes of a scan that is set aside.
LEMMA SetAsideFacts ==
  ASSUME FrontType, SetAside
  PROVE  /\ lidarBuffer # <<>> /\ ~lidarPushed /\ lidarPushed' = TRUE /\ measures' = Pushed
         /\ ~ImuCovers(Pushed.endTime) /\ CountScan
         /\ UNCHANGED <<lidarBuffer, timeBuffer, imuBuffer, lastTimestampLidar, lastTimestampImu,
                        timediff, received, odometry>>
BY DEF SetAside, PushScan, buffers, stamps, sync

\* A step is one callback, in one of these ways.
LEMMA StepKinds ==
  ASSUME [Next]_vars
  PROVE  \/ \E time \in Int, cloud \in Clouds : LidarCallback(time, cloud)
         \/ \E raw \in Int : ImuCallback(raw)
         \/ Grouped
         \/ SetAside
         \/ UNCHANGED <<lidarBuffer, timeBuffer, imuBuffer, lastTimestampLidar, lastTimestampImu,
                        timediff, lidarPushed, measures, scanNum, scanTimes, odometry, received>>
<1>1. CASE UNCHANGED vars
  BY <1>1 DEF vars, buffers, stamps, sync, grouping, estimator
<1>2. CASE \E time \in 1..MaxTime, cloud \in Clouds : LidarCallback(time, cloud)
  BY <1>2
<1>3. CASE \E raw \in 1..MaxTime : ImuCallback(raw)
  BY <1>3
<1>4. CASE TimerCallback
  BY <1>4, TimerKinds
<1>5. QED
  BY <1>1, <1>2, <1>3, <1>4 DEF Next

\* What appending to a sequence does.
LEMMA AppendFacts ==
  ASSUME NEW S, NEW s \in Seq(S), NEW x \in S
  PROVE  /\ Append(s, x) \in Seq(S) /\ Len(Append(s, x)) = Len(s) + 1
         /\ \A i \in 1..Len(s) : Append(s, x)[i] = s[i]
         /\ Append(s, x)[Len(s) + 1] = x /\ Append(s, x) # <<>>
OBVIOUS

LEMMA FrontInit == Init => FrontType
<1> SUFFICES ASSUME Init PROVE FrontType
  OBVIOUS
<1>1. NoScan \in Scan
  BY DEF NoScan, Scan, Cloud
<1>2. measures \in MeasureGroup
  BY <1>1 DEF Init, MeasureGroup
<1>3. received \in [scans : Nat, imus : Nat, rawImu : Int, loopBacks : Nat]
  BY DEF Init
<1>4. odometry.stamp \in Int
  BY DEF Init
<1>5. /\ lidarBuffer = <<>> /\ timeBuffer = <<>> /\ imuBuffer = <<>>
      /\ lastTimestampLidar = 0 /\ lastTimestampImu = -1 /\ timediff = 0 /\ lidarPushed = FALSE
      /\ scanNum = 0 /\ scanTimes = 0
  BY DEF Init
<1>6. lidarBuffer \in Seq(Scan) /\ timeBuffer \in Seq(Int) /\ imuBuffer \in Seq(Imu)
  BY <1>5
<1>7. Len(lidarBuffer) <= Len(timeBuffer)
  BY <1>5
<1>8. /\ lastTimestampLidar \in Int /\ lastTimestampImu \in Int /\ timediff \in Int
      /\ scanNum \in Nat /\ scanTimes \in Nat
  BY <1>5
<1>9. lidarPushed \in BOOLEAN
  BY <1>5, Zenon
<1>10. QED
  BY <1>2, <1>3, <1>4, <1>6, <1>7, <1>8, <1>9 DEF FrontType

LEMMA FrontStep == FrontType /\ [Next]_vars => FrontType'
<1> SUFFICES ASSUME FrontType, [Next]_vars PROVE FrontType'
  OBVIOUS
<1>0. /\ lidarBuffer \in Seq(Scan) /\ timeBuffer \in Seq(Int) /\ imuBuffer \in Seq(Imu)
      /\ Len(lidarBuffer) \in Nat /\ Len(timeBuffer) \in Nat
      /\ Len(lidarBuffer) <= Len(timeBuffer)
      /\ <<>> \in Seq(Scan) /\ Len(<<>>) = 0 /\ <<>> \in Seq(Imu)
  BY DEF FrontType
<1>1. ASSUME NEW time \in Int, NEW cloud \in Clouds, LidarCallback(time, cloud) PROVE FrontType'
  <2>1. PICK scan \in Scan, rest \in {lidarBuffer, <<>>} :
           /\ lidarBuffer' = Append(rest, scan) /\ timeBuffer' = Append(timeBuffer, time)
           /\ lastTimestampLidar' = time
           /\ received' \in [scans : Nat, imus : Nat, rawImu : Int, loopBacks : Nat]
           /\ timediff' \in Int
           /\ UNCHANGED <<imuBuffer, lastTimestampImu, lidarPushed, measures, scanNum, scanTimes,
                          odometry>>
    BY <1>1, LidarFacts
  <2>2. rest \in Seq(Scan) /\ Len(rest) \in Nat /\ Len(rest) <= Len(timeBuffer)
    <3>1. rest = lidarBuffer \/ rest = <<>>
      BY <2>1
    <3>2. CASE rest = lidarBuffer
      BY <1>0, <3>2
    <3>3. CASE rest = <<>>
      BY <1>0, <3>3
    <3>4. QED
      BY <3>1, <3>2, <3>3
  <2>3. lidarBuffer' \in Seq(Scan) /\ Len(lidarBuffer') = Len(rest) + 1
    BY <2>1, <2>2, AppendFacts
  <2>4. timeBuffer' \in Seq(Int) /\ Len(timeBuffer') = Len(timeBuffer) + 1
    BY <1>0, <2>1, AppendFacts
  <2>5. Len(lidarBuffer') <= Len(timeBuffer')
    BY <1>0, <2>2, <2>3, <2>4
  <2>6. QED
    BY <2>1, <2>3, <2>4, <2>5 DEF FrontType
<1>2. ASSUME NEW raw \in Int, ImuCallback(raw) PROVE FrontType'
  <2>1. PICK msg \in Imu, rest \in {imuBuffer, <<>>} :
           /\ imuBuffer' = Append(rest, msg) /\ lastTimestampImu' = msg.time
           /\ received' \in [scans : Nat, imus : Nat, rawImu : Int, loopBacks : Nat]
           /\ UNCHANGED <<lidarBuffer, timeBuffer, lastTimestampLidar, timediff, lidarPushed,
                          measures, scanNum, scanTimes, odometry>>
    BY <1>2, ImuFacts
  <2>2. imuBuffer' \in Seq(Imu)
    BY <1>0, <2>1, AppendFacts
  <2>3. lastTimestampImu' \in Int
    BY <2>1 DEF Imu
  <2>4. QED
    BY <2>1, <2>2, <2>3 DEF FrontType
<1>3. ASSUME Grouped PROVE FrontType'
  <2>1. /\ measures' \in MeasureGroup /\ imuBuffer' \in Seq(Imu)
        /\ lidarBuffer' \in Seq(Scan) /\ Len(lidarBuffer') = Len(lidarBuffer) - 1
        /\ timeBuffer' \in Seq(Int) /\ Len(timeBuffer') = Len(timeBuffer) - 1
        /\ lidarPushed' = FALSE /\ lidarBuffer # <<>>
        /\ UNCHANGED <<lastTimestampLidar, lastTimestampImu, timediff, received>>
    BY <1>3, GroupedFacts
  <2>2. Len(lidarBuffer') <= Len(timeBuffer')
    BY <1>0, <2>1
  <2>3. scanNum' \in Nat /\ scanTimes' \in Nat
    BY <1>3, <2>1, CountType DEF Grouped, TakeGroup
  <2>4. odometry'.stamp \in Int
    BY <1>3, <2>1 DEF Grouped, FrontType, MeasureGroup
  <2>5. QED
    BY <2>1, <2>2, <2>3, <2>4 DEF FrontType
<1>4. ASSUME SetAside PROVE FrontType'
  <2>1. /\ lidarBuffer # <<>> /\ lidarPushed' = TRUE /\ measures' = Pushed /\ CountScan
        /\ UNCHANGED <<lidarBuffer, timeBuffer, imuBuffer, lastTimestampLidar, lastTimestampImu,
                       timediff, received, odometry>>
    BY <1>4, SetAsideFacts
  <2>2. measures' \in MeasureGroup
    BY <2>1, PushedFacts
  <2>3. scanNum' \in Nat /\ scanTimes' \in Nat
    BY <2>1, CountType
  <2>4. QED
    BY <2>1, <2>2, <2>3 DEF FrontType
<1>5. ASSUME UNCHANGED <<lidarBuffer, timeBuffer, imuBuffer, lastTimestampLidar, lastTimestampImu,
                         timediff, lidarPushed, measures, scanNum, scanTimes, odometry, received>>
      PROVE FrontType'
  BY <1>5 DEF FrontType
<1>6. QED
  BY <1>1, <1>2, <1>3, <1>4, <1>5, StepKinds

-----------------------------------------------------------------------------
(* Scans and stamps are paired.                                               *)

\* lidar_buffer and time_buffer hold the scans and their stamps, in step.
Paired ==
  /\ Len(lidarBuffer) = Len(timeBuffer)
  /\ \A i \in 1..Len(timeBuffer) : timeBuffer[i] = lidarBuffer[i].time

PairInv == Monotone => Paired /\ GroupHoldsItsStamp

\* Clocks that went back stay counted.
LEMMA MonotoneBefore ==
  ASSUME FrontType, [Next]_vars, Monotone'
  PROVE  Monotone /\ received'.loopBacks = received.loopBacks
<1>1. received.loopBacks \in Nat
  BY DEF FrontType
<1>2. received'.loopBacks = received.loopBacks \/ received'.loopBacks = received.loopBacks + 1
  <2>1. ASSUME NEW time \in Int, NEW cloud \in Clouds, LidarCallback(time, cloud)
        PROVE received'.loopBacks = received.loopBacks \/ received'.loopBacks = received.loopBacks + 1
    BY <2>1, LidarFacts
  <2>2. ASSUME NEW raw \in Int, ImuCallback(raw)
        PROVE received'.loopBacks = received.loopBacks \/ received'.loopBacks = received.loopBacks + 1
    BY <2>2, ImuFacts
  <2>3. Grouped => received' = received
    BY GroupedFacts
  <2>4. SetAside => received' = received
    BY SetAsideFacts
  <2>5. QED
    BY <2>1, <2>2, <2>3, <2>4, StepKinds
<1>3. QED
  BY <1>1, <1>2 DEF Monotone

LEMMA PairInit == Init => PairInv
BY DEF Init, PairInv, Paired, GroupHoldsItsStamp, NoScan

LEMMA PairStep == FrontType /\ PairInv /\ [Next]_vars => PairInv'
<1> SUFFICES ASSUME FrontType, PairInv, [Next]_vars, Monotone'
             PROVE  Paired' /\ GroupHoldsItsStamp'
  BY DEF PairInv
<1>0. /\ Paired /\ GroupHoldsItsStamp /\ received'.loopBacks = received.loopBacks
      /\ lidarBuffer \in Seq(Scan) /\ timeBuffer \in Seq(Int)
      /\ Len(lidarBuffer) \in Nat /\ Len(timeBuffer) = Len(lidarBuffer)
  BY MonotoneBefore DEF PairInv, Paired, FrontType
<1>1. ASSUME NEW time \in Int, NEW cloud \in Clouds, LidarCallback(time, cloud)
      PROVE  Paired' /\ GroupHoldsItsStamp'
  <2>1. PICK scan \in Scan :
           /\ scan.time = time /\ lidarBuffer' = Append(lidarBuffer, scan)
           /\ timeBuffer' = Append(timeBuffer, time) /\ measures' = measures
    BY <1>0, <1>1, LidarFacts
  <2>2. /\ Len(lidarBuffer') = Len(lidarBuffer) + 1
        /\ \A i \in 1..Len(lidarBuffer) : lidarBuffer'[i] = lidarBuffer[i]
        /\ lidarBuffer'[Len(lidarBuffer) + 1] = scan
    BY <1>0, <2>1, AppendFacts
  <2>3. /\ Len(timeBuffer') = Len(lidarBuffer) + 1
        /\ \A i \in 1..Len(lidarBuffer) : timeBuffer'[i] = timeBuffer[i]
        /\ timeBuffer'[Len(lidarBuffer) + 1] = time
    BY <1>0, <2>1, AppendFacts
  <2>4. ASSUME NEW i \in 1..Len(timeBuffer') PROVE timeBuffer'[i] = lidarBuffer'[i].time
    <3>1. i \in 1..Len(lidarBuffer) \/ i = Len(lidarBuffer) + 1
      BY <1>0, <2>3
    <3>2. CASE i \in 1..Len(lidarBuffer)
      BY <1>0, <2>2, <2>3, <3>2 DEF Paired
    <3>3. CASE i = Len(lidarBuffer) + 1
      BY <2>1, <2>2, <2>3, <3>3
    <3>4. QED
      BY <3>1, <3>2, <3>3
  <2>5. QED
    BY <1>0, <2>1, <2>2, <2>3, <2>4 DEF Paired, GroupHoldsItsStamp
<1>2. ASSUME NEW raw \in Int, ImuCallback(raw) PROVE Paired' /\ GroupHoldsItsStamp'
  <2>1. UNCHANGED <<lidarBuffer, timeBuffer, measures>>
    BY <1>2, ImuFacts
  <2>2. QED
    BY <1>0, <2>1 DEF Paired, GroupHoldsItsStamp
<1>3. ASSUME lidarBuffer # <<>> PROVE Pushed.begTime = Pushed.lidar.time
  <2>1. CASE lidarPushed
    BY <1>0, <2>1 DEF Pushed, GroupHoldsItsStamp
  <2>2. CASE ~lidarPushed
    <3>1. /\ Pushed.begTime = timeBuffer[1] /\ Pushed.lidar = lidarBuffer[1]
          /\ Len(timeBuffer) >= 1
      BY <1>3, <2>2, PushedFacts
    <3>2. 1 \in 1..Len(timeBuffer)
      BY <1>0, <3>1
    <3>3. QED
      BY <1>0, <3>1, <3>2 DEF Paired
  <2>3. QED
    BY <2>1, <2>2
<1>4. ASSUME Grouped PROVE Paired' /\ GroupHoldsItsStamp'
  <2>1. /\ lidarBuffer # <<>>
        /\ Len(lidarBuffer') = Len(lidarBuffer) - 1
        /\ \A i \in 1..(Len(lidarBuffer) - 1) : lidarBuffer'[i] = lidarBuffer[i + 1]
        /\ Len(timeBuffer') = Len(timeBuffer) - 1
        /\ \A i \in 1..(Len(timeBuffer) - 1) : timeBuffer'[i] = timeBuffer[i + 1]
        /\ measures'.lidar = Pushed.lidar /\ measures'.begTime = Pushed.begTime
    BY <1>4, GroupedFacts
  <2>2. ASSUME NEW i \in 1..Len(timeBuffer') PROVE timeBuffer'[i] = lidarBuffer'[i].time
    <3>1. i \in 1..(Len(timeBuffer) - 1) /\ i + 1 \in 1..Len(timeBuffer)
      BY <1>0, <2>1
    <3>2. QED
      BY <1>0, <2>1, <3>1 DEF Paired
  <2>3. QED
    BY <1>0, <1>3, <2>1, <2>2 DEF Paired, GroupHoldsItsStamp
<1>5. ASSUME SetAside PROVE Paired' /\ GroupHoldsItsStamp'
  <2>1. lidarBuffer # <<>> /\ measures' = Pushed /\ UNCHANGED <<lidarBuffer, timeBuffer>>
    BY <1>5, SetAsideFacts
  <2>2. QED
    BY <1>0, <1>3, <2>1 DEF Paired, GroupHoldsItsStamp
<1>6. ASSUME UNCHANGED <<lidarBuffer, timeBuffer, measures>> PROVE Paired' /\ GroupHoldsItsStamp'
  BY <1>0, <1>6 DEF Paired, GroupHoldsItsStamp
<1>7. QED
  BY <1>1, <1>2, <1>4, <1>5, <1>6, StepKinds

\* As long as no sensor's clock goes back, every group sync_packages builds
\* carries the stamp of its own scan: lidar_buffer and time_buffer stay in step.
\* Only the clear() of one of them on a loop back parts them.
THEOREM GroupsAreStamped == Spec => [](Monotone => GroupHoldsItsStamp)
<1>1. Init => FrontType /\ PairInv
  BY FrontInit, PairInit
<1>2. FrontType /\ PairInv /\ [Next]_vars => FrontType' /\ PairInv'
  BY FrontStep, PairStep
<1>3. PairInv => (Monotone => GroupHoldsItsStamp)
  BY DEF PairInv
<1>4. QED
  BY <1>1, <1>2, <1>3, PTL DEF Spec

-----------------------------------------------------------------------------
(* The stamps of /Odometry.  A scan lasts no longer than the distance of two  *)
(* scans, so a scan ends before the next one starts, also where its end is    *)
(* estimated from the mean scan time.                                         *)

\* No cloud is longer than the distance of two scans.
ScansApart == \A c \in Clouds : c.offset <= Period

\* What sync_packages knows of the length of scans.
ScanTimeInv ==
  /\ \A i \in 1..Len(lidarBuffer) : lidarBuffer[i].cloud \in Clouds
  /\ scanTimes <= scanNum * Period

\* The stamps in the buffer are a period apart.
StampsAscend ==
  /\ \A i \in 1..Len(timeBuffer) : timeBuffer[i] <= lastTimestampLidar
  /\ \A i, j \in 1..Len(timeBuffer) : i < j => timeBuffer[i] + Period <= timeBuffer[j]

\* Where the group ends, and the odometry with it: not after the scans behind.
GroupEnds ==
  IF lidarPushed
  THEN /\ lidarBuffer # <<>> /\ measures.begTime = timeBuffer[1]
       /\ measures.begTime <= measures.endTime /\ measures.endTime <= measures.begTime + Period
       /\ odometry.stamp <= measures.begTime
  ELSE /\ \A i \in 1..Len(timeBuffer) : measures.endTime <= timeBuffer[i]
       /\ measures.endTime <= lastTimestampLidar + Period
       /\ odometry.stamp <= measures.endTime

StampInv == Monotone => StampsAscend /\ GroupEnds

\* The mean of numbers that are not above p is not above p.
LEMMA MeanBound ==
  ASSUME NEW n \in Nat \ {0}, NEW t \in Nat, NEW p \in Nat, t <= n * p
  PROVE  t \div n <= p
<1> DEFINE q == t \div n
<1>1. q \in Nat /\ n * q <= t
  <2>1. q \in Int /\ t % n \in Nat /\ t = n * q + (t % n)
    OBVIOUS
  <2>2. QED
    OBVIOUS
<1> HIDE DEF q
<1>2. ASSUME q > p PROVE FALSE
  <2>1. q - p - 1 \in Nat
    BY <1>1, <1>2
  <2>2. n * (q - p - 1) >= 0
    BY <2>1
  <2>3. n * (q - p - 1) = n * q - n * p - n
    BY <1>1
  <2>4. n * q \in Int /\ n * p \in Int
    BY <1>1
  <2>5. QED
    BY <1>1, <2>2, <2>3, <2>4
<1>3. q <= p
  BY <1>1, <1>2
<1>4. QED
  BY <1>3 DEF q

\* A scan is taken to last no longer than the distance of two scans.
LEMMA ScanTimeBound ==
  ASSUME FrontType, ScansApart, ScanTimeInv, lidarBuffer # <<>>
  PROVE  ScanTime(Head(lidarBuffer).cloud) <= Period
<1> DEFINE c == Head(lidarBuffer).cloud
<1>1. Head(lidarBuffer) = lidarBuffer[1] /\ 1 \in 1..Len(lidarBuffer)
  BY PushedFacts DEF FrontType
<1>2. c \in Clouds
  BY <1>1 DEF ScanTimeInv
<1>3. c.offset <= Period
  BY <1>2 DEF ScansApart
<1>4. LidarMeanScantime <= Period
  <2>1. scanNum \in Nat /\ scanTimes \in Nat /\ Period \in Nat /\ scanTimes <= scanNum * Period
    BY CloudTypes DEF FrontType, ScanTimeInv
  <2>2. CASE scanNum = 0
    BY <2>1, <2>2 DEF LidarMeanScantime
  <2>3. CASE scanNum # 0
    <3>1. scanTimes \div scanNum <= Period
      BY <2>1, <2>3, MeanBound
    <3>2. QED
      BY <2>3, <3>1 DEF LidarMeanScantime
  <2>4. QED
    BY <2>2, <2>3
<1>5. QED
  BY <1>3, <1>4 DEF ScanTime

LEMMA ScanTimeInit == Init => ScanTimeInv
<1> SUFFICES ASSUME Init PROVE ScanTimeInv
  OBVIOUS
<1>1. Len(lidarBuffer) = 0 /\ scanTimes = 0 /\ scanNum = 0
  BY DEF Init
<1>2. 0 * Period = 0
  BY CloudTypes
<1>3. QED
  BY <1>1, <1>2 DEF ScanTimeInv

LEMMA ScanTimeStep ==
  FrontType /\ ScansApart /\ ScanTimeInv /\ [Next]_vars => ScanTimeInv'
<1> SUFFICES ASSUME FrontType, ScansApart, ScanTimeInv, [Next]_vars PROVE ScanTimeInv'
  OBVIOUS
<1>0. /\ lidarBuffer \in Seq(Scan) /\ Len(lidarBuffer) \in Nat
      /\ scanNum \in Nat /\ scanTimes \in Nat /\ Period \in Nat
      /\ \A i \in 1..Len(lidarBuffer) : lidarBuffer[i].cloud \in Clouds
      /\ scanTimes <= scanNum * Period
  BY CloudTypes DEF FrontType, ScanTimeInv
<1>1. ASSUME NEW time \in Int, NEW cloud \in Clouds, LidarCallback(time, cloud)
      PROVE  ScanTimeInv'
  <2>1. PICK scan \in Scan, rest \in {lidarBuffer, <<>>} :
           /\ scan.cloud = cloud /\ lidarBuffer' = Append(rest, scan)
           /\ scanNum' = scanNum /\ scanTimes' = scanTimes
    BY <1>1, LidarFacts
  <2>2. /\ rest \in Seq(Scan) /\ Len(rest) \in Nat
        /\ \A i \in 1..Len(rest) : rest[i].cloud \in Clouds
    <3>1. rest = lidarBuffer \/ rest = <<>>
      BY <2>1
    <3>2. CASE rest = lidarBuffer
      BY <1>0, <3>2
    <3>3. CASE rest = <<>>
      BY <3>3
    <3>4. QED
      BY <3>1, <3>2, <3>3
  <2>3. /\ Len(lidarBuffer') = Len(rest) + 1
        /\ \A i \in 1..Len(rest) : lidarBuffer'[i] = rest[i]
        /\ lidarBuffer'[Len(rest) + 1] = scan
    BY <2>1, <2>2, AppendFacts
  <2>4. ASSUME NEW i \in 1..Len(lidarBuffer') PROVE lidarBuffer'[i].cloud \in Clouds
    <3>1. i \in 1..Len(rest) \/ i = Len(rest) + 1
      BY <2>2, <2>3
    <3>2. CASE i \in 1..Len(rest)
      BY <2>2, <2>3, <3>2
    <3>3. CASE i = Len(rest) + 1
      BY <2>1, <2>3, <3>3
    <3>4. QED
      BY <3>1, <3>2, <3>3
  <2>5. scanTimes' <= scanNum' * Period
    BY <1>0, <2>1
  <2>6. QED
    BY <2>4, <2>5 DEF ScanTimeInv
<1>2. ASSUME CountScan, lidarBuffer # <<>> PROVE scanTimes' <= scanNum' * Period
  <2> DEFINE o == Head(lidarBuffer).cloud.offset
  <2>1. \/ scanNum' = scanNum /\ scanTimes' = scanTimes
        \/ scanNum' = scanNum + 1 /\ scanTimes' = scanTimes + o
    BY <1>2, CountType
  <2>2. Head(lidarBuffer) = lidarBuffer[1] /\ 1 \in 1..Len(lidarBuffer)
    BY <1>0, <1>2, PushedFacts
  <2>3. Head(lidarBuffer).cloud \in Clouds
    BY <1>0, <2>2
  <2>4. o <= Period /\ o \in Nat
    BY <2>3, CloudTypes DEF ScansApart, Cloud
  <2> HIDE DEF o
  <2>5. (scanNum + 1) * Period = scanNum * Period + Period /\ scanNum * Period \in Int
    BY <1>0
  <2>6. QED
    BY <1>0, <2>1, <2>4, <2>5
<1>3. ASSUME Grouped PROVE ScanTimeInv'
  <2>1. /\ lidarBuffer # <<>> /\ Len(lidarBuffer') = Len(lidarBuffer) - 1
        /\ \A i \in 1..(Len(lidarBuffer) - 1) : lidarBuffer'[i] = lidarBuffer[i + 1]
    BY <1>3, GroupedFacts
  <2>2. ASSUME NEW i \in 1..Len(lidarBuffer') PROVE lidarBuffer'[i].cloud \in Clouds
    <3>1. i \in 1..(Len(lidarBuffer) - 1) /\ i + 1 \in 1..Len(lidarBuffer)
      BY <1>0, <2>1
    <3>2. QED
      BY <1>0, <2>1, <3>1
  <2>3. CountScan
    BY <1>3 DEF Grouped, TakeGroup
  <2>4. QED
    BY <1>2, <2>1, <2>2, <2>3 DEF ScanTimeInv
<1>4. ASSUME SetAside PROVE ScanTimeInv'
  <2>1. lidarBuffer # <<>> /\ CountScan /\ lidarBuffer' = lidarBuffer
    BY <1>4, SetAsideFacts
  <2>2. QED
    BY <1>0, <1>2, <2>1 DEF ScanTimeInv
<1>5. ASSUME UNCHANGED <<lidarBuffer, scanNum, scanTimes>> PROVE ScanTimeInv'
  BY <1>0, <1>5 DEF ScanTimeInv
<1>6. ASSUME NEW raw \in Int, ImuCallback(raw) PROVE ScanTimeInv'
  <2>1. UNCHANGED <<lidarBuffer, scanNum, scanTimes>>
    BY <1>6, ImuFacts
  <2>2. QED
    BY <1>5, <2>1
<1>7. QED
  BY <1>1, <1>3, <1>4, <1>5, <1>6, StepKinds

\* The group built from the scan at the front: where it begins and ends.
LEMMA PushedEnds ==
  ASSUME FrontType, ScansApart, ScanTimeInv, StampsAscend, GroupEnds, lidarBuffer # <<>>
  PROVE  /\ Pushed.begTime \in Int /\ Pushed.endTime \in Int
         /\ Len(timeBuffer) >= 1 /\ Pushed.begTime = timeBuffer[1]
         /\ Pushed.begTime <= Pushed.endTime /\ Pushed.endTime <= Pushed.begTime + Period
         /\ odometry.stamp <= Pushed.begTime
<1>1. /\ Pushed \in MeasureGroup /\ Len(timeBuffer) >= 1 /\ Head(timeBuffer) = timeBuffer[1]
      /\ Head(timeBuffer) \in Int /\ ScanTime(Head(lidarBuffer).cloud) \in Nat
  BY PushedFacts
<1>2. Pushed.begTime \in Int /\ Pushed.endTime \in Int
  BY <1>1 DEF MeasureGroup
<1>3. CASE lidarPushed
  BY <1>1, <1>2, <1>3 DEF Pushed, GroupEnds
<1>4. CASE ~lidarPushed
  <2> DEFINE d == ScanTime(Head(lidarBuffer).cloud)
             b == Head(timeBuffer)
  <2>1. Pushed.begTime = b /\ Pushed.endTime = b + d
    BY <1>4, PushedFacts
  <2>2. d <= Period
    BY ScanTimeBound
  <2>3. 1 \in 1..Len(timeBuffer)
    BY <1>1 DEF FrontType
  <2>4. measures.endTime <= b /\ odometry.stamp <= measures.endTime
    BY <1>1, <1>4, <2>3 DEF GroupEnds
  <2>5. d \in Nat /\ b \in Int /\ Period \in Nat
    BY <1>1, CloudTypes
  <2>6. measures.endTime \in Int /\ odometry.stamp \in Int
    BY DEF FrontType, MeasureGroup
  <2>7. b = timeBuffer[1]
    BY <1>1
  <2> HIDE DEF d, b
  <2>8. /\ Pushed.begTime <= Pushed.endTime /\ Pushed.endTime <= Pushed.begTime + Period
        /\ odometry.stamp <= Pushed.begTime
    BY <2>1, <2>2, <2>4, <2>5, <2>6
  <2>9. QED
    BY <1>1, <1>2, <2>1, <2>7, <2>8
<1>5. QED
  BY <1>3, <1>4

LEMMA StampInit == Init => StampInv
<1> SUFFICES ASSUME Init PROVE StampsAscend /\ GroupEnds
  BY DEF StampInv
<1>1. /\ Len(timeBuffer) = 0 /\ ~lidarPushed /\ measures.endTime = 0 /\ lastTimestampLidar = 0
      /\ odometry.stamp = -1
  BY DEF Init
<1>2. StampsAscend
  BY <1>1 DEF StampsAscend
<1>3. GroupEnds
  BY <1>1, CloudTypes DEF GroupEnds
<1>4. QED
  BY <1>2, <1>3

\* What a step does to the stamps: it keeps StampInv and takes no odometry back.
LEMMA StampStep ==
  ASSUME FrontType, ScansApart, ScanTimeInv, StampInv, [Next]_vars, Monotone'
  PROVE  StampsAscend' /\ GroupEnds' /\ odometry'.stamp >= odometry.stamp
<1> DEFINE Goal == StampsAscend' /\ GroupEnds' /\ odometry'.stamp >= odometry.stamp
<1>0. /\ StampsAscend /\ GroupEnds /\ received'.loopBacks = received.loopBacks
      /\ timeBuffer \in Seq(Int) /\ lidarBuffer \in Seq(Scan) /\ Len(timeBuffer) \in Nat
      /\ \A i \in 1..Len(timeBuffer) : timeBuffer[i] \in Int
      /\ lidarPushed \in BOOLEAN
  BY MonotoneBefore DEF StampInv, FrontType
<1>n. /\ measures.endTime \in Int /\ measures.begTime \in Int /\ odometry.stamp \in Int
      /\ lastTimestampLidar \in Int /\ Period \in Nat
  BY CloudTypes DEF FrontType, MeasureGroup
<1>1. ASSUME NEW time \in Int, NEW cloud \in Clouds, LidarCallback(time, cloud) PROVE Goal
  <2>1. PICK scan \in Scan :
           /\ lidarBuffer' = Append(lidarBuffer, scan)
           /\ timeBuffer' = Append(timeBuffer, time) /\ lastTimestampLidar' = time
           /\ time >= lastTimestampLidar + Period
           /\ measures' = measures /\ lidarPushed' = lidarPushed /\ odometry' = odometry
    BY <1>0, <1>1, LidarFacts
  <2> DEFINE L == Len(timeBuffer)
  <2>2. /\ Len(timeBuffer') = L + 1
        /\ \A i \in 1..L : timeBuffer'[i] = timeBuffer[i]
        /\ timeBuffer'[L + 1] = time
    BY <1>0, <2>1, AppendFacts
  <2>3. lidarBuffer' # <<>>
    BY <1>0, <2>1, AppendFacts
  <2>4. L \in Nat
    BY <1>0
  <2> HIDE DEF L
  <2>5. /\ \A i \in 1..L : timeBuffer[i] \in Int /\ timeBuffer[i] <= lastTimestampLidar
        /\ \A i, j \in 1..L : i < j => timeBuffer[i] + Period <= timeBuffer[j]
    BY <1>0 DEF L, StampsAscend
  <2>6. \A i \in 1..(L + 1) : i \in 1..L \/ i = L + 1
    BY <2>4
  <2>7. ASSUME NEW i \in 1..L PROVE timeBuffer[i] + Period <= time /\ timeBuffer[i] <= time
    <3>1. timeBuffer[i] \in Int /\ timeBuffer[i] <= lastTimestampLidar
      BY <2>5
    <3>2. QED
      BY <1>n, <2>1, <3>1
  <2>8. StampsAscend'
    <3>1. ASSUME NEW i \in 1..(L + 1) PROVE timeBuffer'[i] <= time
      BY <2>2, <2>6, <2>7
    <3>2. ASSUME NEW i \in 1..(L + 1), NEW j \in 1..(L + 1), i < j
          PROVE  timeBuffer'[i] + Period <= timeBuffer'[j]
      <4>1. i \in 1..L
        BY <2>4, <3>2
      <4>2. CASE j \in 1..L
        BY <2>2, <2>5, <3>2, <4>1, <4>2
      <4>3. CASE j = L + 1
        BY <2>2, <2>7, <4>1, <4>3
      <4>4. QED
        BY <2>6, <4>2, <4>3
    <3>3. QED
      BY <2>1, <2>2, <3>1, <3>2 DEF StampsAscend
  <2>9. CASE lidarPushed
    <3>1. Len(lidarBuffer) >= 1 /\ 1 \in 1..L
      <4>1. lidarBuffer # <<>>
        BY <1>0, <2>9 DEF GroupEnds
      <4>2. Len(timeBuffer) >= 1 /\ Len(lidarBuffer) >= 1
        BY <4>1, PushedFacts
      <4>3. QED
        BY <2>4, <4>2 DEF L
    <3>2. timeBuffer'[1] = timeBuffer[1]
      BY <2>2, <3>1
    <3>3. GroupEnds'
      BY <1>0, <2>1, <2>3, <2>9, <3>2 DEF GroupEnds
    <3>4. QED
      BY <1>n, <2>1, <2>8, <3>3
  <2>10. CASE ~lidarPushed
    <3>1. /\ \A i \in 1..L : measures.endTime <= timeBuffer[i]
          /\ measures.endTime <= lastTimestampLidar + Period
          /\ odometry.stamp <= measures.endTime
      BY <1>0, <2>10 DEF GroupEnds, L
    <3>2. measures.endTime <= time /\ measures.endTime <= time + Period
      BY <1>n, <2>1, <3>1
    <3>3. \A i \in 1..(L + 1) : measures.endTime <= timeBuffer'[i]
      BY <2>2, <2>6, <3>1, <3>2
    <3>4. GroupEnds'
      BY <2>1, <2>2, <2>10, <3>1, <3>2, <3>3 DEF GroupEnds
    <3>5. QED
      BY <1>n, <2>1, <2>8, <3>4
  <2>11. QED
    BY <1>0, <2>9, <2>10
<1>2. ASSUME UNCHANGED <<lidarBuffer, timeBuffer, measures, lastTimestampLidar, lidarPushed, odometry>>
      PROVE  Goal
  BY <1>0, <1>n, <1>2 DEF StampsAscend, GroupEnds
<1>3. ASSUME NEW raw \in Int, ImuCallback(raw) PROVE Goal
  <2>1. UNCHANGED <<lidarBuffer, timeBuffer, measures, lastTimestampLidar, lidarPushed, odometry>>
    BY <1>3, ImuFacts
  <2>2. QED
    BY <1>2, <2>1
<1>4. ASSUME Grouped PROVE Goal
  <2> DEFINE L == Len(timeBuffer)
             e == Pushed.endTime
  <2>1. /\ lidarBuffer # <<>> /\ measures'.endTime = e
        /\ Len(timeBuffer') = L - 1
        /\ \A i \in 1..(L - 1) : timeBuffer'[i] = timeBuffer[i + 1]
        /\ lidarPushed' = FALSE /\ lastTimestampLidar' = lastTimestampLidar
    BY <1>4, GroupedFacts
  <2>2. /\ e \in Int /\ L >= 1 /\ L \in Nat /\ timeBuffer[1] <= e /\ e <= timeBuffer[1] + Period
        /\ odometry.stamp <= timeBuffer[1]
    <3>1. /\ Pushed.endTime \in Int /\ Len(timeBuffer) >= 1 /\ Pushed.begTime = timeBuffer[1]
          /\ Pushed.begTime <= Pushed.endTime /\ Pushed.endTime <= Pushed.begTime + Period
          /\ odometry.stamp <= Pushed.begTime
      BY <1>0, <2>1, PushedEnds
    <3>2. QED
      BY <1>0, <3>1
  <2>3. odometry' = odometry \/ odometry'.stamp = e
    BY <1>4, <2>1 DEF Grouped
  <2> HIDE DEF L, e
  <2>4. /\ \A i \in 1..L : timeBuffer[i] \in Int /\ timeBuffer[i] <= lastTimestampLidar
        /\ \A i, j \in 1..L : i < j => timeBuffer[i] + Period <= timeBuffer[j]
    BY <1>0 DEF L, StampsAscend
  <2>5. \A i \in 1..(L - 1) : i \in 1..L /\ i + 1 \in 1..L /\ 1 < i + 1
    BY <2>2
  <2>6. timeBuffer[1] \in Int /\ timeBuffer[1] <= lastTimestampLidar /\ 1 \in 1..L
    BY <2>2, <2>4
  <2>7. StampsAscend'
    <3>1. ASSUME NEW i \in 1..(L - 1) PROVE timeBuffer'[i] <= lastTimestampLidar
      BY <2>1, <2>4, <2>5
    <3>2. ASSUME NEW i \in 1..(L - 1), NEW j \in 1..(L - 1), i < j
          PROVE  timeBuffer'[i] + Period <= timeBuffer'[j]
      <4>1. i + 1 < j + 1
        BY <2>2, <3>2
      <4>2. QED
        BY <2>1, <2>4, <2>5, <4>1
    <3>3. QED
      BY <2>1, <3>1, <3>2 DEF StampsAscend
  <2>8. ASSUME NEW i \in 1..(L - 1) PROVE e <= timeBuffer'[i]
    <3>1. timeBuffer[1] + Period <= timeBuffer[i + 1] /\ timeBuffer[i + 1] \in Int
      BY <2>4, <2>5, <2>6
    <3>2. QED
      BY <1>n, <2>1, <2>2, <2>6, <3>1
  <2>9. e <= lastTimestampLidar + Period
    BY <1>n, <2>2, <2>6
  <2>10. odometry.stamp <= e
    BY <1>n, <2>2, <2>6
  <2>11. odometry'.stamp <= e /\ odometry'.stamp >= odometry.stamp
    BY <1>n, <2>2, <2>3, <2>10
  <2>12. GroupEnds'
    BY <2>1, <2>8, <2>9, <2>11 DEF GroupEnds
  <2>13. QED
    BY <2>7, <2>11, <2>12
<1>5. ASSUME SetAside PROVE Goal
  <2>1. /\ lidarBuffer # <<>> /\ lidarPushed' = TRUE /\ measures' = Pushed
        /\ UNCHANGED <<lidarBuffer, timeBuffer, lastTimestampLidar, odometry>>
    BY <1>5, SetAsideFacts
  <2>2. /\ Pushed.begTime = timeBuffer[1]
        /\ Pushed.begTime <= Pushed.endTime /\ Pushed.endTime <= Pushed.begTime + Period
        /\ odometry.stamp <= Pushed.begTime
    BY <1>0, <2>1, PushedEnds
  <2>3. GroupEnds'
    BY <2>1, <2>2 DEF GroupEnds
  <2>4. StampsAscend'
    BY <1>0, <2>1 DEF StampsAscend
  <2>5. QED
    BY <1>n, <2>1, <2>3, <2>4
<1>6. QED
  BY <1>1, <1>2, <1>3, <1>4, <1>5, StepKinds

\* /Odometry is stamped in ascending order as long as no sensor's clock goes
\* back and no cloud reaches further than the distance of two scans: for every
\* mixture of clouds with and without point offsets, whose ends sync_packages
\* only estimates, and however scans are set aside in between.
THEOREM OdometryIsInOrder ==
  ASSUME ScansApart
  PROVE  Spec => OdometryStampsMonotone
<1> DEFINE I == FrontType /\ ScanTimeInv /\ StampInv
<1>1. Init => I
  BY FrontInit, ScanTimeInit, StampInit
<1>2. I /\ [Next]_vars => I'
  <2>1. ASSUME FrontType, ScanTimeInv, StampInv, [Next]_vars PROVE StampInv'
    BY <2>1, StampStep DEF StampInv
  <2>2. QED
    BY <2>1, FrontStep, ScanTimeStep
<1>3. I /\ [Next]_vars => [Monotone' => odometry'.stamp >= odometry.stamp]_vars
  <2>1. ASSUME FrontType, ScanTimeInv, StampInv, [Next]_vars, Monotone'
        PROVE  odometry'.stamp >= odometry.stamp
    BY <2>1, StampStep
  <2>2. QED
    BY <2>1
<1> HIDE DEF I
<1>4. QED
  BY <1>1, <1>2, <1>3, PTL DEF Spec, OdometryStampsMonotone

-----------------------------------------------------------------------------
(* The IMU data is split at the end of the scan.                              *)

\* imu_buffer is ordered by stamps, none later than the last one received.
ImuAscends ==
  /\ \A i \in 1..Len(imuBuffer) : imuBuffer[i].time <= lastTimestampImu
  /\ \A i, j \in 1..Len(imuBuffer) : i < j => imuBuffer[i].time <= imuBuffer[j].time

\* The last stamp, once there is one.
ImuClock ==
  /\ imuBuffer # <<>> => received.imus > 0
  /\ received.imus > 0 => lastTimestampImu = received.rawImu - TimeDiffLidarToImu

\* The IMU data of the last group and what is left of it.
Split ==
  /\ received.imus > 0 /\ measures.endTime <= lastTimestampImu
  /\ \A i \in 1..Len(measures.imu) : measures.imu[i].time <= measures.endTime
  /\ \A i \in 1..Len(imuBuffer) : measures.endTime <= imuBuffer[i].time

SplitInv ==
  Monotone => /\ ImuAscends /\ ImuClock
              /\ ~lidarPushed /\ measures.lidar # NoScan => Split

\* In an ordered buffer the messages taken are those up to the end of the scan.
LEMMA TakenSplits ==
  ASSUME FrontType, ImuAscends, NEW end \in Int, NEW i \in 1..Len(imuBuffer)
  PROVE  /\ i <= ImuTaken(end) => imuBuffer[i].time <= end
         /\ i > ImuTaken(end) => end <= imuBuffer[i].time
<1> DEFINE L == Len(imuBuffer)
           S == {m \in DOMAIN imuBuffer : imuBuffer[m].time < end}
           n == Cardinality(S)
           k == ImuTaken(end)
<1>1. L \in Nat /\ DOMAIN imuBuffer = 1..L /\ \A m \in 1..L : imuBuffer[m].time \in Int
  <2>1. imuBuffer \in Seq(Imu)
    BY DEF FrontType
  <2>2. L \in Nat /\ DOMAIN imuBuffer = 1..L /\ \A m \in 1..L : imuBuffer[m] \in Imu
    BY <2>1
  <2>3. QED
    BY <2>2 DEF Imu
<1>2. S \in SUBSET (1..L)
  BY <1>1
<1>3. \A m \in 1..L : m \in S <=> imuBuffer[m].time < end
  BY <1>1
<1>4. \A m \in S, j \in 1..L : j < m => j \in S
  <2> SUFFICES ASSUME NEW m \in S, NEW j \in 1..L, j < m PROVE imuBuffer[j].time < end
    BY <1>3
  <2>1. imuBuffer[m].time < end /\ m \in 1..L
    BY <1>1
  <2>2. imuBuffer[j].time <= imuBuffer[m].time
    BY <2>1 DEF ImuAscends
  <2>3. QED
    BY <1>1, <2>1, <2>2
<1>5. k = n \/ (k = n + 1 /\ n + 1 \in 1..L /\ imuBuffer[n + 1].time = end)
  <2>1. k = n \/ (k = n + 1 /\ n \in 1..(L - 1) /\ imuBuffer[n + 1].time = end)
    BY DEF ImuTaken
  <2>2. n \in 1..(L - 1) => n + 1 \in 1..L
    <3> HIDE DEF n
    <3>1. QED
      BY <1>1
  <2>3. QED
    BY <2>1, <2>2
<1> HIDE DEF S, k
<1>6. n \in 0..L /\ S = 1..n
  BY <1>1, <1>2, <1>4, PrefixIsInterval
<1> HIDE DEF n, L
<1>7. i \in 1..L /\ imuBuffer[i].time \in Int
  BY <1>1 DEF L
<1>8. i <= n => imuBuffer[i].time < end
  <2>1. i <= n => i \in 1..n
    BY <1>6, <1>7
  <2>2. QED
    BY <1>3, <1>6, <1>7, <2>1
<1>9. i > n => end <= imuBuffer[i].time
  <2>1. i > n => i \notin 1..n
    BY <1>6, <1>7
  <2>2. i > n => ~(imuBuffer[i].time < end)
    BY <1>3, <1>6, <1>7, <2>1
  <2>3. QED
    BY <1>7, <2>2
<1>10. CASE k = n
  BY <1>7, <1>8, <1>9, <1>10 DEF k
<1>11. CASE k = n + 1 /\ n + 1 \in 1..L /\ imuBuffer[n + 1].time = end
  <2>1. i <= k => i <= n \/ i = n + 1
    BY <1>6, <1>7, <1>11
  <2>2. i > k => i > n
    BY <1>6, <1>7, <1>11
  <2>3. QED
    BY <1>7, <1>8, <1>9, <1>11, <2>1, <2>2 DEF k
<1>12. QED
  BY <1>5, <1>10, <1>11

LEMMA SplitInit == Init => SplitInv
<1> SUFFICES ASSUME Init PROVE SplitInv
  OBVIOUS
<1>1. Len(imuBuffer) = 0 /\ imuBuffer = <<>> /\ received.imus = 0 /\ measures.lidar = NoScan
  BY DEF Init
<1>2. QED
  BY <1>1 DEF SplitInv, ImuAscends, ImuClock

LEMMA SplitStep ==
  FrontType /\ ~TimeSyncEn /\ SplitInv /\ [Next]_vars => SplitInv'
<1> SUFFICES ASSUME FrontType, ~TimeSyncEn, SplitInv, [Next]_vars, Monotone'
             PROVE  /\ ImuAscends' /\ ImuClock'
                    /\ (~lidarPushed /\ measures.lidar # NoScan => Split)'
  BY DEF SplitInv
<1> DEFINE Goal == /\ ImuAscends' /\ ImuClock'
                   /\ (~lidarPushed /\ measures.lidar # NoScan => Split)'
<1>0. /\ ImuAscends /\ ImuClock /\ (~lidarPushed /\ measures.lidar # NoScan => Split)
      /\ received'.loopBacks = received.loopBacks
      /\ imuBuffer \in Seq(Imu) /\ Len(imuBuffer) \in Nat
  BY MonotoneBefore DEF SplitInv, FrontType
<1>n. /\ measures.endTime \in Int /\ lastTimestampImu \in Int /\ received.imus \in Nat
      /\ received.rawImu \in Int /\ TimeDiffLidarToImu \in Int /\ ImuPeriod \in Nat
  BY CloudTypes DEF FrontType, MeasureGroup
<1>m. \A i \in 1..Len(imuBuffer) : imuBuffer[i].time \in Int
  <2>1. \A i \in 1..Len(imuBuffer) : imuBuffer[i] \in Imu
    BY <1>0
  <2>2. QED
    BY <2>1 DEF Imu
<1>1. ASSUME NEW time \in Int, NEW cloud \in Clouds, LidarCallback(time, cloud) PROVE Goal
  <2>1. /\ UNCHANGED <<imuBuffer, lastTimestampImu, lidarPushed, measures>>
        /\ received'.imus = received.imus /\ received'.rawImu = received.rawImu
    BY <1>1, LidarFacts
  <2>2. QED
    BY <1>0, <2>1 DEF ImuAscends, ImuClock, Split
<1>2. ASSUME NEW raw \in Int, ImuCallback(raw) PROVE Goal
  <2>1. PICK msg \in Imu, rest \in {imuBuffer, <<>>} :
           /\ imuBuffer' = Append(rest, msg) /\ lastTimestampImu' = msg.time
           /\ msg.time = raw - TimeDiffLidarToImu
           /\ received'.imus = received.imus + 1 /\ received'.rawImu = raw
           /\ raw >= received.rawImu + ImuPeriod
           /\ lidarPushed' = lidarPushed /\ measures' = measures
    BY <1>0, <1>2, ImuFacts
  <2> DEFINE L == Len(rest)
             t == msg.time
  <2>2. /\ rest \in Seq(Imu) /\ L \in Nat
        /\ \A i \in 1..L : rest[i] = imuBuffer[i] /\ i \in 1..Len(imuBuffer)
        /\ L > 0 => imuBuffer # <<>>
    <3>1. rest = imuBuffer \/ rest = <<>>
      BY <2>1
    <3>2. CASE rest = imuBuffer
      BY <1>0, <3>2
    <3>3. CASE rest = <<>>
      BY <3>3
    <3>4. QED
      BY <3>1, <3>2, <3>3
  <2>3. /\ Len(imuBuffer') = L + 1 /\ \A i \in 1..L : imuBuffer'[i] = rest[i]
        /\ imuBuffer'[L + 1] = msg
    BY <2>1, <2>2, AppendFacts
  <2>4. t \in Int /\ t = raw - TimeDiffLidarToImu /\ lastTimestampImu' = t
    BY <2>1 DEF Imu
  <2> HIDE DEF L, t
  <2>5. imuBuffer'[L + 1].time = t
    BY <2>3 DEF t
  <2>6. received.imus > 0 => lastTimestampImu <= t
    <3>1. received.imus > 0 => lastTimestampImu = received.rawImu - TimeDiffLidarToImu
      BY <1>0 DEF ImuClock
    <3>2. QED
      BY <1>n, <2>1, <2>4, <3>1
  <2>7. L > 0 => received.imus > 0
    BY <1>0, <2>2 DEF ImuClock
  <2>8. ASSUME NEW i \in 1..L
        PROVE  /\ imuBuffer'[i].time = imuBuffer[i].time /\ imuBuffer[i].time \in Int
               /\ imuBuffer[i].time <= t /\ i \in 1..Len(imuBuffer)
    <3>1. imuBuffer'[i] = imuBuffer[i] /\ i \in 1..Len(imuBuffer)
      BY <2>2, <2>3
    <3>2. imuBuffer[i].time <= lastTimestampImu /\ imuBuffer[i].time \in Int
      BY <1>0, <1>m, <3>1 DEF ImuAscends
    <3>3. lastTimestampImu <= t
      BY <2>2, <2>6, <2>7
    <3>4. QED
      BY <1>n, <2>4, <3>1, <3>2, <3>3
  <2>9. \A i \in 1..(L + 1) : i \in 1..L \/ i = L + 1
    BY <2>2
  <2>10. ImuAscends'
    <3>1. ASSUME NEW i \in 1..(L + 1) PROVE imuBuffer'[i].time <= t
      BY <2>4, <2>5, <2>8, <2>9
    <3>2. ASSUME NEW i \in 1..(L + 1), NEW j \in 1..(L + 1), i < j
          PROVE  imuBuffer'[i].time <= imuBuffer'[j].time
      <4>1. i \in 1..L
        BY <2>2, <3>2
      <4>2. CASE j \in 1..L
        <5>1. imuBuffer[i].time <= imuBuffer[j].time
          BY <1>0, <2>8, <3>2, <4>1, <4>2 DEF ImuAscends
        <5>2. QED
          BY <2>8, <4>1, <4>2, <5>1
      <4>3. CASE j = L + 1
        BY <2>5, <2>8, <4>1, <4>3
      <4>4. QED
        BY <2>9, <4>2, <4>3
    <3>3. QED
      BY <2>3, <2>4, <3>1, <3>2 DEF ImuAscends
  <2>11. received'.imus > 0
    BY <1>n, <2>1
  <2>12. ImuClock'
    BY <2>1, <2>4, <2>11 DEF ImuClock
  <2>13. ASSUME ~lidarPushed, measures.lidar # NoScan PROVE Split'
    <3>1. /\ received.imus > 0 /\ measures.endTime <= lastTimestampImu
          /\ \A i \in 1..Len(measures.imu) : measures.imu[i].time <= measures.endTime
          /\ \A i \in 1..Len(imuBuffer) : measures.endTime <= imuBuffer[i].time
      BY <1>0, <2>13 DEF Split
    <3>2. measures.endTime <= t
      BY <1>n, <2>4, <2>6, <3>1
    <3>3. \A i \in 1..(L + 1) : measures.endTime <= imuBuffer'[i].time
      BY <2>5, <2>8, <2>9, <3>1, <3>2
    <3>4. QED
      BY <2>1, <2>3, <2>4, <2>11, <3>1, <3>2, <3>3 DEF Split
  <2>14. QED
    BY <2>1, <2>10, <2>12, <2>13
<1>3. ASSUME Grouped PROVE Goal
  <2> DEFINE e == Pushed.endTime
             k == ImuTaken(e)
             L == Len(imuBuffer)
  <2>1. /\ ImuCovers(e) /\ imuBuffer # <<>> /\ e \in Int /\ k \in 0..L
        /\ measures'.endTime = e /\ Len(measures'.imu) = k
        /\ \A i \in 1..k : measures'.imu[i] = imuBuffer[i]
        /\ Len(imuBuffer') = L - k
        /\ \A i \in 1..(L - k) : imuBuffer'[i] = imuBuffer[k + i]
        /\ lastTimestampImu' = lastTimestampImu /\ received' = received
    BY <1>3, GroupedFacts
  <2>2. \A i \in 1..L : (i <= k => imuBuffer[i].time <= e) /\ (i > k => e <= imuBuffer[i].time)
    BY <1>0, <2>1, TakenSplits
  <2>3. L \in Nat
    BY <1>0
  <2>4. received.imus > 0 /\ e <= lastTimestampImu
    BY <1>0, <1>n, <2>1 DEF ImuClock, ImuCovers
  <2>5. /\ \A i \in 1..L : imuBuffer[i].time <= lastTimestampImu
        /\ \A i, j \in 1..L : i < j => imuBuffer[i].time <= imuBuffer[j].time
    BY <1>0 DEF ImuAscends
  <2> HIDE DEF e, k, L
  <2>6. \A i \in 1..(L - k) : k + i \in 1..L /\ k + i > k
    BY <2>1, <2>3
  <2>7. \A i \in 1..k : i \in 1..L /\ i <= k
    BY <2>1, <2>3
  <2>8. ImuAscends'
    <3>1. \A i \in 1..(L - k) : imuBuffer'[i].time <= lastTimestampImu
      BY <2>1, <2>5, <2>6
    <3>2. ASSUME NEW i \in 1..(L - k), NEW j \in 1..(L - k), i < j
          PROVE  imuBuffer'[i].time <= imuBuffer'[j].time
      <4>1. k + i < k + j
        BY <2>1, <2>3, <3>2
      <4>2. QED
        BY <2>1, <2>5, <2>6, <4>1
    <3>3. QED
      BY <2>1, <3>1, <3>2 DEF ImuAscends
  <2>9. ImuClock'
    BY <1>0, <2>1, <2>4 DEF ImuClock
  <2>10. \A i \in 1..k : measures'.imu[i].time <= e
    BY <2>1, <2>2, <2>7
  <2>11. \A i \in 1..(L - k) : e <= imuBuffer'[i].time
    BY <2>1, <2>2, <2>6
  <2>12. Split'
    BY <2>1, <2>4, <2>10, <2>11 DEF Split
  <2>13. QED
    BY <2>8, <2>9, <2>12
<1>4. ASSUME SetAside PROVE Goal
  <2>1. lidarPushed' = TRUE /\ UNCHANGED <<imuBuffer, lastTimestampImu, received>>
    BY <1>4, SetAsideFacts
  <2>2. QED
    BY <1>0, <2>1 DEF ImuAscends, ImuClock
<1>5. ASSUME UNCHANGED <<imuBuffer, lastTimestampImu, lidarPushed, measures, received>> PROVE Goal
  BY <1>0, <1>5 DEF ImuAscends, ImuClock, Split
<1>6. QED
  BY <1>1, <1>2, <1>3, <1>4, <1>5, StepKinds

\* Without the software time sync, which the deployed configurations turn off,
\* sync_packages splits the IMU data exactly at the end of each scan, for every
\* time offset between the sensors, every order in which their messages arrive
\* and every estimate of a scan's end.
THEOREM ImuIsSplitAtScanEnd ==
  ASSUME ~TimeSyncEn
  PROVE  Spec => []ImuSplitAtScanEnd
<1> DEFINE I == FrontType /\ SplitInv
<1>1. Init => I
  BY FrontInit, SplitInit
<1>2. I /\ [Next]_vars => I'
  BY FrontStep, SplitStep
<1>3. I => ImuSplitAtScanEnd
  <2> SUFFICES ASSUME FrontType, SplitInv, Monotone, ~lidarPushed, measures.lidar # NoScan
               PROVE  /\ \A i \in DOMAIN measures.imu : measures.imu[i].time <= measures.endTime
                      /\ \A i \in DOMAIN imuBuffer : measures.endTime <= imuBuffer[i].time
    BY DEF ImuSplitAtScanEnd
  <2>1. Split
    BY DEF SplitInv
  <2>2. imuBuffer \in Seq(Imu) /\ measures.imu \in Seq(Imu)
    BY DEF FrontType, MeasureGroup
  <2>3. DOMAIN measures.imu = 1..Len(measures.imu) /\ DOMAIN imuBuffer = 1..Len(imuBuffer)
    BY <2>2
  <2>4. QED
    BY <2>1, <2>3 DEF Split
<1> HIDE DEF I
<1>4. QED
  BY <1>1, <1>2, <1>3, PTL DEF Spec

-----------------------------------------------------------------------------
(* What the loop over the IMU messages adds up to, by induction over the     *)
(* stamps: there is no least one at which the claim fails.                    *)

\* A set of natural numbers that is not empty has a least element.
LEMMA Least ==
  ASSUME NEW S, S \subseteq Nat, S # {}
  PROVE  \E n \in S : \A m \in S : n <= m
<1> DEFINE R == OpToRel(<, Nat)
<1>1. IsWellFoundedOn(R, Nat)
  BY NatLessThanWellFounded
<1>2. PICK n \in S : \A m \in S : ~(<<m, n>> \in R)
  <2> HIDE DEF R
  <2> QED
    BY <1>1, WFMin
<1>3. \A m \in S : ~(m < n)
  BY <1>2 DEF OpToRel
<1>4. QED
  BY <1>3

\* The time added by the step to stamp v[i].
LEMMA StepType ==
  ASSUME lastLidarEndTime \in Int, NEW v \in Seq(Int), NEW i \in 2..Len(v)
  PROVE  v[i - 1] \in Int /\ v[i] \in Int /\ PropagationStep(v[i - 1], v[i]) \in Int
BY DEF PropagationStep

\* The recursion defines a function, however many stamps there are: otherwise
\* there is a least number of stamps for which it does not.
LEMMA PropagatedDef ==
  ASSUME NEW v \in Seq(Int)
  PROVE  Propagated(v) =
           [i \in 1..Len(v) |->
              IF i = 1 THEN 0 ELSE Propagated(v)[i - 1] + PropagationStep(v[i - 1], v[i])]
<1> DEFINE step(i) == PropagationStep(v[i - 1], v[i])
           Solves(f, n) == f = [i \in 1..n |-> IF i = 1 THEN 0 ELSE f[i - 1] + step(i)]
           Unsolved == {n \in Nat : ~\E f : Solves(f, n)}
<1>1. Len(v) \in Nat
  OBVIOUS
<1>2. ASSUME NEW n \in Nat, NEW f, Solves(f, n)
      PROVE  \E h : Solves(h, n + 1)
  <2> DEFINE h == [i \in 1..(n + 1) |->
                     IF i <= n THEN f[i] ELSE IF i = 1 THEN 0 ELSE f[n] + step(n + 1)]
  <2> HIDE DEF step
  <2>1. \A i \in 1..n : f[i] = IF i = 1 THEN 0 ELSE f[i - 1] + step(i)
    BY <1>2
  <2>2. ASSUME NEW i \in 1..(n + 1)
        PROVE  h[i] = IF i = 1 THEN 0 ELSE h[i - 1] + step(i)
    <3>1. CASE i \in 1..n
      <4>1. h[i] = f[i]
        BY <3>1
      <4>2. i # 1 => h[i - 1] = f[i - 1]
        BY <3>1
      <4>3. QED
        BY <4>1, <4>2, <2>1, <3>1
    <3>2. CASE i = n + 1 /\ n = 0
      BY <3>2
    <3>3. CASE i = n + 1 /\ n # 0
      <4>1. h[i] = f[n] + step(n + 1)
        BY <3>3
      <4>2. h[i - 1] = f[n]
        BY <3>3
      <4>3. QED
        BY <4>1, <4>2, <3>3
    <3>4. QED
      BY <3>1, <3>2, <3>3
  <2>3. h = [i \in 1..(n + 1) |-> IF i = 1 THEN 0 ELSE h[i - 1] + step(i)]
    BY <2>2
  <2>4. Solves(h, n + 1)
    BY <2>3
  <2>5. QED
    BY <2>4
<1>3. \E f : Solves(f, 0)
  <2> DEFINE f == [i \in 1..0 |-> 0]
  <2>1. Solves(f, 0)
    OBVIOUS
  <2>2. QED
    BY <2>1
<1> HIDE DEF Solves
<1>4. Unsolved = {}
  <2>1. SUFFICES ASSUME Unsolved # {} PROVE FALSE
    OBVIOUS
  <2>2. PICK n \in Unsolved : \A m \in Unsolved : n <= m
    BY <2>1, Least
  <2>3. n \in Nat \ {0}
    BY <1>3, <2>2
  <2>4. n - 1 \in Nat /\ n - 1 \notin Unsolved /\ (n - 1) + 1 = n
    BY <2>2, <2>3
  <2>5. PICK f : Solves(f, n - 1)
    BY <2>4
  <2>6. \E h : Solves(h, (n - 1) + 1)
    BY <1>2, <2>4, <2>5
  <2>7. QED
    BY <2>2, <2>4, <2>6
<1>5. PICK f : Solves(f, Len(v))
  BY <1>1, <1>4
<1>6. Propagated(v) = CHOOSE g : Solves(g, Len(v))
  BY Zenon DEF Propagated, Solves
<1>7. Solves(CHOOSE g : Solves(g, Len(v)), Len(v))
  BY <1>5, Zenon
<1>8. QED
  BY <1>6, <1>7, Zenon DEF Solves

\* One step of the recursion.
LEMMA PropagatedSteps ==
  ASSUME NEW v \in Seq(Int)
  PROVE  /\ Len(v) >= 1 => Propagated(v)[1] = 0
         /\ \A i \in 2..Len(v) :
              Propagated(v)[i] = Propagated(v)[i - 1] + PropagationStep(v[i - 1], v[i])
<1> DEFINE p == Propagated(v)
           step(i) == PropagationStep(v[i - 1], v[i])
<1>1. p = [i \in 1..Len(v) |-> IF i = 1 THEN 0 ELSE p[i - 1] + step(i)]
  BY PropagatedDef
<1> HIDE DEF p, step
<1>2. \A i \in 1..Len(v) : p[i] = IF i = 1 THEN 0 ELSE p[i - 1] + step(i)
  BY <1>1
<1>3. /\ Len(v) >= 1 => p[1] = 0
      /\ \A i \in 2..Len(v) : p[i] = p[i - 1] + step(i)
  BY <1>2
<1>4. QED
  BY <1>3 DEF p, step

\* It is a number.
LEMMA PropagatedType ==
  ASSUME lastLidarEndTime \in Int, NEW v \in Seq(Int), NEW k \in 1..Len(v)
  PROVE  Propagated(v)[k] \in Int
<1> DEFINE p == Propagated(v)
           Bad == {i \in 1..Len(v) : p[i] \notin Int}
<1> HIDE DEF p
<1>1. SUFFICES ASSUME Bad # {} PROVE FALSE
  BY DEF p
<1>2. Bad \subseteq Nat
  OBVIOUS
<1>3. PICK i \in Bad : \A m \in Bad : i <= m
  BY <1>1, <1>2, Least
<1>4. i \in 2..Len(v)
  BY <1>3, PropagatedSteps DEF p
<1>5. i - 1 \in 1..Len(v) /\ p[i - 1] \in Int
  BY <1>3, <1>4
<1>6. QED
  BY <1>3, <1>4, <1>5, PropagatedSteps, StepType DEF p

\* A time, cut off at the end of the last scan as UndistortPcl cuts it.
Later(t) == IF t < lastLidarEndTime THEN lastLidarEndTime ELSE t

\* Through ascending stamps the steps add up to the time between the first and
\* the last one, as far as it is after the end of the last scan.
LEMMA PropagatedSum ==
  ASSUME lastLidarEndTime \in Int, NEW v \in Seq(Int), NEW k \in 1..Len(v),
         \A i \in 2..Len(v) : v[i - 1] <= v[i]
  PROVE  Propagated(v)[k] = Later(v[k]) - Later(v[1])
<1> DEFINE p == Propagated(v)
           Bad == {i \in 1..Len(v) : p[i] # Later(v[i]) - Later(v[1])}
<1> HIDE DEF p
<1>1. SUFFICES ASSUME Bad # {} PROVE FALSE
  BY DEF p
<1>2. Bad \subseteq Nat
  OBVIOUS
<1>3. PICK i \in Bad : \A m \in Bad : i <= m
  BY <1>1, <1>2, Least
<1>4. \A j \in 1..Len(v) : v[j] \in Int /\ Later(v[j]) \in Int
  BY DEF Later
<1>5. i \in 2..Len(v)
  <2>1. 1 \in 1..Len(v)
    BY k \in 1..Len(v)
  <2>2. p[1] = Later(v[1]) - Later(v[1])
    BY <2>1, <1>4, PropagatedSteps DEF p
  <2>3. QED
    BY <1>3, <2>2
<1>6. i - 1 \in 1..Len(v) /\ p[i - 1] = Later(v[i - 1]) - Later(v[1])
  BY <1>3, <1>5
<1>7. PropagationStep(v[i - 1], v[i]) = Later(v[i]) - Later(v[i - 1])
  BY <1>4, <1>5, <1>6 DEF PropagationStep, Later
<1>8. p[i] = p[i - 1] + PropagationStep(v[i - 1], v[i])
  BY <1>5, PropagatedSteps DEF p
<1>9. p[i] = Later(v[i]) - Later(v[1])
  BY <1>4, <1>5, <1>6, <1>7, <1>8
<1>10. QED
  BY <1>3, <1>9

-----------------------------------------------------------------------------
(* Types of what ImuProcess and the rest of the timer callback use.           *)

Odometry == [stamp : Int, scan : Nat, state : Int]

\* The messages used to initialize the IMU have been received and left the
\* buffer, so they are counted once.
BackType ==
  /\ timediffSet \in BOOLEAN /\ flgFirstScan \in BOOLEAN
  /\ imuNeedInit \in BOOLEAN /\ mapBuilt \in BOOLEAN
  /\ initIterNum \in Nat \ {0} /\ received.imus <= MaxImus
  /\ initIterNum + Len(imuBuffer) <= received.imus + 1
  /\ lastImu \in Int /\ lastLidarEndTime \in Int /\ stateTime \in Int
  /\ featsUndistort \in Scan /\ odometry \in Odometry

\* The stamps UndistortPcl goes through: last_imu_ and the messages taken.
LEMMA StampsTaken ==
  ASSUME FrontType, Grouped, lastImu \in Int, measures'.imu # <<>>
  PROVE  LET v == ImuStamps(measures')
             k == ImuTaken(Pushed.endTime)
         IN  /\ k \in 1..Len(imuBuffer) /\ k = Len(measures'.imu)
             /\ v \in Seq(Int) /\ Len(v) = k + 1 /\ v[1] = lastImu
             /\ \A i \in 2..(k + 1) : v[i] = imuBuffer[i - 1].time
             /\ measures'.imu[k] = imuBuffer[k] /\ imuBuffer[k].time \in Int
<1> DEFINE v == ImuStamps(measures')
           k == ImuTaken(Pushed.endTime)
           t == [i \in DOMAIN measures'.imu |-> measures'.imu[i].time]
<1>1. /\ k \in 0..Len(imuBuffer) /\ measures'.imu \in Seq(Imu) /\ Len(measures'.imu) = k
      /\ \A i \in 1..k : measures'.imu[i] = imuBuffer[i]
  BY GroupedFacts
<1> HIDE DEF k
<1>2. Len(imuBuffer) \in Nat /\ k \in Nat
  BY <1>1 DEF FrontType
<1>3. k # 0
  BY <1>1
<1>4. \A i \in 1..k : measures'.imu[i].time \in Int /\ measures'.imu[i].time = imuBuffer[i].time
  <2>1. \A i \in 1..k : measures'.imu[i] \in Imu
    BY <1>1
  <2>2. QED
    BY <2>1, <1>1 DEF Imu
<1>5. DOMAIN measures'.imu = 1..k
  BY <1>1
<1>6. t \in Seq(Int) /\ Len(t) = k /\ \A i \in 1..k : t[i] = imuBuffer[i].time
  <2>1. t = [i \in 1..k |-> measures'.imu[i].time]
    BY <1>5
  <2>2. t \in [1..k -> Int]
    BY <2>1, <1>4
  <2>3. QED
    BY <2>1, <2>2, <1>2, <1>4
<1>7. v = <<lastImu>> \o t
  BY DEF ImuStamps
<1> HIDE DEF t, v
<1>8. /\ v \in Seq(Int) /\ Len(v) = k + 1 /\ v[1] = lastImu
      /\ \A i \in 2..(k + 1) : v[i] = t[i - 1]
  <2>1. <<lastImu>> \in Seq(Int) /\ Len(<<lastImu>>) = 1 /\ <<lastImu>>[1] = lastImu
    OBVIOUS
  <2>2. v \in Seq(Int) /\ Len(v) = 1 + k
    BY <1>6, <1>7, <2>1, ConcatProperties
  <2>3. \A i \in 1..(1 + k) : v[i] = IF i <= 1 THEN <<lastImu>>[i] ELSE t[i - 1]
    BY <1>6, <1>7, <2>1, ConcatProperties
  <2>4. QED
    BY <1>2, <2>1, <2>2, <2>3
<1>9. \A i \in 2..(k + 1) : v[i] = imuBuffer[i - 1].time
  BY <1>2, <1>6, <1>8
<1>10. QED
  BY <1>1, <1>2, <1>3, <1>4, <1>8, <1>9 DEF v, k

\* The time added is a number, whatever the stamps are.
LEMMA PropagationType ==
  ASSUME FrontType, BackType, Grouped, measures'.imu # <<>>
  PROVE  Propagation(measures') \in Int
<1> DEFINE v == ImuStamps(measures')
<1>1. v \in Seq(Int) /\ Len(v) \in 1..Len(v)
  BY StampsTaken DEF BackType
<1>2. measures'.endTime \in Int
  BY GroupedFacts DEF MeasureGroup
<1>3. lastLidarEndTime \in Int
  BY DEF BackType
<1> HIDE DEF v
<1>4. Propagated(v)[Len(v)] \in Int
  BY <1>1, <1>3, PropagatedType
<1>5. v[Len(v)] \in Int
  BY <1>1
<1>6. Distance(measures'.endTime, v[Len(v)]) \in Int
  BY <1>2, <1>5 DEF Distance
<1>7. QED
  BY <1>4, <1>6 DEF Propagation, v

LEMMA BackInit == Init => BackType
<1> SUFFICES ASSUME Init PROVE BackType
  OBVIOUS
<1>1. MaxImus \in Nat /\ Uninitialized \subseteq Int
  BY FastLioAssumption
<1>2. NoScan \in Scan
  BY DEF NoScan, Scan, Cloud
<1>3. odometry \in Odometry
  BY DEF Init, Odometry
<1>4. received.imus = 0 /\ Len(imuBuffer) = 0
  BY DEF Init
<1>5. /\ initIterNum = 1 /\ lastImu = 0 /\ lastLidarEndTime \in Int /\ stateTime = -1
      /\ featsUndistort = NoScan
  BY <1>1 DEF Init
<1>b. /\ timediffSet \in BOOLEAN /\ flgFirstScan \in BOOLEAN
      /\ imuNeedInit \in BOOLEAN /\ mapBuilt \in BOOLEAN
  BY DEF Init
<1>6. initIterNum + Len(imuBuffer) <= received.imus + 1 /\ received.imus <= MaxImus
  BY <1>1, <1>4, <1>5
<1>7. QED
  BY <1>2, <1>3, <1>5, <1>b, <1>6 DEF BackType

\* What the end of the timer callback leaves.
LEMMA RegisterType ==
  ASSUME NEW scan \in Scan, Register(scan), mapBuilt \in BOOLEAN, odometry \in Odometry,
         measures' \in MeasureGroup, stateTime' \in Int
  PROVE  mapBuilt' \in BOOLEAN /\ odometry' \in Odometry
<1>1. measures'.endTime \in Int /\ scan.id \in Nat
  BY DEF MeasureGroup, Scan
<1>2. odometry' \in Odometry
  BY <1>1 DEF Register, Odometry
<1>3. mapBuilt' \in BOOLEAN
  BY DEF Register
<1>4. QED
  BY <1>2, <1>3

LEMMA BackStep == FrontType /\ BackType /\ [Next]_vars => BackType'
<1> SUFFICES ASSUME FrontType, BackType, [Next]_vars PROVE BackType'
  OBVIOUS
<1>0. imuBuffer \in Seq(Imu) /\ Len(imuBuffer) \in Nat /\ received.imus \in Nat /\ MaxImus \in Nat
  BY FastLioAssumption DEF FrontType
<1>1. ASSUME NEW time \in Int, NEW cloud \in Clouds, LidarCallback(time, cloud) PROVE BackType'
  <2>1. imuBuffer' = imuBuffer /\ received'.imus = received.imus
    BY <1>1, LidarFacts
  <2>2. /\ timediffSet' \in BOOLEAN
        /\ UNCHANGED <<flgFirstScan, imuNeedInit, initIterNum, lastImu, lastLidarEndTime,
                       featsUndistort, stateTime, mapBuilt, odometry>>
    BY <1>1 DEF LidarCallback, imuProcess, estimator, BackType
  <2>3. QED
    BY <2>1, <2>2 DEF BackType
<1>2. ASSUME NEW raw \in Int, ImuCallback(raw) PROVE BackType'
  <2>1. PICK msg \in Imu, rest \in {imuBuffer, <<>>} :
          imuBuffer' = Append(rest, msg) /\ received'.imus = received.imus + 1
    BY <1>2, ImuFacts
  <2>2. Len(imuBuffer') <= Len(imuBuffer) + 1 /\ Len(imuBuffer') \in Nat
    <3>1. CASE rest = imuBuffer
      BY <1>0, <2>1, <3>1
    <3>2. CASE rest = <<>>
      <4>1. imuBuffer' = <<msg>>
        BY <2>1, <3>2
      <4>2. QED
        BY <1>0, <4>1
    <3>3. QED
      BY <3>1, <3>2
  <2>3. received.imus < MaxImus
    BY <1>2 DEF ImuCallback
  <2>4. UNCHANGED <<timediffSet, flgFirstScan, imuNeedInit, initIterNum, lastImu, lastLidarEndTime,
                    featsUndistort, stateTime, mapBuilt, odometry>>
    BY <1>2 DEF ImuCallback, sync, imuProcess, estimator
  <2>5. initIterNum' + Len(imuBuffer') <= received'.imus + 1 /\ received'.imus <= MaxImus
    BY <1>0, <2>1, <2>2, <2>3, <2>4 DEF BackType
  <2>6. QED
    BY <2>4, <2>5 DEF BackType
<1>3. ASSUME PushScan PROVE BackType'
  BY <1>3 DEF PushScan, buffers, sync, imuProcess, estimator, BackType
<1>4. ASSUME Grouped, TimerCallback PROVE BackType'
  <2> DEFINE k == ImuTaken(Pushed.endTime)
  <2>1. /\ k \in 0..Len(imuBuffer) /\ Len(imuBuffer') = Len(imuBuffer) - k
        /\ received' = received /\ measures' \in MeasureGroup /\ measures'.lidar \in Scan
    BY <1>4, GroupedFacts DEF MeasureGroup
  <2>2. timediffSet' = timediffSet
    BY <1>4 DEF Grouped, TakeGroup, sync
  <2>3. measures'.imu # <<>> => /\ k >= 1 /\ k = Len(measures'.imu)
                                /\ measures'.imu[Len(measures'.imu)].time \in Int
    BY <1>4, StampsTaken DEF BackType
  <2> HIDE DEF k
  <2>4. CASE DiscardFirstScan
    <3>1. /\ flgFirstScan' = FALSE
          /\ UNCHANGED <<imuNeedInit, initIterNum, lastImu, lastLidarEndTime,
                         featsUndistort, stateTime, mapBuilt, odometry>>
      BY <2>4 DEF DiscardFirstScan, imuProcess, estimator
    <3>2. initIterNum' + Len(imuBuffer') <= received'.imus + 1
      BY <1>0, <2>1, <3>1 DEF BackType
    <3>3. QED
      BY <2>1, <2>2, <3>1, <3>2 DEF BackType
  <2>5. CASE ProcessWithoutImu
    <3>1. UNCHANGED <<flgFirstScan, imuNeedInit, initIterNum, lastImu, lastLidarEndTime,
                      featsUndistort, stateTime>>
      BY <2>5 DEF ProcessWithoutImu, imuProcess
    <3>2. mapBuilt' \in BOOLEAN /\ odometry' \in Odometry
      BY <2>1, <2>5, <3>1, RegisterType DEF ProcessWithoutImu, BackType
    <3>3. initIterNum' + Len(imuBuffer') <= received'.imus + 1
      BY <1>0, <2>1, <3>1 DEF BackType
    <3>4. QED
      BY <2>1, <2>2, <3>1, <3>2, <3>3 DEF BackType
  <2>6. CASE ProcessImuInit
    <3>1. /\ UNCHANGED <<flgFirstScan, lastLidarEndTime, featsUndistort>>
          /\ initIterNum' = initIterNum + k /\ lastImu' \in Int /\ stateTime' = lastImu'
          /\ imuNeedInit' \in BOOLEAN
      BY <2>3, <2>6 DEF ProcessImuInit
    <3>2. mapBuilt' \in BOOLEAN /\ odometry' \in Odometry
      BY <2>1, <2>6, <3>1, RegisterType DEF ProcessImuInit, BackType
    <3>3. initIterNum' + Len(imuBuffer') <= received'.imus + 1 /\ initIterNum' \in Nat \ {0}
      BY <1>0, <2>1, <3>1 DEF BackType
    <3>4. QED
      BY <2>1, <2>2, <3>1, <3>2, <3>3 DEF BackType
  <2>7. CASE ProcessUndistort
    <3>1. /\ UNCHANGED <<flgFirstScan, imuNeedInit, initIterNum>>
          /\ lastImu' \in Int /\ lastLidarEndTime' = measures'.endTime
          /\ featsUndistort' = measures'.lidar /\ measures'.imu # <<>>
          /\ stateTime' = stateTime + Propagation(measures')
      BY <2>3, <2>7 DEF ProcessUndistort
    <3>2. lastLidarEndTime' \in Int /\ featsUndistort' \in Scan
      BY <2>1, <3>1 DEF MeasureGroup
    <3>3. stateTime' \in Int
      BY <1>4, <3>1, PropagationType DEF BackType
    <3>4. mapBuilt' \in BOOLEAN /\ odometry' \in Odometry
      BY <2>1, <2>7, <3>3, RegisterType DEF ProcessUndistort, BackType
    <3>5. initIterNum' + Len(imuBuffer') <= received'.imus + 1
      BY <1>0, <2>1, <3>1 DEF BackType
    <3>6. QED
      BY <2>1, <2>2, <3>1, <3>2, <3>3, <3>4, <3>5 DEF BackType
  <2>8. CASE PushScan
    BY <1>3, <2>8
  <2>9. QED
    BY <1>4, <2>4, <2>5, <2>6, <2>7, <2>8 DEF TimerCallback
<1>5. ASSUME UNCHANGED vars PROVE BackType'
  BY <1>5 DEF vars, buffers, sync, imuProcess, estimator, BackType
<1>6. TimerCallback => BackType'
  BY <1>3, <1>4, TimerKinds DEF SetAside
<1>7. QED
  BY <1>1, <1>2, <1>5, <1>6 DEF Next

\* The type invariant of laser_mapping's front end, for all clouds, clocks and
\* bounds: among the types, that the IMU is initialized from messages counted
\* once, and that the time the state stands for stays a number.
THEOREM TypeCorrect == Spec => []TypeOK
<1> DEFINE I == FrontType /\ BackType
<1>1. Init => I
  BY FrontInit, BackInit
<1>2. I /\ [Next]_vars => I'
  BY FrontStep, BackStep
<1>3. I => TypeOK
  <2> SUFFICES ASSUME FrontType, BackType PROVE TypeOK
    OBVIOUS
  <2>1. initIterNum \in 1..(MaxImus + 1)
    <3>1. imuBuffer \in Seq(Imu) /\ received.imus \in Nat /\ MaxImus \in Nat
      BY FastLioAssumption DEF FrontType
    <3>2. Len(imuBuffer) \in Nat
      BY <3>1
    <3>3. QED
      BY <3>1, <3>2 DEF BackType
  <2>2. QED
    BY <2>1 DEF FrontType, BackType, Odometry, TypeOK
<1> HIDE DEF I
<1>4. QED
  BY <1>1, <1>2, <1>3, PTL DEF Spec

-----------------------------------------------------------------------------
(* The state stands for the end of the last scan.                             *)

\* What last_lidar_end_time_ happens to hold at first is not later than any IMU
\* message: zero is not, when the stamps are seconds since 1970.
StartsBeforeImu ==
  \A u \in Uninitialized, raw \in 1..MaxTime : u <= raw - TimeDiffLidarToImu

\* Once the IMU is initialized the state stands for the later one of last_imu_
\* and the end of the last scan, and no IMU message still to come is earlier.
Propagates ==
  /\ stateTime = Later(lastImu)
  /\ received.imus > 0 /\ stateTime <= lastTimestampImu
  /\ \A i \in 1..Len(imuBuffer) : stateTime <= imuBuffer[i].time

PropagationInv ==
  Monotone =>
    /\ \A u \in Uninitialized, i \in 1..Len(imuBuffer) : u <= imuBuffer[i].time
    /\ imuNeedInit => lastLidarEndTime \in Uninitialized
    /\ ~imuNeedInit => Propagates
    /\ featsUndistort # NoScan => ~imuNeedInit /\ lastImu <= lastLidarEndTime

\* Through the messages of a group the state is propagated to the group's end:
\* the steps add up to the time from where the state stood to the last message.
LEMMA PropagatedToEnd ==
  ASSUME FrontType, BackType, Grouped, measures'.imu # <<>>, ImuAscends, Propagates
  PROVE  stateTime + Propagation(measures') = measures'.endTime
<1> DEFINE v == ImuStamps(measures')
           k == ImuTaken(Pushed.endTime)
           end == measures'.endTime
<1>1. /\ k \in 1..Len(imuBuffer) /\ v \in Seq(Int) /\ Len(v) = k + 1 /\ v[1] = lastImu
      /\ \A i \in 2..(k + 1) : v[i] = imuBuffer[i - 1].time
      /\ imuBuffer[k].time \in Int
  BY StampsTaken DEF BackType
<1>2. end = Pushed.endTime /\ end \in Int
  BY GroupedFacts
<1>3. imuBuffer[k].time <= end
  BY <1>1, <1>2, TakenSplits
<1> HIDE DEF v, k, end
<1>4. lastLidarEndTime \in Int /\ lastImu \in Int /\ stateTime \in Int /\ Len(imuBuffer) \in Nat
  BY DEF BackType, FrontType
<1>5. lastImu <= stateTime /\ lastLidarEndTime <= stateTime /\ stateTime = Later(lastImu)
  BY <1>4 DEF Propagates, Later
<1>6. \A i \in 2..Len(v) : v[i - 1] <= v[i]
  <2> SUFFICES ASSUME NEW i \in 2..(k + 1) PROVE v[i - 1] <= v[i]
    BY <1>1
  <2>1. v[i] = imuBuffer[i - 1].time /\ i - 1 \in 1..Len(imuBuffer) /\ v[i] \in Int
    BY <1>1, <1>4
  <2>2. CASE i = 2
    BY <1>1, <1>4, <1>5, <2>1, <2>2 DEF Propagates
  <2>3. CASE i # 2
    <3>1. v[i - 1] = imuBuffer[i - 2].time /\ i - 2 \in 1..Len(imuBuffer)
      <4>1. PICK j \in 2..(k + 1) : j = i - 1
        BY <1>1, <2>3
      <4>2. v[j] = imuBuffer[j - 1].time
        BY <1>1
      <4>3. j - 1 = i - 2 /\ i - 2 \in 1..Len(imuBuffer)
        BY <1>1, <1>4, <2>3, <4>1
      <4>4. QED
        BY <4>1, <4>2, <4>3
    <3>2. QED
      BY <2>1, <3>1 DEF ImuAscends
  <2>4. QED
    BY <2>2, <2>3
<1>7. Propagated(v)[k + 1] = Later(v[k + 1]) - Later(v[1])
  <2>1. k + 1 \in 1..Len(v)
    BY <1>1
  <2>2. QED
    BY <1>1, <1>4, <1>6, <2>1, PropagatedSum
<1>8. v[k + 1] = imuBuffer[k].time
  BY <1>1
<1>9. stateTime <= imuBuffer[k].time
  BY <1>1 DEF Propagates
<1>10. Later(v[k + 1]) = imuBuffer[k].time
  BY <1>1, <1>4, <1>5, <1>8, <1>9 DEF Later
<1>11. Distance(end, v[k + 1]) = end - imuBuffer[k].time
  BY <1>1, <1>2, <1>3, <1>8 DEF Distance
<1>12. Propagation(measures') = (imuBuffer[k].time - stateTime) + (end - imuBuffer[k].time)
  BY <1>1, <1>5, <1>7, <1>10, <1>11 DEF Propagation, v, end
<1>13. QED
  BY <1>1, <1>2, <1>4, <1>12 DEF end

LEMMA PropagationInit == Init => PropagationInv
<1> SUFFICES ASSUME Init PROVE PropagationInv
  OBVIOUS
<1>1. /\ Len(imuBuffer) = 0 /\ imuNeedInit /\ lastLidarEndTime \in Uninitialized
      /\ featsUndistort = NoScan
  BY DEF Init
<1>2. QED
  BY <1>1 DEF PropagationInv

LEMMA PropagationStepKept ==
  ASSUME FrontType, BackType, ~TimeSyncEn, StartsBeforeImu, SplitInv, PropagationInv, [Next]_vars
  PROVE  PropagationInv'
<1> SUFFICES ASSUME Monotone' PROVE PropagationInv'
  BY DEF PropagationInv
<1>0. Monotone /\ ImuAscends /\ ImuClock /\ received'.loopBacks = received.loopBacks
  BY MonotoneBefore DEF SplitInv
<1>i. /\ \A u \in Uninitialized, i \in 1..Len(imuBuffer) : u <= imuBuffer[i].time
      /\ imuNeedInit => lastLidarEndTime \in Uninitialized
      /\ ~imuNeedInit => Propagates
      /\ featsUndistort # NoScan => ~imuNeedInit /\ lastImu <= lastLidarEndTime
  BY <1>0 DEF PropagationInv
<1>n. /\ imuBuffer \in Seq(Imu) /\ Len(imuBuffer) \in Nat /\ received.imus \in Nat
      /\ lastTimestampImu \in Int /\ received.rawImu \in Int /\ stateTime \in Int
      /\ TimeDiffLidarToImu \in Int /\ Uninitialized \subseteq Int /\ ImuPeriod \in Nat
      /\ lastImu \in Int /\ lastLidarEndTime \in Int
  BY FastLioAssumption DEF FrontType, BackType
<1>m. \A i \in 1..Len(imuBuffer) : imuBuffer[i].time \in Int
  <2>1. \A i \in 1..Len(imuBuffer) : imuBuffer[i] \in Imu
    BY <1>n
  <2>2. QED
    BY <2>1 DEF Imu
<1> DEFINE Idle == UNCHANGED <<imuNeedInit, lastImu, lastLidarEndTime, featsUndistort, stateTime>>
<1>1. ASSUME Idle, UNCHANGED <<imuBuffer, lastTimestampImu>>, received'.imus = received.imus
      PROVE  PropagationInv'
  BY <1>1, <1>i DEF PropagationInv, Propagates, Later
<1>2. ASSUME NEW time \in Int, NEW cloud \in Clouds, LidarCallback(time, cloud)
      PROVE  PropagationInv'
  <2>1. Idle
    BY <1>2 DEF LidarCallback, imuProcess, estimator
  <2>2. UNCHANGED <<imuBuffer, lastTimestampImu>> /\ received'.imus = received.imus
    BY <1>2, LidarFacts
  <2>3. QED
    BY <1>1, <2>1, <2>2
<1>3. ASSUME NEW raw \in 1..MaxTime, ImuCallback(raw) PROVE PropagationInv'
  <2>0. raw \in Int
    BY FastLioAssumption
  <2>1. PICK msg \in Imu, rest \in {imuBuffer, <<>>} :
          /\ imuBuffer' = Append(rest, msg) /\ lastTimestampImu' = msg.time
          /\ msg.time = raw - TimeDiffLidarToImu
          /\ received'.imus = received.imus + 1 /\ raw >= received.rawImu + ImuPeriod
    BY <1>0, <1>3, <2>0, ImuFacts
  <2>2. Idle
    BY <1>3 DEF ImuCallback, imuProcess, estimator
  <2>3. ASSUME NEW i \in 1..Len(imuBuffer')
        PROVE  imuBuffer'[i] = msg \/ (i \in 1..Len(imuBuffer) /\ imuBuffer'[i] = imuBuffer[i])
    <3>1. CASE rest = imuBuffer
      <4>1. /\ Len(imuBuffer') = Len(imuBuffer) + 1 /\ imuBuffer'[Len(imuBuffer) + 1] = msg
            /\ \A j \in 1..Len(imuBuffer) : imuBuffer'[j] = imuBuffer[j]
        BY <1>n, <2>1, <3>1, AppendFacts
      <4>2. QED
        BY <1>n, <2>3, <4>1
    <3>2. CASE rest = <<>>
      <4>1. imuBuffer' = <<msg>>
        BY <2>1, <3>2
      <4>2. i = 1
        BY <2>3, <4>1
      <4>3. QED
        BY <4>1, <4>2
    <3>3. QED
      BY <3>1, <3>2
  <2>4. \A u \in Uninitialized : u <= msg.time
    BY <1>3, <2>1 DEF StartsBeforeImu
  <2>5. ASSUME Propagates PROVE Propagates'
    <3>1. stateTime <= msg.time
      BY <1>0, <1>n, <2>0, <2>1, <2>5 DEF ImuClock, Propagates
    <3>2. \A i \in 1..Len(imuBuffer') : stateTime <= imuBuffer'[i].time
      BY <2>3, <2>5, <3>1 DEF Propagates
    <3>3. received'.imus > 0
      BY <1>n, <2>1
    <3>4. QED
      BY <2>1, <2>2, <2>5, <3>1, <3>2, <3>3 DEF Propagates, Later
  <2>6. \A u \in Uninitialized, i \in 1..Len(imuBuffer') : u <= imuBuffer'[i].time
    BY <1>i, <2>3, <2>4
  <2>7. QED
    BY <1>i, <2>2, <2>5, <2>6 DEF PropagationInv
<1>4. ASSUME Grouped, TimerCallback PROVE PropagationInv'
  <2> DEFINE k == ImuTaken(Pushed.endTime)
             end == measures'.endTime
  <2>1. /\ k \in 0..Len(imuBuffer) /\ end \in Int
        /\ Len(imuBuffer') = Len(imuBuffer) - k
        /\ \A i \in 1..(Len(imuBuffer) - k) : imuBuffer'[i] = imuBuffer[k + i]
        /\ UNCHANGED <<lastTimestampImu, received>>
    BY <1>4, GroupedFacts
  <2>2. \A i \in 1..Len(imuBuffer) : i > k => end <= imuBuffer[i].time
    BY <1>0, <1>4, GroupedFacts, TakenSplits
  <2>3. end <= lastTimestampImu
    BY <1>4, <1>n, <2>1, GroupedFacts DEF ImuCovers
  <2>4. measures'.imu # <<>> =>
          /\ k \in 1..Len(imuBuffer)
          /\ measures'.imu[Len(measures'.imu)].time = imuBuffer[k].time
    BY <1>4, StampsTaken DEF BackType
  <2>5. k \in 1..Len(imuBuffer) => imuBuffer[k].time <= end
    BY <1>0, <1>4, GroupedFacts, TakenSplits
  <2>6. measures'.imu # <<>> /\ Propagates => stateTime + Propagation(measures') = end
    BY <1>0, <1>4, PropagatedToEnd
  <2> HIDE DEF k, end
  <2>7. \A i \in 1..Len(imuBuffer') : /\ k + i \in 1..Len(imuBuffer) /\ k + i > k
                                       /\ imuBuffer'[i] = imuBuffer[k + i]
    BY <1>n, <2>1
  <2>8. \A u \in Uninitialized, i \in 1..Len(imuBuffer') : u <= imuBuffer'[i].time
    BY <1>i, <2>7
  <2>9. CASE Idle
    BY <1>i, <2>1, <2>7, <2>8, <2>9 DEF PropagationInv, Propagates, Later
  <2>10. CASE ProcessImuInit
    <3>1. /\ imuNeedInit /\ lastImu' = imuBuffer[k].time /\ stateTime' = lastImu'
          /\ UNCHANGED <<lastLidarEndTime, featsUndistort>> /\ k \in 1..Len(imuBuffer)
      BY <2>4, <2>10 DEF ProcessImuInit
    <3>2. lastLidarEndTime \in Uninitialized /\ featsUndistort = NoScan
      BY <1>i, <3>1
    <3>3. stateTime' = Later(lastImu)'
      BY <1>i, <1>m, <1>n, <3>1, <3>2 DEF Later
    <3>4. stateTime' <= lastTimestampImu' /\ received'.imus > 0
      <4>1. imuBuffer[k].time <= lastTimestampImu
        BY <1>0, <3>1 DEF ImuAscends
      <4>2. imuBuffer # <<>>
        BY <1>n, <3>1
      <4>3. QED
        BY <1>0, <2>1, <3>1, <4>1, <4>2 DEF ImuClock
    <3>5. \A i \in 1..Len(imuBuffer') : stateTime' <= imuBuffer'[i].time
      BY <1>0, <2>7, <3>1 DEF ImuAscends
    <3>6. QED
      BY <2>8, <3>1, <3>2, <3>3, <3>4, <3>5 DEF PropagationInv, Propagates
  <2>11. CASE ProcessUndistort
    <3>1. /\ ~imuNeedInit /\ lastImu' = imuBuffer[k].time /\ k \in 1..Len(imuBuffer)
          /\ stateTime' = stateTime + Propagation(measures') /\ lastLidarEndTime' = end
          /\ imuNeedInit' = imuNeedInit /\ measures'.imu # <<>>
      BY <2>4, <2>11 DEF ProcessUndistort, end
    <3>2. stateTime' = end
      BY <1>i, <2>6, <3>1
    <3>3. lastImu' <= lastLidarEndTime'
      BY <2>5, <3>1
    <3>4. stateTime' = Later(lastImu)'
      BY <1>m, <2>1, <3>1, <3>2, <3>3 DEF Later
    <3>5. \A i \in 1..Len(imuBuffer') : stateTime' <= imuBuffer'[i].time
      BY <2>2, <2>7, <3>2
    <3>6. received'.imus > 0
      BY <1>i, <2>1, <3>1 DEF Propagates
    <3>7. Propagates'
      BY <2>1, <2>3, <3>2, <3>4, <3>5, <3>6 DEF Propagates
    <3>8. QED
      BY <2>8, <3>1, <3>3, <3>7 DEF PropagationInv
  <2>12. DiscardFirstScan => Idle
    BY DEF DiscardFirstScan, imuProcess, estimator
  <2>13. ProcessWithoutImu => Idle
    BY DEF ProcessWithoutImu, imuProcess
  <2>14. PushScan => Idle
    BY DEF PushScan, imuProcess, estimator
  <2>15. QED
    BY <1>4, <2>9, <2>10, <2>11, <2>12, <2>13, <2>14 DEF TimerCallback
<1>5. ASSUME PushScan PROVE PropagationInv'
  <2>1. Idle /\ UNCHANGED <<imuBuffer, lastTimestampImu, received>>
    BY <1>5 DEF PushScan, buffers, stamps, imuProcess, estimator
  <2>2. QED
    BY <1>1, <2>1
<1>6. ASSUME UNCHANGED vars PROVE PropagationInv'
  <2>1. Idle /\ UNCHANGED <<imuBuffer, lastTimestampImu, received>>
    BY <1>6 DEF vars, buffers, stamps, imuProcess, estimator
  <2>2. QED
    BY <1>1, <2>1
<1>7. TimerCallback => PropagationInv'
  BY <1>4, <1>5, TimerKinds DEF SetAside
<1>8. \A time \in 1..MaxTime : time \in Int
  BY FastLioAssumption
<1>9. QED
  BY <1>2, <1>3, <1>6, <1>7, <1>8 DEF Next

\* Without the software time sync, and if last_lidar_end_time_ starts out no later
\* than the IMU data, the state is propagated without gap or overlap for groups
\* of any size: after every scan processed it stands for the end of that scan,
\* however the IMU messages fall around the ends of the scans and whatever
\* groups without IMU data lie between (UndistortPcl).
THEOREM StateIsAtScanEnd ==
  ASSUME ~TimeSyncEn, StartsBeforeImu
  PROVE  Spec => []PropagatedToScanEnd
<1> DEFINE I == FrontType /\ BackType /\ SplitInv /\ PropagationInv
<1>1. Init => I
  BY FrontInit, BackInit, SplitInit, PropagationInit
<1>2. I /\ [Next]_vars => I'
  BY FrontStep, BackStep, SplitStep, PropagationStepKept
<1>3. I => PropagatedToScanEnd
  <2> SUFFICES ASSUME BackType, PropagationInv, Monotone, featsUndistort # NoScan
               PROVE  stateTime = lastLidarEndTime
    BY DEF PropagatedToScanEnd
  <2>1. stateTime = Later(lastImu) /\ lastImu <= lastLidarEndTime
    BY DEF PropagationInv, Propagates
  <2>2. lastImu \in Int /\ lastLidarEndTime \in Int
    BY DEF BackType
  <2>3. QED
    BY <2>1, <2>2 DEF Later
<1> HIDE DEF I
<1>4. QED
  BY <1>1, <1>2, <1>3, PTL DEF Spec
=============================================================================
