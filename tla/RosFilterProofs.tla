--------------------------- MODULE RosFilterProofs ---------------------------
(***************************************************************************)
(* Theorems about RosFilter, for every set of topics, every configuration  *)
(* and every bound.                                                        *)
(***************************************************************************)
EXTENDS RosFilter, TLAPS, SequenceTheorems, FiniteSetTheorems, WellFoundedInduction

-----------------------------------------------------------------------------
\* Sequences.

\* Popping entries from either end of a history leaves entries of the history.
LEMMA SubSeqType ==
  ASSUME NEW S, NEW s \in Seq(S), NEW a \in 1..(Len(s) + 1), NEW b \in 0..Len(s)
  PROVE  /\ SubSeq(s, a, b) \in Seq(S)
         /\ \A i \in DOMAIN SubSeq(s, a, b) :
              \E j \in DOMAIN s : SubSeq(s, a, b)[i] = s[j]
<1>1. Len(s) \in Nat /\ DOMAIN s = 1..Len(s)
  BY LenProperties
<1>2. a \in Int /\ b \in Int
  BY <1>1
<1>3. \A i \in a..b : s[i] \in S
  BY <1>1, ElementOfSeq
<1>4. /\ SubSeq(s, a, b) \in Seq(S)
      /\ Len(SubSeq(s, a, b)) = IF a <= b THEN b - a + 1 ELSE 0
      /\ \A i \in 1..(b - a + 1) : SubSeq(s, a, b)[i] = s[a + i - 1]
  BY <1>2, <1>3, SubSeqProperties
<1>5. DOMAIN SubSeq(s, a, b) = 1..Len(SubSeq(s, a, b))
  BY <1>4, LenProperties
<1>6. ASSUME NEW i \in DOMAIN SubSeq(s, a, b)
      PROVE  \E j \in DOMAIN s : SubSeq(s, a, b)[i] = s[j]
  <2>1. i \in 1..(b - a + 1) /\ a + i - 1 \in DOMAIN s
    BY <1>1, <1>2, <1>4, <1>5
  <2>2. QED
    BY <1>4, <2>1
<1>7. QED
  BY <1>4, <1>6

\* Appending an entry adds that entry and nothing else.
LEMMA AppendType ==
  ASSUME NEW S, NEW s \in Seq(S), NEW e \in S
  PROVE  /\ Append(s, e) \in Seq(S)
         /\ \A i \in DOMAIN Append(s, e) :
              Append(s, e)[i] = e \/ \E j \in DOMAIN s : Append(s, e)[i] = s[j]
<1>1. Len(s) \in Nat /\ DOMAIN s = 1..Len(s)
  BY LenProperties
<1>2. /\ Append(s, e) \in Seq(S)
      /\ Len(Append(s, e)) = Len(s) + 1
      /\ \A i \in 1..Len(s) : Append(s, e)[i] = s[i]
      /\ Append(s, e)[Len(s) + 1] = e
  BY AppendProperties
<1>3. DOMAIN Append(s, e) = 1..(Len(s) + 1)
  BY <1>2, LenProperties
<1>4. QED
  BY <1>1, <1>2, <1>3

\* The number of measurements put back by revertTo is a natural number.
LEMMA RestoredCountType ==
  ASSUME TypeOK, NEW target, NEW k \in 0..Len(measurementHistory)
  PROVE  Cardinality(Restored(target, k)) \in Nat
<1> DEFINE I == (k + 1)..Len(measurementHistory)
           P == {measurementHistory[i] : i \in I}
<1>1. Len(measurementHistory) \in Nat
  BY LenProperties DEF TypeOK
<1>2. IsFiniteSet(I)
  BY <1>1, FS_Interval
<1>3. IsFiniteSet(P)
  <2>1. [i \in I |-> measurementHistory[i]] \in Surjection(I, P)
    BY DEF Surjection
  <2>2. QED
    BY <1>2, <2>1, FS_Surjection
<1>4. Restored(target, k) \subseteq P
  BY DEF Restored
<1>5. QED
  BY <1>3, <1>4, FS_Subset, FS_CardinalityType

-----------------------------------------------------------------------------
\* Type correctness.

\* revertTo keeps the types of what it changes.
LEMMA RevertToType ==
  ASSUME TypeOK, NEW t \in Int, RevertTo(t)
  PROVE  /\ filter' \in Filter
         /\ measurementQueue' \in SUBSET Measurement
         /\ stateHistory' \in Seq(FilterState)
         /\ measurementHistory' \in Seq(Measurement)
         /\ restoredCount' \in Nat
         /\ revertedShort' \in BOOLEAN
<1>1. CASE stateHistory = <<>>
  BY <1>1 DEF RevertTo, TypeOK, histories
<1>2. CASE stateHistory # <<>>
  <2>1. PICK k \in 0..Len(stateHistory), j \in 0..Len(measurementHistory) :
          /\ filter' = [filter EXCEPT !.estimate = RevertTarget(k).estimate,
                                      !.time = RevertTarget(k).time]
          /\ stateHistory' = SubSeq(stateHistory, 1, k)
          /\ measurementHistory' = SubSeq(measurementHistory, 1, j)
          /\ measurementQueue' = measurementQueue \cup Restored(RevertTarget(k), j)
          /\ restoredCount' = Cardinality(Restored(RevertTarget(k), j))
          /\ revertedShort' = (revertedShort \/ k = 0)
    BY <1>2 DEF RevertTo
  <2>2. stateHistory \in Seq(FilterState) /\ measurementHistory \in Seq(Measurement)
    BY DEF TypeOK
  <2>3. Len(stateHistory) \in Nat \ {0} /\ Len(measurementHistory) \in Nat
    BY <1>2, <2>2, EmptySeq, LenProperties
  <2>4. RevertTarget(k) \in FilterState
    BY <2>2, <2>3, ElementOfSeq DEF RevertTarget
  <2>5. filter' \in Filter
    BY <2>1, <2>4 DEF TypeOK, Filter, FilterState
  <2>6. stateHistory' \in Seq(FilterState) /\ measurementHistory' \in Seq(Measurement)
    BY <2>1, <2>2, <2>3, SubSeqType
  <2>7. Restored(RevertTarget(k), j) \subseteq Measurement
    BY <2>2, <2>3, ElementOfSeq DEF Restored
  <2>8. restoredCount' \in Nat
    BY <2>1, RestoredCountType
  <2>9. QED
    BY <2>1, <2>5, <2>6, <2>7, <2>8 DEF TypeOK
<1>3. QED
  BY <1>1, <1>2

\* clearExpiredHistory keeps the types of the histories.
LEMMA ClearExpiredHistoryType ==
  ASSUME TypeOK, NEW f, ClearExpiredHistory(f)
  PROVE  /\ stateHistory' \in Seq(FilterState)
         /\ measurementHistory' \in Seq(Measurement)
<1>1. /\ stateHistory \in Seq(FilterState) /\ Len(stateHistory) \in Nat
      /\ measurementHistory \in Seq(Measurement) /\ Len(measurementHistory) \in Nat
  BY LenProperties DEF TypeOK
<1>2. CASE UNCHANGED histories
  BY <1>1, <1>2 DEF histories
<1>3. CASE ~UNCHANGED histories
  <2>1. PICK k \in 0..Len(stateHistory), j \in 0..Len(measurementHistory) :
          /\ stateHistory' = SubSeq(stateHistory, k + 1, Len(stateHistory))
          /\ measurementHistory' =
               SubSeq(measurementHistory, j + 1, Len(measurementHistory))
    BY <1>3 DEF ClearExpiredHistory
  <2>2. QED
    BY <1>1, <2>1, SubSeqType
<1>4. QED
  BY <1>2, <1>3

\* processMeasurement gives a filter state again.
LEMMA ProcessMeasurementType ==
  ASSUME NEW f \in Filter, NEW m \in Measurement
  PROVE  ProcessMeasurement(f, m) \in Filter
<1>1. Append(f.estimate, m) \in Seq(Measurement)
  BY AppendType DEF Filter, Estimate
<1>2. (IF f.initialized /\ m.time < f.time THEN f.time ELSE m.time) \in Time
  BY DEF Filter, Measurement
<1>3. QED
  BY <1>1, <1>2 DEF ProcessMeasurement, Filter, Estimate

\* What a callback enqueues is a measurement: the time step of a differential
\* one is a natural number because the topic's last stamp is not later.
LEMMA MeasurementOfType ==
  ASSUME TypeOK, NEW topic \in Topics, NEW stamp \in Nat,
         AcceptsMessage(topic, stamp)
  PROVE  MeasurementOf(topic, stamp) \in Measurement
<1>1. /\ lastMessageTimes[topic] \in Nat /\ previousMeasurements[topic] \in Nat
      /\ count["measurement"] \in Nat /\ latestControl \in Nat
  BY DEF TypeOK, Time
<1>2. stamp - LastMessageTime(topic, stamp) \in Nat
  BY <1>1 DEF AcceptsMessage, LastMessageTime
<1>3. QED
  BY <1>1, <1>2 DEF MeasurementOf, Measurement, Time

\* Every step keeps the types.
LEMMA TypeStep == TypeOK /\ [Next]_vars => TypeOK'
<1> SUFFICES ASSUME TypeOK, [Next]_vars
             PROVE  TypeOK'
  OBVIOUS
<1> USE ConfigAssumption
<1>1. CASE Tick
  BY <1>1 DEF TypeOK, Tick, Time, mode, inputs, histories, output, ghosts
<1>2. CASE BeginUpdate
  <2>1. /\ UNCHANGED <<clock, mode, inputs, latestControl, output, count, processed>>
        /\ pc' \in {"integrate", "timeout"}
    BY <1>2 DEF BeginUpdate
  <2>2. CASE UNCHANGED <<filter, measurementQueue, histories, revertedShort>>
             /\ restoredCount' = 0
    BY <2>1, <2>2 DEF TypeOK, mode, inputs, histories, output
  <2>3. CASE \E m \in Top : RevertTo(m.time - 1)
    <3>1. PICK m \in Top : RevertTo(m.time - 1)
      BY <2>3
    <3>2. m.time - 1 \in Int
      BY DEF Top, TypeOK, Measurement, Time
    <3>3. QED
      BY <2>1, <3>1, <3>2, RevertToType DEF TypeOK, mode, inputs, output
  <2>4. QED
    BY <1>2, <2>2, <2>3 DEF BeginUpdate
<1>3. ASSUME NEW m \in measurementQueue, IntegrateOne(m)
      PROVE  TypeOK'
  <2> DEFINE f == [filter EXCEPT !.control = IF UsesStoredControl THEN m.control ELSE @]
             g == ProcessMeasurement(f, m)
             rest == measurementQueue \ {m}
  <2>1. m \in Measurement /\ f \in Filter
    BY DEF TypeOK, Filter, Measurement
  <2>2. g \in Filter
    BY <2>1, ProcessMeasurementType
  <2>3. filter' = g /\ measurementQueue' = rest
    BY <1>3 DEF IntegrateOne
  <2>4. measurementHistory' \in Seq(Measurement)
    <3>1. measurementHistory \in Seq(Measurement)
      BY DEF TypeOK
    <3>2. Append(measurementHistory, m) \in Seq(Measurement)
      BY <2>1, <3>1, AppendType
    <3>3. measurementHistory' = measurementHistory \/
            measurementHistory' = Append(measurementHistory, m)
      BY <1>3 DEF IntegrateOne, histories
    <3>4. QED
      BY <3>1, <3>2, <3>3
  <2>5. stateHistory' \in Seq(FilterState)
    <3> DEFINE s == [estimate |-> g.estimate, time |-> g.time]
    <3>1. stateHistory \in Seq(FilterState) /\ s \in FilterState
      BY <2>2 DEF FilterState, Filter, TypeOK
    <3>2. \/ stateHistory' = stateHistory
          \/ stateHistory' = Append(stateHistory, s)
      BY <1>3 DEF IntegrateOne, histories
    <3> HIDE DEF s
    <3>3. Append(stateHistory, s) \in Seq(FilterState)
      BY <3>1, AppendType
    <3>4. QED
      BY <3>1, <3>2, <3>3
  <2>6. restoredCount' \in Nat
    BY <1>3 DEF IntegrateOne, TypeOK, UsesStoredControl
  <2>7. /\ UNCHANGED <<clock, mode, pc, inputs, latestControl, output, count,
                       revertedShort>>
        /\ processed' = processed \cup {m}
    BY <1>3 DEF IntegrateOne
  <2>8. QED
    BY <2>1, <2>2, <2>3, <2>4, <2>5, <2>6, <2>7
    DEF TypeOK, mode, inputs, output
<1>4. CASE FinishUpdate
  <2> DEFINE f == IF Predicts THEN SetLastMeasurementTime(filter, clock) ELSE filter
  <2>1. f \in Filter
    BY DEF TypeOK, Filter, SetLastMeasurementTime
  <2>2. /\ pc' = "idle" /\ filter' = f /\ Publish(f) /\ ClearExpiredHistory(f)
        /\ UNCHANGED <<clock, mode, inputs, measurementQueue, restoredCount,
                       latestControl, count, ghosts>>
    BY <1>4 DEF FinishUpdate
  <2>3. published' \in Time /\ lastPublishedStamp' \in Time
    BY <2>1, <2>2 DEF Publish, TypeOK, Filter
  <2>4. predictedTo' \in Time
    BY <1>4 DEF FinishUpdate, TypeOK
  <2>5. QED
    BY <2>1, <2>2, <2>3, <2>4, ClearExpiredHistoryType DEF TypeOK, mode, inputs, ghosts
<1>5. CASE UpdateToggledOff
  <2> DEFINE f == IF filter.initialized THEN SetLastMeasurementTime(filter, clock)
                  ELSE filter
  <2>1. f \in Filter
    BY DEF TypeOK, Filter, SetLastMeasurementTime
  <2>2. /\ measurementQueue' = {} /\ filter' = f
        /\ Publish(f) /\ ClearExpiredHistory(f)
        /\ UNCHANGED <<clock, mode, pc, inputs, restoredCount, latestControl, count,
                       ghosts>>
    BY <1>5 DEF UpdateToggledOff
  <2>3. published' \in Time /\ lastPublishedStamp' \in Time
    BY <2>1, <2>2 DEF Publish, TypeOK, Filter
  <2>4. predictedTo' \in Time
    BY <1>5 DEF UpdateToggledOff, TypeOK
  <2>5. QED
    BY <2>1, <2>2, <2>3, <2>4, ClearExpiredHistoryType DEF TypeOK, mode, inputs, ghosts
<1>6. ASSUME NEW topic \in Topics, NEW stamp \in Stamps,
             NEW poseTf \in BOOLEAN, NEW twistTf \in BOOLEAN,
             SensorCallback(topic, stamp, poseTf, twistTf)
      PROVE  TypeOK'
  <2>1. stamp \in Nat
    BY DEF Stamps
  <2>2. MeasurementOf(topic, stamp) \in Measurement
    BY <1>6, <2>1, MeasurementOfType DEF SensorCallback
  <2>3. measurementQueue' \in SUBSET Measurement
    BY <1>6, <2>2 DEF SensorCallback, TypeOK
  <2>4. previousMeasurements' \in [Topics -> Time] /\ lastMessageTimes' \in [Topics -> Time]
    BY <1>6, <2>1 DEF SensorCallback, TypeOK, Time
  <2>5. count' \in [{"measurement", "command"} -> Nat]
    BY <1>6 DEF SensorCallback, TypeOK
  <2>6. poseFailed' \subseteq Topics
    BY <1>6 DEF SensorCallback, TypeOK
  <2>7. QED
    BY <1>6, <2>3, <2>4, <2>5, <2>6
    DEF SensorCallback, TypeOK, mode, histories, output, ghosts
<1>7. CASE ControlCallback
  <2>1. latestControl' \in Nat
    BY <1>7 DEF TypeOK, ControlCallback
  <2>2. filter' \in Filter
    BY <1>7, <2>1 DEF TypeOK, ControlCallback, Filter
  <2>3. count' \in [{"measurement", "command"} -> Nat]
    BY <1>7 DEF ControlCallback, Command, TypeOK
  <2>4. QED
    BY <1>7, <2>1, <2>2, <2>3
    DEF TypeOK, ControlCallback, mode, inputs, histories, output, ghosts
<1>8. ASSUME Command
      PROVE  count' \in [{"measurement", "command"} -> Nat]
  BY <1>8 DEF Command, TypeOK
<1>9. ASSUME Reset
      PROVE  /\ measurementQueue' \in SUBSET Measurement
             /\ stateHistory' \in Seq(FilterState)
             /\ measurementHistory' \in Seq(Measurement)
             /\ previousMeasurements' \in [Topics -> Time]
             /\ lastMessageTimes' \in [Topics -> Time]
             /\ lastSetPoseTime' \in Time /\ lastPublishedStamp' \in Time
             /\ published' \in Time /\ predictedTo' \in Time
             /\ poseFailed' \subseteq Topics
             /\ filter' \in Filter
             /\ processed' \in SUBSET Measurement /\ revertedShort' \in BOOLEAN
             /\ UNCHANGED <<clock, toggledOn, predictToCurrentTime, pc, restoredCount,
                            latestControl>>
  <2>1. <<>> \in Seq(FilterState) /\ <<>> \in Seq(Measurement)
    BY EmptySeq
  <2>2. ResetFilter(filter) \in Filter
    BY <2>1 DEF TypeOK, Filter, Estimate, ResetFilter, Time
  <2>3. QED
    BY <1>9, <2>1, <2>2 DEF Reset, ClearHistories, Time
<1>10. CASE ResetSrv
  BY <1>8, <1>9, <1>10 DEF TypeOK, ResetSrv
<1>11. ASSUME NEW stamp \in Stamps, SetPose(stamp)
       PROVE  TypeOK'
  <2>1. <<>> \in Seq(FilterState) /\ <<>> \in Seq(Measurement)
    BY EmptySeq
  <2>2. filter' \in Filter
    BY <1>11, <2>1 DEF SetPose, TypeOK, Filter, Estimate, Time
  <2>3. count' \in [{"measurement", "command"} -> Nat]
    BY <1>8, <1>11 DEF SetPose
  <2>4. previousMeasurements' \in [Topics -> Time] /\ lastSetPoseTime' \in Time
    BY <1>11 DEF SetPose, Stamps, Time
  <2>5. stateHistory' \in Seq(FilterState) /\ measurementHistory' \in Seq(Measurement)
    BY <1>11, <2>1 DEF SetPose, ClearHistories
  <2>6. QED
    BY <1>11, <2>2, <2>3, <2>4, <2>5 DEF SetPose, TypeOK, mode, output
<1>12. CASE ToggleFilterProcessing
  BY <1>8, <1>12 DEF TypeOK, ToggleFilterProcessing, inputs, histories, output, ghosts
<1>13. CASE EnableFilter
  BY <1>8, <1>13 DEF TypeOK, EnableFilter, inputs, histories, output, ghosts
<1>14. CASE OnConfigure
  <2>1. predictToCurrentTime' \in BOOLEAN
    BY <1>14 DEF OnConfigure
  <2>2. QED
    BY <1>8, <1>14, <2>1 DEF TypeOK, OnConfigure, inputs, histories, output, ghosts
<1>15. CASE OnActivate
  BY <1>8, <1>15 DEF TypeOK, OnActivate, inputs, histories, output, ghosts
<1>16. CASE OnCleanup
  BY <1>8, <1>16 DEF TypeOK, OnCleanup, inputs, histories, output, ghosts
<1>17. CASE OnShutdown
  BY <1>8, <1>17 DEF TypeOK, OnShutdown, inputs, histories, output, ghosts
<1>18. CASE OnDeactivate
  BY <1>8, <1>9, <1>18 DEF TypeOK, OnDeactivate
<1>19. CASE UNCHANGED vars
  BY <1>19 DEF TypeOK, vars, mode, inputs, histories, output, ghosts
<1>20. QED
  BY <1>1, <1>2, <1>3, <1>4, <1>5, <1>6, <1>7, <1>10, <1>11, <1>12, <1>13, <1>14, <1>15, <1>16, <1>17, <1>18, <1>19 DEF Next, Update, Environment

\* Type correctness of the estimation node: in every reachable state queue,
\* histories, filter and bookkeeping hold values of their types; in particular
\* the time step of a differential measurement is never negative.
THEOREM TypeCorrect == Spec => []TypeOK
<1>1. Init => TypeOK
  <2>1. <<>> \in Seq(FilterState) /\ <<>> \in Seq(Measurement)
    BY EmptySeq
  <2>2. Init => filter \in Filter
    BY <2>1 DEF Init, Filter, Estimate, Time
  <2>3. Init => /\ lastMessageTimes \in [Topics -> Time]
                /\ previousMeasurements \in [Topics -> Time]
                /\ count \in [{"measurement", "command"} -> Nat]
    BY DEF Init, Time
  <2>4. Init => /\ stateHistory \in Seq(FilterState)
                /\ measurementHistory \in Seq(Measurement)
    BY <2>1 DEF Init
  <2>5. Init => /\ clock \in Time /\ lastSetPoseTime \in Time
                /\ lastPublishedStamp \in Time /\ published \in Time
                /\ restoredCount \in Nat /\ latestControl \in Nat /\ predictedTo \in Time
    BY DEF Init, Time
  <2>6. Init => /\ enabled \in BOOLEAN /\ toggledOn \in BOOLEAN
                /\ revertedShort \in BOOLEAN /\ predictToCurrentTime \in BOOLEAN
                /\ poseFailed = {} /\ lifecycle = "unconfigured" /\ pc = "idle"
                /\ measurementQueue = {} /\ processed = {}
    BY Zenon DEF Init
  <2>7. QED
    BY <2>2, <2>3, <2>4, <2>5, <2>6 DEF TypeOK
<1>2. QED
  BY <1>1, TypeStep, PTL DEF Spec

-----------------------------------------------------------------------------
\* Times and stamps.

\* The inductive invariant.  The saved states matter because revertTo makes one
\* of them the filter's state.
TimeInv ==
  /\ NotAheadOfClock
  /\ \A i \in DOMAIN stateHistory : stateHistory[i].time <= clock

\* revertTo makes one of the saved states the filter's state, and keeps some.
LEMMA RevertToStates ==
  ASSUME TypeOK, NEW t, RevertTo(t)
  PROVE  /\ filter'.initialized = filter.initialized
         /\ \/ filter' = filter
            \/ \E i \in DOMAIN stateHistory :
                 /\ filter'.time = stateHistory[i].time
                 /\ filter'.estimate = stateHistory[i].estimate
         /\ \A i \in DOMAIN stateHistory' :
              \E j \in DOMAIN stateHistory : stateHistory'[i] = stateHistory[j]
         /\ \A i \in DOMAIN measurementHistory' :
              \E j \in DOMAIN measurementHistory :
                measurementHistory'[i] = measurementHistory[j]
         /\ \A m \in measurementQueue' :
              \/ m \in measurementQueue
              \/ \E j \in DOMAIN measurementHistory : m = measurementHistory[j]
<1>1. CASE stateHistory = <<>>
  BY <1>1 DEF RevertTo, histories
<1>2. CASE stateHistory # <<>>
  <2>1. PICK k \in 0..Len(stateHistory), j \in 0..Len(measurementHistory) :
          /\ filter' = [filter EXCEPT !.estimate = RevertTarget(k).estimate,
                                      !.time = RevertTarget(k).time]
          /\ stateHistory' = SubSeq(stateHistory, 1, k)
          /\ measurementHistory' = SubSeq(measurementHistory, 1, j)
          /\ measurementQueue' = measurementQueue \cup Restored(RevertTarget(k), j)
    BY <1>2 DEF RevertTo
  <2>2. /\ stateHistory \in Seq(FilterState) /\ measurementHistory \in Seq(Measurement)
        /\ filter \in Filter
    BY DEF TypeOK
  <2>3. /\ Len(stateHistory) \in Nat \ {0} /\ DOMAIN stateHistory = 1..Len(stateHistory)
        /\ Len(measurementHistory) \in Nat
        /\ DOMAIN measurementHistory = 1..Len(measurementHistory)
    BY <1>2, <2>2, EmptySeq, LenProperties
  <2>4. \E i \in DOMAIN stateHistory : RevertTarget(k) = stateHistory[i]
    BY <2>3 DEF RevertTarget
  <2>5. /\ filter'.initialized = filter.initialized
        /\ filter'.time = RevertTarget(k).time
        /\ filter'.estimate = RevertTarget(k).estimate
    BY <2>1, <2>2 DEF Filter
  <2>6. \A i \in DOMAIN stateHistory' :
          \E n \in DOMAIN stateHistory : stateHistory'[i] = stateHistory[n]
    BY <2>1, <2>2, <2>3, SubSeqType
  <2>7. \A i \in DOMAIN measurementHistory' :
          \E n \in DOMAIN measurementHistory :
            measurementHistory'[i] = measurementHistory[n]
    BY <2>1, <2>2, <2>3, SubSeqType
  <2>8. \A m \in Restored(RevertTarget(k), j) :
          \E n \in DOMAIN measurementHistory : m = measurementHistory[n]
    BY <2>3 DEF Restored
  <2>9. QED
    BY <2>1, <2>4, <2>5, <2>6, <2>7, <2>8
<1>3. QED
  BY <1>1, <1>2

\* clearExpiredHistory only drops entries.
LEMMA ClearExpiredHistoryKeeps ==
  ASSUME TypeOK, NEW f, ClearExpiredHistory(f)
  PROVE  /\ \A i \in DOMAIN stateHistory' :
              \E j \in DOMAIN stateHistory : stateHistory'[i] = stateHistory[j]
         /\ \A i \in DOMAIN measurementHistory' :
              \E j \in DOMAIN measurementHistory :
                measurementHistory'[i] = measurementHistory[j]
<1>1. /\ stateHistory \in Seq(FilterState) /\ Len(stateHistory) \in Nat
      /\ measurementHistory \in Seq(Measurement) /\ Len(measurementHistory) \in Nat
  BY LenProperties DEF TypeOK
<1>2. CASE UNCHANGED histories
  BY <1>2 DEF histories
<1>3. CASE ~UNCHANGED histories
  <2>1. PICK k \in 0..Len(stateHistory), j \in 0..Len(measurementHistory) :
          /\ stateHistory' = SubSeq(stateHistory, k + 1, Len(stateHistory))
          /\ measurementHistory' =
               SubSeq(measurementHistory, j + 1, Len(measurementHistory))
    BY <1>3 DEF ClearExpiredHistory
  <2> DEFINE a == k + 1
             b == Len(stateHistory)
             c == j + 1
             d == Len(measurementHistory)
  <2>2. /\ a \in 1..(Len(stateHistory) + 1) /\ b \in 0..Len(stateHistory)
        /\ c \in 1..(Len(measurementHistory) + 1) /\ d \in 0..Len(measurementHistory)
        /\ stateHistory' = SubSeq(stateHistory, a, b)
        /\ measurementHistory' = SubSeq(measurementHistory, c, d)
    BY <1>1, <2>1
  <2> HIDE DEF a, b, c, d
  <2>3. \A i \in DOMAIN stateHistory' :
          \E n \in DOMAIN stateHistory : stateHistory'[i] = stateHistory[n]
    <3>1. \A i \in DOMAIN SubSeq(stateHistory, a, b) :
            \E n \in DOMAIN stateHistory : SubSeq(stateHistory, a, b)[i] = stateHistory[n]
      <4>1. stateHistory \in Seq(FilterState)
        BY <1>1
      <4>2. a \in 1..(Len(stateHistory) + 1) /\ b \in 0..Len(stateHistory)
        BY <2>2
      <4>3. QED
        BY <4>1, <4>2, SubSeqType
    <3>2. QED
      BY <2>2, <3>1
  <2>4. \A i \in DOMAIN measurementHistory' :
          \E n \in DOMAIN measurementHistory :
            measurementHistory'[i] = measurementHistory[n]
    <3>1. \A i \in DOMAIN SubSeq(measurementHistory, c, d) :
            \E n \in DOMAIN measurementHistory :
              SubSeq(measurementHistory, c, d)[i] = measurementHistory[n]
      <4>1. measurementHistory \in Seq(Measurement)
        BY <1>1
      <4>2. /\ c \in 1..(Len(measurementHistory) + 1)
            /\ d \in 0..Len(measurementHistory)
        BY <2>2
      <4>3. QED
        BY <4>1, <4>2, SubSeqType
    <3>2. QED
      BY <2>2, <3>1
  <2>5. QED
    BY <2>3, <2>4
<1>4. QED
  BY <1>2, <1>3

\* What one turn of the loop of integrateMeasurements does to the filter and to
\* the saved states.
LEMMA IntegrateOneStates ==
  ASSUME TypeOK, NEW m \in measurementQueue, IntegrateOne(m)
  PROVE  /\ filter'.initialized
         /\ filter'.time = IF filter.initialized /\ m.time < filter.time
                           THEN filter.time ELSE m.time
         /\ filter'.estimate = Append(filter.estimate, m)
         /\ \A i \in DOMAIN stateHistory' :
              \/ stateHistory'[i] = [estimate |-> filter'.estimate,
                                     time |-> filter'.time]
              \/ \E j \in DOMAIN stateHistory : stateHistory'[i] = stateHistory[j]
         /\ \A i \in DOMAIN measurementHistory' :
              \/ measurementHistory'[i] = m
              \/ \E j \in DOMAIN measurementHistory :
                   measurementHistory'[i] = measurementHistory[j]
<1> DEFINE f == [filter EXCEPT !.control = IF UsesStoredControl THEN m.control ELSE @]
           s == [estimate |-> filter'.estimate, time |-> filter'.time]
<1>1. filter \in Filter /\ m \in Measurement
  BY DEF TypeOK
<1>2. f.initialized = filter.initialized /\ f.time = filter.time
      /\ f.estimate = filter.estimate /\ f \in Filter
  BY <1>1 DEF Filter, Measurement
<1>3. filter' = ProcessMeasurement(f, m)
  BY DEF IntegrateOne
<1>4. filter' \in Filter
  BY <1>1, <1>2, <1>3, ProcessMeasurementType
<1> HIDE DEF f
<1>5. /\ filter'.initialized
      /\ filter'.time = IF filter.initialized /\ m.time < filter.time
                        THEN filter.time ELSE m.time
      /\ filter'.estimate = Append(filter.estimate, m)
  BY <1>2, <1>3 DEF ProcessMeasurement, Filter
<1>6. \A i \in DOMAIN stateHistory' :
        stateHistory'[i] = s \/ \E j \in DOMAIN stateHistory :
                                  stateHistory'[i] = stateHistory[j]
  <2>1. stateHistory \in Seq(FilterState) /\ s \in FilterState
    BY <1>4 DEF TypeOK, FilterState, Filter
  <2>2. stateHistory' = stateHistory \/ stateHistory' = Append(stateHistory, s)
    BY DEF IntegrateOne, histories
  <2> HIDE DEF s
  <2>3. \A i \in DOMAIN Append(stateHistory, s) :
          \/ Append(stateHistory, s)[i] = s
          \/ \E j \in DOMAIN stateHistory : Append(stateHistory, s)[i] = stateHistory[j]
    BY <2>1, AppendType
  <2>4. QED
    BY <2>2, <2>3
<1>7. \A i \in DOMAIN measurementHistory' :
        \/ measurementHistory'[i] = m
        \/ \E j \in DOMAIN measurementHistory :
             measurementHistory'[i] = measurementHistory[j]
  <2>1. measurementHistory \in Seq(Measurement)
    BY DEF TypeOK
  <2>2. \/ measurementHistory' = measurementHistory
        \/ measurementHistory' = Append(measurementHistory, m)
    BY DEF IntegrateOne, histories
  <2>3. \A i \in DOMAIN Append(measurementHistory, m) :
          \/ Append(measurementHistory, m)[i] = m
          \/ \E j \in DOMAIN measurementHistory :
               Append(measurementHistory, m)[i] = measurementHistory[j]
    BY <1>1, <2>1, AppendType
  <2>4. QED
    BY <2>2, <2>3
<1>8. QED
  BY <1>5, <1>6, <1>7

\* A step that leaves the filter and the saved states alone, and does not set
\* the clock back, keeps the times in order.
LEMMA TimeStutter ==
  ASSUME TypeOK, TypeOK', TimeInv, UNCHANGED stateHistory, filter'.time = filter.time,
         clock <= clock'
  PROVE  TimeInv'
<1>1. clock \in Nat /\ clock' \in Nat /\ filter.time \in Nat
  BY DEF TypeOK, Filter, Time
<1>2. stateHistory \in Seq(FilterState)
  BY DEF TypeOK
<1>3. \A i \in DOMAIN stateHistory : stateHistory[i] \in FilterState
  BY <1>2, ElementOfSeq, LenProperties
<1>4. \A i \in DOMAIN stateHistory : stateHistory[i].time \in Nat
  BY <1>3 DEF FilterState, Time
<1>5. \A i \in DOMAIN stateHistory' : stateHistory'[i].time <= clock'
  BY <1>1, <1>4 DEF TimeInv
<1>6. QED
  BY <1>1, <1>5 DEF TimeInv, NotAheadOfClock

\* reset() starts them over.
LEMMA TimeReset ==
  ASSUME TypeOK, TypeOK', Reset
  PROVE  TimeInv'
<1>1. filter'.time = 0 /\ clock' = clock /\ stateHistory' = <<>>
  BY DEF Reset, ResetFilter, ClearHistories, TypeOK, Filter
<1>2. clock \in Nat
  BY DEF TypeOK, Time
<1>3. QED
  BY <1>1, <1>2 DEF TimeInv, NotAheadOfClock

\* Every step keeps the times in order.
LEMMA TimeStep ==
  ASSUME TypeOK, TypeOK', TimeInv, [Next]_vars
  PROVE  TimeInv'
<1> USE ConfigAssumption
<1>0. clock \in Nat /\ filter.time \in Nat /\ filter \in Filter
  BY DEF TypeOK, Filter, Time
<1>1. ASSUME UNCHANGED <<filter, stateHistory>>, clock' = clock \/ clock' = clock + 1
      PROVE  TimeInv'
  BY <1>0, <1>1, TimeStutter
<1>3. CASE Tick
  BY <1>1, <1>3 DEF Tick, histories
<1>4. CASE BeginUpdate
  <2>1. clock' = clock
    BY <1>4 DEF BeginUpdate
  <2>2. CASE UNCHANGED <<filter, histories>>
    BY <1>1, <2>1, <2>2 DEF histories
  <2>3. CASE \E m \in Top : RevertTo(m.time - 1)
    <3>1. PICK m \in Top : RevertTo(m.time - 1)
      BY <2>3
    <3>2. /\ filter' = filter \/ \E i \in DOMAIN stateHistory :
                                   filter'.time = stateHistory[i].time
          /\ \A i \in DOMAIN stateHistory' :
               \E j \in DOMAIN stateHistory : stateHistory'[i] = stateHistory[j]
      BY <3>1, RevertToStates
    <3>3. filter'.time <= clock'
      BY <2>1, <3>2 DEF TimeInv, NotAheadOfClock
    <3>4. QED
      BY <2>1, <3>2, <3>3 DEF TimeInv, NotAheadOfClock
  <2>4. QED
    BY <1>4, <2>2, <2>3 DEF BeginUpdate
<1>5. ASSUME NEW m \in measurementQueue, IntegrateOne(m)
      PROVE  TimeInv'
  <2>1. clock' = clock /\ ~(clock < m.time)
    BY <1>5 DEF IntegrateOne, Due
  <2>2. m.time \in Nat
    BY DEF TypeOK, Measurement, Time
  <2>3. filter'.time = IF filter.initialized /\ m.time < filter.time
                       THEN filter.time ELSE m.time
    BY <1>5, IntegrateOneStates
  <2>4. filter'.time \in Nat /\ filter'.time <= clock
    BY <1>0, <2>1, <2>2, <2>3 DEF TimeInv, NotAheadOfClock
  <2>5. \A i \in DOMAIN stateHistory' : stateHistory'[i].time <= clock
    <3>1. \A i \in DOMAIN stateHistory' :
            \/ stateHistory'[i] = [estimate |-> filter'.estimate, time |-> filter'.time]
            \/ \E j \in DOMAIN stateHistory : stateHistory'[i] = stateHistory[j]
      BY <1>5, IntegrateOneStates
    <3>2. QED
      BY <2>4, <3>1 DEF TimeInv
  <2>6. QED
    BY <2>1, <2>4, <2>5 DEF TimeInv, NotAheadOfClock
<1>6. ASSUME NEW f, ClearExpiredHistory(f), clock' = clock, filter'.time \in {filter.time, clock}
      PROVE  TimeInv'
  <2>1. \A i \in DOMAIN stateHistory' : stateHistory'[i].time <= clock
    BY <1>6, ClearExpiredHistoryKeeps DEF TimeInv
  <2>2. QED
    BY <1>0, <1>6, <2>1 DEF TimeInv, NotAheadOfClock
<1>7. CASE FinishUpdate
  <2> DEFINE f == IF Predicts THEN SetLastMeasurementTime(filter, clock) ELSE filter
  <2>1. f.time \in {filter.time, clock}
    BY <1>0 DEF Filter, SetLastMeasurementTime
  <2>2. filter' = f /\ clock' = clock /\ ClearExpiredHistory(f)
    BY <1>7 DEF FinishUpdate
  <2> HIDE DEF f
  <2>3. QED
    BY <1>6, <2>1, <2>2
<1>8. CASE UpdateToggledOff
  <2> DEFINE f == IF filter.initialized THEN SetLastMeasurementTime(filter, clock)
                  ELSE filter
  <2>1. f.time \in {filter.time, clock}
    BY <1>0 DEF Filter, SetLastMeasurementTime
  <2>2. filter' = f /\ clock' = clock /\ ClearExpiredHistory(f)
    BY <1>8 DEF UpdateToggledOff
  <2> HIDE DEF f
  <2>3. QED
    BY <1>6, <2>1, <2>2
<1>9. ASSUME NEW topic \in Topics, NEW stamp \in Stamps,
             NEW poseTf \in BOOLEAN, NEW twistTf \in BOOLEAN,
             SensorCallback(topic, stamp, poseTf, twistTf)
      PROVE  TimeInv'
  BY <1>1, <1>9 DEF SensorCallback, histories
<1>10. CASE ControlCallback
  <2>1. filter'.time = filter.time /\ UNCHANGED <<clock, stateHistory>>
    BY <1>0, <1>10 DEF ControlCallback, histories, Filter
  <2>2. QED
    BY <1>0, <2>1, TimeStutter
<1>11. CASE ResetSrv
  BY <1>11, TimeReset DEF ResetSrv
<1>12. ASSUME NEW stamp \in Stamps, SetPose(stamp)
       PROVE  TimeInv'
  <2>1. filter'.time = clock /\ stateHistory' = <<>> /\ clock' = clock
    BY <1>0, <1>12 DEF SetPose, ClearHistories, Filter
  <2>2. QED
    BY <1>0, <2>1 DEF TimeInv, NotAheadOfClock
<1>13. CASE ToggleFilterProcessing
  BY <1>1, <1>13 DEF ToggleFilterProcessing, histories
<1>14. CASE EnableFilter
  BY <1>1, <1>14 DEF EnableFilter, histories
<1>15. CASE OnConfigure
  BY <1>1, <1>15 DEF OnConfigure, histories
<1>16. CASE OnActivate
  BY <1>1, <1>16 DEF OnActivate, histories
<1>17. CASE OnCleanup
  BY <1>1, <1>17 DEF OnCleanup, histories
<1>18. CASE OnShutdown
  BY <1>1, <1>18 DEF OnShutdown, histories
<1>19. CASE OnDeactivate
  BY <1>19, TimeReset DEF OnDeactivate
<1>20. CASE UNCHANGED vars
  BY <1>1, <1>20 DEF vars, histories
<1>21. QED
  BY <1>3, <1>4, <1>5, <1>7, <1>8, <1>9, <1>10, <1>11, <1>12, <1>13, <1>14, <1>15, <1>16,
     <1>17, <1>18, <1>19, <1>20
  DEF Next, Update, Environment

\* TimeInv is an invariant.
LEMMA TimeCorrect == Spec => []TimeInv
<1>1. Init => TimeInv
  BY DEF Init, TimeInv, NotAheadOfClock
<1>2. TypeOK /\ TypeOK' /\ TimeInv /\ [Next]_vars => TimeInv'
  BY TimeStep
<1>3. QED
  BY <1>1, <1>2, TypeCorrect, PTL DEF Spec

\* The estimate is never stamped later than the clock, in any configuration:
\* integrateMeasurements leaves measurements from the future in the queue, and
\* revertTo restores only states that were themselves not ahead.
THEOREM NeverAheadOfClock == Spec => []NotAheadOfClock
<1>1. TimeInv => NotAheadOfClock
  BY DEF TimeInv
<1>2. QED
  BY <1>1, TimeCorrect, PTL

-----------------------------------------------------------------------------
\* set_pose.

\* The inductive invariant: nothing stamped at or before the last set_pose is
\* left anywhere it could reach the estimate from: the queue, the measurements
\* kept for replay, the saved states.
IsolationInv ==
  /\ SetPoseIsolates
  /\ \A m \in measurementQueue : lastSetPoseTime < m.time
  /\ \A i \in DOMAIN measurementHistory : lastSetPoseTime < measurementHistory[i].time
  /\ \A i \in DOMAIN stateHistory :
       \A m \in Fused(stateHistory[i].estimate) : lastSetPoseTime < m.time

\* A step that touches none of these keeps the invariant.
LEMMA IsolationStutter ==
  ASSUME IsolationInv,
         filter'.estimate = filter.estimate,
         UNCHANGED <<lastSetPoseTime, measurementQueue, stateHistory,
                     measurementHistory>>
  PROVE  IsolationInv'
BY DEF IsolationInv, SetPoseIsolates, Fused

\* Nothing is left after reset() and set_pose.
LEMMA IsolationCleared ==
  ASSUME filter'.estimate = <<>>, measurementQueue' = {},
         stateHistory' = <<>>, measurementHistory' = <<>>
  PROVE  IsolationInv'
BY DEF IsolationInv, SetPoseIsolates, Fused

\* Output and expiry at the end of an update only drop entries.
LEMMA IsolationExpiry ==
  ASSUME TypeOK, IsolationInv, NEW f, ClearExpiredHistory(f),
         filter'.estimate = filter.estimate,
         measurementQueue' \subseteq measurementQueue,
         lastSetPoseTime' = lastSetPoseTime
  PROVE  IsolationInv'
<1>1. /\ \A i \in DOMAIN stateHistory' :
           \E j \in DOMAIN stateHistory : stateHistory'[i] = stateHistory[j]
      /\ \A i \in DOMAIN measurementHistory' :
           \E j \in DOMAIN measurementHistory :
             measurementHistory'[i] = measurementHistory[j]
  BY ClearExpiredHistoryKeeps
<1>2. \A i \in DOMAIN stateHistory' :
        \A m \in Fused(stateHistory'[i].estimate) : lastSetPoseTime < m.time
  BY <1>1 DEF IsolationInv
<1>3. \A i \in DOMAIN measurementHistory' : lastSetPoseTime < measurementHistory'[i].time
  BY <1>1 DEF IsolationInv
<1>4. \A m \in Fused(filter'.estimate) : lastSetPoseTime < m.time
  BY DEF IsolationInv, SetPoseIsolates
<1>5. \A m \in measurementQueue' : lastSetPoseTime < m.time
  BY DEF IsolationInv
<1>6. QED
  BY <1>2, <1>3, <1>4, <1>5 DEF IsolationInv, SetPoseIsolates, Fused

\* Every step keeps the isolation of the last set_pose.
LEMMA IsolationStep == TypeOK /\ IsolationInv /\ [Next]_vars => IsolationInv'
<1> SUFFICES ASSUME TypeOK, IsolationInv, [Next]_vars
             PROVE  IsolationInv'
  OBVIOUS
<1>0. filter \in Filter
  BY DEF TypeOK
<1>1. ASSUME Reset
      PROVE  IsolationInv'
  <2>1. /\ filter'.estimate = <<>> /\ measurementQueue' = {}
        /\ stateHistory' = <<>> /\ measurementHistory' = <<>>
    BY <1>0, <1>1 DEF Reset, ResetFilter, ClearHistories, Filter
  <2>2. QED
    BY <2>1, IsolationCleared
<1>2. CASE Tick
  BY <1>2, IsolationStutter DEF Tick, inputs, histories
<1>3. CASE BeginUpdate
  <2>1. lastSetPoseTime' = lastSetPoseTime
    BY <1>3 DEF BeginUpdate, inputs
  <2>2. CASE UNCHANGED <<filter, measurementQueue, histories>>
    BY <2>1, <2>2, IsolationStutter DEF histories
  <2>3. CASE \E m \in Top : RevertTo(m.time - 1)
    <3>1. PICK m \in Top : RevertTo(m.time - 1)
      BY <2>3
    <3>2. /\ \/ filter' = filter
             \/ \E i \in DOMAIN stateHistory :
                  filter'.estimate = stateHistory[i].estimate
          /\ \A i \in DOMAIN stateHistory' :
               \E j \in DOMAIN stateHistory : stateHistory'[i] = stateHistory[j]
          /\ \A i \in DOMAIN measurementHistory' :
               \E j \in DOMAIN measurementHistory :
                 measurementHistory'[i] = measurementHistory[j]
          /\ \A n \in measurementQueue' :
               \/ n \in measurementQueue
               \/ \E j \in DOMAIN measurementHistory : n = measurementHistory[j]
      BY <3>1, RevertToStates
    <3>3. \A n \in Fused(filter'.estimate) : lastSetPoseTime < n.time
      BY <3>2 DEF IsolationInv, SetPoseIsolates
    <3>4. \A i \in DOMAIN stateHistory' :
            \A n \in Fused(stateHistory'[i].estimate) : lastSetPoseTime < n.time
      BY <3>2 DEF IsolationInv
    <3>5. /\ \A i \in DOMAIN measurementHistory' :
               lastSetPoseTime < measurementHistory'[i].time
          /\ \A n \in measurementQueue' : lastSetPoseTime < n.time
      BY <3>2 DEF IsolationInv
    <3>6. QED
      BY <2>1, <3>3, <3>4, <3>5 DEF IsolationInv, SetPoseIsolates, Fused
  <2>4. QED
    BY <1>3, <2>2, <2>3 DEF BeginUpdate
<1>4. ASSUME NEW m \in measurementQueue, IntegrateOne(m)
      PROVE  IsolationInv'
  <2>1. /\ lastSetPoseTime' = lastSetPoseTime /\ measurementQueue' \subseteq measurementQueue
        /\ lastSetPoseTime < m.time
    BY <1>4 DEF IntegrateOne, inputs, IsolationInv
  <2>2. \A n \in Fused(filter'.estimate) : lastSetPoseTime < n.time
    <3>1. filter'.estimate = Append(filter.estimate, m)
      BY <1>4, IntegrateOneStates
    <3>2. filter.estimate \in Seq(Measurement) /\ m \in Measurement
      BY <1>0 DEF Filter, Estimate, TypeOK
    <3>3. \A i \in DOMAIN filter'.estimate :
            \/ filter'.estimate[i] = m
            \/ \E j \in DOMAIN filter.estimate : filter'.estimate[i] = filter.estimate[j]
      BY <3>1, <3>2, AppendType
    <3>4. QED
      BY <2>1, <3>3 DEF Fused, IsolationInv, SetPoseIsolates
  <2>3. \A i \in DOMAIN stateHistory' :
          \A n \in Fused(stateHistory'[i].estimate) : lastSetPoseTime < n.time
    <3>1. \A i \in DOMAIN stateHistory' :
            \/ stateHistory'[i] = [estimate |-> filter'.estimate, time |-> filter'.time]
            \/ \E j \in DOMAIN stateHistory : stateHistory'[i] = stateHistory[j]
      BY <1>4, IntegrateOneStates
    <3>2. \A i \in DOMAIN stateHistory' :
            \/ stateHistory'[i].estimate = filter'.estimate
            \/ \E j \in DOMAIN stateHistory :
                 stateHistory'[i].estimate = stateHistory[j].estimate
      BY <3>1
    <3>3. QED
      BY <2>2, <3>2 DEF IsolationInv
  <2>4. \A i \in DOMAIN measurementHistory' :
          lastSetPoseTime < measurementHistory'[i].time
    <3>1. \A i \in DOMAIN measurementHistory' :
            \/ measurementHistory'[i] = m
            \/ \E j \in DOMAIN measurementHistory :
                 measurementHistory'[i] = measurementHistory[j]
      BY <1>4, IntegrateOneStates
    <3>2. QED
      BY <2>1, <3>1 DEF IsolationInv
  <2>5. QED
    BY <2>1, <2>2, <2>3, <2>4 DEF IsolationInv, SetPoseIsolates, Fused
<1>5. CASE FinishUpdate
  <2> DEFINE f == IF Predicts THEN SetLastMeasurementTime(filter, clock) ELSE filter
  <2>1. /\ filter' = f /\ ClearExpiredHistory(f)
        /\ measurementQueue' = measurementQueue /\ lastSetPoseTime' = lastSetPoseTime
    BY <1>5 DEF FinishUpdate, inputs
  <2>2. f.estimate = filter.estimate
    BY <1>0 DEF Filter, SetLastMeasurementTime
  <2> HIDE DEF f
  <2>3. QED
    BY <2>1, <2>2, IsolationExpiry
<1>6. CASE UpdateToggledOff
  <2> DEFINE f == IF filter.initialized THEN SetLastMeasurementTime(filter, clock)
                  ELSE filter
  <2>1. /\ filter' = f /\ ClearExpiredHistory(f)
        /\ measurementQueue' = {} /\ lastSetPoseTime' = lastSetPoseTime
    BY <1>6 DEF UpdateToggledOff, inputs
  <2>2. f.estimate = filter.estimate
    BY <1>0 DEF Filter, SetLastMeasurementTime
  <2> HIDE DEF f
  <2>3. QED
    BY <2>1, <2>2, IsolationExpiry
<1>7. ASSUME NEW topic \in Topics, NEW stamp \in Stamps,
             NEW poseTf \in BOOLEAN, NEW twistTf \in BOOLEAN,
             SensorCallback(topic, stamp, poseTf, twistTf)
      PROVE  IsolationInv'
  <2>1. /\ lastSetPoseTime < stamp /\ lastSetPoseTime' = lastSetPoseTime
        /\ UNCHANGED <<filter, stateHistory, measurementHistory>>
        /\ measurementQueue' \subseteq measurementQueue \cup {MeasurementOf(topic, stamp)}
    BY <1>7 DEF SensorCallback, AcceptsMessage, histories
  <2>2. MeasurementOf(topic, stamp).time = stamp
    BY DEF MeasurementOf
  <2>3. \A m \in measurementQueue' : lastSetPoseTime < m.time
    BY <2>1, <2>2 DEF IsolationInv
  <2>4. QED
    BY <2>1, <2>3 DEF IsolationInv, SetPoseIsolates, Fused
<1>8. CASE ControlCallback
  <2>1. filter'.estimate = filter.estimate
    BY <1>0, <1>8 DEF ControlCallback, Filter
  <2>2. QED
    BY <1>8, <2>1, IsolationStutter DEF ControlCallback, inputs, histories
<1>9. CASE ResetSrv
  BY <1>1, <1>9 DEF ResetSrv
<1>10. ASSUME NEW stamp \in Stamps, SetPose(stamp)
       PROVE  IsolationInv'
  <2>1. /\ filter'.estimate = <<>> /\ measurementQueue' = {}
        /\ stateHistory' = <<>> /\ measurementHistory' = <<>>
    BY <1>0, <1>10 DEF SetPose, ClearHistories, Filter
  <2>2. QED
    BY <2>1, IsolationCleared
<1>11. CASE ToggleFilterProcessing
  BY <1>11, IsolationStutter DEF ToggleFilterProcessing, inputs, histories
<1>12. CASE EnableFilter
  BY <1>12, IsolationStutter DEF EnableFilter, inputs, histories
<1>13. CASE OnConfigure
  BY <1>13, IsolationStutter DEF OnConfigure, inputs, histories
<1>14. CASE OnActivate
  BY <1>14, IsolationStutter DEF OnActivate, inputs, histories
<1>15. CASE OnCleanup
  BY <1>15, IsolationStutter DEF OnCleanup, inputs, histories
<1>16. CASE OnShutdown
  BY <1>16, IsolationStutter DEF OnShutdown, inputs, histories
<1>17. CASE OnDeactivate
  BY <1>1, <1>17 DEF OnDeactivate
<1>18. CASE UNCHANGED vars
  BY <1>18, IsolationStutter DEF vars, inputs, histories
<1>19. QED
  BY <1>2, <1>3, <1>4, <1>5, <1>6, <1>7, <1>8, <1>9, <1>10, <1>11, <1>12, <1>13, <1>14, <1>15, <1>16, <1>17, <1>18
  DEF Next, Update, Environment

\* After set_pose nothing stamped at or before it enters the estimate, in any
\* configuration: not from the queue, not by replay, not by reverting to a
\* state saved before.
THEOREM SetPoseIsIsolated == Spec => []SetPoseIsolates
<1>1. Init => IsolationInv
  BY DEF Init, IsolationInv, SetPoseIsolates, Fused
<1>2. IsolationInv => SetPoseIsolates
  BY DEF IsolationInv
<1>3. QED
  BY <1>1, <1>2, IsolationStep, TypeCorrect, PTL DEF Spec

-----------------------------------------------------------------------------
(* The kinds of steps, as far as the queue, the histories and the estimate are *)
(* concerned.                                                                 *)

\* The estimate, and everything it is made from, stays; the clock may tick.
Quiet ==
  /\ UNCHANGED <<pc, measurementQueue, stateHistory, measurementHistory, processed, revertedShort>>
  /\ filter'.estimate = filter.estimate /\ filter'.time = filter.time
  /\ clock' = clock \/ clock' = clock + 1
  /\ count'["measurement"] = count["measurement"]

\* A sensor message may add a measurement with a new number to the queue.
Enqueued ==
  /\ pc = "idle" /\ pc' = "idle"
  /\ \E m \in Measurement :
       /\ m.id = count["measurement"] + 1
       /\ measurementQueue' \in {measurementQueue, measurementQueue \cup {m}}
  /\ count'["measurement"] = count["measurement"] + 1
  /\ UNCHANGED <<clock, filter, stateHistory, measurementHistory, processed, revertedShort>>

\* A reset or a set_pose.
Cleared ==
  /\ pc = "idle" /\ pc' = "idle"
  /\ measurementQueue' = {} /\ stateHistory' = <<>> /\ measurementHistory' = <<>>
  /\ processed' = {} /\ revertedShort' = FALSE /\ filter'.estimate = <<>>
  /\ clock' = clock /\ count'["measurement"] = count["measurement"]

\* An update begins with a queue that is not earlier than the filter, or
\* without smoothing.
Started ==
  /\ pc = "idle" /\ pc' = IF measurementQueue = {} THEN "timeout" ELSE "integrate"
  /\ SmoothLaggedData => \A m \in Top : filter.time <= m.time
  /\ UNCHANGED <<clock, filter, measurementQueue, stateHistory, measurementHistory, processed,
                 revertedShort>>
  /\ count'["measurement"] = count["measurement"]

\* Or it begins with a revert.
Reverted(m) ==
  /\ SmoothLaggedData /\ pc = "idle" /\ pc' = "integrate"
  /\ m \in Top /\ m.time < filter.time /\ RevertTo(m.time - 1)
  /\ UNCHANGED <<clock, processed>> /\ count'["measurement"] = count["measurement"]

\* The end of an update, or an update with processing toggled off.
Ended ==
  /\ pc' = "idle" /\ (pc = "integrate" => \A m \in Top : ~Due(m))
  /\ filter'.estimate = filter.estimate /\ filter'.time \in {filter.time, clock}
  /\ ClearExpiredHistory(filter')
  /\ measurementQueue' \in {measurementQueue, {}}
  /\ UNCHANGED <<clock, processed, revertedShort>>
  /\ count'["measurement"] = count["measurement"]

\* All measurements on top carry the same stamp.
LEMMA TopTimes ==
  ASSUME TypeOK, NEW m \in Top
  PROVE  /\ m \in measurementQueue /\ m \in Measurement /\ m.time \in Nat
         /\ \A n \in measurementQueue : m.time <= n.time
         /\ \A n \in Top : n.time = m.time
<1>1. m \in measurementQueue /\ \A n \in measurementQueue : m.time <= n.time
  BY DEF Top
<1>2. \A n \in measurementQueue : n \in Measurement /\ n.time \in Nat
  BY DEF TypeOK, Measurement, Time
<1>3. \A n \in Top : n \in measurementQueue /\ n.time <= m.time
  BY <1>1 DEF Top
<1>4. ASSUME NEW n \in Top PROVE n.time = m.time
  BY <1>1, <1>2, <1>3
<1>5. QED
  BY <1>1, <1>2, <1>4

LEMMA StepKinds ==
  ASSUME TypeOK, [Next]_vars
  PROVE  \/ Quiet
         \/ Enqueued
         \/ Cleared
         \/ Started
         \/ \E m \in measurementQueue : Reverted(m)
         \/ \E m \in measurementQueue : IntegrateOne(m)
         \/ Ended
<1> DEFINE Goal == \/ Quiet \/ Enqueued \/ Cleared \/ Started
                   \/ \E m \in measurementQueue : Reverted(m)
                   \/ \E m \in measurementQueue : IntegrateOne(m)
                   \/ Ended
<1>0. /\ filter \in Filter /\ clock \in Nat /\ filter.time \in Nat
      /\ count \in [{"measurement", "command"} -> Nat]
  BY DEF TypeOK, Filter, Time
<1>1. ASSUME Command PROVE pc = "idle" /\ count'["measurement"] = count["measurement"]
  BY <1>0, <1>1 DEF Command
<1>2. ASSUME UNCHANGED <<clock, pc, measurementQueue, filter, histories, ghosts>>,
             count'["measurement"] = count["measurement"]
      PROVE  Goal
  BY <1>2 DEF Quiet, histories, ghosts
<1>3. CASE Tick
  BY <1>3 DEF Tick, Quiet, histories, ghosts
<1>4. CASE BeginUpdate
  <2>1. /\ pc = "idle" /\ pc' = IF measurementQueue = {} THEN "timeout" ELSE "integrate"
        /\ UNCHANGED <<clock, processed>> /\ count' = count
    BY <1>4 DEF BeginUpdate, CanUpdate
  <2>2. CASE SmoothLaggedData /\ \E m \in Top : m.time < filter.time
    <3>1. PICK m \in Top : RevertTo(m.time - 1)
      BY <1>4, <2>2 DEF BeginUpdate
    <3>2. m \in measurementQueue /\ m.time < filter.time
      BY <2>2, TopTimes
    <3>3. QED
      BY <2>1, <2>2, <3>1, <3>2 DEF Reverted
  <2>3. CASE ~(SmoothLaggedData /\ \E m \in Top : m.time < filter.time)
    <3>1. UNCHANGED <<filter, measurementQueue, histories, revertedShort>>
      BY <1>4, <2>3 DEF BeginUpdate
    <3>2. SmoothLaggedData => \A m \in Top : filter.time <= m.time
      BY <1>0, <2>3, TopTimes
    <3>3. QED
      BY <2>1, <3>1, <3>2 DEF Started, histories
  <2>4. QED
    BY <2>2, <2>3
<1>5. CASE FinishUpdate
  <2> DEFINE f == IF Predicts THEN SetLastMeasurementTime(filter, clock) ELSE filter
  <2>1. f.estimate = filter.estimate /\ f.time \in {filter.time, clock}
    BY <1>0 DEF SetLastMeasurementTime, Filter
  <2>2. /\ pc' = "idle" /\ (pc = "integrate" => \A m \in Top : ~Due(m))
        /\ filter' = f /\ ClearExpiredHistory(f)
        /\ UNCHANGED <<clock, measurementQueue, count, ghosts>>
    BY <1>5 DEF FinishUpdate
  <2> HIDE DEF f
  <2>3. QED
    BY <2>1, <2>2 DEF Ended, ghosts
<1>6. CASE UpdateToggledOff
  <2> DEFINE f == IF filter.initialized THEN SetLastMeasurementTime(filter, clock) ELSE filter
  <2>1. f.estimate = filter.estimate /\ f.time \in {filter.time, clock}
    BY <1>0 DEF SetLastMeasurementTime, Filter
  <2>2. /\ pc = "idle" /\ pc' = pc
        /\ filter' = f /\ ClearExpiredHistory(f) /\ measurementQueue' = {}
        /\ UNCHANGED <<clock, count, ghosts>>
    BY <1>6 DEF UpdateToggledOff, CanUpdate
  <2> HIDE DEF f
  <2>3. QED
    BY <2>1, <2>2 DEF Ended, ghosts
<1>7. ASSUME NEW topic \in Topics, NEW stamp \in Stamps,
             NEW poseTf \in BOOLEAN, NEW twistTf \in BOOLEAN,
             SensorCallback(topic, stamp, poseTf, twistTf)
      PROVE  Goal
  <2> DEFINE m == MeasurementOf(topic, stamp)
  <2>1. stamp \in Nat
    BY ConfigAssumption DEF Stamps
  <2>2. m \in Measurement
    BY <1>7, <2>1, MeasurementOfType DEF SensorCallback
  <2>3. m.id = count["measurement"] + 1
    BY DEF MeasurementOf
  <2> HIDE DEF m
  <2>4. /\ pc = "idle" /\ pc' = pc
        /\ measurementQueue' \in {measurementQueue, measurementQueue \cup {m}}
        /\ count' = [count EXCEPT !["measurement"] = @ + 1]
        /\ UNCHANGED <<clock, filter, stateHistory, measurementHistory, processed, revertedShort>>
    BY <1>7 DEF SensorCallback, m, histories, ghosts
  <2>5. count'["measurement"] = count["measurement"] + 1
    BY <1>0, <2>4
  <2>6. QED
    BY <2>2, <2>3, <2>4, <2>5 DEF Enqueued
<1>8. CASE ControlCallback
  <2>1. filter'.estimate = filter.estimate /\ filter'.time = filter.time
    BY <1>0, <1>8 DEF ControlCallback, Filter
  <2>2. QED
    BY <1>1, <1>8, <2>1 DEF ControlCallback, Quiet, histories, ghosts
<1>9. ASSUME Reset, Command PROVE Goal
  <2>1. filter'.estimate = <<>>
    BY <1>0, <1>9 DEF Reset, ResetFilter, Filter
  <2>2. QED
    BY <1>1, <1>9, <2>1 DEF Reset, ClearHistories, Cleared
<1>10. CASE ResetSrv
  BY <1>9, <1>10 DEF ResetSrv
<1>11. CASE OnDeactivate
  BY <1>9, <1>11 DEF OnDeactivate
<1>12. ASSUME NEW stamp \in Stamps, SetPose(stamp) PROVE Goal
  <2>1. filter'.estimate = <<>>
    BY <1>0, <1>12 DEF SetPose, Filter
  <2>2. QED
    BY <1>1, <1>12, <2>1 DEF SetPose, ClearHistories, Cleared
<1>13. CASE ToggleFilterProcessing
  BY <1>1, <1>2, <1>13 DEF ToggleFilterProcessing
<1>14. CASE EnableFilter
  BY <1>1, <1>2, <1>14 DEF EnableFilter
<1>15. CASE OnConfigure
  BY <1>1, <1>2, <1>15 DEF OnConfigure
<1>16. CASE OnActivate
  BY <1>1, <1>2, <1>16 DEF OnActivate
<1>17. CASE OnCleanup
  BY <1>1, <1>2, <1>17 DEF OnCleanup
<1>18. CASE OnShutdown
  BY <1>1, <1>2, <1>18 DEF OnShutdown
<1>19. CASE UNCHANGED vars
  BY <1>2, <1>19 DEF vars
<1>20. QED
  BY <1>3, <1>4, <1>5, <1>6, <1>7, <1>8, <1>10, <1>11, <1>12, <1>13, <1>14, <1>15, <1>16, <1>17,
     <1>18, <1>19
  DEF Next, Update, Environment

-----------------------------------------------------------------------------
\* What the steps do to the sequences, entry by entry.

\* A set of stamped records that is not empty has an earliest one: the
\* priority queue has a top.
LEMMA Earliest ==
  ASSUME NEW S, S # {}, \A m \in S : m.time \in Nat
  PROVE  \E m \in S : \A n \in S : m.time <= n.time
<1> DEFINE T == {m.time : m \in S}
           R == OpToRel(<, Nat)
<1>1. T \subseteq Nat /\ T # {}
  OBVIOUS
<1>2. IsWellFoundedOn(R, Nat)
  BY NatLessThanWellFounded
<1>3. PICK t \in T : \A u \in T : ~(<<u, t>> \in R)
  <2> HIDE DEF T, R
  <2> QED
    BY <1>1, <1>2, WFMin
<1>4. \A u \in T : ~(u < t)
  BY <1>1, <1>3 DEF OpToRel
<1>5. PICK m \in S : m.time = t
  OBVIOUS
<1>6. \A n \in S : n.time \in T
  OBVIOUS
<1> HIDE DEF T, R
<1>7. \A n \in S : ~(n.time < m.time) /\ n.time \in Nat
  BY <1>1, <1>4, <1>5, <1>6
<1>8. \A n \in S : m.time <= n.time
  BY <1>7
<1>9. QED
  BY <1>8

\* The measurements in a lineage that is extended, and in an empty one.
LEMMA FusedAppend ==
  ASSUME NEW e \in Seq(Measurement), NEW m \in Measurement
  PROVE  Fused(Append(e, m)) = Fused(e) \cup {m}
<1>1. Len(e) \in Nat /\ DOMAIN e = 1..Len(e)
  BY LenProperties
<1>2. /\ Append(e, m) \in Seq(Measurement)
      /\ Len(Append(e, m)) = Len(e) + 1
      /\ \A i \in 1..Len(e) : Append(e, m)[i] = e[i]
      /\ Append(e, m)[Len(e) + 1] = m
  BY AppendProperties
<1>3. DOMAIN Append(e, m) = 1..(Len(e) + 1)
  BY <1>2, LenProperties
<1>4. \A i \in 1..(Len(e) + 1) : i \in 1..Len(e) \/ i = Len(e) + 1
  BY <1>1
<1>5. 1..Len(e) \subseteq 1..(Len(e) + 1) /\ Len(e) + 1 \in 1..(Len(e) + 1)
  BY <1>1
<1>6. Fused(Append(e, m)) \subseteq Fused(e) \cup {m}
  BY <1>1, <1>2, <1>3, <1>4 DEF Fused
<1>7. Fused(e) \cup {m} \subseteq Fused(Append(e, m))
  BY <1>1, <1>2, <1>3, <1>5 DEF Fused
<1>8. QED
  BY <1>6, <1>7

\* The types of the entries.
LEMMA HistoryTypes ==
  ASSUME TypeOK
  PROVE  /\ clock \in Nat /\ filter.time \in Nat /\ filter.estimate \in Seq(Measurement)
         /\ stateHistory \in Seq(FilterState) /\ measurementHistory \in Seq(Measurement)
         /\ Len(stateHistory) \in Nat /\ DOMAIN stateHistory = 1..Len(stateHistory)
         /\ Len(measurementHistory) \in Nat
         /\ DOMAIN measurementHistory = 1..Len(measurementHistory)
         /\ \A i \in 1..Len(stateHistory) :
              /\ stateHistory[i].time \in Nat
              /\ stateHistory[i].estimate \in Seq(Measurement)
         /\ \A i \in 1..Len(measurementHistory) :
              measurementHistory[i] \in Measurement /\ measurementHistory[i].time \in Nat
         /\ \A m \in measurementQueue \cup processed :
              m \in Measurement /\ m.time \in Nat /\ m.id \in Nat
         /\ count["measurement"] \in Nat
<1>1. clock \in Nat /\ filter.time \in Nat /\ filter.estimate \in Seq(Measurement)
  BY DEF TypeOK, Filter, Time, Estimate
<1>2. stateHistory \in Seq(FilterState) /\ measurementHistory \in Seq(Measurement)
  BY DEF TypeOK
<1>3. /\ Len(stateHistory) \in Nat /\ DOMAIN stateHistory = 1..Len(stateHistory)
      /\ Len(measurementHistory) \in Nat
      /\ DOMAIN measurementHistory = 1..Len(measurementHistory)
  BY <1>2, LenProperties
<1>4. \A i \in 1..Len(stateHistory) : stateHistory[i] \in FilterState
  BY <1>2, ElementOfSeq
<1>5. \A i \in 1..Len(measurementHistory) : measurementHistory[i] \in Measurement
  BY <1>2, ElementOfSeq
<1>6. \A m \in Measurement : m.time \in Nat /\ m.id \in Nat
  BY DEF Measurement, Time
<1>7. \A s \in FilterState : s.time \in Nat /\ s.estimate \in Seq(Measurement)
  BY DEF FilterState, Time, Estimate
<1>8. \A m \in measurementQueue \cup processed : m \in Measurement
  BY DEF TypeOK
<1>9. count["measurement"] \in Nat
  BY DEF TypeOK
<1>10. QED
  BY <1>1, <1>2, <1>3, <1>4, <1>5, <1>6, <1>7, <1>8, <1>9

\* A part of a sequence, entry by entry.
LEMMA SubSeqEntries ==
  ASSUME NEW S, NEW s \in Seq(S), NEW a \in 1..(Len(s) + 1), NEW b \in 0..Len(s), a <= b + 1
  PROVE  /\ Len(SubSeq(s, a, b)) = b - a + 1
         /\ DOMAIN SubSeq(s, a, b) = 1..(b - a + 1)
         /\ \A i \in 1..(b - a + 1) : SubSeq(s, a, b)[i] = s[a + i - 1]
<1>1. Len(s) \in Nat /\ DOMAIN s = 1..Len(s)
  BY LenProperties
<1>2. a \in Int /\ b \in Int
  BY <1>1
<1>3. \A i \in a..b : s[i] \in S
  BY <1>1, ElementOfSeq
<1>4. /\ SubSeq(s, a, b) \in Seq(S)
      /\ Len(SubSeq(s, a, b)) = IF a <= b THEN b - a + 1 ELSE 0
      /\ \A i \in 1..(b - a + 1) : SubSeq(s, a, b)[i] = s[a + i - 1]
  BY <1>2, <1>3, SubSeqProperties
<1>5. DOMAIN SubSeq(s, a, b) = 1..Len(SubSeq(s, a, b))
  BY <1>4, LenProperties
<1>6. Len(SubSeq(s, a, b)) = b - a + 1
  BY <1>2, <1>4
<1>7. QED
  BY <1>4, <1>5, <1>6

\* A revert: the first k states and the first j measurements of the histories,
\* all earlier than the lagged measurement m, are kept; the state restored is
\* the last one kept, or the oldest.
LEMMA RevertEntries ==
  ASSUME TypeOK, NEW m, Reverted(m), stateHistory # <<>>
  PROVE  \E k \in 0..Len(stateHistory), j \in 0..Len(measurementHistory) :
           LET i == IF k > 0 THEN k ELSE 1
           IN /\ Len(stateHistory) > 0
              /\ filter'.time = stateHistory[i].time
              /\ filter'.estimate = stateHistory[i].estimate
              /\ k > 0 => stateHistory[k].time < m.time
              /\ \A n \in (k + 1)..Len(stateHistory) : m.time <= stateHistory[n].time
              /\ j > 0 => measurementHistory[j].time < m.time
              /\ \A n \in (j + 1)..Len(measurementHistory) :
                   m.time <= measurementHistory[n].time
              /\ Len(stateHistory') = k /\ DOMAIN stateHistory' = 1..k
              /\ \A n \in 1..k : stateHistory'[n] = stateHistory[n]
              /\ Len(measurementHistory') = j /\ DOMAIN measurementHistory' = 1..j
              /\ \A n \in 1..j : measurementHistory'[n] = measurementHistory[n]
              /\ measurementQueue' = measurementQueue \cup
                   {x \in {measurementHistory[n] : n \in (j + 1)..Len(measurementHistory)} :
                      stateHistory[i].time <= x.time}
              /\ ~revertedShort' => ~revertedShort /\ k > 0
<1>1. PICK k \in 0..Len(stateHistory), j \in 0..Len(measurementHistory) :
        /\ PopBackLeaves(stateHistory, m.time - 1, k)
        /\ PopBackLeaves(measurementHistory, m.time - 1, j)
        /\ filter' = [filter EXCEPT !.estimate = RevertTarget(k).estimate,
                                    !.time = RevertTarget(k).time]
        /\ stateHistory' = SubSeq(stateHistory, 1, k)
        /\ measurementHistory' = SubSeq(measurementHistory, 1, j)
        /\ measurementQueue' = measurementQueue \cup Restored(RevertTarget(k), j)
        /\ revertedShort' = (revertedShort \/ k = 0)
  BY DEF Reverted, RevertTo
<1>2. m.time \in Nat
  BY TopTimes DEF Reverted
<1>3. Len(stateHistory) \in Nat /\ Len(measurementHistory) \in Nat /\ Len(stateHistory) > 0
  BY HistoryTypes, EmptySeq
<1> DEFINE i == IF k > 0 THEN k ELSE 1
<1>4. i \in 1..Len(stateHistory) /\ RevertTarget(k) = stateHistory[i]
  BY <1>3 DEF RevertTarget
<1>5. filter \in Filter
  BY DEF TypeOK
<1>6. filter'.time = stateHistory[i].time /\ filter'.estimate = stateHistory[i].estimate
  BY <1>1, <1>4, <1>5 DEF Filter
<1>7. /\ \A n \in 1..Len(stateHistory) : stateHistory[n].time \in Nat
      /\ \A n \in 1..Len(measurementHistory) : measurementHistory[n].time \in Nat
  BY HistoryTypes
<1>8. /\ k > 0 => stateHistory[k].time < m.time
      /\ \A n \in (k + 1)..Len(stateHistory) : m.time <= stateHistory[n].time
  <2>1. /\ k > 0 => stateHistory[k].time <= m.time - 1
        /\ \A n \in (k + 1)..Len(stateHistory) : stateHistory[n].time > m.time - 1
    BY <1>1 DEF PopBackLeaves
  <2>2. k > 0 => k \in 1..Len(stateHistory)
    BY <1>3
  <2>3. \A n \in (k + 1)..Len(stateHistory) : n \in 1..Len(stateHistory)
    BY <1>3
  <2>4. QED
    BY <1>2, <1>7, <2>1, <2>2, <2>3
<1>9. /\ j > 0 => measurementHistory[j].time < m.time
      /\ \A n \in (j + 1)..Len(measurementHistory) : m.time <= measurementHistory[n].time
  <2>1. /\ j > 0 => measurementHistory[j].time <= m.time - 1
        /\ \A n \in (j + 1)..Len(measurementHistory) :
             measurementHistory[n].time > m.time - 1
    BY <1>1 DEF PopBackLeaves
  <2>2. j > 0 => j \in 1..Len(measurementHistory)
    BY <1>3
  <2>3. \A n \in (j + 1)..Len(measurementHistory) : n \in 1..Len(measurementHistory)
    BY <1>3
  <2>4. QED
    BY <1>2, <1>7, <2>1, <2>2, <2>3
<1>10. /\ Len(stateHistory') = k /\ DOMAIN stateHistory' = 1..k
       /\ \A n \in 1..k : stateHistory'[n] = stateHistory[n]
  <2>1. /\ Len(SubSeq(stateHistory, 1, k)) = k - 1 + 1
        /\ DOMAIN SubSeq(stateHistory, 1, k) = 1..(k - 1 + 1)
        /\ \A n \in 1..(k - 1 + 1) : SubSeq(stateHistory, 1, k)[n] = stateHistory[1 + n - 1]
    <3>1. /\ stateHistory \in Seq(FilterState) /\ 1 \in 1..(Len(stateHistory) + 1)
          /\ k \in 0..Len(stateHistory) /\ 1 <= k + 1
      BY <1>3, HistoryTypes
    <3>2. QED
      BY <3>1, SubSeqEntries
  <2>2. k - 1 + 1 = k /\ \A n \in 1..k : 1 + n - 1 = n
    BY <1>3
  <2>3. QED
    BY <1>1, <2>1, <2>2
<1>11. /\ Len(measurementHistory') = j /\ DOMAIN measurementHistory' = 1..j
       /\ \A n \in 1..j : measurementHistory'[n] = measurementHistory[n]
  <2>1. /\ Len(SubSeq(measurementHistory, 1, j)) = j - 1 + 1
        /\ DOMAIN SubSeq(measurementHistory, 1, j) = 1..(j - 1 + 1)
        /\ \A n \in 1..(j - 1 + 1) :
             SubSeq(measurementHistory, 1, j)[n] = measurementHistory[1 + n - 1]
    <3>1. /\ measurementHistory \in Seq(Measurement)
          /\ 1 \in 1..(Len(measurementHistory) + 1)
          /\ j \in 0..Len(measurementHistory) /\ 1 <= j + 1
      BY <1>3, HistoryTypes
    <3>2. QED
      BY <3>1, SubSeqEntries
  <2>2. j - 1 + 1 = j /\ \A n \in 1..j : 1 + n - 1 = n
    BY <1>3
  <2>3. QED
    BY <1>1, <2>1, <2>2
<1>12. measurementQueue' = measurementQueue \cup
         {x \in {measurementHistory[n] : n \in (j + 1)..Len(measurementHistory)} :
            stateHistory[i].time <= x.time}
  BY <1>1, <1>4 DEF Restored
<1>13. ~revertedShort' => ~revertedShort /\ k > 0
  <2>1. ~revertedShort' => ~revertedShort /\ k # 0
    BY <1>1, Zenon
  <2>2. k # 0 => k > 0
    BY <1>3
  <2>3. QED
    BY <2>1, <2>2
<1> HIDE DEF i
<1>14. QED
  <2>1. i = IF k > 0 THEN k ELSE 1
    BY DEF i
  <2>2. QED
    BY <1>3, <1>6, <1>8, <1>9, <1>10, <1>11, <1>12, <1>13, <2>1

\* The end of an update: the first k states and the first j measurements of the
\* histories, those stamped before c, are dropped.
LEMMA ExpiryEntries ==
  ASSUME TypeOK, filter'.time \in Nat, Ended
  PROVE  \E c \in Nat, k \in 0..Len(stateHistory), j \in 0..Len(measurementHistory) :
           /\ \A i \in 1..k : stateHistory[i].time < c
           /\ k < Len(stateHistory) => c <= stateHistory[k + 1].time
           /\ \A i \in 1..j : measurementHistory[i].time < c
           /\ j < Len(measurementHistory) => c <= measurementHistory[j + 1].time
           /\ Len(stateHistory') = Len(stateHistory) - k
           /\ DOMAIN stateHistory' = 1..(Len(stateHistory) - k)
           /\ \A i \in 1..(Len(stateHistory) - k) : stateHistory'[i] = stateHistory[i + k]
           /\ Len(measurementHistory') = Len(measurementHistory) - j
           /\ DOMAIN measurementHistory' = 1..(Len(measurementHistory) - j)
           /\ \A i \in 1..(Len(measurementHistory) - j) :
                measurementHistory'[i] = measurementHistory[i + j]
<1> DEFINE Kept(c, k, j) ==
             /\ \A i \in 1..k : stateHistory[i].time < c
             /\ k < Len(stateHistory) => c <= stateHistory[k + 1].time
             /\ \A i \in 1..j : measurementHistory[i].time < c
             /\ j < Len(measurementHistory) => c <= measurementHistory[j + 1].time
             /\ Len(stateHistory') = Len(stateHistory) - k
             /\ DOMAIN stateHistory' = 1..(Len(stateHistory) - k)
             /\ \A i \in 1..(Len(stateHistory) - k) : stateHistory'[i] = stateHistory[i + k]
             /\ Len(measurementHistory') = Len(measurementHistory) - j
             /\ DOMAIN measurementHistory' = 1..(Len(measurementHistory) - j)
             /\ \A i \in 1..(Len(measurementHistory) - j) :
                  measurementHistory'[i] = measurementHistory[i + j]
<1> DEFINE a == Len(stateHistory)
           b == Len(measurementHistory)
<1>1. a \in Nat /\ b \in Nat
  BY HistoryTypes
<1>2. /\ \A i \in 1..a : stateHistory[i].time \in Nat
      /\ \A i \in 1..b : measurementHistory[i].time \in Nat
  BY HistoryTypes
<1>3. ClearExpiredHistory(filter')
  BY DEF Ended
<1>4. CASE UNCHANGED histories
  <2>1. /\ stateHistory' = stateHistory /\ measurementHistory' = measurementHistory
        /\ DOMAIN stateHistory = 1..a /\ DOMAIN measurementHistory = 1..b
    BY <1>4, HistoryTypes DEF histories
  <2>2. /\ a - 0 = a /\ b - 0 = b /\ 1..0 = {}
        /\ \A i \in 1..a : i + 0 = i
        /\ \A i \in 1..b : i + 0 = i
    BY <1>1
  <2>3. a > 0 => 0 <= stateHistory[0 + 1].time
    BY <1>1, <1>2
  <2>4. b > 0 => 0 <= measurementHistory[0 + 1].time
    BY <1>1, <1>2
  <2>5. Kept(0, 0, 0)
    BY <2>1, <2>2, <2>3, <2>4
  <2>6. 0 \in Nat /\ 0 \in 0..a /\ 0 \in 0..b
    BY <1>1
  <2> HIDE DEF Kept
  <2>7. \E c \in Nat, k \in 0..Len(stateHistory), j \in 0..Len(measurementHistory) :
          Kept(c, k, j)
    BY <2>5, <2>6
  <2>8. QED
    BY <2>7 DEF Kept
<1>5. CASE ~UNCHANGED histories
  <2> DEFINE c == filter'.time - HistoryLength
  <2>1. PICK k \in 0..Len(stateHistory), j \in 0..Len(measurementHistory) :
          /\ PopFrontRemoves(stateHistory, c, k)
          /\ PopFrontRemoves(measurementHistory, c, j)
          /\ stateHistory' = SubSeq(stateHistory, k + 1, Len(stateHistory))
          /\ measurementHistory' =
               SubSeq(measurementHistory, j + 1, Len(measurementHistory))
    BY <1>3, <1>5 DEF ClearExpiredHistory
  <2>2. filter'.time > HistoryLength
    BY <1>3, <1>5 DEF ClearExpiredHistory
  <2>3. c \in Nat
    BY <2>2, ConfigAssumption
  <2> HIDE DEF c
  <2>4. /\ \A i \in 1..k : stateHistory[i].time < c
        /\ \A i \in 1..j : measurementHistory[i].time < c
        /\ k < a => stateHistory[k + 1].time >= c
        /\ j < b => measurementHistory[j + 1].time >= c
    BY <2>1 DEF PopFrontRemoves
  <2>5. /\ k < a => c <= stateHistory[k + 1].time
        /\ j < b => c <= measurementHistory[j + 1].time
    <3>1. k < a => k + 1 \in 1..a
      BY <1>1
    <3>2. j < b => j + 1 \in 1..b
      BY <1>1
    <3>3. QED
      BY <1>2, <2>3, <2>4, <3>1, <3>2
  <2>6. /\ Len(stateHistory') = a - k /\ DOMAIN stateHistory' = 1..(a - k)
        /\ \A i \in 1..(a - k) : stateHistory'[i] = stateHistory[i + k]
    <3>1. /\ stateHistory \in Seq(FilterState) /\ k + 1 \in 1..(Len(stateHistory) + 1)
          /\ a \in 0..Len(stateHistory) /\ k + 1 <= a + 1
      BY <1>1, HistoryTypes
    <3>2. /\ Len(SubSeq(stateHistory, k + 1, a)) = a - (k + 1) + 1
          /\ DOMAIN SubSeq(stateHistory, k + 1, a) = 1..(a - (k + 1) + 1)
          /\ \A i \in 1..(a - (k + 1) + 1) :
               SubSeq(stateHistory, k + 1, a)[i] = stateHistory[k + 1 + i - 1]
      BY <3>1, SubSeqEntries
    <3>3. a - (k + 1) + 1 = a - k /\ \A i \in 1..(a - k) : k + 1 + i - 1 = i + k
      BY <1>1
    <3>4. QED
      BY <2>1, <3>2, <3>3
  <2>7. /\ Len(measurementHistory') = b - j /\ DOMAIN measurementHistory' = 1..(b - j)
        /\ \A i \in 1..(b - j) : measurementHistory'[i] = measurementHistory[i + j]
    <3>1. /\ measurementHistory \in Seq(Measurement)
          /\ j + 1 \in 1..(Len(measurementHistory) + 1)
          /\ b \in 0..Len(measurementHistory) /\ j + 1 <= b + 1
      BY <1>1, HistoryTypes
    <3>2. /\ Len(SubSeq(measurementHistory, j + 1, b)) = b - (j + 1) + 1
          /\ DOMAIN SubSeq(measurementHistory, j + 1, b) = 1..(b - (j + 1) + 1)
          /\ \A i \in 1..(b - (j + 1) + 1) :
               SubSeq(measurementHistory, j + 1, b)[i] = measurementHistory[j + 1 + i - 1]
      BY <3>1, SubSeqEntries
    <3>3. b - (j + 1) + 1 = b - j /\ \A i \in 1..(b - j) : j + 1 + i - 1 = i + j
      BY <1>1
    <3>4. QED
      BY <2>1, <3>2, <3>3
  <2>8. Kept(c, k, j)
    BY <2>4, <2>5, <2>6, <2>7
  <2> HIDE DEF Kept
  <2>9. \E d \in Nat, n \in 0..Len(stateHistory), i \in 0..Len(measurementHistory) :
          Kept(d, n, i)
    BY <2>3, <2>8
  <2>10. QED
    BY <2>9 DEF Kept
<1>6. QED
  BY <1>4, <1>5

\* When an update ends, every measurement left in the queue lies ahead of the
\* clock.
LEMMA NoneDue ==
  ASSUME TypeOK, pc = "integrate", \A m \in Top : ~Due(m)
  PROVE  \A m \in measurementQueue : clock < m.time
<1>1. \A m \in measurementQueue : m.time \in Nat
  BY HistoryTypes
<1>2. SUFFICES ASSUME NEW m \in measurementQueue PROVE clock < m.time
  OBVIOUS
<1>3. PICK n \in measurementQueue : \A x \in measurementQueue : n.time <= x.time
  BY <1>1, Earliest
<1>4. clock < n.time
  BY <1>3 DEF Top, Due
<1>5. clock \in Nat
  BY HistoryTypes
<1>6. QED
  BY <1>1, <1>3, <1>4, <1>5

\* One turn of the loop: m moves from the queue into the estimate and, when
\* smoothing, into the history; the state is saved unless a measurement of the
\* same time is still queued.
LEMMA IntegrateEntries ==
  ASSUME TypeOK, TypeOK', NEW m \in measurementQueue, IntegrateOne(m)
  PROVE  /\ pc = "integrate" /\ pc' = "integrate" /\ m.time <= clock
         /\ \A n \in measurementQueue : m.time <= n.time
         /\ measurementQueue' = measurementQueue \ {m}
         /\ processed' = processed \cup {m}
         /\ UNCHANGED <<clock, revertedShort, count>>
         /\ filter'.estimate = Append(filter.estimate, m)
         /\ filter'.time = IF filter.initialized /\ m.time < filter.time
                           THEN filter.time ELSE m.time
         /\ Fused(filter'.estimate) = Fused(filter.estimate) \cup {m}
         /\ ~SmoothLaggedData => stateHistory' = stateHistory
                                 /\ measurementHistory' = measurementHistory
         /\ SmoothLaggedData =>
              /\ Len(measurementHistory') = Len(measurementHistory) + 1
              /\ DOMAIN measurementHistory' = 1..(Len(measurementHistory) + 1)
              /\ \A i \in 1..Len(measurementHistory) :
                   measurementHistory'[i] = measurementHistory[i]
              /\ measurementHistory'[Len(measurementHistory) + 1] = m
              /\ \/ /\ stateHistory' = stateHistory
                    /\ \E n \in measurementQueue' : n.time = filter'.time
                 \/ /\ Len(stateHistory') = Len(stateHistory) + 1
                    /\ DOMAIN stateHistory' = 1..(Len(stateHistory) + 1)
                    /\ \A i \in 1..Len(stateHistory) : stateHistory'[i] = stateHistory[i]
                    /\ stateHistory'[Len(stateHistory) + 1].time = filter'.time
                    /\ stateHistory'[Len(stateHistory) + 1].estimate = filter'.estimate
<1> DEFINE s == [estimate |-> filter'.estimate, time |-> filter'.time]
           rest == measurementQueue \ {m}
<1>1. /\ pc = "integrate" /\ pc' = pc /\ m \in Top /\ ~(clock < m.time)
      /\ measurementQueue' = rest /\ processed' = processed \cup {m}
      /\ UNCHANGED <<clock, revertedShort, count>>
      /\ ~SmoothLaggedData => UNCHANGED histories
      /\ SmoothLaggedData =>
           /\ measurementHistory' = Append(measurementHistory, m)
           /\ stateHistory' = IF SavesState(filter', rest) THEN Append(stateHistory, s)
                              ELSE stateHistory
  BY DEF IntegrateOne, Due
<1>2. /\ m \in Measurement /\ m.time \in Nat /\ clock \in Nat
      /\ filter.estimate \in Seq(Measurement)
      /\ \A n \in measurementQueue : m.time <= n.time
  BY <1>1, HistoryTypes, TopTimes
<1>3. /\ filter'.estimate = Append(filter.estimate, m)
      /\ filter'.time = IF filter.initialized /\ m.time < filter.time
                        THEN filter.time ELSE m.time
  BY IntegrateOneStates
<1>4. Fused(filter'.estimate) = Fused(filter.estimate) \cup {m}
  BY <1>2, <1>3, FusedAppend
<1>5. m.time <= clock
  BY <1>1, <1>2
<1>6. ASSUME SmoothLaggedData
      PROVE  /\ Len(measurementHistory') = Len(measurementHistory) + 1
             /\ DOMAIN measurementHistory' = 1..(Len(measurementHistory) + 1)
             /\ \A i \in 1..Len(measurementHistory) :
                  measurementHistory'[i] = measurementHistory[i]
             /\ measurementHistory'[Len(measurementHistory) + 1] = m
  <2>1. measurementHistory \in Seq(Measurement)
    BY HistoryTypes
  <2>2. measurementHistory' = Append(measurementHistory, m)
    BY <1>1, <1>6
  <2>3. QED
    BY <1>2, <2>1, <2>2, AppendProperties, LenProperties
<1>7. ASSUME SmoothLaggedData, ~SavesState(filter', rest)
      PROVE  /\ stateHistory' = stateHistory
             /\ \E n \in measurementQueue' : n.time = filter'.time
  <2>1. stateHistory' = stateHistory
    BY <1>1, <1>7
  <2>2. rest # {} /\ \A x \in rest : x.time \in Nat
    BY <1>7, HistoryTypes DEF SavesState
  <2> HIDE DEF rest
  <2>3. PICK n \in rest : \A x \in rest : n.time <= x.time
    BY <2>2, Earliest
  <2>4. n.time = filter'.time
    BY <1>7, <2>3 DEF SavesState
  <2>5. QED
    BY <1>1, <2>1, <2>4
<1>8. ASSUME SmoothLaggedData, SavesState(filter', rest)
      PROVE  /\ Len(stateHistory') = Len(stateHistory) + 1
             /\ DOMAIN stateHistory' = 1..(Len(stateHistory) + 1)
             /\ \A i \in 1..Len(stateHistory) : stateHistory'[i] = stateHistory[i]
             /\ stateHistory'[Len(stateHistory) + 1].time = filter'.time
             /\ stateHistory'[Len(stateHistory) + 1].estimate = filter'.estimate
  <2>1. stateHistory \in Seq(FilterState)
    BY HistoryTypes
  <2>2. s \in FilterState /\ s.time = filter'.time /\ s.estimate = filter'.estimate
    BY DEF TypeOK, FilterState, Filter
  <2>3. stateHistory' = Append(stateHistory, s)
    BY <1>1, <1>8
  <2> HIDE DEF s
  <2>4. QED
    BY <2>1, <2>2, <2>3, AppendProperties, LenProperties
<1>9. ~SmoothLaggedData => stateHistory' = stateHistory
                           /\ measurementHistory' = measurementHistory
  BY <1>1 DEF histories
<1>10. QED
  BY <1>1, <1>2, <1>3, <1>4, <1>5, <1>6, <1>7, <1>8, <1>9

-----------------------------------------------------------------------------
\* What is queued, kept or fused was processed once.

\* Everything in the estimate, in the saved states and in the history has been
\* processed; processed measurements are not ahead of the clock; their numbers
\* tell measurements apart; only a replay has processed ones in the queue.
ProcessedInv ==
  /\ Fused(filter.estimate) \subseteq processed
  /\ \A k \in DOMAIN stateHistory : Fused(stateHistory[k].estimate) \subseteq processed
  /\ \A i \in DOMAIN measurementHistory : measurementHistory[i] \in processed
  /\ \A m \in processed : m.time <= clock
  /\ \A m, n \in measurementQueue \cup processed : m.id = n.id => m = n
  /\ \A m \in measurementQueue \cup processed : m.id <= count["measurement"]
  /\ pc # "integrate" => measurementQueue \cap processed = {}

\* A revert without any saved state only notes that.
LEMMA RevertWithoutState ==
  ASSUME NEW m, Reverted(m), stateHistory = <<>>
  PROVE  /\ UNCHANGED <<filter, measurementQueue, stateHistory, measurementHistory>>
         /\ revertedShort'
BY DEF Reverted, RevertTo, histories

LEMMA ProcessedStep ==
  ASSUME TypeOK, TypeOK', ProcessedInv, [Next]_vars
  PROVE  ProcessedInv'
<1>0. /\ clock \in Nat /\ count["measurement"] \in Nat
      /\ \A m \in measurementQueue \cup processed :
           m \in Measurement /\ m.time \in Nat /\ m.id \in Nat
  BY HistoryTypes
<1>1. CASE Quiet
  <2>1. clock <= clock' /\ clock' \in Nat
    BY <1>0, <1>1 DEF Quiet
  <2>2. \A m \in processed : m.time <= clock'
    BY <1>0, <2>1 DEF ProcessedInv
  <2>3. QED
    BY <1>1, <2>2 DEF Quiet, ProcessedInv, Fused
<1>2. CASE Enqueued
  <2>1. PICK m \in Measurement :
          /\ m.id = count["measurement"] + 1
          /\ measurementQueue' \in {measurementQueue, measurementQueue \cup {m}}
    BY <1>2 DEF Enqueued
  <2>2. /\ pc = "idle" /\ count'["measurement"] = count["measurement"] + 1
        /\ UNCHANGED <<pc, clock, filter, stateHistory, measurementHistory, processed>>
    BY <1>2 DEF Enqueued
  <2>3. measurementQueue' \subseteq measurementQueue \cup {m}
    BY <2>1
  <2>4. \A n \in measurementQueue \cup processed : n.id < m.id
    BY <1>0, <2>1 DEF ProcessedInv
  <2>5. \A n, x \in measurementQueue' \cup processed : n.id = x.id => n = x
    BY <1>0, <2>3, <2>4 DEF ProcessedInv
  <2>6. \A n \in measurementQueue' \cup processed : n.id <= count["measurement"] + 1
    BY <1>0, <2>1, <2>3, <2>4
  <2>7. measurementQueue' \cap processed = {}
    BY <1>0, <2>2, <2>3, <2>4 DEF ProcessedInv
  <2>8. QED
    BY <2>2, <2>5, <2>6, <2>7 DEF ProcessedInv, Fused
<1>3. CASE Cleared
  BY <1>3 DEF Cleared, ProcessedInv, Fused
<1>4. CASE Started
  BY <1>4 DEF Started, ProcessedInv, Fused
<1>5. ASSUME NEW m \in measurementQueue, Reverted(m) PROVE ProcessedInv'
  <2>1. /\ pc = "idle" /\ pc' = "integrate" /\ RevertTo(m.time - 1)
        /\ UNCHANGED <<clock, processed>> /\ count'["measurement"] = count["measurement"]
    BY <1>5 DEF Reverted
  <2>2. /\ \/ filter' = filter
           \/ \E i \in DOMAIN stateHistory : filter'.estimate = stateHistory[i].estimate
        /\ \A i \in DOMAIN stateHistory' :
             \E j \in DOMAIN stateHistory : stateHistory'[i] = stateHistory[j]
        /\ \A i \in DOMAIN measurementHistory' :
             \E j \in DOMAIN measurementHistory :
               measurementHistory'[i] = measurementHistory[j]
        /\ \A n \in measurementQueue' :
             \/ n \in measurementQueue
             \/ \E j \in DOMAIN measurementHistory : n = measurementHistory[j]
    BY <2>1, RevertToStates
  <2>3. Fused(filter'.estimate) \subseteq processed
    BY <2>2 DEF ProcessedInv
  <2>4. \A k \in DOMAIN stateHistory' : Fused(stateHistory'[k].estimate) \subseteq processed
    BY <2>2 DEF ProcessedInv
  <2>5. \A i \in DOMAIN measurementHistory' : measurementHistory'[i] \in processed
    BY <2>2 DEF ProcessedInv
  <2>6. measurementQueue' \subseteq measurementQueue \cup processed
    BY <2>2 DEF ProcessedInv
  <2>7. QED
    BY <2>1, <2>3, <2>4, <2>5, <2>6 DEF ProcessedInv, Fused
<1>6. ASSUME NEW m \in measurementQueue, IntegrateOne(m) PROVE ProcessedInv'
  <2>1. /\ pc' = "integrate" /\ m.time <= clock /\ measurementQueue' = measurementQueue \ {m}
        /\ processed' = processed \cup {m} /\ UNCHANGED <<clock, count>>
        /\ Fused(filter'.estimate) = Fused(filter.estimate) \cup {m}
    BY <1>6, IntegrateEntries
  <2>2. /\ \A i \in DOMAIN stateHistory' :
             \/ stateHistory'[i] = [estimate |-> filter'.estimate, time |-> filter'.time]
             \/ \E j \in DOMAIN stateHistory : stateHistory'[i] = stateHistory[j]
        /\ \A i \in DOMAIN measurementHistory' :
             \/ measurementHistory'[i] = m
             \/ \E j \in DOMAIN measurementHistory :
                  measurementHistory'[i] = measurementHistory[j]
    BY <1>6, IntegrateOneStates
  <2>3. Fused(filter'.estimate) \subseteq processed'
    BY <2>1 DEF ProcessedInv
  <2>4. \A k \in DOMAIN stateHistory' : Fused(stateHistory'[k].estimate) \subseteq processed'
    <3>1. \A i \in DOMAIN stateHistory' :
            \/ stateHistory'[i].estimate = filter'.estimate
            \/ \E j \in DOMAIN stateHistory :
                 stateHistory'[i].estimate = stateHistory[j].estimate
      BY <2>2
    <3>2. QED
      BY <2>1, <2>3, <3>1 DEF ProcessedInv
  <2>5. \A i \in DOMAIN measurementHistory' : measurementHistory'[i] \in processed'
    BY <2>1, <2>2 DEF ProcessedInv
  <2>6. measurementQueue' \cup processed' = measurementQueue \cup processed
    BY <2>1
  <2>7. \A n \in processed' : n.time <= clock
    BY <2>1 DEF ProcessedInv
  <2>8. /\ \A x, n \in measurementQueue' \cup processed' : x.id = n.id => x = n
        /\ \A n \in measurementQueue' \cup processed' : n.id <= count["measurement"]
    BY <2>6 DEF ProcessedInv
  <2>9. QED
    BY <2>1, <2>3, <2>4, <2>5, <2>7, <2>8 DEF ProcessedInv, Fused
<1>7. CASE Ended
  <2>1. /\ filter'.estimate = filter.estimate /\ measurementQueue' \subseteq measurementQueue
        /\ UNCHANGED <<clock, processed>> /\ count'["measurement"] = count["measurement"]
        /\ pc = "integrate" => \A m \in Top : ~Due(m)
    BY <1>7 DEF Ended
  <2>2. /\ \A i \in DOMAIN stateHistory' :
             \E j \in DOMAIN stateHistory : stateHistory'[i] = stateHistory[j]
        /\ \A i \in DOMAIN measurementHistory' :
             \E j \in DOMAIN measurementHistory :
               measurementHistory'[i] = measurementHistory[j]
    BY <1>7, ClearExpiredHistoryKeeps DEF Ended
  <2>3. \A k \in DOMAIN stateHistory' : Fused(stateHistory'[k].estimate) \subseteq processed
    BY <2>2 DEF ProcessedInv
  <2>4. \A i \in DOMAIN measurementHistory' : measurementHistory'[i] \in processed
    BY <2>2 DEF ProcessedInv
  <2>5. measurementQueue \cap processed = {}
    <3>1. CASE pc = "integrate"
      <4>1. \A m \in measurementQueue : clock < m.time
        BY <2>1, <3>1, NoneDue
      <4>2. \A m \in processed : m.time <= clock
        BY DEF ProcessedInv
      <4>3. QED
        BY <1>0, <4>1, <4>2
    <3>2. CASE pc # "integrate"
      BY <3>2 DEF ProcessedInv
    <3>3. QED
      BY <3>1, <3>2
  <2>6. QED
    BY <2>1, <2>3, <2>4, <2>5 DEF ProcessedInv, Fused
<1>8. QED
  BY <1>1, <1>2, <1>3, <1>4, <1>5, <1>6, <1>7, StepKinds

LEMMA ProcessedCorrect == Spec => []ProcessedInv
<1>1. Init => ProcessedInv
  BY DEF Init, ProcessedInv, Fused
<1>2. TypeOK /\ TypeOK' /\ ProcessedInv /\ [Next]_vars => ProcessedInv'
  BY ProcessedStep
<1>3. QED
  BY <1>1, <1>2, TypeCorrect, PTL DEF Spec

-----------------------------------------------------------------------------
\* The history kept for replay.

\* No measurement of the history is later than the filter or than the last
\* state saved.
Covered ==
  \A i \in DOMAIN measurementHistory :
    /\ measurementHistory[i].time <= filter.time
    /\ Len(stateHistory) > 0
    /\ measurementHistory[i].time <= stateHistory[Len(stateHistory)].time

\* The inductive invariant.  The history is covered except during a replay, as
\* long as a measurement that is due waits: the restored state is older than
\* the history's end, or the last state of a stamp is not saved yet.
HistoryInv ==
  /\ HistoryPrecedesQueue
  /\ ~SmoothLaggedData => Len(measurementHistory) = 0
  /\ Covered \/ (pc = "integrate" /\ \E m \in measurementQueue : m.time <= clock)

LEMMA HistoryStep ==
  ASSUME TypeOK, TypeOK', TimeInv, TimeInv', HistoryInv, [Next]_vars
  PROVE  HistoryInv'
<1>0. /\ clock \in Nat /\ filter.time \in Nat /\ filter'.time \in Nat
      /\ Len(stateHistory) \in Nat /\ DOMAIN stateHistory = 1..Len(stateHistory)
      /\ Len(measurementHistory) \in Nat
      /\ DOMAIN measurementHistory = 1..Len(measurementHistory)
      /\ \A i \in 1..Len(stateHistory) : stateHistory[i].time \in Nat
      /\ \A i \in 1..Len(measurementHistory) : measurementHistory[i].time \in Nat
      /\ \A m \in measurementQueue : m.time \in Nat
      /\ filter.time <= clock
  <2>1. filter'.time \in Nat
    BY DEF TypeOK, Filter, Time
  <2>2. QED
    BY <2>1, HistoryTypes DEF TimeInv, NotAheadOfClock
<1>s. /\ \A i, j \in 1..Len(measurementHistory) :
           i < j => measurementHistory[i].time <= measurementHistory[j].time
      /\ \A i, j \in 1..Len(measurementHistory) :
           i <= j => measurementHistory[i].time <= measurementHistory[j].time
  <2>1. \A i, j \in 1..Len(measurementHistory) :
           i < j => measurementHistory[i].time <= measurementHistory[j].time
    BY <1>0 DEF HistoryInv, HistoryPrecedesQueue
  <2>2. ASSUME NEW i \in 1..Len(measurementHistory), NEW j \in 1..Len(measurementHistory), i <= j
        PROVE  measurementHistory[i].time <= measurementHistory[j].time
    <3>1. CASE i = j
      BY <1>0, <3>1
    <3>2. CASE i < j
      BY <2>1, <3>2
    <3>3. QED
      BY <1>0, <2>2, <3>1, <3>2
  <2>3. QED
    BY <2>1, <2>2
<1>1. CASE Quiet
  <2>1. \A m \in measurementQueue : m.time <= clock => m.time <= clock'
    BY <1>0, <1>1 DEF Quiet
  <2>2. Covered => Covered'
    BY <1>1 DEF Quiet, Covered
  <2>3. QED
    BY <1>1, <2>1, <2>2 DEF Quiet, HistoryInv, HistoryPrecedesQueue
<1>2. CASE Enqueued
  BY <1>2 DEF Enqueued, HistoryInv, HistoryPrecedesQueue, Covered
<1>3. CASE Cleared
  <2>1. pc' = "idle" /\ DOMAIN measurementHistory' = {} /\ Len(measurementHistory') = 0
    BY <1>3, EmptySeq DEF Cleared
  <2>2. QED
    BY <2>1 DEF HistoryInv, HistoryPrecedesQueue, Covered
<1>4. CASE Started
  <2>1. Covered /\ UNCHANGED <<filter, measurementQueue, stateHistory, measurementHistory>>
    BY <1>4 DEF Started, HistoryInv
  <2>2. \A i \in 1..Len(measurementHistory), m \in measurementQueue :
          measurementHistory[i].time <= m.time
    <3>1. SUFFICES ASSUME NEW i \in 1..Len(measurementHistory), NEW m \in measurementQueue
                   PROVE  measurementHistory[i].time <= m.time
      OBVIOUS
    <3>2. SmoothLaggedData
      BY <1>0 DEF HistoryInv
    <3>3. PICK n \in measurementQueue : \A x \in measurementQueue : n.time <= x.time
      BY <1>0, Earliest
    <3>4. filter.time <= n.time
      BY <1>4, <3>2, <3>3 DEF Started, Top
    <3>5. measurementHistory[i].time <= filter.time
      BY <1>0, <2>1 DEF Covered
    <3>6. QED
      BY <1>0, <3>3, <3>4, <3>5
  <2>3. QED
    BY <1>0, <2>1, <2>2 DEF HistoryInv, HistoryPrecedesQueue, Covered
<1>5. ASSUME NEW m \in measurementQueue, Reverted(m) PROVE HistoryInv'
  <2>1. /\ pc = "idle" /\ pc' = "integrate" /\ clock' = clock /\ SmoothLaggedData
        /\ m.time < filter.time
        /\ \A n \in measurementQueue : m.time <= n.time
    BY <1>5, TopTimes DEF Reverted
  <2>2. Covered
    BY <2>1 DEF HistoryInv
  <2>3. m.time <= clock
    BY <1>0, <2>1
  <2>4. CASE stateHistory = <<>>
    <3>1. DOMAIN measurementHistory = {}
      <4>1. ~(Len(stateHistory) > 0)
        BY <2>4, EmptySeq
      <4>2. QED
        BY <2>2, <4>1 DEF Covered
    <3>2. measurementHistory' = measurementHistory
      BY <1>5, <2>4, RevertWithoutState
    <3>3. QED
      BY <2>1, <3>1, <3>2 DEF HistoryInv, HistoryPrecedesQueue, Covered
  <2>5. CASE stateHistory # <<>>
    <3>1. PICK k \in 0..Len(stateHistory), j \in 0..Len(measurementHistory) :
            /\ j > 0 => measurementHistory[j].time < m.time
            /\ DOMAIN measurementHistory' = 1..j
            /\ \A n \in 1..j : measurementHistory'[n] = measurementHistory[n]
            /\ \A x \in measurementQueue' :
                 \/ x \in measurementQueue
                 \/ \E n \in (j + 1)..Len(measurementHistory) : x = measurementHistory[n]
            /\ measurementQueue \subseteq measurementQueue'
      BY <1>5, <2>5, RevertEntries
    <3>2. \A i \in 1..j : i \in 1..Len(measurementHistory)
      BY <1>0
    <3>3. \A i, n \in 1..j : i < n => measurementHistory'[i].time <= measurementHistory'[n].time
      BY <1>s, <3>1, <3>2
    <3>4. ASSUME NEW i \in 1..j, NEW x \in measurementQueue'
          PROVE  measurementHistory'[i].time <= x.time
      <4>1. i \in 1..Len(measurementHistory) /\ measurementHistory'[i] = measurementHistory[i]
        BY <3>1, <3>2
      <4>2. CASE x \in measurementQueue
        <5>1. j \in 1..Len(measurementHistory) /\ i <= j /\ j > 0
          BY <1>0
        <5>2. measurementHistory[i].time <= measurementHistory[j].time
          BY <1>s, <4>1, <5>1
        <5>3. measurementHistory[j].time < m.time /\ m.time <= x.time
          BY <2>1, <3>1, <4>2, <5>1
        <5>4. QED
          BY <1>0, <4>1, <4>2, <5>1, <5>2, <5>3
      <4>3. ASSUME NEW n \in (j + 1)..Len(measurementHistory), x = measurementHistory[n]
            PROVE  measurementHistory'[i].time <= x.time
        <5>1. n \in 1..Len(measurementHistory) /\ i < n
          BY <1>0
        <5>2. QED
          BY <1>s, <4>1, <4>3, <5>1
      <4>4. QED
        BY <3>1, <4>2, <4>3
    <3>5. m \in measurementQueue'
      BY <3>1
    <3>6. QED
      BY <2>1, <2>3, <3>1, <3>3, <3>4, <3>5 DEF HistoryInv, HistoryPrecedesQueue
  <2>6. QED
    BY <2>4, <2>5
<1>6. ASSUME NEW m \in measurementQueue, IntegrateOne(m) PROVE HistoryInv'
  <2>1. /\ pc = "integrate" /\ pc' = "integrate" /\ clock' = clock
        /\ \A n \in measurementQueue : m.time <= n.time
        /\ measurementQueue' = measurementQueue \ {m}
        /\ filter'.time = IF filter.initialized /\ m.time < filter.time
                          THEN filter.time ELSE m.time
        /\ m.time \in Nat
    BY <1>0, <1>6, IntegrateEntries
  <2>2. \A i \in 1..Len(measurementHistory) : measurementHistory[i].time <= m.time
    BY <1>0, <2>1 DEF HistoryInv, HistoryPrecedesQueue
  <2>3. CASE ~SmoothLaggedData
    <3>1. measurementHistory' = measurementHistory /\ Len(measurementHistory) = 0
      BY <1>6, <2>3, IntegrateEntries DEF HistoryInv
    <3>2. DOMAIN measurementHistory = {}
      BY <1>0, <3>1
    <3>3. QED
      BY <3>1, <3>2 DEF HistoryInv, HistoryPrecedesQueue, Covered
  <2>4. CASE SmoothLaggedData
    <3> DEFINE b == Len(measurementHistory)
    <3>1. /\ DOMAIN measurementHistory' = 1..(b + 1)
          /\ \A i \in 1..b : measurementHistory'[i] = measurementHistory[i]
          /\ measurementHistory'[b + 1] = m
      BY <1>6, <2>4, IntegrateEntries
    <3>2. \A i \in 1..(b + 1) : i \in 1..b \/ i = b + 1
      BY <1>0
    <3>3. \A i \in 1..(b + 1) :
            measurementHistory'[i].time \in Nat /\ measurementHistory'[i].time <= m.time
      BY <1>0, <2>1, <2>2, <3>1, <3>2
    <3>4. ASSUME NEW i \in 1..(b + 1), NEW j \in 1..(b + 1), i < j
          PROVE  measurementHistory'[i].time <= measurementHistory'[j].time
      <4>1. CASE j = b + 1
        BY <3>1, <3>3, <4>1
      <4>2. CASE j \in 1..b
        <5>1. i \in 1..b
          BY <1>0, <3>4, <4>2
        <5>2. QED
          BY <1>s, <3>1, <3>4, <4>2, <5>1
      <4>3. QED
        BY <3>2, <4>1, <4>2
    <3>5. \A i \in 1..(b + 1), n \in measurementQueue' : measurementHistory'[i].time <= n.time
      BY <1>0, <2>1, <3>3
    <3>6. m.time <= filter'.time /\ filter'.time <= clock
      <4>1. m.time <= filter'.time
        BY <1>0, <2>1
      <4>2. QED
        BY <2>1, <4>1 DEF TimeInv, NotAheadOfClock
    <3>7. \A i \in 1..(b + 1) : measurementHistory'[i].time <= filter'.time
      BY <1>0, <2>1, <3>3, <3>6
    <3>8. CASE \E n \in measurementQueue' : n.time = filter'.time
      BY <2>1, <2>4, <3>1, <3>4, <3>5, <3>6, <3>8 DEF HistoryInv, HistoryPrecedesQueue
    <3>9. CASE ~\E n \in measurementQueue' : n.time = filter'.time
      <4>1. /\ Len(stateHistory') = Len(stateHistory) + 1
            /\ stateHistory'[Len(stateHistory) + 1].time = filter'.time
        BY <1>6, <2>4, <3>9, IntegrateEntries
      <4>2. Len(stateHistory') > 0 /\ stateHistory'[Len(stateHistory')].time = filter'.time
        BY <1>0, <4>1
      <4>3. Covered'
        BY <3>1, <3>7, <4>2 DEF Covered
      <4>4. QED
        BY <2>1, <2>4, <3>1, <3>4, <3>5, <4>3 DEF HistoryInv, HistoryPrecedesQueue
    <3>10. QED
      BY <3>8, <3>9
  <2>5. QED
    BY <2>3, <2>4
<1>7. CASE Ended
  <2>1. /\ pc' = "idle" /\ (pc = "integrate" => \A m \in Top : ~Due(m))
        /\ filter'.time \in {filter.time, clock}
    BY <1>7 DEF Ended
  <2>2. Covered
    <3>1. pc = "integrate" => \A m \in measurementQueue : clock < m.time
      BY <2>1, NoneDue
    <3>2. ~(pc = "integrate" /\ \E m \in measurementQueue : m.time <= clock)
      BY <1>0, <3>1
    <3>3. QED
      BY <3>2 DEF HistoryInv
  <2> DEFINE a == Len(stateHistory)
             b == Len(measurementHistory)
  <2>3. PICK c \in Nat, k \in 0..a, j \in 0..b :
          /\ \A i \in 1..k : stateHistory[i].time < c
          /\ j < b => c <= measurementHistory[j + 1].time
          /\ Len(stateHistory') = a - k
          /\ \A i \in 1..(a - k) : stateHistory'[i] = stateHistory[i + k]
          /\ Len(measurementHistory') = b - j
          /\ DOMAIN measurementHistory' = 1..(b - j)
          /\ \A i \in 1..(b - j) : measurementHistory'[i] = measurementHistory[i + j]
    BY <1>0, <1>7, ExpiryEntries
  <2>4. a \in Nat /\ b \in Nat
    BY <1>0
  <2>5. \A i \in 1..(b - j) :
          /\ i + j \in 1..b /\ j + 1 \in 1..b /\ j < b /\ j + 1 <= i + j
          /\ measurementHistory'[i] = measurementHistory[i + j]
    BY <2>3, <2>4
  <2>6. \A i, n \in 1..(b - j) :
          i < n => measurementHistory'[i].time <= measurementHistory'[n].time
    <3>1. SUFFICES ASSUME NEW i \in 1..(b - j), NEW n \in 1..(b - j), i < n
                   PROVE  measurementHistory'[i].time <= measurementHistory'[n].time
      OBVIOUS
    <3>2. i + j < n + j
      BY <2>4, <3>1
    <3>3. QED
      BY <1>s, <2>5, <3>2
  <2>7. Covered'
    <3>1. ASSUME NEW i \in 1..(b - j)
          PROVE  /\ measurementHistory'[i].time <= filter'.time
                 /\ Len(stateHistory') > 0
                 /\ measurementHistory'[i].time <= stateHistory'[Len(stateHistory')].time
      <4>1. /\ measurementHistory[i + j].time <= filter.time /\ a > 0
            /\ measurementHistory[i + j].time <= stateHistory[a].time
        BY <1>0, <2>2, <2>5 DEF Covered
      <4>2. measurementHistory'[i].time <= filter'.time
        BY <1>0, <2>1, <2>5, <4>1
      <4>3. c <= measurementHistory[i + j].time
        BY <1>0, <1>s, <2>3, <2>5
      <4>4. a \in 1..a /\ stateHistory[a].time \in Nat
        BY <1>0, <4>1
      <4>5. ~(stateHistory[a].time < c)
        BY <1>0, <2>5, <4>1, <4>3, <4>4
      <4>6. a \notin 1..k
        BY <2>3, <4>5
      <4>7. k < a
        BY <2>4, <4>1, <4>6
      <4>8. a - k > 0 /\ a - k \in 1..(a - k) /\ (a - k) + k = a
        BY <2>4, <4>7
      <4>9. stateHistory'[Len(stateHistory')] = stateHistory[a]
        BY <2>3, <4>8
      <4>10. QED
        BY <2>3, <2>5, <4>1, <4>2, <4>8, <4>9
    <3>2. QED
      BY <2>3, <3>1 DEF Covered
  <2>8. ~SmoothLaggedData => Len(measurementHistory') = 0
    <3>1. ~SmoothLaggedData => b = 0
      BY DEF HistoryInv
    <3>2. j \in 0..b /\ (b = 0 => j = 0)
      BY <2>4
    <3>3. ASSUME b = 0 PROVE b - j = 0
      <4>1. j = 0
        BY <3>2, <3>3
      <4>2. 0 - 0 = 0
        OBVIOUS
      <4>3. QED
        BY <3>3, <4>1, <4>2
    <3>4. QED
      BY <2>3, <3>1, <3>3
  <2>9. QED
    BY <2>1, <2>3, <2>6, <2>7, <2>8 DEF HistoryInv, HistoryPrecedesQueue
<1>8. QED
  BY <1>1, <1>2, <1>3, <1>4, <1>5, <1>6, <1>7, StepKinds

LEMMA HistoryCorrect == Spec => []HistoryInv
<1>1. Init => HistoryInv
  <2>1. Len(<<>>) = 0 /\ DOMAIN <<>> = {}
    BY EmptySeq
  <2>2. QED
    BY <2>1 DEF Init, HistoryInv, HistoryPrecedesQueue, Covered
<1>2. TypeOK /\ TypeOK' /\ TimeInv /\ TimeInv' /\ HistoryInv /\ [Next]_vars => HistoryInv'
  BY HistoryStep
<1>3. QED
  BY <1>1, <1>2, TypeCorrect, TimeCorrect, PTL DEF Spec

\* The measurements kept for replay stay in the order of their stamps and, while
\* measurements are integrated, none is later than one still queued: what
\* revertTo relies on when it pops the history from its end.
THEOREM HistoryIsOrdered == Spec => []HistoryPrecedesQueue
<1>1. HistoryInv => HistoryPrecedesQueue
  BY DEF HistoryInv
<1>2. QED
  BY <1>1, HistoryCorrect, PTL

-----------------------------------------------------------------------------
\* Replay: with smooth_lagged_data the estimate holds every measurement
\* processed, once, in the order of the stamps.

InOrder(e) == \A i, j \in DOMAIN e : i < j => e[i].time <= e[j].time /\ e[i].id # e[j].id

\* The filter stands at time t and further measurements of that time are
\* queued: the state for t is not complete yet.
Pending(t) ==
  pc = "integrate" /\ filter.time = t /\ \E m \in measurementQueue : m.time = t

EstimatesOrdered ==
  /\ InOrder(filter.estimate)
  /\ \A k \in DOMAIN stateHistory : InOrder(stateHistory[k].estimate)

EstimatesPast ==
  /\ \A m \in Fused(filter.estimate) : m.time <= filter.time
  /\ \A k \in DOMAIN stateHistory :
       \A m \in Fused(stateHistory[k].estimate) : m.time <= stateHistory[k].time

StatesOrdered ==
  /\ \A k, n \in DOMAIN stateHistory : k <= n => stateHistory[k].time <= stateHistory[n].time
  /\ \A k \in DOMAIN stateHistory : stateHistory[k].time <= filter.time

QueueAhead ==
  pc = "integrate" =>
    \A m \in measurementQueue : filter.time <= m.time /\ m \notin Fused(filter.estimate)

NoneForgotten ==
  \A m \in processed :
    m \in Fused(filter.estimate) \/ (pc = "integrate" /\ m \in measurementQueue)

\* The last state saved for a stamp holds everything processed up to it.
StatesComplete ==
  \A k \in DOMAIN stateHistory :
    /\ k < Len(stateHistory) => stateHistory[k].time < stateHistory[k + 1].time
    /\ k = Len(stateHistory) => ~Pending(stateHistory[k].time)
    => \A m \in processed :
         m.time <= stateHistory[k].time => m \in Fused(stateHistory[k].estimate)

\* What is later than a saved state is still in the history, or queued again.
LaterKept ==
  \A k \in DOMAIN stateHistory : \A m \in processed :
    stateHistory[k].time < m.time =>
      \/ \E i \in DOMAIN measurementHistory : m = measurementHistory[i]
      \/ pc = "integrate" /\ m \in measurementQueue

\* There is a state for every stamp of the history.
StampsSaved ==
  \A i \in DOMAIN measurementHistory :
    \/ \E k \in DOMAIN stateHistory : stateHistory[k].time = measurementHistory[i].time
    \/ Pending(measurementHistory[i].time)

ReplayParts ==
  /\ EstimatesOrdered /\ EstimatesPast /\ StatesOrdered /\ QueueAhead
  /\ NoneForgotten /\ StatesComplete /\ LaterKept /\ StampsSaved

\* The inductive invariant: all of this, until a revert finds no state that is
\* old enough.
ReplayInv == SmoothLaggedData /\ ~revertedShort => ReplayParts

\* Correcting with a measurement that is not earlier and not yet fused keeps
\* the order.
LEMMA InOrderAppend ==
  ASSUME NEW e \in Seq(Measurement), NEW m \in Measurement, InOrder(e),
         \A x \in Fused(e) : x.time <= m.time /\ x.id # m.id
  PROVE  InOrder(Append(e, m))
<1>1. Len(e) \in Nat /\ DOMAIN e = 1..Len(e)
  BY LenProperties
<1>2. /\ Append(e, m) \in Seq(Measurement)
      /\ Len(Append(e, m)) = Len(e) + 1
      /\ \A i \in 1..Len(e) : Append(e, m)[i] = e[i]
      /\ Append(e, m)[Len(e) + 1] = m
  BY AppendProperties
<1>3. DOMAIN Append(e, m) = 1..(Len(e) + 1)
  BY <1>2, LenProperties
<1>4. \A i \in 1..Len(e) : e[i].time <= m.time /\ e[i].id # m.id
  BY <1>1 DEF Fused
<1>5. ASSUME NEW i \in 1..(Len(e) + 1), NEW j \in 1..(Len(e) + 1), i < j
      PROVE  /\ Append(e, m)[i].time <= Append(e, m)[j].time
             /\ Append(e, m)[i].id # Append(e, m)[j].id
  <2>1. i \in 1..Len(e)
    BY <1>1, <1>5
  <2>2. CASE j = Len(e) + 1
    BY <1>2, <1>4, <2>1, <2>2
  <2>3. CASE j \in 1..Len(e)
    BY <1>1, <1>2, <1>5, <2>1, <2>3 DEF InOrder
  <2>4. j = Len(e) + 1 \/ j \in 1..Len(e)
    BY <1>1
  <2>5. QED
    BY <2>2, <2>3, <2>4
<1>6. QED
  BY <1>3, <1>5 DEF InOrder

\* An update that begins without a revert.
LEMMA ReplayStarted ==
  ASSUME TypeOK, ProcessedInv, ReplayParts, SmoothLaggedData, Started
  PROVE  ReplayParts'
<1>1. /\ pc = "idle" /\ pc' \in {"timeout", "integrate"}
      /\ \A m \in Top : filter.time <= m.time
      /\ UNCHANGED <<filter, measurementQueue, stateHistory, measurementHistory, processed>>
  BY DEF Started
<1>2. \A t : ~Pending(t)
  BY <1>1 DEF Pending
<1>3. QueueAhead'
  <2>1. SUFFICES ASSUME NEW m \in measurementQueue
                 PROVE  filter.time <= m.time /\ m \notin Fused(filter.estimate)
    BY <1>1 DEF QueueAhead, Fused
  <2>2. /\ filter.time \in Nat
        /\ \A n \in measurementQueue : n.time \in Nat
    BY HistoryTypes
  <2>3. PICK n \in measurementQueue : \A x \in measurementQueue : n.time <= x.time
    BY <2>2, Earliest
  <2>4. filter.time <= n.time
    BY <1>1, <2>3 DEF Top
  <2>5. filter.time <= m.time
    BY <2>2, <2>3, <2>4
  <2>6. m \notin Fused(filter.estimate)
    BY <1>1 DEF ProcessedInv
  <2>7. QED
    BY <2>5, <2>6
<1>4. EstimatesOrdered' /\ EstimatesPast' /\ StatesOrdered'
  BY <1>1 DEF ReplayParts, EstimatesOrdered, EstimatesPast, StatesOrdered, InOrder, Fused
<1>5. NoneForgotten'
  BY <1>1 DEF ReplayParts, NoneForgotten, Fused
<1>6. StatesComplete'
  <2>1. \A k \in DOMAIN stateHistory :
          (k < Len(stateHistory) => stateHistory[k].time < stateHistory[k + 1].time)
          => \A m \in processed :
               m.time <= stateHistory[k].time => m \in Fused(stateHistory[k].estimate)
    BY <1>2 DEF ReplayParts, StatesComplete
  <2>2. QED
    BY <1>1, <2>1 DEF StatesComplete, Fused
<1>7. LaterKept'
  BY <1>1 DEF ReplayParts, LaterKept
<1>8. StampsSaved'
  BY <1>1, <1>2 DEF ReplayParts, StampsSaved
<1>9. QED
  BY <1>3, <1>4, <1>5, <1>6, <1>7, <1>8 DEF ReplayParts

\* A revert to a state earlier than the lagged measurement: what that state
\* lacks goes back into the queue.
LEMMA ReplayReverted ==
  ASSUME TypeOK, ProcessedInv, HistoryInv, ReplayParts, NEW m \in measurementQueue, Reverted(m),
         ~revertedShort'
  PROVE  ReplayParts'
<1> DEFINE a == Len(stateHistory)
           b == Len(measurementHistory)
<1>1. /\ pc = "idle" /\ pc' = "integrate" /\ processed' = processed
      /\ m.time \in Nat
      /\ \A n \in measurementQueue : m.time <= n.time
  BY TopTimes DEF Reverted
<1>2. \A t : ~Pending(t)
  BY <1>1 DEF Pending
<1>3. stateHistory # <<>>
  BY RevertWithoutState
<1>4. PICK k \in 1..a, j \in 0..b :
        /\ filter'.time = stateHistory[k].time
        /\ filter'.estimate = stateHistory[k].estimate
        /\ stateHistory[k].time < m.time
        /\ \A n \in (k + 1)..a : m.time <= stateHistory[n].time
        /\ j > 0 => measurementHistory[j].time < m.time
        /\ \A n \in (j + 1)..b : m.time <= measurementHistory[n].time
        /\ Len(stateHistory') = k /\ DOMAIN stateHistory' = 1..k
        /\ \A n \in 1..k : stateHistory'[n] = stateHistory[n]
        /\ DOMAIN measurementHistory' = 1..j
        /\ \A n \in 1..j : measurementHistory'[n] = measurementHistory[n]
        /\ measurementQueue' = measurementQueue \cup
             {x \in {measurementHistory[n] : n \in (j + 1)..b} : stateHistory[k].time <= x.time}
  <2>1. PICK k \in 0..a, j \in 0..b :
          LET i == IF k > 0 THEN k ELSE 1
          IN /\ filter'.time = stateHistory[i].time
             /\ filter'.estimate = stateHistory[i].estimate
             /\ k > 0 => stateHistory[k].time < m.time
             /\ \A n \in (k + 1)..a : m.time <= stateHistory[n].time
             /\ j > 0 => measurementHistory[j].time < m.time
             /\ \A n \in (j + 1)..b : m.time <= measurementHistory[n].time
             /\ Len(stateHistory') = k /\ DOMAIN stateHistory' = 1..k
             /\ \A n \in 1..k : stateHistory'[n] = stateHistory[n]
             /\ DOMAIN measurementHistory' = 1..j
             /\ \A n \in 1..j : measurementHistory'[n] = measurementHistory[n]
             /\ measurementQueue' = measurementQueue \cup
                  {x \in {measurementHistory[n] : n \in (j + 1)..b} :
                     stateHistory[i].time <= x.time}
             /\ ~revertedShort' => ~revertedShort /\ k > 0
    BY <1>3, RevertEntries
  <2>2. k > 0
    BY <2>1
  <2>3. k \in 1..a
    BY <2>2, HistoryTypes
  <2>4. QED
    BY <2>1, <2>2, <2>3
<1>5. /\ a \in Nat /\ b \in Nat
      /\ DOMAIN stateHistory = 1..a /\ DOMAIN measurementHistory = 1..b
      /\ \A n \in 1..a : stateHistory[n].time \in Nat
      /\ \A n \in 1..b : measurementHistory[n].time \in Nat
      /\ \A n \in measurementQueue \cup processed : n.time \in Nat
  BY HistoryTypes
<1> HIDE DEF a, b
<1>6. /\ k \in DOMAIN stateHistory
      /\ \A n \in 1..k : n \in 1..a
      /\ \A n \in 1..j : n \in 1..b
      /\ \A n \in (j + 1)..b : n \in 1..b
      /\ \A n \in 1..b : n \in 1..j \/ n \in (j + 1)..b
      /\ \A n \in 1..a : n \in 1..k \/ n \in (k + 1)..a
  BY <1>5
\* The restored state holds everything processed up to its time.
<1>7. \A x \in processed :
        x.time <= stateHistory[k].time => x \in Fused(stateHistory[k].estimate)
  <2>1. k < Len(stateHistory) => stateHistory[k].time < stateHistory[k + 1].time
    <3>1. k < Len(stateHistory) => k + 1 \in (k + 1)..a /\ k + 1 \in 1..a
      BY <1>5 DEF a
    <3>2. QED
      BY <1>1, <1>4, <1>5, <1>6, <3>1
  <2>2. ~Pending(stateHistory[k].time)
    BY <1>2
  <2>3. QED
    BY <1>6, <2>1, <2>2 DEF ReplayParts, StatesComplete
\* The part of the history kept is older than the lagged measurement, the
\* stamps it has are those of kept states.
<1>8. ASSUME NEW i \in 1..j
      PROVE  \E n \in 1..k : stateHistory[n].time = measurementHistory[i].time
  <2>1. i \in 1..b /\ j \in 1..b /\ i <= j /\ j > 0
    BY <1>5, <1>6
  <2>2. measurementHistory[i].time <= measurementHistory[j].time
    <3>1. i < j => measurementHistory[i].time <= measurementHistory[j].time
      BY <1>5, <2>1 DEF HistoryInv, HistoryPrecedesQueue
    <3>2. i = j => measurementHistory[i].time <= measurementHistory[j].time
      BY <1>5, <2>1
    <3>3. QED
      BY <1>5, <2>1, <3>1, <3>2
  <2>3. measurementHistory[i].time < m.time
    BY <1>1, <1>4, <1>5, <2>1, <2>2
  <2>4. PICK n \in 1..a : stateHistory[n].time = measurementHistory[i].time
    BY <1>2, <1>5, <2>1 DEF ReplayParts, StampsSaved
  <2>5. ASSUME n \in (k + 1)..a PROVE FALSE
    <3>1. m.time <= stateHistory[n].time
      BY <1>4, <2>5
    <3>2. QED
      BY <1>1, <1>5, <2>1, <2>3, <2>4, <3>1
  <2>6. QED
    BY <1>6, <2>4, <2>5
\* What was popped from the history is queued again.
<1>9. \A n \in (j + 1)..b :
        /\ measurementHistory[n] \in measurementQueue'
        /\ stateHistory[k].time < measurementHistory[n].time
  <2>1. \A n \in (j + 1)..b : stateHistory[k].time < measurementHistory[n].time
    BY <1>1, <1>4, <1>5, <1>6
  <2>2. \A n \in (j + 1)..b : stateHistory[k].time <= measurementHistory[n].time
    BY <1>5, <1>6, <2>1
  <2>3. QED
    BY <1>4, <2>1, <2>2
<1>10. \A x \in measurementQueue' :
         \/ x \in measurementQueue
         \/ \E n \in (j + 1)..b : x = measurementHistory[n]
  BY <1>4
<1>11. EstimatesOrdered'
  <2>1. \A n \in 1..a : InOrder(stateHistory[n].estimate)
    BY <1>5 DEF ReplayParts, EstimatesOrdered
  <2>2. InOrder(filter'.estimate)
    BY <1>4, <2>1
  <2>3. \A n \in 1..k : InOrder(stateHistory'[n].estimate)
    BY <1>4, <1>6, <2>1
  <2>4. QED
    BY <1>4, <2>2, <2>3 DEF EstimatesOrdered, InOrder
<1>12. EstimatesPast'
  <2>1. \A n \in 1..a : \A x \in Fused(stateHistory[n].estimate) : x.time <= stateHistory[n].time
    BY <1>5 DEF ReplayParts, EstimatesPast
  <2>2. \A x \in Fused(filter'.estimate) : x.time <= filter'.time
    BY <1>4, <2>1
  <2>3. \A n \in 1..k : \A x \in Fused(stateHistory'[n].estimate) : x.time <= stateHistory'[n].time
    BY <1>4, <1>6, <2>1
  <2>4. QED
    BY <1>4, <2>2, <2>3 DEF EstimatesPast, Fused
<1>13. StatesOrdered'
  <2>1. \A n, i \in 1..a : n <= i => stateHistory[n].time <= stateHistory[i].time
    BY <1>5 DEF ReplayParts, StatesOrdered
  <2>2. \A n \in 1..k : stateHistory[n].time <= stateHistory[k].time
    BY <1>5, <1>6, <2>1
  <2>3. QED
    BY <1>4, <1>6, <2>1, <2>2 DEF StatesOrdered
<1>14. QueueAhead'
  <2>1. ASSUME NEW x \in measurementQueue'
        PROVE  filter'.time <= x.time /\ x \notin Fused(filter'.estimate)
    <3>1. CASE x \in measurementQueue
      <4>1. filter'.time <= x.time
        BY <1>1, <1>4, <1>5, <3>1
      <4>2. Fused(stateHistory[k].estimate) \subseteq processed /\ x \notin processed
        BY <1>1, <1>6, <3>1 DEF ProcessedInv
      <4>3. QED
        BY <1>4, <4>1, <4>2
    <3>2. CASE \E n \in (j + 1)..b : x = measurementHistory[n]
      <4>1. x.time \in Nat /\ stateHistory[k].time < x.time
        BY <1>5, <1>6, <1>9, <3>2
      <4>2. \A y \in Fused(stateHistory[k].estimate) : y.time <= stateHistory[k].time
        BY <1>6 DEF ReplayParts, EstimatesPast
      <4>3. x \notin Fused(stateHistory[k].estimate)
        BY <1>5, <4>1, <4>2
      <4>4. QED
        BY <1>4, <1>5, <4>1, <4>3
    <3>3. QED
      BY <1>10, <3>1, <3>2
  <2>2. QED
    BY <2>1 DEF QueueAhead, Fused
<1>15. ASSUME NEW x \in processed, NEW n \in 1..k, stateHistory[n].time < x.time
       PROVE  \/ \E i \in 1..j : x = measurementHistory[i]
              \/ x \in measurementQueue'
  <2>1. PICK i \in 1..b : x = measurementHistory[i]
    BY <1>1, <1>5, <1>6, <1>15 DEF ReplayParts, LaterKept
  <2>2. QED
    BY <1>6, <1>9, <2>1
<1>16. NoneForgotten'
  <2>1. ASSUME NEW x \in processed
        PROVE  x \in Fused(filter'.estimate) \/ x \in measurementQueue'
    <3>1. CASE x.time <= stateHistory[k].time
      BY <1>4, <1>7, <3>1
    <3>2. CASE stateHistory[k].time < x.time
      <4>1. ASSUME NEW i \in 1..j, x = measurementHistory[i] PROVE FALSE
        <5>1. PICK n \in 1..k : stateHistory[n].time = x.time
          BY <1>8, <4>1
        <5>2. stateHistory[n].time <= stateHistory[k].time
          <6>1. n \in 1..a /\ n <= k
            BY <1>5, <1>6
          <6>2. QED
            BY <1>5, <1>6, <6>1 DEF ReplayParts, StatesOrdered
        <5>3. QED
          BY <1>5, <1>6, <3>2, <5>1, <5>2
      <4>2. k \in 1..k
        BY <1>5
      <4>3. QED
        BY <1>15, <3>2, <4>1, <4>2
    <3>3. x.time <= stateHistory[k].time \/ stateHistory[k].time < x.time
      BY <1>5, <1>6
    <3>4. QED
      BY <3>1, <3>2, <3>3
  <2>2. QED
    BY <1>1, <2>1 DEF NoneForgotten, Fused
<1>17. StatesComplete'
  <2>1. ASSUME NEW n \in 1..k, n < k => stateHistory[n].time < stateHistory[n + 1].time,
               NEW x \in processed, x.time <= stateHistory[n].time
        PROVE  x \in Fused(stateHistory[n].estimate)
    <3>1. CASE n = k
      BY <1>7, <2>1, <3>1
    <3>2. CASE n # k
      <4>1. n < k /\ n \in 1..a /\ n # a
        BY <1>5, <3>2
      <4>2. stateHistory[n].time < stateHistory[n + 1].time /\ n # Len(stateHistory)
        BY <2>1, <4>1 DEF a
      <4>3. QED
        BY <1>5, <2>1, <4>1, <4>2 DEF ReplayParts, StatesComplete
    <3>3. QED
      BY <3>1, <3>2
  <2>2. \A n \in 1..k : n < k => n + 1 \in 1..k
    BY <1>5
  <2>3. \A n \in 1..k : n < k => stateHistory'[n + 1] = stateHistory[n + 1]
    BY <1>4, <2>2
  <2>4. QED
    BY <1>1, <1>4, <2>1, <2>3 DEF StatesComplete, Fused
<1>18. LaterKept'
  <2>1. \A n \in 1..k, x \in processed :
          stateHistory'[n].time < x.time =>
            (\E i \in 1..j : x = measurementHistory'[i]) \/ x \in measurementQueue'
    <3>1. SUFFICES ASSUME NEW n \in 1..k, NEW x \in processed, stateHistory'[n].time < x.time
                   PROVE  (\E i \in 1..j : x = measurementHistory'[i]) \/ x \in measurementQueue'
      OBVIOUS
    <3>2. stateHistory[n].time < x.time
      BY <1>4, <3>1
    <3>3. (\E i \in 1..j : x = measurementHistory[i]) \/ x \in measurementQueue'
      BY <1>15, <3>2
    <3>4. QED
      BY <1>4, <3>3
  <2>2. QED
    BY <1>1, <1>4, <2>1 DEF LaterKept
<1>19. StampsSaved'
  BY <1>4, <1>8 DEF StampsSaved
<1>20. QED
  BY <1>11, <1>12, <1>13, <1>14, <1>16, <1>17, <1>18, <1>19 DEF ReplayParts

\* One turn of the loop: m is not earlier than the filter, so the filter moves
\* to its stamp.
LEMMA ReplayIntegrated ==
  ASSUME TypeOK, TypeOK', ProcessedInv, ReplayParts, SmoothLaggedData,
         NEW m \in measurementQueue, IntegrateOne(m)
  PROVE  ReplayParts'
<1> DEFINE a == Len(stateHistory)
           b == Len(measurementHistory)
<1>1. /\ pc = "integrate" /\ pc' = "integrate"
      /\ \A n \in measurementQueue : m.time <= n.time
      /\ measurementQueue' = measurementQueue \ {m}
      /\ processed' = processed \cup {m}
      /\ filter'.estimate = Append(filter.estimate, m)
      /\ Fused(filter'.estimate) = Fused(filter.estimate) \cup {m}
      /\ DOMAIN measurementHistory' = 1..(b + 1)
      /\ \A i \in 1..b : measurementHistory'[i] = measurementHistory[i]
      /\ measurementHistory'[b + 1] = m
  BY IntegrateEntries
<1>2. \/ /\ stateHistory' = stateHistory
         /\ \E n \in measurementQueue' : n.time = filter'.time
      \/ /\ Len(stateHistory') = a + 1 /\ DOMAIN stateHistory' = 1..(a + 1)
         /\ \A i \in 1..a : stateHistory'[i] = stateHistory[i]
         /\ stateHistory'[a + 1].time = filter'.time
         /\ stateHistory'[a + 1].estimate = filter'.estimate
  BY IntegrateEntries
<1>3. /\ a \in Nat /\ b \in Nat /\ m \in Measurement /\ m.time \in Nat
      /\ filter.time \in Nat /\ filter.estimate \in Seq(Measurement)
      /\ DOMAIN stateHistory = 1..a /\ DOMAIN measurementHistory = 1..b
      /\ \A n \in 1..a : stateHistory[n].time \in Nat
      /\ \A n \in 1..b : measurementHistory[n].time \in Nat
      /\ \A n \in measurementQueue \cup processed : n.time \in Nat
  BY HistoryTypes
<1>4. /\ filter.time <= m.time /\ m \notin Fused(filter.estimate)
      /\ \A n \in measurementQueue : n \notin Fused(filter.estimate)
  BY <1>1 DEF ReplayParts, QueueAhead
<1>5. filter'.time = m.time
  <2>1. filter'.time = IF filter.initialized /\ m.time < filter.time
                       THEN filter.time ELSE m.time
    BY IntegrateEntries
  <2>2. ~(m.time < filter.time)
    BY <1>3, <1>4
  <2>3. QED
    BY <2>1, <2>2
<1>6. /\ Len(stateHistory) = a
      /\ a + 1 \in Nat /\ a + 1 \in 1..(a + 1) /\ b + 1 \in 1..(b + 1)
      /\ \A n \in 1..(a + 1) : n \in 1..a \/ n = a + 1
      /\ \A n \in 1..(b + 1) : n \in 1..b \/ n = b + 1
      /\ \A n \in 1..a : n \in 1..(a + 1)
      /\ \A n \in 1..b : n \in 1..(b + 1)
  <2>1. Len(stateHistory) = a /\ a \in Nat /\ b \in Nat
    BY <1>3
  <2> HIDE DEF a, b
  <2>2. a + 1 \in Nat /\ a + 1 \in 1..(a + 1) /\ b + 1 \in 1..(b + 1)
    BY <2>1
  <2>3. /\ \A n \in 1..(a + 1) : n \in 1..a \/ n = a + 1
        /\ \A n \in 1..(b + 1) : n \in 1..b \/ n = b + 1
    BY <2>1
  <2>4. /\ \A n \in 1..a : n \in 1..(a + 1)
        /\ \A n \in 1..b : n \in 1..(b + 1)
    BY <2>1
  <2>5. QED
    BY <2>1, <2>2, <2>3, <2>4
<1> HIDE DEF a, b
\* The states before, which stay, and the one that may be saved.
<1>7. /\ \A n \in 1..a : n \in DOMAIN stateHistory' /\ stateHistory'[n] = stateHistory[n]
      /\ \A n \in DOMAIN stateHistory' :
           \/ n \in 1..a
           \/ /\ n = a + 1 /\ Len(stateHistory') = a + 1
              /\ stateHistory'[n].time = m.time
              /\ stateHistory'[n].estimate = filter'.estimate
  <2>1. CASE stateHistory' = stateHistory
    BY <1>3, <2>1
  <2>2. CASE /\ Len(stateHistory') = a + 1 /\ DOMAIN stateHistory' = 1..(a + 1)
             /\ \A i \in 1..a : stateHistory'[i] = stateHistory[i]
             /\ stateHistory'[a + 1].time = filter'.time
             /\ stateHistory'[a + 1].estimate = filter'.estimate
    <3>1. \A n \in DOMAIN stateHistory' : n \in 1..a \/ n = a + 1
      BY <1>6, <2>2
    <3>2. \A n \in 1..a : n \in DOMAIN stateHistory'
      BY <1>6, <2>2
    <3>3. QED
      BY <1>5, <2>2, <3>1, <3>2
  <2>3. QED
    BY <1>2, <2>1, <2>2
<1>8. \A x \in Fused(filter.estimate) : x.time \in Nat /\ x.time <= filter.time
  BY <1>3 DEF ReplayParts, EstimatesPast, ProcessedInv
<1>9. InOrder(filter'.estimate)
  <2>1. \A x \in Fused(filter.estimate) : x.time <= m.time
    BY <1>3, <1>4, <1>8
  <2>2. \A x \in Fused(filter.estimate) : x.id # m.id
    BY <1>4 DEF ProcessedInv
  <2>3. InOrder(filter.estimate)
    BY DEF ReplayParts, EstimatesOrdered
  <2>4. QED
    BY <1>1, <1>3, <2>1, <2>2, <2>3, InOrderAppend
<1>10. EstimatesOrdered'
  <2>1. \A n \in 1..a : InOrder(stateHistory[n].estimate)
    BY <1>3 DEF ReplayParts, EstimatesOrdered
  <2>2. \A n \in DOMAIN stateHistory' : InOrder(stateHistory'[n].estimate)
    BY <1>7, <1>9, <2>1
  <2>3. QED
    BY <1>9, <2>2 DEF EstimatesOrdered, InOrder
<1>11. EstimatesPast'
  <2>1. \A x \in Fused(filter'.estimate) : x.time <= m.time
    BY <1>1, <1>3, <1>4, <1>8
  <2>2. \A n \in 1..a : \A x \in Fused(stateHistory[n].estimate) : x.time <= stateHistory[n].time
    BY <1>3 DEF ReplayParts, EstimatesPast
  <2>3. \A n \in DOMAIN stateHistory' :
          \A x \in Fused(stateHistory'[n].estimate) : x.time <= stateHistory'[n].time
    BY <1>7, <2>1, <2>2
  <2>4. QED
    BY <1>5, <2>1, <2>3 DEF EstimatesPast, Fused
<1>12. \A n \in 1..a : stateHistory[n].time <= filter.time /\ stateHistory[n].time <= m.time
  <2>1. \A n \in 1..a : stateHistory[n].time <= filter.time
    BY <1>3 DEF ReplayParts, StatesOrdered
  <2>2. QED
    BY <1>3, <1>4, <2>1
<1>13. StatesOrdered'
  <2>1. \A n, i \in 1..a : n <= i => stateHistory[n].time <= stateHistory[i].time
    BY <1>3 DEF ReplayParts, StatesOrdered
  <2>2. ASSUME NEW n \in DOMAIN stateHistory', NEW i \in DOMAIN stateHistory', n <= i
        PROVE  stateHistory'[n].time <= stateHistory'[i].time
    <3>1. CASE n \in 1..a /\ i \in 1..a
      BY <1>7, <2>1, <2>2, <3>1
    <3>2. CASE n \in 1..a /\ i = a + 1
      <4>1. i \notin 1..a
        BY <1>3, <3>2
      <4>2. QED
        BY <1>7, <1>12, <3>2, <4>1
    <3>3. CASE n = a + 1 /\ i = a + 1
      <4>1. i \notin 1..a
        BY <1>3, <3>3
      <4>2. QED
        BY <1>3, <1>7, <3>3, <4>1
    <3>4. ~(n = a + 1 /\ i \in 1..a)
      BY <1>3, <2>2
    <3>5. QED
      BY <1>7, <3>1, <3>2, <3>3, <3>4
  <2>3. \A n \in DOMAIN stateHistory' : stateHistory'[n].time <= m.time
    BY <1>3, <1>7, <1>12
  <2>4. QED
    BY <1>5, <2>2, <2>3 DEF StatesOrdered
<1>14. QueueAhead'
  <2>1. \A n \in measurementQueue' : m.time <= n.time /\ n \notin Fused(filter'.estimate)
    BY <1>1, <1>4
  <2>2. QED
    BY <1>5, <2>1 DEF QueueAhead, Fused
<1>15. \A x \in processed' : x \in Fused(filter'.estimate) \/ x \in measurementQueue'
  BY <1>1 DEF ReplayParts, NoneForgotten
<1>16. NoneForgotten'
  BY <1>1, <1>15 DEF NoneForgotten, Fused
\* A state earlier than m was complete before and does not lack m.
<1>17. ASSUME NEW n \in 1..a, n < a => stateHistory[n].time < stateHistory[n + 1].time,
              n = a => stateHistory[n].time < m.time,
              NEW x \in processed', x.time <= stateHistory[n].time
       PROVE  x \in Fused(stateHistory[n].estimate)
  <2>1. stateHistory[n].time < m.time
    <3>1. CASE n = a
      BY <1>17, <3>1
    <3>2. CASE n # a
      <4>1. n < a /\ n + 1 \in 1..a
        BY <1>3, <3>2
      <4>2. QED
        BY <1>3, <1>12, <1>17, <4>1
    <3>3. QED
      BY <3>1, <3>2
  <2>2. x # m /\ x \in processed
    <3>1. x # m
      BY <1>3, <1>17, <2>1
    <3>2. QED
      BY <1>1, <3>1
  <2>3. ~Pending(stateHistory[n].time)
    <3>1. \A y \in measurementQueue : y.time # stateHistory[n].time
      BY <1>1, <1>3, <2>1
    <3>2. QED
      BY <3>1 DEF Pending
  <2>4. n < Len(stateHistory) => stateHistory[n].time < stateHistory[n + 1].time
    BY <1>6, <1>17
  <2>5. n \in DOMAIN stateHistory
    BY <1>3
  <2>6. QED
    BY <1>17, <2>2, <2>3, <2>4, <2>5 DEF ReplayParts, StatesComplete
<1>18. Pending(m.time)' <=> \E n \in measurementQueue' : n.time = m.time
  BY <1>1, <1>5 DEF Pending
<1>19. StatesComplete'
  <2>1. SUFFICES ASSUME NEW n \in DOMAIN stateHistory',
                        n < Len(stateHistory') => stateHistory'[n].time < stateHistory'[n + 1].time,
                        n = Len(stateHistory') => ~Pending(stateHistory[n].time)',
                        NEW x \in processed', x.time <= stateHistory'[n].time
                 PROVE  x \in Fused(stateHistory'[n].estimate)
    BY DEF StatesComplete, Fused
  <2>2. CASE n \in 1..a
    <3>1. stateHistory'[n] = stateHistory[n]
      BY <1>7, <2>2
    <3>2. n < a => stateHistory[n].time < stateHistory[n + 1].time
      <4>1. SUFFICES ASSUME n < a PROVE stateHistory[n].time < stateHistory[n + 1].time
        OBVIOUS
      <4>2. n + 1 \in 1..a /\ n < a + 1
        BY <1>3, <2>2, <4>1
      <4>3. stateHistory'[n + 1] = stateHistory[n + 1]
        BY <1>7, <4>2
      <4>4. n < Len(stateHistory')
        BY <1>2, <1>6, <4>1, <4>2
      <4>5. QED
        BY <2>1, <3>1, <4>3, <4>4
    <3>3. n = a => stateHistory[n].time < m.time
      <4>1. SUFFICES ASSUME n = a PROVE stateHistory[n].time < m.time
        OBVIOUS
      <4>2. CASE stateHistory' = stateHistory /\ \E y \in measurementQueue' : y.time = filter'.time
        <5>1. Pending(m.time)'
          BY <1>5, <1>18, <4>2
        <5>2. n = Len(stateHistory')
          BY <1>6, <4>1, <4>2
        <5>3. ~Pending(stateHistory[n].time)'
          BY <2>1, <5>2
        <5>4. stateHistory[n].time # m.time
          BY <3>1, <5>1, <5>3 DEF Pending
        <5>5. QED
          BY <1>3, <1>12, <2>2, <5>4
      <4>3. CASE Len(stateHistory') = a + 1 /\ stateHistory'[a + 1].time = filter'.time
        <5>1. n < Len(stateHistory')
          BY <1>3, <4>1, <4>3
        <5>2. stateHistory'[n].time < stateHistory'[n + 1].time
          BY <2>1, <5>1
        <5>3. QED
          BY <1>5, <3>1, <4>1, <4>3, <5>2
      <4>4. QED
        BY <1>2, <4>2, <4>3
    <3>4. x.time <= stateHistory[n].time
      BY <2>1, <3>1
    <3>5. QED
      BY <1>17, <2>2, <3>1, <3>2, <3>3, <3>4
  <2>3. CASE n \notin 1..a
    <3>1. /\ n = Len(stateHistory') /\ stateHistory'[n].time = m.time
          /\ stateHistory'[n].estimate = filter'.estimate
      BY <1>7, <2>3
    <3>2. ~Pending(m.time)'
      <4>1. ~Pending(stateHistory[n].time)'
        BY <2>1, <3>1
      <4>2. QED
        BY <3>1, <4>1 DEF Pending
    <3>3. x \notin measurementQueue'
      <4>1. SUFFICES ASSUME x \in measurementQueue' PROVE FALSE
        OBVIOUS
      <4>2. m.time <= x.time /\ x.time \in Nat /\ x.time <= m.time
        BY <1>1, <1>3, <2>1, <3>1, <4>1
      <4>3. x.time = m.time
        BY <1>3, <4>2
      <4>4. QED
        BY <1>18, <3>2, <4>1, <4>3
    <3>4. QED
      BY <1>15, <3>1, <3>3
  <2>4. QED
    BY <2>2, <2>3
<1>20. LaterKept'
  <2>1. ASSUME NEW n \in DOMAIN stateHistory', NEW x \in processed', stateHistory'[n].time < x.time
        PROVE  \/ \E i \in 1..(b + 1) : x = measurementHistory'[i]
               \/ x \in measurementQueue'
    <3>1. CASE x = m
      BY <1>1, <1>6, <3>1
    <3>2. CASE x # m
      <4>1. x \in processed
        BY <1>1, <3>2
      <4>2. CASE n \in 1..a
        <5>1. n \in DOMAIN stateHistory /\ stateHistory[n].time < x.time
          BY <1>3, <1>7, <2>1, <4>2
        <5>2. (\E i \in 1..b : x = measurementHistory[i]) \/ x \in measurementQueue
          BY <1>3, <4>1, <5>1 DEF ReplayParts, LaterKept
        <5>3. QED
          BY <1>1, <1>6, <3>2, <5>2
      <4>3. CASE n \notin 1..a
        <5>1. m.time < x.time
          BY <1>7, <2>1, <4>3
        <5>2. x.time \in Nat
          BY <1>3, <4>1
        <5>3. x \notin Fused(filter.estimate)
          BY <1>3, <1>4, <1>8, <5>1, <5>2
        <5>4. QED
          BY <1>1, <1>15, <3>2, <5>3
      <4>4. QED
        BY <4>2, <4>3
    <3>3. QED
      BY <3>1, <3>2
  <2>2. QED
    BY <1>1, <2>1 DEF LaterKept
<1>21. StampsSaved'
  <2>1. (\E n \in DOMAIN stateHistory' : stateHistory'[n].time = m.time) \/ Pending(m.time)'
    BY <1>2, <1>5, <1>6, <1>18
  <2>2. ASSUME NEW i \in 1..(b + 1)
        PROVE  \/ \E n \in DOMAIN stateHistory' : stateHistory'[n].time = measurementHistory'[i].time
               \/ Pending(measurementHistory[i].time)'
    <3>1. CASE measurementHistory'[i].time = m.time
      <4>1. CASE \E n \in DOMAIN stateHistory' : stateHistory'[n].time = m.time
        BY <3>1, <4>1
      <4>2. CASE Pending(m.time)'
        BY <3>1, <4>2 DEF Pending
      <4>3. QED
        BY <2>1, <4>1, <4>2
    <3>2. CASE measurementHistory'[i].time # m.time
      <4>1. i \in 1..b /\ measurementHistory'[i] = measurementHistory[i]
        BY <1>1, <1>6, <3>2
      <4>2. ~Pending(measurementHistory[i].time)
        <5>1. ASSUME Pending(measurementHistory[i].time) PROVE measurementHistory[i].time = m.time
          <6>1. filter.time = measurementHistory[i].time
                /\ \E y \in measurementQueue : y.time = measurementHistory[i].time
            BY <5>1 DEF Pending
          <6>2. m.time <= filter.time
            BY <1>1, <6>1
          <6>3. QED
            BY <1>3, <1>4, <6>1, <6>2
        <5>2. QED
          BY <3>2, <4>1, <5>1
      <4>3. PICK n \in 1..a : stateHistory[n].time = measurementHistory[i].time
        BY <1>3, <4>1, <4>2 DEF ReplayParts, StampsSaved
      <4>4. QED
        BY <1>7, <4>1, <4>3
    <3>3. QED
      BY <3>1, <3>2
  <2>3. QED
    BY <1>1, <2>2 DEF StampsSaved, Pending
<1>22. QED
  BY <1>10, <1>11, <1>13, <1>14, <1>16, <1>19, <1>20, <1>21 DEF ReplayParts

\* The end of an update: no measurement that was processed is queued, the states
\* and the measurements dropped are those before one instant.
LEMMA ReplayEnded ==
  ASSUME TypeOK, TypeOK', TimeInv, ProcessedInv, HistoryInv, ReplayParts, Ended
  PROVE  ReplayParts'
<1> DEFINE a == Len(stateHistory)
           b == Len(measurementHistory)
<1>1. /\ pc' = "idle" /\ (pc = "integrate" => \A m \in Top : ~Due(m))
      /\ filter'.estimate = filter.estimate /\ filter'.time \in {filter.time, clock}
      /\ processed' = processed
  BY DEF Ended
<1>2. /\ a \in Nat /\ b \in Nat /\ clock \in Nat /\ filter.time \in Nat
      /\ DOMAIN stateHistory = 1..a /\ DOMAIN measurementHistory = 1..b
      /\ \A n \in 1..a : stateHistory[n].time \in Nat
      /\ \A n \in 1..b : measurementHistory[n].time \in Nat
      /\ \A n \in measurementQueue \cup processed : n.time \in Nat
  BY HistoryTypes
<1>3. filter.time <= filter'.time /\ filter'.time \in Nat
  BY <1>1, <1>2 DEF TimeInv, NotAheadOfClock
<1>4. PICK c \in Nat, k \in 0..a, j \in 0..b :
        /\ \A i \in 1..k : stateHistory[i].time < c
        /\ k < a => c <= stateHistory[k + 1].time
        /\ \A i \in 1..j : measurementHistory[i].time < c
        /\ j < b => c <= measurementHistory[j + 1].time
        /\ Len(stateHistory') = a - k /\ DOMAIN stateHistory' = 1..(a - k)
        /\ \A i \in 1..(a - k) : stateHistory'[i] = stateHistory[i + k]
        /\ DOMAIN measurementHistory' = 1..(b - j)
        /\ \A i \in 1..(b - j) : measurementHistory'[i] = measurementHistory[i + j]
  BY <1>3, ExpiryEntries
<1>5. Len(stateHistory) = a
  OBVIOUS
<1> HIDE DEF a, b
<1>6. pc = "integrate" => \A m \in measurementQueue : clock < m.time
  BY <1>1, NoneDue
<1>7. \A x \in processed : ~(pc = "integrate" /\ x \in measurementQueue)
  <2>1. \A x \in processed : x.time <= clock
    BY DEF ProcessedInv
  <2>2. QED
    BY <1>2, <1>6, <2>1
<1>8. \A t : ~Pending(t)
  <2>1. ASSUME NEW t, Pending(t) PROVE FALSE
    <3>1. PICK n \in measurementQueue : pc = "integrate" /\ filter.time = n.time
      BY <2>1 DEF Pending
    <3>2. clock < n.time /\ filter.time <= clock
      BY <1>6, <3>1 DEF TimeInv, NotAheadOfClock
    <3>3. QED
      BY <1>2, <3>1, <3>2
  <2>2. QED
    BY <2>1
<1>9. \A i \in 1..(a - k) :
        i + k \in 1..a /\ k < a /\ k + 1 \in 1..a /\ k + 1 <= i + k
  BY <1>2
<1>10. \A i \in 1..(b - j) :
         i + j \in 1..b /\ j < b /\ j + 1 \in 1..b /\ j + 1 <= i + j
  BY <1>2
<1>11. \A n, i \in 1..a : n <= i => stateHistory[n].time <= stateHistory[i].time
  BY <1>2 DEF ReplayParts, StatesOrdered
<1>12. \A n, i \in 1..b : n <= i => measurementHistory[n].time <= measurementHistory[i].time
  <2>1. \A n, i \in 1..b : n < i => measurementHistory[n].time <= measurementHistory[i].time
    BY <1>2 DEF HistoryInv, HistoryPrecedesQueue
  <2>2. QED
    BY <1>2, <2>1
<1>13. \A i \in 1..(a - k) : c <= stateHistory[i + k].time
  BY <1>2, <1>4, <1>9, <1>11
<1>14. \A i \in 1..(b - j) : c <= measurementHistory[i + j].time
  BY <1>2, <1>4, <1>10, <1>12
<1>15. EstimatesOrdered'
  <2>1. InOrder(filter.estimate) /\ \A n \in 1..a : InOrder(stateHistory[n].estimate)
    BY <1>2 DEF ReplayParts, EstimatesOrdered
  <2>2. \A n \in 1..(a - k) : InOrder(stateHistory'[n].estimate)
    BY <1>4, <1>9, <2>1
  <2>3. QED
    BY <1>1, <1>4, <2>1, <2>2 DEF EstimatesOrdered, InOrder
<1>16. EstimatesPast'
  <2>1. /\ \A x \in Fused(filter.estimate) : x.time \in Nat /\ x.time <= filter.time
        /\ \A n \in 1..a :
             \A x \in Fused(stateHistory[n].estimate) : x.time <= stateHistory[n].time
    BY <1>2 DEF ReplayParts, EstimatesPast, ProcessedInv
  <2>2. \A x \in Fused(filter'.estimate) : x.time <= filter'.time
    BY <1>1, <1>2, <1>3, <2>1
  <2>3. \A n \in 1..(a - k) :
          \A x \in Fused(stateHistory'[n].estimate) : x.time <= stateHistory'[n].time
    BY <1>4, <1>9, <2>1
  <2>4. QED
    BY <1>4, <2>2, <2>3 DEF EstimatesPast, Fused
<1>17. StatesOrdered'
  <2>1. ASSUME NEW n \in 1..(a - k), NEW i \in 1..(a - k), n <= i
        PROVE  stateHistory'[n].time <= stateHistory'[i].time
    <3>1. n + k <= i + k
      BY <1>2, <2>1
    <3>2. QED
      BY <1>4, <1>9, <1>11, <3>1
  <2>2. \A n \in 1..a : stateHistory[n].time <= filter.time
    BY <1>2 DEF ReplayParts, StatesOrdered
  <2>3. \A n \in 1..a : stateHistory[n].time <= filter'.time
    BY <1>2, <1>3, <2>2
  <2>4. \A n \in 1..(a - k) : stateHistory'[n].time <= filter'.time
    BY <1>4, <1>9, <2>3
  <2>5. QED
    BY <1>4, <2>1, <2>4 DEF StatesOrdered
<1>18. QueueAhead'
  BY <1>1 DEF QueueAhead
<1>19. NoneForgotten'
  <2>1. \A x \in processed : x \in Fused(filter.estimate)
    BY <1>7 DEF ReplayParts, NoneForgotten
  <2>2. QED
    BY <1>1, <2>1 DEF NoneForgotten, Fused
<1>20. StatesComplete'
  <2>1. SUFFICES ASSUME NEW n \in 1..(a - k),
                        n < a - k => stateHistory'[n].time < stateHistory'[n + 1].time,
                        NEW x \in processed, x.time <= stateHistory'[n].time
                 PROVE  x \in Fused(stateHistory'[n].estimate)
    BY <1>1, <1>4 DEF StatesComplete, Fused
  <2>2. n + k \in 1..a /\ n + k \in DOMAIN stateHistory /\ stateHistory'[n] = stateHistory[n + k]
    BY <1>2, <1>4, <1>9
  <2>3. ASSUME n + k < Len(stateHistory)
        PROVE  stateHistory[n + k].time < stateHistory[(n + k) + 1].time
    <3>1. n < a - k /\ n + 1 \in 1..(a - k) /\ (n + 1) + k = (n + k) + 1
      BY <1>2, <1>5, <2>3
    <3>2. stateHistory'[n + 1] = stateHistory[(n + k) + 1]
      BY <1>4, <3>1
    <3>3. QED
      BY <2>1, <2>2, <3>1, <3>2
  <2>4. QED
    BY <1>8, <2>1, <2>2, <2>3 DEF ReplayParts, StatesComplete
<1>21. LaterKept'
  <2>1. ASSUME NEW n \in 1..(a - k), NEW x \in processed, stateHistory'[n].time < x.time
        PROVE  \E i \in 1..(b - j) : x = measurementHistory'[i]
    <3>1. /\ n + k \in 1..a /\ stateHistory[n + k].time < x.time
          /\ c <= stateHistory[n + k].time
      BY <1>4, <1>9, <1>13, <2>1
    <3>2. PICK i \in 1..b : x = measurementHistory[i]
      BY <1>2, <1>7, <3>1 DEF ReplayParts, LaterKept
    <3>3. ~(x.time < c)
      BY <1>2, <3>1
    <3>4. i \notin 1..j
      BY <1>4, <3>2, <3>3
    <3>5. i - j \in 1..(b - j) /\ (i - j) + j = i
      BY <1>2, <3>4
    <3>6. measurementHistory'[i - j] = x
      BY <1>4, <3>2, <3>5
    <3>7. QED
      BY <3>5, <3>6
  <2>2. QED
    BY <1>1, <1>4, <2>1 DEF LaterKept
<1>22. StampsSaved'
  <2>1. ASSUME NEW i \in 1..(b - j)
        PROVE  \E n \in 1..(a - k) : stateHistory'[n].time = measurementHistory'[i].time
    <3>1. /\ i + j \in 1..b /\ measurementHistory'[i] = measurementHistory[i + j]
          /\ c <= measurementHistory[i + j].time
      BY <1>4, <1>10, <1>14
    <3>2. PICK n \in 1..a : stateHistory[n].time = measurementHistory[i + j].time
      BY <1>2, <1>8, <3>1 DEF ReplayParts, StampsSaved
    <3>3. ~(stateHistory[n].time < c)
      BY <1>2, <3>1, <3>2
    <3>4. n \notin 1..k
      BY <1>4, <3>3
    <3>5. n - k \in 1..(a - k) /\ (n - k) + k = n
      BY <1>2, <3>4
    <3>6. stateHistory'[n - k] = stateHistory[n]
      BY <1>4, <3>5
    <3>7. QED
      BY <3>1, <3>2, <3>5, <3>6
  <2>2. QED
    BY <1>4, <2>1 DEF StampsSaved
<1>23. QED
  BY <1>15, <1>16, <1>17, <1>18, <1>19, <1>20, <1>21, <1>22 DEF ReplayParts

LEMMA ReplayStep ==
  ASSUME TypeOK, TypeOK', TimeInv, ProcessedInv, HistoryInv, ReplayInv, [Next]_vars
  PROVE  ReplayInv'
<1>1. CASE Cleared
  <2>1. /\ pc' = "idle" /\ filter'.estimate = <<>> /\ processed' = {}
        /\ DOMAIN stateHistory' = {} /\ DOMAIN measurementHistory' = {}
        /\ DOMAIN filter'.estimate = {}
    BY <1>1 DEF Cleared
  <2>2. QED
    BY <2>1 DEF ReplayInv, ReplayParts, EstimatesOrdered, InOrder, EstimatesPast, Fused,
                StatesOrdered, QueueAhead, NoneForgotten, StatesComplete, LaterKept, StampsSaved
<1>2. CASE ~Cleared
  <2>1. SUFFICES ASSUME SmoothLaggedData, ~revertedShort'
                 PROVE  ReplayParts'
    BY DEF ReplayInv
  <2>2. CASE Quiet
    <3>1. ReplayParts
      BY <2>1, <2>2 DEF Quiet, ReplayInv
    <3>2. /\ UNCHANGED <<pc, measurementQueue, stateHistory, measurementHistory, processed>>
          /\ filter'.estimate = filter.estimate /\ filter'.time = filter.time
      BY <2>2 DEF Quiet
    <3>3. \A t : Pending(t)' <=> Pending(t)
      BY <3>2 DEF Pending
    <3>4. EstimatesOrdered' /\ EstimatesPast' /\ StatesOrdered' /\ QueueAhead' /\ NoneForgotten'
      BY <3>1, <3>2
      DEF ReplayParts, EstimatesOrdered, InOrder, EstimatesPast, Fused, StatesOrdered,
          QueueAhead, NoneForgotten
    <3>5. StatesComplete'
      BY <3>1, <3>2 DEF ReplayParts, StatesComplete, Fused, Pending
    <3>6. LaterKept' /\ StampsSaved'
      BY <3>1, <3>2 DEF ReplayParts, LaterKept, StampsSaved, Pending
    <3>7. QED
      BY <3>4, <3>5, <3>6 DEF ReplayParts
  <2>3. CASE Enqueued
    <3>1. ReplayParts
      BY <2>1, <2>3 DEF Enqueued, ReplayInv
    <3>2. /\ pc = "idle" /\ pc' = "idle"
          /\ UNCHANGED <<filter, stateHistory, measurementHistory, processed>>
      BY <2>3 DEF Enqueued
    <3>3. EstimatesOrdered' /\ EstimatesPast' /\ StatesOrdered' /\ QueueAhead' /\ NoneForgotten'
      BY <3>1, <3>2
      DEF ReplayParts, EstimatesOrdered, InOrder, EstimatesPast, Fused, StatesOrdered,
          QueueAhead, NoneForgotten
    <3>4. StatesComplete'
      BY <3>1, <3>2 DEF ReplayParts, StatesComplete, Fused, Pending
    <3>5. LaterKept' /\ StampsSaved'
      BY <3>1, <3>2 DEF ReplayParts, LaterKept, StampsSaved, Pending
    <3>6. QED
      BY <3>3, <3>4, <3>5 DEF ReplayParts
  <2>4. CASE Started
    <3>1. ReplayParts
      BY <2>1, <2>4 DEF Started, ReplayInv
    <3>2. QED
      BY <2>1, <2>4, <3>1, ReplayStarted
  <2>5. ASSUME NEW m \in measurementQueue, Reverted(m) PROVE ReplayParts'
    <3>1. stateHistory # <<>>
      BY <2>1, <2>5, RevertWithoutState
    <3>2. ~revertedShort
      BY <2>1, <2>5, <3>1, RevertEntries
    <3>3. ReplayParts
      BY <2>1, <3>2 DEF ReplayInv
    <3>4. QED
      BY <2>1, <2>5, <3>3, ReplayReverted
  <2>6. ASSUME NEW m \in measurementQueue, IntegrateOne(m) PROVE ReplayParts'
    <3>1. ReplayParts
      BY <2>1, <2>6, IntegrateEntries DEF ReplayInv
    <3>2. QED
      BY <2>1, <2>6, <3>1, ReplayIntegrated
  <2>7. CASE Ended
    <3>1. ReplayParts
      BY <2>1, <2>7 DEF Ended, ReplayInv
    <3>2. QED
      BY <2>7, <3>1, ReplayEnded
  <2>8. QED
    BY <1>2, <2>2, <2>3, <2>4, <2>5, <2>6, <2>7, StepKinds
<1>3. QED
  BY <1>1, <1>2

LEMMA ReplayCorrect == Spec => []ReplayInv
<1>1. Init => ReplayInv
  <2>1. SUFFICES ASSUME Init PROVE ReplayParts
    BY DEF ReplayInv
  <2>2. /\ pc = "idle" /\ processed = {} /\ filter.estimate = <<>>
        /\ DOMAIN stateHistory = {} /\ DOMAIN measurementHistory = {}
        /\ DOMAIN filter.estimate = {}
    BY <2>1 DEF Init
  <2>3. QED
    BY <2>2 DEF ReplayParts, EstimatesOrdered, InOrder, EstimatesPast, Fused,
                StatesOrdered, QueueAhead, NoneForgotten, StatesComplete, LaterKept, StampsSaved
<1>2. TypeOK /\ TypeOK' /\ TimeInv /\ ProcessedInv /\ HistoryInv /\ ReplayInv /\ [Next]_vars
        => ReplayInv'
  BY ReplayStep
<1>3. QED
  BY <1>1, <1>2, TypeCorrect, TimeCorrect, ProcessedCorrect, HistoryCorrect, PTL DEF Spec

\* Without smooth_lagged_data nothing is reverted: what was processed is fused.
PlainInv == ~SmoothLaggedData => processed \subseteq Fused(filter.estimate)

LEMMA PlainCorrect == Spec => []PlainInv
<1>1. Init => PlainInv
  BY DEF Init, PlainInv
<1>2. ASSUME TypeOK, TypeOK', PlainInv, [Next]_vars
      PROVE  PlainInv'
  <2>1. SUFFICES ASSUME ~SmoothLaggedData
                 PROVE  processed' \subseteq Fused(filter'.estimate)
    BY DEF PlainInv, Fused
  <2>2. processed \subseteq Fused(filter.estimate)
    BY <2>1, <1>2 DEF PlainInv
  <2>3. CASE Quiet \/ Enqueued \/ Started \/ Ended
    <3>1. processed' = processed /\ filter'.estimate = filter.estimate
      BY <2>3 DEF Quiet, Enqueued, Started, Ended
    <3>2. QED
      BY <2>2, <3>1
  <2>4. CASE Cleared
    BY <2>4 DEF Cleared
  <2>5. ASSUME NEW m \in measurementQueue, Reverted(m) PROVE FALSE
    BY <2>1, <2>5 DEF Reverted
  <2>6. ASSUME NEW m \in measurementQueue, IntegrateOne(m)
        PROVE  processed' \subseteq Fused(filter'.estimate)
    <3>1. /\ processed' = processed \cup {m}
          /\ Fused(filter'.estimate) = Fused(filter.estimate) \cup {m}
      BY <1>2, <2>6, IntegrateEntries
    <3>2. QED
      BY <2>2, <3>1
  <2>7. QED
    BY <1>2, <2>3, <2>4, <2>5, <2>6, StepKinds
<1>3. TypeOK /\ TypeOK' /\ PlainInv /\ [Next]_vars => PlainInv'
  BY <1>2
<1>4. QED
  BY <1>1, <1>3, TypeCorrect, PTL DEF Spec

\* In any configuration, between updates the estimate consists of exactly the
\* measurements taken out of the queue since the last reset or set_pose, until a
\* revert finds no state old enough: revertTo loses none and adds none.
THEOREM NoneIsLost == Spec => []NoMeasurementLost
<1>1. ProcessedInv /\ ReplayInv /\ PlainInv => NoMeasurementLost
  <2>1. SUFFICES ASSUME ProcessedInv, ReplayInv, PlainInv, pc = "idle", ~revertedShort
                 PROVE  processed = Fused(filter.estimate)
    BY DEF NoMeasurementLost
  <2>2. Fused(filter.estimate) \subseteq processed
    BY <2>1 DEF ProcessedInv
  <2>3. CASE SmoothLaggedData
    <3>1. NoneForgotten
      BY <2>1, <2>3 DEF ReplayInv, ReplayParts
    <3>2. QED
      BY <2>1, <2>2, <3>1 DEF NoneForgotten
  <2>4. CASE ~SmoothLaggedData
    BY <2>1, <2>2, <2>4 DEF PlainInv
  <2>5. QED
    BY <2>3, <2>4
<1>2. QED
  BY <1>1, ProcessedCorrect, ReplayCorrect, PlainCorrect, PTL

\* With smooth_lagged_data the estimate is the result of processing its
\* measurements once each and in the order of their stamps, in whatever order
\* they arrived, until a revert finds no state old enough.
THEOREM SmoothedIsInOrder == Spec => []SmoothedInOrder
<1>1. ReplayInv => SmoothedInOrder
  BY DEF ReplayInv, ReplayParts, EstimatesOrdered, InOrder, SmoothedInOrder
<1>2. QED
  BY <1>1, ReplayCorrect, PTL

-----------------------------------------------------------------------------
\* The stamps of the output.

\* A measurement stamped at or after x is due in this update.
Awaited(x) == pc = "integrate" /\ \E m \in measurementQueue : m.time <= clock /\ x <= m.time

\* A revert cannot take the filter back behind x for good: no saved state is
\* older, or a measurement that old or newer will be replayed.
Backed(x) ==
  \/ x <= predictedTo
  \/ \A i \in DOMAIN stateHistory : x <= stateHistory[i].time
  \/ \E i \in DOMAIN measurementHistory : x <= measurementHistory[i].time
  \/ Awaited(x)

\* The saved states are in the order of their stamps, and the filter at or
\* after the last one.
StatesSorted ==
  /\ \A i, j \in DOMAIN stateHistory : i <= j => stateHistory[i].time <= stateHistory[j].time
  /\ \A i \in DOMAIN stateHistory : stateHistory[i].time <= filter.time

\* The inductive invariant.  Every time the filter may return to is backed, for
\* the stamp it publishes next is one of them; the last stamp published is
\* reached again before the update ends, unless it was only predicted.
StampInv ==
  /\ ~filter.initialized => stateHistory = <<>> /\ lastPublishedStamp = 0
  /\ ~SmoothLaggedData => stateHistory = <<>>
  /\ StatesSorted
  /\ predictedTo <= clock
  /\ Backed(filter.time)
  /\ Backed(lastPublishedStamp)
  /\ \A i \in DOMAIN stateHistory : Backed(stateHistory[i].time)
  /\ \/ lastPublishedStamp <= filter.time
     \/ lastPublishedStamp <= predictedTo
     \/ Awaited(lastPublishedStamp)

\* What was sent last is the last stamp, unless that was taken back behind a
\* prediction.
SentInv ==
  ~PermitCorrected => published = lastPublishedStamp \/ published <= predictedTo

\* The stamps are natural numbers.
LEMMA StampTypes ==
  ASSUME TypeOK
  PROVE  /\ lastPublishedStamp \in Nat /\ published \in Nat /\ predictedTo \in Nat
         /\ filter.initialized \in BOOLEAN /\ filter \in Filter
BY DEF TypeOK, Time, Filter

\* A step that leaves the filter's time, the histories and the stamps alone and
\* takes nothing out of the queue.
LEMMA StampStutter ==
  ASSUME TypeOK, TypeOK', StampInv,
         UNCHANGED <<stateHistory, measurementHistory, lastPublishedStamp, predictedTo>>,
         filter'.time = filter.time, filter'.initialized = filter.initialized,
         clock <= clock', pc' = pc \/ pc # "integrate",
         measurementQueue \subseteq measurementQueue'
  PROVE  StampInv'
<1>1. clock \in Nat /\ clock' \in Nat /\ predictedTo \in Nat
  BY HistoryTypes, StampTypes DEF TypeOK, Time
<1>2. \A m \in measurementQueue : m.time \in Nat
  BY HistoryTypes
<1>3. ASSUME NEW x, Awaited(x) PROVE Awaited(x)'
  BY <1>1, <1>2, <1>3 DEF Awaited
<1>4. ASSUME NEW x, Backed(x) PROVE Backed(x)'
  BY <1>3, <1>4 DEF Backed
<1>5. Backed(filter.time)' /\ Backed(lastPublishedStamp)'
  <2>1. Backed(filter.time) /\ Backed(lastPublishedStamp)
    BY DEF StampInv
  <2>2. QED
    BY <1>3, <2>1 DEF Backed
<1>6. \A i \in DOMAIN stateHistory' : Backed(stateHistory[i].time)'
  <2>1. \A i \in DOMAIN stateHistory : Backed(stateHistory[i].time)
    BY DEF StampInv
  <2>2. QED
    BY <1>3, <2>1 DEF Backed
<1>7. \/ lastPublishedStamp' <= filter'.time
      \/ lastPublishedStamp' <= predictedTo'
      \/ Awaited(lastPublishedStamp)'
  BY <1>3 DEF StampInv, Awaited
<1>8. StatesSorted' /\ predictedTo' <= clock'
  BY <1>1 DEF StampInv, StatesSorted
<1>9. QED
  BY <1>5, <1>6, <1>7, <1>8 DEF StampInv

\* reset() and set_pose forget the saved states.
LEMMA StampCleared ==
  ASSUME TypeOK, TypeOK', StampInv, stateHistory' = <<>>, clock' = clock,
         \/ lastPublishedStamp' = 0 /\ predictedTo' = 0
         \/ /\ UNCHANGED <<lastPublishedStamp, predictedTo>>
            /\ filter'.initialized = filter.initialized
            /\ filter'.time = clock /\ lastPublishedStamp <= clock
  PROVE  StampInv'
<1>1. clock \in Nat /\ filter'.time \in Nat
  BY HistoryTypes DEF TypeOK, Filter, Time
<1>2. DOMAIN stateHistory' = {}
  OBVIOUS
<1>3. Backed(filter.time)' /\ Backed(lastPublishedStamp)'
  BY <1>2 DEF Backed
<1>4. ~filter'.initialized => lastPublishedStamp' = 0
  BY DEF StampInv
<1>5. lastPublishedStamp' <= filter'.time /\ predictedTo' <= clock'
  BY <1>1 DEF StampInv
<1>6. QED
  BY <1>2, <1>3, <1>4, <1>5 DEF StampInv, StatesSorted

\* A revert: what backed a time stays, is queued again, or no older state is
\* left.
LEMMA StampReverted ==
  ASSUME TypeOK, TypeOK', TimeInv, ProcessedInv, HistoryInv, StampInv,
         NEW m \in measurementQueue, Reverted(m),
         UNCHANGED <<lastPublishedStamp, predictedTo>>,
         filter'.initialized = filter.initialized
  PROVE  StampInv'
<1>0. /\ clock \in Nat /\ filter.time \in Nat /\ m.time \in Nat
      /\ Len(stateHistory) \in Nat /\ DOMAIN stateHistory = 1..Len(stateHistory)
      /\ Len(measurementHistory) \in Nat
      /\ DOMAIN measurementHistory = 1..Len(measurementHistory)
      /\ \A i \in 1..Len(stateHistory) : stateHistory[i].time \in Nat
      /\ \A i \in 1..Len(measurementHistory) : measurementHistory[i].time \in Nat
      /\ lastPublishedStamp \in Nat /\ predictedTo \in Nat
  BY HistoryTypes, StampTypes
<1>1. /\ pc = "idle" /\ pc' = "integrate" /\ clock' = clock /\ m.time < filter.time
      /\ SmoothLaggedData
  BY DEF Reverted
<1>2. CASE stateHistory = <<>>
  BY <1>0, <1>1, <1>2, RevertWithoutState, StampStutter
<1>3. CASE stateHistory # <<>>
  <2>1. PICK k \in 0..Len(stateHistory), j \in 0..Len(measurementHistory) :
          LET i == IF k > 0 THEN k ELSE 1
          IN /\ Len(stateHistory) > 0
             /\ filter'.time = stateHistory[i].time
             /\ k > 0 => stateHistory[k].time < m.time
             /\ j > 0 => measurementHistory[j].time < m.time
             /\ \A n \in (j + 1)..Len(measurementHistory) :
                  m.time <= measurementHistory[n].time
             /\ DOMAIN stateHistory' = 1..k
             /\ Len(stateHistory') = k
             /\ \A n \in 1..k : stateHistory'[n] = stateHistory[n]
             /\ DOMAIN measurementHistory' = 1..j
             /\ \A n \in 1..j : measurementHistory'[n] = measurementHistory[n]
             /\ measurementQueue' = measurementQueue \cup
                  {x \in {measurementHistory[n] : n \in (j + 1)..Len(measurementHistory)} :
                     stateHistory[i].time <= x.time}
    BY <1>3, RevertEntries
  <2> DEFINE i == IF k > 0 THEN k ELSE 1
  <2>2. i \in 1..Len(stateHistory) /\ filter'.time = stateHistory[i].time
    BY <1>0, <2>1
  <2>3. \A n \in (j + 1)..Len(measurementHistory) :
          stateHistory[i].time <= measurementHistory[n].time =>
            measurementHistory[n] \in measurementQueue'
    BY <2>1
  <2>4. \A n \in (j + 1)..Len(measurementHistory) : n \in 1..Len(measurementHistory)
    BY <1>0
  <2>5. \A n \in 1..Len(measurementHistory) : measurementHistory[n].time <= clock
    BY <1>0 DEF ProcessedInv
  <2>6. k > 0 => i = k /\ stateHistory[i].time < m.time
    BY <2>1
  <2>7. k = 0 => DOMAIN stateHistory' = {}
    BY <2>1
  <2>8. m.time <= clock /\ m \in measurementQueue'
    BY <1>0, <1>1, <2>1 DEF TimeInv, NotAheadOfClock
  <2> HIDE DEF i
  <2>9. ASSUME NEW x \in Nat, NEW n \in (j + 1)..Len(measurementHistory),
               x <= measurementHistory[n].time
        PROVE  Awaited(x)' \/ (x <= filter'.time /\ k = 0)
    <3>1. /\ measurementHistory[n].time \in Nat /\ measurementHistory[n].time <= clock
          /\ stateHistory[i].time \in Nat /\ m.time <= measurementHistory[n].time
      BY <1>0, <2>1, <2>2, <2>4, <2>5
    <3>2. CASE stateHistory[i].time <= measurementHistory[n].time
      BY <1>1, <2>3, <2>9, <3>1, <3>2 DEF Awaited
    <3>3. CASE measurementHistory[n].time < stateHistory[i].time
      BY <1>0, <2>2, <2>6, <2>9, <3>1, <3>3
    <3>4. QED
      BY <3>1, <3>2, <3>3
  <2>10. \A n \in 1..Len(measurementHistory) : n \in 1..j \/ n \in (j + 1)..Len(measurementHistory)
    BY <1>0
  <2>11. ASSUME NEW x \in Nat, Backed(x)
         PROVE  \/ x <= predictedTo'
                \/ \A n \in DOMAIN stateHistory' : x <= stateHistory'[n].time
                \/ \E n \in DOMAIN measurementHistory' : x <= measurementHistory'[n].time
                \/ pc' = "integrate" /\ \E y \in measurementQueue' : y.time <= clock' /\ x <= y.time
    <3>1. CASE x <= predictedTo
      BY <3>1
    <3>2. CASE \A n \in DOMAIN stateHistory : x <= stateHistory[n].time
      BY <1>0, <2>1, <3>2
    <3>3. CASE \E n \in DOMAIN measurementHistory : x <= measurementHistory[n].time
      <4>1. PICK n \in 1..Len(measurementHistory) : x <= measurementHistory[n].time
        BY <1>0, <3>3
      <4>2. CASE n \in 1..j
        BY <2>1, <4>1, <4>2
      <4>3. CASE n \in (j + 1)..Len(measurementHistory)
        BY <2>7, <2>9, <4>1, <4>3 DEF Awaited
      <4>4. QED
        BY <2>10, <4>2, <4>3
    <3>4. ~Awaited(x)
      BY <1>1 DEF Awaited
    <3>5. QED
      BY <2>11, <3>1, <3>2, <3>3, <3>4 DEF Backed
  <2>12. Backed(lastPublishedStamp)'
    <3>1. Backed(lastPublishedStamp)
      BY DEF StampInv
    <3>2. QED
      BY <1>0, <2>11, <3>1 DEF Backed, Awaited
  <2>13. Backed(filter.time)'
    <3>1. Backed(stateHistory[i].time) /\ stateHistory[i].time \in Nat
      BY <1>0, <2>2 DEF StampInv
    <3>2. QED
      BY <2>2, <2>11, <3>1 DEF Backed, Awaited
  <2>14. ASSUME NEW n \in DOMAIN stateHistory' PROVE Backed(stateHistory[n].time)'
    <3>1. n \in 1..Len(stateHistory) /\ stateHistory'[n].time = stateHistory[n].time
      BY <1>0, <2>1
    <3>2. Backed(stateHistory[n].time) /\ stateHistory[n].time \in Nat
      BY <1>0, <3>1 DEF StampInv
    <3>3. QED
      BY <2>11, <3>1, <3>2 DEF Backed, Awaited
  <2>15. \/ lastPublishedStamp' <= filter'.time
         \/ lastPublishedStamp' <= predictedTo'
         \/ Awaited(lastPublishedStamp)'
    <3>1. CASE lastPublishedStamp <= predictedTo
      BY <3>1
    <3>2. CASE \A n \in DOMAIN stateHistory : lastPublishedStamp <= stateHistory[n].time
      BY <1>0, <2>2, <3>2
    <3>3. CASE \E n \in DOMAIN measurementHistory :
                 lastPublishedStamp <= measurementHistory[n].time
      <4>1. PICK n \in 1..Len(measurementHistory) :
              lastPublishedStamp <= measurementHistory[n].time
        BY <1>0, <3>3
      <4>2. CASE n \in 1..j
        <5>1. j \in 1..Len(measurementHistory) /\ n <= j /\ j > 0
          BY <1>0, <4>2
        <5>2. measurementHistory[n].time <= measurementHistory[j].time
          <6>1. n < j => measurementHistory[n].time <= measurementHistory[j].time
            BY <1>0, <4>1, <5>1 DEF HistoryInv, HistoryPrecedesQueue
          <6>2. n = j => measurementHistory[n].time <= measurementHistory[j].time
            BY <1>0, <4>1
          <6>3. QED
            BY <1>0, <4>1, <5>1, <6>1, <6>2
        <5>3. lastPublishedStamp <= m.time
          BY <1>0, <2>1, <4>1, <5>1, <5>2
        <5>4. QED
          BY <1>1, <2>8, <5>3 DEF Awaited
      <4>3. CASE n \in (j + 1)..Len(measurementHistory)
        BY <1>0, <2>9, <4>1, <4>3 DEF Awaited
      <4>4. QED
        BY <2>10, <4>2, <4>3
    <3>4. Backed(lastPublishedStamp) /\ ~Awaited(lastPublishedStamp)
      BY <1>1 DEF StampInv, Awaited
    <3>5. QED
      BY <3>1, <3>2, <3>3, <3>4 DEF Backed
  <2>16. StatesSorted'
    <3>1. \A n \in 1..k : n \in 1..Len(stateHistory)
      BY <1>0
    <3>2. \A n, l \in DOMAIN stateHistory' : n <= l => stateHistory'[n].time <= stateHistory'[l].time
      BY <1>0, <2>1, <3>1 DEF StampInv, StatesSorted
    <3>3. \A n \in DOMAIN stateHistory' : stateHistory'[n].time <= filter'.time
      BY <1>0, <2>1, <2>2, <2>6, <3>1 DEF StampInv, StatesSorted
    <3>4. QED
      BY <3>2, <3>3 DEF StatesSorted
  <2>17. filter.initialized
    BY <1>3 DEF StampInv
  <2>18. QED
    BY <1>1, <2>12, <2>13, <2>14, <2>15, <2>16, <2>17 DEF StampInv
<1>4. QED
  BY <1>2, <1>3

\* One turn of the loop: the measurement due moves from the queue into the
\* history, and the filter's time does not fall.
LEMMA StampIntegrated ==
  ASSUME TypeOK, TypeOK', StampInv, NEW m \in measurementQueue, IntegrateOne(m)
  PROVE  StampInv'
<1>0. /\ clock \in Nat /\ filter.time \in Nat /\ filter'.time \in Nat /\ m.time \in Nat
      /\ Len(stateHistory) \in Nat /\ DOMAIN stateHistory = 1..Len(stateHistory)
      /\ Len(measurementHistory) \in Nat
      /\ DOMAIN measurementHistory = 1..Len(measurementHistory)
      /\ \A i \in 1..Len(stateHistory) : stateHistory[i].time \in Nat
      /\ lastPublishedStamp \in Nat /\ predictedTo \in Nat
  BY HistoryTypes, StampTypes DEF TypeOK, Filter, Time
<1>1. /\ pc = "integrate" /\ pc' = "integrate" /\ m.time <= clock /\ clock' = clock
      /\ measurementQueue' = measurementQueue \ {m}
      /\ filter'.time = IF filter.initialized /\ m.time < filter.time THEN filter.time ELSE m.time
      /\ ~SmoothLaggedData => stateHistory' = stateHistory
      /\ SmoothLaggedData =>
           /\ DOMAIN measurementHistory' = 1..(Len(measurementHistory) + 1)
           /\ \A i \in 1..Len(measurementHistory) :
                measurementHistory'[i] = measurementHistory[i]
           /\ measurementHistory'[Len(measurementHistory) + 1] = m
           /\ \/ stateHistory' = stateHistory
              \/ /\ DOMAIN stateHistory' = 1..(Len(stateHistory) + 1)
                 /\ \A i \in 1..Len(stateHistory) : stateHistory'[i] = stateHistory[i]
                 /\ stateHistory'[Len(stateHistory) + 1].time = filter'.time
  BY IntegrateEntries
<1>2. UNCHANGED <<lastPublishedStamp, predictedTo>> /\ filter'.initialized
  BY IntegrateOneStates DEF IntegrateOne, output
<1>3. /\ filter.initialized => filter.time <= filter'.time
      /\ m.time <= filter'.time
  BY <1>0, <1>1
<1>4. \A i \in DOMAIN stateHistory : stateHistory[i].time <= filter'.time
  <2>1. CASE filter.initialized
    BY <1>0, <1>3, <2>1 DEF StampInv, StatesSorted
  <2>2. CASE ~filter.initialized
    BY <2>2 DEF StampInv
  <2>3. QED
    BY <2>1, <2>2
<1>5. ASSUME NEW x, Awaited(x) PROVE Awaited(x)' \/ x <= m.time
  BY <1>1, <1>5 DEF Awaited
<1>6. lastPublishedStamp <= filter'.time \/ lastPublishedStamp <= predictedTo
        \/ Awaited(lastPublishedStamp)'
  <2>1. CASE filter.initialized
    <3>1. CASE lastPublishedStamp <= filter.time \/ lastPublishedStamp <= predictedTo
      BY <1>0, <1>3, <2>1, <3>1
    <3>2. CASE Awaited(lastPublishedStamp)
      <4>1. CASE lastPublishedStamp <= m.time
        BY <1>0, <1>3, <4>1
      <4>2. CASE ~(lastPublishedStamp <= m.time)
        BY <1>1, <1>2, <3>2, <4>2 DEF Awaited
      <4>3. QED
        BY <4>1, <4>2
    <3>3. QED
      BY <3>1, <3>2 DEF StampInv
  <2>2. CASE ~filter.initialized
    BY <1>0, <2>2 DEF StampInv
  <2>3. QED
    BY <2>1, <2>2
<1>7. CASE ~SmoothLaggedData
  <2>1. DOMAIN stateHistory' = {} /\ stateHistory' = <<>>
    BY <1>1, <1>7 DEF StampInv
  <2>2. QED
    BY <1>1, <1>2, <1>6, <2>1 DEF StampInv, StatesSorted, Backed
<1>8. CASE SmoothLaggedData
  <2>0. Len(measurementHistory) + 1 \in DOMAIN measurementHistory'
    BY <1>0, <1>1, <1>8
  <2>1. ASSUME NEW x \in Nat, x <= filter'.time, Backed(x)
        PROVE  \/ x <= predictedTo'
               \/ \A n \in DOMAIN stateHistory' : x <= stateHistory'[n].time
               \/ \E n \in DOMAIN measurementHistory' : x <= measurementHistory'[n].time
               \/ pc' = "integrate" /\ \E y \in measurementQueue' : y.time <= clock' /\ x <= y.time
    <3>1. CASE x <= predictedTo
      BY <1>2, <3>1
    <3>2. CASE \A n \in DOMAIN stateHistory : x <= stateHistory[n].time
      <4>1. CASE stateHistory' = stateHistory
        BY <3>2, <4>1
      <4>2. CASE stateHistory' # stateHistory
        <5>1. /\ DOMAIN stateHistory' = 1..(Len(stateHistory) + 1)
              /\ \A n \in 1..Len(stateHistory) : stateHistory'[n] = stateHistory[n]
              /\ stateHistory'[Len(stateHistory) + 1].time = filter'.time
          BY <1>1, <1>8, <4>2
        <5>2. \A n \in DOMAIN stateHistory' : x <= stateHistory'[n].time
          BY <1>0, <2>1, <3>2, <5>1
        <5>3. QED
          BY <5>2
      <4>3. QED
        BY <4>1, <4>2
    <3>3. CASE \E n \in DOMAIN measurementHistory : x <= measurementHistory[n].time
      BY <1>0, <1>1, <1>8, <3>3
    <3>4. CASE Awaited(x)
      <4>1. CASE x <= m.time
        BY <1>1, <1>8, <2>0, <4>1
      <4>2. CASE ~(x <= m.time)
        BY <1>1, <3>4, <4>2 DEF Awaited
      <4>3. QED
        BY <4>1, <4>2
    <3>5. QED
      BY <2>1, <3>1, <3>2, <3>3, <3>4 DEF Backed
  <2>2. Backed(filter.time)'
    <3>1. CASE filter'.time = m.time
      BY <1>0, <1>1, <1>8, <2>0, <3>1 DEF Backed
    <3>2. CASE filter'.time = filter.time
      <4>1. Backed(filter.time) /\ filter.time <= filter'.time
        BY <1>0, <3>2 DEF StampInv
      <4>2. QED
        BY <1>0, <2>1, <3>2, <4>1 DEF Backed, Awaited
    <3>3. QED
      BY <1>1, <3>1, <3>2
  <2>3. Backed(lastPublishedStamp)'
    <3>1. CASE lastPublishedStamp <= filter'.time
      <4>1. Backed(lastPublishedStamp)
        BY DEF StampInv
      <4>2. QED
        BY <1>0, <1>2, <2>1, <3>1, <4>1 DEF Backed, Awaited
    <3>2. CASE lastPublishedStamp <= predictedTo
      BY <1>2, <3>2 DEF Backed
    <3>3. CASE Awaited(lastPublishedStamp)'
      BY <1>2, <3>3 DEF Backed
    <3>4. QED
      BY <1>6, <3>1, <3>2, <3>3
  <2>4. ASSUME NEW n \in DOMAIN stateHistory, n \in DOMAIN stateHistory',
               stateHistory'[n] = stateHistory[n]
        PROVE  Backed(stateHistory[n].time)'
    <3>1. Backed(stateHistory[n].time) /\ stateHistory[n].time <= filter'.time
          /\ stateHistory[n].time \in Nat
      BY <1>0, <1>4 DEF StampInv
    <3>2. QED
      BY <2>1, <2>4, <3>1 DEF Backed, Awaited
  <2>5. ASSUME NEW n \in DOMAIN stateHistory' PROVE Backed(stateHistory[n].time)'
    <3>1. CASE stateHistory' = stateHistory
      BY <2>4, <2>5, <3>1
    <3>2. CASE stateHistory' # stateHistory
      <4>1. CASE n \in 1..Len(stateHistory)
        BY <1>0, <1>1, <1>8, <2>4, <2>5, <3>2, <4>1
      <4>2. CASE n = Len(stateHistory) + 1
        <5>1. stateHistory'[n].time = filter'.time
          BY <1>1, <1>8, <3>2, <4>2
        <5>2. QED
          BY <2>2, <5>1 DEF Backed, Awaited
      <4>3. QED
        BY <1>0, <1>1, <1>8, <2>5, <3>2, <4>1, <4>2
    <3>3. QED
      BY <3>1, <3>2
  <2>6. StatesSorted'
    <3>1. \A i, j \in DOMAIN stateHistory :
            i <= j => stateHistory[i].time <= stateHistory[j].time
      BY DEF StampInv, StatesSorted
    <3>2. CASE stateHistory' = stateHistory
      BY <1>4, <3>1, <3>2 DEF StatesSorted
    <3>3. CASE stateHistory' # stateHistory
      <4>1. /\ DOMAIN stateHistory' = 1..(Len(stateHistory) + 1)
            /\ \A i \in 1..Len(stateHistory) : stateHistory'[i].time = stateHistory[i].time
            /\ stateHistory'[Len(stateHistory) + 1].time = filter'.time
        BY <1>1, <1>8, <3>3
      <4>2. \A i \in DOMAIN stateHistory' : stateHistory'[i].time <= filter'.time
        BY <1>0, <1>4, <4>1
      <4>3. \A i, j \in DOMAIN stateHistory' :
              i <= j => stateHistory'[i].time <= stateHistory'[j].time
        BY <1>0, <1>4, <3>1, <4>1, <4>2
      <4>4. QED
        BY <4>2, <4>3 DEF StatesSorted
    <3>4. QED
      BY <3>2, <3>3
  <2>7. QED
    BY <1>1, <1>2, <1>6, <1>8, <2>2, <2>3, <2>5, <2>6 DEF StampInv
<1>9. QED
  BY <1>7, <1>8

\* The end of an update: nothing is awaited any more, so the last stamp has been
\* reached again unless it was predicted; what expires is older than every
\* state kept.
LEMMA StampEnded ==
  ASSUME TypeOK, TypeOK', TimeInv, StampInv, Ended, Publish(filter'),
         filter'.initialized = filter.initialized,
         \/ predictedTo' = clock /\ filter'.time = clock
         \/ predictedTo' = predictedTo /\ filter'.time = filter.time
  PROVE  /\ StampInv'
         /\ SentInv => SentInv'
         /\ ~PermitCorrected /\ SentInv /\ filter'.initialized /\ ~CorrectedData(filter') =>
              published' > published \/ published' <= predictedTo
<1>0. /\ clock \in Nat /\ filter.time \in Nat /\ filter'.time \in Nat
      /\ Len(stateHistory) \in Nat /\ DOMAIN stateHistory = 1..Len(stateHistory)
      /\ Len(measurementHistory) \in Nat
      /\ DOMAIN measurementHistory = 1..Len(measurementHistory)
      /\ \A i \in 1..Len(stateHistory) : stateHistory[i].time \in Nat
      /\ \A i \in 1..Len(measurementHistory) : measurementHistory[i].time \in Nat
      /\ lastPublishedStamp \in Nat /\ published \in Nat /\ predictedTo \in Nat
      /\ filter.initialized \in BOOLEAN
  BY HistoryTypes, StampTypes DEF TypeOK, Filter, Time
<1>1. clock' = clock /\ filter.time <= clock /\ filter.time <= filter'.time
  BY <1>0 DEF Ended, TimeInv, NotAheadOfClock
<1>2. \A x : ~Awaited(x)
  <2>1. CASE pc = "integrate"
    <3>1. \A m \in measurementQueue : clock < m.time /\ m.time \in Nat
      BY <2>1, NoneDue, HistoryTypes DEF Ended
    <3>2. QED
      BY <1>0, <3>1 DEF Awaited
  <2>2. CASE pc # "integrate"
    BY <2>2 DEF Awaited
  <2>3. QED
    BY <2>1, <2>2
<1>3. lastPublishedStamp <= filter'.time \/ lastPublishedStamp <= predictedTo
  BY <1>0, <1>1, <1>2 DEF StampInv
<1>4. PICK c \in Nat, k \in 0..Len(stateHistory), j \in 0..Len(measurementHistory) :
        /\ k < Len(stateHistory) => c <= stateHistory[k + 1].time
        /\ \A i \in 1..j : measurementHistory[i].time < c
        /\ Len(stateHistory') = Len(stateHistory) - k
        /\ DOMAIN stateHistory' = 1..(Len(stateHistory) - k)
        /\ \A i \in 1..(Len(stateHistory) - k) : stateHistory'[i] = stateHistory[i + k]
        /\ DOMAIN measurementHistory' = 1..(Len(measurementHistory) - j)
        /\ \A i \in 1..(Len(measurementHistory) - j) :
             measurementHistory'[i] = measurementHistory[i + j]
  BY <1>0, ExpiryEntries
<1>5. \A i \in 1..(Len(stateHistory) - k) :
        /\ i + k \in 1..Len(stateHistory) /\ k + 1 \in 1..Len(stateHistory)
        /\ k + 1 <= i + k /\ k < Len(stateHistory)
  BY <1>0
<1>6. \A i \in DOMAIN stateHistory' : c <= stateHistory'[i].time
  <2>1. SUFFICES ASSUME NEW i \in 1..(Len(stateHistory) - k)
                 PROVE  c <= stateHistory'[i].time
    BY <1>4
  <2>2. stateHistory[k + 1].time <= stateHistory[i + k].time
    BY <1>0, <1>5 DEF StampInv, StatesSorted
  <2>3. /\ c <= stateHistory[k + 1].time /\ stateHistory'[i] = stateHistory[i + k]
        /\ stateHistory[k + 1].time \in Nat /\ stateHistory[i + k].time \in Nat
    BY <1>0, <1>4, <1>5
  <2>4. QED
    BY <2>2, <2>3
<1>7. ASSUME NEW x \in Nat, Backed(x)
      PROVE  \/ x <= predictedTo
             \/ \A n \in DOMAIN stateHistory' : x <= stateHistory'[n].time
             \/ \E n \in DOMAIN measurementHistory' : x <= measurementHistory'[n].time
  <2>1. CASE \A n \in DOMAIN stateHistory : x <= stateHistory[n].time
    BY <1>0, <1>4, <1>5, <2>1
  <2>2. CASE \E n \in DOMAIN measurementHistory : x <= measurementHistory[n].time
    <3>1. PICK n \in 1..Len(measurementHistory) : x <= measurementHistory[n].time
      BY <1>0, <2>2
    <3>2. CASE n \in 1..j
      <4>1. x < c
        BY <1>0, <1>4, <3>1, <3>2
      <4>2. ASSUME NEW i \in DOMAIN stateHistory' PROVE x <= stateHistory'[i].time
        <5>1. stateHistory'[i].time \in Nat /\ c <= stateHistory'[i].time
          BY <1>0, <1>4, <1>5, <1>6
        <5>2. QED
          BY <4>1, <5>1
      <4>3. QED
        BY <4>2
    <3>3. CASE n \notin 1..j
      <4>1. PICK i \in 1..(Len(measurementHistory) - j) : i + j = n
        <5>1. n - j \in 1..(Len(measurementHistory) - j) /\ (n - j) + j = n
          BY <1>0, <3>1, <3>3
        <5>2. QED
          BY <5>1
      <4>2. measurementHistory'[i] = measurementHistory[n]
        BY <1>4, <4>1
      <4>3. QED
        BY <1>4, <3>1, <4>1, <4>2
    <3>4. QED
      BY <3>2, <3>3
  <2>3. QED
    BY <1>2, <1>7, <2>1, <2>2 DEF Backed
<1>8. /\ predictedTo' \in Nat /\ predictedTo <= predictedTo' /\ predictedTo' <= clock
  BY <1>0 DEF StampInv
<1>9. Backed(filter.time)'
  <2>1. CASE predictedTo' = clock /\ filter'.time = clock
    BY <1>0, <2>1 DEF Backed
  <2>2. CASE predictedTo' = predictedTo /\ filter'.time = filter.time
    <3>1. Backed(filter.time)
      BY DEF StampInv
    <3>2. QED
      BY <1>0, <1>7, <2>2, <3>1 DEF Backed
  <2>3. QED
    BY <2>1, <2>2
<1>10. ASSUME NEW n \in DOMAIN stateHistory' PROVE Backed(stateHistory[n].time)'
  <2>1. /\ n + k \in 1..Len(stateHistory) /\ stateHistory'[n].time = stateHistory[n + k].time
    BY <1>4, <1>5
  <2>2. Backed(stateHistory[n + k].time) /\ stateHistory[n + k].time \in Nat
    BY <1>0, <2>1 DEF StampInv
  <2>3. \/ stateHistory'[n].time <= predictedTo
        \/ \A i \in DOMAIN stateHistory' : stateHistory'[n].time <= stateHistory'[i].time
        \/ \E i \in DOMAIN measurementHistory' :
             stateHistory'[n].time <= measurementHistory'[i].time
    BY <1>7, <2>1, <2>2
  <2>4. stateHistory'[n].time <= predictedTo => stateHistory'[n].time <= predictedTo'
    BY <1>0, <1>8, <2>1, <2>2
  <2>5. QED
    BY <2>3, <2>4 DEF Backed
<1>11. StatesSorted'
  <2>1. \A i \in DOMAIN stateHistory' : stateHistory'[i].time <= filter'.time
    <3>1. ASSUME NEW i \in DOMAIN stateHistory' PROVE stateHistory'[i].time <= filter'.time
      <4>1. /\ i + k \in 1..Len(stateHistory) /\ stateHistory'[i] = stateHistory[i + k]
            /\ stateHistory[i + k].time \in Nat
        BY <1>0, <1>4, <1>5
      <4>2. stateHistory[i + k].time <= filter.time
        BY <1>0, <4>1 DEF StampInv, StatesSorted
      <4>3. QED
        BY <1>0, <1>1, <4>1, <4>2
    <3>2. QED
      BY <3>1
  <2>2. \A i, l \in DOMAIN stateHistory' : i <= l => stateHistory'[i].time <= stateHistory'[l].time
    <3>1. ASSUME NEW i \in DOMAIN stateHistory', NEW l \in DOMAIN stateHistory', i <= l
          PROVE  stateHistory'[i].time <= stateHistory'[l].time
      <4>1. i \in 1..(Len(stateHistory) - k) /\ l \in 1..(Len(stateHistory) - k)
        BY <1>4, <3>1
      <4>2. /\ stateHistory'[i] = stateHistory[i + k] /\ stateHistory'[l] = stateHistory[l + k]
            /\ i + k \in 1..Len(stateHistory) /\ l + k \in 1..Len(stateHistory)
        BY <1>4, <1>5, <4>1
      <4>3. i + k <= l + k
        BY <1>0, <3>1, <4>1
      <4>4. stateHistory[i + k].time <= stateHistory[l + k].time
        BY <1>0, <4>2, <4>3 DEF StampInv, StatesSorted
      <4>5. QED
        BY <4>2, <4>4
    <3>2. QED
      BY <3>1
  <2>3. QED
    BY <2>1, <2>2 DEF StatesSorted
<1>12. stateHistory = <<>> => stateHistory' = <<>>
  <2>1. SUFFICES ASSUME stateHistory = <<>> PROVE stateHistory' = <<>>
    OBVIOUS
  <2>2. Len(stateHistory) = 0
    BY <2>1, EmptySeq
  <2>3. Len(stateHistory') = 0
    <3>1. Len(stateHistory') = Len(stateHistory) - k
      BY <1>4
    <3>2. k \in 0..0
      BY <2>2
    <3>3. k = 0
      BY <3>2
    <3>4. Len(stateHistory') = 0 - 0
      BY <2>2, <3>1, <3>3
    <3>5. QED
      BY <3>4
  <2>4. stateHistory' \in Seq(FilterState)
    BY DEF TypeOK
  <2>5. QED
    BY <2>3, <2>4, EmptySeq
<1>13. CASE filter.initialized
  <2>1. /\ lastPublishedStamp' = filter'.time
        /\ published' = IF CorrectedData(filter') THEN published ELSE filter'.time
    BY <1>13 DEF Publish
  <2>2. Backed(lastPublishedStamp)'
    BY <1>9, <2>1 DEF Backed, Awaited
  <2>3. lastPublishedStamp' <= filter'.time
    BY <1>0, <2>1
  <2>4. StampInv'
    BY <1>1, <1>8, <1>9, <1>10, <1>11, <1>12, <1>13, <2>2, <2>3 DEF StampInv
  <2>5. SentInv => SentInv'
    BY <1>0, <1>3, <1>8, <2>1 DEF SentInv, CorrectedData
  <2>6. ~PermitCorrected /\ SentInv /\ ~CorrectedData(filter') =>
          published' > published \/ published' <= predictedTo
    BY <1>0, <2>1 DEF SentInv, CorrectedData
  <2>7. QED
    BY <2>4, <2>5, <2>6
<1>14. CASE ~filter.initialized
  <2>1. UNCHANGED <<lastPublishedStamp, published>>
    BY <1>14 DEF Publish
  <2>2. lastPublishedStamp = 0 /\ stateHistory' = <<>> /\ DOMAIN stateHistory' = {}
    BY <1>12, <1>14 DEF StampInv
  <2>3. Backed(lastPublishedStamp)'
    BY <2>2 DEF Backed
  <2>4. lastPublishedStamp' <= filter'.time
    BY <1>0, <2>1, <2>2
  <2>5. StampInv'
    BY <1>1, <1>8, <1>9, <1>11, <2>1, <2>2, <2>3, <2>4 DEF StampInv
  <2>6. SentInv => SentInv'
    BY <1>0, <1>8, <2>1 DEF SentInv
  <2>7. QED
    BY <1>14, <2>5, <2>6
<1>15. QED
  BY <1>0, <1>13, <1>14

\* Every step keeps the invariants, and a message sent is later than the last
\* one or than every prediction.
LEMMA StampStep ==
  ASSUME TypeOK, TypeOK', TimeInv, ProcessedInv, HistoryInv, StampInv, SentInv,
         lastPublishedStamp <= clock, [Next]_vars
  PROVE  /\ StampInv' /\ SentInv'
         /\ Sends /\ ~PermitCorrected => published' > published \/ published' <= predictedTo
<1> DEFINE Goal ==
             /\ StampInv' /\ SentInv'
             /\ Sends /\ ~PermitCorrected => published' > published \/ published' <= predictedTo
<1>0. clock \in Nat /\ filter \in Filter /\ filter.initialized \in BOOLEAN
  BY HistoryTypes, StampTypes
<1>1. ASSUME StampInv', UNCHANGED output PROVE StampInv' /\ SentInv'
  BY <1>1 DEF SentInv, output
<1>2. ASSUME FinishUpdate \/ UpdateToggledOff PROVE Goal
  <2>1. Ended /\ Publish(filter') /\ filter'.initialized = filter.initialized
        /\ \/ predictedTo' = clock /\ filter'.time = clock
           \/ predictedTo' = predictedTo /\ filter'.time = filter.time
    <3>1. CASE FinishUpdate
      <4> DEFINE f == IF Predicts THEN SetLastMeasurementTime(filter, clock) ELSE filter
      <4>1. /\ f.estimate = filter.estimate /\ f.initialized = filter.initialized
            /\ f.time = IF Predicts THEN clock ELSE filter.time
        BY <1>0 DEF SetLastMeasurementTime, Filter
      <4>2. /\ pc' = "idle" /\ (pc = "integrate" => \A m \in Top : ~Due(m))
            /\ filter' = f /\ ClearExpiredHistory(f) /\ Publish(f)
            /\ predictedTo' = IF Predicts THEN clock ELSE predictedTo
            /\ UNCHANGED <<clock, measurementQueue, count, ghosts>>
        BY <3>1 DEF FinishUpdate
      <4> HIDE DEF f
      <4>3. QED
        BY <4>1, <4>2 DEF Ended, ghosts
    <3>2. CASE UpdateToggledOff
      <4> DEFINE f == IF filter.initialized THEN SetLastMeasurementTime(filter, clock)
                      ELSE filter
      <4>1. /\ f.estimate = filter.estimate /\ f.initialized = filter.initialized
            /\ f.time = IF filter.initialized THEN clock ELSE filter.time
        BY <1>0 DEF SetLastMeasurementTime, Filter
      <4>2. /\ pc = "idle" /\ pc' = pc
            /\ filter' = f /\ ClearExpiredHistory(f) /\ Publish(f) /\ measurementQueue' = {}
            /\ predictedTo' = IF filter.initialized THEN clock ELSE predictedTo
            /\ UNCHANGED <<clock, count, ghosts>>
        BY <3>2 DEF UpdateToggledOff, CanUpdate
      <4> HIDE DEF f
      <4>3. QED
        BY <4>1, <4>2 DEF Ended, ghosts
    <3>3. QED
      BY <1>2, <3>1, <3>2
  <2>2. QED
    BY <2>1, StampEnded DEF Sends
<1>3. ASSUME ~(FinishUpdate \/ UpdateToggledOff) PROVE StampInv' /\ SentInv'
  <2>1. ASSUME Reset PROVE StampInv' /\ SentInv'
    <3>1. /\ stateHistory' = <<>> /\ clock' = clock /\ lastPublishedStamp' = 0
          /\ predictedTo' = 0 /\ published' = 0
      BY <2>1 DEF Reset, ClearHistories
    <3>2. QED
      BY <3>1, StampCleared DEF SentInv
  <2>2. ASSUME UNCHANGED <<filter, histories, output>>, pc' = pc \/ pc # "integrate",
               measurementQueue \subseteq measurementQueue',
               clock' = clock \/ clock' = clock + 1
        PROVE  StampInv' /\ SentInv'
    <3>1. clock <= clock'
      BY <1>0, <2>2
    <3>2. StampInv'
      BY <2>2, <3>1, StampStutter DEF histories, output
    <3>3. QED
      BY <1>1, <2>2, <3>2
  <2>3. CASE Tick
    BY <2>2, <2>3 DEF Tick
  <2>4. CASE BeginUpdate
    <3>1. /\ pc = "idle" /\ clock' = clock /\ UNCHANGED <<output, processed>>
          /\ count' = count
          /\ pc' = IF measurementQueue = {} THEN "timeout" ELSE "integrate"
      BY <2>4 DEF BeginUpdate, CanUpdate
    <3>2. CASE SmoothLaggedData /\ \E m \in Top : m.time < filter.time
      <4>1. PICK m \in Top : RevertTo(m.time - 1)
        BY <2>4, <3>2 DEF BeginUpdate
      <4>2. m \in measurementQueue /\ m.time < filter.time
        BY <3>2, TopTimes
      <4>3. Reverted(m)
        BY <3>1, <3>2, <4>1, <4>2 DEF Reverted
      <4>4. filter'.initialized = filter.initialized
        BY <4>1, RevertToStates
      <4>5. QED
        BY <1>1, <3>1, <4>2, <4>3, <4>4, StampReverted DEF output
    <3>3. CASE ~(SmoothLaggedData /\ \E m \in Top : m.time < filter.time)
      <4>1. UNCHANGED <<filter, measurementQueue, histories>>
        BY <2>4, <3>3 DEF BeginUpdate
      <4>2. QED
        BY <2>2, <3>1, <4>1
    <3>4. QED
      BY <3>2, <3>3
  <2>5. ASSUME NEW m \in measurementQueue, IntegrateOne(m) PROVE StampInv' /\ SentInv'
    <3>1. UNCHANGED output
      BY <2>5 DEF IntegrateOne
    <3>2. StampInv'
      BY <2>5, StampIntegrated
    <3>3. QED
      BY <1>1, <3>1, <3>2
  <2>6. ASSUME NEW topic \in Topics, NEW stamp \in Stamps,
               NEW poseTf \in BOOLEAN, NEW twistTf \in BOOLEAN,
               SensorCallback(topic, stamp, poseTf, twistTf)
        PROVE  StampInv' /\ SentInv'
    <3>1. measurementQueue \subseteq measurementQueue'
      BY <2>6 DEF SensorCallback
    <3>2. QED
      BY <2>2, <2>6, <3>1 DEF SensorCallback
  <2>7. CASE ControlCallback
    <3>1. /\ filter'.time = filter.time /\ filter'.initialized = filter.initialized
          /\ UNCHANGED <<clock, pc, measurementQueue, histories, output>>
      BY <1>0, <2>7 DEF ControlCallback, Filter
    <3>2. clock <= clock'
      BY <1>0, <3>1
    <3>3. StampInv'
      BY <3>1, <3>2, StampStutter DEF histories, output
    <3>4. QED
      BY <1>1, <3>1, <3>3
  <2>8. ASSUME NEW stamp \in Stamps, SetPose(stamp) PROVE StampInv' /\ SentInv'
    <3>1. /\ filter'.time = clock /\ filter'.initialized = filter.initialized
          /\ stateHistory' = <<>> /\ UNCHANGED <<clock, output>>
      BY <1>0, <2>8 DEF SetPose, ClearHistories, Filter
    <3>2. StampInv'
      BY <3>1, StampCleared DEF output
    <3>3. QED
      BY <1>1, <3>1, <3>2
  <2>9. CASE ResetSrv
    BY <2>1, <2>9 DEF ResetSrv
  <2>10. CASE OnDeactivate
    BY <2>1, <2>10 DEF OnDeactivate
  <2>11. CASE ToggleFilterProcessing \/ EnableFilter \/ OnConfigure
    BY <2>2, <2>11 DEF ToggleFilterProcessing, EnableFilter, OnConfigure
  <2>12. CASE OnActivate \/ OnCleanup \/ OnShutdown
    BY <2>2, <2>12 DEF OnActivate, OnCleanup, OnShutdown
  <2>13. CASE UNCHANGED vars
    BY <2>2, <2>13 DEF vars
  <2>14. QED
    BY <1>3, <2>3, <2>4, <2>5, <2>6, <2>7, <2>8, <2>9, <2>10, <2>11, <2>12, <2>13
    DEF Next, Update, Environment
<1>4. QED
  BY <1>2, <1>3 DEF Sends

\* No stamp was published before its time.
PastInv == lastPublishedStamp <= clock

LEMMA PastStep ==
  ASSUME TypeOK, TypeOK', TimeInv', PastInv, [Next]_vars
  PROVE  PastInv'
<1>0. /\ clock \in Nat /\ lastPublishedStamp \in Nat /\ filter' \in Filter
      /\ filter'.time <= clock'
  BY HistoryTypes, StampTypes DEF TypeOK, TimeInv, NotAheadOfClock
<1>1. ASSUME UNCHANGED output, clock' = clock \/ clock' = clock + 1 PROVE PastInv'
  BY <1>0, <1>1 DEF PastInv, output
<1>2. ASSUME Reset PROVE PastInv'
  <2>1. lastPublishedStamp' = 0 /\ clock' = clock
    BY <1>2 DEF Reset
  <2>2. QED
    BY <1>0, <2>1 DEF PastInv
<1>3. ASSUME Publish(filter'), clock' = clock PROVE PastInv'
  <2>1. lastPublishedStamp' = filter'.time \/ lastPublishedStamp' = lastPublishedStamp
    BY <1>3 DEF Publish
  <2>2. QED
    BY <1>0, <1>3, <2>1 DEF PastInv
<1>4. CASE FinishUpdate \/ UpdateToggledOff
  BY <1>3, <1>4 DEF FinishUpdate, UpdateToggledOff
<1>5. CASE Tick \/ BeginUpdate \/ \E m \in measurementQueue : IntegrateOne(m)
  BY <1>1, <1>5 DEF Tick, BeginUpdate, IntegrateOne
<1>6. ASSUME NEW topic \in Topics, NEW stamp \in Stamps,
             NEW poseTf \in BOOLEAN, NEW twistTf \in BOOLEAN,
             SensorCallback(topic, stamp, poseTf, twistTf)
      PROVE  PastInv'
  BY <1>1, <1>6 DEF SensorCallback
<1>7. CASE ControlCallback \/ \E stamp \in Stamps : SetPose(stamp)
  BY <1>1, <1>7 DEF ControlCallback, SetPose
<1>8. CASE ResetSrv \/ OnDeactivate
  BY <1>2, <1>8 DEF ResetSrv, OnDeactivate
<1>9. CASE ToggleFilterProcessing \/ EnableFilter \/ OnConfigure
  BY <1>1, <1>9 DEF ToggleFilterProcessing, EnableFilter, OnConfigure
<1>10. CASE OnActivate \/ OnCleanup \/ OnShutdown
  BY <1>1, <1>10 DEF OnActivate, OnCleanup, OnShutdown
<1>11. CASE UNCHANGED vars
  BY <1>1, <1>11 DEF vars
<1>12. QED
  BY <1>4, <1>5, <1>6, <1>7, <1>8, <1>9, <1>10, <1>11 DEF Next, Update, Environment

LEMMA PastCorrect == Spec => []PastInv
<1>1. Init => PastInv
  BY DEF Init, PastInv
<1>2. TypeOK /\ TypeOK' /\ TimeInv' /\ PastInv /\ [Next]_vars => PastInv'
  BY PastStep
<1>3. QED
  BY <1>1, <1>2, TypeCorrect, TimeCorrect, PTL DEF Spec

\* The stamps of the odometry messages increase in every configuration without
\* permit_corrected_publication, smoothing or not, except where a prediction was
\* taken back (periodicUpdate, revertTo).
THEOREM StampsIncrease == Spec => PublishedStampsIncrease
<1>1. Init => StampInv /\ SentInv
  <2>1. SUFFICES ASSUME Init PROVE StampInv /\ SentInv
    OBVIOUS
  <2>2. /\ stateHistory = <<>> /\ DOMAIN stateHistory = {} /\ clock = 1 /\ filter.time = 0
        /\ lastPublishedStamp = 0 /\ published = 0 /\ predictedTo = 0
    BY <2>1 DEF Init
  <2>3. QED
    BY <2>2 DEF StampInv, SentInv, StatesSorted, Backed
<1>2. TypeOK /\ TypeOK' /\ TimeInv /\ ProcessedInv /\ HistoryInv /\ PastInv
        /\ StampInv /\ SentInv /\ [Next]_vars => StampInv' /\ SentInv'
  BY StampStep DEF PastInv
<1>3. TypeOK /\ TypeOK' /\ TimeInv /\ ProcessedInv /\ HistoryInv /\ PastInv
        /\ StampInv /\ SentInv /\ [Next]_vars
        => [Sends /\ ~PermitCorrected =>
              published' > published \/ published' <= predictedTo]_vars
  BY StampStep DEF PastInv
<1>4. Spec => [](StampInv /\ SentInv)
  BY <1>1, <1>2, TypeCorrect, TimeCorrect, ProcessedCorrect, HistoryCorrect, PastCorrect, PTL
  DEF Spec
<1>5. QED
  BY <1>3, <1>4, TypeCorrect, TimeCorrect, ProcessedCorrect, HistoryCorrect, PastCorrect, PTL
  DEF Spec, PublishedStampsIncrease

-----------------------------------------------------------------------------
\* Differential measurements.

\* The inductive invariant: the stored pose of a topic is not later than its
\* last message, and is that message's unless its transform failed.
DifferentialInv ==
  /\ \A t \in Topics : previousMeasurements[t] <= lastMessageTimes[t]
  /\ \A t \in Differential :
       previousMeasurements[t] # 0 /\ t \notin poseFailed =>
         previousMeasurements[t] = lastMessageTimes[t]

SensorStep ==
  \E topic \in Topics, stamp \in Stamps, poseTf, twistTf \in BOOLEAN :
    SensorCallback(topic, stamp, poseTf, twistTf)

\* The other steps number no measurement, and leave the stamps alone or forget
\* the poses.
LEMMA OtherSteps ==
  ASSUME TypeOK, [Next]_vars, ~SensorStep
  PROVE  /\ count'["measurement"] = count["measurement"]
         /\ \/ UNCHANGED <<previousMeasurements, lastMessageTimes, poseFailed>>
            \/ previousMeasurements' = [t \in Topics |-> 0]
<1> DEFINE Goal == /\ count'["measurement"] = count["measurement"]
                   /\ \/ UNCHANGED <<previousMeasurements, lastMessageTimes, poseFailed>>
                      \/ previousMeasurements' = [t \in Topics |-> 0]
<1>0. count \in [{"measurement", "command"} -> Nat]
  BY DEF TypeOK
<1>1. ASSUME Command PROVE count'["measurement"] = count["measurement"]
  BY <1>0, <1>1 DEF Command
<1>2. CASE Tick \/ BeginUpdate \/ FinishUpdate \/ UpdateToggledOff
  BY <1>2 DEF Tick, BeginUpdate, FinishUpdate, UpdateToggledOff, inputs
<1>3. ASSUME NEW m, IntegrateOne(m) PROVE Goal
  BY <1>3 DEF IntegrateOne, inputs
<1>4. CASE ResetSrv \/ OnDeactivate
  BY <1>1, <1>4 DEF ResetSrv, OnDeactivate, Reset
<1>5. ASSUME NEW stamp, SetPose(stamp) PROVE Goal
  BY <1>1, <1>5 DEF SetPose
<1>6. CASE ControlCallback \/ ToggleFilterProcessing \/ EnableFilter
  BY <1>1, <1>6 DEF ControlCallback, ToggleFilterProcessing, EnableFilter, inputs
<1>7. CASE OnConfigure \/ OnActivate \/ OnCleanup \/ OnShutdown
  BY <1>1, <1>7 DEF OnConfigure, OnActivate, OnCleanup, OnShutdown, inputs
<1>8. CASE UNCHANGED vars
  BY <1>8 DEF vars, inputs
<1>9. QED
  BY <1>2, <1>3, <1>4, <1>5, <1>6, <1>7, <1>8 DEF Next, Update, Environment, SensorStep

LEMMA DifferentialStep ==
  ASSUME TypeOK, TypeOK', DifferentialInv, [Next]_vars
  PROVE  DifferentialInv'
<1>0. /\ previousMeasurements \in [Topics -> Nat] /\ lastMessageTimes \in [Topics -> Nat]
      /\ lastMessageTimes' \in [Topics -> Nat] /\ Differential \subseteq Topics
  BY ConfigAssumption DEF TypeOK, Time
<1>1. CASE ~SensorStep
  <2>1. CASE UNCHANGED <<previousMeasurements, lastMessageTimes, poseFailed>>
    BY <2>1 DEF DifferentialInv
  <2>2. CASE previousMeasurements' = [t \in Topics |-> 0]
    BY <1>0, <2>2 DEF DifferentialInv
  <2>3. QED
    BY <1>1, <2>1, <2>2, OtherSteps
<1>2. CASE SensorStep
  <2>1. PICK topic \in Topics, stamp \in Stamps, poseTf \in BOOLEAN, twistTf \in BOOLEAN :
          SensorCallback(topic, stamp, poseTf, twistTf)
    BY <1>2 DEF SensorStep
  <2>2. stamp \in Nat
    BY ConfigAssumption DEF Stamps
  <2>3. /\ lastMessageTimes' = [lastMessageTimes EXCEPT ![topic] = stamp]
        /\ lastMessageTimes[topic] <= stamp
    BY <2>1 DEF SensorCallback, AcceptsMessage
  <2>4. CASE poseTf
    <3>1. /\ previousMeasurements' = IF topic \in Differential
                                     THEN [previousMeasurements EXCEPT ![topic] = stamp]
                                     ELSE previousMeasurements
          /\ poseFailed' = poseFailed \ {topic}
      BY <2>1, <2>4 DEF SensorCallback, StoresPose
    <3>2. QED
      BY <1>0, <2>2, <2>3, <3>1 DEF DifferentialInv
  <2>5. CASE ~poseTf
    <3>1. previousMeasurements' = previousMeasurements /\ poseFailed' = poseFailed \cup {topic}
      BY <2>1, <2>5 DEF SensorCallback, StoresPose
    <3>2. QED
      BY <1>0, <2>2, <2>3, <3>1 DEF DifferentialInv
  <2>6. QED
    BY <2>4, <2>5
<1>3. QED
  BY <1>1, <1>2

\* Whatever transforms fail and whenever the node is reset or its pose set, the
\* velocity made of two poses is their displacement over the time between them,
\* except for the first message after one whose pose could not be transformed:
\* that velocity is overstated.
THEOREM DifferentialIsCovered == Spec => DifferentialCovers
<1>1. Init => DifferentialInv
  BY DEF Init, DifferentialInv
<1>2. TypeOK /\ TypeOK' /\ DifferentialInv /\ [Next]_vars => DifferentialInv'
  BY DifferentialStep
<1>3. TypeOK /\ ProcessedInv /\ DifferentialInv /\ [Next]_vars
        => [\A m \in measurementQueue' :
              m.id > count["measurement"] /\ m.topic \in Differential =>
                /\ m.dt <= m.time - m.from
                /\ m.topic \notin poseFailed => m.dt = m.time - m.from]_vars
  <2> SUFFICES ASSUME TypeOK, ProcessedInv, DifferentialInv, [Next]_vars,
                      NEW m \in measurementQueue', m.id > count["measurement"],
                      m.topic \in Differential
               PROVE  /\ m.dt <= m.time - m.from
                      /\ m.topic \notin poseFailed => m.dt = m.time - m.from
    OBVIOUS
  <2>1. \A n \in measurementQueue \cup processed :
          n.id \in Nat /\ n.id <= count["measurement"] /\ count["measurement"] \in Nat
    BY HistoryTypes DEF ProcessedInv
  <2>2. m \notin measurementQueue \cup processed
    BY <2>1
  <2>3. SensorStep
    <3>1. SUFFICES ASSUME ~SensorStep PROVE FALSE
      OBVIOUS
    <3>2. count'["measurement"] = count["measurement"]
      BY <3>1, OtherSteps
    <3>3. CASE Quiet \/ Cleared \/ Started \/ Ended
      BY <2>2, <3>3 DEF Quiet, Cleared, Started, Ended
    <3>4. CASE Enqueued
      BY <3>2, <3>4, HistoryTypes DEF Enqueued
    <3>5. ASSUME NEW n \in measurementQueue, Reverted(n) PROVE FALSE
      <4>1. \/ m \in measurementQueue
            \/ \E j \in DOMAIN measurementHistory : m = measurementHistory[j]
        BY <3>5, RevertToStates DEF Reverted
      <4>2. QED
        BY <2>2, <4>1 DEF ProcessedInv
    <3>6. ASSUME NEW n \in measurementQueue, IntegrateOne(n) PROVE FALSE
      BY <2>2, <3>6 DEF IntegrateOne
    <3>7. QED
      BY <3>3, <3>4, <3>5, <3>6, StepKinds
  <2>4. PICK topic \in Topics, stamp \in Stamps, poseTf \in BOOLEAN, twistTf \in BOOLEAN :
          SensorCallback(topic, stamp, poseTf, twistTf)
    BY <2>3 DEF SensorStep
  <2>5. /\ m = MeasurementOf(topic, stamp) /\ Prepared(topic, poseTf, twistTf)
        /\ AcceptsMessage(topic, stamp)
    BY <2>2, <2>4 DEF SensorCallback
  <2>6. m.topic = topic
    BY <2>5 DEF MeasurementOf
  <2>7. m.time = stamp /\ m.from = previousMeasurements[topic]
        /\ m.dt = stamp - LastMessageTime(topic, stamp)
    BY <2>5, <2>6 DEF MeasurementOf
  <2>8. /\ stamp \in Nat /\ previousMeasurements[topic] \in Nat
        /\ lastMessageTimes[topic] \in Nat
    BY ConfigAssumption DEF Stamps, TypeOK, Time
  <2>9. /\ previousMeasurements[topic] # 0
        /\ previousMeasurements[topic] <= lastMessageTimes[topic]
        /\ topic \notin poseFailed => previousMeasurements[topic] = lastMessageTimes[topic]
    BY <2>5, <2>6 DEF Prepared, DifferentialInv
  <2>10. m.dt = stamp - lastMessageTimes[topic]
    BY <2>7, <2>8, <2>9 DEF LastMessageTime
  <2>11. QED
    BY <2>6, <2>7, <2>8, <2>9, <2>10
<1>4. QED
  BY <1>1, <1>2, <1>3, TypeCorrect, ProcessedCorrect, PTL DEF Spec, DifferentialCovers
=============================================================================
