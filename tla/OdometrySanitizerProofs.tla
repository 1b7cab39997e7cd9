---------------------- MODULE OdometrySanitizerProofs ----------------------
(***************************************************************************)
(* Proofs about OdometrySanitizer, for every limit, every speed of the     *)
(* vehicle within the limits and every set of poses.                       *)
(***************************************************************************)
EXTENDS OdometrySanitizer, TLAPS

\* The first message since the stamps went back is not later than the last.
DriftInv ==
  /\ first = None <=> last_published = None
  /\ first # None => first.time <= last_published.time
  /\ DriftBounded

\* After a message that was later than the others and published, the pose the
\* next twist is estimated from is the pose the next message is judged against.
TwistInv ==
  clean /\ estimate_twist_from_pose => last_input = last_published /\ last_input # None

\* Since the message published last was stamped, the vehicle has moved no
\* further than it can in the time that the stamps show.
MotionInv ==
  last_published # None /\ (restamp_to_now \/ ~stepped) =>
    /\ ~restamp_to_now => behind < now
    /\ Stamp >= last_published.time
    /\ Distance(vehicle, shown) <= VehicleSpeed * (Stamp - last_published.time)
    /\ Turned(vehicle, shown) <= VehicleYawRate * (Stamp - last_published.time)
-----------------------------------------------------------------------------
(* Distances and angles. *)

\* The remainder of a difference of two yaws.
LEMMA SmallRemainder ==
  ASSUME NEW a \in Int, a < Turn, a > -Turn
  PROVE  a % Turn = IF a < 0 THEN a + Turn ELSE a
<1>1. Turn \in Nat \ {0}
  BY SanitizerAssumption
<1>2. CASE a < 0
  BY <1>1, <1>2
<1>3. CASE ~(a < 0)
  BY <1>1, <1>3
<1>4. QED
  BY <1>2, <1>3

\* The turn between two yaws is the shorter way round.
LEMMA TurnedValue ==
  ASSUME NEW p \in Poses, NEW q \in Poses
  PROVE  LET d == Abs(p.yaw - q.yaw)
         IN  Turned(p, q) = IF 2 * d > Turn THEN Turn - d ELSE d
<1> DEFINE a == p.yaw - q.yaw
<1>1. /\ Turn \in Nat \ {0} /\ p.yaw \in 0 .. Turn - 1 /\ q.yaw \in 0 .. Turn - 1
  BY SanitizerAssumption DEF Poses
<1>2. a \in Int /\ a < Turn /\ a > -Turn
  BY <1>1
<1>3. a % Turn = IF a < 0 THEN a + Turn ELSE a
  BY <1>2, SmallRemainder
<1>4. QED
  BY <1>1, <1>2, <1>3 DEF Turned, normalize_angle, Abs

\* Distance and turn are metrics: never negative, the same both ways, and not
\* longer than a way round.
LEMMA Metric ==
  ASSUME NEW p \in Poses, NEW q \in Poses, NEW r \in Poses
  PROVE  /\ Distance(p, q) \in Nat /\ Turned(p, q) \in Nat
         /\ Distance(p, p) = 0 /\ Turned(p, p) = 0
         /\ Distance(p, q) = Distance(q, p) /\ Turned(p, q) = Turned(q, p)
         /\ Distance(p, r) <= Distance(p, q) + Distance(q, r)
         /\ Turned(p, r) <= Turned(p, q) + Turned(q, r)
<1>1. p.x \in Int /\ q.x \in Int /\ r.x \in Int
  BY SanitizerAssumption DEF Poses
<1>2. /\ Turn \in Nat \ {0} /\ p.yaw \in 0 .. Turn - 1 /\ q.yaw \in 0 .. Turn - 1
      /\ r.yaw \in 0 .. Turn - 1
  BY SanitizerAssumption DEF Poses
<1>3. /\ Distance(p, q) \in Nat /\ Distance(p, p) = 0 /\ Distance(p, q) = Distance(q, p)
      /\ Distance(p, r) <= Distance(p, q) + Distance(q, r)
  BY <1>1 DEF Distance, Abs
<1>4. /\ Turned(p, q) \in Nat /\ Turned(p, p) = 0 /\ Turned(p, q) = Turned(q, p)
      /\ Turned(p, r) <= Turned(p, q) + Turned(q, r)
  BY <1>2, TurnedValue DEF Abs
<1>5. QED
  BY <1>3, <1>4

\* Speeds times durations add up.
LEMMA Add ==
  ASSUME NEW v \in Int, NEW w \in Int, NEW a \in Int, NEW b \in Int
  PROVE  /\ v * a \in Int
         /\ v * a + v * b = v * (a + b) /\ v * a + w * a = (v + w) * a
         /\ v * 0 = 0 /\ v * 1 = v
OBVIOUS

\* One more tick.
LEMMA Tick ==
  ASSUME NEW v \in Int, NEW a \in Int
  PROVE  v * (a + 1) = v * a + v /\ v * a \in Int
OBVIOUS

\* A message is judged by its speed and its turn alone: the step limit never
\* decides, since what it allows is what the speed allows or more.
LEMMA AcceptedBySpeed ==
  ASSUME NEW p \in Poses, NEW t \in Int, last_published # None,
         last_published.pose \in Poses, last_published.time \in Int,
         t > last_published.time, reject_kinematic_outliers
  PROVE  ~_is_kinematic_outlier(p, t) <=>
           /\ Distance(p, last_published.pose)
                <= max_linear_speed * (t - last_published.time)
           /\ Turned(p, last_published.pose) <= max_yaw_rate * (t - last_published.time)
<1> DEFINE dt == t - last_published.time
           d == Distance(p, last_published.pose)
           a == max_linear_speed * dt
           u == Turned(p, last_published.pose)
           b == max_yaw_rate * dt
<1>1. dt \in Int /\ dt > 0 /\ d \in Nat /\ u \in Nat
  BY Metric
<1>2. a \in Int /\ b \in Int /\ max_position_step \in Int
  BY <1>1, Add, SanitizerAssumption
<1>3. ~_is_kinematic_outlier(p, t) <=>
        ~(\/ d > (IF max_position_step > a THEN max_position_step ELSE a)
          \/ d > a \/ u > b)
  BY <1>1 DEF _is_kinematic_outlier
<1>4. QED
  <2> HIDE DEF dt, d, a, u, b
  <2>1. ~_is_kinematic_outlier(p, t) <=> d <= a /\ u <= b
    BY <1>1, <1>2, <1>3
  <2>2. QED
    BY <2>1 DEF dt, d, a, u, b
-----------------------------------------------------------------------------
(* Types. *)

\* The record of a message is not the absent one.
LEMMA MessageFacts ==
  /\ \A m \in Messages : m # None =>
       m.pose \in Poses /\ m.time \in 1 .. MaxTime
  /\ \A p \in Poses, t \in 1 .. MaxTime :
       /\ [pose |-> p, time |-> t] \in Messages
       /\ [pose |-> p, time |-> t] # None
<1>1. MaxTime \in Nat
  BY SanitizerAssumption
<1>2. ASSUME NEW p \in Poses, NEW t \in 1 .. MaxTime
      PROVE  [pose |-> p, time |-> t] \in Messages /\ [pose |-> p, time |-> t] # None
  <2>1. [pose |-> p, time |-> t].time # None.time
    BY <1>1 DEF None
  <2>2. QED
    BY <2>1 DEF Messages
<1>3. QED
  BY <1>2 DEF Messages

\* The stamp of a message is a time on the clock, and not later than now.
LEMMA StampType ==
  ASSUME TypeOK
  PROVE  Stamp \in 1 .. MaxTime /\ Stamp <= now
BY SanitizerAssumption DEF TypeOK, Stamp, _stamp_seconds

LEMMA InitType == Init => TypeOK
<1> SUFFICES ASSUME Init PROVE TypeOK
  OBVIOUS
<1>1. 1 \in 1 .. MaxTime /\ 0 \in 0 .. MaxSteps
  BY SanitizerAssumption
<1>2. None \in Messages
  BY DEF Messages
<1>3. QED
  BY <1>1, <1>2, Zenon DEF Init, TypeOK

\* The callback keeps the types.
LEMMA CallbackType ==
  ASSUME TypeOK, NEW p \in Poses, _callback(p)
  PROVE  TypeOK'
<1> DEFINE m == [pose |-> p, time |-> Stamp]
<1>1. m \in Messages
  BY StampType, MessageFacts
<1>2. last_input' \in {m, last_input}
  BY DEF _callback, _estimate_twist_from_pose
<1>3. last_published' \in {m, last_published}
  BY DEF _callback, Remember
<1>4. first' \in {m, first} /\ shown' \in {vehicle, shown}
  BY DEF _callback
<1>5. stepped' \in BOOLEAN
  <2>1. (now <= behind) \in BOOLEAN
    OBVIOUS
  <2>2. QED
    BY <2>1, Zenon DEF _callback, TypeOK
<1>6. clean' \in BOOLEAN
  BY DEF _callback
<1>7. UNCHANGED <<now, behind, vehicle>>
  BY DEF _callback
<1>8. QED
  BY <1>1, <1>2, <1>3, <1>4, <1>5, <1>6, <1>7 DEF TypeOK

LEMMA NextType ==
  ASSUME TypeOK, [Next]_vars
  PROVE  TypeOK'
<1>1. ASSUME NEW p \in Poses, _callback(p) PROVE TypeOK'
  BY <1>1, CallbackType
<1>2. ASSUME NEW p \in Poses, Drive(p) PROVE TypeOK'
  BY <1>2, SanitizerAssumption DEF Drive, TypeOK
<1>3. ASSUME NEW by \in 1 .. MaxSteps - behind, ClockSteps(by) PROVE TypeOK'
  BY <1>3, SanitizerAssumption DEF ClockSteps, TypeOK
<1>4. CASE UNCHANGED vars
  BY <1>4 DEF vars, TypeOK
<1>5. QED
  BY <1>1, <1>2, <1>3, <1>4 DEF Next

\* Every message remembered has a stamp of the clock.
THEOREM TypeCorrect == Spec => []TypeOK
<1>1. Init => TypeOK
  BY InitType
<1>2. TypeOK /\ [Next]_vars => TypeOK'
  BY NextType
<1>3. QED
  BY <1>1, <1>2, PTL DEF Spec

\* What the callback remembers of a message.
LEMMA CallbackFacts ==
  ASSUME TypeOK, NEW p \in Poses, _callback(p)
  PROVE  LET m == [pose |-> p, time |-> Stamp]
             published == ~_is_kinematic_outlier(p, Stamp)
             later == last_published = None \/ Stamp > last_published.time
         IN  /\ m # None /\ m.pose = p /\ m.time = Stamp
             /\ last_published' = IF published THEN m ELSE last_published
             /\ first' = IF published /\ (first = None \/ ~later) THEN m ELSE first
             /\ shown' = IF published THEN vehicle ELSE shown
             /\ stepped' = IF published THEN now <= behind ELSE stepped
             /\ clean' = (published /\ (last_input = None \/ Stamp > last_input.time))
             /\ UNCHANGED <<now, behind, vehicle>>
<1>1. /\ [pose |-> p, time |-> Stamp] # None
      /\ [pose |-> p, time |-> Stamp].pose = p /\ [pose |-> p, time |-> Stamp].time = Stamp
  BY StampType, MessageFacts
<1>2. QED
  BY <1>1, Zenon DEF _callback, Remember
-----------------------------------------------------------------------------
(* Drift. *)

\* The last message published may be replaced by one that can be reached from
\* it: the bound grows by what the speed allows in between.
LEMMA Reachable ==
  ASSUME NEW p \in Poses, NEW q \in Poses, NEW r \in Poses,
         NEW s \in Int, NEW t \in Int, NEW u \in Int, NEW v \in Int,
         Distance(p, q) <= v * (u - t), Distance(q, r) <= v * (t - s)
  PROVE  Distance(p, r) <= v * (u - s)
<1>1. v * (u - t) + v * (t - s) = v * (u - s)
  OBVIOUS
<1>2. v * (u - t) \in Int /\ v * (t - s) \in Int
  OBVIOUS
<1>3. /\ Distance(p, r) <= Distance(p, q) + Distance(q, r)
      /\ Distance(p, q) \in Nat /\ Distance(q, r) \in Nat /\ Distance(p, r) \in Nat
  BY Metric
<1> DEFINE a == v * (u - t)
           b == v * (t - s)
<1> HIDE DEF a, b
<1>4. a \in Int /\ b \in Int /\ Distance(p, q) <= a /\ Distance(q, r) <= b
      /\ a + b = v * (u - s)
  BY <1>1, <1>2 DEF a, b
<1>5. Distance(p, r) <= a + b
  BY <1>3, <1>4
<1>6. QED
  BY <1>4, <1>5

LEMMA InitDrift == Init => DriftInv
BY DEF Init, DriftInv, DriftBounded

LEMMA CallbackDrift ==
  ASSUME TypeOK, DriftInv, NEW p \in Poses, _callback(p)
  PROVE  DriftInv'
<1> DEFINE m == [pose |-> p, time |-> Stamp]
           published == ~_is_kinematic_outlier(p, Stamp)
           later == last_published = None \/ Stamp > last_published.time
<1>1. /\ m # None /\ m.pose = p /\ m.time = Stamp
      /\ last_published' = IF published THEN m ELSE last_published
      /\ first' = IF published /\ (first = None \/ ~later) THEN m ELSE first
  BY CallbackFacts, Zenon
<1>2. Stamp \in 1 .. MaxTime /\ MaxTime \in Nat
  BY StampType, SanitizerAssumption
<1> HIDE DEF m, published, later
<1>3. CASE ~published
  BY <1>1, <1>3 DEF DriftInv, DriftBounded
<1>4. CASE published /\ (first = None \/ ~later)
  <2>1. last_published' = m /\ first' = m
    BY <1>1, <1>4
  <2>2. Distance(m.pose, m.pose) = 0 /\ m.time - m.time = 0
    BY <1>1, <1>2, Metric
  <2>3. max_linear_speed * 0 = 0
    BY Add, SanitizerAssumption
  <2>4. QED
    BY <1>1, <1>2, <2>1, <2>2, <2>3 DEF DriftInv, DriftBounded
<1>5. CASE published /\ first # None /\ later
  <2>1. last_published' = m /\ first' = first
    BY <1>1, <1>5
  <2>2. /\ last_published # None /\ first.time <= last_published.time
        /\ last_published.pose \in Poses /\ last_published.time \in 1 .. MaxTime
        /\ first.pose \in Poses /\ first.time \in 1 .. MaxTime
    BY <1>5, MessageFacts DEF DriftInv, TypeOK
  <2>3. Stamp > last_published.time
    BY <1>5, <2>2 DEF later
  <2>4. first.time <= Stamp
    BY <1>2, <2>2, <2>3
  <2>5. ASSUME reject_kinematic_outliers
        PROVE  Distance(p, first.pose) <= max_linear_speed * (Stamp - first.time)
    <3>1. Distance(p, last_published.pose)
            <= max_linear_speed * (Stamp - last_published.time)
      BY <1>2, <1>5, <2>2, <2>3, <2>5, AcceptedBySpeed DEF published
    <3>2. Distance(last_published.pose, first.pose)
            <= max_linear_speed * (last_published.time - first.time)
      BY <1>5, <2>5 DEF DriftInv, DriftBounded
    <3>3. /\ max_linear_speed \in Int /\ Stamp \in Int
          /\ last_published.time \in Int /\ first.time \in Int
      BY <1>2, <2>2, SanitizerAssumption
    <3>4. QED
      BY <2>2, <3>1, <3>2, <3>3, Reachable
  <2>6. QED
    BY <1>1, <1>5, <2>1, <2>4, <2>5 DEF DriftInv, DriftBounded
<1>6. QED
  BY <1>3, <1>4, <1>5

LEMMA NextDrift ==
  ASSUME TypeOK, DriftInv, [Next]_vars
  PROVE  DriftInv'
<1>1. ASSUME NEW p \in Poses, _callback(p) PROVE DriftInv'
  BY <1>1, CallbackDrift
<1>2. ASSUME UNCHANGED <<last_published, first>> PROVE DriftInv'
  BY <1>2 DEF DriftInv, DriftBounded
<1>3. QED
  BY <1>1, <1>2 DEF Next, Drive, ClockSteps, vars

\* What is published strays from where it began no faster than
\* max_linear_speed, however many messages _callback dropped or never got.
THEOREM DriftIsBounded == Spec => []DriftBounded
<1>1. Init => TypeOK /\ DriftInv
  BY InitType, InitDrift
<1>2. TypeOK /\ DriftInv /\ [Next]_vars => (TypeOK /\ DriftInv)'
  BY NextType, NextDrift
<1>3. DriftInv => DriftBounded
  BY DEF DriftInv
<1>4. QED
  BY <1>1, <1>2, <1>3, PTL DEF Spec
-----------------------------------------------------------------------------
(* The estimated twist. *)

LEMMA NextTwist ==
  ASSUME TypeOK, TwistInv, [Next]_vars
  PROVE  TwistInv'
<1>1. ASSUME NEW p \in Poses, _callback(p) PROVE TwistInv'
  <2> DEFINE m == [pose |-> p, time |-> Stamp]
             published == ~_is_kinematic_outlier(p, Stamp)
  <2>1. /\ m # None
        /\ last_published' = IF published THEN m ELSE last_published
        /\ clean' = (published /\ (last_input = None \/ Stamp > last_input.time))
    BY <1>1, CallbackFacts, Zenon
  <2>2. last_input' = IF estimate_twist_from_pose
                         /\ (last_input = None \/ Estimates(Stamp))
                      THEN m ELSE last_input
    BY <1>1 DEF _callback, _estimate_twist_from_pose
  <2> HIDE DEF m, published
  <2>3. clean' /\ estimate_twist_from_pose =>
          published /\ (last_input = None \/ Estimates(Stamp))
    BY <2>1 DEF Estimates
  <2>4. QED
    BY <2>1, <2>2, <2>3 DEF TwistInv
<1>2. ASSUME UNCHANGED <<last_published, last_input, clean>> PROVE TwistInv'
  BY <1>2 DEF TwistInv
<1>3. QED
  BY <1>1, <1>2 DEF Next, Drive, ClockSteps, vars

\* The pose the twist is estimated from is the pose the message is judged
\* against, so the twist of a message that follows a published one is within
\* the speed limit.
THEOREM TwistIsWithinLimits == Spec => []TwistWithinLimits
<1>1. Init => TypeOK /\ TwistInv
  BY InitType DEF Init, TwistInv
<1>2. TypeOK /\ TwistInv /\ [Next]_vars => (TypeOK /\ TwistInv)'
  BY NextType, NextTwist
<1>3. TypeOK /\ TwistInv => TwistWithinLimits
  <2> SUFFICES ASSUME TypeOK, TwistInv, reject_kinematic_outliers, clean, Estimates(Stamp),
                      NEW p \in Poses, ~_is_kinematic_outlier(p, Stamp)
               PROVE  Distance(p, last_input.pose)
                        <= max_linear_speed * (Stamp - last_input.time)
    BY DEF TwistWithinLimits
  <2>1. /\ last_published = last_input /\ last_published # None
        /\ Stamp > last_published.time
    BY DEF TwistInv, Estimates
  <2>2. /\ last_published.pose \in Poses /\ last_published.time \in Int /\ Stamp \in Int
    BY <2>1, MessageFacts, StampType, SanitizerAssumption DEF TypeOK
  <2>3. QED
    BY <2>1, <2>2, AcceptedBySpeed
<1>4. QED
  BY <1>1, <1>2, <1>3, PTL DEF Spec
-----------------------------------------------------------------------------
(* Right odometry is accepted. *)

LEMMA InitMotion == Init => MotionInv
BY DEF Init, MotionInv

\* A message published starts the account again; one that is dropped leaves it.
LEMMA CallbackMotion ==
  ASSUME TypeOK, MotionInv, NEW p \in Poses, _callback(p)
  PROVE  MotionInv'
<1> DEFINE m == [pose |-> p, time |-> Stamp]
           published == ~_is_kinematic_outlier(p, Stamp)
<1>1. /\ m # None /\ m.time = Stamp
      /\ last_published' = IF published THEN m ELSE last_published
      /\ shown' = IF published THEN vehicle ELSE shown
      /\ stepped' = IF published THEN now <= behind ELSE stepped
      /\ UNCHANGED <<now, behind, vehicle>>
  BY CallbackFacts, Zenon
<1>2. Stamp' = Stamp
  BY <1>1 DEF Stamp, _stamp_seconds
<1>3. Stamp \in Int /\ now \in Int /\ behind \in Int /\ vehicle \in Poses
  BY StampType, SanitizerAssumption DEF TypeOK
<1> HIDE DEF m, published
<1>4. CASE ~published
  BY <1>1, <1>2, <1>4 DEF MotionInv
<1>5. CASE published
  <2>1. last_published' = m /\ shown' = vehicle /\ (~stepped' => behind < now)
    <3>1. stepped' = (now <= behind)
      BY <1>1, <1>5, Zenon
    <3>2. ~(now <= behind) => behind < now
      BY <1>3
    <3>3. QED
      BY <1>1, <1>5, <3>1, <3>2, Zenon
  <2>2. Stamp - m.time = 0 /\ Distance(vehicle, vehicle) = 0 /\ Turned(vehicle, vehicle) = 0
    BY <1>1, <1>3, Metric
  <2>3. VehicleSpeed * 0 = 0 /\ VehicleYawRate * 0 = 0
    BY Add, SanitizerAssumption
  <2>4. QED
    BY <1>1, <1>2, <1>3, <2>1, <2>2, <2>3 DEF MotionInv
<1>6. QED
  BY <1>4, <1>5

\* One tick is one more tick on the stamps, and the vehicle keeps to its speed.
LEMMA DriveMotion ==
  ASSUME TypeOK, MotionInv, NEW p \in Poses, Drive(p)
  PROVE  MotionInv'
<1>1. /\ now' = now + 1 /\ vehicle' = p
      /\ Distance(p, vehicle) <= VehicleSpeed /\ Turned(p, vehicle) <= VehicleYawRate
      /\ UNCHANGED <<behind, last_published, shown, stepped>>
  BY DEF Drive
<1> SUFFICES ASSUME last_published # None, restamp_to_now \/ ~stepped
             PROVE  /\ ~restamp_to_now => behind' < now'
                    /\ Stamp' >= last_published.time
                    /\ Distance(p, shown) <= VehicleSpeed * (Stamp' - last_published.time)
                    /\ Turned(p, shown) <= VehicleYawRate * (Stamp' - last_published.time)
  BY <1>1 DEF MotionInv
<1> DEFINE g == Stamp - last_published.time
<1>2. /\ ~restamp_to_now => behind < now
      /\ Stamp >= last_published.time
      /\ Distance(vehicle, shown) <= VehicleSpeed * g
      /\ Turned(vehicle, shown) <= VehicleYawRate * g
  BY DEF MotionInv
<1>3. /\ Stamp \in Int /\ now \in Int /\ behind \in Int /\ last_published.time \in Int
      /\ vehicle \in Poses /\ shown \in Poses /\ now > 0
  BY StampType, MessageFacts, SanitizerAssumption DEF TypeOK
<1>4. Stamp' = Stamp + 1
  BY <1>1, <1>2, <1>3 DEF Stamp, _stamp_seconds
<1>5. Stamp' - last_published.time = g + 1 /\ g \in Int
  BY <1>3, <1>4
<1>6. /\ VehicleSpeed * (g + 1) = VehicleSpeed * g + VehicleSpeed
      /\ VehicleYawRate * (g + 1) = VehicleYawRate * g + VehicleYawRate
      /\ VehicleSpeed * g \in Int /\ VehicleYawRate * g \in Int
      /\ VehicleSpeed \in Int /\ VehicleYawRate \in Int
  <2>1. VehicleSpeed \in Int /\ VehicleYawRate \in Int
    BY SanitizerAssumption
  <2>2. g \in Int
    BY <1>5
  <2> HIDE DEF g
  <2>3. QED
    BY <2>1, <2>2, Tick
<1>7. /\ Distance(p, shown) <= Distance(p, vehicle) + Distance(vehicle, shown)
      /\ Turned(p, shown) <= Turned(p, vehicle) + Turned(vehicle, shown)
      /\ Distance(p, shown) \in Nat /\ Distance(p, vehicle) \in Nat
      /\ Distance(vehicle, shown) \in Nat
      /\ Turned(p, shown) \in Nat /\ Turned(p, vehicle) \in Nat
      /\ Turned(vehicle, shown) \in Nat
  BY <1>3, Metric
<1>8. Distance(p, shown) <= VehicleSpeed * (g + 1)
  <2> DEFINE a == VehicleSpeed * g
  <2>1. /\ a \in Int /\ VehicleSpeed * (g + 1) = a + VehicleSpeed
        /\ Distance(vehicle, shown) <= a
    BY <1>2, <1>6
  <2> HIDE DEF a, g
  <2>2. Distance(p, shown) <= a + VehicleSpeed
    BY <1>1, <1>6, <1>7, <2>1
  <2>3. QED
    BY <2>1, <2>2
<1>9. Turned(p, shown) <= VehicleYawRate * (g + 1)
  <2> DEFINE a == VehicleYawRate * g
  <2>1. /\ a \in Int /\ VehicleYawRate * (g + 1) = a + VehicleYawRate
        /\ Turned(vehicle, shown) <= a
    BY <1>2, <1>6
  <2> HIDE DEF a, g
  <2>2. Turned(p, shown) <= a + VehicleYawRate
    BY <1>1, <1>6, <1>7, <2>1
  <2>3. QED
    BY <2>1, <2>2
<1>10. (~restamp_to_now => behind' < now') /\ Stamp' >= last_published.time
  BY <1>1, <1>2, <1>3, <1>4
<1>11. QED
  BY <1>5, <1>8, <1>9, <1>10

LEMMA NextMotion ==
  ASSUME TypeOK, MotionInv, [Next]_vars
  PROVE  MotionInv'
<1>1. ASSUME NEW p \in Poses, _callback(p) PROVE MotionInv'
  BY <1>1, CallbackMotion
<1>2. ASSUME NEW p \in Poses, Drive(p) PROVE MotionInv'
  BY <1>2, DriveMotion
<1>3. ASSUME NEW by \in 1 .. MaxSteps - behind, ClockSteps(by) PROVE MotionInv'
  <2>1. restamp_to_now => Stamp' = Stamp
    BY <1>3 DEF ClockSteps, Stamp, _stamp_seconds
  <2>2. QED
    BY <1>3, <2>1 DEF ClockSteps, MotionInv
<1>4. CASE UNCHANGED vars
  BY <1>4 DEF vars, MotionInv, Stamp, _stamp_seconds
<1>5. QED
  BY <1>1, <1>2, <1>3, <1>4 DEF Next

\* What the vehicle can have moved and the error of the last message together
\* are within the limit when the error is within what the limit leaves over.
LEMMA WithinLimit ==
  ASSUME NEW d \in Nat, NEW e \in Nat, NEW f \in Nat, d <= e + f,
         NEW v \in Int, NEW limit \in Int, NEW g \in Int,
         e <= v * g, f <= (limit - v) * g
  PROVE  d <= limit * g
<1> DEFINE a == v * g
           b == (limit - v) * g
<1>1. a \in Int /\ b \in Int
  OBVIOUS
<1>2. a + b = limit * g
  <2>1. v * g + (limit - v) * g = (v + (limit - v)) * g
    BY Add
  <2>2. v + (limit - v) = limit
    OBVIOUS
  <2>3. QED
    BY <2>1, <2>2
<1>3. e <= a /\ f <= b
  OBVIOUS
<1> HIDE DEF a, b
<1>4. d <= a + b
  BY <1>1, <1>3
<1>5. QED
  BY <1>2, <1>4

\* Right odometry is accepted as soon as the gap outgrows the error of the last
\* message published, whatever was dropped since: _is_kinematic_outlier judges a
\* gap by its length.
THEOREM RightOdometryIsAccepted == Spec => []ValidIsAccepted
<1>1. Init => TypeOK /\ MotionInv
  BY InitType, InitMotion
<1>2. TypeOK /\ MotionInv /\ [Next]_vars => (TypeOK /\ MotionInv)'
  BY NextType, NextMotion
<1>3. TypeOK /\ MotionInv => ValidIsAccepted
  <2> DEFINE gap == Stamp - last_published.time
  <2> SUFFICES ASSUME TypeOK, MotionInv, last_published # None, restamp_to_now \/ ~stepped,
                      Distance(last_published.pose, shown)
                        <= (max_linear_speed - VehicleSpeed) * gap,
                      Turned(last_published.pose, shown)
                        <= (max_yaw_rate - VehicleYawRate) * gap,
                      _is_kinematic_outlier(vehicle, Stamp)
               PROVE  FALSE
    BY DEF ValidIsAccepted
  <2>1. /\ last_published.pose \in Poses /\ last_published.time \in Int /\ Stamp \in Int
        /\ vehicle \in Poses /\ shown \in Poses
    BY MessageFacts, StampType, SanitizerAssumption DEF TypeOK
  <2>2. /\ Distance(vehicle, shown) <= VehicleSpeed * gap
        /\ Turned(vehicle, shown) <= VehicleYawRate * gap
    BY DEF MotionInv
  <2>3. reject_kinematic_outliers /\ Stamp > last_published.time
    BY <2>1 DEF _is_kinematic_outlier
  <2>4. /\ max_linear_speed \in Int /\ VehicleSpeed \in Int
        /\ max_yaw_rate \in Int /\ VehicleYawRate \in Int /\ gap \in Int
    BY <2>1, SanitizerAssumption
  <2> DEFINE q == last_published.pose
  <2>5. /\ Distance(vehicle, q) <= Distance(vehicle, shown) + Distance(q, shown)
        /\ Turned(vehicle, q) <= Turned(vehicle, shown) + Turned(q, shown)
        /\ Distance(vehicle, q) \in Nat /\ Distance(vehicle, shown) \in Nat
        /\ Distance(q, shown) \in Nat
        /\ Turned(vehicle, q) \in Nat /\ Turned(vehicle, shown) \in Nat
        /\ Turned(q, shown) \in Nat
    BY <2>1, Metric
  <2> HIDE DEF q
  <2>6. Distance(vehicle, q) <= max_linear_speed * gap
    BY <2>2, <2>4, <2>5, WithinLimit DEF q
  <2>7. Turned(vehicle, q) <= max_yaw_rate * gap
    BY <2>2, <2>4, <2>5, WithinLimit DEF q
  <2>8. QED
    BY <2>1, <2>3, <2>6, <2>7, AcceptedBySpeed DEF q
<1>4. QED
  BY <1>1, <1>2, <1>3, PTL DEF Spec
=============================================================================
