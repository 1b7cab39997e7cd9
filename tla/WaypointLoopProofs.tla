------------------------- MODULE WaypointLoopProofs -------------------------
(***************************************************************************)
(* Theorems about WaypointLoop, for any number of poses, navigation goals   *)
(* and disturbances: no pose is passed over (ReachedOrMissed), the runner   *)
(* alone never blocks or crashes the follower (AloneNeverStuck), a round    *)
(* starts from the latest estimate (StartIsLatestEstimate), each client is  *)
(* kept the promise of an action goal (GoalsKeepPromise), and TypeOK.       *)
(***************************************************************************)
EXTENDS WaypointLoop, TLAPS

\* What the three parts change together.
ClientStep(g, s, n) ==
  /\ GoalBecomes(g, s, n)
  /\ ~is_active(g) /\ status[g] # "requested"
  /\ \/ s = "requested" /\ n \in 0 .. MaxPoses
     \/ s = "none" /\ n = 0 /\ status[g] # "none"
  /\ rpc' \in {"stable", "start"} => status'[Runner] = "none"

ServerStep ==
  \/ work_tests \/ work_ended \/ work_exits
  \/ \E g \in Goals : handle_goal(g) \/ handle_cancel(g)
  \/ deactivate_timeout \/ deactivate_returns \/ activate \/ deactivate

NavStep ==
  \/ NavCancels
  \/ \E n \in NavIds : NavAccepts(n) \/ NavEnds(n) \/ NavRejects(n)

-----------------------------------------------------------------------------
(* The types the proofs need. *)

ServerTyped ==
  /\ status \in [Goals -> Statuses]
  /\ current \in Goals \cup {NoGoal}
  /\ pending \in Goals \cup {NoGoal}

LocalsTyped ==
  /\ size \in [Goals -> 0 .. MaxPoses]
  /\ missed \in [Goals -> SUBSET Nat]
  /\ goal \in Goals \cup {NoGoal}
  /\ goal_size \in 0 .. MaxPoses
  /\ goal_index \in Nat
  /\ failed_ids \in SUBSET Nat

NavTyped ==
  /\ future \in NavIds \cup {NoNav}
  /\ response \in [NavIds -> {"none", "sent", "accepted", "rejected", "delivered"}]
  /\ nav \in [NavIds -> {"none", "driving", "canceling"} \cup Terminal]
  /\ leg \in [NavIds -> Nat]
  /\ arrived \in SUBSET Nat

CountTyped == count \in [Events -> Nat]

\* The handles: a goal that is held is active, the two are never the same,
\* a preemption is asked for only with a goal pending, and the runner has no
\* goal under way where it is about to send one.
HandleInv ==
  /\ current # NoGoal => is_active(current)
  /\ pending # NoGoal => is_active(pending)
  /\ current # NoGoal => current # pending
  /\ preempt_requested => pending # NoGoal
  /\ rpc \in {"stable", "start"} => status[Runner] = "none"

\* Every step that is not the runner's own is one of the follower's threads,
\* of the navigation server or of a client that changes its own inactive goal.
LEMMA Steps ==
  ASSUME ServerTyped, HandleInv, [Next]_vars
  PROVE  \/ followWaypoints /\ UNCHANGED <<runnerVars, count>>
         \/ ServerStep /\ UNCHANGED <<followerVars, runnerVars>>
         \/ dynamicParametersCallback /\ UNCHANGED runnerVars
         \/ NavStep /\ UNCHANGED <<runnerVars, serverVars>>
         \/ \E g \in Goals, s \in {"requested", "none"}, n \in 0 .. MaxPoses : ClientStep(g, s, n)
         \/ /\ UNCHANGED <<serverVars, followerVars>>
            /\ rpc' \in {"stable", "start"} => rpc \in {"stable", "start"}
<1>1. CASE Follower
  BY <1>1 DEF Follower, work, ServerStep
<1>2. CASE Executor
  BY <1>2 DEF Executor, ServerStep
<1>3. CASE Requests
  BY <1>3 DEF Requests, ServerStep
<1>4. CASE Navigation
  BY <1>4 DEF Navigation, NavStep, NavCancels, NavAccepts, NavEnds
<1>5. CASE Rejections
  BY <1>5 DEF Rejections, NavStep, NavRejects
<1>6. CASE RunnerCallbacks \/ TimePasses
  BY <1>6 DEF RunnerCallbacks, TimePasses, initialpose_cb, waypoints_marker_cb, amcl_pose_cb, others,
              followerVars
<1>7. CASE wait_for_stable_waypoints
  BY <1>7 DEF wait_for_stable_waypoints, others
<1>8. CASE get_locked_loop_start
  <2>1. rpc = "start"
    BY <1>8 DEF get_locked_loop_start
  <2>2. \/ rpc' = "goal" /\ Request(Runner, 2)
        \/ rpc' = "stable" /\ UNCHANGED serverVars /\ UNCHANGED followerVars
    BY <1>8 DEF get_locked_loop_start
  <2>3. CASE rpc' = "goal" /\ Request(Runner, 2)
    <3>1. Runner \in Goals
      BY LoopAssumption
    <3>2. ~is_active(Runner) /\ status[Runner] # "requested"
      BY <2>1 DEF HandleInv, is_active
    <3>3. 2 \in 0 .. MaxPoses
      BY LoopAssumption, FollowerAssumption
    <3>4. ClientStep(Runner, "requested", 2)
      BY <2>3, <3>2, <3>3 DEF ClientStep, Request
    <3>5. QED
      BY <3>1, <3>3, <3>4
  <2>4. CASE rpc' = "stable" /\ UNCHANGED serverVars /\ UNCHANGED followerVars
    BY <2>1, <2>4
  <2>5. QED
    BY <2>2, <2>3, <2>4
<1>9. CASE get_result
  <2>1. Runner \in Goals
    BY LoopAssumption
  <2>2. ~is_active(Runner) /\ status[Runner] \notin {"requested", "none"}
    BY <1>9 DEF get_result, is_active, Terminal
  <2>3. GoalBecomes(Runner, "none", 0)
    BY <1>9 DEF get_result, Forget
  <2>4. status'[Runner] = "none"
    BY <2>1, <2>3 DEF GoalBecomes, ServerTyped
  <2>5. ClientStep(Runner, "none", 0)
    BY <2>2, <2>3, <2>4 DEF ClientStep
  <2>6. 0 \in 0 .. MaxPoses
    BY FollowerAssumption
  <2>7. QED
    BY <2>1, <2>5, <2>6
<1>10. CASE \E n \in 0 .. 1 : OperatorGoal(n)
  <2>1. PICK n \in 0 .. 1 : OperatorGoal(n)
    BY <1>10
  <2>2. Operator \in Goals /\ Runner \in Goals /\ Runner # Operator
    BY LoopAssumption
  <2>3. ~is_active(Operator) /\ status[Operator] # "requested"
    BY <2>1 DEF OperatorGoal, is_active, Terminal
  <2>4. GoalBecomes(Operator, "requested", n) /\ rpc' = rpc
    BY <2>1 DEF OperatorGoal, Request, runnerVars
  <2>5. status'[Runner] = status[Runner]
    BY <2>2, <2>4 DEF GoalBecomes, ServerTyped
  <2>6. n \in 0 .. MaxPoses
    BY LoopAssumption, FollowerAssumption
  <2>7. ClientStep(Operator, "requested", n)
    BY <2>3, <2>4, <2>5, <2>6 DEF ClientStep, HandleInv
  <2>8. QED
    BY <2>2, <2>6, <2>7
<1>11. CASE UNCHANGED vars
  BY <1>11 DEF vars, runnerVars
<1>12. QED
  BY <1>1, <1>2, <1>3, <1>4, <1>5, <1>6, <1>7, <1>8, <1>9, <1>10, <1>11 DEF Next, Run

-----------------------------------------------------------------------------
(* The handles. *)

LEMMA AcceptKeeps ==
  ASSUME ServerTyped, HandleInv, accept_pending_goal, rpc' = rpc
  PROVE  ServerTyped' /\ HandleInv'
<1> USE GoalsAssumption, LoopAssumption
<1>1. CASE is_active(pending)
  <2>1. status' = IF is_active(current) /\ current # pending
                  THEN [status EXCEPT ![current] = "aborted"] ELSE status
    BY <1>1 DEF accept_pending_goal
  <2>2. current' = pending /\ pending' = NoGoal /\ ~preempt_requested'
    BY <1>1 DEF accept_pending_goal
  <2>3. pending \in Goals
    BY <1>1 DEF is_active, ServerTyped
  <2>4. status' \in [Goals -> Statuses]
    BY <2>1 DEF ServerTyped, Statuses, is_active
  <2>5. status'[pending] \in {"executing", "canceling"}
    BY <1>1, <2>1, <2>3 DEF ServerTyped, is_active
  <2>6. rpc \in {"stable", "start"} => status'[Runner] = "none"
    BY <2>1 DEF HandleInv, ServerTyped, is_active
  <2>7. QED
    BY <2>2, <2>3, <2>4, <2>5, <2>6 DEF ServerTyped, HandleInv, is_active
<1>2. CASE ~is_active(pending)
  BY <1>2 DEF accept_pending_goal, handles, ServerTyped, HandleInv, is_active
<1>3. QED
  BY <1>1, <1>2

LEMMA SucceededKeeps ==
  ASSUME ServerTyped, HandleInv, succeeded_current, rpc' = rpc
  PROVE  ServerTyped' /\ HandleInv'
<1> USE GoalsAssumption, LoopAssumption
<1>1. /\ status' = IF is_active(current) THEN [status EXCEPT ![current] = "succeeded"] ELSE status
      /\ current' = NoGoal
      /\ pending' = pending /\ preempt_requested' = preempt_requested
  BY DEF succeeded_current, Reset, HandleInv, is_active
<1>2. status' \in [Goals -> Statuses]
  BY <1>1 DEF ServerTyped, Statuses, is_active
<1>3. pending # NoGoal => status'[pending] = status[pending]
  BY <1>1 DEF ServerTyped, HandleInv, is_active
<1>4. rpc \in {"stable", "start"} => status'[Runner] = "none"
  BY <1>1 DEF HandleInv, ServerTyped, is_active
<1>5. QED
  BY <1>1, <1>2, <1>3, <1>4 DEF ServerTyped, HandleInv, is_active

LEMMA TerminatedStatus ==
  ASSUME ServerTyped, NEW S
  PROVE  /\ Terminated(S) \in [Goals -> Statuses]
         /\ \A g \in Goals : g \notin S \/ ~is_active(g) => Terminated(S)[g] = status[g]
         /\ \A g \in Goals : g \in S => Terminated(S)[g] \notin {"executing", "canceling"}
         /\ \A g \in Goals : is_active(g) => Terminated(S)[g] # "succeeded"
<1>1. \A g \in Goals : status[g] \in Statuses
  BY DEF ServerTyped
<1>2. \A g \in Goals :
        Terminated(S)[g] = IF g \notin S \/ ~is_active(g) THEN status[g]
                           ELSE IF status[g] = "canceling" THEN "canceled" ELSE "aborted"
  BY DEF Terminated
<1>3. \A g \in Goals : Terminated(S)[g] \in Statuses
  BY <1>1, <1>2 DEF Statuses
<1>4. Terminated(S) \in [Goals -> Statuses]
  BY <1>3 DEF Terminated
<1>5. \A g \in Goals : g \in S => Terminated(S)[g] \notin {"executing", "canceling"}
  BY <1>2, GoalsAssumption DEF is_active
<1>6. \A g \in Goals : is_active(g) => Terminated(S)[g] # "succeeded"
  BY <1>2 DEF is_active
<1>7. QED
  BY <1>2, <1>4, <1>5, <1>6

LEMMA TerminateKeeps ==
  ASSUME ServerTyped, HandleInv, terminate_current \/ terminate_all, rpc' = rpc
  PROVE  ServerTyped' /\ HandleInv'
<1> USE GoalsAssumption, LoopAssumption
<1>1. CASE terminate_current
  <2>1. /\ status' = Terminated({current}) /\ current' = NoGoal
        /\ pending' = pending /\ preempt_requested' = preempt_requested
    BY <1>1 DEF terminate_current, Reset, HandleInv, is_active
  <2>2. pending # NoGoal => status'[pending] = status[pending]
    BY <2>1, TerminatedStatus DEF ServerTyped, HandleInv
  <2>3. rpc \in {"stable", "start"} => status'[Runner] = "none"
    BY <2>1, TerminatedStatus DEF HandleInv, is_active
  <2>4. status' \in [Goals -> Statuses]
    BY <2>1, TerminatedStatus
  <2>5. QED
    BY <2>1, <2>2, <2>3, <2>4 DEF ServerTyped, HandleInv, is_active
<1>2. CASE terminate_all
  <2>1. /\ status' = Terminated({current, pending}) /\ current' = NoGoal
        /\ pending' = NoGoal /\ ~preempt_requested'
    BY <1>2 DEF terminate_all, Reset, HandleInv, is_active
  <2>2. rpc \in {"stable", "start"} => status'[Runner] = "none"
    BY <2>1, TerminatedStatus DEF HandleInv, is_active
  <2>3. status' \in [Goals -> Statuses]
    BY <2>1, TerminatedStatus
  <2>4. QED
    BY <2>1, <2>2, <2>3 DEF ServerTyped, HandleInv, is_active
<1>3. QED
  BY <1>1, <1>2

LEMMA HandleGoalKeeps ==
  ASSUME ServerTyped, HandleInv, NEW g \in Goals, handle_goal(g), rpc' = rpc
  PROVE  ServerTyped' /\ HandleInv'
<1> USE GoalsAssumption, LoopAssumption
<1>1. status[g] = "requested" /\ ~is_active(g) /\ g # NoGoal /\ g # current /\ g # pending
  BY DEF handle_goal, HandleInv, is_active
<1>2. CASE ~server_active
  <2>1. status' = [status EXCEPT ![g] = "rejected"] /\ UNCHANGED <<current, pending, preempt_requested>>
    BY <1>2 DEF handle_goal
  <2>2. status' \in [Goals -> Statuses]
    BY <2>1 DEF ServerTyped, Statuses
  <2>3. \A h \in Goals : h # g => status'[h] = status[h]
    BY <2>1 DEF ServerTyped
  <2>4. QED
    BY <1>1, <2>1, <2>2, <2>3 DEF ServerTyped, HandleInv, is_active
<1>3. CASE server_active
  <2> DEFINE T == Terminated({pending})
  <2>1. /\ status' = [T EXCEPT ![g] = "executing"]
        /\ \/ /\ pending' = g /\ preempt_requested' /\ current' = current
           \/ /\ pending' = Reset(pending) /\ current' = g
              /\ preempt_requested' = (preempt_requested /\ ~is_active(pending))
    BY <1>3 DEF handle_goal
  <2>2. T \in [Goals -> Statuses]
    BY TerminatedStatus
  <2>3. \A h \in Goals : h # pending \/ ~is_active(h) => T[h] = status[h]
    BY TerminatedStatus
  <2> HIDE DEF T
  <2>4. status' \in [Goals -> Statuses] /\ status'[g] = "executing"
    BY <2>1, <2>2 DEF Statuses
  <2>5. current # NoGoal => status'[current] = status[current]
    BY <1>1, <2>1, <2>2, <2>3 DEF ServerTyped, HandleInv
  <2>6. rpc \in {"stable", "start"} => status'[Runner] = "none"
    BY <1>1, <2>1, <2>2, <2>3 DEF HandleInv, is_active
  <2>7. CASE pending' = g /\ preempt_requested' /\ current' = current
    BY <1>1, <2>4, <2>5, <2>6, <2>7 DEF ServerTyped, HandleInv, is_active
  <2>8. CASE pending' = Reset(pending) /\ current' = g
              /\ preempt_requested' = (preempt_requested /\ ~is_active(pending))
    <3>1. pending' = NoGoal /\ ~preempt_requested'
      BY <2>8 DEF Reset, HandleInv, is_active
    <3>2. QED
      BY <1>1, <2>4, <2>6, <2>8, <3>1 DEF ServerTyped, HandleInv, is_active
  <2>9. QED
    BY <2>1, <2>7, <2>8
<1>4. QED
  BY <1>2, <1>3

\* The handles are typed, and held as HandleInv says, after every step.
LEMMA HandlesKept ==
  ASSUME ServerTyped, HandleInv, [Next]_vars
  PROVE  ServerTyped' /\ HandleInv'
<1> USE GoalsAssumption, LoopAssumption
<1>1. ASSUME UNCHANGED handles, rpc' = rpc
      PROVE  ServerTyped' /\ HandleInv'
  BY <1>1 DEF handles, ServerTyped, HandleInv, is_active
<1>2. CASE followWaypoints /\ UNCHANGED <<runnerVars, count>>
  <2>1. rpc' = rpc
    BY <1>2 DEF runnerVars
  <2>2. CASE preempt
    BY <2>1, <2>2, AcceptKeeps DEF preempt
  <2>3. CASE finish
    BY <2>1, <2>3, SucceededKeeps, TerminateKeeps DEF finish
  <2>4. CASE UNCHANGED handles
    BY <1>1, <2>1, <2>4
  <2>5. QED
    BY <1>2, <2>2, <2>3, <2>4
       DEF followWaypoints, get_current_goal, is_server_active, check_cancel, is_preempt_requested,
           send_goal, publish_feedback, check_status, spin, spin_cancel
<1>3. CASE ServerStep /\ UNCHANGED <<followerVars, runnerVars>>
  <2>1. rpc' = rpc
    BY <1>3 DEF runnerVars
  <2>2. CASE UNCHANGED handles
    BY <1>1, <2>1, <2>2
  <2>3. CASE work_ended
    BY <1>1, <2>1, <2>3, AcceptKeeps, TerminateKeeps DEF work_ended
  <2>4. CASE deactivate_timeout
    BY <2>1, <2>4, TerminateKeeps DEF deactivate_timeout
  <2>5. ASSUME NEW g \in Goals, handle_goal(g)
        PROVE  ServerTyped' /\ HandleInv'
    BY <2>1, <2>5, HandleGoalKeeps
  <2>6. ASSUME NEW g \in Goals, handle_cancel(g)
        PROVE  ServerTyped' /\ HandleInv'
    <3>1. /\ status[g] = "executing" /\ status' = [status EXCEPT ![g] = "canceling"]
          /\ UNCHANGED <<current, pending, preempt_requested>>
      BY <2>6 DEF handle_cancel
    <3>2. status' \in [Goals -> Statuses]
      BY <3>1 DEF ServerTyped, Statuses
    <3>3. /\ \A h \in Goals : h # g => status'[h] = status[h]
          /\ status'[g] = "canceling"
      BY <3>1 DEF ServerTyped
    <3>4. QED
      BY <2>1, <3>1, <3>2, <3>3 DEF ServerTyped, HandleInv, is_active
  <2>7. QED
    BY <1>3, <2>2, <2>3, <2>4, <2>5, <2>6
       DEF ServerStep, work_tests, work_exits, deactivate_returns, activate, deactivate, handles
<1>4. CASE dynamicParametersCallback /\ UNCHANGED runnerVars
  BY <1>1, <1>4 DEF dynamicParametersCallback, serverVars, handles, runnerVars
<1>5. CASE NavStep /\ UNCHANGED <<runnerVars, serverVars>>
  BY <1>1, <1>5 DEF serverVars, handles, runnerVars
<1>6. ASSUME NEW g \in Goals, NEW s \in {"requested", "none"}, NEW n \in 0 .. MaxPoses, ClientStep(g, s, n)
      PROVE  ServerTyped' /\ HandleInv'
  <2>1. /\ status' = [status EXCEPT ![g] = s]
        /\ UNCHANGED <<current, pending, preempt_requested>>
        /\ ~is_active(g)
        /\ rpc' \in {"stable", "start"} => status'[Runner] = "none"
    BY <1>6 DEF ClientStep, GoalBecomes
  <2>2. status' \in [Goals -> Statuses]
    BY <2>1 DEF ServerTyped, Statuses
  <2>3. \A h \in Goals : h # g => status'[h] = status[h]
    BY <2>1 DEF ServerTyped
  <2>4. QED
    BY <2>1, <2>2, <2>3 DEF ServerTyped, HandleInv, is_active
<1>7. CASE /\ UNCHANGED <<serverVars, followerVars>>
           /\ rpc' \in {"stable", "start"} => rpc \in {"stable", "start"}
  BY <1>7 DEF serverVars, ServerTyped, HandleInv, is_active
<1>8. QED
  BY <1>2, <1>3, <1>4, <1>5, <1>6, <1>7, Steps

-----------------------------------------------------------------------------
(* The types of the rest. *)

LEMMA LocalsTypedKept ==
  ASSUME ServerTyped, HandleInv, LocalsTyped, [Next]_vars
  PROVE  LocalsTyped'
<1> USE GoalsAssumption, LoopAssumption
<1> DEFINE Same == UNCHANGED <<size, missed, goal, goal_size, goal_index, failed_ids>>
<1>1. CASE Same
  BY <1>1 DEF LocalsTyped
<1>2. ASSUME NEW g \in Goals \cup {NoGoal}, NewGoal(g)
      PROVE  goal' \in Goals \cup {NoGoal} /\ goal_size' \in 0 .. MaxPoses /\ goal_index' \in Nat
  BY <1>2, FollowerAssumption DEF NewGoal, LocalsTyped
<1>3. CASE followWaypoints /\ UNCHANGED <<runnerVars, count>>
  <2>1. CASE get_current_goal
    <3>1. /\ NewGoal(IF is_active(current) THEN current ELSE NoGoal)
          /\ UNCHANGED <<size, missed, failed_ids>>
      BY <2>1 DEF get_current_goal
    <3>2. QED
      BY <1>2, <3>1 DEF LocalsTyped, ServerTyped
  <2>2. CASE is_server_active
    <3>1. CASE Return
      BY <1>2, <2>2, <3>1 DEF is_server_active, Return, LocalsTyped
    <3>2. CASE UNCHANGED locals
      BY <2>2, <3>2 DEF is_server_active, locals, LocalsTyped
    <3>3. QED
      BY <2>2, <3>1, <3>2 DEF is_server_active
  <2>3. CASE preempt
    <3>1. /\ NewGoal(IF is_active(pending) THEN pending ELSE NoGoal)
          /\ UNCHANGED <<size, missed, failed_ids>>
      BY <2>3 DEF preempt
    <3>2. QED
      BY <1>2, <3>1 DEF LocalsTyped, ServerTyped
  <2>4. CASE check_status
    <3>1. /\ failed_ids' \in {failed_ids, failed_ids \cup {goal_index}}
          /\ goal_index' \in {goal_index, goal_index + 1}
          /\ UNCHANGED <<size, missed, goal, goal_size>>
      BY <2>4 DEF check_status
    <3>2. QED
      BY <3>1 DEF LocalsTyped
  <2>5. CASE finish
    <3>1. Return /\ UNCHANGED size /\ failed_ids' \in {failed_ids, {}}
      BY <2>5 DEF finish
    <3>2. missed' = missed \/ \E ids \in SUBSET Nat : Answers(ids)
      BY <2>5 DEF finish, LocalsTyped
    <3>3. ASSUME NEW ids \in SUBSET Nat, Answers(ids)
          PROVE  missed' \in [Goals -> SUBSET Nat]
      BY <3>3 DEF Answers, LocalsTyped, ServerTyped
    <3>4. QED
      BY <1>2, <3>1, <3>2, <3>3 DEF LocalsTyped, Return
  <2>6. CASE Same
    BY <1>1, <2>6
  <2>7. QED
    BY <1>3, <2>1, <2>2, <2>3, <2>4, <2>5, <2>6
       DEF followWaypoints, check_cancel, is_preempt_requested, send_goal, publish_feedback,
           spin, spin_cancel, locals
<1>4. CASE ServerStep /\ UNCHANGED <<followerVars, runnerVars>>
  BY <1>1, <1>4 DEF followerVars
<1>5. CASE dynamicParametersCallback /\ UNCHANGED runnerVars
  BY <1>1, <1>5 DEF dynamicParametersCallback
<1>6. CASE NavStep /\ UNCHANGED <<runnerVars, serverVars>>
  BY <1>1, <1>6 DEF NavStep, NavCancels, NavAccepts, NavEnds, NavRejects, navOnly
<1>7. ASSUME NEW g \in Goals, NEW s \in {"requested", "none"}, NEW n \in 0 .. MaxPoses, ClientStep(g, s, n)
      PROVE  LocalsTyped'
  BY <1>7 DEF ClientStep, GoalBecomes, locals, LocalsTyped
<1>8. CASE UNCHANGED <<serverVars, followerVars>>
  BY <1>1, <1>8 DEF followerVars
<1>9. QED
  BY <1>3, <1>4, <1>5, <1>6, <1>7, <1>8, Steps

LEMMA NavTypedKept ==
  ASSUME ServerTyped, HandleInv, LocalsTyped, NavTyped, [Next]_vars
  PROVE  NavTyped'
<1> USE GoalsAssumption, LoopAssumption, FollowerAssumption
<1> DEFINE Same == UNCHANGED <<future, response, nav, leg, arrived>>
<1>1. CASE Same
  BY <1>1 DEF NavTyped
<1>2. NoLeg \in Nat
  BY DEF NoLeg
<1>3. ASSUME NEW g, NewGoal(g)
      PROVE  leg' \in [NavIds -> Nat] /\ arrived' \in SUBSET Nat
  BY <1>2, <1>3 DEF NewGoal
<1>4. CASE followWaypoints /\ UNCHANGED <<runnerVars, count>>
  <2>1. ASSUME UNCHANGED <<future, response, nav>>,
               UNCHANGED ghosts \/ \E g : NewGoal(g)
        PROVE  NavTyped'
    BY <1>3, <2>1 DEF ghosts, NavTyped
  <2>2. CASE get_current_goal \/ preempt
    BY <2>1, <2>2 DEF get_current_goal, preempt, navVars
  <2>3. CASE is_server_active
    BY <2>1, <2>3 DEF is_server_active, navVars, Return
  <2>4. CASE send_goal
    <3>1. UNCHANGED <<nav, arrived>>
      BY <2>4 DEF send_goal
    <3>2. CASE UNCHANGED <<future, response, leg>>
      BY <1>1, <3>1, <3>2
    <3>3. ASSUME NEW n \in NavIds,
                 response' = [Released EXCEPT ![n] = "sent"], future' = n,
                 leg' = [leg EXCEPT ![n] = goal_index]
          PROVE  NavTyped'
      <4>1. Released \in [NavIds -> {"none", "sent", "accepted", "rejected", "delivered"}]
        BY DEF Released, NavTyped
      <4>2. QED
        BY <3>1, <3>3, <4>1 DEF NavTyped, LocalsTyped
    <3>4. QED
      BY <2>4, <3>2, <3>3 DEF send_goal
  <2>5. ASSUME NEW n \in NavIds, NEW l, goalResponseCallback(n, l), UNCHANGED ghosts
        PROVE  NavTyped'
    <3>1. response' \in [NavIds -> {"none", "sent", "accepted", "rejected", "delivered"}]
      BY <2>5 DEF goalResponseCallback, NavTyped
    <3>2. future' \in NavIds \cup {NoNav} /\ nav' = nav
      BY <2>5 DEF goalResponseCallback, NavTyped
    <3>3. QED
      BY <2>5, <3>1, <3>2 DEF NavTyped, ghosts
  <2>6. ASSUME NEW n \in NavIds, NEW l, resultCallback(n, l), UNCHANGED ghosts
        PROVE  NavTyped'
    <3>1. response' \in [NavIds -> {"none", "sent", "accepted", "rejected", "delivered"}]
      BY <2>6 DEF resultCallback, NavTyped
    <3>2. future' = future /\ nav' \in {nav, [nav EXCEPT ![n] = "none"]}
      BY <2>6 DEF resultCallback
    <3>3. QED
      BY <2>6, <3>1, <3>2 DEF NavTyped, ghosts
  <2>7. CASE spin
    BY <1>1, <2>5, <2>6, <2>7 DEF spin, ghosts
  <2>8. CASE spin_cancel
    BY <1>1, <2>5, <2>6, <2>8 DEF spin_cancel, ghosts
  <2>9. CASE finish
    BY <2>1, <2>9 DEF finish, navVars, Return
  <2>10. CASE Same
    BY <1>1, <2>10
  <2>11. QED
    BY <1>4, <2>2, <2>3, <2>4, <2>7, <2>8, <2>9, <2>10
       DEF followWaypoints, check_cancel, is_preempt_requested, publish_feedback,
           check_status, navVars, ghosts
<1>5. CASE ServerStep /\ UNCHANGED <<followerVars, runnerVars>>
  BY <1>1, <1>5 DEF followerVars
<1>6. CASE dynamicParametersCallback /\ UNCHANGED runnerVars
  BY <1>1, <1>6 DEF dynamicParametersCallback
<1>7. CASE NavStep /\ UNCHANGED <<runnerVars, serverVars>>
  <2>1. CASE NavCancels
    BY <2>1 DEF NavCancels, NavTyped, navOnly, ghosts
  <2>2. ASSUME NEW n \in NavIds, NavAccepts(n)
        PROVE  NavTyped'
    BY <1>2, <2>2 DEF NavAccepts, NavTyped, navOnly, Terminal
  <2>3. ASSUME NEW n \in NavIds, NavEnds(n)
        PROVE  NavTyped'
    <3>1. PICK s \in {"succeeded", IF nav[n] = "canceling" THEN "canceled" ELSE "aborted"} :
            /\ nav' = [nav EXCEPT ![n] = s]
            /\ arrived' = IF s = "succeeded" /\ leg[n] # NoLeg THEN arrived \cup {leg[n]} ELSE arrived
      BY <2>3 DEF NavEnds
    <3>2. s \in Terminal
      BY DEF Terminal
    <3>3. leg' = [leg EXCEPT ![n] = NoLeg] /\ response' = response /\ future' = future
      BY <2>3 DEF NavEnds, navOnly
    <3>4. QED
      BY <1>2, <3>1, <3>2, <3>3 DEF NavTyped
  <2>4. ASSUME NEW n \in NavIds, NavRejects(n)
        PROVE  NavTyped'
    BY <1>2, <2>4 DEF NavRejects, NavTyped, navOnly
  <2>5. QED
    BY <1>7, <2>1, <2>2, <2>3, <2>4 DEF NavStep
<1>8. ASSUME NEW g \in Goals, NEW s \in {"requested", "none"}, NEW n \in 0 .. MaxPoses, ClientStep(g, s, n)
      PROVE  NavTyped'
  BY <1>1, <1>8 DEF ClientStep, GoalBecomes, navVars, ghosts
<1>9. CASE UNCHANGED <<serverVars, followerVars>>
  BY <1>1, <1>9 DEF followerVars
<1>10. QED
  BY <1>4, <1>5, <1>6, <1>7, <1>8, <1>9, Steps

-----------------------------------------------------------------------------
(* Where followWaypoints() is, and what its locals say there. *)

\* The loop, with a pose to deal with.
Routing == {"top", "cancelling", "spin_cancelled", "cancelled", "preempt", "accept",
            "feedback", "publish", "status", "abort", "spin"}

\* The locals belong to the goal that is held, if one still is, although the
\* executor takes the goal away and clients reuse theirs meanwhile.
PlaceInv ==
  /\ worker # "execute" => pc = "get_current_goal"
  /\ goal = NoGoal => goal_size = 0
  /\ pc # "get_current_goal" /\ goal # NoGoal /\ current # NoGoal
       => current = goal /\ goal_size = size[goal]
  /\ goal_index <= goal_size
  /\ pc = "empty" => goal # NoGoal /\ goal_size = 0
  /\ pc = "is_server_active" => goal_index = 0
  /\ pc \in {"get_current_goal", "is_server_active", "empty", "complete"} => new_goal
  /\ pc \in {"feedback", "publish", "status"} => ~new_goal
  /\ pc = "send" => goal_index < goal_size \/ (new_goal /\ goal_index = 0)
  /\ pc \in Routing => goal_index < goal_size
  /\ pc = "complete" => goal_index = goal_size /\ goal # NoGoal

\* A status that ends the current pose.
LEMMA StatusStep ==
  ASSUME check_status, LocalsTyped
  PROVE  \/ /\ pc' = "abort" /\ failed_ids' = failed_ids \cup {goal_index}
            /\ goal_index' = goal_index /\ (new_goal' <=> new_goal) /\ stop_on_failure
         \/ /\ Processed /\ pc' = IF IsLast THEN "complete" ELSE "spin"
            /\ goal_index' = goal_index + 1 /\ new_goal'
            /\ failed_ids' = IF goal_status = "FAILED" THEN failed_ids \cup {goal_index} ELSE failed_ids
         \/ /\ pc' = "spin" /\ ~Processed
            /\ goal_index' = goal_index /\ (new_goal' <=> new_goal) /\ failed_ids' = failed_ids
<1>1. PICK task \in (IF goal_status = "SUCCEEDED" THEN TaskOutcomes ELSE {TRUE}) :
        LET failed == goal_status = "FAILED"
            stops == stop_on_failure /\ (failed \/ ~task)
            done == Processed /\ ~stops IN
          /\ failed_ids' = IF failed \/ stops THEN failed_ids \cup {goal_index} ELSE failed_ids
          /\ goal_index' = IF done THEN goal_index + 1 ELSE goal_index
          /\ new_goal' = (new_goal \/ done)
          /\ Goto(IF stops THEN "abort"
                  ELSE IF done /\ IsLast THEN "complete" ELSE "spin")
  BY DEF check_status
<1> DEFINE failed == goal_status = "FAILED"
           stops == stop_on_failure /\ (failed \/ ~task)
           done == Processed /\ ~stops
<1>2. /\ failed_ids' = IF failed \/ stops THEN failed_ids \cup {goal_index} ELSE failed_ids
      /\ goal_index' = IF done THEN goal_index + 1 ELSE goal_index
      /\ new_goal' = (new_goal \/ done)
      /\ pc' = IF stops THEN "abort" ELSE IF done /\ IsLast THEN "complete" ELSE "spin"
  BY <1>1 DEF Goto
<1>3. CASE stops
  BY <1>2, <1>3
<1>4. CASE done
  BY <1>2, <1>4
<1>5. CASE ~stops /\ ~Processed
  <2>1. ~failed
    BY <1>5 DEF Processed
  <2>2. QED
    BY <1>2, <1>5, <2>1
<1>6. QED
  BY <1>3, <1>4, <1>5

LEMMA PlaceKept ==
  ASSUME ServerTyped, HandleInv, LocalsTyped, PlaceInv, [Next]_vars
  PROVE  PlaceInv'
<1> USE GoalsAssumption, LoopAssumption
<1>0. LocalsTyped'
  BY LocalsTypedKept
<1>1. ASSUME UNCHANGED <<pc, goal, goal_size, goal_index, new_goal, size>>,
             worker' = worker \/ pc = "get_current_goal",
             current' = current \/ current' = NoGoal \/ pc = "get_current_goal"
      PROVE  PlaceInv'
  BY <1>1 DEF PlaceInv, Routing
<1>2. CASE followWaypoints /\ UNCHANGED <<runnerVars, count>>
  <2>1. CASE get_current_goal
    <3>1. /\ worker' = "execute" /\ pc' = "is_server_active" /\ current' = current /\ size' = size
          /\ NewGoal(IF is_active(current) THEN current ELSE NoGoal)
      BY <2>1 DEF get_current_goal, Goto, At, handles
    <3>2. goal_index' = 0 /\ new_goal'
      BY <3>1 DEF NewGoal
    <3>3. /\ goal' = IF is_active(current) THEN current ELSE NoGoal
          /\ goal_size' = IF goal' = NoGoal THEN 0 ELSE size[goal']
      BY <3>1 DEF NewGoal
    <3>4. goal_index' <= goal_size'
      BY <1>0, <3>2 DEF LocalsTyped
    <3>5. QED
      BY <3>1, <3>2, <3>3, <3>4 DEF PlaceInv, Routing, HandleInv
  <2>2. ASSUME Return
        PROVE  PlaceInv'
    BY <2>2 DEF Return, NewGoal, PlaceInv, Routing
  <2>3. CASE is_server_active
    <3>1. ASSUME UNCHANGED locals,
                 Goto(IF goal = NoGoal THEN "crashed" ELSE IF goal_size = 0 THEN "empty" ELSE "top")
          PROVE  PlaceInv'
      <4>1. pc' \in {"crashed", "empty", "top"} /\ worker' = worker /\ worker = "execute"
        BY <2>3, <3>1 DEF Goto, is_server_active, At
      <4>2. pc' = "empty" => goal # NoGoal /\ goal_size = 0
        BY <3>1 DEF Goto
      <4>3. pc' = "top" => goal_size # 0
        BY <3>1 DEF Goto
      <4>4. pc = "is_server_active" /\ size' = size /\ current' = current
        BY <2>3 DEF is_server_active, At, handles
      <4>5. QED
        BY <3>1, <4>1, <4>2, <4>3, <4>4 DEF locals, PlaceInv, Routing, LocalsTyped
    <3>2. QED
      BY <2>2, <2>3, <3>1 DEF is_server_active
  <2>4. CASE check_cancel \/ is_preempt_requested
    <3>1. /\ pc \in {"top", "preempt"} /\ pc' \in {"cancelling", "preempt", "accept", "send"}
          /\ worker = "execute" /\ worker' = worker
      BY <2>4 DEF check_cancel, is_preempt_requested, At, Goto
    <3>2. UNCHANGED <<goal, goal_size, goal_index, new_goal, size, current>>
      BY <2>4 DEF check_cancel, is_preempt_requested, locals, handles
    <3>3. QED
      BY <3>1, <3>2 DEF PlaceInv, Routing
  <2>5. CASE preempt
    <3>1. /\ worker' = "execute" /\ pc' = "send" /\ size' = size
          /\ NewGoal(IF is_active(pending) THEN pending ELSE NoGoal)
      BY <2>5 DEF preempt, Goto, At
    <3>2. is_active(pending) => current' = pending
      BY <2>5 DEF preempt, accept_pending_goal
    <3>3. /\ goal' = IF is_active(pending) THEN pending ELSE NoGoal
          /\ goal_size' = IF goal' = NoGoal THEN 0 ELSE size[goal']
          /\ goal_index' = 0 /\ new_goal'
      BY <3>1 DEF NewGoal
    <3>4. goal_index' <= goal_size'
      BY <1>0, <3>3 DEF LocalsTyped
    <3>5. QED
      BY <3>1, <3>2, <3>3, <3>4 DEF PlaceInv, Routing
  <2>6. CASE send_goal
    <3>1. /\ pc = "send" /\ worker = "execute" /\ worker' = worker
          /\ UNCHANGED <<goal, goal_size, goal_index, size, current>>
      BY <2>6 DEF send_goal, At, Goto, handles
    <3>2. \/ pc' = "crashed" /\ goal_size = 0
          \/ pc' = "feedback" /\ ~new_goal' /\ ~new_goal
          \/ pc' = "feedback" /\ ~new_goal' /\ goal_size # 0
      BY <2>6 DEF send_goal, Goto
    <3>3. QED
      BY <3>1, <3>2 DEF PlaceInv, Routing, LocalsTyped
  <2>7. CASE publish_feedback
    <3>1. /\ pc \in {"feedback", "publish"} /\ pc' \in {"publish", "status", "crashed"}
          /\ worker = "execute" /\ worker' = worker
      BY <2>7 DEF publish_feedback, At, Goto
    <3>2. UNCHANGED <<goal, goal_size, goal_index, new_goal, size, current>>
      BY <2>7 DEF publish_feedback, locals, handles
    <3>3. QED
      BY <3>1, <3>2 DEF PlaceInv, Routing
  <2>8. CASE check_status
    <3>1. /\ pc = "status" /\ worker = "execute" /\ worker' = worker
          /\ UNCHANGED <<goal, goal_size, size, current>>
      BY <2>8 DEF check_status, At, Goto, handles
    <3>2. \/ pc' \in {"abort", "spin"} /\ goal_index' = goal_index
          \/ /\ pc' = IF IsLast THEN "complete" ELSE "spin"
             /\ goal_index' = goal_index + 1 /\ new_goal'
      BY <2>8, StatusStep
    <3>3. goal_index < goal_size /\ goal_index \in Nat /\ goal_size \in 0 .. MaxPoses
      BY <3>1 DEF PlaceInv, Routing, LocalsTyped
    <3>4. pc' = "complete" => goal_index' = goal_size /\ new_goal'
      BY <3>2, <3>3 DEF IsLast
    <3>5. pc' \in {"abort", "spin", "complete"}
      BY <3>2
    <3>6. pc' # "complete" => goal_index' < goal_size
      BY <3>2, <3>3 DEF IsLast
    <3>7. goal # NoGoal
      BY <3>3 DEF PlaceInv
    <3>8. goal_index' <= goal_size
      BY <3>2, <3>3
    <3>9. QED
      BY <3>1, <3>4, <3>5, <3>6, <3>7, <3>8 DEF PlaceInv, Routing
  <2>9. CASE finish
    BY <2>2, <2>9 DEF finish
  <2>10. CASE spin \/ spin_cancel
    <3>1. /\ pc \in {"spin", "cancelling", "spin_cancelled"}
          /\ worker = "execute" /\ worker' = worker
          /\ pc' \in {"top", "spin", "cancelling", "spin_cancelled", "cancelled", "blocked", "crashed"}
      BY <2>10 DEF spin, spin_cancel, At, Goto, goalResponseCallback, resultCallback
    <3>2. UNCHANGED <<goal, goal_size, goal_index, new_goal, size, current>>
      BY <2>10 DEF spin, spin_cancel, locals, handles
    <3>3. QED
      BY <3>1, <3>2 DEF PlaceInv, Routing
  <2>11. QED
    BY <1>2, <2>1, <2>3, <2>4, <2>5, <2>6, <2>7, <2>8, <2>9, <2>10 DEF followWaypoints
<1>3. CASE ServerStep /\ UNCHANGED <<followerVars, runnerVars>>
  <2>1. UNCHANGED <<pc, goal, goal_size, goal_index, new_goal, size>>
    BY <1>3 DEF followerVars
  <2>2. CASE work_tests \/ work_ended \/ work_exits
    BY <1>1, <2>1, <2>2 DEF work_tests, work_ended, work_exits, PlaceInv
  <2>3. ASSUME NEW g \in Goals, handle_goal(g)
        PROVE  PlaceInv'
    <3>1. \/ worker' = worker /\ current' = current
          \/ worker = "idle"
      BY <2>3 DEF handle_goal, is_running
    <3>2. QED
      BY <1>1, <2>1, <3>1 DEF PlaceInv
  <2>4. CASE deactivate_timeout
    BY <1>1, <2>1, <2>4 DEF deactivate_timeout, terminate_all, Reset
  <2>5. ASSUME UNCHANGED <<worker, current>>
        PROVE  PlaceInv'
    BY <1>1, <2>1, <2>5
  <2>6. QED
    BY <1>3, <2>2, <2>3, <2>4, <2>5
       DEF ServerStep, handle_cancel, deactivate_returns, activate, deactivate
<1>4. CASE dynamicParametersCallback /\ UNCHANGED runnerVars
  BY <1>1, <1>4 DEF dynamicParametersCallback, serverVars
<1>5. CASE NavStep /\ UNCHANGED <<runnerVars, serverVars>>
  <2>1. UNCHANGED navOnly
    BY <1>5 DEF NavStep, NavCancels, NavAccepts, NavEnds, NavRejects
  <2>2. QED
    BY <1>1, <1>5, <2>1 DEF navOnly, serverVars
<1>6. ASSUME NEW g \in Goals, NEW s \in {"requested", "none"}, NEW n \in 0 .. MaxPoses, ClientStep(g, s, n)
      PROVE  PlaceInv'
  <2>1. /\ UNCHANGED <<pc, goal, goal_size, goal_index, new_goal, worker, current>>
        /\ size' = [size EXCEPT ![g] = n] /\ ~is_active(g)
    BY <1>6 DEF ClientStep, GoalBecomes, locals
  <2>2. current # NoGoal => size'[current] = size[current]
    BY <2>1 DEF LocalsTyped, HandleInv, ServerTyped
  <2>3. QED
    BY <2>1, <2>2 DEF PlaceInv, Routing
<1>7. CASE UNCHANGED <<serverVars, followerVars>>
  BY <1>1, <1>7 DEF serverVars, followerVars
<1>8. QED
  BY <1>2, <1>3, <1>4, <1>5, <1>6, <1>7, Steps

-----------------------------------------------------------------------------
(* Poses and navigation goals. *)

\* Whatever is under way is known to the client.
NavInv == \A n \in NavIds : response[n] \in {"none", "sent", "rejected"} => nav[n] = "none"

\* Every pose before goal_index was reached or has failed; and a success that
\* is reported or still on its way is one for the pose at goal_index, whatever
\* is still under way for other poses and other goals.
ReachInv ==
  /\ \A k \in Nat : k < goal_index => k \in arrived \cup failed_ids
  /\ ~new_goal /\ goal_status = "SUCCEEDED" => goal_index \in arrived
  /\ ~new_goal /\ future # NoNav =>
       /\ response[future] = "sent" \/ future \in Driving => leg[future] = goal_index
       /\ nav[future] = "succeeded" => goal_index \in arrived

LEMMA NavKept ==
  ASSUME ServerTyped, HandleInv, LocalsTyped, NavTyped, NavInv, [Next]_vars
  PROVE  NavInv'
<1> USE FollowerAssumption
<1>1. CASE UNCHANGED <<response, nav>>
  BY <1>1 DEF NavInv
<1>2. CASE followWaypoints /\ UNCHANGED <<runnerVars, count>>
  <2>1. CASE send_goal
    <3>1. CASE UNCHANGED response
      BY <1>1, <2>1, <3>1 DEF send_goal
    <3>2. ASSUME NEW n \in NavIds, Released[n] = "none", response' = [Released EXCEPT ![n] = "sent"]
          PROVE  NavInv'
      <4>1. nav' = nav
        BY <2>1 DEF send_goal
      <4>2. /\ Released \in [NavIds -> {"none", "sent", "accepted", "rejected", "delivered"}]
            /\ \A m \in NavIds : Released[m] = response[m] \/ (Released[m] = "none" /\ nav[m] = "none")
        BY DEF Released, NavTyped
      <4>3. nav[n] = "none"
        BY <3>2, <4>2 DEF NavInv
      <4>4. QED
        BY <3>2, <4>1, <4>2, <4>3 DEF NavInv
    <3>3. QED
      BY <2>1, <3>1, <3>2 DEF send_goal
  <2>2. ASSUME NEW n \in NavIds, NEW l, goalResponseCallback(n, l)
        PROVE  NavInv'
    BY <2>2 DEF goalResponseCallback, Responses, NavInv, NavTyped
  <2>3. ASSUME NEW n \in NavIds, NEW l, resultCallback(n, l)
        PROVE  NavInv'
    <3>1. \/ UNCHANGED <<response, nav>>
          \/ /\ nav' = [nav EXCEPT ![n] = "none"]
             /\ response' = response \/ response' = [response EXCEPT ![n] = "none"]
      BY <2>3 DEF resultCallback
    <3>2. QED
      BY <1>1, <3>1 DEF NavInv, NavTyped
  <2>4. CASE spin
    BY <1>1, <2>2, <2>3, <2>4 DEF spin
  <2>5. CASE spin_cancel
    BY <1>1, <2>2, <2>3, <2>5 DEF spin_cancel
  <2>6. QED
    BY <1>1, <1>2, <2>1, <2>4, <2>5
       DEF followWaypoints, get_current_goal, is_server_active, check_cancel, is_preempt_requested,
           preempt, publish_feedback, check_status, finish, navVars
<1>3. CASE ServerStep /\ UNCHANGED <<followerVars, runnerVars>>
  BY <1>1, <1>3 DEF followerVars
<1>4. CASE dynamicParametersCallback /\ UNCHANGED runnerVars
  BY <1>1, <1>4 DEF dynamicParametersCallback
<1>5. CASE NavStep /\ UNCHANGED <<runnerVars, serverVars>>
  <2>1. CASE NavCancels
    BY <2>1 DEF NavCancels, NavInv, NavTyped, Driving
  <2>2. ASSUME NEW n \in NavIds, NavAccepts(n)
        PROVE  NavInv'
    BY <2>2 DEF NavAccepts, NavInv, NavTyped, Driving
  <2>3. ASSUME NEW n \in NavIds, NavEnds(n)
        PROVE  NavInv'
    <3>1. /\ response' = response
          /\ nav[n] \in {"driving", "canceling"}
          /\ \E s : nav' = [nav EXCEPT ![n] = s]
      BY <2>3 DEF NavEnds, Driving
    <3>2. QED
      BY <3>1 DEF NavInv, NavTyped
  <2>4. ASSUME NEW n \in NavIds, NavRejects(n)
        PROVE  NavInv'
    BY <2>4 DEF NavRejects, NavInv, NavTyped
  <2>5. QED
    BY <1>5, <2>1, <2>2, <2>3, <2>4 DEF NavStep
<1>6. ASSUME NEW g \in Goals, NEW s \in {"requested", "none"}, NEW n \in 0 .. MaxPoses, ClientStep(g, s, n)
      PROVE  NavInv'
  BY <1>1, <1>6 DEF ClientStep, GoalBecomes, navVars
<1>7. CASE UNCHANGED <<serverVars, followerVars>>
  BY <1>1, <1>7 DEF followerVars
<1>8. QED
  BY <1>2, <1>3, <1>4, <1>5, <1>6, <1>7, Steps

LEMMA ReachKept ==
  ASSUME ServerTyped, HandleInv, LocalsTyped, PlaceInv, NavTyped, NavInv, ReachInv, [Next]_vars
  PROVE  ReachInv'
<1> USE FollowerAssumption
<1> DEFINE Past == \A k \in Nat : k < goal_index => k \in arrived \cup failed_ids
           Reported == ~new_goal /\ goal_status = "SUCCEEDED" => goal_index \in arrived
           Underway ==
             ~new_goal /\ future # NoNav =>
               /\ response[future] = "sent" \/ future \in Driving => leg[future] = goal_index
               /\ nav[future] = "succeeded" => goal_index \in arrived
<1>0. Past /\ Reported /\ Underway
  BY DEF ReachInv
<1>s. SUFFICES Past' /\ Reported' /\ Underway'
  BY DEF ReachInv
<1>1. CASE UNCHANGED <<goal_index, arrived, failed_ids, new_goal, goal_status, future, response, nav, leg>>
  BY <1>0, <1>1 DEF Driving
<1>2. ASSUME NEW g, NewGoal(g)
      PROVE  Past' /\ Reported' /\ Underway'
  BY <1>2 DEF NewGoal
<1>3. CASE followWaypoints /\ UNCHANGED <<runnerVars, count>>
  <2>1. CASE get_current_goal \/ preempt
    BY <1>2, <2>1 DEF get_current_goal, preempt
  <2>2. CASE is_server_active
    BY <1>1, <1>2, <2>2 DEF is_server_active, Return, locals, ghosts, navVars
  <2>3. CASE finish
    BY <1>2, <2>3 DEF finish, Return
  <2>4. CASE send_goal
    <3>1. CASE ~new_goal \/ goal_size = 0
      BY <1>1, <2>4, <3>1 DEF send_goal
    <3>2. CASE new_goal /\ goal_size # 0
      <4>1. PICK n \in NavIds :
              /\ Released[n] = "none"
              /\ response' = [Released EXCEPT ![n] = "sent"]
              /\ future' = n /\ goal_status' = "PROCESSING" /\ ~new_goal'
              /\ leg' = [leg EXCEPT ![n] = goal_index]
        BY <2>4, <3>2 DEF send_goal
      <4>2. UNCHANGED <<goal_index, failed_ids, nav, arrived>>
        BY <2>4 DEF send_goal
      <4>3. Past' /\ Reported'
        BY <1>0, <4>1, <4>2
      <4>4. nav[n] = "none"
        BY <4>1 DEF Released, NavInv, NavTyped
      <4>5. leg'[n] = goal_index
        BY <4>1 DEF NavTyped
      <4>6. QED
        BY <4>1, <4>2, <4>3, <4>4, <4>5
    <3>3. QED
      BY <3>1, <3>2
  <2>5. CASE check_status
    <3>1. /\ pc = "status" /\ ~new_goal
          /\ UNCHANGED <<arrived, goal_status, future, response, nav, leg>>
      BY <2>5 DEF check_status, At, navVars, ghosts, PlaceInv
    <3>2. CASE goal_index' = goal_index /\ (new_goal' <=> new_goal) /\ failed_ids \subseteq failed_ids'
      BY <1>0, <3>1, <3>2 DEF Driving
    <3>3. CASE /\ Processed /\ goal_index' = goal_index + 1 /\ new_goal'
               /\ failed_ids' = IF goal_status = "FAILED" THEN failed_ids \cup {goal_index} ELSE failed_ids
      <4>1. goal_index \in arrived \cup failed_ids'
        BY <1>0, <3>1, <3>3 DEF Processed
      <4>2. \A k \in Nat : k < goal_index + 1 => k < goal_index \/ k = goal_index
        BY DEF LocalsTyped
      <4>3. Past'
        BY <1>0, <3>1, <3>3, <4>1, <4>2
      <4>4. QED
        BY <3>3, <4>3
    <3>4. QED
      BY <2>5, <3>2, <3>3, StatusStep
  <2>6. ASSUME UNCHANGED <<goal_index, arrived, failed_ids, new_goal, leg>>,
               NEW n \in NavIds, NEW l, goalResponseCallback(n, l)
        PROVE  Past' /\ Reported' /\ Underway'
    <3>1. nav' = nav /\ n \in Responses
      BY <2>6 DEF goalResponseCallback
    <3>2. CASE response' = [response EXCEPT ![n] = "delivered"] /\ UNCHANGED <<future, goal_status>>
      <4>1. \A m \in NavIds : response'[m] = "sent" => response[m] = "sent"
        BY <3>2 DEF NavTyped
      <4>2. QED
        BY <1>0, <2>6, <3>1, <3>2, <4>1 DEF Driving, NavTyped
    <3>3. CASE /\ response' = [response EXCEPT ![n] = "none"]
               /\ future' = IF future = n THEN NoNav ELSE future
               /\ goal_status' = "FAILED"
      <4>1. \A m \in NavIds : response'[m] = "sent" => response[m] = "sent"
        BY <3>3 DEF NavTyped
      <4>2. future' \in {NoNav, future}
        BY <3>3
      <4>3. QED
        BY <1>0, <2>6, <3>1, <3>3, <4>1, <4>2 DEF Driving, NavTyped
    <3>4. QED
      BY <2>6, <3>2, <3>3 DEF goalResponseCallback
  <2>7. ASSUME UNCHANGED <<goal_index, arrived, failed_ids, new_goal, leg>>,
               NEW n \in NavIds, NEW l, resultCallback(n, l)
        PROVE  Past' /\ Reported' /\ Underway'
    <3>1. future' = future
      BY <2>7 DEF resultCallback
    <3>2. CASE UNCHANGED <<response, nav, goal_status>>
      BY <1>1, <2>7, <3>1, <3>2
    <3>3. CASE /\ nav' = [nav EXCEPT ![n] = "none"] /\ n = future /\ future # NoNav
               /\ goal_status' = StatusOf(nav[n]) /\ response' = response
      <4>1. goal_status' = "SUCCEEDED" => nav[future] = "succeeded"
        BY <3>3 DEF StatusOf
      <4>2. Reported'
        BY <1>0, <2>7, <3>3, <4>1
      <4>3. \A m \in NavIds : nav'[m] \in {nav[m], "none"}
        BY <3>3 DEF NavTyped
      <4>4. Underway'
        BY <1>0, <2>7, <3>1, <3>3, <4>3 DEF Driving
      <4>5. QED
        BY <1>0, <2>7, <4>2, <4>4
    <3>4. CASE /\ nav' = [nav EXCEPT ![n] = "none"] /\ goal_status' = goal_status
               /\ response' = [response EXCEPT ![n] = "none"]
      <4>1. \A m \in NavIds : nav'[m] \in {nav[m], "none"} /\ response'[m] \in {response[m], "none"}
        BY <3>4 DEF NavTyped
      <4>2. QED
        BY <1>0, <2>7, <3>1, <3>4, <4>1 DEF Driving, NavTyped
    <3>5. QED
      BY <2>7, <3>2, <3>3, <3>4 DEF resultCallback, IsCurrentGoals
  <2>8. CASE spin \/ spin_cancel
    <3>1. UNCHANGED <<goal_index, arrived, failed_ids, new_goal, leg>>
      BY <2>8 DEF spin, spin_cancel, locals, ghosts
    <3>2. CASE UNCHANGED <<response, nav, future, goal_status>>
      BY <1>1, <3>1, <3>2
    <3>3. QED
      BY <2>6, <2>7, <2>8, <3>1, <3>2 DEF spin, spin_cancel
  <2>9. CASE check_cancel \/ is_preempt_requested \/ publish_feedback
    BY <1>1, <2>9 DEF check_cancel, is_preempt_requested, publish_feedback, locals, ghosts, navVars
  <2>10. QED
    BY <1>3, <2>1, <2>2, <2>3, <2>4, <2>5, <2>8, <2>9 DEF followWaypoints
<1>4. CASE ServerStep /\ UNCHANGED <<followerVars, runnerVars>>
  BY <1>1, <1>4 DEF followerVars
<1>5. CASE dynamicParametersCallback /\ UNCHANGED runnerVars
  BY <1>1, <1>5 DEF dynamicParametersCallback
<1>6. CASE NavStep /\ UNCHANGED <<runnerVars, serverVars>>
  <2>0. UNCHANGED <<goal_index, failed_ids, new_goal, goal_status, future>>
    BY <1>6 DEF NavStep, NavCancels, NavAccepts, NavEnds, NavRejects, navOnly
  <2>1. CASE NavCancels
    <3>1. /\ UNCHANGED <<response, leg, arrived>>
          /\ nav' = [n \in NavIds |-> IF n \in Driving THEN "canceling" ELSE nav[n]]
      BY <2>1 DEF NavCancels, ghosts
    <3>2. \A n \in NavIds : /\ n \in Driving' <=> n \in Driving
                            /\ nav'[n] = "succeeded" => nav[n] = "succeeded"
      BY <3>1 DEF Driving
    <3>3. QED
      BY <1>0, <2>0, <3>1, <3>2 DEF NavTyped
  <2>2. ASSUME NEW n \in NavIds, NavAccepts(n)
        PROVE  Past' /\ Reported' /\ Underway'
    <3>1. /\ response[n] = "sent" /\ response' = [response EXCEPT ![n] = "accepted"]
          /\ nav' = [m \in NavIds |-> IF m = n THEN "driving" ELSE IF m \in Driving THEN "aborted" ELSE nav[m]]
          /\ leg' = [m \in NavIds |-> IF m \in Driving THEN NoLeg ELSE leg[m]]
          /\ arrived' = arrived
      BY <2>2 DEF NavAccepts
    <3>2. n \notin Driving
      BY <3>1 DEF NavInv, Driving
    <3>3. \A m \in NavIds :
            /\ response'[m] = "sent" => response[m] = "sent" /\ m \notin Driving
            /\ m \in Driving' => m = n
            /\ m \notin Driving => leg'[m] = leg[m]
            /\ nav'[m] = "succeeded" => nav[m] = "succeeded"
      BY <3>1 DEF NavTyped, Driving, NavInv
    <3>4. Past' /\ Reported'
      BY <1>0, <2>0, <3>1
    <3>5. Underway'
      BY <1>0, <2>0, <3>1, <3>2, <3>3 DEF NavTyped
    <3>6. QED
      BY <3>4, <3>5
  <2>3. ASSUME NEW n \in NavIds, NavEnds(n)
        PROVE  Past' /\ Reported' /\ Underway'
    <3>1. PICK s \in {"succeeded", IF nav[n] = "canceling" THEN "canceled" ELSE "aborted"} :
            /\ nav' = [nav EXCEPT ![n] = s]
            /\ arrived' = IF s = "succeeded" /\ leg[n] # NoLeg THEN arrived \cup {leg[n]} ELSE arrived
      BY <2>3 DEF NavEnds
    <3>2. n \in Driving /\ leg' = [leg EXCEPT ![n] = NoLeg] /\ response' = response
      BY <2>3 DEF NavEnds
    <3>3. arrived \subseteq arrived'
      BY <3>1
    <3>4. Past' /\ Reported'
      BY <1>0, <2>0, <3>3
    <3>5. CASE ~new_goal /\ future = n
      <4>1. leg[n] = goal_index /\ n # NoNav
        BY <1>0, <3>2, <3>5 DEF Driving
      <4>2. goal_index # NoLeg => (nav'[n] = "succeeded" => goal_index \in arrived')
        BY <3>1, <4>1 DEF NavTyped
      <4>3. n \notin Driving' /\ response'[n] # "sent"
        BY <3>1, <3>2 DEF NavTyped, Driving, NavInv
      <4>4. goal_index # NoLeg
        BY DEF PlaceInv, LocalsTyped, NoLeg
      <4>5. QED
        BY <2>0, <3>4, <3>5, <4>2, <4>3, <4>4
    <3>6. CASE new_goal \/ future # n
      <4>1. \A m \in NavIds : m # n => nav'[m] = nav[m] /\ leg'[m] = leg[m]
        BY <3>1, <3>2 DEF NavTyped
      <4>2. Underway'
        BY <1>0, <2>0, <3>2, <3>3, <3>6, <4>1 DEF Driving, NavTyped
      <4>3. QED
        BY <3>4, <4>2
    <3>7. QED
      BY <3>5, <3>6
  <2>4. ASSUME NEW n \in NavIds, NavRejects(n)
        PROVE  Past' /\ Reported' /\ Underway'
    <3>1. /\ response[n] = "sent" /\ response' = [response EXCEPT ![n] = "rejected"]
          /\ leg' = [leg EXCEPT ![n] = NoLeg] /\ UNCHANGED <<nav, arrived>>
      BY <2>4 DEF NavRejects
    <3>2. \A m \in NavIds :
            /\ response'[m] = "sent" => response[m] = "sent" /\ m # n
            /\ m # n => leg'[m] = leg[m]
      BY <3>1 DEF NavTyped
    <3>3. n \notin Driving /\ Driving' = Driving
      BY <3>1 DEF NavInv, Driving
    <3>4. QED
      BY <1>0, <2>0, <3>1, <3>2, <3>3 DEF NavTyped
  <2>5. QED
    BY <1>6, <2>1, <2>2, <2>3, <2>4 DEF NavStep
<1>7. ASSUME NEW g \in Goals, NEW s \in {"requested", "none"}, NEW n \in 0 .. MaxPoses, ClientStep(g, s, n)
      PROVE  Past' /\ Reported' /\ Underway'
  BY <1>1, <1>7 DEF ClientStep, GoalBecomes, navVars, ghosts, locals
<1>8. CASE UNCHANGED <<serverVars, followerVars>>
  BY <1>1, <1>8 DEF followerVars
<1>9. QED
  BY <1>3, <1>4, <1>5, <1>6, <1>7, <1>8, Steps

\* The only step by which a goal succeeds is the end of followWaypoints(), at a
\* place where the locals are this goal's and no pose is left.
LEMMA SuccessIsReached ==
  ASSUME ServerTyped, HandleInv, LocalsTyped, PlaceInv, ReachInv, [Next]_vars,
         NEW g \in Goals, status[g] \in {"executing", "canceling"}, status'[g] = "succeeded"
  PROVE  \A k \in 0 .. size[g] - 1 : k \in arrived \/ k \in missed'[g]
<1> USE GoalsAssumption, LoopAssumption
<1>0. is_active(g)
  BY DEF is_active
<1>1. status' # status
  BY DEF ServerTyped
<1>2. ASSUME NEW S, status' = Terminated(S)
      PROVE  FALSE
  BY <1>0, <1>2, TerminatedStatus
<1>3. ~accept_pending_goal
  BY <1>1 DEF accept_pending_goal, ServerTyped, handles
<1>4. CASE followWaypoints /\ UNCHANGED <<runnerVars, count>>
  <2>1. CASE finish
    <3>1. succeeded_current
      BY <1>2, <2>1 DEF finish, terminate_current, terminate_all
    <3>2. g = current /\ is_active(current)
      BY <3>1 DEF succeeded_current, ServerTyped
    <3>3. pc \in {"empty", "complete"} /\ goal # NoGoal
      BY <1>2, <2>1 DEF finish, terminate_current, terminate_all, At, PlaceInv
    <3>4. goal_size = size[g]
      BY <3>2, <3>3 DEF PlaceInv
    <3>5. CASE pc = "empty"
      BY <3>4, <3>5 DEF PlaceInv
    <3>6. CASE pc = "complete"
      <4>1. goal_index = size[g]
        BY <3>4, <3>6 DEF PlaceInv
      <4>2. missed' = [missed EXCEPT ![g] = failed_ids]
        BY <2>1, <3>2, <3>6 DEF finish, At, Answers
      <4>3. missed'[g] = failed_ids
        BY <4>2 DEF LocalsTyped
      <4>4. \A k \in 0 .. size[g] - 1 : k \in Nat /\ k < size[g]
        BY DEF LocalsTyped
      <4>5. QED
        BY <4>1, <4>3, <4>4 DEF ReachInv
    <3>7. QED
      BY <3>3, <3>5, <3>6
  <2>2. CASE preempt
    BY <1>3, <2>2 DEF preempt
  <2>3. CASE UNCHANGED handles
    BY <1>1, <2>3 DEF handles
  <2>4. QED
    BY <1>4, <2>1, <2>2, <2>3
       DEF followWaypoints, get_current_goal, is_server_active, check_cancel, is_preempt_requested,
           send_goal, publish_feedback, check_status, spin, spin_cancel
<1>5. CASE ServerStep /\ UNCHANGED <<followerVars, runnerVars>>
  <2>1. CASE status' = status
    BY <1>1, <2>1
  <2>2. CASE work_ended
    BY <1>1, <1>2, <1>3, <2>2 DEF work_ended, terminate_all, terminate_current, handles
  <2>3. CASE deactivate_timeout
    BY <1>2, <2>3 DEF deactivate_timeout, terminate_all
  <2>4. ASSUME NEW h \in Goals, handle_goal(h)
        PROVE  FALSE
    <3>1. \/ status' = [status EXCEPT ![h] = "rejected"]
          \/ status' = [Terminated({pending}) EXCEPT ![h] = "executing"]
      BY <2>4 DEF handle_goal
    <3>2. QED
      BY <1>0, <3>1, TerminatedStatus DEF ServerTyped
  <2>5. ASSUME NEW h \in Goals, handle_cancel(h)
        PROVE  FALSE
    BY <2>5 DEF handle_cancel, ServerTyped
  <2>6. QED
    BY <1>5, <2>1, <2>2, <2>3, <2>4, <2>5
       DEF ServerStep, work_tests, work_exits, deactivate_returns, activate, deactivate, handles
<1>6. CASE dynamicParametersCallback /\ UNCHANGED runnerVars
  BY <1>1, <1>6 DEF dynamicParametersCallback, serverVars
<1>7. CASE NavStep /\ UNCHANGED <<runnerVars, serverVars>>
  BY <1>1, <1>7 DEF serverVars
<1>8. ASSUME NEW h \in Goals, NEW s \in {"requested", "none"}, NEW n \in 0 .. MaxPoses, ClientStep(h, s, n)
      PROVE  FALSE
  BY <1>0, <1>8 DEF ClientStep, GoalBecomes, ServerTyped
<1>9. CASE UNCHANGED <<serverVars, followerVars>>
  BY <1>1, <1>9 DEF serverVars
<1>10. QED
  BY <1>4, <1>5, <1>6, <1>7, <1>8, <1>9, Steps

\* One inductive invariant for the follower's route.
RouteInv == ServerTyped /\ HandleInv /\ LocalsTyped /\ PlaceInv /\ NavTyped /\ NavInv /\ ReachInv

LEMMA RouteInit == Init => RouteInv
<1> SUFFICES ASSUME Init PROVE RouteInv
  OBVIOUS
<1> USE GoalsAssumption, LoopAssumption, FollowerAssumption
<1>1. ServerTyped /\ HandleInv
  BY DEF Init, ServerTyped, HandleInv, Statuses
<1>2. LocalsTyped
  BY DEF Init, LocalsTyped
<1>3. PlaceInv
  BY DEF Init, PlaceInv, Routing
<1>4. NavTyped /\ NavInv
  BY DEF Init, NavTyped, NavInv, NoLeg
<1>5. ReachInv
  BY DEF Init, ReachInv
<1>6. QED
  BY <1>1, <1>2, <1>3, <1>4, <1>5 DEF RouteInv

LEMMA RouteStep == RouteInv /\ [Next]_vars => RouteInv'
  BY HandlesKept, LocalsTypedKept, PlaceKept, NavTypedKept, NavKept, ReachKept DEF RouteInv

LEMMA RouteInvariant == Spec => []RouteInv
  BY RouteInit, RouteStep, PTL DEF Spec

\* For goals with any number of poses, any number of navigation goals under way
\* and any number of preemptions, cancellations, rejections and deactivations:
\* a goal is reported succeeded only if each of its poses was reached or is
\* reported missed (followWaypoints, resultCallback).
THEOREM PosesAreReachedOrMissed == Spec => ReachedOrMissed
<1>1. RouteInv /\ [Next]_vars
        => [\A g \in Goals : status[g] \in {"executing", "canceling"} /\ status'[g] = "succeeded" =>
              \A k \in 0 .. size[g] - 1 : k \in arrived \/ k \in missed'[g]]_vars
  BY SuccessIsReached DEF RouteInv
<1>2. QED
  BY <1>1, RouteInvariant, PTL DEF Spec, ReachedOrMissed

-----------------------------------------------------------------------------
(* The runner alone. *)

Alone == count["disturbance"] = 0

\* Nothing of the current navigation goal is under way.
FutureDone ==
  \/ future = NoNav
  \/ response[future] = "none"
  \/ response[future] = "delivered" /\ nav[future] = "none"

\* The server's part: the worker executes only the runner's goal, and nothing
\* is pending while it does.
AloneServer ==
  /\ status[Operator] = "none"
  /\ status[Runner] # "canceling"
  /\ status[Runner] # "none" => size[Runner] = 2
  /\ executor = "idle"
  /\ ~stop_execution
  /\ ~stop_on_failure
  /\ worker # "idle" => server_active
  /\ worker \in {"loop", "execute"} => current = Runner /\ ~preempt_requested

\* The follower's part: the next navigation goal is sent only when the one
\* before has ended, so no answer meets another goal's.
AloneFollower ==
  /\ pc # "get_current_goal" => goal = Runner
  /\ pc \notin {"empty", "cancelling", "spin_cancelled", "cancelled", "accept", "abort",
                "blocked", "crashed"}
  /\ \A n \in NavIds : response[n] # "none" => n = future /\ response[n] # "rejected"
  /\ new_goal \/ Processed => FutureDone

AloneInv == CountTyped /\ (Alone => AloneServer /\ AloneFollower)

LEMMA CountStep ==
  ASSUME CountTyped, [Next]_vars
  PROVE  CountTyped' /\ (Alone' => Alone)
<1>1. ASSUME NEW e \in Events, Happens(e)
      PROVE  CountTyped' /\ (Alone' => Alone)
  <2>1. count' = [count EXCEPT ![e] = @ + 1]
    BY <1>1 DEF Happens
  <2>2. "disturbance" \in Events
    BY DEF Events
  <2>3. count'["disturbance"] \in {count["disturbance"], count["disturbance"] + 1}
    BY <2>1, <2>2 DEF CountTyped
  <2>4. QED
    BY <2>1, <2>2, <2>3 DEF CountTyped, Alone
<1>2. CASE UNCHANGED count
  BY <1>2 DEF CountTyped, Alone
<1>3. "disturbance" \in Events /\ "click" \in Events /\ "estimate" \in Events
  BY DEF Events
<1>4. QED
  BY <1>1, <1>2, <1>3
     DEF Next, vars, Follower, Executor, Requests, Navigation, Rejections, RunnerCallbacks,
         initialpose_cb, waypoints_marker_cb, amcl_pose_cb, others, Run, wait_for_stable_waypoints,
         get_locked_loop_start, get_result, TimePasses, OperatorGoal

\* The steps that are no disturbance.
LEMMA AloneSteps ==
  ASSUME ServerTyped, HandleInv, CountTyped, [Next]_vars, Alone'
  PROVE  \/ followWaypoints /\ UNCHANGED <<runnerVars, count>>
         \/ /\ \/ work_tests \/ work_ended \/ work_exits \/ activate
               \/ deactivate_timeout \/ deactivate_returns
               \/ \E g \in Goals : handle_goal(g)
            /\ UNCHANGED followerVars
         \/ /\ NavCancels \/ \E n \in NavIds : NavAccepts(n) \/ NavEnds(n)
            /\ UNCHANGED serverVars
         \/ ~is_active(Runner) /\ (GoalBecomes(Runner, "requested", 2) \/ GoalBecomes(Runner, "none", 0))
         \/ UNCHANGED <<serverVars, followerVars>>
<1>1. ~Happens("disturbance")
  <2>1. SUFFICES ASSUME Happens("disturbance") PROVE FALSE
    OBVIOUS
  <2>2. count' = [count EXCEPT !["disturbance"] = @ + 1]
    BY <2>1 DEF Happens
  <2>3. "disturbance" \in Events
    BY DEF Events
  <2>4. count'["disturbance"] = count["disturbance"] + 1 /\ count["disturbance"] \in Nat
    BY <2>2, <2>3 DEF CountTyped
  <2>5. QED
    BY <2>4 DEF Alone
<1>2. CASE Follower
  BY <1>2 DEF Follower, work
<1>3. CASE Executor
  BY <1>3 DEF Executor
<1>4. CASE Requests \/ Rejections \/ \E n \in 0 .. 1 : OperatorGoal(n)
  BY <1>1, <1>4 DEF Requests, Rejections, OperatorGoal
<1>5. CASE Navigation
  BY <1>5 DEF Navigation, NavCancels, NavAccepts, NavEnds
<1>6. CASE RunnerCallbacks \/ TimePasses \/ wait_for_stable_waypoints
  BY <1>6 DEF RunnerCallbacks, TimePasses, initialpose_cb, waypoints_marker_cb, amcl_pose_cb, others,
              followerVars, wait_for_stable_waypoints
<1>7. CASE get_locked_loop_start
  <2>1. ~is_active(Runner)
    BY <1>7 DEF get_locked_loop_start, HandleInv, is_active
  <2>2. QED
    BY <1>7, <2>1 DEF get_locked_loop_start, Request
<1>8. CASE get_result
  <2>1. ~is_active(Runner)
    BY <1>8 DEF get_result, is_active, Terminal
  <2>2. QED
    BY <1>8, <2>1 DEF get_result, Forget
<1>9. CASE UNCHANGED vars
  BY <1>9 DEF vars
<1>10. QED
  BY <1>2, <1>3, <1>4, <1>5, <1>6, <1>7, <1>8, <1>9 DEF Next, Run

\* What the worker finds while it executes the runner's goal.
LEMMA AloneExecutes ==
  ASSUME ServerTyped, HandleInv, PlaceInv, AloneServer, AloneFollower, worker = "execute"
  PROVE  /\ current = Runner /\ is_active(Runner) /\ size[Runner] = 2
         /\ server_active /\ ~preempt_requested /\ ~is_cancel_requested
         /\ pc # "get_current_goal" => goal = Runner /\ goal_size = 2
<1> USE GoalsAssumption, LoopAssumption
<1>1. Runner # NoGoal /\ Runner \in Goals /\ Operator \in Goals
  OBVIOUS
<1>2. current = Runner /\ ~preempt_requested /\ server_active
  BY DEF AloneServer
<1>3. is_active(Runner)
  BY <1>1, <1>2 DEF HandleInv
<1>4. size[Runner] = 2
  BY <1>3 DEF AloneServer, is_active
<1>5. ~is_cancel_requested
  <2>1. pending # NoGoal => pending \in {Runner, Operator}
    BY DEF ServerTyped
  <2>2. QED
    BY <1>2, <2>1 DEF is_cancel_requested, AloneServer
<1>6. pc # "get_current_goal" => goal = Runner /\ goal_size = 2
  BY <1>1, <1>2, <1>4 DEF AloneFollower, PlaceInv
<1>7. QED
  BY <1>2, <1>3, <1>4, <1>5, <1>6

LEMMA AloneServerKept ==
  ASSUME RouteInv, CountTyped, AloneServer, AloneFollower, [Next]_vars, Alone'
  PROVE  AloneServer'
<1> USE GoalsAssumption, LoopAssumption
<1>0. ServerTyped /\ HandleInv /\ PlaceInv /\ LocalsTyped
  BY DEF RouteInv
<1>1. Runner \in Goals /\ Operator \in Goals /\ Runner # Operator /\ Goals = {Runner, Operator}
      /\ Runner # NoGoal /\ Operator # NoGoal
  OBVIOUS
<1>2. \A g \in Goals : is_active(g) => g = Runner
  BY <1>1 DEF AloneServer, is_active
<1>3. CASE UNCHANGED <<serverVars, size, stop_on_failure>>
  BY <1>3 DEF serverVars, AloneServer
<1>4. CASE followWaypoints /\ UNCHANGED <<runnerVars, count>>
  <2>0. worker = "execute"
    BY <1>4 DEF followWaypoints, get_current_goal, is_server_active, check_cancel, is_preempt_requested,
                preempt, send_goal, publish_feedback, check_status, finish, spin, spin_cancel, At
  <2>1. UNCHANGED <<size, stop_on_failure>> /\ UNCHANGED switches
    BY <1>4 DEF followWaypoints, get_current_goal, is_server_active, check_cancel, is_preempt_requested,
                preempt, send_goal, publish_feedback, check_status, finish, spin, spin_cancel
  <2>2. CASE finish
    <3>1. succeeded_current /\ worker' = "ended"
      BY <2>2, <1>0 DEF finish, At, Return, AloneFollower
    <3>2. status' = [status EXCEPT ![Runner] = "succeeded"]
      BY <1>0, <2>0, <3>1, AloneExecutes DEF succeeded_current
    <3>3. status'[Runner] = "succeeded" /\ status'[Operator] = status[Operator]
      BY <1>0, <1>1, <3>2 DEF ServerTyped
    <3>4. size'[Runner] = 2
      BY <1>0, <2>0, <2>1, AloneExecutes
    <3>5. QED
      BY <2>0, <2>1, <3>1, <3>3, <3>4 DEF AloneServer, switches
  <2>3. CASE preempt
    BY <2>3 DEF preempt, At, AloneFollower
  <2>4. CASE is_server_active
    <3>1. worker' = worker /\ UNCHANGED handles
      BY <1>0, <2>0, <2>4, AloneExecutes DEF is_server_active, Goto
    <3>2. QED
      BY <2>1, <3>1 DEF AloneServer, handles, switches
  <2>5. CASE UNCHANGED handles /\ worker' = worker
    BY <2>1, <2>5 DEF AloneServer, handles, switches
  <2>6. ASSUME NEW n, NEW l, goalResponseCallback(n, l) \/ resultCallback(n, l)
        PROVE  worker' = worker
    BY <2>6 DEF goalResponseCallback, resultCallback, Goto
  <2>7. QED
    BY <1>4, <2>2, <2>3, <2>4, <2>5, <2>6
       DEF followWaypoints, get_current_goal, check_cancel, is_preempt_requested,
           send_goal, publish_feedback, check_status, spin, spin_cancel, Goto
<1>5. ASSUME UNCHANGED followerVars,
             \/ work_tests \/ work_ended \/ work_exits \/ activate
             \/ deactivate_timeout \/ deactivate_returns
             \/ \E g \in Goals : handle_goal(g)
      PROVE  AloneServer'
  <2>1. UNCHANGED <<size, stop_on_failure>>
    BY <1>5 DEF followerVars
  <2>2. CASE work_tests \/ work_exits
    BY <2>1, <2>2 DEF work_tests, work_exits, handles, switches, AloneServer
  <2>3. CASE work_ended
    <3>1. UNCHANGED switches /\ worker = "ended" /\ ~stop_execution /\ server_active
      BY <2>3 DEF work_ended, AloneServer
    <3>2. CASE is_active(current)
      <4>1. terminate_current /\ worker' = "exiting"
        BY <2>3, <3>1, <3>2 DEF work_ended
      <4>2. status' = Terminated({current})
        BY <4>1 DEF terminate_current
      <4>3. /\ status'[Operator] = status[Operator]
            /\ status'[Runner] \in {status[Runner], "aborted"}
        BY <1>1, <4>2 DEF Terminated, AloneServer, is_active
      <4>4. current = Runner
        BY <1>0, <1>2, <3>2 DEF is_active, ServerTyped
      <4>5. size[Runner] = 2
        BY <3>2, <4>4 DEF AloneServer, is_active
      <4>6. QED
        BY <2>1, <3>1, <4>1, <4>3, <4>5 DEF AloneServer, switches
    <3>3. CASE ~is_active(current) /\ is_active(pending)
      <4>1. accept_pending_goal /\ worker' = "loop"
        BY <2>3, <3>1, <3>3 DEF work_ended
      <4>2. status' = status /\ current' = pending /\ ~preempt_requested'
        BY <3>3, <4>1 DEF accept_pending_goal
      <4>3. pending = Runner
        BY <1>0, <1>2, <3>3 DEF is_active, ServerTyped
      <4>4. QED
        BY <2>1, <3>1, <4>1, <4>2, <4>3 DEF AloneServer, switches
    <3>4. CASE ~is_active(current) /\ ~is_active(pending)
      BY <2>1, <2>3, <3>1, <3>4 DEF work_ended, AloneServer, handles, switches
    <3>5. QED
      BY <3>2, <3>3, <3>4
  <2>4. CASE activate
    BY <2>1, <2>4 DEF activate, AloneServer
  <2>5. CASE deactivate_timeout \/ deactivate_returns
    BY <2>5 DEF deactivate_timeout, deactivate_returns, AloneServer
  <2>6. ASSUME NEW g \in Goals, handle_goal(g)
        PROVE  AloneServer'
    <3>1. g = Runner /\ status[Runner] = "requested" /\ UNCHANGED switches
      BY <1>1, <2>6 DEF handle_goal, AloneServer
    <3>2. \A h \in Goals : ~is_active(h)
      BY <1>2, <3>1 DEF is_active
    <3>3. current = NoGoal /\ pending = NoGoal /\ ~preempt_requested
      BY <1>0, <3>2 DEF HandleInv, ServerTyped
    <3>4. worker \notin {"loop", "execute"} /\ size[Runner] = 2
      BY <1>1, <3>1, <3>3 DEF AloneServer
    <3>5. CASE ~server_active
      <4>1. /\ status' = [status EXCEPT ![Runner] = "rejected"]
            /\ UNCHANGED <<current, pending, preempt_requested, worker>>
        BY <2>6, <3>1, <3>5 DEF handle_goal
      <4>2. status'[Runner] = "rejected" /\ status'[Operator] = status[Operator]
        BY <1>0, <1>1, <4>1 DEF ServerTyped
      <4>3. QED
        BY <2>1, <3>1, <3>4, <4>1, <4>2 DEF AloneServer, switches
    <3>6. CASE server_active
      <4>1. /\ status' = [Terminated({pending}) EXCEPT ![Runner] = "executing"]
            /\ \/ worker' = worker
               \/ current' = Runner /\ ~preempt_requested' /\ worker' = "loop"
        BY <2>6, <3>1, <3>3, <3>6 DEF handle_goal
      <4>2. status'[Runner] = "executing" /\ status'[Operator] = status[Operator]
        BY <1>0, <1>1, <3>2, <4>1, TerminatedStatus
      <4>3. CASE worker' = worker
        BY <2>1, <3>1, <3>4, <4>2, <4>3 DEF AloneServer, switches
      <4>4. CASE current' = Runner /\ ~preempt_requested' /\ worker' = "loop"
        BY <2>1, <3>1, <3>4, <3>6, <4>2, <4>4 DEF AloneServer, switches
      <4>5. QED
        BY <4>1, <4>3, <4>4
    <3>7. QED
      BY <3>5, <3>6
  <2>7. QED
    BY <1>5, <2>2, <2>3, <2>4, <2>5, <2>6
<1>6. CASE /\ NavCancels \/ \E n \in NavIds : NavAccepts(n) \/ NavEnds(n)
           /\ UNCHANGED serverVars
  BY <1>3, <1>6 DEF NavCancels, NavAccepts, NavEnds, navOnly
<1>7. CASE ~is_active(Runner) /\ (GoalBecomes(Runner, "requested", 2) \/ GoalBecomes(Runner, "none", 0))
  <2>1. PICK s \in {"requested", "none"}, n \in {0, 2} :
          /\ s = "none" \/ n = 2
          /\ status' = [status EXCEPT ![Runner] = s] /\ size' = [size EXCEPT ![Runner] = n]
    BY <1>7 DEF GoalBecomes
  <2>2. UNCHANGED <<current, pending, preempt_requested, worker, stop_on_failure>> /\ UNCHANGED switches
    BY <1>7 DEF GoalBecomes
  <2>3. status'[Runner] = s /\ size'[Runner] = n /\ status'[Operator] = status[Operator]
    BY <1>0, <1>1, <2>1 DEF ServerTyped, LocalsTyped
  <2>4. QED
    BY <2>1, <2>2, <2>3 DEF AloneServer, switches
<1>8. CASE UNCHANGED <<serverVars, followerVars>>
  BY <1>3, <1>8 DEF followerVars
<1>9. QED
  BY <1>0, <1>4, <1>5, <1>6, <1>7, <1>8, AloneSteps

LEMMA AloneFollowerKept ==
  ASSUME RouteInv, CountTyped, AloneServer, AloneFollower, [Next]_vars, Alone'
  PROVE  AloneFollower'
<1> USE GoalsAssumption, LoopAssumption, FollowerAssumption
<1>0. ServerTyped /\ HandleInv /\ PlaceInv /\ LocalsTyped /\ NavTyped /\ NavInv
  BY DEF RouteInv
<1> DEFINE Bad == {"empty", "cancelling", "spin_cancelled", "cancelled", "accept", "abort",
                   "blocked", "crashed"}
           Answered == \A n \in NavIds : response[n] # "none" => n = future /\ response[n] # "rejected"
           Waited == new_goal \/ Processed => FutureDone
<1>1. ASSUME UNCHANGED <<pc, goal, response, future, nav, new_goal, goal_status>>
      PROVE  AloneFollower'
  BY <1>1 DEF AloneFollower, Processed, FutureDone
<1>2. CASE followWaypoints /\ UNCHANGED <<runnerVars, count>>
  <2>0. worker = "execute"
    BY <1>2 DEF followWaypoints, get_current_goal, is_server_active, check_cancel, is_preempt_requested,
                preempt, send_goal, publish_feedback, check_status, finish, spin, spin_cancel, At
  <2>1. /\ current = Runner /\ is_active(Runner) /\ size[Runner] = 2
        /\ server_active /\ ~preempt_requested /\ ~is_cancel_requested
        /\ pc # "get_current_goal" => goal = Runner /\ goal_size = 2
    BY <1>0, <2>0, AloneExecutes
  <2>2. ASSUME UNCHANGED <<response, future, nav, goal_status>>, new_goal' => new_goal \/ Processed
        PROVE  Answered' /\ Waited'
    BY <2>2 DEF AloneFollower, Processed, FutureDone
  <2>3. CASE get_current_goal
    <3>1. /\ pc = "get_current_goal" /\ pc' = "is_server_active" /\ goal' = Runner
          /\ UNCHANGED <<response, future, nav, goal_status>>
      BY <2>1, <2>3 DEF get_current_goal, At, Goto, NewGoal, navVars
    <3>2. new_goal
      BY <1>0, <3>1 DEF PlaceInv
    <3>3. QED
      BY <2>2, <3>1, <3>2 DEF AloneFollower
  <2>4. CASE is_server_active \/ check_cancel \/ is_preempt_requested \/ publish_feedback
    <3>1. /\ pc # "get_current_goal" /\ pc' \in {"top", "preempt", "send", "publish", "status"}
          /\ UNCHANGED locals
      BY <2>1, <2>4 DEF is_server_active, check_cancel, is_preempt_requested, publish_feedback, At, Goto
    <3>2. UNCHANGED <<response, future, nav, goal_status>>
      BY <2>4 DEF is_server_active, check_cancel, is_preempt_requested, publish_feedback, navVars
    <3>3. QED
      BY <2>1, <2>2, <3>1, <3>2 DEF AloneFollower, locals
  <2>5. CASE preempt \/ spin_cancel
    BY <2>5 DEF preempt, spin_cancel, At, AloneFollower
  <2>6. CASE send_goal
    <3>1. pc = "send" /\ pc' = "feedback" /\ goal' = goal
      BY <2>1, <2>6 DEF send_goal, At, Goto
    <3>2. CASE ~new_goal
      <4>1. UNCHANGED <<response, future, nav, goal_status, new_goal>>
        BY <2>6, <3>2 DEF send_goal
      <4>2. QED
        BY <2>1, <2>2, <3>1, <4>1 DEF AloneFollower
    <3>3. CASE new_goal
      <4>1. PICK n \in NavIds :
              /\ response' = [Released EXCEPT ![n] = "sent"] /\ future' = n
              /\ goal_status' = "PROCESSING" /\ ~new_goal'
        BY <2>1, <2>6, <3>1, <3>3 DEF send_goal
      <4>2. FutureDone
        BY <3>3 DEF AloneFollower
      <4>3. /\ Released \in [NavIds -> {"none", "sent", "accepted", "rejected", "delivered"}]
            /\ \A m \in NavIds : Released[m] = "none"
        BY <1>0, <4>2 DEF Released, FutureDone, AloneFollower, NavTyped
      <4>4. Answered'
        BY <4>1, <4>3
      <4>5. Waited'
        BY <4>1 DEF Processed
      <4>6. QED
        BY <2>1, <3>1, <4>4, <4>5 DEF AloneFollower
    <3>4. QED
      BY <3>2, <3>3
  <2>7. CASE check_status
    <3>1. pc = "status" /\ goal' = goal /\ UNCHANGED <<response, future, nav, goal_status>>
      BY <2>7 DEF check_status, At, navVars
    <3>2. pc' \in {"complete", "spin"} /\ (new_goal' => new_goal \/ Processed)
      BY <1>0, <2>7, StatusStep DEF AloneServer
    <3>3. QED
      BY <2>1, <2>2, <3>1, <3>2 DEF AloneFollower
  <2>8. CASE finish
    <3>1. pc = "complete" /\ pc' = "get_current_goal" /\ UNCHANGED <<response, future, nav, goal_status>>
      BY <2>8 DEF finish, At, Return, navVars, AloneFollower
    <3>2. new_goal
      BY <1>0, <3>1 DEF PlaceInv
    <3>3. QED
      BY <2>2, <3>1, <3>2 DEF AloneFollower
  <2>9. CASE spin
    <3>1. pc = "spin" /\ goal' = goal /\ new_goal' = new_goal
      BY <2>9 DEF spin, At, locals
    <3>2. ASSUME NEW n \in NavIds, NEW l \in {"top", "spin"}, goalResponseCallback(n, l)
          PROVE  AloneFollower'
      <4>1. n = future /\ response[n] = "accepted"
        BY <3>2 DEF goalResponseCallback, Responses, AloneFollower
      <4>2. /\ response' = [response EXCEPT ![n] = "delivered"] /\ UNCHANGED <<future, goal_status, nav>>
            /\ pc' = l
        BY <3>2, <4>1 DEF goalResponseCallback, Goto
      <4>3. ~FutureDone
        BY <4>1 DEF FutureDone
      <4>4. Answered'
        BY <1>0, <4>1, <4>2 DEF AloneFollower, NavTyped
      <4>5. Waited'
        BY <3>1, <4>2, <4>3 DEF AloneFollower, Processed
      <4>6. QED
        BY <2>1, <3>1, <4>2, <4>4, <4>5 DEF AloneFollower
    <3>3. ASSUME NEW n \in NavIds, NEW l \in {"top", "spin"}, resultCallback(n, l)
          PROVE  AloneFollower'
      <4>1. n = future /\ future # NoNav /\ response[future] = "delivered"
        BY <3>3 DEF resultCallback, Results, AloneFollower
      <4>2. /\ nav' = [nav EXCEPT ![n] = "none"] /\ UNCHANGED <<future, response>> /\ pc' = l
        BY <3>3, <4>1 DEF resultCallback, Goto, IsCurrentGoals
      <4>3. FutureDone'
        BY <1>0, <4>1, <4>2 DEF FutureDone, NavTyped
      <4>4. Answered'
        BY <4>2 DEF AloneFollower
      <4>5. QED
        BY <2>1, <3>1, <4>2, <4>3, <4>4 DEF AloneFollower
    <3>4. CASE Goto("top") /\ UNCHANGED <<response, nav, future, goal_status>>
      BY <2>1, <2>2, <3>1, <3>4 DEF AloneFollower, Goto
    <3>5. QED
      BY <2>9, <3>2, <3>3, <3>4 DEF spin
  <2>10. QED
    BY <1>2, <2>3, <2>4, <2>5, <2>6, <2>7, <2>8, <2>9 DEF followWaypoints
<1>3. CASE UNCHANGED followerVars
  BY <1>1, <1>3 DEF followerVars
<1>4. ASSUME NavCancels
      PROVE  AloneFollower'
  <2>1. /\ UNCHANGED <<pc, goal, response, future, new_goal, goal_status>>
        /\ nav' = [n \in NavIds |-> IF n \in Driving THEN "canceling" ELSE nav[n]]
    BY <1>4 DEF NavCancels, navOnly
  <2>2. FutureDone => FutureDone'
    BY <1>0, <2>1 DEF FutureDone, Driving, NavTyped
  <2>3. QED
    BY <2>1, <2>2 DEF AloneFollower, Processed
<1>5. ASSUME NEW n \in NavIds, NavAccepts(n)
      PROVE  AloneFollower'
  <2>1. /\ UNCHANGED <<pc, goal, future, new_goal, goal_status>>
        /\ response[n] = "sent" /\ response' = [response EXCEPT ![n] = "accepted"]
    BY <1>5 DEF NavAccepts, navOnly
  <2>2. n = future /\ ~FutureDone
    BY <2>1 DEF AloneFollower, FutureDone
  <2>3. Answered'
    BY <1>0, <2>1, <2>2 DEF AloneFollower, NavTyped
  <2>4. QED
    BY <2>1, <2>2, <2>3 DEF AloneFollower, Processed
<1>6. ASSUME NEW n \in NavIds, NavEnds(n)
      PROVE  AloneFollower'
  <2>1. UNCHANGED <<pc, goal, future, new_goal, goal_status, response>> /\ n \in Driving
    BY <1>6 DEF NavEnds, navOnly
  <2>2. n = future /\ ~FutureDone
    BY <1>0, <2>1 DEF AloneFollower, FutureDone, Driving, NavInv
  <2>3. QED
    BY <2>1, <2>2 DEF AloneFollower, Processed
<1>7. CASE GoalBecomes(Runner, "requested", 2) \/ GoalBecomes(Runner, "none", 0)
  BY <1>1, <1>7 DEF GoalBecomes, locals, navVars
<1>8. QED
  BY <1>0, <1>2, <1>3, <1>4, <1>5, <1>6, <1>7, AloneSteps

\* As long as nobody else disturbs it, the runner never drives the follower to
\* a wait that cannot end or to a null handle, however many rounds it sends,
\* whatever the navigator answers and in whatever order the threads run.
THEOREM RunnerAloneIsSafe == Spec => []AloneNeverStuck
<1> USE GoalsAssumption, LoopAssumption, FollowerAssumption
<1>1. Init => AloneInv
  <2>1. SUFFICES ASSUME Init PROVE AloneInv
    OBVIOUS
  <2>2. CountTyped
    BY <2>1 DEF Init, CountTyped
  <2>3. AloneServer
    BY <2>1 DEF Init, AloneServer
  <2>4. AloneFollower
    BY <2>1 DEF Init, AloneFollower, Processed, FutureDone
  <2>5. QED
    BY <2>2, <2>3, <2>4 DEF AloneInv
<1>2. RouteInv /\ AloneInv /\ [Next]_vars => AloneInv'
  BY CountStep, AloneServerKept, AloneFollowerKept DEF AloneInv
<1>3. AloneInv => AloneNeverStuck
  <2>1. SUFFICES ASSUME AloneInv PROVE AloneNeverStuck
    OBVIOUS
  <2>2. "disturbance" \in Events
    BY DEF Events
  <2>3. count["disturbance"] \in Nat
    BY <2>1, <2>2 DEF AloneInv, CountTyped
  <2>4. QED
    BY <2>1, <2>3 DEF AloneInv, Alone, AloneFollower, AloneNeverStuck, Stuck, Disturbed
<1>4. QED
  BY <1>1, <1>2, <1>3, RouteInvariant, PTL DEF Spec
-----------------------------------------------------------------------------
(* The runner's start pose. *)

RunnerTyped ==
  /\ poses \in Poses \cup {NoPose}
  /\ latest_start \in Poses \cup {NoPose}
  /\ loop_start \in Poses \cup {NoPose}
  /\ route \in [start : Poses \cup {NoPose}, target : Poses \cup {NoPose}]

\* A locked start is the latest estimate: initialpose_cb releases the lock, and
\* amcl_pose_cb is heard only before there is any.
StartInv == RunnerTyped /\ loop_start \in {NoPose, latest_start}

LEMMA StartInit == Init => StartInv
  BY LoopAssumption DEF Init, StartInv, RunnerTyped

LEMMA StartKept == StartInv /\ [Next]_vars => StartInv'
<1> USE LoopAssumption
<1>1. SUFFICES ASSUME StartInv, [Next]_vars PROVE StartInv'
  OBVIOUS
<1>2. CASE UNCHANGED <<loop_start, latest_start, poses, route>>
  BY <1>1, <1>2 DEF StartInv, RunnerTyped
<1>3. ASSUME NEW p \in EstimatePoses, initialpose_cb(p)
      PROVE  StartInv'
  BY <1>1, <1>3 DEF initialpose_cb, StartInv, RunnerTyped
<1>4. CASE amcl_pose_cb
  BY <1>1, <1>4 DEF amcl_pose_cb, StartInv, RunnerTyped
<1>5. ASSUME NEW p \in Poses \cup {NoPose}, waypoints_marker_cb(p)
      PROVE  StartInv'
  BY <1>1, <1>5 DEF waypoints_marker_cb, StartInv, RunnerTyped
<1>6. CASE wait_for_stable_waypoints \/ get_result
  <2>1. /\ UNCHANGED <<loop_start, latest_start, poses>>
        /\ \E t \in {poses, NoPose} : route' = [start |-> NoPose, target |-> t]
    BY <1>6 DEF wait_for_stable_waypoints, get_result
  <2>2. QED
    BY <1>1, <2>1 DEF StartInv, RunnerTyped
<1>7. CASE get_locked_loop_start
  <2>1. PICK start \in {latest_start, loop_start} :
          /\ loop_start' = start /\ route' = [route EXCEPT !.start = start]
          /\ loop_start = NoPose \/ start = loop_start
          /\ loop_start # NoPose \/ start = latest_start
    BY <1>7 DEF get_locked_loop_start
  <2>2. UNCHANGED <<latest_start, poses>>
    BY <1>7 DEF get_locked_loop_start
  <2>3. QED
    BY <1>1, <2>1, <2>2 DEF StartInv, RunnerTyped
<1>8. QED
  BY <1>1, <1>2, <1>3, <1>4, <1>5, <1>6, <1>7
     DEF Next, vars, runnerVars, Follower, Executor, Requests, Navigation, Rejections, RunnerCallbacks,
         Run, TimePasses, OperatorGoal

\* Whatever is heard while the runner waits, the start of a round is the latest
\* pose it has (get_locked_loop_start, initialpose_cb).
THEOREM StartsFromLatest == Spec => StartIsLatestEstimate
<1>1. StartInv /\ [Next]_vars
        => [rpc = "start" /\ rpc' = "goal" => route'.start = latest_start]_vars
  <2>1. SUFFICES ASSUME StartInv, [Next]_vars, rpc = "start", rpc' = "goal"
                 PROVE  route'.start = latest_start
    OBVIOUS
  <2>2. get_locked_loop_start
    BY <2>1 DEF Next, vars, runnerVars, Follower, Executor, Requests, Navigation, Rejections,
                RunnerCallbacks, initialpose_cb, waypoints_marker_cb, amcl_pose_cb, Run,
                wait_for_stable_waypoints, get_result, TimePasses, OperatorGoal
  <2>3. route' = [route EXCEPT !.start = IF loop_start = NoPose THEN latest_start ELSE loop_start]
    BY <2>2 DEF get_locked_loop_start
  <2>4. QED
    BY <2>1, <2>3 DEF StartInv, RunnerTyped
<1>2. QED
  BY StartInit, StartKept, <1>1, PTL DEF Spec, StartIsLatestEstimate

-----------------------------------------------------------------------------
(* What a client is promised.                                                 *)

\* The poses reached and those being driven to are poses of this goal, none
\* before the worker has read the goal; and a worker about to accept a pending
\* goal finds it, unless both goals have been taken away.
DriveInv ==
  /\ pc \in {"get_current_goal", "is_server_active", "empty"} =>
       arrived = {} /\ \A n \in NavIds : leg[n] = NoLeg
  /\ pc = "get_current_goal" => goal = NoGoal
  /\ \A n \in NavIds : leg[n] = NoLeg \/ leg[n] \in 0 .. goal_size - 1
  /\ arrived \subseteq 0 .. goal_size - 1
  /\ pc = "accept" => pending # NoGoal \/ current = NoGoal

LEMMA DriveInit == Init => DriveInv
  BY DEF Init, DriveInv

LEMMA DriveKept ==
  ASSUME RouteInv, DriveInv, [Next]_vars
  PROVE  DriveInv'
<1> USE GoalsAssumption, FollowerAssumption
<1>0. /\ ServerTyped /\ HandleInv /\ LocalsTyped /\ PlaceInv /\ NavTyped
      /\ goal_size \in Nat /\ goal_index \in Nat /\ MaxPoses \in Nat
  BY DEF RouteInv, LocalsTyped
<1> DEFINE Early == {"get_current_goal", "is_server_active", "empty"}
           Drives == UNCHANGED <<leg, arrived, goal, goal_size>>
           Kept == current' \in {current, NoGoal} /\ (pending' = NoGoal => pending = NoGoal \/ current' = NoGoal)
\* Steps that leave the route alone.
<1>1. ASSUME Drives, pc' = pc, pc = "accept" => Kept
      PROVE  DriveInv'
  BY <1>0, <1>1 DEF DriveInv, NoLeg
<1>2. ASSUME Drives, pc' \notin Early \cup {"accept"}
      PROVE  DriveInv'
  BY <1>0, <1>2 DEF DriveInv, NoLeg
\* A goal is taken up, or the locals are gone.
<1>3. ASSUME NEW g \in Goals \cup {NoGoal}, NewGoal(g), pc' # "accept",
             pc' = "get_current_goal" => g = NoGoal
      PROVE  DriveInv'
  <2>1. leg' = [n \in NavIds |-> NoLeg] /\ arrived' = {} /\ goal' = g
    BY <1>3 DEF NewGoal
  <2>2. QED
    BY <1>3, <2>1 DEF DriveInv, NoLeg
<1>4. CASE followWaypoints /\ UNCHANGED <<runnerVars, count>>
  <2>1. CASE get_current_goal
    <3>1. NewGoal(IF is_active(current) THEN current ELSE NoGoal) /\ pc' = "is_server_active"
      BY <2>1 DEF get_current_goal, Goto
    <3>2. QED
      BY <1>0, <1>3, <3>1 DEF ServerTyped
  <2>2. CASE is_server_active
    <3>1. pc = "is_server_active" /\ goal_index = 0
      BY <1>0, <2>2 DEF is_server_active, At, PlaceInv
    <3>2. CASE Return
      BY <1>3, <3>2 DEF Return
    <3>3. CASE ~Return
      <4>1. Drives /\ pc' \in {"crashed", "empty", "top"}
        BY <2>2, <3>3 DEF is_server_active, Goto, locals, ghosts
      <4>2. QED
        BY <1>0, <3>1, <4>1 DEF DriveInv, NoLeg
    <3>4. QED
      BY <3>2, <3>3
  <2>3. CASE is_preempt_requested
    <3>1. Drives /\ pc' \in {"accept", "send"} /\ UNCHANGED handles /\ (pc' = "accept" => preempt_requested)
      BY <2>3 DEF is_preempt_requested, Goto, locals, ghosts
    <3>2. pc' = "accept" => pending' # NoGoal
      BY <1>0, <3>1 DEF HandleInv, handles
    <3>3. QED
      BY <1>0, <3>1, <3>2 DEF DriveInv, NoLeg
  <2>4. CASE preempt
    <3>1. NewGoal(IF is_active(pending) THEN pending ELSE NoGoal) /\ pc' = "send"
      BY <2>4 DEF preempt, Goto
    <3>2. QED
      BY <1>0, <1>3, <3>1 DEF ServerTyped
  <2>5. CASE send_goal
    <3>1. pc = "send" /\ UNCHANGED <<arrived, goal, goal_size>> /\ pc' \in {"feedback", "crashed"}
      BY <2>5 DEF send_goal, At, Goto
    <3>2. CASE UNCHANGED leg
      BY <1>2, <3>1, <3>2
    <3>3. CASE \E n \in NavIds : leg' = [leg EXCEPT ![n] = goal_index] /\ goal_size # 0
      <4>1. goal_index \in 0 .. goal_size - 1
        BY <1>0, <3>1, <3>3 DEF PlaceInv
      <4>2. QED
        BY <1>0, <3>1, <3>3, <4>1 DEF DriveInv, NavTyped, NoLeg
    <3>4. QED
      BY <2>5, <3>2, <3>3 DEF send_goal
  <2>6. CASE finish
    BY <1>3, <2>6 DEF finish, Return
  <2>7. CASE check_status
    <3>1. Drives /\ pc' \in {"abort", "complete", "spin"}
      BY <2>7 DEF check_status, Goto, ghosts
    <3>2. QED
      BY <1>2, <3>1
  <2>8. CASE check_cancel
    <3>1. Drives /\ pc' \in {"cancelling", "preempt"}
      BY <2>8 DEF check_cancel, Goto, ghosts, locals
    <3>2. QED
      BY <1>2, <3>1
  <2>9. CASE publish_feedback
    <3>1. Drives /\ pc' \in {"publish", "status", "crashed"}
      BY <2>9 DEF publish_feedback, Goto, ghosts, locals
    <3>2. QED
      BY <1>2, <3>1
  <2>10. CASE spin \/ spin_cancel
    <3>1. Drives
      BY <2>10 DEF spin, spin_cancel, ghosts, locals
    <3>2. pc' \in {"top", "spin", "cancelling", "spin_cancelled", "cancelled", "crashed", "blocked"}
      BY <2>10 DEF spin, spin_cancel, goalResponseCallback, resultCallback, Goto
    <3>3. QED
      BY <1>2, <3>1, <3>2
  <2>11. QED
    BY <1>4, <2>1, <2>2, <2>3, <2>4, <2>5, <2>6, <2>7, <2>8, <2>9, <2>10 DEF followWaypoints
<1>5. CASE ServerStep /\ UNCHANGED <<followerVars, runnerVars>>
  <2>1. Drives /\ pc' = pc
    BY <1>5 DEF followerVars
  <2>2. ASSUME pc = "accept" PROVE Kept
    <3>1. worker = "execute"
      BY <1>0, <2>2 DEF PlaceInv
    <3>2. CASE deactivate_timeout
      BY <1>0, <3>2 DEF deactivate_timeout, terminate_all, Reset, HandleInv
    <3>3. ASSUME NEW g \in Goals, handle_goal(g) PROVE Kept
      BY <3>1, <3>3 DEF handle_goal, is_running
    <3>4. CASE UNCHANGED <<current, pending>>
      BY <3>4
    <3>5. QED
      BY <1>5, <3>1, <3>2, <3>3, <3>4
         DEF ServerStep, work_tests, work_ended, work_exits, deactivate_returns, activate, deactivate,
             handle_cancel, handles
  <2>3. QED
    BY <1>1, <2>1, <2>2
<1>6. CASE dynamicParametersCallback /\ UNCHANGED runnerVars
  BY <1>1, <1>6 DEF dynamicParametersCallback, serverVars
<1>7. CASE NavStep /\ UNCHANGED <<runnerVars, serverVars>>
  <2>1. UNCHANGED <<current, pending, pc, goal, goal_size>>
    BY <1>7 DEF serverVars, NavStep, NavCancels, NavAccepts, NavEnds, NavRejects, navOnly
  <2>2. /\ \A n \in NavIds : leg'[n] \in {leg[n], NoLeg}
        /\ arrived' = arrived \/ \E n \in NavIds : leg[n] # NoLeg /\ arrived' = arrived \cup {leg[n]}
    BY <1>0, <1>7 DEF NavStep, NavCancels, NavAccepts, NavEnds, NavRejects, NavTyped, ghosts
  <2>3. arrived' \subseteq 0 .. goal_size - 1
    BY <2>2 DEF DriveInv
  <2>4. QED
    BY <2>1, <2>2, <2>3 DEF DriveInv, NoLeg
<1>8. ASSUME NEW g \in Goals, NEW s \in {"requested", "none"}, NEW n \in 0 .. MaxPoses, ClientStep(g, s, n)
      PROVE  DriveInv'
  BY <1>1, <1>8 DEF ClientStep, GoalBecomes, locals, ghosts
<1>9. CASE UNCHANGED <<serverVars, followerVars>>
  BY <1>1, <1>9 DEF serverVars, followerVars
<1>10. QED
  BY <1>0, <1>4, <1>5, <1>6, <1>7, <1>8, <1>9, Steps

\* What terminate() leaves of a goal: its status is its own, or the one answer a
\* goal that was active gets.
LEMMA TerminatedAnswer ==
  ASSUME ServerTyped, NEW S, NEW g \in Goals
  PROVE  \/ Terminated(S)[g] = status[g]
         \/ g \in S /\ status[g] = "executing" /\ Terminated(S)[g] = "aborted"
         \/ g \in S /\ status[g] = "canceling" /\ Terminated(S)[g] = "canceled"
<1>1. Terminated(S)[g] = IF g \notin S \/ ~is_active(g) THEN status[g]
                         ELSE IF status[g] = "canceling" THEN "canceled" ELSE "aborted"
  BY DEF Terminated
<1>2. is_active(g) => status[g] \in {"executing", "canceling"}
  BY DEF is_active
<1>3. QED
  BY <1>1, <1>2

\* A step that leaves a goal alone.
LEMMA PromiseStutters ==
  ASSUME NEW g \in Goals, status'[g] = status[g], size'[g] = size[g], missed'[g] = missed[g],
         Reached(g)' = Reached(g)
  PROVE  Promise(g)!Step
BY DEF Promise!Step, Promise!goalVars

\* A step by which it is answered as terminate() or a preemption answers it.
LEMMA PromiseEnds ==
  ASSUME NEW g \in Goals, size'[g] = size[g], missed'[g] \in SUBSET Nat, Reached(g)' = {},
         \/ status[g] = "executing" /\ status'[g] = "aborted"
         \/ status[g] = "canceling" /\ status'[g] \in {"canceled", "aborted"}
  PROVE  Promise(g)!Step
BY DEF Promise!Step, Promise!Next, Promise!Abort, Promise!Canceled, Promise!Answer, Promise!Active

\* Handles are taken away: each goal is left alone or answered.
LEMMA PromiseTerminated ==
  ASSUME ServerTyped, LocalsTyped', NEW S, NEW g \in Goals, status' = Terminated(S), size' = size,
         missed'[g] = missed[g] \/ g \in S,
         Reached(g)' = IF g \in S THEN {} ELSE Reached(g),
         g \in S => is_active(g)
  PROVE  Promise(g)!Step
<1>1. missed'[g] \in SUBSET Nat
  BY DEF LocalsTyped
<1>2. CASE status'[g] = status[g] /\ g \notin S
  BY <1>2, PromiseStutters
<1>3. CASE g \in S
  <2>1. \/ status[g] = "executing" /\ status'[g] = "aborted"
        \/ status[g] = "canceling" /\ status'[g] = "canceled"
    BY <1>3, TerminatedStatus, TerminatedAnswer DEF is_active
  <2>2. QED
    BY <1>1, <1>3, <2>1, PromiseEnds
<1>4. QED
  BY <1>2, <1>3, TerminatedAnswer

\* The worker takes a pending goal up: the goal before it is aborted.
LEMMA PromiseAccept ==
  ASSUME ServerTyped, HandleInv, LocalsTyped, LocalsTyped', NEW g \in Goals, accept_pending_goal,
         size' = size, missed' = missed,
         is_active(pending) => Reached(g)' = {},
         ~is_active(pending) => Reached(g)' = Reached(g)
  PROVE  Promise(g)!Step
<1> USE GoalsAssumption
<1>1. CASE ~is_active(pending)
  BY <1>1, PromiseStutters DEF accept_pending_goal, handles
<1>2. CASE is_active(pending) /\ g = current
  <2>1. status'[g] = "aborted" /\ status[g] \in {"executing", "canceling"}
    BY <1>2 DEF accept_pending_goal, HandleInv, ServerTyped, is_active
  <2>2. missed'[g] \in SUBSET Nat
    BY DEF LocalsTyped
  <2>3. QED
    BY <1>2, <2>1, <2>2, PromiseEnds
<1>3. CASE is_active(pending) /\ g # current
  <2>1. status'[g] = status[g]
    BY <1>3 DEF accept_pending_goal, ServerTyped
  <2>2. Reached(g) = {}
    BY <1>3 DEF Reached
  <2>3. QED
    BY <1>3, <2>1, <2>2, PromiseStutters
<1>4. QED
  BY <1>1, <1>2, <1>3

\* followWaypoints(): a goal is answered at its end, with every pose reached or
\* missed if it succeeds, or when it is preempted.
LEMMA PromiseFollower ==
  ASSUME RouteInv, RouteInv', DriveInv, [Next]_vars, NEW g \in Goals, followWaypoints
  PROVE  Promise(g)!Step
<1> USE GoalsAssumption
<1>0. /\ ServerTyped /\ HandleInv /\ LocalsTyped /\ LocalsTyped' /\ PlaceInv /\ ReachInv
      /\ missed'[g] \in SUBSET Nat
  BY DEF RouteInv, LocalsTyped
<1>1. g \in {current, pending} => is_active(g)
  BY <1>0 DEF HandleInv
<1>2. ASSUME UNCHANGED <<status, current, size, missed, goal, arrived>>
      PROVE  Promise(g)!Step
  BY <1>2, PromiseStutters DEF Reached
<1>3. CASE get_current_goal
  <2>1. UNCHANGED <<status, size, missed>> /\ arrived' = {}
    BY <1>3 DEF get_current_goal, NewGoal, handles
  <2>2. goal = NoGoal
    BY <1>3 DEF get_current_goal, At, DriveInv
  <2>3. Reached(g) = {} /\ Reached(g)' = {}
    BY <2>1, <2>2 DEF Reached
  <2>4. QED
    BY <2>1, <2>3, PromiseStutters
<1>4. CASE is_server_active
  <2>1. UNCHANGED <<status, size, missed>> /\ arrived = {} /\ arrived' = {}
    BY <1>4 DEF is_server_active, At, Return, NewGoal, DriveInv, handles, ghosts
  <2>2. Reached(g) = {} /\ Reached(g)' = {}
    BY <2>1 DEF Reached
  <2>3. QED
    BY <2>1, <2>2, PromiseStutters
<1>5. CASE preempt
  <2>1. accept_pending_goal /\ UNCHANGED <<size, missed>> /\ arrived' = {}
    BY <1>5 DEF preempt, NewGoal
  <2>2. Reached(g)' = {}
    BY <2>1 DEF Reached
  <2>3. ~is_active(pending) => Reached(g) = {}
    <3>1. ~is_active(pending) => current = NoGoal
      BY <1>0, <1>5 DEF preempt, At, DriveInv, HandleInv
    <3>2. QED
      BY <3>1 DEF Reached
  <2>4. QED
    BY <1>0, <2>1, <2>2, <2>3, PromiseAccept
<1>6. CASE finish
  <2>1. size' = size /\ Reached(g)' = {}
    BY <1>6 DEF finish, Return, NewGoal, Reached
  <2>2. \A ids : Answers(ids) => missed'[g] = missed[g] \/ g = current
    BY <1>0 DEF Answers, LocalsTyped
  <2>3. g # current => Reached(g) = {}
    BY DEF Reached
  <2>4. CASE terminate_current /\ (missed'[g] = missed[g] \/ g = current)
    <3>1. status' = Terminated({current})
      BY <2>4 DEF terminate_current
    <3>2. QED
      BY <1>0, <1>1, <2>1, <2>3, <2>4, <3>1, PromiseTerminated
  <2>5. CASE terminate_all /\ missed' = missed
    <3>1. status' = Terminated({current, pending})
      BY <2>5 DEF terminate_all
    <3>2. QED
      BY <1>0, <1>1, <2>1, <2>3, <2>5, <3>1, PromiseTerminated
  <2>6. CASE succeeded_current /\ (missed'[g] = missed[g] \/ g = current) /\ pc \in {"empty", "complete"}
    <3>1. CASE g # current
      <4>1. status'[g] = status[g]
        BY <1>0, <2>6, <3>1 DEF succeeded_current, ServerTyped
      <4>2. QED
        BY <2>1, <2>3, <2>6, <3>1, <4>1, PromiseStutters
    <3>2. CASE g = current
      <4>1. status[g] \in {"executing", "canceling"} /\ status'[g] = "succeeded"
        BY <1>0, <1>1, <2>6, <3>2 DEF succeeded_current, ServerTyped, is_active
      <4>2. \A k \in 0 .. size[g] - 1 : k \in arrived \/ k \in missed'[g]
        BY <1>0, <4>1, SuccessIsReached
      <4>3. Reached(g) = arrived
        BY <1>0, <2>6, <3>2 DEF PlaceInv, Reached
      <4>4. Promise(g)!Answer("succeeded")
        BY <1>0, <2>1, <4>1 DEF Promise!Answer, Promise!Active
      <4>5. Promise(g)!Succeed
        BY <4>2, <4>3, <4>4 DEF Promise!Succeed
      <4>6. QED
        BY <4>5 DEF Promise!Step, Promise!Next
    <3>3. QED
      BY <3>1, <3>2
  <2>7. QED
    BY <1>6, <2>2, <2>4, <2>5, <2>6 DEF finish, At
<1>7. QED
  BY <1>2, <1>3, <1>4, <1>5, <1>6
     DEF followWaypoints, check_cancel, is_preempt_requested, send_goal, publish_feedback, check_status,
         spin, spin_cancel, handles, locals, ghosts

\* The executor accepts, rejects, cancels and takes away; the worker between two
\* goals has no locals.
LEMMA PromiseServer ==
  ASSUME RouteInv, RouteInv', DriveInv, NEW g \in Goals, ServerStep, UNCHANGED followerVars
  PROVE  Promise(g)!Step
<1> USE GoalsAssumption
<1>0. /\ ServerTyped /\ HandleInv /\ LocalsTyped /\ LocalsTyped' /\ PlaceInv
      /\ UNCHANGED <<size, missed, goal, arrived, pc>>
  BY DEF RouteInv, followerVars
<1>1. g \in {current, pending} => is_active(g)
  BY <1>0 DEF HandleInv
<1>2. ASSUME worker # "execute" PROVE Reached(g) = {} /\ Reached(g)' = {}
  <2>1. goal = NoGoal
    BY <1>0, <1>2 DEF PlaceInv, DriveInv
  <2>2. QED
    BY <1>0, <2>1 DEF Reached
<1>3. ASSUME UNCHANGED <<status, current>> PROVE Promise(g)!Step
  BY <1>0, <1>3, PromiseStutters DEF Reached
<1>4. CASE work_ended
  <2>1. Reached(g) = {} /\ Reached(g)' = {}
    BY <1>2, <1>4 DEF work_ended
  <2>2. CASE terminate_all
    BY <1>0, <1>1, <2>1, <2>2, PromiseTerminated DEF terminate_all
  <2>3. CASE terminate_current
    BY <1>0, <1>1, <2>1, <2>3, PromiseTerminated DEF terminate_current
  <2>4. CASE accept_pending_goal
    BY <1>0, <2>1, <2>4, PromiseAccept
  <2>5. QED
    BY <1>3, <1>4, <2>2, <2>3, <2>4 DEF work_ended, handles
<1>5. CASE deactivate_timeout
  <2>1. status' = Terminated({current, pending}) /\ current' = NoGoal
    BY <1>0, <1>5 DEF deactivate_timeout, terminate_all, Reset, HandleInv
  <2>2. Reached(g)' = {} /\ (g # current => Reached(g) = {})
    BY <2>1 DEF Reached
  <2>3. QED
    BY <1>0, <1>1, <2>1, <2>2, PromiseTerminated
<1>6. ASSUME NEW h \in Goals, handle_goal(h) PROVE Promise(g)!Step
  <2>1. status[h] = "requested" /\ h # current /\ h # pending
    BY <1>0, <1>6 DEF handle_goal, HandleInv, is_active
  <2>2. Reached(g)' = Reached(g) /\ (g # current => Reached(g) = {})
    <3>1. CASE current' = current
      BY <1>0, <3>1 DEF Reached
    <3>2. CASE current' # current
      BY <1>2, <1>6, <3>2 DEF handle_goal, is_running
    <3>3. QED
      BY <3>1, <3>2 DEF Reached
  <2>3. CASE ~server_active
    <3>1. status' = [status EXCEPT ![h] = "rejected"]
      BY <1>6, <2>3 DEF handle_goal
    <3>2. CASE g = h
      <4>1. status[g] = "requested" /\ status'[g] = "rejected"
        BY <1>0, <2>1, <3>1, <3>2 DEF ServerTyped
      <4>2. QED
        BY <1>0, <2>2, <4>1 DEF Promise!Step, Promise!Next, Promise!Respond
    <3>3. CASE g # h
      BY <1>0, <2>2, <3>1, <3>3, PromiseStutters DEF ServerTyped
    <3>4. QED
      BY <3>2, <3>3
  <2>4. CASE server_active
    <3>1. status' = [Terminated({pending}) EXCEPT ![h] = "executing"]
      BY <1>6, <2>4 DEF handle_goal
    <3>2. Terminated({pending}) \in [Goals -> Statuses]
      BY <1>0, TerminatedStatus
    <3>3. CASE g = h
      <4>1. status[g] = "requested" /\ status'[g] = "executing"
        BY <2>1, <3>1, <3>2, <3>3
      <4>2. QED
        BY <1>0, <2>2, <4>1 DEF Promise!Step, Promise!Next, Promise!Respond
    <3>4. CASE g # h /\ g # pending
      <4>1. status'[g] = status[g]
        BY <1>0, <3>1, <3>2, <3>4, TerminatedStatus
      <4>2. QED
        BY <1>0, <2>2, <4>1, PromiseStutters
    <3>5. CASE g # h /\ g = pending
      <4>1. status'[g] = Terminated({pending})[g]
        BY <3>1, <3>2, <3>5
      <4>2. \/ status[g] = "executing" /\ status'[g] = "aborted"
            \/ status[g] = "canceling" /\ status'[g] = "canceled"
        BY <1>0, <1>1, <3>5, <4>1, TerminatedStatus, TerminatedAnswer DEF is_active
      <4>3. Reached(g)' = {}
        BY <1>0, <2>2, <3>5 DEF HandleInv
      <4>4. missed'[g] \in SUBSET Nat
        BY <1>0 DEF LocalsTyped
      <4>5. QED
        BY <1>0, <4>2, <4>3, <4>4, PromiseEnds
    <3>6. QED
      BY <3>3, <3>4, <3>5
  <2>5. QED
    BY <2>3, <2>4
<1>7. ASSUME NEW h \in Goals, handle_cancel(h) PROVE Promise(g)!Step
  <2>1. /\ status[h] = "executing" /\ status' = [status EXCEPT ![h] = "canceling"]
        /\ Reached(g)' = Reached(g)
    BY <1>0, <1>7 DEF handle_cancel, Reached
  <2>2. CASE g = h
    <3>1. status[g] = "executing" /\ status'[g] = "canceling"
      BY <1>0, <2>1, <2>2 DEF ServerTyped
    <3>2. QED
      BY <1>0, <2>1, <3>1 DEF Promise!Step, Promise!Next, Promise!Cancel
  <2>3. CASE g # h
    BY <1>0, <2>1, <2>3, PromiseStutters DEF ServerTyped
  <2>4. QED
    BY <2>2, <2>3
<1>8. QED
  BY <1>3, <1>4, <1>5, <1>6, <1>7
     DEF ServerStep, work_tests, work_exits, deactivate_returns, activate, deactivate, handles

\* The robot arrives at a pose for the goal that is executed, or for none.
LEMMA PromiseNav ==
  ASSUME RouteInv, DriveInv, NEW g \in Goals, NavStep, UNCHANGED serverVars
  PROVE  Promise(g)!Step
<1> USE GoalsAssumption
<1>0. ServerTyped /\ HandleInv /\ LocalsTyped /\ PlaceInv /\ NavTyped
  BY DEF RouteInv
<1>1. UNCHANGED <<status, current, size, missed, goal>>
  BY DEF NavStep, NavCancels, NavAccepts, NavEnds, NavRejects, navOnly, serverVars
<1>2. CASE arrived' = arrived \/ current # g \/ goal # g
  BY <1>1, <1>2, PromiseStutters DEF Reached
<1>3. CASE arrived' # arrived /\ current = g /\ goal = g
  <2>1. PICK n \in NavIds : leg[n] # NoLeg /\ arrived' = arrived \cup {leg[n]}
    BY <1>3 DEF NavStep, NavCancels, NavAccepts, NavEnds, NavRejects, ghosts
  <2>2. goal_size = size[g]
    BY <1>0, <1>3 DEF PlaceInv, DriveInv
  <2>3. leg[n] \in 0 .. size[g] - 1
    BY <2>1, <2>2 DEF DriveInv
  <2>4. Reached(g)' = Reached(g) \cup {leg[n]}
    BY <1>1, <1>3, <2>1 DEF Reached
  <2>5. status[g] \in {"executing", "canceling"}
    BY <1>0, <1>3 DEF HandleInv, is_active
  <2>6. Promise(g)!Reach
    BY <1>1, <2>3, <2>4, <2>5 DEF Promise!Reach, Promise!Active
  <2>7. QED
    BY <2>6 DEF Promise!Step, Promise!Next
<1>4. QED
  BY <1>2, <1>3

\* A client changes its own goal, when it has the answer to it.
LEMMA PromiseClient ==
  ASSUME RouteInv, NEW g \in Goals, NEW h \in Goals, NEW s \in {"requested", "none"},
         NEW n \in 0 .. MaxPoses, ClientStep(h, s, n)
  PROVE  Promise(g)!Step
<1> USE GoalsAssumption
<1>0. ServerTyped /\ HandleInv /\ LocalsTyped
  BY DEF RouteInv
<1>1. /\ status' = [status EXCEPT ![h] = s] /\ size' = [size EXCEPT ![h] = n]
      /\ missed' = [missed EXCEPT ![h] = {}] /\ UNCHANGED <<current, goal, arrived>>
      /\ ~is_active(h) /\ status[h] # "requested"
      /\ s = "none" => n = 0 /\ status[h] # "none"
  BY DEF ClientStep, GoalBecomes, locals, ghosts
<1>2. Reached(g)' = Reached(g)
  BY <1>1 DEF Reached
<1>3. CASE g # h
  BY <1>0, <1>1, <1>2, <1>3, PromiseStutters DEF ServerTyped, LocalsTyped
<1>4. CASE g = h
  <2>1. status'[g] = s /\ size'[g] = n /\ missed'[g] = {} /\ n \in Nat
    BY <1>0, <1>1, <1>4, FollowerAssumption DEF ServerTyped, LocalsTyped
  <2>2. status[g] \in {"none", "rejected", "succeeded", "aborted", "canceled"}
    BY <1>0, <1>1, <1>4 DEF ServerTyped, Statuses, is_active
  <2>3. CASE s = "requested"
    <3>1. Promise(g)!Send
      BY <1>2, <2>1, <2>2, <2>3 DEF Promise!Send, Promise!Answered
    <3>2. QED
      BY <3>1 DEF Promise!Step, Promise!Next
  <2>4. CASE s = "none"
    <3>1. Promise(g)!Forget
      BY <1>1, <1>2, <1>4, <2>1, <2>2, <2>4 DEF Promise!Forget, Promise!Answered
    <3>2. QED
      BY <3>1 DEF Promise!Step, Promise!Next
  <2>5. QED
    BY <2>3, <2>4
<1>5. QED
  BY <1>3, <1>4

LEMMA PromiseStep ==
  ASSUME RouteInv, RouteInv', DriveInv, [Next]_vars, NEW g \in Goals
  PROVE  Promise(g)!Step
<1>1. ServerTyped /\ HandleInv
  BY DEF RouteInv
<1>2. CASE dynamicParametersCallback
  BY <1>2, PromiseStutters DEF dynamicParametersCallback, serverVars, Reached
<1>3. CASE UNCHANGED <<serverVars, followerVars>>
  BY <1>3, PromiseStutters DEF serverVars, followerVars, Reached
<1>4. QED
  BY <1>1, <1>2, <1>3, Steps, PromiseFollower, PromiseServer, PromiseNav, PromiseClient

\* The follower and its action server, with any number of poses, navigation goals,
\* preemptions, cancellations and deactivations, implement the promise of an
\* action goal to each client: the abstract goal's poses reached are the ones
\* followWaypoints() has driven to for the goal it executes.
THEOREM FollowerImplementsPromise == Spec => GoalsKeepPromise
<1> DEFINE I == RouteInv /\ DriveInv
           A == [\A g \in Goals : Promise(g)!Step]_vars
<1>1. Init => I
  BY RouteInit, DriveInit
<1>2. I /\ [Next]_vars => I'
  BY RouteStep, DriveKept
<1>3. Init => \A g \in Goals : Promise(g)!Init
  BY DEF Init, Promise!Init, Reached
<1>4. I /\ I' /\ [Next]_vars => A
  BY PromiseStep
<1> HIDE DEF I
<1>5. QED
  BY <1>1, <1>2, <1>3, <1>4, PTL DEF Spec, GoalsKeepPromise

-----------------------------------------------------------------------------
(* The rest of the types.                                                     *)

Places == {"get_current_goal", "is_server_active", "empty", "top", "cancelling", "spin_cancelled",
           "cancelled", "preempt", "accept", "send", "feedback", "publish", "status", "abort",
           "complete", "spin", "blocked", "crashed"}

ThreadsTyped ==
  /\ preempt_requested \in BOOLEAN /\ stop_execution \in BOOLEAN /\ server_active \in BOOLEAN
  /\ executor \in {"idle", "deactivating"}
  /\ worker \in {"idle", "loop", "execute", "ended", "exiting"}
  /\ pc \in Places
  /\ new_goal \in BOOLEAN /\ stop_on_failure \in BOOLEAN
  /\ goal_status \in {"UNKNOWN", "PROCESSING", "FAILED", "SUCCEEDED"}
  /\ cancel \in {"none", "sent", "done"}

\* The poses reported are poses some goal may have, although failed_ids_ is kept
\* when a goal is preempted and may hold poses of that goal.
ReportTyped ==
  /\ missed \in [Goals -> SUBSET (0 .. MaxPoses)]
  /\ failed_ids \in SUBSET (0 .. MaxPoses)

CountBounded ==
  /\ stable \in BOOLEAN /\ rpc \in {"stable", "start", "goal", "dead"}
  /\ CountTyped /\ \A e \in Events : count[e] <= Bound[e]

LEMMA HandlesTyped ==
  ASSUME preempt_requested \in BOOLEAN,
         \/ UNCHANGED handles \/ terminate_all \/ terminate_current \/ succeeded_current
         \/ accept_pending_goal
  PROVE  preempt_requested' \in BOOLEAN
BY DEF handles, terminate_all, terminate_current, succeeded_current, accept_pending_goal

LEMMA ThreadsKept ==
  ASSUME RouteInv, ThreadsTyped, [Next]_vars
  PROVE  ThreadsTyped'
<1>0. ServerTyped /\ HandleInv /\ LocalsTyped
  BY DEF RouteInv
<1> DEFINE Flags == UNCHANGED <<stop_execution, server_active, executor, stop_on_failure>>
           Workers == {"idle", "loop", "execute", "ended", "exiting"}
           GoalStatuses == {"UNKNOWN", "PROCESSING", "FAILED", "SUCCEEDED"}
<1>1. CASE followWaypoints /\ UNCHANGED <<runnerVars, count>>
  <2>1. Flags
    BY <1>1 DEF followWaypoints, get_current_goal, is_server_active, check_cancel, is_preempt_requested,
                preempt, send_goal, publish_feedback, check_status, finish, spin, spin_cancel, switches
  <2>2. preempt_requested' \in BOOLEAN
    <3>1. \/ UNCHANGED handles \/ terminate_all \/ terminate_current \/ succeeded_current
          \/ accept_pending_goal
      BY <1>1 DEF followWaypoints, get_current_goal, is_server_active, check_cancel, is_preempt_requested,
                  preempt, send_goal, publish_feedback, check_status, finish, spin, spin_cancel
    <3>2. QED
      BY <3>1, HandlesTyped DEF ThreadsTyped
  <2>3. worker' \in Workers /\ pc' \in Places
    <3>1. ASSUME NEW l \in Places, Goto(l) PROVE worker' \in Workers /\ pc' \in Places
      BY <3>1 DEF Goto, ThreadsTyped
    <3>2. ASSUME Return PROVE worker' \in Workers /\ pc' \in Places
      BY <3>2 DEF Return, Places
    <3>3. Return \/ \E l \in Places : Goto(l)
      <4>1. CASE get_current_goal \/ check_cancel \/ is_preempt_requested \/ preempt \/ publish_feedback
        BY <4>1 DEF get_current_goal, check_cancel, is_preempt_requested, preempt, publish_feedback, Places
      <4>2. CASE is_server_active \/ finish
        BY <4>2 DEF is_server_active, finish, Places
      <4>3. CASE send_goal
        BY <4>3 DEF send_goal, Places
      <4>4. CASE check_status
        BY <4>4 DEF check_status, Places
      <4>5. CASE spin \/ spin_cancel
        BY <4>5 DEF spin, spin_cancel, goalResponseCallback, resultCallback, Places
      <4>6. QED
        BY <1>1, <4>1, <4>2, <4>3, <4>4, <4>5 DEF followWaypoints
    <3>4. QED
      BY <3>1, <3>2, <3>3
  <2>4. new_goal' \in BOOLEAN
    <3>1. CASE check_status
      BY <3>1 DEF check_status
    <3>2. CASE send_goal
      BY <3>2 DEF send_goal, ThreadsTyped
    <3>3. CASE \E g : NewGoal(g)
      BY <3>3 DEF NewGoal
    <3>4. CASE UNCHANGED new_goal
      BY <3>4 DEF ThreadsTyped
    <3>5. QED
      BY <1>1, <3>1, <3>2, <3>3, <3>4
         DEF followWaypoints, get_current_goal, is_server_active, Return, check_cancel, is_preempt_requested,
             preempt, publish_feedback, finish, spin, spin_cancel, locals
  <2>5. goal_status' \in GoalStatuses
    <3>1. CASE spin \/ spin_cancel
      <4>1. \A n \in NavIds : StatusOf(nav[n]) \in {"UNKNOWN", "FAILED", "SUCCEEDED"}
        BY DEF StatusOf
      <4>2. \/ goal_status' \in {goal_status, "FAILED"}
            \/ \E n \in NavIds : goal_status' = StatusOf(nav[n])
        BY <3>1 DEF spin, spin_cancel, goalResponseCallback, resultCallback
      <4>3. QED
        BY <4>1, <4>2 DEF ThreadsTyped
    <3>2. CASE ~(spin \/ spin_cancel)
      <4>1. goal_status' \in {goal_status, "PROCESSING"}
        BY <1>1, <3>2
           DEF followWaypoints, get_current_goal, is_server_active, check_cancel, is_preempt_requested,
               preempt, send_goal, publish_feedback, check_status, finish
      <4>2. QED
        BY <4>1 DEF ThreadsTyped
    <3>3. QED
      BY <3>1, <3>2
  <2>6. cancel' \in {"none", "sent", "done"}
    <3>1. cancel' \in {cancel, "none", "sent"}
      BY <1>1 DEF followWaypoints, get_current_goal, is_server_active, check_cancel, is_preempt_requested,
                  preempt, send_goal, publish_feedback, check_status, finish, spin, spin_cancel, navVars
    <3>2. QED
      BY <3>1 DEF ThreadsTyped
  <2>7. QED
    BY <2>1, <2>2, <2>3, <2>4, <2>5, <2>6 DEF ThreadsTyped
<1>2. CASE ServerStep /\ UNCHANGED <<followerVars, runnerVars>>
  <2>1. UNCHANGED <<pc, new_goal, stop_on_failure, goal_status, cancel>>
    BY <1>2 DEF followerVars
  <2>2. preempt_requested' \in BOOLEAN
    <3>1. CASE \E g \in Goals : handle_goal(g) \/ handle_cancel(g)
      BY <3>1 DEF handle_goal, handle_cancel, ThreadsTyped
    <3>2. CASE \/ UNCHANGED handles \/ terminate_all \/ terminate_current \/ accept_pending_goal
      BY <3>2, HandlesTyped DEF ThreadsTyped
    <3>3. QED
      BY <1>2, <3>1, <3>2 DEF ServerStep, work_tests, work_ended, work_exits, deactivate_timeout,
                              deactivate_returns, activate, deactivate, handles
  <2>3. stop_execution' \in BOOLEAN /\ server_active' \in BOOLEAN
    <3>1. \/ UNCHANGED <<stop_execution, server_active>>
          \/ stop_execution' = TRUE /\ server_active' = FALSE
          \/ stop_execution' = FALSE /\ server_active' = TRUE
      BY <1>2 DEF ServerStep, work_tests, work_ended, work_exits, deactivate_timeout, handle_goal,
                  handle_cancel, deactivate_returns, activate, deactivate, switches
    <3>2. QED
      BY <3>1 DEF ThreadsTyped
  <2>4. executor' \in {"idle", "deactivating"} /\ worker' \in Workers
    <3>1. executor' \in {executor, "idle", "deactivating"}
      BY <1>2 DEF ServerStep, work_tests, work_ended, work_exits, deactivate_timeout, handle_goal,
                  handle_cancel, deactivate_returns, activate, deactivate, switches
    <3>2. worker' \in {worker, "idle", "loop", "execute", "exiting"}
      BY <1>2 DEF ServerStep, work_tests, work_ended, work_exits, deactivate_timeout, handle_goal,
                  handle_cancel, deactivate_returns, activate, deactivate
    <3>3. QED
      BY <3>1, <3>2 DEF ThreadsTyped
  <2>5. QED
    BY <2>1, <2>2, <2>3, <2>4 DEF ThreadsTyped
<1>3. CASE dynamicParametersCallback /\ UNCHANGED runnerVars
  <2>1. stop_on_failure' \in BOOLEAN
    BY <1>3 DEF dynamicParametersCallback
  <2>2. QED
    BY <1>3, <2>1 DEF dynamicParametersCallback, serverVars, ThreadsTyped
<1>4. CASE NavStep /\ UNCHANGED <<runnerVars, serverVars>>
  <2>1. UNCHANGED <<pc, new_goal, stop_on_failure, goal_status>> /\ cancel' \in {cancel, "done"}
    BY <1>4 DEF NavStep, NavCancels, NavAccepts, NavEnds, NavRejects, navOnly
  <2>2. QED
    BY <1>4, <2>1 DEF serverVars, ThreadsTyped
<1>5. ASSUME NEW g \in Goals, NEW s \in {"requested", "none"}, NEW n \in 0 .. MaxPoses, ClientStep(g, s, n)
      PROVE  ThreadsTyped'
  BY <1>5 DEF ClientStep, GoalBecomes, switches, locals, navVars, ThreadsTyped
<1>6. CASE UNCHANGED <<serverVars, followerVars>>
  BY <1>6 DEF serverVars, followerVars, ThreadsTyped
<1>7. QED
  BY <1>0, <1>1, <1>2, <1>3, <1>4, <1>5, <1>6, Steps

LEMMA ReportKept ==
  ASSUME RouteInv, ReportTyped, [Next]_vars
  PROVE  ReportTyped'
<1> USE GoalsAssumption, FollowerAssumption
<1>0. ServerTyped /\ HandleInv /\ LocalsTyped /\ PlaceInv
  BY DEF RouteInv
<1>1. CASE UNCHANGED <<missed, failed_ids>>
  BY <1>1 DEF ReportTyped
<1>2. CASE check_status
  <2>1. missed' = missed /\ failed_ids' \in {failed_ids, failed_ids \cup {goal_index}}
    BY <1>2 DEF check_status
  <2>2. goal_index \in 0 .. MaxPoses
    BY <1>0 DEF LocalsTyped, PlaceInv
  <2>3. QED
    BY <2>1, <2>2 DEF ReportTyped
<1>3. CASE finish
  <2>1. /\ failed_ids' \in {failed_ids, {}}
        /\ missed' = missed \/ \E ids \in SUBSET (0 .. MaxPoses) : Answers(ids)
    BY <1>3 DEF finish, ReportTyped
  <2>2. ASSUME NEW ids \in SUBSET (0 .. MaxPoses), Answers(ids)
        PROVE  missed' \in [Goals -> SUBSET (0 .. MaxPoses)]
    BY <2>2 DEF Answers, ReportTyped
  <2>3. QED
    BY <2>1, <2>2 DEF ReportTyped
<1>4. ASSUME NEW g \in Goals, NEW s \in {"requested", "none"}, NEW n \in 0 .. MaxPoses, ClientStep(g, s, n)
      PROVE  ReportTyped'
  BY <1>4 DEF ClientStep, GoalBecomes, ReportTyped
<1>5. CASE followWaypoints
  BY <1>1, <1>2, <1>3, <1>5
     DEF followWaypoints, get_current_goal, is_server_active, check_cancel, is_preempt_requested, preempt,
         send_goal, publish_feedback, spin, spin_cancel
<1>6. CASE NavStep
  BY <1>1, <1>6 DEF NavStep, NavCancels, NavAccepts, NavEnds, NavRejects, navOnly
<1>7. CASE dynamicParametersCallback \/ UNCHANGED followerVars
  BY <1>1, <1>7 DEF dynamicParametersCallback, followerVars
<1>8. QED
  BY <1>0, <1>4, <1>5, <1>6, <1>7, Steps

LEMMA CountKept ==
  ASSUME CountBounded, [Next]_vars
  PROVE  CountBounded'
<1>1. stable' \in BOOLEAN
  <2>1. \/ stable' = stable \/ stable' = TRUE \/ \E p \in Poses \cup {NoPose} : stable' = (stable /\ p = NoPose)
    BY DEF Next, vars, runnerVars, Follower, Executor, Requests, Navigation, Rejections,
           RunnerCallbacks, initialpose_cb, waypoints_marker_cb, amcl_pose_cb, Run,
           wait_for_stable_waypoints, get_locked_loop_start, get_result, TimePasses, OperatorGoal
  <2>2. QED
    BY <2>1 DEF CountBounded
<1>2. rpc' \in {"stable", "start", "goal", "dead"}
  <2>1. rpc' \in {rpc, "stable", "start", "goal", "dead"}
    BY DEF Next, vars, runnerVars, Follower, Executor, Requests, Navigation, Rejections,
           RunnerCallbacks, initialpose_cb, waypoints_marker_cb, amcl_pose_cb, Run,
           wait_for_stable_waypoints, get_locked_loop_start, get_result, TimePasses, OperatorGoal
  <2>2. QED
    BY <2>1 DEF CountBounded
<1>3. count' = count \/ \E e \in Events : Happens(e)
  BY DEF Next, vars, Follower, Executor, Requests, Navigation, Rejections, RunnerCallbacks,
         initialpose_cb, waypoints_marker_cb, amcl_pose_cb, others, Run, wait_for_stable_waypoints,
         get_locked_loop_start, get_result, TimePasses, OperatorGoal, Events
<1>4. \A e \in Events : Bound[e] \in Nat
  BY LoopAssumption DEF Bound, Events
<1>5. CountTyped' /\ \A e \in Events : count'[e] <= Bound[e]
  <2>1. CASE count' = count
    BY <2>1 DEF CountBounded, CountTyped
  <2>2. ASSUME NEW e \in Events, Happens(e)
        PROVE  CountTyped' /\ \A f \in Events : count'[f] <= Bound[f]
    <3>1. count' = [count EXCEPT ![e] = count[e] + 1] /\ count[e] < Bound[e] /\ count[e] \in Nat
      BY <2>2 DEF Happens, CountBounded, CountTyped
    <3>2. QED
      BY <1>4, <3>1 DEF CountBounded, CountTyped
  <2>3. QED
    BY <1>3, <2>1, <2>2
<1>6. Bound' = Bound
  BY DEF Bound
<1>7. QED
  BY <1>1, <1>2, <1>5, <1>6 DEF CountBounded

\* The type invariant of the runner, the follower and its action server together,
\* for any number of poses, navigation goals and events: among the types, that
\* every pose driven to, reached or reported missed is a pose some goal may have.
THEOREM TypeCorrect == Spec => []TypeOK
<1> DEFINE I == RouteInv /\ DriveInv /\ StartInv /\ ThreadsTyped /\ ReportTyped /\ CountBounded
<1>1. Init => I
  <2> SUFFICES ASSUME Init PROVE I
    OBVIOUS
  <2>1. ThreadsTyped
    BY DEF Init, ThreadsTyped, Places
  <2>2. ReportTyped
    BY DEF Init, ReportTyped
  <2>3. stable \in BOOLEAN /\ rpc \in {"stable", "start", "goal", "dead"}
    BY DEF Init
  <2>4. CountTyped /\ \A e \in Events : count[e] <= Bound[e]
    BY LoopAssumption DEF Init, CountTyped, Bound, Events
  <2>5. QED
    BY <2>1, <2>2, <2>3, <2>4, RouteInit, DriveInit, StartInit DEF CountBounded
<1>2. I /\ [Next]_vars => I'
  BY RouteStep, DriveKept, StartKept, ThreadsKept, ReportKept, CountKept
<1>3. I => TypeOK
  <2> SUFFICES ASSUME I PROVE TypeOK
    OBVIOUS
  <2> USE FollowerAssumption
  <2>0. goal_size \in 0 .. MaxPoses /\ goal_index \in 0 .. MaxPoses
    BY DEF RouteInv, LocalsTyped, PlaceInv
  <2>1. leg \in [NavIds -> 0 .. NoLeg] /\ arrived \in SUBSET (0 .. MaxPoses)
    <3>1. \A n \in NavIds : leg[n] \in 0 .. NoLeg
      BY <2>0 DEF DriveInv, NoLeg
    <3>2. leg \in [NavIds -> Nat]
      BY DEF RouteInv, NavTyped
    <3>3. QED
      BY <2>0, <3>1, <3>2 DEF DriveInv
  <2>2. {preempt_requested, stop_execution, server_active, new_goal, stop_on_failure, stable} \subseteq BOOLEAN
    BY Zenon DEF ThreadsTyped, CountBounded
  <2>3. \A e \in Events : count[e] \in 0 .. Bound[e]
    <3>1. \A e \in Events : Bound[e] \in Nat
      BY LoopAssumption DEF Bound, Events
    <3>2. QED
      BY <3>1 DEF CountBounded, CountTyped
  <2>4. /\ status \in [Goals -> Statuses]
        /\ current \in Goals \cup {NoGoal} /\ pending \in Goals \cup {NoGoal}
        /\ size \in [Goals -> 0 .. MaxPoses] /\ goal \in Goals \cup {NoGoal}
        /\ future \in NavIds \cup {NoNav}
        /\ response \in [NavIds -> {"none", "sent", "accepted", "rejected", "delivered"}]
        /\ nav \in [NavIds -> {"none", "driving", "canceling"} \cup Terminal]
    BY DEF RouteInv, ServerTyped, LocalsTyped, NavTyped
  <2>5. /\ executor \in {"idle", "deactivating"}
        /\ worker \in {"idle", "loop", "execute", "ended", "exiting"} /\ pc \in Places
        /\ goal_status \in {"UNKNOWN", "PROCESSING", "FAILED", "SUCCEEDED"}
        /\ cancel \in {"none", "sent", "done"}
    BY DEF ThreadsTyped
  <2>6. QED
    BY <2>0, <2>1, <2>2, <2>3, <2>4, <2>5
       DEF TypeOK, ReportTyped, CountBounded, StartInv, RunnerTyped, Places
<1> HIDE DEF I
<1>4. QED
  BY <1>1, <1>2, <1>3, PTL DEF Spec
=============================================================================
