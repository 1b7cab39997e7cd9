-------------------------- MODULE WaypointFollower --------------------------
(***************************************************************************)
(* nav2_waypoint_follower: followWaypoints(), the callback the worker of a  *)
(* SimpleActionServer executes.  It drives to the poses of a goal one after *)
(* the other as a client of navigate_to_pose, whose answers it receives     *)
(* only where it spins the client's executor itself.                        *)
(*                                                                         *)
(* A goal is abstracted to the number of its poses, a goal it sends to      *)
(* navigate_to_pose to an identifier that is used again once nothing of it  *)
(* is under way.  Of the navigation server, bt_navigator, there is what its *)
(* own SimpleActionServer answers; what its tree does is any outcome.       *)
(***************************************************************************)
EXTENDS SimpleActionServer

CONSTANTS
    NavIds,        \* navigation goals that may be under way at a time
    NoNav,         \* a null navigation goal handle
    MaxPoses,      \* bound: poses of a goal
    TaskOutcomes   \* what processAtWaypoint may return

ASSUME FollowerAssumption ==
    /\ NoNav \notin NavIds /\ MaxPoses \in Nat
    /\ TaskOutcomes \in SUBSET BOOLEAN

VARIABLES
    size,            \* poses.size() of each goal
    missed,          \* result->missed_waypoints of each goal
    pc,              \* where followWaypoints() is
    goal,            \* its local goal
    goal_size,       \* poses.size() of that goal, which outlives the client's
    goal_index, new_goal,
    future,          \* the navigation goal future_goal_handle_ belongs to
    goal_status,     \* current_goal_status_
    failed_ids,      \* failed_ids_
    stop_on_failure, \* stop_on_failure_
    response,        \* goal response of each navigation goal; "none": identifier free
    nav,             \* what the navigation server does with it
    cancel,          \* the answer to async_cancel_all_goals
    leg,             \* ghost: the index of this goal each unfinished navigation goal was sent for
    arrived          \* ghost: the indices of this goal the robot has reached

followerVars == <<size, missed, pc, goal, goal_size, goal_index, new_goal, future,
                  goal_status, failed_ids, stop_on_failure, response, nav, cancel, leg, arrived>>
locals == <<goal, goal_size, goal_index, new_goal>>
navVars == <<response, nav, cancel>>
ghosts == <<leg, arrived>>

NoLeg == MaxPoses + 1
Stuck == pc \in {"blocked", "crashed"}
-----------------------------------------------------------------------------
(* followWaypoints(), one step per call that another thread can come between. *)

At(l) == worker = "execute" /\ pc = l
Goto(l) == pc' = l /\ UNCHANGED worker

NewGoal(g) ==
    /\ goal' = g /\ goal_size' = (IF g = NoGoal THEN 0 ELSE size[g])
    /\ goal_index' = 0 /\ new_goal' = TRUE
    /\ leg' = [n \in NavIds |-> NoLeg] /\ arrived' = {}

\* The locals are gone when the function has returned.
Return == worker' = "ended" /\ pc' = "get_current_goal" /\ NewGoal(NoGoal)

get_current_goal ==
    /\ At("get_current_goal") /\ Goto("is_server_active")
    /\ NewGoal(IF is_active(current) THEN current ELSE NoGoal)
    /\ UNCHANGED <<size, missed, future, goal_status, failed_ids, stop_on_failure>>
    /\ UNCHANGED handles /\ UNCHANGED switches /\ UNCHANGED navVars

is_server_active ==
    /\ At("is_server_active")
    /\ IF ~server_active THEN Return
       ELSE /\ Goto(IF goal = NoGoal THEN "crashed" ELSE IF goal_size = 0 THEN "empty" ELSE "top")
            /\ UNCHANGED locals /\ UNCHANGED ghosts
    /\ UNCHANGED <<size, missed, future, goal_status, failed_ids, stop_on_failure>>
    /\ UNCHANGED handles /\ UNCHANGED switches /\ UNCHANGED navVars

\* The head of the loop: a cancellation is passed on to the navigation server.
check_cancel ==
    /\ At("top")
    /\ IF is_cancel_requested
       THEN Goto("cancelling") /\ cancel' = "sent"
       ELSE Goto("preempt") /\ UNCHANGED cancel
    /\ UNCHANGED <<size, missed, future, goal_status, failed_ids, stop_on_failure, response, nav>>
    /\ UNCHANGED handles /\ UNCHANGED switches /\ UNCHANGED locals /\ UNCHANGED ghosts

is_preempt_requested ==
    /\ At("preempt")
    /\ Goto(IF preempt_requested THEN "accept" ELSE "send")
    /\ UNCHANGED <<size, missed, future, goal_status, failed_ids, stop_on_failure>>
    /\ UNCHANGED handles /\ UNCHANGED switches /\ UNCHANGED navVars
    /\ UNCHANGED locals /\ UNCHANGED ghosts

preempt ==
    /\ At("accept") /\ Goto("send")
    /\ NewGoal(IF is_active(pending) THEN pending ELSE NoGoal)
    /\ accept_pending_goal
    /\ UNCHANGED <<size, missed, future, goal_status, failed_ids, stop_on_failure>>
    /\ UNCHANGED switches /\ UNCHANGED navVars

\* A future that is overwritten gives up the handle of a goal that has ended.
Released ==
    IF future # NoNav /\ response[future] = "delivered" /\ nav[future] = "none"
    THEN [response EXCEPT ![future] = "none"] ELSE response

\* async_send_goal for the next pose.  A null goal, or a preempting goal without
\* poses, is dereferenced all the same.
send_goal ==
    /\ At("send")
    /\ IF ~new_goal
       THEN Goto("feedback") /\ UNCHANGED <<new_goal, future, goal_status, response, leg>>
       ELSE IF goal_size = 0
       THEN Goto("crashed") /\ UNCHANGED <<new_goal, future, goal_status, response, leg>>
       ELSE \E n \in NavIds :
            /\ Released[n] = "none" /\ \A m \in NavIds : Released[m] = "none" => n <= m
            /\ response' = [Released EXCEPT ![n] = "sent"]
            /\ future' = n /\ goal_status' = "PROCESSING" /\ new_goal' = FALSE
            /\ leg' = [leg EXCEPT ![n] = goal_index]
            /\ Goto("feedback")
    /\ UNCHANGED <<size, missed, goal, goal_size, goal_index, failed_ids, stop_on_failure, nav, cancel, arrived>>
    /\ UNCHANGED handles /\ UNCHANGED switches

\* publish_feedback reads current_handle_ twice, without the mutex.
publish_feedback ==
    /\ \/ At("feedback") /\ Goto(IF is_active(current) THEN "publish" ELSE "status")
       \/ At("publish") /\ Goto(IF current = NoGoal THEN "crashed" ELSE "status")
    /\ UNCHANGED <<size, missed, future, goal_status, failed_ids, stop_on_failure>>
    /\ UNCHANGED handles /\ UNCHANGED switches /\ UNCHANGED navVars
    /\ UNCHANGED locals /\ UNCHANGED ghosts

\* Mutant: everything but an unknown status ends a pose.
ProcessedUnlessUnknown == goal_status # "UNKNOWN"

\* The current pose is dealt with, and it was the goal's last.
Processed == goal_status \in {"FAILED", "SUCCEEDED"}
IsLast == goal_index + 1 >= goal_size

\* What has become of the current pose: failed poses are noted, and with
\* stop_on_failure_ they, or a failed task, end the goal.
check_status ==
    /\ At("status")
    /\ \E task \in (IF goal_status = "SUCCEEDED" THEN TaskOutcomes ELSE {TRUE}) :
       LET failed == goal_status = "FAILED"
           stops == stop_on_failure /\ (failed \/ ~task)
           done == Processed /\ ~stops IN
         /\ failed_ids' = IF failed \/ stops THEN failed_ids \cup {goal_index} ELSE failed_ids
         /\ goal_index' = IF done THEN goal_index + 1 ELSE goal_index
         /\ new_goal' = (new_goal \/ done)
         /\ Goto(IF stops THEN "abort"
                 ELSE IF done /\ IsLast THEN "complete" ELSE "spin")
    /\ UNCHANGED <<size, missed, goal, goal_size, future, goal_status, stop_on_failure>>
    /\ UNCHANGED handles /\ UNCHANGED switches /\ UNCHANGED navVars /\ UNCHANGED ghosts

\* The ends of the function: the result goes to the current goal if it is active.
Answers(ids) == missed' = IF is_active(current) THEN [missed EXCEPT ![current] = ids] ELSE missed

finish ==
    /\ \/ At("empty") /\ succeeded_current /\ Answers({}) /\ UNCHANGED failed_ids
       \/ At("complete") /\ succeeded_current /\ Answers(failed_ids) /\ failed_ids' = {}
       \/ At("abort") /\ terminate_current /\ Answers(failed_ids) /\ failed_ids' = {}
       \/ At("cancelled") /\ terminate_all /\ UNCHANGED <<missed, failed_ids>>
    /\ Return
    /\ UNCHANGED <<size, future, goal_status, stop_on_failure>>
    /\ UNCHANGED switches /\ UNCHANGED navVars
-----------------------------------------------------------------------------
(* What the client's executor delivers while the worker spins it.  A goal's *)
(* result is asked for when its response has been delivered, and a response *)
(* is taken before a result.                                                *)

Responses == {n \in NavIds : response[n] \in {"accepted", "rejected"}}
Results == {n \in NavIds : response[n] = "delivered" /\ nav[n] \in Terminal}

goalResponseCallback(n, next) ==
    /\ n \in Responses
    /\ IF response[n] = "accepted"
       THEN response' = [response EXCEPT ![n] = "delivered"] /\ UNCHANGED <<future, goal_status>>
       ELSE /\ response' = [response EXCEPT ![n] = "none"]
            /\ future' = IF future = n THEN NoNav ELSE future
            /\ goal_status' = "FAILED"
    /\ Goto(next)
    /\ UNCHANGED nav

\* Mutant: an aborted navigation is not a failure.
StatusOfUnlessAborted(s) ==
    CASE s = "succeeded" -> "SUCCEEDED" [] s = "aborted" -> "UNKNOWN" [] OTHER -> "FAILED"

\* The status a result stands for.
StatusOf(s) ==
    CASE s = "succeeded" -> "SUCCEEDED" [] s \in {"aborted", "canceled"} -> "FAILED" [] OTHER -> "UNKNOWN"

\* Mutant: the goal a result belongs to is not looked at.
IsAnyGoals(n) == TRUE

\* Whether a result is the current goal's.
IsCurrentGoals(n) == n = future

\* future_goal_handle_.get() waits for a response that only this executor could
\* deliver, and is null for a goal that was rejected.
resultCallback(n, next) ==
    /\ Responses = {} /\ n \in Results
    /\ IF future = NoNav THEN Goto("crashed") /\ UNCHANGED <<response, nav, goal_status>>
       ELSE IF response[future] # "delivered"
       THEN Goto("blocked") /\ UNCHANGED <<response, nav, goal_status>>
       ELSE /\ Goto(next)
            /\ nav' = [nav EXCEPT ![n] = "none"]
            /\ IF IsCurrentGoals(n)
               THEN goal_status' = StatusOf(nav[n]) /\ UNCHANGED response
               ELSE response' = [response EXCEPT ![n] = "none"] /\ UNCHANGED goal_status
    /\ UNCHANGED future

\* spin_some executes what is ready, at least one callback if there is one.
spin ==
    /\ \/ \E l \in {"top", "spin"} : At("spin") /\
            \E n \in NavIds : goalResponseCallback(n, l) \/ resultCallback(n, l)
       \/ /\ At("spin") /\ Responses \cup Results = {}
          /\ Goto("top") /\ UNCHANGED <<response, nav, future, goal_status>>
    /\ UNCHANGED <<size, missed, failed_ids, stop_on_failure, cancel>>
    /\ UNCHANGED handles /\ UNCHANGED switches /\ UNCHANGED locals /\ UNCHANGED ghosts

\* spin_until_future_complete, then spin_some.
spin_cancel ==
    /\ \/ At("cancelling") /\ UNCHANGED cancel /\
            \E n \in NavIds : goalResponseCallback(n, "cancelling") \/ resultCallback(n, "cancelling")
       \/ /\ At("cancelling") /\ cancel = "done" /\ cancel' = "none"
          /\ Goto("spin_cancelled") /\ UNCHANGED <<response, nav, future, goal_status>>
       \/ At("spin_cancelled") /\ UNCHANGED cancel /\
            \E n \in NavIds : goalResponseCallback(n, "cancelled") \/ resultCallback(n, "cancelled")
       \/ /\ At("spin_cancelled") /\ Responses \cup Results = {}
          /\ Goto("cancelled") /\ UNCHANGED <<response, nav, future, goal_status, cancel>>
    /\ UNCHANGED <<size, missed, failed_ids, stop_on_failure>>
    /\ UNCHANGED handles /\ UNCHANGED switches /\ UNCHANGED locals /\ UNCHANGED ghosts

followWaypoints ==
    \/ get_current_goal \/ is_server_active \/ check_cancel \/ is_preempt_requested \/ preempt
    \/ send_goal \/ publish_feedback \/ check_status \/ finish \/ spin \/ spin_cancel

\* On the executor thread, while the worker may be anywhere.
dynamicParametersCallback ==
    /\ executor = "idle" /\ server_active
    /\ stop_on_failure' = ~stop_on_failure
    /\ UNCHANGED serverVars
    /\ UNCHANGED <<size, missed, pc, goal, goal_size, goal_index, new_goal, future,
                   goal_status, failed_ids, response, nav, cancel, leg, arrived>>
-----------------------------------------------------------------------------
(* The navigation server, as the follower uses it. *)

Driving == {n \in NavIds : nav[n] \in {"driving", "canceling"}}
navOnly == <<size, missed, pc, goal, goal_size, goal_index, new_goal, future,
             goal_status, failed_ids, stop_on_failure>>

\* A new goal preempts the one before it: onPreempt accepts it, as a goal that
\* names no behaviour tree asks for the one that is running.
NavAccepts(n) ==
    /\ response[n] = "sent"
    /\ response' = [response EXCEPT ![n] = "accepted"]
    /\ nav' = [m \in NavIds |-> IF m = n THEN "driving" ELSE IF m \in Driving THEN "aborted" ELSE nav[m]]
    /\ leg' = [m \in NavIds |-> IF m \in Driving THEN NoLeg ELSE leg[m]]
    /\ UNCHANGED <<cancel, arrived>> /\ UNCHANGED navOnly /\ UNCHANGED serverVars

\* The server is not active; then it drives nowhere.
NavRejects(n) ==
    /\ response[n] = "sent" /\ Driving = {}
    /\ response' = [response EXCEPT ![n] = "rejected"]
    /\ leg' = [leg EXCEPT ![n] = NoLeg]
    /\ UNCHANGED <<nav, cancel, arrived>> /\ UNCHANGED navOnly /\ UNCHANGED serverVars

\* What the tree returns: success, failure, or a halt on cancellation or
\* deactivation; terminate() reports a goal being cancelled as canceled.
NavEnds(n) ==
    /\ n \in Driving
    /\ \E s \in {"succeeded", IF nav[n] = "canceling" THEN "canceled" ELSE "aborted"} :
         /\ nav' = [nav EXCEPT ![n] = s]
         /\ arrived' = IF s = "succeeded" /\ leg[n] # NoLeg THEN arrived \cup {leg[n]} ELSE arrived
    /\ leg' = [leg EXCEPT ![n] = NoLeg]
    /\ UNCHANGED <<response, cancel>> /\ UNCHANGED navOnly /\ UNCHANGED serverVars

\* Goal requests are taken before the cancel request.
NavCancels ==
    /\ cancel = "sent" /\ \A n \in NavIds : response[n] # "sent"
    /\ cancel' = "done"
    /\ nav' = [n \in NavIds |-> IF n \in Driving THEN "canceling" ELSE nav[n]]
    /\ UNCHANGED response /\ UNCHANGED ghosts /\ UNCHANGED navOnly /\ UNCHANGED serverVars
=============================================================================
