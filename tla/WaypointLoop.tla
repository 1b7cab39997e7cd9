---------------------------- MODULE WaypointLoop ----------------------------
(***************************************************************************)
(* model/scripts/waypoint_loop_runner.py over the waypoint follower: the    *)
(* runner waits until the clicked goal is stable, locks the confirmed start *)
(* pose, sends both as a follow_waypoints goal, waits for the result and    *)
(* begins again.  It hears its topics only where it spins.  Another client  *)
(* (the operator's panel) sends goals of its own and cancels any, and the   *)
(* lifecycle manager deactivates and activates the follower.                *)
(*                                                                         *)
(* Modelled with the launch file's parameters: waypoints from the marker    *)
(* topic, loop_forever and retry_on_miss.                                   *)
(***************************************************************************)
EXTENDS WaypointFollower

CONSTANTS
    Runner, Operator,   \* the goals of the two clients
    Poses,              \* poses a user may click; two are at least 5 cm apart
    NoPose,
    MaxClicks,          \* bound: marker messages
    MaxEstimates,       \* bound: 2D Estimates
    EstimatePoses,      \* those of them a user may confirm as the robot's
    AmclPoses,          \* those of them the localisation may report
    MaxDisturbances     \* bound: operator's goals, cancellations, deactivations, parameter
                        \* changes and goals the navigation server rejects

ASSUME LoopAssumption ==
    /\ Goals = {Runner, Operator} /\ Runner # Operator
    /\ NoPose \notin Poses
    /\ EstimatePoses \cup AmclPoses \subseteq Poses
    /\ {MaxClicks, MaxEstimates, MaxDisturbances} \subseteq Nat
    /\ MaxPoses >= 2

VARIABLES
    rpc,                \* where run() is
    poses,              \* self.poses: the last clicked goal or none
    stable,             \* path_stable_sec have passed since last_waypoints_update
    latest_start, loop_start,  \* latest_start_pose, loop_start_pose
    route,              \* target_pose, and start_pose once it is taken
    count               \* how often each bounded event has happened

others == <<serverVars, followerVars, count>>
runnerVars == <<rpc, poses, stable, latest_start, loop_start, route>>
vars == <<serverVars, followerVars, runnerVars, count>>

Events == {"click", "estimate", "disturbance"}
Bound == [click |-> MaxClicks, estimate |-> MaxEstimates, disturbance |-> MaxDisturbances]
Happens(e) == count[e] < Bound[e] /\ count' = [count EXCEPT ![e] = @ + 1]
-----------------------------------------------------------------------------
(* The runner's callbacks, executed where it spins: a message that comes while *)
(* it does not is heard afterwards.                                           *)

Spinning == rpc \in {"stable", "start", "goal"}

\* Mutant: the locked start survives a new estimate.
initialpose_keeps_lock(p) ==
    /\ Spinning /\ Happens("estimate")
    /\ latest_start' = p
    /\ UNCHANGED <<rpc, poses, stable, loop_start, route>>
    /\ UNCHANGED serverVars /\ UNCHANGED followerVars

\* A new 2D Estimate releases the locked start.
initialpose_cb(p) ==
    /\ Spinning /\ Happens("estimate")
    /\ latest_start' = p
    /\ loop_start' = NoPose
    /\ UNCHANGED <<rpc, poses, stable, route>>
    /\ UNCHANGED serverVars /\ UNCHANGED followerVars

\* The localisation's pose counts only until there is any other.
amcl_pose_cb ==
    /\ Spinning /\ latest_start = NoPose
    /\ latest_start' \in AmclPoses
    /\ UNCHANGED <<rpc, poses, stable, loop_start, route>> /\ UNCHANGED others

\* The goal clicked last replaces the one before.  DELETEALL (NoPose here)
\* leaves the time of the last update alone.
waypoints_marker_cb(p) ==
    /\ Spinning /\ Happens("click")
    /\ poses' = p
    /\ stable' = (stable /\ p = NoPose)
    /\ UNCHANGED <<rpc, latest_start, loop_start, route>>
    /\ UNCHANGED serverVars /\ UNCHANGED followerVars

TimePasses ==
    /\ ~stable /\ stable' = TRUE
    /\ UNCHANGED <<rpc, poses, latest_start, loop_start, route>>
    /\ UNCHANGED others
-----------------------------------------------------------------------------
(* run(). *)

\* A client sends a goal with n poses; it is done with a goal when it has read
\* the result.
GoalBecomes(g, s, n) ==
    /\ status' = [status EXCEPT ![g] = s]
    /\ size' = [size EXCEPT ![g] = n] /\ missed' = [missed EXCEPT ![g] = {}]
    /\ UNCHANGED <<current, pending, preempt_requested, worker>> /\ UNCHANGED switches
    /\ UNCHANGED <<pc, future, goal_status, failed_ids, stop_on_failure>>
    /\ UNCHANGED locals /\ UNCHANGED navVars /\ UNCHANGED ghosts
Request(g, n) == GoalBecomes(g, "requested", n)
Forget(g) == GoalBecomes(g, "none", 0)

\* _wait_for_stable_waypoints returns and the target is copied.
wait_for_stable_waypoints ==
    /\ rpc = "stable" /\ poses # NoPose /\ stable
    /\ rpc' = "start"
    /\ route' = [start |-> NoPose, target |-> poses]
    /\ UNCHANGED <<poses, stable, latest_start, loop_start>>
    /\ UNCHANGED others

\* _get_locked_loop_start returns; a target on the start is not driven to.
get_locked_loop_start ==
    /\ rpc = "start" /\ latest_start # NoPose
    /\ LET start == IF loop_start = NoPose THEN latest_start ELSE loop_start
           far == start # route.target IN
         /\ loop_start' = start
         /\ route' = [route EXCEPT !.start = start]
         /\ rpc' = IF far THEN "goal" ELSE "stable"
         /\ IF far THEN Request(Runner, 2) ELSE UNCHANGED serverVars /\ UNCHANGED followerVars
    /\ UNCHANGED <<poses, stable, latest_start, count>>

\* The response, the result and the pause, through which it hears its topics or
\* waits.  A rejected goal raises and ends the runner; whatever the status of a
\* result, the next round follows, missed waypoints or not.
get_result ==
    /\ rpc = "goal" /\ status[Runner] \in Terminal \cup {"rejected"}
    /\ rpc' = IF status[Runner] = "rejected" THEN "dead" ELSE "stable"
    /\ route' = [start |-> NoPose, target |-> NoPose]
    /\ Forget(Runner)
    /\ UNCHANGED <<poses, stable, latest_start, loop_start, count>>
-----------------------------------------------------------------------------
(* The operator's own client. *)

OperatorGoal(n) ==
    /\ Happens("disturbance") /\ status[Operator] \in {"none", "rejected"} \cup Terminal
    /\ Request(Operator, n)
    /\ UNCHANGED runnerVars

-----------------------------------------------------------------------------
Init ==
    /\ status = [g \in Goals |-> "none"]
    /\ current = NoGoal /\ pending = NoGoal /\ preempt_requested = FALSE
    /\ stop_execution = FALSE /\ server_active = FALSE
    /\ executor = "idle" /\ worker = "idle"
    /\ size = [g \in Goals |-> 0] /\ missed = [g \in Goals |-> {}]
    /\ pc = "get_current_goal"
    /\ goal = NoGoal /\ goal_size = 0 /\ goal_index = 0 /\ new_goal = TRUE
    /\ future = NoNav /\ goal_status = "UNKNOWN" /\ failed_ids = {}
    /\ stop_on_failure = FALSE
    /\ response = [n \in NavIds |-> "none"] /\ nav = [n \in NavIds |-> "none"] /\ cancel = "none"
    /\ leg = [n \in NavIds |-> NoLeg] /\ arrived = {}
    /\ rpc = "stable" /\ poses = NoPose /\ stable = TRUE
    /\ latest_start = NoPose /\ loop_start = NoPose
    /\ route = [start |-> NoPose, target |-> NoPose]
    /\ count = [e \in Events |-> 0]

work == work_tests \/ work_ended \/ work_exits

\* The follower's process, unless it has crashed.
Follower ==
    /\ pc # "crashed"
    /\ \/ followWaypoints /\ UNCHANGED runnerVars /\ UNCHANGED count
       \/ work /\ UNCHANGED followerVars /\ UNCHANGED runnerVars /\ UNCHANGED count
Executor ==
    /\ pc # "crashed"
    /\ \/ \E g \in Goals : handle_goal(g)
       \/ deactivate_timeout \/ deactivate_returns \/ activate
    /\ UNCHANGED followerVars /\ UNCHANGED runnerVars /\ UNCHANGED count
Requests ==
    /\ pc # "crashed"
    /\ \/ Happens("disturbance") /\ (\E g \in Goals : handle_cancel(g)) /\ UNCHANGED followerVars
       \/ Happens("disturbance") /\ deactivate /\ UNCHANGED followerVars
       \/ Happens("disturbance") /\ dynamicParametersCallback
    /\ UNCHANGED runnerVars
Navigation ==
    /\ \/ NavCancels
       \/ \E n \in NavIds : NavAccepts(n) \/ NavEnds(n)
    /\ UNCHANGED runnerVars /\ UNCHANGED count
Rejections == Happens("disturbance") /\ (\E n \in NavIds : NavRejects(n)) /\ UNCHANGED runnerVars
RunnerCallbacks ==
    \/ \E p \in EstimatePoses : initialpose_cb(p)
    \/ \E p \in Poses \cup {NoPose} : waypoints_marker_cb(p)
    \/ amcl_pose_cb
Run == wait_for_stable_waypoints \/ get_locked_loop_start \/ get_result

Next == Follower \/ Executor \/ Requests \/ Navigation \/ Rejections \/ RunnerCallbacks \/ Run \/ TimePasses
        \/ \E n \in 0 .. 1 : OperatorGoal(n)

\* Threads run, messages arrive, and the navigation server answers what it is
\* sent and ends what it accepted.
Spec == /\ Init /\ [][Next]_vars
        /\ WF_vars(Follower) /\ WF_vars(Executor) /\ WF_vars(Navigation)
        /\ WF_vars(Run) /\ WF_vars(TimePasses)
-----------------------------------------------------------------------------
(* Properties. *)

\* Every handle, answer and counter of the three parts stays in its domain.
TypeOK ==
    /\ status \in [Goals -> Statuses]
    /\ current \in Goals \cup {NoGoal} /\ pending \in Goals \cup {NoGoal}
    /\ {preempt_requested, stop_execution, server_active, new_goal, stop_on_failure, stable} \subseteq BOOLEAN
    /\ executor \in {"idle", "deactivating"}
    /\ worker \in {"idle", "loop", "execute", "ended", "exiting"}
    /\ size \in [Goals -> 0 .. MaxPoses] /\ missed \in [Goals -> SUBSET (0 .. MaxPoses)]
    /\ pc \in {"get_current_goal", "is_server_active", "empty", "top", "cancelling", "spin_cancelled",
               "cancelled", "preempt", "accept", "send", "feedback", "publish", "status", "abort",
               "complete", "spin", "blocked", "crashed"}
    /\ goal \in Goals \cup {NoGoal} /\ {goal_size, goal_index} \subseteq 0 .. MaxPoses
    /\ future \in NavIds \cup {NoNav}
    /\ goal_status \in {"UNKNOWN", "PROCESSING", "FAILED", "SUCCEEDED"}
    /\ failed_ids \in SUBSET (0 .. MaxPoses)
    /\ response \in [NavIds -> {"none", "sent", "accepted", "rejected", "delivered"}]
    /\ nav \in [NavIds -> {"none", "driving", "canceling"} \cup Terminal]
    /\ cancel \in {"none", "sent", "done"}
    /\ leg \in [NavIds -> 0 .. NoLeg] /\ arrived \in SUBSET (0 .. MaxPoses)
    /\ rpc \in {"stable", "start", "goal", "dead"}
    /\ {poses, latest_start, loop_start} \subseteq Poses \cup {NoPose}
    /\ route \in [start : Poses \cup {NoPose}, target : Poses \cup {NoPose}]
    /\ \A e \in Events : count[e] \in 0 .. Bound[e]

\* Whatever preemptions, cancellations and late answers come between, a goal
\* is reported succeeded only if the robot has been at each of its poses
\* during this goal or the pose is among the missed ones.
ReachedOrMissed ==
    [][\A g \in Goals : status[g] \in {"executing", "canceling"} /\ status'[g] = "succeeded" =>
            \A k \in 0 .. size[g] - 1 : k \in arrived \/ k \in missed'[g]]_vars

\* The poses the robot has been at for goal g, which the worker executes.
Reached(g) == IF current = g /\ goal = g THEN arrived ELSE {}

Promise(g) == INSTANCE ActionGoal
              WITH status <- status[g], size <- size[g], missed <- missed[g], reached <- Reached(g)

\* What each client sees of its goal is what an action server promises
\* (ActionGoal), whatever the other client and the executor do to it meanwhile.
GoalsKeepPromise ==
    /\ \A g \in Goals : Promise(g)!Init
    /\ [][\A g \in Goals : Promise(g)!Step]_vars

Disturbed == count["disturbance"] > 0

\* As long as the runner is the only client, nobody cancels and the node stays
\* active, no result of an old navigation goal is left to wait for a response
\* that cannot arrive, and no null handle is used.
AloneNeverStuck == Stuck => Disturbed

\* A pending goal that no worker will look at, and a current one whose worker
\* left before executing it because deactivate() came first.
Stranded(g) == worker = "idle" /\ g \in {current, pending}

\* Every accepted goal is answered: the follower ends it, replaces it or
\* deactivates, unless it is stuck or has stranded the goal.
GoalsAnswered ==
    \A g \in Goals : is_active(g) ~> (~is_active(g) \/ Stuck \/ Stranded(g))

\* deactivate() waits without a limit for a worker that does not look at
\* stop_execution_; it returns all the same once the route is driven.
DeactivationReturns == (executor = "deactivating") ~> (executor = "idle" \/ Stuck)

\* The start of every round is the last 2D Estimate the runner has heard
\* ("a new 2D Estimate can take effect immediately").
StartIsLatestEstimate ==
    [][rpc = "start" /\ rpc' = "goal" => route'.start = latest_start]_vars

\* Nothing has disturbed the runner, and its last goal is apart from its start.
Settled == /\ ~Disturbed /\ rpc # "dead"
           /\ count["click"] = MaxClicks /\ count["estimate"] = MaxEstimates
           /\ poses # NoPose /\ poses # latest_start

\* The robot keeps patrolling: undisturbed, rounds to the goal clicked last
\* are completed again and again, if it is apart from the start; the pause
\* between rounds has to outlast the exit of the follower's worker, or the
\* next goal is stranded.
PatrolServes ==
    [](Settled => <>(Disturbed \/ rpc = "dead" \/ Stranded(Runner) \/ (status[Runner] = "succeeded" /\ route.target = poses)))
=============================================================================
