------------------------- MODULE SimpleActionServer -------------------------
(***************************************************************************)
(* nav2_util::SimpleActionServer: one current and one pending goal, an      *)
(* executor thread that accepts, cancels and deactivates, and one worker    *)
(* thread that executes goals.  Everything done under one hold of           *)
(* update_mutex_ is one step; what the code reads without it is another.    *)
(*                                                                         *)
(* The node's executor is single threaded: while deactivate() waits for the *)
(* worker no goal, cancellation or parameter is handled.                    *)
(***************************************************************************)
EXTENDS Naturals, FiniteSets

CONSTANTS
    Goals,    \* goals the clients may have under way, one at a time each
    NoGoal    \* a null handle

ASSUME GoalsAssumption == NoGoal \notin Goals

VARIABLES
    status,            \* the status of each goal, as its client would see it
    current,           \* current_handle_
    pending,           \* pending_handle_
    preempt_requested, \* preempt_requested_
    stop_execution,    \* stop_execution_
    server_active,     \* server_active_
    executor,          \* what the executor thread does
    worker             \* where the worker is; "idle": execution_future_ is ready

serverVars == <<status, current, pending, preempt_requested, stop_execution,
                server_active, executor, worker>>
handles == <<status, current, pending, preempt_requested>>
switches == <<stop_execution, server_active, executor>>

Statuses == {"none", "requested", "rejected", "executing", "canceling",
             "succeeded", "aborted", "canceled"}
Terminal == {"succeeded", "aborted", "canceled"}

is_active(h) == h # NoGoal /\ status[h] \in {"executing", "canceling"}
is_running == worker # "idle"
-----------------------------------------------------------------------------
(* Operations under update_mutex_. *)

\* terminate() of every handle in S: canceled if its client asked for it.
Terminated(S) ==
    [g \in Goals |->
        IF g \notin S \/ ~is_active(g) THEN status[g]
        ELSE IF status[g] = "canceling" THEN "canceled" ELSE "aborted"]
Reset(h) == IF is_active(h) THEN NoGoal ELSE h

terminate_all ==
    /\ status' = Terminated({current, pending})
    /\ current' = Reset(current)
    /\ pending' = Reset(pending)
    /\ preempt_requested' = FALSE

terminate_current ==
    /\ status' = Terminated({current})
    /\ current' = Reset(current)
    /\ UNCHANGED <<pending, preempt_requested>>

succeeded_current ==
    /\ status' = IF is_active(current) THEN [status EXCEPT ![current] = "succeeded"] ELSE status
    /\ current' = Reset(current)
    /\ UNCHANGED <<pending, preempt_requested>>

\* Mutant: the goal that is replaced gets no result.
accept_without_abort ==
    IF is_active(pending)
    THEN current' = pending /\ pending' = NoGoal /\ preempt_requested' = FALSE /\ UNCHANGED status
    ELSE UNCHANGED handles

\* The goal before the pending one is aborted; without an active pending goal
\* nothing happens and the caller gets a null goal.
accept_pending_goal ==
    IF is_active(pending)
    THEN /\ status' = IF is_active(current) /\ current # pending
                      THEN [status EXCEPT ![current] = "aborted"] ELSE status
         /\ current' = pending
         /\ pending' = NoGoal
         /\ preempt_requested' = FALSE
    ELSE UNCHANGED handles

\* With a goal pending only that goal's cancellation counts.
is_cancel_requested ==
    /\ current # NoGoal
    /\ status[IF pending # NoGoal THEN pending ELSE current] = "canceling"
-----------------------------------------------------------------------------
(* The executor thread. *)

\* handle_goal and, when it accepts, handle_accepted.  Nothing but the executor
\* changes server_active_, so the two are one step.
handle_goal(g) ==
    /\ executor = "idle" /\ status[g] = "requested"
    /\ IF ~server_active
       THEN /\ status' = [status EXCEPT ![g] = "rejected"]
            /\ UNCHANGED <<current, pending, preempt_requested, worker>>
       ELSE LET replaced == [Terminated({pending}) EXCEPT ![g] = "executing"] IN
            /\ status' = replaced
            /\ IF is_active(current) \/ is_running
               THEN /\ pending' = g /\ preempt_requested' = TRUE
                    /\ UNCHANGED <<current, worker>>
               ELSE /\ pending' = Reset(pending)
                    /\ preempt_requested' = (preempt_requested /\ ~is_active(pending))
                    /\ current' = g
                    /\ worker' = "loop"
    /\ UNCHANGED switches

handle_cancel(g) ==
    /\ executor = "idle" /\ status[g] = "executing"
    /\ status' = [status EXCEPT ![g] = "canceling"]
    /\ UNCHANGED <<current, pending, preempt_requested, worker>>
    /\ UNCHANGED switches

activate ==
    /\ executor = "idle" /\ ~server_active
    /\ server_active' = TRUE /\ stop_execution' = FALSE
    /\ UNCHANGED <<status, current, pending, preempt_requested, executor, worker>>

deactivate ==
    /\ executor = "idle" /\ server_active
    /\ server_active' = FALSE /\ stop_execution' = TRUE
    /\ executor' = "deactivating"
    /\ UNCHANGED <<status, current, pending, preempt_requested, worker>>

\* server_timeout_ has passed: the goals are taken away, the worker goes on.
deactivate_timeout ==
    /\ executor = "deactivating" /\ is_running
    /\ terminate_all
    /\ UNCHANGED <<stop_execution, server_active, executor, worker>>

deactivate_returns ==
    /\ executor = "deactivating" /\ ~is_running
    /\ executor' = "idle"
    /\ UNCHANGED <<status, current, pending, preempt_requested, stop_execution, server_active, worker>>
-----------------------------------------------------------------------------
(* The worker thread: work(), around execute_callback_. *)

\* The loop's condition, tested without the mutex.
work_tests ==
    /\ worker = "loop"
    /\ worker' = IF ~stop_execution /\ is_active(current) THEN "execute" ELSE "exiting"
    /\ UNCHANGED handles /\ UNCHANGED switches

\* After execute_callback_, from which no exception is expected.  The waypoint
\* follower gives no completion_callback_, and calling an empty std::function
\* throws: the worker leaves without looking at the pending goal wherever the
\* code calls it.
work_ended ==
    /\ worker = "ended"
    /\ IF stop_execution THEN terminate_all /\ worker' = "exiting"
       ELSE IF is_active(current) THEN terminate_current /\ worker' = "exiting"
       ELSE IF is_active(pending) THEN accept_pending_goal /\ worker' = "loop"
       ELSE UNCHANGED handles /\ worker' = "exiting"
    /\ UNCHANGED switches

\* The thread's function has returned; from here is_running() is false.
work_exits ==
    /\ worker = "exiting"
    /\ worker' = "idle"
    /\ UNCHANGED handles /\ UNCHANGED switches
=============================================================================
