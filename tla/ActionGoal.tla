----------------------------- MODULE ActionGoal -----------------------------
(***************************************************************************)
(* What SimpleActionServer and the waypoint follower promise the client of *)
(* one follow_waypoints goal, whatever the other clients, the lifecycle    *)
(* manager and the navigation server do meanwhile: the goal is accepted or *)
(* rejected once and answered at most once; it is canceled only if that    *)
(* was asked for, and it has succeeded only if the robot has been at every *)
(* pose that is not reported as missed.                                    *)
(***************************************************************************)
EXTENDS Naturals

VARIABLES
  status,   \* of the goal
  size,     \* the number of its poses
  missed,   \* the poses its result reports as missed
  reached   \* the poses the robot has been at for this goal

goalVars == <<status, size, missed, reached>>

Init == status = "none" /\ size = 0 /\ missed = {} /\ reached = {}

Active == status \in {"executing", "canceling"}
Answered == status \in {"rejected", "succeeded", "aborted", "canceled"}

\* A client sends a goal when it has none or has the answer to the last one.
Send ==
  /\ status = "none" \/ Answered
  /\ status' = "requested" /\ size' \in Nat /\ missed' = {} /\ UNCHANGED reached

Forget ==
  /\ Answered
  /\ status' = "none" /\ size' = 0 /\ missed' = {} /\ UNCHANGED reached

Respond ==
  /\ status = "requested"
  /\ status' \in {"executing", "rejected"} /\ UNCHANGED <<size, missed, reached>>

Cancel ==
  /\ status = "executing"
  /\ status' = "canceling" /\ UNCHANGED <<size, missed, reached>>

\* The robot arrives at a pose: nothing it has reached is forgotten.
Reach ==
  /\ Active
  /\ \E k \in 0 .. size - 1 : reached' = reached \cup {k}
  /\ UNCHANGED <<status, size, missed>>

Answer(s) ==
  /\ Active
  /\ status' = s /\ missed' \in SUBSET Nat /\ reached' = {} /\ UNCHANGED size

Succeed == Answer("succeeded") /\ \A k \in 0 .. size - 1 : k \in reached \cup missed'
Abort == Answer("aborted")
Canceled == status = "canceling" /\ Answer("canceled")

Next == Send \/ Forget \/ Respond \/ Cancel \/ Reach \/ Succeed \/ Abort \/ Canceled

Step == [Next]_goalVars

Spec == Init /\ [][Next]_goalVars
=============================================================================
