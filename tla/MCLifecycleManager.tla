------------------------- MODULE MCLifecycleManager -------------------------
(* LifecycleManager for TLC. *)
EXTENDS LifecycleManager

CONSTANTS controller_server, bt_navigator, waypoint_follower

\* Three of the seven servers of navigation_launch.py, in its order.
MCNodeNames == <<controller_server, bt_navigator, waypoint_follower>>
=============================================================================
