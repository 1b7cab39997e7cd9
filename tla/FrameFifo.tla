------------------------------ MODULE FrameFifo ------------------------------
(***************************************************************************)
(* What Lds and Lddc promise for the point clouds of one lidar: a bounded  *)
(* first-in first-out queue.  A frame that finds the queue full is         *)
(* dropped, which changes nothing here; a frame that enters is delivered   *)
(* once, whole, after all those that entered before it.                    *)
(***************************************************************************)
EXTENDS Naturals, Sequences

CONSTANT Capacity

VARIABLES
  queue,      \* the frames stored and not yet taken
  delivered   \* the last frame delivered (0: none)

Init == queue = <<>> /\ delivered = 0

\* Frames are numbered in the order in which the driver assembles them.
Newer(f) ==
  /\ f > delivered
  /\ \A i \in DOMAIN queue : f > queue[i]

Put(f) ==
  /\ Len(queue) < Capacity
  /\ Newer(f)
  /\ queue' = Append(queue, f)
  /\ UNCHANGED delivered

Get ==
  /\ queue # <<>>
  /\ delivered' = Head(queue)
  /\ queue' = Tail(queue)

\* A frame put is the last one of the queue afterwards.
Next == Get \/ (queue' # <<>> /\ Put(queue'[Len(queue')]))

Step == [Next]_<<queue, delivered>>

Spec == Init /\ [][Next]_<<queue, delivered>>
=============================================================================
