----------------------------- MODULE BoundedFifo -----------------------------
(***************************************************************************)
(* What a point-cloud queue of livox_ros_driver2 promises its two users,   *)
(* the thread that assembles frames and the thread that publishes them: a  *)
(* first-in first-out queue of at most Capacity frames that refuses (and   *)
(* so loses) a new frame only when it is full, and hands every accepted    *)
(* frame over exactly once, whole and in order.                            *)
(***************************************************************************)
EXTENDS Naturals, Sequences

CONSTANTS Frame,      \* the frames a producer may offer
          None,       \* "no frame yet"
          Capacity    \* the number of frames the queue holds

VARIABLES queue,      \* the accepted frames not yet taken, oldest first
          taken,      \* the frame the consumer took last
          lost        \* the frame refused last

Init == /\ queue = <<>>
        /\ taken = None
        /\ lost = None

Accept(f) == /\ Len(queue) < Capacity
             /\ queue' = Append(queue, f)
             /\ UNCHANGED <<taken, lost>>

Refuse(f) == /\ Len(queue) = Capacity
             /\ lost' = f
             /\ UNCHANGED <<queue, taken>>

Take == /\ queue # <<>>
        /\ taken' = Head(queue)
        /\ queue' = Tail(queue)
        /\ UNCHANGED lost

Next == (\E f \in Frame : Accept(f) \/ Refuse(f)) \/ Take

Spec == Init /\ [][Next]_<<queue, taken, lost>>
=============================================================================
