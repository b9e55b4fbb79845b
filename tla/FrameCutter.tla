----------------------------- MODULE FrameCutter -----------------------------
(***************************************************************************)
(* What the frame assembly of livox_ros_driver2 promises: the points of    *)
(* each lidar are one stream, and every frame takes the oldest points of   *)
(* some of the streams, so that a point is in exactly one frame and the    *)
(* frames of a lidar follow each other without gap, overlap or reordering. *)
(***************************************************************************)
EXTENDS Naturals, Sequences

CONSTANT Lidar

VARIABLES stream,   \* per lidar, the points received and not yet in a frame
          frame     \* per lidar, its points in the latest frame

Init == /\ stream = [l \in Lidar |-> <<>>]
        /\ frame = [l \in Lidar |-> <<>>]

\* Points of one lidar arrive behind those that wait.
Arrive == LET before == stream
              after == stream'
          IN  /\ \E l \in Lidar :
                    /\ \A other \in Lidar \ {l} : after[other] = before[other]
                    /\ Len(after[l]) > Len(before[l])
                    /\ SubSeq(after[l], 1, Len(before[l])) = before[l]
              /\ UNCHANGED frame

\* A frame: a prefix of every stream, not all of them empty.
Cut == LET before == stream
           after == stream'
       IN  /\ DOMAIN frame' = Lidar
           /\ \A l \in Lidar : frame'[l] \o after[l] = before[l]
           /\ \E l \in Lidar : frame'[l] # <<>>

Spec == Init /\ [][Arrive \/ Cut]_<<stream, frame>>
=============================================================================
