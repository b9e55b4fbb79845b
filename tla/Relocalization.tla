---------------------------- MODULE Relocalization ----------------------------
(***************************************************************************)
(* small_gicp_relocalization: finds map->odom by registering the scans      *)
(* since the last attempt against a map, and sends it on a timer with a     *)
(* stamp taken from the last scan.  A listener (tf2) knows the transform of  *)
(* the newest stamp.                                                        *)
(***************************************************************************)
EXTENDS Integers

CONSTANTS Poses,      \* what map->odom can be
          FirstPose,  \* the parameter init_pose
          MaxScans    \* bound: scans

VARIABLES loaded,              \* the constructor is past loadGlobalMap
          base_tf,             \* the transform base->lidar is in the tree
          accumulated_cloud_,  \* the scans gathered
          scans,               \* scans so far; their stamps
          last_scan_time_,
          result_t_, previous_result_t_,
          given,               \* history: the last pose that was given or found
          heard                \* map->odom as the listeners know it

vars == <<loaded, base_tf, accumulated_cloud_, scans, last_scan_time_, result_t_,
          previous_result_t_, given, heard>>

Init ==
    /\ loaded = FALSE /\ base_tf = FALSE /\ accumulated_cloud_ = {} /\ scans = 0
    /\ last_scan_time_ = 0
    /\ result_t_ = FirstPose /\ previous_result_t_ = FirstPose /\ given = FirstPose
    /\ heard = [stamp |-> -1, pose |-> FirstPose]

\* The robot's description is published.
BaseTransform ==
    /\ ~base_tf /\ base_tf' = TRUE
    /\ UNCHANGED <<loaded, accumulated_cloud_, scans, last_scan_time_, result_t_,
                   previous_result_t_, given, heard>>

\* The constructor waits for the transform, however long it takes.
loadGlobalMap ==
    /\ ~loaded /\ base_tf /\ loaded' = TRUE
    /\ UNCHANGED <<base_tf, accumulated_cloud_, scans, last_scan_time_, result_t_,
                   previous_result_t_, given, heard>>

\* Scans stamped by the same clock, before the node is there or after.
registeredPcdCallback ==
    /\ scans < MaxScans /\ scans' = scans + 1
    /\ IF loaded THEN /\ last_scan_time_' = scans + 1
                      /\ accumulated_cloud_' = accumulated_cloud_ \cup {scans + 1}
       ELSE UNCHANGED <<last_scan_time_, accumulated_cloud_>>
    /\ UNCHANGED <<loaded, base_tf, result_t_, previous_result_t_, given, heard>>

\* Mutant: only the result is replaced, so that the next attempt starts from
\* the pose before.
ConvergeFromOld(p) == result_t_' = p /\ UNCHANGED previous_result_t_

Converge(p) == result_t_' = p /\ previous_result_t_' = p

performRegistration ==
    /\ loaded /\ accumulated_cloud_ # {}
    /\ accumulated_cloud_' = {}
    /\ \/ \E p \in Poses : Converge(p) /\ given' = p
       \/ UNCHANGED <<result_t_, previous_result_t_, given>>
    /\ UNCHANGED <<loaded, base_tf, scans, last_scan_time_, heard>>

\* Mutant: the stamp is further ahead, where there is no scan yet.
NextStampAhead == last_scan_time_ + 1

NextStamp == last_scan_time_

\* The stamp is 0.1 s ahead, the same for every transform.  Of two transforms of
\* one stamp a listener has either.
publishTransform ==
    /\ loaded
    /\ heard' \in {heard, [stamp |-> NextStamp, pose |-> result_t_]}
    /\ heard'.stamp >= NextStamp
    /\ UNCHANGED <<loaded, base_tf, accumulated_cloud_, scans, last_scan_time_, result_t_,
                   previous_result_t_, given>>

\* The frame of the scans is known once there was one; the lookup may still fail.
initialPoseCallback ==
    /\ loaded
    /\ \/ /\ last_scan_time_ # 0
          /\ \E p \in Poses : Converge(p) /\ given' = p
       \/ UNCHANGED <<result_t_, previous_result_t_, given>>
    /\ UNCHANGED <<loaded, base_tf, accumulated_cloud_, scans, last_scan_time_, heard>>

Next == \/ BaseTransform \/ loadGlobalMap \/ registeredPcdCallback \/ performRegistration
        \/ publishTransform \/ initialPoseCallback

Spec == Init /\ [][Next]_vars

-----------------------------------------------------------------------------
TypeOK ==
    /\ loaded \in BOOLEAN /\ base_tf \in BOOLEAN
    /\ scans \in 0..MaxScans /\ last_scan_time_ \in 0..scans /\ accumulated_cloud_ \subseteq 1..scans
    /\ {result_t_, previous_result_t_, given} \subseteq Poses
    /\ heard \in [stamp : -1..MaxScans, pose : Poses]

\* An attempt starts from the pose that was last given or found, not from one
\* before it.
StartsFromLast == previous_result_t_ = given /\ result_t_ = given

\* A pose reaches the listeners with the first transform after the next scan:
\* a transform sent for a new stamp is the newest pose.
FreshScanCarriesPose ==
    heard'.stamp > heard.stamp => heard'.pose = given /\ heard'.stamp = last_scan_time_
=============================================================================
