---------------------------- MODULE OdinInterface ----------------------------
(***************************************************************************)
(* odin_interface: the same two outputs as loam_interface, from the         *)
(* odometry (odom->imu) and the raw clouds (in the frame of the lidar) of   *)
(* the odin device.  Its third output is in MapOdom.                         *)
(***************************************************************************)
EXTENDS RigidMotion, Sequences

VARIABLES tf_odom_to_lidar_, odom_to_lidar_initialized_,
          tf_imu_to_lidar_, imu_to_lidar_cached_,
          registered_scan, lidar_odometry

odin == <<tf_odom_to_lidar_, odom_to_lidar_initialized_, tf_imu_to_lidar_, imu_to_lidar_cached_,
          registered_scan, lidar_odometry>>

OdinInit ==
    /\ tf_odom_to_lidar_ = Identity /\ odom_to_lidar_initialized_ = FALSE
    /\ tf_imu_to_lidar_ = Identity /\ imu_to_lidar_cached_ = FALSE
    /\ registered_scan = <<>> /\ lidar_odometry = <<>>

\* getImuToLidar: cached, or looked up now (lookup, if anything), or the parameter.
ImuToLidar(lookup, param) ==
    CASE imu_to_lidar_cached_ -> tf_imu_to_lidar_
      [] ~imu_to_lidar_cached_ /\ lookup # {} -> CHOOSE t \in lookup : TRUE
      [] OTHER -> param

\* Mutant: multiplied from the other side.
odometryCallbackSwapped(msg, lookup, param) ==
    LET lidar == ImuToLidar(lookup, param) ** msg.pose
    IN  /\ tf_odom_to_lidar_' = lidar /\ odom_to_lidar_initialized_' = TRUE
        /\ UNCHANGED <<tf_imu_to_lidar_, imu_to_lidar_cached_, registered_scan>>
        /\ lidar_odometry' = <<[stamp |-> msg.stamp, pose |-> lidar]>>

odometryCallback(msg, lookup, param) ==
    LET lidar == msg.pose ** ImuToLidar(lookup, param)
    IN  /\ tf_odom_to_lidar_' = lidar /\ odom_to_lidar_initialized_' = TRUE
        /\ imu_to_lidar_cached_' = (imu_to_lidar_cached_ \/ lookup # {})
        /\ tf_imu_to_lidar_' = IF imu_to_lidar_cached_' THEN ImuToLidar(lookup, param)
                               ELSE tf_imu_to_lidar_
        /\ lidar_odometry' = <<[stamp |-> msg.stamp, pose |-> lidar]>>
        /\ UNCHANGED registered_scan

\* Clouds before the first odometry are dropped.
pointCloudCallback(msg) ==
    /\ odom_to_lidar_initialized_
    /\ registered_scan' = <<[stamp |-> msg.stamp, at |-> InverseOf(tf_odom_to_lidar_)[msg.at],
                             ready |-> TRUE]>>
    /\ UNCHANGED <<tf_odom_to_lidar_, odom_to_lidar_initialized_, tf_imu_to_lidar_,
                   imu_to_lidar_cached_, lidar_odometry>>
=============================================================================
