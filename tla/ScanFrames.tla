------------------------------ MODULE ScanFrames ------------------------------
(***************************************************************************)
(* The frames of the scans from the SLAM, or from the odin device, to       *)
(* nav2: loam_interface or odin_interface (OdinInterface), then             *)
(* sensor_scan_generation.  The robot moves, an obstacle does not; every    *)
(* scan sees it once.  Odometry and cloud of a scan are messages of their   *)
(* own, and either can be lost.                                             *)
(***************************************************************************)
EXTENDS RigidMotion, Sequences

CONSTANTS Mount,     \* base->lidar, and for odin imu->lidar
          Obstacle,  \* where it is in odom
          Sources,   \* of "loam" and "odin"
          MaxScans   \* bound: scans

VARIABLES source,        \* which of the two the robot has
          poses,         \* poses[n]: odom->base at scan n
          odometry_at,   \* the scan of the last odometry delivered
          cloud_at,      \* the scan of the last cloud delivered
          tf_odom_to_lidar_odom_, base_frame_to_lidar_initialized_,
          tf_odom_to_lidar_, odom_to_lidar_initialized_, tf_imu_to_lidar_, imu_to_lidar_cached_,
          registered_scan,     \* the last cloud of the interface, or <<>>
          lidar_odometry,      \* its last odometry, or <<>>
          sensor_scan,   \* the last cloud of sensor_scan_generation, or <<>>
          chassis        \* the last odom->base_frame sent, or <<>>

Odin == INSTANCE OdinInterface

world == <<source, poses, odometry_at, cloud_at>>
loamOnly == <<tf_odom_to_lidar_odom_, base_frame_to_lidar_initialized_>>
odinOnly == <<tf_odom_to_lidar_, odom_to_lidar_initialized_, tf_imu_to_lidar_, imu_to_lidar_cached_>>
sensorScan == <<sensor_scan, chassis>>
vars == <<world, loamOnly, odinOnly, registered_scan, lidar_odometry, sensorScan>>

-----------------------------------------------------------------------------
(* loam_interface: takes the odometry and the clouds of the SLAM, which are *)
(* relative to the pose of the lidar at its start (lidar_odom), to odom,    *)
(* the pose of the base then.  The transform between the two is looked up   *)
(* once, with the first odometry.                                           *)

LoamInit ==
    /\ tf_odom_to_lidar_odom_ = Identity /\ base_frame_to_lidar_initialized_ = FALSE
    /\ registered_scan = <<>> /\ lidar_odometry = <<>>

\* Mutant: only the frame's name is changed.
pointCloudCallbackRenamed(msg) ==
    /\ registered_scan' = <<[stamp |-> msg.stamp, at |-> msg.at,
                             ready |-> base_frame_to_lidar_initialized_]>>
    /\ UNCHANGED <<tf_odom_to_lidar_odom_, base_frame_to_lidar_initialized_, lidar_odometry>>

pointCloudCallback(msg) ==
    /\ registered_scan' = <<[stamp |-> msg.stamp, at |-> tf_odom_to_lidar_odom_[msg.at],
                             ready |-> base_frame_to_lidar_initialized_]>>
    /\ UNCHANGED <<tf_odom_to_lidar_odom_, base_frame_to_lidar_initialized_, lidar_odometry>>

\* Mutant: multiplied from the other side.
ComposeSwapped(tf, pose) == pose ** tf

Compose(tf, pose) == tf ** pose

\* lookup is what base_frame->lidar_frame gives, if anything.
odometryCallback(msg, lookup) ==
    LET found == base_frame_to_lidar_initialized_ \/ lookup # {}
        tf == IF base_frame_to_lidar_initialized_ THEN tf_odom_to_lidar_odom_
              ELSE CHOOSE t \in lookup : TRUE
    IN  /\ base_frame_to_lidar_initialized_' = found
        /\ IF found
           THEN /\ tf_odom_to_lidar_odom_' = tf
                /\ lidar_odometry' = <<[stamp |-> msg.stamp, pose |-> Compose(tf, msg.pose)]>>
           ELSE UNCHANGED <<tf_odom_to_lidar_odom_, lidar_odometry>>
        /\ UNCHANGED registered_scan

-----------------------------------------------------------------------------
(* sensor_scan_generation: takes a registered scan back to the frame of the *)
(* lidar, by the odometry it is paired with, and publishes the pose of the  *)
(* chassis.                                                                 *)

SensorScanInit == sensor_scan = <<>> /\ chassis = <<>>

\* Mutant: the two frames are swapped in the lookup.
getTransformSwapped(lookup) == IF lookup = {} THEN Identity ELSE InverseOf(CHOOSE t \in lookup : TRUE)

\* getTransform: the identity when the tree does not have it.
getTransform(lookup) == IF lookup = {} THEN Identity ELSE CHOOSE t \in lookup : TRUE

\* Mutant: the odometry's transform is applied, not its inverse.
ToLidarForward(pose, at) == pose[at]

ToLidar(pose, at) == InverseOf(pose)[at]

\* lookup is what lidar_frame->base_frame gives, if anything.
laserCloudAndOdometryHandler(odometry, pcd, lookup) ==
    /\ chassis' = <<[stamp |-> pcd.stamp, pose |-> odometry.pose ** getTransform(lookup),
                     known |-> lookup # {}]>>
    /\ sensor_scan' = <<[stamp |-> pcd.stamp, odometry |-> odometry.stamp,
                         at |-> ToLidar(odometry.pose, pcd.at), ready |-> pcd.ready]>>

-----------------------------------------------------------------------------
(* The robot, and the messages between the nodes.                           *)

Init == /\ source \in Sources /\ poses = <<Identity>> /\ odometry_at = 0 /\ cloud_at = 0
        /\ LoamInit /\ Odin!OdinInit /\ SensorScanInit

LidarAt(n) == poses[n] ** Mount

\* What the tree answers: the static transform, or nothing yet.
Lookups == {{}, {Mount}}

Scan ==
    /\ Len(poses) < MaxScans /\ \E pose \in Motions : poses' = Append(poses, pose)
    /\ UNCHANGED <<source, odometry_at, cloud_at, loamOnly, odinOnly, registered_scan,
                   lidar_odometry, sensorScan>>

SlamOdometry(n) == [stamp |-> n, pose |-> InverseOf(Mount) ** LidarAt(n)]
SlamCloud(n) == [stamp |-> n, at |-> InverseOf(Mount)[Obstacle]]
DeviceOdometry(n) == [stamp |-> n, pose |-> poses[n]]
DeviceCloud(n) == [stamp |-> n, at |-> InverseOf(LidarAt(n))[Obstacle]]

OdometryArrives ==
    \E n \in odometry_at + 1 .. Len(poses), lookup \in Lookups :
        /\ odometry_at' = n
        /\ \/ /\ source = "loam"
              /\ odometryCallback(SlamOdometry(n), lookup) /\ UNCHANGED odinOnly
           \/ /\ source = "odin"
              /\ Odin!odometryCallback(DeviceOdometry(n), lookup, Mount) /\ UNCHANGED loamOnly
        /\ UNCHANGED <<source, poses, cloud_at, sensorScan>>

CloudArrives ==
    \E n \in cloud_at + 1 .. Len(poses) :
        /\ cloud_at' = n
        /\ \/ source = "loam" /\ pointCloudCallback(SlamCloud(n)) /\ UNCHANGED odinOnly
           \/ source = "odin" /\ Odin!pointCloudCallback(DeviceCloud(n)) /\ UNCHANGED loamOnly
        /\ UNCHANGED <<source, poses, odometry_at, sensorScan>>

Paired ==
    /\ lidar_odometry # <<>> /\ registered_scan # <<>>
    /\ \E lookup \in {{}, {InverseOf(Mount)}} :
          laserCloudAndOdometryHandler(lidar_odometry[1], registered_scan[1], lookup)
    /\ UNCHANGED <<world, loamOnly, odinOnly, registered_scan, lidar_odometry>>

Next == Scan \/ OdometryArrives \/ CloudArrives \/ Paired

Spec == Init /\ [][Next]_vars

-----------------------------------------------------------------------------
TypeOK ==
    /\ source \in Sources /\ poses \in Seq(Motions) /\ {odometry_at, cloud_at} \subseteq 0..MaxScans
    /\ {base_frame_to_lidar_initialized_, odom_to_lidar_initialized_, imu_to_lidar_cached_}
           \subseteq BOOLEAN
    /\ {tf_odom_to_lidar_odom_, tf_odom_to_lidar_, tf_imu_to_lidar_} \subseteq Motions

\* A registered scan is in odom (loam_interface.cpp:57; the two interfaces have
\* the same outputs, README.md:13): an obstacle that does not move is at the
\* same place in every one, once the interface knows its transforms.
ScanInOdom == registered_scan # <<>> /\ registered_scan[1].ready => registered_scan[1].at = Obstacle

LoamScanInOdom == source = "loam" => ScanInOdom

\* The odometry both interfaces publish is the pose of the lidar in odom.
OdometryIsLidar == lidar_odometry # <<>> => lidar_odometry[1].pose = LidarAt(lidar_odometry[1].stamp)

\* Taken back by the odometry of its own scan, a cloud is what the lidar saw.
SensorScanAsSeen ==
    source = "loam" /\ sensor_scan # <<>> =>
        LET s == sensor_scan[1]
        IN  s.ready /\ s.odometry = s.stamp => s.at = InverseOf(LidarAt(s.stamp))[Obstacle]

\* The chassis is where it was at the scan of the odometry.
ChassisFollows ==
    chassis # <<>> /\ chassis[1].known => chassis[1].pose = poses[sensor_scan[1].odometry]
=============================================================================
