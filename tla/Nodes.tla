-------------------------------- MODULE Nodes --------------------------------
(***************************************************************************)
(* The nodes and parts of the odin driver whose modules have no common      *)
(* state, side by side: a behaviour is one scene, in which one module runs  *)
(* and the others stand.  The constants and variables of a module keep      *)
(* their names, or have the instance's before them where two modules share  *)
(* one.                                                                     *)
(***************************************************************************)
EXTENDS Integers, Sequences, FiniteSets

CONSTANTS
    Scenes,   \* the scenes that can run
    \* OdinPairing
    Limit, Tolerance, MaxStamp, MaxSession,
    \* OdinTf
    Delay, Tf_MaxTime, MaxBoots, Burst,
    \* FakeVel
    MaxCommands, Yaws, Speeds,
    \* Relocalization
    Poses, FirstPose, Relocal_MaxScans,
    \* ScanFrames
    Mount, Obstacle, FrameSources, Frames_MaxScans,
    \* BackUp
    Distance, Allowances,
    \* Teleop
    Modes, HasTurbo, Teleop_MaxTime,
    \* LaserScan
    Rays, Increment, AngleMax, MaxRange,
    \* ScanSync
    Sync_MaxTime, Duration, InitCount, Combined,
    \* Launch
    MaxExits,
    \* OmniPid
    Line, Plans, Obstructions, SearchDist, Extent, Lookaheads, sample_points, Origin, Limits,
    Approach, ScalingDist, Rate,
    \* Terrain
    Terrain_Settings, Terrain_Size, Terrain_Half, Terrain_Vehicles, Terrain_Scans,
    Terrain_Distances, Terrain_MaxTime,
    \* TerrainExt
    Ext_Settings, Ext_Size, Ext_Half, Ext_Vehicles, Ext_Scans, Ext_Distances, LocalMaps,
    Ext_MaxTime,
    \* OdinStartup
    ConfigFiles,
    \* OdinStreams
    PTP_SMOOTH_WINDOW_SIZE, Kinds, Offsets, Streams_MaxTime, MaxPackets,
    \* OdinRecord
    Callbacks, batch_size, MaxFrames,
    \* Calibration
    Tcl_0, Undistort, Polls, MaxAttaches

VARIABLES
    scene,
    \* OdinPairing
    rgb_image_queue_, pcd_queue_, picked, session, Pairing_connected, Pairing_images,
    Pairing_clouds, rendered, overflowed,
    \* OdinTf
    device_clock, clock, boots, cached, extrinsics, last_published, Tf_publisher, Tf_running,
    tfs_sent,
    \* FakeVel
    current_robot_base_angle_, spin_speed_, latest_cmd_vel_, active, odometry, plan, newest,
    answered, out,
    \* Relocalization
    loaded, base_tf, accumulated_cloud_, Relocal_scans, last_scan_time_, result_t_,
    previous_result_t_, given, heard,
    \* ScanFrames
    source, poses, odometry_at, cloud_at, tf_odom_to_lidar_odom_,
    base_frame_to_lidar_initialized_, tf_odom_to_lidar_, odom_to_lidar_initialized_,
    tf_imu_to_lidar_, imu_to_lidar_cached_, registered_scan, lidar_odometry, sensor_scan, chassis,
    \* MapOdom
    device, parent_of, on_way, map_odom,
    \* BackUp
    status, reason, moving, moved, left, command_time_allowance_, localised, blocked, lost,
    \* Teleop
    control_mode_, require_enable_button_, sent_disable_msg_, time, last_goal_time, commanded,
    sending, driving, released, overtaken, goal_sent_at,
    \* LaserScan
    node, alive_, ok, listeners, subscribed, Laser_seen, listener, destructor, in_callback,
    \* ScanSync
    Sync_lidar_buffer, imu_deque, Sync_last_timestamp_lidar, last_timestamp_imu, con_frame,
    ptr_con, use_imu_as_input, imu_need_init_, after_imu_init_, init_iter_num, measured,
    Sync_init_map, imu_next, imu_last, is_first_frame, time_current, time_predict, used, arrived,
    mapped, pops_empty,
    \* Launch
    args, world_file, up, waiting, starts, loads, closing, exits,
    \* OmniPid
    activated, global_plan_, limits, move_pid_, last_velocity_scaling_factor_, plan_set, lethal,
    looked, blind, cmd_vel,
    \* Terrain
    Terrain_vehicle, Terrain_terrainVoxelShift, Terrain_terrainVoxelCloud,
    Terrain_terrainVoxelUpdateNum, Terrain_terrainVoxelUpdateTime, Terrain_laserCloudTime,
    Terrain_laserCloudCrop, Terrain_newlaserCloud, Terrain_clearingCloud, Terrain_clearingDis,
    noDataInited, vehicleRec, terrain_map, Terrain_moved_at,
    \* TerrainExt
    Ext_vehicle, Ext_terrainVoxelShift, Ext_terrainVoxelCloud, Ext_terrainVoxelUpdateNum,
    Ext_terrainVoxelUpdateTime, Ext_laserCloudTime, Ext_laserCloudCrop, Ext_newlaserCloud,
    terrainCloudLocal, Ext_clearingCloud, Ext_clearingDis, terrain_map_ext, Ext_moved_at,
    \* OdinStartup
    main, ret, Startup_file, parsed, settings, system, root_dir_, map_root_dir_, usb,
    usbVersionChecked, Startup_odinDevice, Startup_connected, disconnected, ros_ok, calib_file_,
    camera_file, command,
    \* OdinStreams
    g_use_host_ros_time, flags, now, rx, ptp, smooth, report, sample, packets, frames, reported,
    syncs, recorded,
    \* OdinRecord
    cloud_index_, holds, pending, write_queue, stop, worker, batch, opened, Rec_file, logger,
    enqueued, index_count, wcwi_index_, online,
    \* Calibration
    step, Calib_odinDevice, initial_state, attaches, calib_config, renderer, Calib_publisher,
    depth, reprojector, wait_count, Calib_seen, inits

ASSUME PairingAssumption ==
    Limit \in Nat \ {0} /\ Tolerance \in Nat /\ MaxStamp \in Nat /\ MaxSession \in Nat
ASSUME TfAssumption == Delay \in Nat /\ Tf_MaxTime \in Nat /\ MaxBoots \in Nat /\ Burst \in Nat
ASSUME LaserAssumption ==
    /\ Rays \in Nat /\ Increment \in Nat \ {0} /\ MaxRange \in Nat
    /\ AngleMax \in Nat /\ AngleMax <= Rays * Increment
ASSUME RecordAssumption == batch_size \in Nat \ {0} /\ MaxFrames \in Nat
ASSUME SyncAssumption ==
    Sync_MaxTime \in Nat /\ Duration \in Nat /\ InitCount \in Nat /\ Combined \in Nat \ {0}
ASSUME PursuitAssumption ==
    /\ Line \subseteq Int /\ Plans \subseteq Seq(Line)
    /\ SearchDist \in Nat /\ Extent \in Nat /\ sample_points \in Nat \ {0}
\* Voxels have an even size and a middle one; scans are of finitely many points; a
\* column is due some time after its last update.
ASSUME TerrainAssumption ==
    /\ Terrain_Size \in Nat \ {0} /\ Terrain_Size % 2 = 0 /\ Terrain_Half \in Nat
    /\ Terrain_Vehicles \subseteq Int \X Int \X Int
    /\ \A seen \in Terrain_Scans : seen \subseteq Int \X Int \X Int /\ IsFiniteSet(seen)
    /\ Terrain_Settings.decayTime \in Nat /\ Terrain_Settings.voxelTimeUpdateThre \in Nat \ {0}
ASSUME ExtAssumption ==
    /\ Ext_Size \in Nat \ {0} /\ Ext_Size % 2 = 0 /\ Ext_Half \in Nat
    /\ Ext_Vehicles \subseteq Int \X Int \X Int
    /\ \A seen \in Ext_Scans : seen \subseteq Int \X Int \X Int /\ IsFiniteSet(seen)
    /\ Ext_Settings.decayTime \in Nat /\ Ext_Settings.voxelTimeUpdateThre \in Nat \ {0}
\* A file is a sequence of keys with values, each of a kind.
ASSUME StartupAssumption ==
    \A f \in ConfigFiles :
        /\ Len(f) \in Nat /\ DOMAIN f = 1 .. Len(f)
        /\ \A i \in DOMAIN f : f[i][2] = [kind |-> f[i][2].kind, v |-> f[i][2].v]

Pairing == INSTANCE OdinPairing WITH
    connected <- Pairing_connected, images <- Pairing_images, clouds <- Pairing_clouds

Tf == INSTANCE OdinTf WITH
    MaxTime <- Tf_MaxTime, publisher <- Tf_publisher, running <- Tf_running

FakeVel == INSTANCE FakeVel

Relocal == INSTANCE Relocalization WITH
    MaxScans <- Relocal_MaxScans, scans <- Relocal_scans

Frames == INSTANCE ScanFrames WITH
    Sources <- FrameSources, MaxScans <- Frames_MaxScans

MapOdom == INSTANCE MapOdom

BackUp == INSTANCE BackUp

Teleop == INSTANCE Teleop WITH
    MaxTime <- Teleop_MaxTime

Laser == INSTANCE LaserScan WITH
    seen <- Laser_seen

Sync == INSTANCE ScanSync WITH
    MaxTime <- Sync_MaxTime, lidar_buffer <- Sync_lidar_buffer,
    last_timestamp_lidar <- Sync_last_timestamp_lidar, init_map <- Sync_init_map

Files == INSTANCE Launch

Pursuit == INSTANCE OmniPid

Terrain == INSTANCE Terrain WITH
    Settings <- Terrain_Settings, Size <- Terrain_Size, Half <- Terrain_Half,
    Vehicles <- Terrain_Vehicles, Scans <- Terrain_Scans, Distances <- Terrain_Distances,
    MaxTime <- Terrain_MaxTime, vehicle <- Terrain_vehicle,
    terrainVoxelShift <- Terrain_terrainVoxelShift,
    terrainVoxelCloud <- Terrain_terrainVoxelCloud,
    terrainVoxelUpdateNum <- Terrain_terrainVoxelUpdateNum,
    terrainVoxelUpdateTime <- Terrain_terrainVoxelUpdateTime,
    laserCloudTime <- Terrain_laserCloudTime, laserCloudCrop <- Terrain_laserCloudCrop,
    newlaserCloud <- Terrain_newlaserCloud, clearingCloud <- Terrain_clearingCloud,
    clearingDis <- Terrain_clearingDis, moved_at <- Terrain_moved_at

Ext == INSTANCE TerrainExt WITH
    Settings <- Ext_Settings, Size <- Ext_Size, Half <- Ext_Half, Vehicles <- Ext_Vehicles,
    Scans <- Ext_Scans, Distances <- Ext_Distances, MaxTime <- Ext_MaxTime,
    vehicle <- Ext_vehicle, terrainVoxelShift <- Ext_terrainVoxelShift,
    terrainVoxelCloud <- Ext_terrainVoxelCloud,
    terrainVoxelUpdateNum <- Ext_terrainVoxelUpdateNum,
    terrainVoxelUpdateTime <- Ext_terrainVoxelUpdateTime, laserCloudTime <- Ext_laserCloudTime,
    laserCloudCrop <- Ext_laserCloudCrop, newlaserCloud <- Ext_newlaserCloud,
    clearingCloud <- Ext_clearingCloud, clearingDis <- Ext_clearingDis, moved_at <- Ext_moved_at

Startup == INSTANCE OdinStartup WITH
    file <- Startup_file, odinDevice <- Startup_odinDevice, connected <- Startup_connected

Streams == INSTANCE OdinStreams WITH
    MaxTime <- Streams_MaxTime

Rec == INSTANCE OdinRecord WITH
    file <- Rec_file

Calib == INSTANCE Calibration WITH
    odinDevice <- Calib_odinDevice, publisher <- Calib_publisher, seen <- Calib_seen

ASSUME FramesAssumption == Mount \in Frames!Motions /\ Obstacle \in Frames!Points
ASSUME StreamsAssumption == PTP_SMOOTH_WINDOW_SIZE \in Nat \ {0} /\ Kinds \subseteq Streams!Streams
\* The names of cameras are none of those for no file and a file half written.
ASSUME CalibAssumption ==
    /\ Calib!None \notin Calib!Cameras /\ "partial" \notin Calib!Cameras
    /\ \A c \in Calib!Cameras : Tcl_0[c] \in {"whole", "short", "missing", "incomplete"}
    /\ Polls \in Nat \ {0} /\ MaxAttaches \in Nat

PairingVars ==
    <<rgb_image_queue_, pcd_queue_, picked, session, Pairing_connected, Pairing_images,
    Pairing_clouds, rendered, overflowed>>
TfVars ==
    <<device_clock, clock, boots, cached, extrinsics, last_published, Tf_publisher, Tf_running,
    tfs_sent>>
FakeVelVars ==
    <<current_robot_base_angle_, spin_speed_, latest_cmd_vel_, active, odometry, plan, newest,
    answered, out>>
RelocalVars ==
    <<loaded, base_tf, accumulated_cloud_, Relocal_scans, last_scan_time_, result_t_,
    previous_result_t_, given, heard>>
FramesVars ==
    <<source, poses, odometry_at, cloud_at, tf_odom_to_lidar_odom_,
    base_frame_to_lidar_initialized_, tf_odom_to_lidar_, odom_to_lidar_initialized_,
    tf_imu_to_lidar_, imu_to_lidar_cached_, registered_scan, lidar_odometry, sensor_scan,
    chassis>>
MapOdomVars == <<device, parent_of, on_way, map_odom>>
BackUpVars ==
    <<status, reason, moving, moved, left, command_time_allowance_, localised, blocked, lost>>
TeleopVars ==
    <<control_mode_, require_enable_button_, sent_disable_msg_, time, last_goal_time, commanded,
    sending, driving, released, overtaken, goal_sent_at>>
LaserVars ==
    <<node, alive_, ok, listeners, subscribed, Laser_seen, listener, destructor, in_callback>>
SyncVars ==
    <<Sync_lidar_buffer, imu_deque, Sync_last_timestamp_lidar, last_timestamp_imu, con_frame,
    ptr_con, use_imu_as_input, imu_need_init_, after_imu_init_, init_iter_num, measured,
    Sync_init_map, imu_next, imu_last, is_first_frame, time_current, time_predict, used, arrived,
    mapped, pops_empty>>
FilesVars == <<args, world_file, up, waiting, starts, loads, closing, exits>>
PursuitVars ==
    <<activated, global_plan_, limits, move_pid_, last_velocity_scaling_factor_, plan_set, lethal,
    looked, blind, cmd_vel>>
TerrainVars ==
    <<Terrain_vehicle, Terrain_terrainVoxelShift, Terrain_terrainVoxelCloud,
    Terrain_terrainVoxelUpdateNum, Terrain_terrainVoxelUpdateTime, Terrain_laserCloudTime,
    Terrain_laserCloudCrop, Terrain_newlaserCloud, Terrain_clearingCloud, Terrain_clearingDis,
    noDataInited, vehicleRec, terrain_map, Terrain_moved_at>>
ExtVars ==
    <<Ext_vehicle, Ext_terrainVoxelShift, Ext_terrainVoxelCloud, Ext_terrainVoxelUpdateNum,
    Ext_terrainVoxelUpdateTime, Ext_laserCloudTime, Ext_laserCloudCrop, Ext_newlaserCloud,
    terrainCloudLocal, Ext_clearingCloud, Ext_clearingDis, terrain_map_ext, Ext_moved_at>>
StartupVars ==
    <<main, ret, Startup_file, parsed, settings, system, root_dir_, map_root_dir_, usb,
    usbVersionChecked, Startup_odinDevice, Startup_connected, disconnected, ros_ok, calib_file_,
    camera_file, command>>
StreamsVars ==
    <<g_use_host_ros_time, flags, now, rx, ptp, smooth, report, sample, packets, frames, reported,
    syncs, recorded>>
RecVars ==
    <<cloud_index_, holds, pending, write_queue, stop, worker, batch, opened, Rec_file, logger,
    enqueued, index_count, wcwi_index_, online>>
CalibVars ==
    <<step, Calib_odinDevice, initial_state, attaches, calib_config, renderer, Calib_publisher,
    depth, reprojector, wait_count, Calib_seen, inits>>

modules == <<PairingVars, TfVars, FakeVelVars, RelocalVars, FramesVars, MapOdomVars, BackUpVars,
             TeleopVars, LaserVars, SyncVars, FilesVars, PursuitVars, TerrainVars, ExtVars,
             StartupVars, StreamsVars, RecVars, CalibVars>>
vars == <<scene, modules>>

Init ==
    /\ scene \in Scenes
    /\ Pairing!Init
    /\ Tf!Init
    /\ FakeVel!Init
    /\ Relocal!Init
    /\ Frames!Init
    /\ MapOdom!Init
    /\ BackUp!Init
    /\ Teleop!Init
    /\ Laser!Init
    /\ Sync!Init
    /\ Files!Init
    /\ Pursuit!Init
    /\ Terrain!Init
    /\ Ext!Init
    /\ Startup!Init
    /\ Streams!Init
    /\ Rec!Init
    /\ Calib!Init

\* Every module but the scene's stands.
OthersStand ==
    /\ UNCHANGED scene
    /\ IF scene = "pairing" THEN TRUE ELSE UNCHANGED PairingVars
    /\ IF scene = "transforms" THEN TRUE ELSE UNCHANGED TfVars
    /\ IF scene = "fake_vel" THEN TRUE ELSE UNCHANGED FakeVelVars
    /\ IF scene = "relocalization" THEN TRUE ELSE UNCHANGED RelocalVars
    /\ IF scene = "frames" THEN TRUE ELSE UNCHANGED FramesVars
    /\ IF scene = "map_odom" THEN TRUE ELSE UNCHANGED MapOdomVars
    /\ IF scene = "back_up" THEN TRUE ELSE UNCHANGED BackUpVars
    /\ IF scene = "teleop" THEN TRUE ELSE UNCHANGED TeleopVars
    /\ IF scene = "laser_scan" THEN TRUE ELSE UNCHANGED LaserVars
    /\ IF scene = "scan_sync" THEN TRUE ELSE UNCHANGED SyncVars
    /\ IF scene = "launch" THEN TRUE ELSE UNCHANGED FilesVars
    /\ IF scene = "pursuit" THEN TRUE ELSE UNCHANGED PursuitVars
    /\ IF scene = "terrain" THEN TRUE ELSE UNCHANGED TerrainVars
    /\ IF scene = "terrain_ext" THEN TRUE ELSE UNCHANGED ExtVars
    /\ IF scene = "startup" THEN TRUE ELSE UNCHANGED StartupVars
    /\ IF scene = "streams" THEN TRUE ELSE UNCHANGED StreamsVars
    /\ IF scene = "record" THEN TRUE ELSE UNCHANGED RecVars
    /\ IF scene = "calibration" THEN TRUE ELSE UNCHANGED CalibVars

Step ==
    \/ scene = "pairing" /\ Pairing!Next
    \/ scene = "transforms" /\ Tf!Next
    \/ scene = "fake_vel" /\ FakeVel!Next
    \/ scene = "relocalization" /\ Relocal!Next
    \/ scene = "frames" /\ Frames!Next
    \/ scene = "map_odom" /\ MapOdom!Next
    \/ scene = "back_up" /\ BackUp!Next
    \/ scene = "teleop" /\ Teleop!Next
    \/ scene = "laser_scan" /\ Laser!Next
    \/ scene = "scan_sync" /\ Sync!Next
    \/ scene = "launch" /\ Files!Next
    \/ scene = "pursuit" /\ Pursuit!Next
    \/ scene = "terrain" /\ Terrain!Next
    \/ scene = "terrain_ext" /\ Ext!Next
    \/ scene = "startup" /\ Startup!Next
    \/ scene = "streams" /\ Streams!Next
    \/ scene = "record" /\ Rec!Next
    \/ scene = "calibration" /\ Calib!Next

Next == Step /\ OthersStand

Spec == Init /\ [][Next]_vars

-----------------------------------------------------------------------------
(* The properties, each stated in its module.                               *)

\* OdinPairing: no image or cloud is rendered twice or out of order, and two that
\* match are given up only for another match.
PairsRendered == scene = "pairing" => Pairing!RenderedInOrder /\ Pairing!MatchableRendered

\* What a step may not do.  OdinTf: the thread's stamps increase, whatever odometry
\* comes in between.  Relocalization: a transform sent for a new stamp carries the
\* newest pose.  FakeVel: while the controller is active the frame turns only with a
\* command.  BackUp: the robot is set going only with a free way, a pose, and time
\* and way left.  Teleop: goals are sent at least 250 ms apart.  OmniPid: a
\* computation gives up only poses near the robot.  Launch: once rviz has ended
\* nothing starts.  Terrain: after a request nothing nearer than the clearing
\* distance is left (ClearsBeyond is what the parameter files say instead).
StepsHeed ==
    [][/\ Tf!RepublishedIncrease /\ Relocal!FreshScanCarriesPose
       /\ FakeVel!FrameTurnsWithCommand /\ BackUp!StartsSafely /\ Teleop!GoalsSpaced
       /\ Pursuit!PrunesNearby /\ Files!ShutdownFinal /\ Terrain!ClearingClears]_vars

\* OdinStreams: every frame but a stream's first is in one rate, the offset is the
\* mean of the newest measurements, and a recorded frame's stamp differs from its
\* message's only if the clock or the offset moved between publishing and recording.
\* Calibration: with a whole file, the parameters the driver uses are of its camera,
\* and the depth and reprojection nodes run only with those of a whole file.  Of the
\* renderer's table this is said only while a single camera was used, and of
\* extrinsics of the wrong length nothing.  OdinTf: the repeated stamps never pass
\* the device's clock.  Relocalization: an attempt starts from the pose last given
\* or found.
PosesHold ==
    /\ Tf!NeverInTheFuture /\ Relocal!StartsFromLast
    /\ scene = "streams" => Streams!StreamsSound
    /\ scene = "calibration" => Calib!CalibrationSound

\* Terrain: a request clears the points beyond clearingDis, as the parameter files
\* of the bringup package say.
ClearsBeyond == [][Terrain!ClearsBeyond]_vars

\* ScanFrames: an obstacle that stands is at one place in every registered scan.
ScanInOdom == Frames!ScanInOdom
\* ScanFrames, MapOdom: the same of the scans loam_interface registers; the
\* odometry is the pose of the lidar; sensor_scan_generation gives back what the
\* lidar saw and where the chassis was; map->odom is what the device last sent.
FramesAgree ==
    /\ Frames!LoamScanInOdom /\ Frames!OdometryIsLidar /\ Frames!SensorScanAsSeen
    /\ Frames!ChassisFollows /\ MapOdom!FollowsDevice

\* FakeVel: a command that waits for its plan is the newest one.  BackUp: the
\* robot stands when the behaviour has ended, unless it goes on since a behaviour
\* lost its pose.  Teleop: once the buttons are released the robot stands.
CommandsHold == FakeVel!NewestKept /\ BackUp!StandsWhenEnded /\ Teleop!ReleaseStops

\* Every ray of a scan is the nearest of the accepted points in its sector, over
\* every cloud of up to two points.
NearestPerRay ==
    Laser!Init => \A p, q \in Laser!Point : Laser!NearestPerRay(<<p>>) /\ Laser!NearestPerRay(<<p, q>>)

\* LaserScan: no thread or node ends subscribed, and the rays are the nearest.
\* OdinRecord: every frame handed over is written once and in order.
ScansSound ==
    /\ Laser!EndsUnsubscribed /\ (scene = "laser_scan" => NearestPerRay)
    /\ scene = "record" => Rec!RecordSound

\* ScanSync: the filter gets every sample once and in order, scans are taken in
\* order, imu_next is the front of the queue, and it is never popped empty.
SamplesUsedOnce ==
    scene = "scan_sync" => /\ Sync!SamplesUsedOnce /\ Sync!ScansInOrder
                           /\ Sync!NextIsFront /\ Sync!NeverPopsEmpty

\* Launch: each combination of arguments launches one sender of each transform
\* and every managed node, velocities take the way through the transform, and no
\* node outlives its container.  OdinStartup: the odin driver runs with the settings
\* of its file, has a place for its maps, and leaves a whole camera file.
LaunchSound ==
    /\ scene = "launch" => Files!OneOfEach /\ Files!VelocitiesTransformed /\ Files!ProcessesKept
    /\ scene = "startup" => Startup!StartupSound

\* The geometry of the controller, over paths of three poses and points of a grid.
GeometryHolds ==
    LET Grid == (-1 .. 1) \X (-1 .. 1)
        Wide == (-2 .. 2) \X (-2 .. 2)
    IN  /\ \A path \in [1 .. 3 -> 0 .. 3], target \in 0 .. 7 : Pursuit!PoseIsOnPath(path, target)
        /\ \A p, q \in Wide, r \in 1 .. 2 : Pursuit!MeetsOnSegment(p, q, r)
        /\ \A a, b, c \in Grid : Pursuit!CentreIsEquidistant(a, b, c)

\* OmniPid: pruning keeps the goal, no command moves the robot into an obstacle
\* on its path if every pose looked up was transformed, and the geometry is right.
PursuitSound ==
    scene = "pursuit" =>
        /\ Pursuit!KeepsGoal /\ Pursuit!StopsForObstacles
        /\ Pursuit!Init => GeometryHolds

\* Terrain, TerrainExt: a point stays near the middle of its column as the grid
\* rolls, and leaves in time once the vehicle stands.
TerrainSound ==
    /\ Terrain!NearTheirColumn /\ Terrain!StaleLeave
    /\ Ext!NearTheirColumn /\ Ext!StaleLeave
=============================================================================
