CONSTANTS
    Scenes = {"pairing", "transforms", "fake_vel", "relocalization", "frames", "map_odom",
              "back_up", "teleop", "algorithms", "laser_scan", "scan_sync", "launch",
              "pursuit", "terrain", "terrain_ext", "preprocess", "local_map", "startup", "streams",
              "record", "calibration", "views"}
    FrameSources = {"loam", "odin"}
    Limit = 2
    Tolerance = 1
    MaxStamp = 3
    MaxSession = 2
    Delay = 2
    Tf_MaxTime = 5
    MaxBoots = 2
    Burst = 1
    MaxCommands = 3
    Yaws = {0, 1}
    Speeds = {0, 1}
    Poses = {1, 2}
    FirstPose = 1
    Relocal_MaxScans = 3
    Mount <- MCMount
    Obstacle = 1
    Frames_MaxScans = 3
    Distance = 2
    Allowances = {0, 2}
    Modes = {"manual_control", "auto_control"}
    HasTurbo = TRUE
    Teleop_MaxTime = 6
    PTP_SMOOTH_WINDOW_SIZE = 2
    Kinds = {"imu", "dtof"}
    Offsets <- MCOffsets
    Streams_MaxTime = 2
    MaxPackets = 3
    Tcl_0 <- CameraFiles
    Undistort = TRUE
    Polls = 1
    MaxAttaches = 2
    Rays = 2
    Increment = 2
    AngleMax = 4
    MaxRange = 2
    Callbacks = {1, 2}
    batch_size = 2
    MaxFrames = 3
    Sync_MaxTime = 6
    Duration = 1
    InitCount = 1
    Combined = 1
    MaxExits = 2
    Line = {0, 1, 2}
    Plans <- MCPlans
    Obstructions = {{}, {1}}
    SearchDist = 1
    Extent = 1
    Lookaheads = {1, 2}
    sample_points = 3
    Origin = 0
    Limits <- MCLimits
    Approach = 1
    ScalingDist = 2
    Rate = 1
    ConfigFiles <- OdinFiles
    Terrain_Settings <- TerrainSettings
    Terrain_Size = 2
    Terrain_Half = 2
    Terrain_Vehicles <- MCVehicles
    Terrain_Scans <- TerrainScans
    Terrain_Distances = {2}
    Terrain_MaxTime = 4
    Ext_Settings <- ExtSettings
    Ext_Size = 2
    Ext_Half = 2
    Ext_Vehicles <- MCVehicles
    Ext_Scans <- ExtScans
    Ext_Distances = {2}
    LocalMaps <- MCLocalMaps
    Ext_MaxTime = 3
SPECIFICATION FairSpec
INVARIANTS
    TypeOK
    PairsRendered
    PosesHold
    CommandsHold
    FramesAgree
    ScansSound
    
    PursuitSound
    TerrainSound
    CloudsSound
    SamplesUsedOnce
    AlgorithmsAgree
PROPERTIES
    StepsHeed
    TerrainHeeds
    ThreadsServe
CHECK_DEADLOCK FALSE
