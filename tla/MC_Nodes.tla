------------------------------- MODULE MC_Nodes -------------------------------
(* Nodes with the values of its constants that a cfg cannot write, and more     *)
(* scenes in the same way: the constants of each of these are in its INSTANCE.  *)
EXTENDS Nodes

VARIABLES
    \* Inputs of the algorithms
    tenths, pieces,
    \* Preprocess
    lidar_type, cut_frame_init, point_filter_num, scan_count, Cloud_last_timestamp_lidar,
    given_offset_time, pl_surf, Cloud_lidar_buffer, cut,
    \* LocalMap
    enable_prior_pcd, pcd_save_en, grids_cache_, grids_map_, Nearest_Points, feats_down_world,
    init_feats_world, Local_init_map, sleep_time, pcl_wait_save, scan_wait_num, files,
    Local_running, Local_scans, added, published,
    \* CloudImages
    Views_clouds, Views_images, reprojected_topic_, camera_topic_, latest_reproj_img_,
    latest_camera_img_, latest_header_, overlays

\* Plans that go on, turn back, stand still, jump, and are one pose; and the limits
\* a user sets.
MCPlans == {<<0, 1, 2>>, <<0, 1, 0>>, <<2, 2, 0>>, <<1, 0, 2>>, <<2>>}
MCLimits == {<<-3, 3>>, <<-4, 4>>}
\* base->lidar, which turns the three points round.
MCMount == <<2, 3, 1>>
\* The device's clock is behind the host's, or ahead.
MCOffsets == {-2, 1}

\* The parameters of the terrain nodes, over a lattice of a few points.
TerrainSettings ==
    [minRelZ |-> -4, maxRelZ |-> 2, disRatioZ |-> 0, decayTime |-> 1, noDecayDis |-> 1,
     clearingDis |-> 0, inner |-> 1, planarVoxelSize |-> 2, planarHalf |-> 1,
     voxelPointUpdateThre |-> 4, voxelTimeUpdateThre |-> 2, useSorting |-> TRUE,
     quantileZ |-> <<1, 3>>, lifts |-> {}, clearDyObs |-> TRUE, minDyObsDis |-> 0,
     minDyObsRelZ |-> -2, absDyObsRelZThre |-> 1, minDyObsPointNum |-> 1,
     noDataObstacle |-> FALSE, noDataBlockSkipNum |-> 1, minBlockPointNum |-> 2,
     vehicleHeight |-> 2, considerDrop |-> FALSE]
ExtSettings ==
    [lowerBoundZ |-> -2, upperBoundZ |-> 4, disRatioZ |-> 0, decayTime |-> 1, noDecayDis |-> 0,
     clearingDis |-> 2, inner |-> 2, planarVoxelSize |-> 2, planarHalf |-> 2, connReach |-> 2,
     voxelPointUpdateThre |-> 3, voxelTimeUpdateThre |-> 1, useSorting |-> TRUE,
     quantileZ |-> <<1, 4>>, checkTerrainConn |-> TRUE, terrainUnderVehicle |-> -1,
     terrainConnThre |-> 1, ceilingFilteringThre |-> 3, vehicleHeight |-> 2,
     localTerrainMapRadius |-> 1]
MCVehicles == {<<0, 0, 0>>, <<3, -5, 0>>}
\* An obstacle too high for the map, with the ground below it, and a place with
\* nothing around it; the obstacle on rising ground.
TerrainScans ==
    {{<<1, -1, 0>>, <<1, -1, -2>>, <<3, -4, 0>>}, {<<1, -1, 0>>, <<0, -1, -1>>, <<1, -2, 1>>}}
ExtScans == {{<<4, -4, 3>>}, {<<2, -2, 0>>}}
MCLocalMaps == {{[p |-> <<1, -1, 0>>, height |-> 1]}}

\* Scans of a lidar with two rings, and one that is not used: so many points, so
\* long apart, some of them too near or no return, in the order they were measured
\* or with the later ones first.
Sweep(n, stride, bad, timed, backward) ==
    LET At(k) == IF k = 1 THEN 0 ELSE stride * (IF backward THEN n - k + 1 ELSE k - 1)
        Seen(k) == [at |-> At(k), yaw |-> (5 - At(k)) % 10, ring |-> (IF k = 5 /\ backward THEN 2 ELSE k % 2),
                    range |-> (IF k \in bad THEN k % 2 ELSE 2), good |-> k \notin bad \/ k = 2]
    IN  [points |-> [k \in 1 .. n |-> Seen(k)], timed |-> timed]
SomeSweeps ==
    {Sweep(n, 1, {}, timed, backward) : n \in {1, 2, 6, 7}, timed \in BOOLEAN, backward \in {FALSE}}
        \cup {Sweep(n, 2, bad, timed, FALSE) : n \in {5, 7}, bad \in {{1}, {2, 3}}, timed \in BOOLEAN}
        \cup {Sweep(7, 2, {5}, FALSE, FALSE)}
        \cup {Sweep(7, stride, bad, TRUE, TRUE) : stride \in 0 .. 1, bad \in {{}, {1, 4}}}

\* Configuration files of the odin driver: keys twice, or of the wrong kind.
OdinFiles ==
    LET Is(k, x) == [kind |-> k, v |-> x]
    IN  {
         <<<<"recorddata", Is("int", 1)>>, <<"recorddata", Is("text", "on")>>,
           <<"custom_map_mode", Is("int", 0)>>, <<"custom_map_mode", Is("int", 1)>>>>,
         <<<<"devstatuslog", Is("int", 1)>>, <<"custom_map_mode", Is("float", 1)>>,
           <<"overlay_alpha", Is("float", 1)>>>>,
         <<<<"custom_map_mode", Is("int", 1)>>, <<"custom_init_pos", Is("list", <<0, 1>>)>>,
           <<"mapping_result_dest_dir", Is("text", "maps")>>, <<"strict_usb3.0_check", Is("int", 0)>>,
           <<"recordata", Is("int", 1)>>>>}

\* What the files of the cameras hold: two are whole.
CameraFiles ==
    [left |-> "whole", right |-> "whole", cut |-> "short", bare |-> "missing", broken |-> "incomplete"]

\* A camera that looks along the x axis of the lidar.
CameraPose == <<<<0, -1, 0, 0>>, <<0, 0, -1, 0>>, <<1, 0, 0, 0>>>>

\* Frames of the serial line; pieces of a buffer: frames, frames cut short, frames
\* with a changed byte, and noise whose SOFs do not announce more bytes than there
\* are before the next piece; what a longer announcement does depends on the bytes
\* that follow.
Codec == INSTANCE SerialFrame
SomeFrames ==
    {[cmd |-> 18, data |-> <<7>>], [cmd |-> 17, data |-> <<Codec!SOF, Codec!EOF>>],
     [cmd |-> 18, data |-> <<>>]}
Pieces ==
    LET Image(f) == Codec!packFrame(f.cmd, f.data)
        Whole == {[bytes |-> Image(f), frames |-> <<f>>] : f \in SomeFrames}
        Short == Image([cmd |-> 18, data |-> <<7>>])
        Long == Image([cmd |-> 17, data |-> <<Codec!SOF, Codec!EOF>>])
        Noise == {<<0>>, <<Codec!SOF>>, <<Codec!SOF, 18>>, SubSeq(Short, 1, 4),
                  [Short EXCEPT ![4] = 8], [Short EXCEPT ![7] = 0], [Long EXCEPT ![3] = 200]}
    IN  Whole \cup {[bytes |-> n, frames |-> <<>>] : n \in Noise}

\* tenths runs over the frequency parameters, in tenths of a hertz, and over the
\* sizes that a word of ten bits can round up; pieces runs over buffers put
\* together from up to three pieces.  One of the two runs at a time.
Sizing == INSTANCE QueueSizing WITH Word <- 10
InputsNext ==
    \/ tenths < 1050 /\ pieces = <<>> /\ tenths' = tenths + 1 /\ UNCHANGED pieces
    \/ Len(pieces) < 3 /\ tenths = 0 /\ \E p \in Pieces : pieces' = Append(pieces, p)
       /\ UNCHANGED tenths

Cloud == INSTANCE Preprocess WITH
    N_SCANS <- 2, Blind <- 1, DetRange <- 3, Turn <- 10, Sweeps <- SomeSweeps,
    FilterNums <- {1, 2}, cut_frame_num <- 3,
    Warmup <- [type \in {"AVIA", "VELO16", "OUST64", "HESAIxt32"} |-> 2], MaxScans <- 2,
    last_timestamp_lidar <- Cloud_last_timestamp_lidar, lidar_buffer <- Cloud_lidar_buffer

Local == INSTANCE LocalMap WITH
    resolution_ <- 4, nearby_type_ <- "NEARBY6", capacity_ <- 3, max_range <- 5,
    NUM_MATCH_POINTS <- 2, filter_size_map_min <- 4, init_map_size <- 2,
    Scans <- {<<<<1, 1, 1>>, <<3, 1, 1>>>>, <<<<5, 1, 1>>, <<13, 1, 1>>>>, <<<<-3, 1, 1>>, <<9, 1, 1>>>>, <<<<1, 1, 3>>, <<3, 1, -1>>>>},
    Corrections <- {<<0, 0, 0>>, <<4, 0, 0>>}, Prior <- <<<<3, 3, 1>>, <<1, 5, 1>>>>,
    FewPoints <- 1, Settling <- 1, pcd_save_interval <- 2, MaxScans <- 4,
    init_map <- Local_init_map, running <- Local_running, scans <- Local_scans

Views == INSTANCE CloudImages WITH
    image_width <- 14, image_height <- 9, fx <- 4, fy <- 4, cx <- 6, cy <- 4, skew <- 0,
    Tcl <- CameraPose, scale <- 3, point_sampling_rate <- 2, edge <- 1, tangents <- {5, 12, 29},
    dist_table <- <<1, 3, 5, 6>>, point_radius_ <- 1, alpha <- 6, depth_ <- 1, MaxStamp <- 3,
    clouds <- Views_clouds, images <- Views_images

Broad == INSTANCE TerrainGrid WITH Size <- 1, Rows <- 2, Side <- 5, ConnReach <- 1
Long == INSTANCE TerrainGrid WITH Size <- 1, Rows <- 1, Side <- 5, ConnReach <- 2

InputsVars == <<tenths, pieces>>
CloudVars ==
    <<lidar_type, cut_frame_init, point_filter_num, scan_count, Cloud_last_timestamp_lidar,
    given_offset_time, pl_surf, Cloud_lidar_buffer, cut>>
LocalVars ==
    <<enable_prior_pcd, pcd_save_en, grids_cache_, grids_map_, Nearest_Points, feats_down_world,
    init_feats_world, Local_init_map, sleep_time, pcl_wait_save, scan_wait_num, files,
    Local_running, Local_scans, added, published>>
ViewsVars ==
    <<Views_clouds, Views_images, reprojected_topic_, camera_topic_, latest_reproj_img_,
    latest_camera_img_, latest_header_, overlays>>

others == <<InputsVars, CloudVars, LocalVars, ViewsVars>>
MCVars == <<vars, others>>

\* The modules that are not the scene's start in one way.
MCInit ==
    /\ scene \in Scenes
    /\ scene # "frames" => source = CHOOSE s \in FrameSources : TRUE
    /\ scene # "teleop" => control_mode_ = "manual_control" /\ require_enable_button_ = FALSE
           /\ sent_disable_msg_ = FALSE
    /\ scene # "laser_scan" => node = "pointcloud_to_laserscan"
    /\ scene # "scan_sync" => con_frame = FALSE /\ use_imu_as_input = FALSE
    /\ scene # "launch" => args = [slam |-> TRUE, lidar |-> "odin", use_composition |-> FALSE, use_respawn |-> TRUE,
                            use_rviz |-> FALSE]
           /\ world_file = "reality"
    /\ scene # "pursuit" => limits = <<-3, 3>>
    /\ scene # "startup" => main = "load" /\ Startup_file = <<>>
    /\ scene # "streams" => g_use_host_ros_time = 0 /\ flags = Streams!Flags
    /\ Init
    /\ tenths = 0 /\ pieces = <<>>
    /\ Cloud!Init /\ (scene # "preprocess" =>
           lidar_type = "AVIA" /\ ~cut_frame_init /\ point_filter_num = 1)
    /\ Local!Init /\ (scene # "local_map" =>
           ~enable_prior_pcd /\ ~pcd_save_en)
    /\ Views!Init

\* Every module but the scene's stands, but for those of Nodes.
RestStands ==
    /\ IF scene = "algorithms" THEN TRUE ELSE UNCHANGED InputsVars
    /\ IF scene = "preprocess" THEN TRUE ELSE UNCHANGED CloudVars
    /\ IF scene = "local_map" THEN TRUE ELSE UNCHANGED LocalVars
    /\ IF scene = "views" THEN TRUE ELSE UNCHANGED ViewsVars

RestStep ==
    \/ scene = "algorithms" /\ InputsNext
    \/ scene = "preprocess" /\ Cloud!Next
    \/ scene = "local_map" /\ Local!Next
    \/ scene = "views" /\ Views!Next

MCNext ==
    \/ Next /\ UNCHANGED others
    \/ RestStep /\ RestStands /\ UNCHANGED vars

MCSpec == MCInit /\ [][MCNext]_MCVars

\* The scheduling the modules state: the threads of pointcloud_to_laserscan run.
FairSpec ==
    /\ MCSpec
    /\ WF_MCVars(scene = "laser_scan" /\ Laser!Thread /\ OthersStand /\ UNCHANGED others)
    /\ WF_MCVars(scene = "laser_scan" /\ Laser!Join /\ OthersStand /\ UNCHANGED others)
    /\ WF_MCVars(scene = "laser_scan" /\ Laser!CallbackEnds /\ OthersStand /\ UNCHANGED others)
    /\ WF_MCVars(scene = "record" /\ Rec!Thread /\ OthersStand /\ UNCHANGED others)
    /\ WF_MCVars(scene = "record" /\ Rec!Join /\ OthersStand /\ UNCHANGED others)

-----------------------------------------------------------------------------
(* The properties, each stated in its module.                               *)

\* Every variable of every module keeps its type.
TypeOK ==
    /\ scene = "pairing" => Pairing!TypeOK
    /\ scene = "transforms" => Tf!TypeOK
    /\ scene = "fake_vel" => FakeVel!TypeOK
    /\ scene = "relocalization" => Relocal!TypeOK
    /\ scene = "frames" => Frames!TypeOK
    /\ scene = "map_odom" => MapOdom!TypeOK
    /\ scene = "back_up" => BackUp!TypeOK
    /\ scene = "teleop" => Teleop!TypeOK
    /\ scene = "laser_scan" => Laser!TypeOK
    /\ scene = "scan_sync" => Sync!TypeOK
    /\ scene = "launch" => Files!TypeOK
    /\ scene = "pursuit" => Pursuit!TypeOK
    /\ scene = "terrain" => Terrain!TypeOK
    /\ scene = "terrain_ext" => Ext!TypeOK
    /\ scene = "preprocess" => Cloud!TypeOK
    /\ scene = "local_map" => Local!TypeOK
    /\ scene = "startup" => Startup!TypeOK
    /\ scene = "streams" => Streams!TypeOK
    /\ scene = "record" => Rec!TypeOK
    /\ scene = "calibration" => Calib!TypeOK
    /\ scene = "views" => Views!TypeOK

\* Terrain: an obstacle that is seen, and stands out of enough points around it, is
\* published, unless it is averaged with a decayed observation or a request clears
\* it.  TerrainExt: what is published is connected ground.
TerrainHeeds == [][Terrain!SeenIsServed /\ Ext!GroundConnected]_MCVars

\* CloudImages, over clouds of up to two points.
ViewsHold ==
    LET Ahead == {<<4, 4, 0>>, <<4, -5, 3>>, <<8, 2, -2>>, <<8, -3, -6>>, <<-4, 1, 1>>, <<4, 1, 1>>}
        Coloured == [p \in Views!Pixels |-> 10 * p[1] + p[2]]
    IN  /\ \A p, q \in Ahead : /\ Views!CellsKept(<<Views!Moved(p), Views!Moved(q)>>)
                               /\ Views!ColoursWhereSeen(<<p, q>>, Coloured)
                               /\ Views!DrawnWhereSeen(<<[at |-> Views!Moved(p), color |-> 10],
                                                        [at |-> Views!Moved(q), color |-> 100]>>)
        /\ \A pf \in {<<x, y, z>> \in (-4 .. 4) \X {-3, 0, 3} \X (-1 .. 4) : x = 0 \/ y = 0 \/ x \in {-4, 4}} :
              Views!RaysShareColour(pf, Coloured)
        /\ Views!ReprojectsAsSeen

\* CloudImages: overlays go forward, and points get the colours where they are seen.
\* Preprocess: every point has the time it was measured, the frames a scan is cut
\* into follow each other and have its points.  LocalMap: the map keeps the cubes
\* last used, finds the nearest points, covers the scans and is saved once.
CloudsSound ==
    /\ scene = "views" => Views!OverlaysAdvance /\ (Views!Init => ViewsHold)
    /\ scene = "preprocess" => Cloud!Measured /\ Cloud!FramesFollow /\ Cloud!CutWhole
    /\ scene = "local_map" =>
          /\ Local!IndexAgrees /\ Local!RecentKept /\ Local!MapCovers /\ Local!SavedOnce
          /\ \A p \in {<<x, y, 1>> : x \in {-3, 5}, y \in {1, 5}} : Local!NearestFound(p)

\* LaserScan: the input is subscribed while somebody listens; the destructor
\* returns.  OdinRecord: so does the recording's.
ThreadsServe ==
    /\ scene = "laser_scan" => Laser!FollowsListeners /\ Laser!DestructorReturns
    /\ scene = "record" => Rec!ShutdownReturns

\* The cells without data and the search for connected ground, over small grids.
GridsHold ==
    /\ \A nodata \in SUBSET Broad!Columns, skip \in 1 .. 2 : Broad!ObstaclesAreDeep(nodata, skip)
    /\ \A data \in SUBSET Long!Columns, elev \in [Long!Columns -> 0 .. 3] :
          Long!SearchConnects(<<0, 2>>, data, elev, 2, 2)

\* A ring is the least power of two that holds the wanted size and the frames of
\* a second; every frame of a buffer of bytes is found, and no damaged one.  BackUp:
\* the sector to back up into is a gap, and the whole of it.  Terrain, TerrainExt:
\* the algorithms on the cells give what they should.
AlgorithmsAgree ==
    /\ scene = "algorithms" =>
          /\ Sizing!RoundsUpTightly(tenths) /\ Sizing!HoldsOneSecond(tenths)
          /\ Codec!FindsEveryFrame(pieces)
          /\ tenths = 0 /\ pieces = <<>> =>
                \A f \in SomeFrames : f.data # <<>> => Codec!DetectsTwoBits(f.cmd, f.data)
    /\ scene = "back_up" /\ BackUp!Init =>
          \A n \in 0 .. 9 : \A rays \in [1 .. n -> BOOLEAN] : BackUp!SectorIsGap(rays)
    /\ scene = "terrain" /\ Terrain!Init => GridsHold
=============================================================================
