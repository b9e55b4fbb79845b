-------------------------------- MODULE Launch --------------------------------
(***************************************************************************)
(* The launch files of pb2025_nav_bringup: the nodes that each combination  *)
(* of their arguments starts, and what becomes of them as processes end.    *)
(*                                                                         *)
(* A node is a process, or a component of the process nav2_container.  The  *)
(* launch files start the processes, load the components once there is a    *)
(* container, and start a process that ended again where respawn says so;   *)
(* when rviz ends they shut everything down.                                *)
(***************************************************************************)
EXTENDS Integers, FiniteSets

CONSTANT MaxExits       \* bound: processes that end

VARIABLES args,         \* the arguments of the launch
          world_file,   \* the launch file: reality or simulation
          up,           \* names of the running nodes
          waiting,      \* processes that ended and will be started again
          starts, loads,  \* the processes were started, the components loaded
          closing,      \* Shutdown was emitted
          exits

vars == <<args, world_file, up, waiting, starts, loads, closing, exits>>

Args == [slam : BOOLEAN, lidar : {"livox", "odin"}, use_composition : BOOLEAN,
         use_respawn : BOOLEAN, use_rviz : BOOLEAN]

Process(names, respawn) == {[name |-> n, component |-> FALSE, respawn |-> respawn] : n \in names}
Component(names) == {[name |-> n, component |-> TRUE, respawn |-> FALSE] : n \in names}

Nodes(a, names) == IF a.use_composition THEN Component(names) ELSE Process(names, a.use_respawn)
Manager(a, name) == IF a.use_composition THEN Component({name}) ELSE Process({name}, FALSE)

For(a, lidar, nodes) == IF a.lidar = lidar THEN nodes ELSE {}

lifecycle_nodes ==
    [lifecycle_manager_navigation |->
         {"controller_server", "smoother_server", "planner_server", "behavior_server",
          "bt_navigator", "waypoint_follower", "velocity_smoother"},
     lifecycle_manager_localization |-> {"map_server"},
     lifecycle_manager_slam |-> {"map_saver"}]

-----------------------------------------------------------------------------
(* What each launch file starts.                                            *)

\* Mutant: both interfaces are loaded into the container.
navigation_launch_both(a) ==
    Process({"terrain_analysis", "terrain_analysis_ext"}, a.use_respawn)
    \cup Nodes(a, {"sensor_scan_generation", "fake_vel_transform", "loam_interface",
                   "odin_interface"})
    \cup Nodes(a, lifecycle_nodes.lifecycle_manager_navigation)
    \cup Manager(a, "lifecycle_manager_navigation")

navigation_launch(a) ==
    Process({"terrain_analysis", "terrain_analysis_ext"}, a.use_respawn)
    \cup Nodes(a, {"sensor_scan_generation", "fake_vel_transform"})
    \cup For(a, "livox", Nodes(a, {"loam_interface"}))
    \cup For(a, "odin", Nodes(a, {"odin_interface"}))
    \cup Nodes(a, lifecycle_nodes.lifecycle_manager_navigation)
    \cup Manager(a, "lifecycle_manager_navigation")

localization_launch(a) ==
    For(a, "livox", Process({"point_lio"}, a.use_respawn))
    \cup Nodes(a, lifecycle_nodes.lifecycle_manager_localization)
    \cup For(a, "livox", Nodes(a, {"small_gicp_relocalization"}))
    \cup Manager(a, "lifecycle_manager_localization")

\* Nothing is composed; the map saver takes the name of its program.
slam_launch(a) ==
    Process({"map_saver", "pointcloud_to_laserscan", "slam_toolbox"}, a.use_respawn)
    \cup Manager([a EXCEPT !.use_composition = FALSE], "lifecycle_manager_slam")
    \cup For(a, "livox", Process({"point_lio"}, a.use_respawn)
                         \cup Process({"static_transform_publisher_map2odom"}, FALSE))

bringup_launch(a) ==
    (IF a.use_composition THEN Process({"nav2_container"}, FALSE) ELSE {})
    \cup (IF a.lidar = "odin" \/ a.slam THEN slam_launch(a) ELSE {})
    \cup (IF ~a.slam /\ a.lidar = "livox" THEN localization_launch(a) ELSE {})
    \cup navigation_launch(a)

joy_teleop_launch == Process({"joy_node", "pb_teleop_twist_joy_node"}, FALSE)

rviz_launch(a) == IF a.use_rviz THEN Process({"rviz2"}, FALSE) ELSE {}

odin_driver_launch ==
    Process({"host_sdk_sample", "gimbal_yaw_to_lidar", "base_footprint_to_gimbal_yaw"}, FALSE)

rm_navigation_reality_launch(a) ==
    For(a, "livox", Process({"livox_ros_driver2"}, FALSE))
    \cup For(a, "odin", odin_driver_launch)
    \cup bringup_launch(a) \cup joy_teleop_launch \cup rviz_launch(a)

\* The simulation declares no lidar: bringup_launch takes its default.
rm_navigation_simulation_launch(a) ==
    Process({"ign_sim_pointcloud_tool"}, FALSE)
    \cup bringup_launch([a EXCEPT !.lidar = "livox"]) \cup joy_teleop_launch \cup rviz_launch(a)

Launched(file, a) ==
    IF file = "reality" THEN rm_navigation_reality_launch(a)
    ELSE rm_navigation_simulation_launch(a)

Started == Launched(world_file, args)
Names(nodes) == {n.name : n \in nodes}

-----------------------------------------------------------------------------
(* What the nodes send each other.                                          *)

\* Who sends a transform, by its child frame (the configurations turn
\* slam_toolbox's own off and odin_interface's on).
Broadcasters(frame, names) ==
    names \cap
    CASE frame = "odom"          -> {"small_gicp_relocalization", "odin_interface",
                                     "static_transform_publisher_map2odom"}
      [] frame = "base_footprint" -> {"sensor_scan_generation"}
      [] frame = "gimbal_yaw_fake" -> {"fake_vel_transform"}

\* The topics a node turns velocities of one into velocities of the other, with
\* the remappings of each branch.
VelocityEdges(a) ==
    {<<"controller_server", "cmd_vel_controller">>, <<"cmd_vel_controller", "velocity_smoother">>,
     <<"velocity_smoother", "cmd_vel_nav2_result">>,
     <<"cmd_vel_nav2_result", "fake_vel_transform">>, <<"fake_vel_transform", "cmd_vel">>,
     <<"behavior_server", IF a.use_composition THEN "cmd_vel_nav2_result" ELSE "cmd_vel">>}

\* What an origin's velocities pass: no chain of the nodes is longer than six.
Reaches(edges, origin) ==
    LET reach[k \in 0 .. 6] ==
            IF k = 0 THEN {origin}
            ELSE LET before == reach[k - 1]
                 IN  before \cup {e[2] : e \in {d \in edges : d[1] \in before}}
    IN  reach[6]

-----------------------------------------------------------------------------
(* Running.                                                                 *)

Init ==
    /\ args \in Args /\ world_file \in {"reality", "simulation"}
    /\ up = {} /\ waiting = {} /\ starts = FALSE /\ loads = FALSE
    /\ closing = FALSE /\ exits = 0

\* The processes are started.
StartProcesses ==
    /\ ~closing /\ ~starts /\ starts' = TRUE
    /\ up' = up \cup Names({n \in Started : ~n.component})
    /\ UNCHANGED <<args, world_file, loads, waiting, closing, exits>>

\* The components are loaded; the loading waits for a container that is up.
LoadComponents ==
    /\ ~closing /\ ~loads /\ "nav2_container" \in up /\ loads' = TRUE
    /\ up' = up \cup Names({n \in Started : n.component})
    /\ UNCHANGED <<args, world_file, starts, waiting, closing, exits>>

\* Mutant: the components of a container that ended are still there.
ExitAlone ==
    \E n \in Started :
        /\ exits < MaxExits /\ n.name \in up /\ ~n.component
        /\ up' = up \ {n.name}
        /\ waiting' = IF n.respawn THEN waiting \cup {n.name} ELSE waiting
        /\ exits' = exits + 1 /\ UNCHANGED <<args, world_file, starts, loads, closing>>

\* A process ends; the container takes its components with it, and rviz all.
Exit ==
    \E n \in Started :
        /\ exits < MaxExits /\ n.name \in up /\ ~n.component
        /\ LET gone == IF n.name = "nav2_container"
                       THEN {n.name} \cup Names({c \in Started : c.component}) ELSE {n.name}
           IN  /\ up' = IF n.name = "rviz2" \/ closing THEN {} ELSE up \ gone
               /\ waiting' = IF n.name = "rviz2" \/ closing THEN {}
                             ELSE IF n.respawn THEN waiting \cup {n.name} ELSE waiting
        /\ closing' = (closing \/ n.name = "rviz2")
        /\ exits' = exits + 1 /\ UNCHANGED <<args, world_file, starts, loads>>

\* respawn_delay has passed.
Respawn ==
    \E n \in waiting :
        /\ ~closing
        /\ waiting' = waiting \ {n} /\ up' = up \cup {n}
        /\ UNCHANGED <<args, world_file, starts, loads, closing, exits>>

Next == StartProcesses \/ LoadComponents \/ Exit \/ Respawn

Spec == Init /\ [][Next]_vars
-----------------------------------------------------------------------------
(* Properties.                                                              *)

TypeOK ==
    /\ args \in Args /\ world_file \in {"reality", "simulation"}
    /\ up \subseteq Names(Started) /\ waiting \subseteq Names(Started) /\ up \cap waiting = {}
    /\ starts \in BOOLEAN /\ loads \in BOOLEAN /\ closing \in BOOLEAN /\ exits \in 0 .. MaxExits

\* Whatever the arguments, map->odom, odom->base_footprint and the frame of the
\* commands have one sender each, one node gives the odometry of the lidar, and
\* every node a lifecycle manager waits for is launched.
OneOfEach ==
    LET names == Names(Started)
    IN  /\ \A frame \in {"odom", "base_footprint", "gimbal_yaw_fake"} :
               Cardinality(Broadcasters(frame, names)) = 1
        /\ Cardinality(names \cap {"point_lio", "host_sdk_sample"}) = 1
        /\ \A manager \in DOMAIN lifecycle_nodes :
               manager \in names => lifecycle_nodes[manager] \subseteq names

\* The controller's velocities reach the chassis, and only through the smoother
\* and the transform; those of the behaviours go through the transform when the
\* nodes are composed.
VelocitiesTransformed ==
    LET Without(node) == {e \in VelocityEdges(args) : node \notin {e[1], e[2]}}
    IN  /\ "cmd_vel" \in Reaches(VelocityEdges(args), "controller_server")
        /\ "cmd_vel" \in Reaches(VelocityEdges(args), "behavior_server")
        /\ \A node \in {"velocity_smoother", "fake_vel_transform"} :
               "cmd_vel" \notin Reaches(Without(node), "controller_server")
        /\ args.use_composition =>
               "cmd_vel" \notin Reaches(Without("fake_vel_transform"), "behavior_server")

\* No component outlives its container, and a process that respawns is running or
\* waiting to be started again until everything shuts down.
ProcessesKept ==
    \A n \in Started :
        /\ n.component /\ n.name \in up => "nav2_container" \in up
        /\ n.respawn /\ starts /\ ~closing => n.name \in up \cup waiting

\* Once rviz has ended nothing starts.
ShutdownFinal == closing => up' \subseteq up
=============================================================================
