------------------------------ MODULE TerrainExt ------------------------------
(***************************************************************************)
(* terrain_analysis_ext: the terrain of a larger square than                *)
(* terrain_analysis's, without what is over the robot, published as         *)
(* terrain_map_ext with terrain_analysis's map in the middle.  The thread   *)
(* runs the callbacks that wait and then the rest of the loop, as there.    *)
(***************************************************************************)
EXTENDS Integers, FiniteSets

CONSTANTS Settings, Size, Half, Vehicles, Scans, Distances, MaxTime,  \* as in Terrain
          LocalMaps  \* what terrain_analysis can publish: sets of places

VARIABLES vehicle, terrainVoxelShift, terrainVoxelCloud,
          terrainVoxelUpdateNum, terrainVoxelUpdateTime,
          laserCloudTime, laserCloudCrop, newlaserCloud, terrainCloudLocal,
          clearingCloud, clearingDis,
          terrain_map_ext,  \* the points last published
          moved_at          \* history: the time of the last motion

odometry == <<vehicle, moved_at>>
scan == <<laserCloudTime, laserCloudCrop, newlaserCloud>>
clearing == <<clearingCloud, clearingDis>>
voxels == <<terrainVoxelShift, terrainVoxelCloud, terrainVoxelUpdateNum, terrainVoxelUpdateTime>>
vars == <<odometry, scan, terrainCloudLocal, clearing, voxels, terrain_map_ext>>

Voxels == INSTANCE TerrainGrid WITH Rows <- 2 * Half + 1, Side <- 2 * Half + 1, ConnReach <- Settings.connReach
Squares == INSTANCE TerrainGrid WITH Size <- Settings.planarVoxelSize,
                                     Rows <- 2 * Settings.planarHalf + 1,
                                     Side <- 2 * Settings.planarHalf + 1, ConnReach <- Settings.connReach

Init ==
    /\ vehicle = <<0, 0, 0>> /\ moved_at = 0
    /\ laserCloudTime = 0 /\ laserCloudCrop = {} /\ newlaserCloud = FALSE
    /\ terrainCloudLocal = {} /\ clearingCloud = FALSE /\ clearingDis = Settings.clearingDis
    /\ terrainVoxelShift = <<0, 0>> /\ terrainVoxelCloud = {} /\ terrain_map_ext = {}
    /\ terrainVoxelUpdateNum = [c \in Voxels!Columns |-> 0]
    /\ terrainVoxelUpdateTime = [c \in Voxels!Columns |-> 0]

-----------------------------------------------------------------------------
(* The callbacks.                                                           *)

odometryHandler ==
    /\ vehicle' \in Vehicles
    /\ moved_at' = IF vehicle' = vehicle THEN moved_at ELSE laserCloudTime
    /\ UNCHANGED <<scan, terrainCloudLocal, clearing, voxels, terrain_map_ext>>

InRange(p) == Voxels!InBand(p, vehicle, Settings.lowerBoundZ, Settings.upperBoundZ, Settings.disRatioZ)

laserCloudHandler ==
    /\ laserCloudTime' \in laserCloudTime + 1 .. MaxTime
    /\ \E seen \in Scans :
          laserCloudCrop' = {[p |-> p, t |-> laserCloudTime'] : p \in
              {q \in seen : InRange(q) /\ Voxels!Dist(q, vehicle) < Size * (Half + 1)}}
    /\ newlaserCloud' = TRUE
    /\ UNCHANGED <<odometry, terrainCloudLocal, clearing, voxels, terrain_map_ext>>

terrainCloudLocalHandler ==
    /\ terrainCloudLocal' \in LocalMaps
    /\ UNCHANGED <<odometry, scan, clearing, voxels, terrain_map_ext>>

\* The button clears as far as was last asked for.
joystickHandler ==
    /\ clearingCloud' = TRUE
    /\ UNCHANGED <<odometry, scan, terrainCloudLocal, clearingDis, voxels, terrain_map_ext>>

clearingHandler ==
    /\ clearingDis' \in Distances /\ clearingCloud' = TRUE
    /\ UNCHANGED <<odometry, scan, terrainCloudLocal, voxels, terrain_map_ext>>

-----------------------------------------------------------------------------
(* The loop.                                                                *)

ShiftBy == [i \in 1 .. 2 |-> Voxels!Turns(vehicle[i], terrainVoxelShift[i])]

StackedCloud ==
    Voxels!RollOver(terrainVoxelCloud, ShiftBy) \cup Voxels!Stacked(laserCloudCrop, vehicle)

UpdateNum(c) ==
    terrainVoxelUpdateNum[c]
        + Cardinality({e \in Voxels!Stacked(laserCloudCrop, vehicle) : e.at = c})

Due(c) ==
    \/ UpdateNum(c) >= Settings.voxelPointUpdateThre
    \/ laserCloudTime - terrainVoxelUpdateTime[c] >= Settings.voxelTimeUpdateThre
    \/ clearingCloud

\* Mutant: points do not grow old.
KeptForEver(e) ==
    InRange(e.p) /\ ~(clearingCloud /\ Voxels!Dist(e.p, vehicle) < clearingDis)

Kept(e) ==
    /\ InRange(e.p)
    /\ \/ laserCloudTime - e.t < Settings.decayTime
       \/ Voxels!Dist(e.p, vehicle) < Settings.noDecayDis
    /\ ~(clearingCloud /\ Voxels!Dist(e.p, vehicle) < clearingDis)

Updated(entries, due) ==
    {e \in entries : e.at \notin due}
        \cup {e \in Voxels!Downsized({f \in entries : f.at \in due}) : Kept(e)}

terrainCloud(entries) ==
    LET middle == Half - Settings.inner .. Half + Settings.inner
    IN  {e \in entries : e.at \in middle \X middle}

CellOf(e) == Squares!Column(e.p, vehicle)

Heights(cloud, c) == {e \in cloud : InRange(e.p) /\ Squares!Dist(CellOf(e), c) <= 1}

\* The cell of the vehicle, and the height it has without data.
Start == <<Settings.planarHalf, Settings.planarHalf>>
Elevations(cloud) ==
    [c \in Squares!Columns |->
        IF Settings.checkTerrainConn /\ c = Start /\ Heights(cloud, c) = {}
        THEN vehicle[3] + Settings.terrainUnderVehicle
        ELSE Squares!Elevation(Heights(cloud, c), Settings.useSorting, Settings.quantileZ, {})]

\* Mutant: what is not connected is published too.
ConnectedAll(cloud) == Squares!Columns

\* The cells connected to the vehicle's, or all of them.
Connected(cloud) ==
    LET data == {c \in Squares!Columns : Heights(cloud, c) # {}}
        search == Squares!planarVoxelConn(Start, data, Elevations(cloud), Settings.terrainConnThre,
                                         Settings.ceilingFilteringThre)
    IN  IF Settings.checkTerrainConn THEN search.connected ELSE Squares!Columns

\* The points beyond localTerrainMapRadius.
terrainCloudElev(cloud) ==
    LET elevations == Elevations(cloud)
        connected == Connected(cloud)
    IN  {[p |-> e.p, height |-> Voxels!Abs(e.p[3] - elevations[CellOf(e)])] : e \in
            {f \in cloud :
                /\ InRange(f.p) /\ Voxels!Dist(f.p, vehicle) > Settings.localTerrainMapRadius
                /\ CellOf(f) \in connected
                /\ Voxels!Abs(f.p[3] - elevations[CellOf(f)]) < Settings.vehicleHeight}}

\* Those of the local map within it, with the heights they come with.
LocalPoints ==
    {m \in terrainCloudLocal : Voxels!Dist(m.p, vehicle) <= Settings.localTerrainMapRadius}

ProcessScan ==
    /\ newlaserCloud /\ newlaserCloud' = FALSE
    /\ LET due == {c \in Voxels!Columns : Due(c)}
       IN  /\ terrainVoxelCloud' = Updated(StackedCloud, due)
           /\ terrain_map_ext' = terrainCloudElev(terrainCloud(terrainVoxelCloud')) \cup LocalPoints
           /\ terrainVoxelUpdateNum' = [c \in Voxels!Columns |-> IF c \in due THEN 0 ELSE UpdateNum(c)]
           /\ terrainVoxelUpdateTime' =
                  [c \in Voxels!Columns |-> IF c \in due THEN laserCloudTime
                                            ELSE terrainVoxelUpdateTime[c]]
    /\ terrainVoxelShift' = [i \in 1 .. 2 |-> terrainVoxelShift[i] + ShiftBy[i]]
    /\ clearingCloud' = FALSE
    /\ UNCHANGED <<odometry, laserCloudTime, laserCloudCrop, terrainCloudLocal, clearingDis>>

Next ==
    \/ odometryHandler \/ laserCloudHandler \/ terrainCloudLocalHandler \/ joystickHandler
    \/ clearingHandler \/ ProcessScan

Spec == Init /\ [][Next]_vars

-----------------------------------------------------------------------------
(* Properties.                                                              *)

TypeOK ==
    /\ vehicle \in Vehicles /\ laserCloudCrop \subseteq [p : UNION Scans, t : {laserCloudTime}]
    /\ terrainVoxelCloud \subseteq [at : Voxels!Columns, p : UNION Scans, t : 0 .. laserCloudTime]
    /\ terrainVoxelUpdateTime \in [Voxels!Columns -> 0 .. laserCloudTime]
    /\ {newlaserCloud, clearingCloud} \subseteq BOOLEAN /\ moved_at \in 0 .. laserCloudTime
    /\ terrainCloudLocal \in LocalMaps \cup {{}}

\* As in Terrain: a point stays near the middle of its column, and leaves in time
\* once the vehicle stands.
NearTheirColumn ==
    \A e \in terrainVoxelCloud, i \in 1 .. 2 :
        2 * Voxels!Abs(e.p[i] - Size * (terrainVoxelShift[i] + e.at[i] - Half)) <= 3 * Size

StaleLeave ==
    ~newlaserCloud /\ laserCloudTime - moved_at >= Settings.voxelTimeUpdateThre =>
        \A e \in terrainVoxelCloud :
            \/ laserCloudTime - e.t < Settings.decayTime + Settings.voxelTimeUpdateThre
            \/ Voxels!Dist(e.p, vehicle) < Settings.noDecayDis

\* What is published beyond the local map is ground: a chain of steps below the
\* threshold, through cells with points, leads there from under the vehicle.
GroundConnected ==
    newlaserCloud /\ ~newlaserCloud' /\ Settings.checkTerrainConn =>
        LET cloud == terrainCloud(terrainVoxelCloud')
            data == {c \in Squares!Columns : Heights(cloud, c) # {}}
        IN  \A m \in terrain_map_ext' \ LocalPoints :
                CellOf(m) \in Squares!Reachable(Start, data, Elevations(cloud), Settings.terrainConnThre)
=============================================================================
