------------------------------- MODULE Terrain -------------------------------
(***************************************************************************)
(* terrain_analysis: the heights above ground of what the last scans saw,   *)
(* published as terrain_map.  One thread runs the callbacks that wait       *)
(* (spin_some) and then, if a scan has come, the rest of the loop.  The     *)
(* vehicle is level; times count from the first scan (systemInitTime).      *)
(***************************************************************************)
EXTENDS Integers, FiniteSets

CONSTANTS Settings,    \* a record of the parameters
          Size, Half,  \* of the voxels
          Vehicles,    \* where the vehicle can be
          Scans,       \* what a scan can see: sets of places
          Distances,   \* clearing distances a user asks for
          MaxTime      \* bound: the stamps of the scans

VARIABLES vehicle, terrainVoxelShift,
          terrainVoxelCloud,                              \* entries [at, p, t]
          terrainVoxelUpdateNum, terrainVoxelUpdateTime,  \* by column
          laserCloudTime, laserCloudCrop, newlaserCloud,
          clearingCloud, clearingDis,
          noDataInited, vehicleRec,
          terrain_map,   \* the points last published, with their heights
          moved_at       \* history: the time of the last motion

odometry == <<vehicle, noDataInited, vehicleRec, moved_at>>
scan == <<laserCloudTime, laserCloudCrop, newlaserCloud>>
clearing == <<clearingCloud, clearingDis>>
voxels == <<terrainVoxelShift, terrainVoxelCloud, terrainVoxelUpdateNum, terrainVoxelUpdateTime>>
vars == <<odometry, scan, clearing, voxels, terrain_map>>

Voxels == INSTANCE TerrainGrid WITH Rows <- 2 * Half + 1, Side <- 2 * Half + 1, ConnReach <- 10
Squares == INSTANCE TerrainGrid WITH Size <- Settings.planarVoxelSize,
                                     Rows <- 2 * Settings.planarHalf + 1,
                                     Side <- 2 * Settings.planarHalf + 1, ConnReach <- 10

Init ==
    /\ vehicle = <<0, 0, 0>> /\ noDataInited = 0 /\ vehicleRec = <<0, 0, 0>> /\ moved_at = 0
    /\ laserCloudTime = 0 /\ laserCloudCrop = {} /\ newlaserCloud = FALSE
    /\ clearingCloud = FALSE /\ clearingDis = Settings.clearingDis
    /\ terrainVoxelShift = <<0, 0>> /\ terrainVoxelCloud = {} /\ terrain_map = {}
    /\ terrainVoxelUpdateNum = [c \in Voxels!Columns |-> 0]
    /\ terrainVoxelUpdateTime = [c \in Voxels!Columns |-> 0]

-----------------------------------------------------------------------------
(* The callbacks.                                                           *)

odometryHandler ==
    /\ vehicle' \in Vehicles
    /\ vehicleRec' = IF noDataInited = 0 THEN vehicle' ELSE vehicleRec
    /\ noDataInited' = IF noDataInited = 2 THEN 2
                       ELSE IF Voxels!Dist(vehicle', vehicleRec') >= Settings.noDecayDis THEN 2 ELSE 1
    /\ moved_at' = IF vehicle' = vehicle THEN moved_at ELSE laserCloudTime
    /\ UNCHANGED <<scan, clearing, voxels, terrain_map>>

InRange(p) == Voxels!InBand(p, vehicle, Settings.minRelZ, Settings.maxRelZ, Settings.disRatioZ)
Level(p) == Voxels!InBand(p, vehicle, Settings.minRelZ, Settings.maxRelZ, 0)

\* A scan that comes before the last one was processed replaces it.
laserCloudHandler ==
    /\ laserCloudTime' \in laserCloudTime + 1 .. MaxTime
    /\ \E seen \in Scans :
          laserCloudCrop' = {[p |-> p, t |-> laserCloudTime'] : p \in
              {q \in seen : InRange(q) /\ Voxels!Dist(q, vehicle) < Size * (Half + 1)}}
    /\ newlaserCloud' = TRUE
    /\ UNCHANGED <<odometry, clearing, voxels, terrain_map>>

\* The button clears as far as was last asked for.
joystickHandler ==
    /\ noDataInited' = 0 /\ clearingCloud' = TRUE
    /\ UNCHANGED <<vehicle, vehicleRec, moved_at, clearingDis, scan, voxels, terrain_map>>

clearingHandler ==
    /\ noDataInited' = 0 /\ clearingDis' \in Distances /\ clearingCloud' = TRUE
    /\ UNCHANGED <<vehicle, vehicleRec, moved_at, scan, voxels, terrain_map>>

-----------------------------------------------------------------------------
(* The loop.                                                                *)

ShiftBy == [i \in 1 .. 2 |-> Voxels!Turns(vehicle[i], terrainVoxelShift[i])]

\* The scan stacked on the voxels that are rolled over.
StackedCloud ==
    Voxels!RollOver(terrainVoxelCloud, ShiftBy) \cup Voxels!Stacked(laserCloudCrop, vehicle)

UpdateNum(c) ==
    terrainVoxelUpdateNum[c]
        + Cardinality({e \in Voxels!Stacked(laserCloudCrop, vehicle) : e.at = c})

\* Mutant: a column is updated only when it has many points.
DueByNumber(c) == UpdateNum(c) >= Settings.voxelPointUpdateThre \/ clearingCloud

\* The columns that are updated; number and time belong to the index and are not
\* rolled over.
Due(c) ==
    \/ UpdateNum(c) >= Settings.voxelPointUpdateThre
    \/ laserCloudTime - terrainVoxelUpdateTime[c] >= Settings.voxelTimeUpdateThre
    \/ clearingCloud

\* Mutant: what is near stays although it is asked to be cleared.
KeptNear(e) ==
    /\ InRange(e.p)
    /\ \/ laserCloudTime - e.t < Settings.decayTime
       \/ Voxels!Dist(e.p, vehicle) < Settings.noDecayDis
    /\ ~(clearingCloud /\ Voxels!Dist(e.p, vehicle) >= clearingDis)

Kept(e) ==
    /\ InRange(e.p)
    /\ \/ laserCloudTime - e.t < Settings.decayTime
       \/ Voxels!Dist(e.p, vehicle) < Settings.noDecayDis
    /\ ~(clearingCloud /\ Voxels!Dist(e.p, vehicle) < clearingDis)

Updated(entries, due) ==
    {e \in entries : e.at \notin due}
        \cup {e \in Voxels!Downsized({f \in entries : f.at \in due}) : Kept(e)}

\* The columns around the middle of the grid.
terrainCloud(entries) ==
    LET middle == Half - Settings.inner .. Half + Settings.inner
    IN  {e \in entries : e.at \in middle \X middle}

CellOf(e) == Squares!Column(e.p, vehicle)

\* planarPointElev: a point counts in its cell and in those around it.
Heights(cloud, c) == {e \in cloud : Level(e.p) /\ Squares!Dist(CellOf(e), c) <= 1}

\* A point above the vehicle's minimum (minDyObsAngle is 0), and in the lidar's view.
Above(p) == p[3] - vehicle[3] > Settings.minDyObsRelZ
InView(p) ==
    \/ 3 * Voxels!Abs(p[3] - vehicle[3]) < Voxels!Dist(p, vehicle)
    \/ Voxels!Abs(p[3] - vehicle[3]) < Settings.absDyObsRelZThre

\* Mutant: an obstacle that the scan sees counts as dynamic too.
planarVoxelDyObsAll(cloud, c) ==
    LET near == {e \in cloud : CellOf(e) = c /\ Voxels!Dist(e.p, vehicle) <= Settings.minDyObsDis}
        far == {e \in cloud : CellOf(e) = c} \ near
    IN  Cardinality({e \in far : Above(e.p) /\ InView(e.p)}) + Settings.minDyObsPointNum * Cardinality(near)

\* What was an obstacle and is not one in the scan of now counts as dynamic.
planarVoxelDyObs(cloud, c) ==
    LET near == {e \in cloud : CellOf(e) = c /\ Voxels!Dist(e.p, vehicle) <= Settings.minDyObsDis}
        far == {e \in cloud : CellOf(e) = c} \ near
    IN  IF \E s \in laserCloudCrop : CellOf(s) = c /\ Above(s.p) THEN 0
        ELSE Cardinality({e \in far : Above(e.p) /\ InView(e.p)})
             + Settings.minDyObsPointNum * Cardinality(near)

Height(cloud, e) ==
    LET ground == Squares!Elevation(Heights(cloud, CellOf(e)), Settings.useSorting,
                                   Settings.quantileZ, Settings.lifts)
    IN  IF Settings.considerDrop THEN Voxels!Abs(e.p[3] - ground) ELSE e.p[3] - ground

terrainCloudElev(cloud) ==
    {[p |-> e.p, height |-> Height(cloud, e)] : e \in
        {f \in cloud :
            /\ Level(f.p) /\ CellOf(f) \in Squares!Columns
            /\ \/ ~Settings.clearDyObs
               \/ planarVoxelDyObs(cloud, CellOf(f)) < Settings.minDyObsPointNum
            /\ Height(cloud, f) \in 0 .. Settings.vehicleHeight - 1
            /\ Cardinality(Heights(cloud, CellOf(f))) >= Settings.minBlockPointNum}}

\* Cells without data, once the vehicle has left the place where it was cleared;
\* the code publishes four points of each.
NoDataObstacles(cloud) ==
    IF Settings.noDataObstacle /\ noDataInited = 2
    THEN LET nodata == {c \in Squares!Columns :
                           Cardinality(Heights(cloud, c)) < Settings.minBlockPointNum}
         IN  {[cell |-> c, height |-> Settings.vehicleHeight] :
                 c \in Squares!NoDataObstacles(nodata, Settings.noDataBlockSkipNum)}
    ELSE {}

ProcessScan ==
    /\ newlaserCloud /\ newlaserCloud' = FALSE
    /\ LET due == {c \in Voxels!Columns : Due(c)}
           cloud == terrainCloud(terrainVoxelCloud')
       IN  /\ terrainVoxelCloud' = Updated(StackedCloud, due)
           /\ terrain_map' = terrainCloudElev(cloud) \cup NoDataObstacles(cloud)
           /\ terrainVoxelUpdateNum' = [c \in Voxels!Columns |-> IF c \in due THEN 0 ELSE UpdateNum(c)]
           /\ terrainVoxelUpdateTime' =
                  [c \in Voxels!Columns |-> IF c \in due THEN laserCloudTime
                                            ELSE terrainVoxelUpdateTime[c]]
    /\ terrainVoxelShift' = [i \in 1 .. 2 |-> terrainVoxelShift[i] + ShiftBy[i]]
    /\ clearingCloud' = FALSE
    /\ UNCHANGED <<odometry, laserCloudTime, laserCloudCrop, clearingDis>>

Next ==
    \/ odometryHandler \/ laserCloudHandler \/ joystickHandler \/ clearingHandler
    \/ ProcessScan

Spec == Init /\ [][Next]_vars

-----------------------------------------------------------------------------
(* Properties.                                                              *)

TypeOK ==
    /\ vehicle \in Vehicles /\ vehicleRec \in Vehicles /\ noDataInited \in 0 .. 2
    /\ laserCloudCrop \subseteq [p : UNION Scans, t : {laserCloudTime}]
    /\ terrainVoxelCloud \subseteq [at : Voxels!Columns, p : UNION Scans, t : 0 .. laserCloudTime]
    /\ terrainVoxelUpdateTime \in [Voxels!Columns -> 0 .. laserCloudTime]
    /\ \A c \in Voxels!Columns : terrainVoxelUpdateNum[c] >= 0
    /\ {newlaserCloud, clearingCloud} \subseteq BOOLEAN /\ moved_at \in 0 .. laserCloudTime

\* A point is put into a column by where the vehicle is, and moves with the
\* columns when they roll: however the vehicle goes, it stays within a voxel and
\* a half of the middle of its column.
NearTheirColumn ==
    \A e \in terrainVoxelCloud, i \in 1 .. 2 :
        2 * Voxels!Abs(e.p[i] - Size * (terrainVoxelShift[i] + e.at[i] - Half)) <= 3 * Size

\* Once the vehicle has stood for the time between updates, no point is kept that
\* is older than the decay time and an update together.
StaleLeave ==
    ~newlaserCloud /\ laserCloudTime - moved_at >= Settings.voxelTimeUpdateThre =>
        \A e \in terrainVoxelCloud :
            \/ laserCloudTime - e.t < Settings.decayTime + Settings.voxelTimeUpdateThre
            \/ Voxels!Dist(e.p, vehicle) < Settings.noDecayDis

\* Once a scan is processed after a request, nothing nearer than the clearing
\* distance is left.
ClearingClears ==
    clearingCloud /\ ~clearingCloud' =>
        ~\E e \in terrainVoxelCloud' : Voxels!Dist(e.p, vehicle) < clearingDis

\* What the parameter files say of clearingDis, that the points beyond it are
\* cleared.  The code clears those within it.
ClearsBeyond ==
    clearingCloud /\ ~clearingCloud' =>
        ~\E e \in terrainVoxelCloud' : Voxels!Dist(e.p, vehicle) > clearingDis

\* The points of a cell's neighbourhood are enough for a ground, the point is not
\* among the lowest of them, which are taken for ditches and noise (none without
\* useSorting), and it is lower than the vehicle as seen from any of them.
StandsOut(p, heights) ==
    /\ Cardinality(heights) >= Settings.minBlockPointNum
    /\ Settings.useSorting =>
           Settings.quantileZ[1] * Cardinality(heights)
               < Settings.quantileZ[2] * Cardinality({e \in heights : e.p[3] <= p[3]})
    /\ \A e \in heights : p[3] - e.p[3] < Settings.vehicleHeight

\* An obstacle the scan sees stands in the map published for that scan: one higher
\* than minDyObsRelZ, in the part of the grid that is published, that stands out of
\* the points kept around it.  Two things take away what is seen, and are excepted:
\* a request to clear, and the filter, which averages the time of a point with
\* those of the same place, so that one decayed observation of it is enough.
SeenIsServed ==
    newlaserCloud /\ ~newlaserCloud' /\ ~clearingCloud =>
        \A s \in laserCloudCrop :
            /\ InRange(s.p) /\ Level(s.p) /\ Above(s.p)
            /\ CellOf(s) \in Squares!Columns
            /\ Voxels!Dist(s.p, vehicle) < Size * Settings.inner
            /\ \A e \in terrainVoxelCloud : e.p = s.p => laserCloudTime - e.t < Settings.decayTime
            /\ StandsOut(s.p, Heights(terrainCloud(terrainVoxelCloud'), CellOf(s)))
            => \E m \in terrain_map' : "p" \in DOMAIN m /\ m.p = s.p /\ m.height >= 0
=============================================================================
