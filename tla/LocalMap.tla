------------------------------- MODULE LocalMap -------------------------------
(***************************************************************************)
(* point_lio: the map the scans are matched with.  Its points are in cubes  *)
(* of a hash map whose entries point into a list, the last used cube first; *)
(* at the capacity the last of the list goes.  A scan's points look up      *)
(* their nearest points, the filter corrects the pose, and those points     *)
(* whose box of the map has none yet are added.  A point is its place in    *)
(* the world, on a lattice; the plane fit and the filter are the correction *)
(* they end with.                                                           *)
(***************************************************************************)
EXTENDS Integers, Sequences, SequencesExt, FiniteSets, TLC

CONSTANTS resolution_,        \* side of a cube
          nearby_type_,       \* "CENTER", "NEARBY6", "NEARBY18" or "NEARBY26"
          capacity_,
          max_range,
          NUM_MATCH_POINTS,
          filter_size_map_min,
          init_map_size,
          Scans,              \* scans, as sequences of places
          Corrections,        \* by how much an update moves the scan
          Prior,              \* the points of the prior map
          FewPoints,          \* a scan of no more points is not added (4)
          Settling,           \* scans before a prior map is added to (200)
          pcd_save_interval,
          MaxScans            \* bound: scans

VARIABLES enable_prior_pcd, pcd_save_en,      \* the parameters
          grids_cache_,                       \* the list: cubes and their points
          grids_map_,                         \* the keys in the hash map
          Nearest_Points, feats_down_world,   \* of the last scan
          init_feats_world, init_map, sleep_time,
          pcl_wait_save, scan_wait_num, files,
          running,
          scans,                              \* history: scans taken
          added,                              \* history: the points given to AddPoints
          published                           \* history: the points published

parameters == <<enable_prior_pcd, pcd_save_en>>
map == <<grids_cache_, grids_map_, added>>
matched == <<Nearest_Points, feats_down_world, sleep_time>>
saving == <<pcl_wait_save, scan_wait_num, files, published>>
vars == <<parameters, map, matched, init_feats_world, init_map, saving, running, scans>>

Init ==
    /\ enable_prior_pcd \in BOOLEAN /\ pcd_save_en \in BOOLEAN
    /\ grids_cache_ = <<>> /\ grids_map_ = {} /\ added = <<>>
    /\ Nearest_Points = <<>> /\ feats_down_world = <<>> /\ sleep_time = 0
    /\ init_feats_world = <<>> /\ init_map = FALSE
    /\ pcl_wait_save = <<>> /\ scan_wait_num = 0 /\ files = <<>> /\ published = <<>>
    /\ running = TRUE /\ scans = 0

-----------------------------------------------------------------------------
(* The cubes.                                                               *)

Axes == 1 .. 3
Plus(p, q) == [a \in Axes |-> p[a] + q[a]]
distance2(p, q) == (p[1] - q[1]) * (p[1] - q[1]) + (p[2] - q[2]) * (p[2] - q[2]) + (p[3] - q[3]) * (p[3] - q[3])

Pos2Grid(p) == [a \in Axes |-> p[a] \div resolution_]

\* The cubes that are searched: 0, 6, 18 or 26 around the point's own.
nearby_grids_ ==
    LET most == [CENTER |-> 0, NEARBY6 |-> 1, NEARBY18 |-> 2, NEARBY26 |-> 3][nearby_type_]
    IN  {d \in [Axes -> -1 .. 1] : Cardinality({a \in Axes : d[a] # 0}) <= most}

At(cache, key) == CHOOSE i \in DOMAIN cache : cache[i].key = key

\* Mutant: a cube that is used again keeps its place in the list.
AddPointInPlace(m, p) ==
    LET key == Pos2Grid(p)
        i == At(m.cache, key)
        longer == <<[key |-> key, points |-> <<p>>]>> \o m.cache
        used == [m.cache[i] EXCEPT !.points = Append(@, p)]
    IN  IF key \in m.keys
        THEN [m EXCEPT !.cache[i] = used]
        ELSE IF Cardinality(m.keys) + 1 >= capacity_
        THEN [cache |-> Front(longer), keys |-> (m.keys \cup {key}) \ {Last(longer).key}]
        ELSE [cache |-> longer, keys |-> m.keys \cup {key}]

\* Mutant: the cube that leaves the list stays in the hash map.
AddPointKept(m, p) ==
    LET key == Pos2Grid(p)
        i == At(m.cache, key)
        longer == <<[key |-> key, points |-> <<p>>]>> \o m.cache
        used == [m.cache[i] EXCEPT !.points = Append(@, p)]
    IN  IF key \in m.keys
        THEN [m EXCEPT !.cache = <<used>> \o RemoveAt(@, i)]
        ELSE IF Cardinality(m.keys) + 1 >= capacity_
        THEN [cache |-> Front(longer), keys |-> m.keys \cup {key}]
        ELSE [cache |-> longer, keys |-> m.keys \cup {key}]

\* One point of AddPoints: its cube comes to the front; at the capacity the cube
\* at the back leaves the list and the hash map.
AddPoint(m, p) ==
    LET key == Pos2Grid(p)
        i == At(m.cache, key)
        longer == <<[key |-> key, points |-> <<p>>]>> \o m.cache
        used == [m.cache[i] EXCEPT !.points = Append(@, p)]
    IN  IF key \in m.keys
        THEN [m EXCEPT !.cache = <<used>> \o RemoveAt(@, i)]
        ELSE IF Cardinality(m.keys) + 1 >= capacity_
        THEN [cache |-> Front(longer), keys |-> (m.keys \cup {key}) \ {Last(longer).key}]
        ELSE [cache |-> longer, keys |-> m.keys \cup {key}]

AddPoints(points) ==
    LET m == FoldLeft(AddPoint, [cache |-> grids_cache_, keys |-> grids_map_], points)
    IN  /\ grids_cache_' = m.cache /\ grids_map_' = m.keys
        /\ added' = added \o points

-----------------------------------------------------------------------------
(* Matching.                                                                *)

\* The so many of them that are nearest to p, the nearest first.  (Of points as
\* far away nth_element takes any.)
NearestOf(points, p, many) ==
    LET sorted == SortSeq(points, LAMBDA q, r : distance2(q, p) < distance2(r, p))
    IN  SubSeq(sorted, 1, IF Len(sorted) < many THEN Len(sorted) ELSE many)

\* KNNPointByCondition: of one cube.
KNNPointByCondition(cube, p) ==
    NearestOf(SelectSeq(cube.points, LAMBDA q : distance2(q, p) < max_range * max_range),
              p, NUM_MATCH_POINTS)

\* Mutant: the first cube with points is the only one.
GetClosestPointHere(p) ==
    LET here == SelectSeq(grids_cache_, LAMBDA c : c.key = Pos2Grid(p))
    IN  IF here = <<>> THEN <<>> ELSE KNNPointByCondition(here[1], p)

\* The nearest points in the cubes around p.
GetClosestPoint(p) ==
    LET around == {Plus(Pos2Grid(p), d) : d \in nearby_grids_} \cap grids_map_
        cubes == SelectSeq(grids_cache_, LAMBDA c : c.key \in around)
        candidates == FlattenSeq([i \in DOMAIN cubes |-> KNNPointByCondition(cubes[i], p)])
    IN  NearestOf(candidates, p, NUM_MATCH_POINTS)

\* h_model_output and h_model_input: a search that finds nothing leaves what the
\* point at this position of an earlier scan found.
Searched(points, before) ==
    LET Near(i) == LET found == GetClosestPoint(points[i])
                   IN  IF found # <<>> THEN found
                       ELSE IF i \in DOMAIN before THEN before[i] ELSE <<>>
    IN  [i \in DOMAIN points |-> Near(i)]

Box(p) == [a \in Axes |-> p[a] \div filter_size_map_min]

\* Strictly within half the size of the middle of p's box.
InBoxOf(q, p) ==
    \A a \in Axes : LET twice == 2 * q[a] - (2 * Box(p)[a] + 1) * filter_size_map_min
                    IN  -filter_size_map_min < twice /\ twice < filter_size_map_min

\* Mutant: a point with neighbours is never added.
NewPointsLone(points, near) ==
    LET Is(i) == IF near[i] = <<>> THEN <<points[i]>> ELSE <<>>
    IN  FlattenSeq([i \in DOMAIN points |-> Is(i)])

\* MapIncremental: the points none of whose neighbours is in their box.
NewPoints(points, near) ==
    LET Is(i) == IF \E j \in DOMAIN near[i] : InBoxOf(near[i][j], points[i]) THEN <<>>
                 ELSE <<points[i]>>
    IN  FlattenSeq([i \in DOMAIN points |-> Is(i)])

MapIncremental(points, near) == AddPoints(NewPoints(points, near))

-----------------------------------------------------------------------------
(* A turn of the main loop.                                                 *)

\* Mutant: the points are not cleared once they are written.
publish_frame_world_again(points) ==
    LET waiting == pcl_wait_save \o points
        full == pcd_save_interval > 0 /\ scan_wait_num + 1 >= pcd_save_interval /\ waiting # <<>>
    IN  IF ~pcd_save_en THEN UNCHANGED saving
        ELSE /\ published' = published \o points
             /\ files' = IF full THEN files \o waiting ELSE files
             /\ pcl_wait_save' = waiting
             /\ scan_wait_num' = IF full THEN 0 ELSE scan_wait_num + 1

\* The points wait until enough scans are together for a file.
publish_frame_world(points) ==
    LET waiting == pcl_wait_save \o points
        full == pcd_save_interval > 0 /\ scan_wait_num + 1 >= pcd_save_interval /\ waiting # <<>>
    IN  IF ~pcd_save_en THEN UNCHANGED saving
        ELSE /\ published' = published \o points
             /\ files' = IF full THEN files \o waiting ELSE files
             /\ pcl_wait_save' = IF full THEN <<>> ELSE waiting
             /\ scan_wait_num' = IF full THEN 0 ELSE scan_wait_num + 1

\* The first scans make the map, or a prior map takes their place.
InitialiseMap(points) ==
    /\ ~init_map
    /\ LET world == init_feats_world \o points
       IN  IF Len(world) < init_map_size
           THEN init_feats_world' = world /\ UNCHANGED <<init_map, map>>
           ELSE /\ init_feats_world' = <<>> /\ init_map' = TRUE
                /\ AddPoints(IF enable_prior_pcd THEN Prior ELSE world)
    /\ UNCHANGED <<matched, saving, running>>

\* The file of the prior map cannot be read: its null pointer is followed.
PriorMissing(points) ==
    /\ ~init_map /\ enable_prior_pcd /\ Len(init_feats_world \o points) >= init_map_size
    /\ running' = FALSE
    /\ UNCHANGED <<map, matched, init_feats_world, init_map, saving>>

\* A scan is matched, corrected, added to the map and published.
MatchScan(points) ==
    /\ init_map /\ UNCHANGED <<init_feats_world, init_map, running>>
    /\ \E shift \in Corrections :
          /\ feats_down_world' = [i \in DOMAIN points |-> Plus(points[i], shift)]
          /\ Nearest_Points' = Searched(points, Nearest_Points)
          /\ sleep_time' = IF enable_prior_pcd /\ Len(points) > FewPoints THEN sleep_time + 1
                           ELSE sleep_time
          /\ IF Len(points) > FewPoints /\ (enable_prior_pcd => sleep_time' > Settling)
             THEN MapIncremental(feats_down_world', Nearest_Points') ELSE UNCHANGED map
          /\ publish_frame_world(feats_down_world')

TakeScan ==
    /\ running /\ scans < MaxScans /\ scans' = scans + 1
    /\ \E points \in Scans : InitialiseMap(points) \/ PriorMissing(points) \/ MatchScan(points)
    /\ UNCHANGED parameters

\* SIGINT: the loop ends and what waits is written.
Exit ==
    /\ running /\ running' = FALSE
    /\ files' = IF pcd_save_en THEN files \o pcl_wait_save ELSE files
    /\ pcl_wait_save' = <<>>
    /\ UNCHANGED <<parameters, map, matched, init_feats_world, init_map, scan_wait_num, published, scans>>

Next == TakeScan \/ Exit

Spec == Init /\ [][Next]_vars

-----------------------------------------------------------------------------
Place == [Axes -> Int]

\* The cubes, the points found and the files have their types.
TypeOK ==
    /\ enable_prior_pcd \in BOOLEAN /\ pcd_save_en \in BOOLEAN /\ init_map \in BOOLEAN
    /\ running \in BOOLEAN /\ scans \in 0 .. MaxScans /\ sleep_time \in Nat /\ scan_wait_num \in Nat
    /\ grids_cache_ \in Seq([key : Place, points : Seq(Place)]) /\ grids_map_ \subseteq Place
    /\ Nearest_Points \in Seq(Seq(Place)) /\ feats_down_world \in Seq(Place)
    /\ init_feats_world \in Seq(Place) /\ pcl_wait_save \in Seq(Place) /\ files \in Seq(Place)

\* The hash map and the list have the same cubes, each once and fewer than the
\* capacity, and a cube has only its own points, at least one.
IndexAgrees ==
    /\ grids_map_ = {grids_cache_[i].key : i \in DOMAIN grids_cache_}
    /\ Cardinality(grids_map_) = Len(grids_cache_) /\ Len(grids_cache_) < capacity_
    /\ \A i \in DOMAIN grids_cache_ :
          LET c == grids_cache_[i]
          IN  c.points # <<>> /\ \A j \in DOMAIN c.points : Pos2Grid(c.points[j]) = c.key

\* Whatever leaves, the cubes in the map are those that were added to last, the
\* last one first.
RecentKept ==
    LET keys == [i \in DOMAIN added |-> Pos2Grid(added[i])]
        last == SelectSeq([i \in DOMAIN keys |-> i],
                          LAMBDA i : \A j \in DOMAIN keys : j > i => keys[j] # keys[i])
        recent == Reverse([i \in DOMAIN last |-> keys[last[i]]])
    IN  [i \in DOMAIN grids_cache_ |-> grids_cache_[i].key]
            = SubSeq(recent, 1, IF Len(recent) < capacity_ THEN Len(recent) ELSE capacity_ - 1)

\* GetClosestPoint gives the nearest points there are in the cubes around and
\* never one that is farther than a point it leaves out.
NearestFound(p) ==
    LET found == GetClosestPoint(p)
        around == {Plus(Pos2Grid(p), d) : d \in nearby_grids_}
        there == UNION {ToSet(grids_cache_[i].points) :
                           i \in {k \in DOMAIN grids_cache_ : grids_cache_[k].key \in around}}
    IN  /\ ToSet(found) \subseteq there
        /\ \A q \in there \ ToSet(found) : distance2(q, p) < max_range * max_range =>
              Len(found) = NUM_MATCH_POINTS
              /\ \A j \in DOMAIN found : distance2(found[j], p) <= distance2(q, p)

\* Until a cube leaves the map, every point of the last scan that was added has
\* a point of the map in its box, whatever was left from an earlier scan among
\* the points it compared with.
MapCovers ==
    LET complete == Cardinality({Pos2Grid(added[i]) : i \in DOMAIN added}) < capacity_
        inMap == UNION {ToSet(grids_cache_[i].points) : i \in DOMAIN grids_cache_}
    IN  complete /\ Len(feats_down_world) > FewPoints /\ (enable_prior_pcd => sleep_time > Settling) =>
            \A i \in DOMAIN feats_down_world : \E q \in inMap : Box(q) = Box(feats_down_world[i])

\* Every point published while the map is saved is written once or waits, and
\* none waits once the program ended by SIGINT.
SavedOnce == files \o pcl_wait_save = published
=============================================================================
