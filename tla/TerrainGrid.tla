----------------------------- MODULE TerrainGrid -----------------------------
(***************************************************************************)
(* The grids of terrain_analysis and terrain_analysis_ext.  The voxels are  *)
(* a square of columns that rolls with the vehicle, each with the points    *)
(* stacked in it: a place is a point <<x, y, z>> of the lattice of the      *)
(* down-sampling filter, and what is stored are entries [at, p, t], the     *)
(* column, the place and the time (intensity).  The planar cells are a      *)
(* finer square, of which the ground, the cells without data and those      *)
(* connected to the vehicle are functions of the points that fall into      *)
(* them.  Distances are those of the longer axis.                           *)
(***************************************************************************)
EXTENDS Integers, Sequences, FiniteSetsExt

CONSTANTS Size,        \* terrainVoxelSize, or planarVoxelSize
          Rows, Side,  \* terrainVoxelWidth, or planarVoxelWidth, in both directions
          ConnReach    \* 10 in the code

Columns == (0 .. Rows - 1) \X (0 .. Side - 1)
Half == Side \div 2   \* terrainVoxelHalfWidth, or planarVoxelHalfWidth

Abs(x) == IF x < 0 THEN -x ELSE x
Dist(p, q) == Max({Abs(p[1] - q[1]), Abs(p[2] - q[2])})

\* static_cast<int> cuts towards 0; what is negative goes one further down.
Index(d) ==
    LET n == d + Size \div 2
    IN  Half + IF n >= 0 THEN n \div Size ELSE -((-n) \div Size) - 1

Column(p, vehicle) == <<Index(p[1] - vehicle[1]), Index(p[2] - vehicle[2])>>

\* How often the two loops of an axis turn: until the vehicle is at most a voxel
\* away from the centre.
Turns(x, shift) ==
    LET near(k) == Abs(x - Size * (shift + k)) <= Size
        bound == 1 + Abs(x) + Abs(shift)
    IN  CHOOSE k \in -bound .. bound : near(k) /\ \A j \in -bound .. bound : near(j) => Abs(k) <= Abs(j)

\* Mutant: the columns are moved along with the vehicle.
RollOverWith(entries, k) ==
    LET moved == {[e EXCEPT !.at = <<@[1] + k[1], @[2] + k[2]>>] : e \in entries}
    IN  {e \in moved : e.at \in Columns}

\* The columns move by so many indices, and those that leave on one side are
\* cleared and come in again on the other.
RollOver(entries, k) ==
    LET moved == {[e EXCEPT !.at = <<@[1] - k[1], @[2] - k[2]>>] : e \in entries}
    IN  {e \in moved : e.at \in Columns}

Stacked(crop, vehicle) == {e \in {[at |-> Column(s.p, vehicle), p |-> s.p, t |-> s.t] : s \in crop} : e.at \in Columns}

\* The filter leaves one point of a place, with the mean of the intensities.
Downsized(entries) ==
    LET times(e) == {f.t : f \in {g \in entries : g.at = e.at /\ g.p = e.p}}
    IN  {[e EXCEPT !.t = SumSet(times(e)) \div Cardinality(times(e))] : e \in entries}

\* Between the heights, which open with the distance.
InBand(p, vehicle, low, high, ratio) ==
    LET dis == Dist(p, vehicle)
    IN  low - ratio * dis < p[3] - vehicle[3] /\ p[3] - vehicle[3] < high + ratio * dis

-----------------------------------------------------------------------------
(* The cells.                                                               *)

\* The cell of each index of the arrays.
InOrder == [i \in 1 .. Rows * Side |-> <<(i - 1) \div Side, (i - 1) % Side>>]

-----------------------------------------------------------------------------
(* The ground.                                                              *)

\* The height at an index of the sorted heights.
Sorted(points, index) ==
    CHOOSE z \in {q.p[3] : q \in points} :
        /\ Cardinality({q \in points : q.p[3] < z}) <= index
        /\ index < Cardinality({q \in points : q.p[3] <= z})

\* quantileZ is <<numerator, denominator>>.
QuantileID(n, quantileZ) ==
    LET id == (quantileZ[1] * n) \div quantileZ[2]
    IN  IF id >= n THEN n - 1 ELSE id

\* The height of the ground in a cell, 0 without points.
Elevation(points, useSorting, quantileZ, lifts) ==
    LET lowest == Min({q.p[3] : q \in points})
        quantile == Sorted(points, QuantileID(Cardinality(points), quantileZ))
    IN  IF points = {} THEN 0
        ELSE IF ~useSorting THEN lowest
        ELSE IF lifts # {} /\ quantile > lowest + Max(lifts) THEN lowest + Max(lifts)
        ELSE quantile

-----------------------------------------------------------------------------
(* Cells without data.                                                        *)

Neighbours(c) == {d \in Columns : Dist(c, d) <= 1}

\* Mutant: raised although a neighbour is lower.
RaisedAnyway(edge, c) == IF edge[c] >= 1 THEN [edge EXCEPT ![c] = @ + 1] ELSE edge

\* One cell of a pass: raised unless a neighbour is lower.
Raised(edge, c) ==
    IF edge[c] >= 1 /\ \A d \in Neighbours(c) : edge[d] >= edge[c]
    THEN [edge EXCEPT ![c] = @ + 1] ELSE edge

\* The passes change the grid in place, cell after cell.
planarVoxelEdge(nodata, noDataBlockSkipNum) ==
    LET size == Rows * Side
        visit[i \in 0 .. noDataBlockSkipNum * size, edge \in [Columns -> Nat]] ==
            IF i = noDataBlockSkipNum * size THEN edge
            ELSE visit[i + 1, Raised(edge, InOrder[1 + (i % size)])]
    IN  visit[0, [c \in Columns |-> IF c \in nodata THEN 1 ELSE 0]]

NoDataObstacles(nodata, noDataBlockSkipNum) ==
    LET edge == planarVoxelEdge(nodata, noDataBlockSkipNum)
    IN  {c \in Columns : edge[c] > noDataBlockSkipNum}

-----------------------------------------------------------------------------
(* Connected cells, by a search through a queue.                            *)

Rise(elev, c, d) == IF elev[c] < elev[d] THEN elev[d] - elev[c] ELSE elev[c] - elev[d]

\* Mutant: a cell given up as ceiling is looked at again.
FreshAgain(search, data) ==
    {c \in data : Dist(c, Head(search.queue)) <= ConnReach}
        \ (search.connected \cup Range(search.queue))

\* The cells a turn looks at: those with points that no turn has decided on.
Fresh(search, data) ==
    {c \in data : Dist(c, Head(search.queue)) <= ConnReach}
        \ (search.connected \cup Range(search.queue) \cup search.ceiling)

\* One turn: the front is connected (2), a cell of nearly its height is queued (1),
\* and one far above or below it is given up as ceiling (-1).
Turn(search, data, elev, connThre, ceilingThre) ==
    LET front == Head(search.queue)
        fresh == Fresh(search, data)
        near == {c \in fresh : Rise(elev, front, c) < connThre}
        ceiling == {c \in fresh \ near : Rise(elev, front, c) > ceilingThre}
    IN  [queue |-> Tail(search.queue) \o SelectSeq(InOrder, LAMBDA c : c \in near),
         connected |-> search.connected \cup {front},
         ceiling |-> search.ceiling \cup ceiling]

\* The search, turn after turn until the queue is empty.
planarVoxelConn(start, data, elev, connThre, ceilingThre) ==
    LET Searches == [queue : Seq(Columns), connected : SUBSET Columns, ceiling : SUBSET Columns]
        run[search \in Searches] ==
            IF search.queue = <<>> THEN search
            ELSE run[Turn(search, data, elev, connThre, ceilingThre)]
    IN  run[[queue |-> <<start>>, connected |-> {}, ceiling |-> {}]]

-----------------------------------------------------------------------------
(* Properties, over bounded inputs.                                         *)

\* Although the passes change the grid they read, a cell is an obstacle just when
\* no cell with data is as near as the number of passes.
ObstaclesAreDeep(nodata, noDataBlockSkipNum) ==
    NoDataObstacles(nodata, noDataBlockSkipNum)
        = {c \in nodata : \A d \in Columns \ nodata : Dist(c, d) > noDataBlockSkipNum}

\* The cells a chain of small steps leads to.
Reachable(start, data, elev, connThre) ==
    LET next(cells) == {c \in data : \E b \in cells :
                           Dist(b, c) <= ConnReach /\ Rise(elev, b, c) < connThre}
        grow[cells \in SUBSET Columns] ==
            IF next(cells) \subseteq cells THEN cells ELSE grow[cells \cup next(cells)]
    IN  grow[{start}]

\* What the search connects is reachable, and what is next to it by a small step
\* is connected too, unless it was given up as ceiling, for a connected cell far
\* above or below it.
SearchConnects(start, data, elev, connThre, ceilingThre) ==
    LET search == planarVoxelConn(start, data, elev, connThre, ceilingThre)
        connected == search.connected
        reachable == Reachable(start, data, elev, connThre)
    IN  /\ connected \subseteq reachable /\ search.ceiling \cap connected = {}
        /\ search.ceiling = {} => connected = reachable
        /\ \A c \in search.ceiling : \E b \in connected : Rise(elev, b, c) > ceilingThre
        /\ \A b \in connected, c \in data \ (connected \cup search.ceiling) :
               Dist(b, c) <= ConnReach => Rise(elev, b, c) >= connThre
=============================================================================
