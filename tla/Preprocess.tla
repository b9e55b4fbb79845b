------------------------------ MODULE Preprocess ------------------------------
(***************************************************************************)
(* point_lio: the points of a scan are picked, given their time in the      *)
(* scan, and the scan is cut into frames when cut_frame is set.  A point is *)
(* its distance, the angle it was seen under, its ring, whether it is a     *)
(* good return, and when it was measured, counted from the stamp of the     *)
(* scan; a lidar sweeps one unit of angle in one unit of time.  The unit of *)
(* the times is the one the parameter timestamp_unit names, the intensity   *)
(* and con_frame (ScanSync) are left out.                                   *)
(***************************************************************************)
EXTENDS Integers, Sequences, SequencesExt, FiniteSets, TLC

CONSTANTS N_SCANS,        \* scan_line
          Blind, DetRange,
          Turn,           \* units of angle in a revolution
          Sweeps,         \* the scans: records of points and whether they have times
          FilterNums,     \* values of point_filter_num
          cut_frame_num,
          Warmup,         \* scans that are not cut, for each lidar (5 and 20)
          MaxScans        \* bound: scans

VARIABLES lidar_type, cut_frame_init, point_filter_num,   \* the parameters
          scan_count, last_timestamp_lidar,
          given_offset_time,
          pl_surf,
          lidar_buffer,   \* with time_buffer: frames with the time they begin
          cut             \* history: the points of the last scan that was cut, and the
                          \* frames it was to give

parameters == <<lidar_type, cut_frame_init, point_filter_num>>
vars == <<parameters, scan_count, last_timestamp_lidar, given_offset_time, pl_surf,
          lidar_buffer, cut>>

Types == {"AVIA", "VELO16", "OUST64", "HESAIxt32", "other"}
None == [at |-> -1]

Init ==
    /\ lidar_type \in Types /\ cut_frame_init \in BOOLEAN /\ point_filter_num \in FilterNums
    /\ scan_count = 0 /\ last_timestamp_lidar = 0 /\ given_offset_time = FALSE
    /\ pl_surf = <<>> /\ lidar_buffer = <<>>
    /\ cut = [points |-> <<>>, required |-> 1]

-----------------------------------------------------------------------------
(* The points that are picked, each with its offset in the scan.  since is   *)
(* when the point was measured, counted from where the offset counts, and    *)
(* sure (a history) that no return before it was bad that its offset is from. *)

\* The offset that is not a number; no other is negative.
NaN == -1

Picked(p, offset, from, sure) == [offset |-> offset, since |-> p.at - from, sure |-> sure]

Within(p) == Blind <= p.range /\ p.range <= DetRange
Inside(p) == Blind < p.range /\ p.range < DetRange

\* The points at the positions in Keep, in their order.
Those(points, Keep(_), Offset(_)) ==
    LET Is(k) == IF Keep(k) THEN <<Picked(points[k], Offset(points[k]), 0, TRUE)>> ELSE <<>>
    IN  FlattenSeq([k \in DOMAIN points |-> Is(k)])

\* Of the valid returns from the second point on, one of point_filter_num; only
\* those have a place in pl_full.
LivoxFull(points) ==
    LET valid == {k \in 2 .. Len(points) : points[k].ring < N_SCANS /\ points[k].good}
    IN  {k \in valid : Cardinality({j \in valid : j <= k}) % point_filter_num = 0}

\* Of these the ones in range that are not where the point before them is.
LivoxPoints(points) ==
    LET full == LivoxFull(points)
        Place(k) == <<points[k].range, points[k].yaw>>
        Keep(k) == k \in full /\ Within(points[k]) /\ ~(k - 1 \in full /\ Place(k) = Place(k - 1))
    IN  Those(points, Keep, LAMBDA p : p.at)

\* One of point_filter_num, counted over all the points of the message.
Counted(k) == (k - 1) % point_filter_num = 0

OusterPoints(points) ==
    Those(points, LAMBDA k : Counted(k) /\ points[k].good /\ Within(points[k]), LAMBDA p : p.at)

\* Mutant: the angle back to the first point is not taken round the circle.
SweptHalf(first, yaw) == IF yaw <= first THEN first - yaw ELSE yaw - first

\* The clockwise angle from the first point of a layer.
Swept(first, yaw) == IF yaw <= first THEN first - yaw ELSE first - yaw + Turn

\* Times from a constant rotation: the first point of a layer is its origin and
\* is not kept itself; an offset below the layer's last is a revolution later.  A
\* bad return has no angle: no offset is from it, and nothing is below it.
ByYaw(acc, p, keep) ==
    LET first == acc.first[p.ring]
        turned == IF first.good /\ p.good THEN Swept(first.yaw, p.yaw) ELSE NaN
        offset == IF turned # NaN /\ turned < acc.last[p.ring] THEN turned + Turn ELSE turned
        sure == acc.sure[p.ring] /\ p.good
    IN  IF first = None THEN [acc EXCEPT !.first[p.ring] = p, !.sure[p.ring] = p.good]
        ELSE [acc EXCEPT !.last[p.ring] = offset, !.sure[p.ring] = sure,
                         !.kept = IF keep THEN Append(@, Picked(p, offset, first.at, sure)) ELSE @]

Rotated(points, Seen(_), Keep(_)) ==
    LET rings == {points[k].ring : k \in DOMAIN points}
        Turned(acc, k) == IF Seen(k) THEN ByYaw(acc, points[k], Keep(k)) ELSE acc
    IN  FoldLeft(Turned, [first |-> [r \in rings |-> None], last |-> [r \in rings |-> 0],
                          sure |-> [r \in rings |-> TRUE], kept |-> <<>>],
                 [k \in DOMAIN points |-> k]).kept

\* velodyne_handler takes all points for one layer, a point under the angle of
\* the first for one of the next revolution, and no offset for a later one.
VelodynePoints(points, given) ==
    LET seen == {k \in DOMAIN points : Counted(k) /\ points[k].good}
        first == CHOOSE k \in seen : \A j \in seen : k <= j
        Swept1(p) == IF p.yaw < points[first].yaw THEN points[first].yaw - p.yaw
                     ELSE points[first].yaw - p.yaw + Turn
        Keep(k) == k \in seen /\ Inside(points[k])
        Is(k) == IF Keep(k) /\ k # first THEN <<Picked(points[k], Swept1(points[k]), points[first].at, TRUE)>>
                 ELSE <<>>
    IN  IF given THEN Those(points, Keep, LAMBDA p : p.at)
        ELSE FlattenSeq([k \in DOMAIN points |-> Is(k)])

\* hesai_handler: times are counted from the first point; without times the angle
\* of a return is taken before it is looked at whether it is a good one.
HesaiPoints(points, given) ==
    LET Keep(k) == Counted(k) /\ points[k].good /\ Inside(points[k])
    IN  IF given THEN Those(points, Keep, LAMBDA p : p.at - points[1].at)
        ELSE Rotated(points, LAMBDA k : TRUE, Keep)

\* The three kinds of process_cut_frame_pcl2, which also looks at the ring.
CutPoints(points, given) ==
    LET Seen(k) == points[k].good /\ Within(points[k])
        Keep(k) == Seen(k) /\ Counted(k) /\ points[k].ring < N_SCANS
    IN  IF lidar_type = "VELO16" /\ ~given THEN Rotated(points, Seen, Keep)
        ELSE Those(points, Keep, LAMBDA p : p.at)

\* The points have times when that of the last is positive.
Given(sweep) == sweep.timed /\ sweep.points # <<>> /\ Last(sweep.points).at > 0

-----------------------------------------------------------------------------
(* Cutting.                                                                 *)

\* Mutant: an offset stays counted from the stamp of the scan.
NextOfCutAbsolute(acc, p, stamp, size, required) ==
    LET q == p
        part == Append(acc.part, q)
    IN  IF acc.n + 1 # ((acc.cuts + 1) * size) \div required - 1
        THEN [acc EXCEPT !.n = @ + 1, !.part = part]
        ELSE [end |-> acc.end + q.offset, n |-> acc.n + 1, cuts |-> acc.cuts + 1, part |-> <<>>,
              frames |-> Append(acc.frames, [beg |-> acc.end, points |-> part])]

\* Mutant: the last point of a frame is left out of the count.
NextOfCutLate(acc, p, stamp, size, required) ==
    LET q == [p EXCEPT !.offset = @ + stamp - acc.end]
        part == Append(acc.part, q)
    IN  IF acc.n + 1 # ((acc.cuts + 1) * size) \div required
        THEN [acc EXCEPT !.n = @ + 1, !.part = part]
        ELSE [end |-> acc.end + q.offset, n |-> acc.n + 1, cuts |-> acc.cuts + 1, part |-> <<>>,
              frames |-> Append(acc.frames, [beg |-> acc.end, points |-> part])]

\* One point more: its offset is counted from the end of the last frame, and it
\* ends a frame when the share of the frames so far is reached.
NextOfCut(acc, p, stamp, size, required) ==
    LET q == [p EXCEPT !.offset = @ + stamp - acc.end]
        part == Append(acc.part, q)
    IN  IF acc.n + 1 # ((acc.cuts + 1) * size) \div required - 1
        THEN [acc EXCEPT !.n = @ + 1, !.part = part]
        ELSE [end |-> acc.end + q.offset, n |-> acc.n + 1, cuts |-> acc.cuts + 1, part |-> <<>>,
              frames |-> Append(acc.frames, [beg |-> acc.end, points |-> part])]

\* The frames of the points in the order of their offsets, without the first.
\* (Points with the same offset stay in their order; std::sort takes any.)
Frames(points, stamp, required) ==
    LET sorted == SortSeq(points, LAMBDA p, q : p.offset < q.offset)
        Next1(acc, p) == NextOfCut(acc, p, stamp, Len(points), required)
    IN  FoldLeft(Next1, [end |-> stamp, n |-> 0, cuts |-> 0, part |-> <<>>, frames |-> <<>>],
                 IF sorted = <<>> THEN <<>> ELSE Tail(sorted)).frames

Required == IF scan_count + 1 < Warmup[lidar_type] THEN 1 ELSE cut_frame_num

Cut(points, stamp) ==
    /\ lidar_buffer' = lidar_buffer \o Frames(points, stamp, Required)
    /\ cut' = [points |-> points, required |-> Required] /\ pl_surf' = points

-----------------------------------------------------------------------------
(* The callbacks: a scan is whole in the buffer, or its frames are.          *)

Whole(points, stamp) ==
    /\ pl_surf' = points /\ UNCHANGED cut
    /\ lidar_buffer' = IF points = <<>> THEN lidar_buffer
                       ELSE Append(lidar_buffer, [beg |-> stamp, points |-> points])

\* livox_pcl_cbk; the other callback reads another topic.
livox_pcl_cbk(sweep, stamp) ==
    /\ lidar_type = "AVIA" /\ UNCHANGED given_offset_time
    /\ IF cut_frame_init THEN Cut(LivoxPoints(sweep.points), stamp)
       ELSE Whole(LivoxPoints(sweep.points), stamp)

\* standard_pcl_cbk with cut_frame.
standard_cut(sweep, stamp) ==
    /\ lidar_type \in {"VELO16", "OUST64", "HESAIxt32"} /\ cut_frame_init
    /\ lidar_type # "VELO16" => sweep.timed
    /\ given_offset_time' = IF lidar_type = "VELO16" THEN Given(sweep) ELSE given_offset_time
    /\ Cut(CutPoints(sweep.points, given_offset_time'), stamp)

\* standard_pcl_cbk without: a lidar of no known type gives what pl_surf has.
standard_whole(sweep, stamp) ==
    /\ lidar_type # "AVIA" /\ (lidar_type = "other" \/ ~cut_frame_init)
    /\ lidar_type = "OUST64" => sweep.timed
    /\ lidar_type = "HESAIxt32" => \A k \in DOMAIN sweep.points : sweep.points[k].ring < N_SCANS
    /\ given_offset_time' = CASE lidar_type = "VELO16" -> Given(sweep)
                              [] lidar_type = "HESAIxt32" -> sweep.timed
                              [] OTHER -> given_offset_time
    /\ Whole(CASE lidar_type = "VELO16" -> VelodynePoints(sweep.points, given_offset_time')
               [] lidar_type = "HESAIxt32" -> HesaiPoints(sweep.points, given_offset_time')
               [] lidar_type = "OUST64" -> OusterPoints(sweep.points)
               [] OTHER -> pl_surf, stamp)

\* A scan arrives, later than the last one's end; an older one is dropped.
Arrives ==
    /\ scan_count < MaxScans /\ scan_count' = scan_count + 1
    /\ last_timestamp_lidar' = scan_count' * 4 * Turn
    /\ \E sweep \in Sweeps :
          /\ sweep.points # <<>>
          /\ \/ livox_pcl_cbk(sweep, last_timestamp_lidar')
             \/ standard_cut(sweep, last_timestamp_lidar')
             \/ standard_whole(sweep, last_timestamp_lidar')
    /\ UNCHANGED parameters

ArrivesOld ==
    /\ scan_count \in 1 .. MaxScans - 1 /\ scan_count' = scan_count + 1
    /\ UNCHANGED <<parameters, last_timestamp_lidar, given_offset_time, pl_surf, lidar_buffer, cut>>

Next == Arrives \/ ArrivesOld

Spec == Init /\ [][Next]_vars

-----------------------------------------------------------------------------
Point == [offset : Int, since : Int, sure : BOOLEAN]

\* Parameters, points and frames have their types.
TypeOK ==
    /\ lidar_type \in Types /\ cut_frame_init \in BOOLEAN /\ point_filter_num \in FilterNums
    /\ scan_count \in 0 .. MaxScans /\ last_timestamp_lidar \in Nat /\ given_offset_time \in BOOLEAN
    /\ pl_surf \in Seq(Point) /\ cut \in [points : Seq(Point), required : {1, cut_frame_num}]
    /\ lidar_buffer \in Seq([beg : Nat, points : Seq(Point)])

\* Every point in the buffer, in whatever frame of whatever scan it ended, has
\* the time it was measured: the frame's begin and the point's offset add up to
\* the stamp of its scan and the time in the scan, be the times from the lidar
\* or from the angles.  (From the angles, hesai_handler finds it until the first
\* bad return of a layer: if that is the first of the layer the offsets are not
\* numbers, and after another whole revolutions may be missing.)
StampOf(f) == (f.beg \div (4 * Turn)) * 4 * Turn
Measured ==
    \A i \in DOMAIN lidar_buffer : \A j \in DOMAIN lidar_buffer[i].points :
        LET f == lidar_buffer[i]
            p == f.points[j]
        IN  \/ p.offset # NaN /\ f.beg + p.offset = StampOf(f) + p.since
            \/ ~p.sure /\ (p.offset = NaN \/ (p.since - p.offset) % Turn = 0)
            \/ lidar_type = "VELO16" /\ ~cut_frame_init /\ p.since \notin 1 .. Turn - 1

\* The frames of a cut scan follow each other: each begins where the one before
\* ended, its offsets are from its begin on, and none is empty.
FramesFollow ==
    cut_frame_init /\ lidar_type # "other" =>
        \A i \in DOMAIN lidar_buffer :
            LET f == lidar_buffer[i]
            IN  /\ f.points # <<>> /\ \A j \in DOMAIN f.points : f.points[j].offset >= 0
                /\ i > 1 =>
                      LET before == lidar_buffer[i - 1]
                          end == before.beg + Last(before.points).offset
                      IN  f.beg = end \/ (f.beg = StampOf(f) /\ f.beg >= end)

\* A scan with two points or more for every frame wanted is cut into that many,
\* which have all of its points but the earliest; one with fewer is lost.
CutWhole ==
    cut.points # <<>> =>
        LET frames == SelectSeq(lidar_buffer, LAMBDA f : StampOf(f) = last_timestamp_lidar)
            points == FoldLeft(LAMBDA n, f : n + Len(f.points), 0, frames)
        IN  IF Len(cut.points) >= 2 * cut.required
            THEN Len(frames) = cut.required /\ points = Len(cut.points) - 1
            ELSE frames = <<>>
=============================================================================
