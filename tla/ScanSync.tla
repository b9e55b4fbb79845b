------------------------------- MODULE ScanSync -------------------------------
(***************************************************************************)
(* point_lio: how scans and IMU samples are brought together.  Callbacks    *)
(* fill two queues; the main loop, on the same thread, takes a scan when    *)
(* the samples reach its end (sync_packages) and goes through its points    *)
(* and the samples in the order of time.  What the filter computes from     *)
(* them is left out; a sample is its stamp, a scan its stamp and whether it *)
(* has points.                                                              *)
(***************************************************************************)
EXTENDS Integers, Sequences

CONSTANTS MaxTime,     \* bound: stamps
          Duration,    \* from the first to the last point of a scan;
                       \* lidar_time_inte
          InitCount,   \* MAX_INI_COUNT
          Combined     \* the scans con_frame puts together (10)

VARIABLES lidar_buffer, imu_deque,
          last_timestamp_lidar, last_timestamp_imu,
          con_frame,           \* the parameter
          ptr_con,             \* the scans waiting to be combined
          use_imu_as_input,    \* the parameter
          imu_need_init_, after_imu_init_, init_iter_num,
          measured,            \* the samples in Measures.imu, never taken out
          init_map,
          imu_next, imu_last,
          is_first_frame, time_current, time_predict,
          used,                \* history: the samples given to the filter
          arrived,             \* history: the samples accepted
          mapped,              \* history: the stamps of the scans taken
          pops_empty           \* history: pop_front of an empty queue

arriving == <<lidar_buffer, last_timestamp_lidar, last_timestamp_imu, ptr_con, arrived>>
parameters == <<con_frame, use_imu_as_input>>
initialising == <<imu_need_init_, after_imu_init_, init_iter_num, measured, init_map>>
walking == <<imu_next, imu_last, is_first_frame, time_current, time_predict, used, pops_empty>>
vars == <<arriving, imu_deque, parameters, initialising, walking, mapped>>

Init ==
    /\ lidar_buffer = <<>> /\ imu_deque = <<>>
    /\ last_timestamp_lidar = 0 /\ last_timestamp_imu = 0
    /\ con_frame \in BOOLEAN /\ ptr_con = <<>> /\ use_imu_as_input \in BOOLEAN
    /\ imu_need_init_ = TRUE /\ after_imu_init_ = FALSE /\ init_iter_num = 1 /\ measured = 0
    /\ init_map = FALSE
    /\ imu_next = 0 /\ imu_last = 0
    /\ is_first_frame = TRUE /\ time_current = 0 /\ time_predict = 0
    /\ used = <<>> /\ arrived = <<>> /\ mapped = <<>> /\ pops_empty = FALSE

-----------------------------------------------------------------------------
(* The callbacks.                                                           *)

\* Mutant: one scan more than Combined is put together.
BufferedOver(stamp, points) ==
    CASE ~con_frame -> UNCHANGED <<ptr_con, lidar_buffer>>
      [] con_frame /\ Len(ptr_con) <= Combined ->
            /\ ptr_con' = Append(ptr_con, [beg |-> stamp, points |-> points])
            /\ UNCHANGED lidar_buffer
      [] OTHER ->
            /\ ptr_con' = <<>>
            /\ lidar_buffer' = Append(lidar_buffer, Head(ptr_con))

\* The scan with this stamp into the buffer.  When Combined scans are together
\* the next one sends them on and is dropped itself; without con_frame a scan
\* without points is not kept.
Buffered(stamp, points) ==
    CASE ~con_frame ->
            /\ UNCHANGED ptr_con
            /\ lidar_buffer' = IF points THEN Append(lidar_buffer, [beg |-> stamp, points |-> TRUE])
                               ELSE lidar_buffer
      [] con_frame /\ Len(ptr_con) < Combined ->
            /\ ptr_con' = Append(ptr_con, [beg |-> stamp, points |-> points])
            /\ UNCHANGED lidar_buffer
      [] OTHER ->
            /\ ptr_con' = <<>>
            /\ lidar_buffer' = Append(lidar_buffer,
                  [beg |-> ptr_con[1].beg, points |-> \E i \in 1..Combined : ptr_con[i].points])

\* Mutant: a scan older than the last is kept.
livox_pcl_cbk_looping ==
    \E stamp \in 1..MaxTime, points \in BOOLEAN :
        /\ last_timestamp_lidar' = stamp /\ Len(lidar_buffer) < 2
        /\ Buffered(stamp, points)
        /\ UNCHANGED <<imu_deque, last_timestamp_imu, arrived, parameters, initialising, walking, mapped>>

\* livox_pcl_cbk.  A scan older than the last is dropped, the buffer stays.  (An
\* equal stamp passes the code's test; the driver sends none.)
livox_pcl_cbk ==
    \E stamp \in 1..MaxTime, points \in BOOLEAN :
        /\ stamp > last_timestamp_lidar /\ last_timestamp_lidar' = stamp
        /\ Buffered(stamp, points)
        /\ UNCHANGED <<imu_deque, last_timestamp_imu, arrived, parameters, initialising, walking, mapped>>

\* Mutant: a sample older than the last is kept.
imu_cbk_unordered ==
    \E stamp \in 1..MaxTime :
        /\ stamp \notin {arrived[i] : i \in 1..Len(arrived)}
        /\ last_timestamp_imu' = stamp
        /\ imu_deque' = Append(imu_deque, stamp) /\ arrived' = Append(arrived, stamp)
        /\ UNCHANGED <<lidar_buffer, last_timestamp_lidar, ptr_con, parameters, initialising,
                       walking, mapped>>

\* imu_cbk.  A sample older than the last is dropped.
imu_cbk ==
    \E stamp \in 1..MaxTime :
        /\ stamp > last_timestamp_imu /\ last_timestamp_imu' = stamp
        /\ imu_deque' = Append(imu_deque, stamp) /\ arrived' = Append(arrived, stamp)
        /\ UNCHANGED <<lidar_buffer, last_timestamp_lidar, ptr_con, parameters, initialising,
                       walking, mapped>>

-----------------------------------------------------------------------------
(* The state a scan is worked through with, and the loops over the samples.  *)

Walk == [deque |-> imu_deque, next |-> imu_next, last |-> imu_last, first |-> is_first_frame,
         current |-> time_current, predict |-> time_predict, used |-> used, bad |-> pops_empty,
         stop |-> FALSE]

\* pop_front, and the front becomes imu_next unless there is none.
PopFront(w) ==
    IF Len(w.deque) <= 1 THEN [w EXCEPT !.deque = <<>>, !.stop = TRUE]
    ELSE [w EXCEPT !.deque = Tail(@), !.last = w.next, !.next = w.deque[2]]

\* A sample is what the filter predicts with, up to its own stamp.
UseNext(w) == [w EXCEPT !.used = Append(@, w.next), !.predict = w.next]
UseLast(w) == [w EXCEPT !.used = Append(@, w.last), !.predict = w.last]

\* What one turn of a loop does with a sample: it is passed over, or used, with the
\* points or for itself.
Turn(w, how) ==
    CASE how = "pass" -> w
      [] how = "next" -> UseNext(w)
      [] how = "last" -> UseLast(w)
      [] how = "alone" -> [(IF use_imu_as_input THEN [w EXCEPT !.predict = w.next] ELSE UseNext(w))
                              EXCEPT !.current = w.next]

\* A sample used for itself comes after the one before.
Goes(w, until, how) == w.next < until /\ (how = "alone" => w.next > w.current)

NextTurn(w, until, how) ==
    IF w.stop \/ ~Goes(w, until, how) THEN w ELSE PopFront(Turn(w, how))

\* while (Goes) { Turn; pop_front; if empty break; ... }: there are no more turns
\* than samples.
Loop(w, until, how) ==
    LET turns[i \in 0..Len(w.deque)] ==
            IF i = 0
            THEN [w EXCEPT !.stop = FALSE, !.bad = @ \/ (w.deque = <<>> /\ Goes(w, until, how))]
            ELSE NextTurn(turns[i - 1], until, how)
    IN  turns[Len(w.deque)]

\* The first point after a start: older samples are passed over.
FirstPoint(w, t) ==
    IF w.first THEN [Loop(w, t, "pass") EXCEPT !.first = FALSE, !.predict = t] ELSE w

\* Samples from before the last prediction are passed over; after the queue was
\* empty imu_next may not be its front.
CatchUp(w) ==
    IF w.next = Head(w.deque) THEN Loop(w, w.predict, "pass")
    ELSE IF w.next < w.predict THEN [w EXCEPT !.last = w.next, !.next = Head(w.deque)] ELSE w

\* One point, at time t, of a scan; the samples before it first.
PointOutput(w, t) ==
    LET a == FirstPoint(w, t)
        b == IF a.deque = <<>> THEN a ELSE Loop(CatchUp(a), t, "next")
    IN  [b EXCEPT !.predict = t, !.current = t]

PointInput(w, t) == [Loop(FirstPoint(w, t), t, "last") EXCEPT !.predict = t, !.current = t]

Point(w, t) == IF use_imu_as_input THEN PointInput(w, t) ELSE PointOutput(w, t)

\* A scan without points: the samples of its time are used for themselves.
EmptyScan(w, end) ==
    IF w.deque = <<>> THEN w
    ELSE LET a == [w EXCEPT !.last = w.next, !.next = Head(w.deque)]
         IN  IF ~Goes(a, end, "alone") THEN a
             ELSE Loop(a, end, IF a.first THEN "pass" ELSE "alone")

End(scan) == scan.beg + Duration

\* The points of a scan are its first and its last.
WalkScan(w, scan) ==
    IF scan.points THEN Point(Point(w, scan.beg), End(scan)) ELSE EmptyScan(w, End(scan))

-----------------------------------------------------------------------------
(* One turn of the main loop.                                               *)

\* Mutant: a scan is taken as soon as its first point has a sample.
SyncedEarly == /\ lidar_buffer # <<>> /\ imu_deque # <<>>
               /\ last_timestamp_imu >= Head(lidar_buffer).beg

\* sync_packages takes a scan when there are samples up to its end.  The loop of
\* the first scan (laserMapping.cpp:439-449) finds nothing to pass over: the
\* samples before the scan have been taken here.
Synced == /\ lidar_buffer # <<>> /\ imu_deque # <<>>
          /\ last_timestamp_imu >= End(Head(lidar_buffer))

\* While the IMU initialises sync_packages itself moves the samples.
TakeSamples(w, scan) ==
    IF ~imu_need_init_ THEN w
    ELSE Loop([w EXCEPT !.next = Head(w.deque)], End(scan), "pass")

\* Measures.imu keeps the samples of earlier scans, which count again.
Counted(taken) == init_iter_num + measured + taken

MainLoop ==
    LET scan == Head(lidar_buffer)
        w == TakeSamples(Walk, scan)
        taken == Len(imu_deque) - Len(w.deque)
    IN  /\ Synced
        /\ lidar_buffer' = Tail(lidar_buffer) /\ mapped' = Append(mapped, scan.beg)
        /\ measured' = IF imu_need_init_ THEN measured + taken ELSE measured
        /\ IF measured' = 0
           THEN UNCHANGED <<imu_need_init_, after_imu_init_, init_iter_num>>
           ELSE IF imu_need_init_
           THEN /\ init_iter_num' = Counted(taken)
                /\ imu_need_init_' = (Counted(taken) <= InitCount) /\ UNCHANGED after_imu_init_
           ELSE after_imu_init_' = TRUE /\ UNCHANGED <<imu_need_init_, init_iter_num>>
        \* The first scan after the IMU has initialised goes into the map.
        /\ init_map' = (init_map \/ (~imu_need_init_' /\ scan.points))
        /\ LET v == IF init_map /\ ~imu_need_init_ THEN WalkScan(w, scan) ELSE w
           IN  /\ imu_deque' = v.deque /\ imu_next' = v.next /\ imu_last' = v.last
               /\ is_first_frame' = v.first /\ time_current' = v.current
               /\ time_predict' = v.predict /\ used' = v.used /\ pops_empty' = v.bad
        /\ UNCHANGED <<last_timestamp_lidar, last_timestamp_imu, ptr_con, arrived, parameters>>

Next == livox_pcl_cbk \/ imu_cbk \/ MainLoop

Spec == Init /\ [][Next]_vars

-----------------------------------------------------------------------------
TypeOK ==
    /\ lidar_buffer \in Seq([beg : 1..MaxTime, points : BOOLEAN]) /\ imu_deque \in Seq(1..MaxTime)
    /\ ptr_con \in Seq([beg : 1..MaxTime, points : BOOLEAN]) /\ Len(ptr_con) <= Combined
    /\ {last_timestamp_lidar, last_timestamp_imu, imu_next, imu_last, time_current, time_predict}
           \subseteq 0..MaxTime
    /\ {con_frame, use_imu_as_input, imu_need_init_, after_imu_init_, init_map, is_first_frame,
        pops_empty} \subseteq BOOLEAN
    /\ init_iter_num \in Nat /\ measured \in 0..MaxTime
    /\ {used, arrived, mapped} \subseteq Seq(1..MaxTime)

\* pop_front and front of the queue of samples, most of them unguarded, are not
\* reached with the queue empty: the sample that let the scan through stays in
\* it (laserMapping.cpp:441, 588, 811).
NeverPopsEmpty == ~pops_empty

\* The samples the filter predicts with are those that arrived, in order: from
\* the first one on none is passed over and none is used twice.  With the IMU as
\* input they are in order, but a scan without points passes samples over and
\* may leave imu_last and imu_next the same (laserMapping.cpp:912-935).
SamplesUsedOnce ==
    /\ ~use_imu_as_input /\ used # <<>> =>
           \E i \in 1..Len(arrived) : used = SubSeq(arrived, i, i + Len(used) - 1)
    /\ \A i, j \in 1..Len(used) : i < j => used[i] <= used[j]

\* imu_next is the front of the queue: the two are moved together by two
\* functions that share them (li_initialization.cpp:255).
NextIsFront == mapped # <<>> => imu_deque # <<>> /\ imu_next = Head(imu_deque)

\* Scans are taken in the order of their stamps.
ScansInOrder == \A i, j \in 1..Len(mapped) : i < j => mapped[i] < mapped[j]
=============================================================================
