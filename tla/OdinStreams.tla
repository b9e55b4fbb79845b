------------------------------ MODULE OdinStreams ------------------------------
(***************************************************************************)
(* What the odin driver does with the packets of a connected device: where  *)
(* each goes, the rates counted on the way, the stamps given to messages and *)
(* to recorded frames, and the smoothed offset of the device's clock.        *)
(*                                                                         *)
(* The SDK's threads run the callback, so packets of two kinds meet: one is  *)
(* being published and recorded, or one report is being written, while       *)
(* others pass.                                                             *)
(***************************************************************************)
EXTENDS Integers, Sequences, Functions

CONSTANTS PTP_SMOOTH_WINDOW_SIZE,
          Kinds,                \* of frames, some of Streams
          Offsets,              \* of the device's clock, as measured
          MaxTime, MaxPackets   \* bounds: the host's clock, packets

VARIABLES g_use_host_ros_time,
          flags,       \* the settings that are on
          now,         \* the host's clock; the device's is the same without an offset
          rx,          \* fpsHandle of each stream
          ptp,         \* the windows of delays and offsets
          smooth,      \* their means
          report,      \* what of a status report is still to be written
          sample,      \* the frame being recorded: when measured, the stamp published
          packets,
          frames, reported,  \* of each stream: received; in the rates reported
          syncs, recorded    \* the packets of the clock; the last recorded frame

vars == <<g_use_host_ros_time, flags, now, rx, ptp, smooth, report, sample, packets,
          frames, reported, syncs, recorded>>

Streams == {"rgb", "imu", "dtof", "slam_cloud", "slam_odom", "slam_odom_highfreq"}
Flags == {"sendrgb", "sendimu", "senddtof", "pubintensitygray", "sendcloudslam", "sendodom",
          "recorddata", "devstatuslog", "showfps"}
None == [none |-> TRUE]

-----------------------------------------------------------------------------
(* Rates.                                                                   *)

update_count(handle) ==
    [handle EXCEPT !.start = IF handle.count = 0 THEN now ELSE @,
                   !.last = IF handle.count = 0 THEN @ ELSE now,
                   !.count = @ + 1]

\* Mutant: the frame that closes an interval does not open the next one.
cal_fps_anew(handle) ==
    IF handle.count < 2 THEN [frames |-> 0, over |-> 0, next |-> handle]
    ELSE [frames |-> handle.count - 1, over |-> handle.last - handle.start,
          next |-> [handle EXCEPT !.start = handle.last, !.count = 0]]

\* A rate, as so many frames over so long, and the handle after it was taken.
cal_fps(handle) ==
    IF handle.count < 2 THEN [frames |-> 0, over |-> 0, next |-> handle]
    ELSE [frames |-> handle.count - 1, over |-> handle.last - handle.start,
          next |-> [handle EXCEPT !.start = handle.last, !.count = 1]]

-----------------------------------------------------------------------------
(* Clocks.                                                                  *)

\* Mutant: the window loses the newest value instead of the oldest.
WindowWithoutNewest(window, value) ==
    IF Len(window) = PTP_SMOOTH_WINDOW_SIZE THEN window ELSE Append(window, value)

Window(window, value) ==
    LET longer == Append(window, value)
    IN  IF Len(longer) > PTP_SMOOTH_WINDOW_SIZE THEN Tail(longer) ELSE longer

Sum(s) == FoldFunction(+, 0, s)
\* Towards zero, as the conversion to an integer goes.
Quotient(a, b) == IF a >= 0 THEN a \div b ELSE -((-a) \div b)
Mean(window) == Quotient(Sum(window), Len(window))

\* The stamp of a message.
make_aligned_stamp(sensor) ==
    CASE g_use_host_ros_time = 1 -> now
      [] g_use_host_ros_time = 2 -> IF sensor < smooth.offset THEN 0 ELSE sensor - smooth.offset
      [] OTHER -> sensor

\* Mutant: a recorded frame has the device's own stamp when synchronised.
aligned_stamp_ns_raw(sensor) ==
    IF g_use_host_ros_time = 1 THEN now ELSE sensor

\* The stamp of a recorded frame: the same rule at another moment.
aligned_stamp_ns(sensor) == make_aligned_stamp(sensor)

-----------------------------------------------------------------------------
Init ==
    /\ g_use_host_ros_time \in 0 .. 2
    /\ flags \in {Flags, {"sendimu", "recorddata", "showfps"}} /\ now = 0
    /\ rx = [s \in Streams |-> [start |-> 0, last |-> 0, count |-> 0]]
    /\ ptp = [delay |-> <<>>, offset |-> <<>>] /\ smooth = [delay |-> 0, offset |-> 0]
    /\ report = {} /\ sample = None
    /\ packets = 0
    /\ frames = [s \in Streams |-> 0] /\ reported = [s \in Streams |-> 0]
    /\ syncs = <<>> /\ recorded = None

Settings == <<g_use_host_ros_time, flags>>
Clocks == <<ptp, smooth, syncs>>
Rates == <<rx, frames>>
Recording == <<sample, recorded>>
Reporting == <<report, reported>>

Packet == packets < MaxPackets /\ packets' = packets + 1

\* Where a frame goes by its kind: the topics, each if its flag is on.
Routes(kind) ==
    CASE kind = "rgb"                -> {<<"sendrgb", "image">>}
      [] kind = "imu"                -> {<<"sendimu", "imu">>}
      [] kind = "dtof"               -> {<<"senddtof", "cloud_raw">>,
                                         <<"pubintensitygray", "intensity_gray">>}
      [] kind = "slam_cloud"         -> {<<"sendcloudslam", "cloud_slam">>}
      [] kind = "slam_odom"          -> {<<"sendodom", "odometry">>}
      [] kind = "slam_odom_highfreq" -> {<<"sendodom", "odometry_highfreq">>}

Topics(kind) == {route[2] : route \in {r \in Routes(kind) : r[1] \in flags}}

\* The kinds whose messages are recorded too.
Recorded(kind) == kind \in {"rgb", "imu", "slam_cloud", "slam_odom"}

\* A frame of a stream, measured a while ago: it is published where its flag says
\* so, then recorded, and counted in any case.
Frame(kind, age) ==
    /\ Packet /\ sample = None /\ age <= now
    /\ sample' = IF Recorded(kind) /\ Topics(kind) # {} /\ "recorddata" \in flags
                 THEN [measured |-> now - age, published |-> make_aligned_stamp(now - age),
                       at |-> now, synced |-> Len(syncs)]
                 ELSE None
    /\ rx' = [rx EXCEPT ![kind] = update_count(@)]
    /\ frames' = [frames EXCEPT ![kind] = @ + 1]
    /\ UNCHANGED <<Settings, now, Clocks, Reporting, recorded>>

\* The same frame goes to the recording, with a stamp of its own.
Record ==
    /\ sample # None /\ sample' = None
    /\ recorded' = [frame |-> sample, stamp |-> aligned_stamp_ns(sample.measured), at |-> now,
                    synced |-> Len(syncs)]
    /\ UNCHANGED <<Settings, now, Rates, Clocks, Reporting, packets>>

\* A measurement of the clocks.
Ntp(delay, offset) ==
    /\ Packet
    /\ ptp' = [delay |-> Window(ptp.delay, delay), offset |-> Window(ptp.offset, offset)]
    /\ smooth' = [delay |-> Mean(ptp'.delay), offset |-> Mean(ptp'.offset)]
    /\ syncs' = Append(syncs, offset)
    /\ UNCHANGED <<Settings, now, Rates, Recording, Reporting>>

\* A status report is asked for: a row of the log, then lines on the console, each
\* with the rates of every stream.
DeviceStatus ==
    /\ Packet /\ report = {}
    /\ report' = {"devstatuslog", "showfps"} \cap flags
    /\ UNCHANGED <<Settings, now, Rates, Clocks, Recording, reported>>

WriteRates(output) ==
    /\ output \in report /\ (output = "showfps" => "devstatuslog" \notin report)
    /\ report' = report \ {output}
    /\ rx' = [s \in Streams |-> cal_fps(rx[s]).next]
    /\ reported' = [s \in Streams |-> reported[s] + cal_fps(rx[s]).frames]
    /\ UNCHANGED <<Settings, now, frames, Clocks, Recording, packets>>

Tick ==
    /\ now < MaxTime /\ now' = now + 1
    /\ UNCHANGED <<Settings, Rates, Clocks, Recording, Reporting, packets>>

Next ==
    \/ \E kind \in Kinds, age \in 0 .. 1 : Frame(kind, age)
    \/ Record \/ DeviceStatus \/ Tick
    \/ \E offset \in Offsets : Ntp(1, offset)
    \/ \E output \in {"devstatuslog", "showfps"} : WriteRates(output)

Spec == Init /\ [][Next]_vars

-----------------------------------------------------------------------------
TypeOK ==
    /\ g_use_host_ros_time \in 0 .. 2 /\ flags \subseteq Flags
    /\ now \in 0 .. MaxTime /\ packets \in 0 .. MaxPackets
    /\ rx \in [Streams -> [start : 0 .. MaxTime, last : 0 .. MaxTime, count : 0 .. MaxPackets]]
    /\ report \subseteq {"devstatuslog", "showfps"}

\* Every frame but a stream's first is in the rates of exactly one output, or in
\* none yet: what the log and the console show between them adds up.
RatesAddUp ==
    \A s \in Streams :
        frames[s] > 0 => reported[s] + rx[s].count = frames[s]

\* The offset is the mean of the newest measurements, as many as the window holds.
OffsetIsRecent ==
    LET n == Len(syncs)
        oldest == IF n > PTP_SMOOTH_WINDOW_SIZE THEN n - PTP_SMOOTH_WINDOW_SIZE + 1 ELSE 1
    IN  /\ ptp.offset = SubSeq(syncs, oldest, n) /\ Len(ptp.delay) = Len(ptp.offset)
        /\ n > 0 => smooth.offset = Quotient(Sum(SubSeq(syncs, oldest, n)), Len(ptp.offset))

\* A recorded frame is stamped by the rule of its message, but anew: it has the
\* message's stamp only if it is the device's, or the clock that gives it stood
\* still in between; on the host's clock it is not before the publishing.  Nothing
\* is said of the order of the stamps: a greater offset sets them back.
RecordedBySameRule ==
    recorded # None =>
        /\ recorded.stamp # recorded.frame.published =>
              \/ g_use_host_ros_time = 1 /\ recorded.at > recorded.frame.at
              \/ g_use_host_ros_time = 2 /\ recorded.synced > recorded.frame.synced
        /\ g_use_host_ros_time = 1 => recorded.stamp \in recorded.frame.at .. recorded.at

StreamsSound == RatesAddUp /\ OffsetIsRecent /\ RecordedBySameRule
================================================================================
