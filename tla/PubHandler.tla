----------------------------- MODULE PubHandler -----------------------------
(***************************************************************************)
(* The frame assembly of livox_ros_driver2 (comm/pub_handler.cpp): packets *)
(* of points come in on a thread of the SDK and wait in a queue; a thread  *)
(* of PubHandler unpacks them into one buffer per lidar and cuts frames,   *)
(* by the lidars' own clock when they are synchronised, by the host's      *)
(* otherwise.  Which of the two is one flag for all lidars, set by every   *)
(* packet that comes in.  Times are in ticks.                              *)
(***************************************************************************)
EXTENDS Integers, Sequences, SequencesExt, TLC

CONSTANTS Lidar,            \* handles of the lidars
          None,             \* "no packet", "not set"
          TicksPerMs,       \* a millisecond
          publish_interval_,
          PacketTicks,      \* time between two packets of a synchronised lidar
          PointNum,         \* points of a packet
          PointInterval,    \* time between two points of a packet
          Phase,            \* when the first packet of a synchronised lidar may come
          MaxPackets,       \* bound: packets of points
          MaxQueue,         \* bound: packets in the queue
          MaxMs             \* bound: milliseconds of the host's clock

ASSUME TimeAssumption == /\ TicksPerMs \in Nat \ {0}
                         /\ publish_interval_ \in Nat \ {0}
                         /\ publish_interval_ >= TicksPerMs
\* A packet ends before the next one of its lidar begins (point_interval is the
\* time of a packet shared out among its points).
ASSUME PacketAssumption == /\ PointNum \in Nat \ {0} /\ PointInterval \in Nat
                           /\ PacketTicks \in Nat /\ Phase \subseteq Nat
                           /\ (PointNum - 1) * PointInterval < PacketTicks
\* What CheckTimer takes for granted: the interval is whole milliseconds, as at
\* the frequencies recommended (README.md:107), and every millisecond has a packet.
ASSUME CadenceAssumption == /\ publish_interval_ % TicksPerMs = 0
                            /\ PacketTicks <= TicksPerMs
ASSUME BoundAssumption == MaxPackets \in Nat /\ MaxQueue \in Nat /\ MaxMs \in Nat
ASSUME NoneAssumption == None \notin [handle : Lidar, time_stamp : Nat]

VARIABLES raw_packet_queue_,
          raw_data,           \* the packet the thread has taken, or None
          points_clouds_,     \* per lidar, the points unpacked, as offset_time
          is_timestamp_sync_,
          last_pub_time_,     \* None before the first unsynchronised packet
          is_quit_,
          worker,             \* the place of RawDataProcess
          owner,              \* the place of Uninit
          frame_,             \* per lidar, the points of the frame published last
          synced,             \* environment: which lidars have a synchronised clock
          sent,               \* environment: packets sent per lidar
          phase,              \* environment: when the lidars sent their first packet
          now                 \* environment: the host's clock

queueVars == <<raw_packet_queue_, is_timestamp_sync_>>
frameVars == <<points_clouds_, last_pub_time_, frame_>>
envVars == <<synced, sent, phase, now>>
vars == <<queueVars, raw_data, frameVars, is_quit_, worker, owner, envVars>>

publish_interval_ms_ == publish_interval_ \div TicksPerMs
\* kNsTolerantFrameTimeDeviation is a millisecond.
publish_interval_tolerance_ == publish_interval_ - TicksPerMs

\* The points of a packet, as their offset_time.
PointCloudProcess(packet) ==
    [i \in 1..PointNum |-> packet.time_stamp + (i - 1) * PointInterval]

GetLidarBaseTime(points) == IF points = <<>> THEN 0 ELSE Head(points)
GetRecentTimeStamp(points) == IF points = <<>> THEN 0 ELSE Last(points)

-----------------------------------------------------------------------------
Init == /\ raw_packet_queue_ = <<>> /\ raw_data = None
        /\ points_clouds_ = [l \in Lidar |-> <<>>]
        /\ is_timestamp_sync_ = FALSE
        /\ last_pub_time_ = None
        /\ is_quit_ = FALSE
        /\ worker = "check"
        /\ owner = "observing"
        /\ frame_ = [l \in Lidar |-> <<>>]
        /\ synced \in [Lidar -> BOOLEAN]
        /\ sent = [l \in Lidar |-> 0]
        /\ phase \in {p \in [Lidar -> Phase \cup {0}] : \A l \in Lidar : ~synced[l] => p[l] = 0}
        /\ now = 0

-----------------------------------------------------------------------------
\* The host's clock goes on, a millisecond at a time; nothing depends on
\* it while all lidars have their own.
Tick == /\ now < MaxMs * TicksPerMs
        /\ \E l \in Lidar : ~synced[l]
        /\ now' = now + TicksPerMs
        /\ UNCHANGED <<queueVars, raw_data, frameVars, is_quit_, worker, owner, synced, sent, phase>>

\* GetEthPacketTimestamp: the stamp of the packet, or the host's time.
GetEthPacketTimestamp(l) ==
    IF synced[l] THEN phase[l] + sent[l] * PacketTicks ELSE now

\* A packet of points comes in on a thread of the SDK.  The flag is set before
\* the mutex is taken; that another thread of the SDK comes in between shows
\* as its packet, or as one of OnLivoxLidarImuPacket, a step earlier.
OnLivoxLidarPointCloudCallback(l) ==
    /\ owner = "observing"
    /\ SumFunction(sent) < MaxPackets
    /\ Len(raw_packet_queue_) < MaxQueue
    /\ is_timestamp_sync_' = synced[l]
    /\ raw_packet_queue_' = Append(raw_packet_queue_,
                                   [handle |-> l, time_stamp |-> GetEthPacketTimestamp(l)])
    /\ sent' = [sent EXCEPT ![l] = @ + 1]
    /\ UNCHANGED <<raw_data, frameVars, is_quit_, worker, owner, synced, phase, now>>

\* A packet of IMU samples goes to Lds::StorageImuData (module LivoxPoll); of
\* the state here it sets the flag.
OnLivoxLidarImuPacket(l) ==
    /\ owner = "observing"
    /\ is_timestamp_sync_' = synced[l]
    /\ UNCHANGED <<raw_packet_queue_, raw_data, frameVars, is_quit_, worker, owner, envVars>>

-----------------------------------------------------------------------------
\* The head of the loop.
CheckQuit ==
    /\ worker = "check"
    /\ worker' = IF is_quit_ THEN "done" ELSE "locked"
    /\ UNCHANGED <<queueVars, raw_data, frameVars, is_quit_, owner, envVars>>

TakeFront ==
    /\ raw_data' = Head(raw_packet_queue_)
    /\ raw_packet_queue_' = Tail(raw_packet_queue_)
    /\ worker' = "process"
    /\ UNCHANGED <<is_timestamp_sync_, frameVars, is_quit_, owner, envVars>>

\* Under packet_mutex_: take a packet, or wait for one.
TakePacket == /\ worker = "locked"
              /\ raw_packet_queue_ # <<>>
              /\ TakeFront

WaitForPacket ==
    /\ worker = "locked"
    /\ raw_packet_queue_ = <<>>
    /\ worker' = "wait"
    /\ UNCHANGED <<queueVars, raw_data, frameVars, is_quit_, owner, envVars>>

\* wait_for returns, notified or after 500 ms, with the mutex held.
WakeWithPacket == /\ worker = "wait"
                  /\ raw_packet_queue_ # <<>>
                  /\ TakeFront

WakeWithNothing ==
    /\ worker = "wait"
    /\ raw_packet_queue_ = <<>>
    /\ worker' = "check"
    /\ UNCHANGED <<queueVars, raw_data, frameVars, is_quit_, owner, envVars>>

\* The points of all lidars with those of the packet in hand.
Unpacked == [points_clouds_ EXCEPT ![raw_data.handle] = @ \o PointCloudProcess(raw_data)]

\* Mutant: the points of all lidars are cleared, also of those not in the frame.
PublishAll(points, ls) ==
    /\ points_clouds_' = [l \in Lidar |-> <<>>]
    /\ frame_' = IF \A l \in ls : points[l] = <<>> THEN frame_
                 ELSE [l \in Lidar |-> IF l \in ls THEN points[l] ELSE <<>>]

\* Nothing is published: the points stay where they are.
Keep(points) == points_clouds_' = points /\ UNCHANGED frame_

\* The lidars in ls hand over their points; a frame without any is not stored.
Publish(points, ls) ==
    /\ points_clouds_' = [l \in Lidar |-> IF l \in ls THEN <<>> ELSE points[l]]
    /\ frame_' = IF \A l \in ls : points[l] = <<>> THEN frame_
                 ELSE [l \in Lidar |-> IF l \in ls THEN points[l] ELSE <<>>]

\* Mutant: the interval is counted in the lidar's own time, not milliseconds.
FrameDueExact(points) ==
    LET recent == GetRecentTimeStamp(points)
    IN  /\ recent % publish_interval_ = 0
        /\ recent # 0
        /\ recent - GetLidarBaseTime(points) >= publish_interval_tolerance_

\* The lidar's clock is in a millisecond that is a multiple of the interval,
\* and about an interval has passed since the oldest point.
FrameDue(points) ==
    LET recent == GetRecentTimeStamp(points)
        recent_time_ms == recent \div TicksPerMs
    IN  /\ recent_time_ms % publish_interval_ms_ = 0
        /\ recent_time_ms # 0
        /\ recent - GetLidarBaseTime(points) >= publish_interval_tolerance_

\* CheckTimer with synchronised clocks: a frame of the packet's lidar.
CheckSyncedTimer ==
    /\ is_timestamp_sync_
    /\ IF FrameDue(Unpacked[raw_data.handle])
       THEN Publish(Unpacked, {raw_data.handle})
       ELSE Keep(Unpacked)
    /\ UNCHANGED last_pub_time_

\* Mutant: the first frame is due at once.
CheckHostTimerEager ==
    /\ ~is_timestamp_sync_
    /\ IF last_pub_time_ = None
       THEN last_pub_time_' = now - publish_interval_ /\ Keep(Unpacked)
       ELSE IF now - last_pub_time_ < publish_interval_
            THEN Keep(Unpacked) /\ UNCHANGED last_pub_time_
            ELSE /\ last_pub_time_' = last_pub_time_ + publish_interval_
                 /\ Publish(Unpacked, Lidar)

\* CheckTimer by the host's clock: a frame of all lidars.
CheckHostTimer ==
    /\ ~is_timestamp_sync_
    /\ IF last_pub_time_ = None
       THEN last_pub_time_' = now /\ Keep(Unpacked)
       ELSE IF now - last_pub_time_ < publish_interval_
            THEN Keep(Unpacked) /\ UNCHANGED last_pub_time_
            ELSE /\ last_pub_time_' = last_pub_time_ + publish_interval_
                 /\ Publish(Unpacked, Lidar)

\* The packet is unpacked and the timer checked.
ProcessPacket ==
    /\ worker = "process"
    /\ CheckSyncedTimer \/ CheckHostTimer
    /\ worker' = "check" /\ raw_data' = None
    /\ UNCHANGED <<queueVars, is_quit_, owner, envVars>>

-----------------------------------------------------------------------------
\* Uninit: the observer is removed, the thread told to quit and joined.
RemoveObserver ==
    /\ owner = "observing"
    /\ owner' = "removed"
    /\ UNCHANGED <<queueVars, raw_data, frameVars, is_quit_, worker, envVars>>

RequestExit ==
    /\ owner = "removed"
    /\ owner' = "joining"
    /\ is_quit_' = TRUE
    /\ UNCHANGED <<queueVars, raw_data, frameVars, worker, envVars>>

Join ==
    /\ owner = "joining"
    /\ worker = "done"
    /\ owner' = "done"
    /\ UNCHANGED <<queueVars, raw_data, frameVars, is_quit_, worker, envVars>>

Worker == CheckQuit \/ TakePacket \/ WaitForPacket \/ WakeWithPacket \/ WakeWithNothing
          \/ ProcessPacket

Next == \/ Tick
        \/ \E l \in Lidar : OnLivoxLidarPointCloudCallback(l) \/ OnLivoxLidarImuPacket(l)
        \/ Worker
        \/ RemoveObserver \/ RequestExit \/ Join

Spec == Init /\ [][Next]_vars

-----------------------------------------------------------------------------
Packet == [handle : Lidar, time_stamp : Nat]

TypeOK ==
    /\ raw_packet_queue_ \in Seq(Packet) /\ Len(raw_packet_queue_) <= MaxQueue
    /\ raw_data \in Packet \cup {None}
    /\ points_clouds_ \in [Lidar -> Seq(Nat)] /\ frame_ \in [Lidar -> Seq(Nat)]
    /\ is_timestamp_sync_ \in BOOLEAN /\ is_quit_ \in BOOLEAN
    /\ last_pub_time_ \in Nat \cup {None}
    /\ worker \in {"check", "locked", "wait", "process", "done"}
    /\ owner \in {"observing", "removed", "joining", "done"}
    /\ synced \in [Lidar -> BOOLEAN]
    /\ sent \in [Lidar -> Nat] /\ phase \in [Lidar -> Nat] /\ now \in Nat

\* With synchronised clocks frames are cut on time (pub_handler.cpp:186-200
\* tests the millisecond of one point of each packet): points that began to
\* gather at a multiple of the interval wait for less than an interval, and any
\* others for less than two.
FramesOnTime ==
    (\A l \in Lidar : synced[l]) =>
        \A l \in Lidar : points_clouds_[l] # <<>> =>
            LET base == GetLidarBaseTime(points_clouds_[l])
                gathered == GetRecentTimeStamp(points_clouds_[l]) - base
                starts == base % publish_interval_ <= TicksPerMs
            IN  gathered < (IF starts THEN 1 ELSE 2) * publish_interval_

\* Types, and the frames of synchronised lidars on time.
FramesSound == TypeOK /\ FramesOnTime

\* The packets not unpacked yet, oldest first.
Pending == (IF raw_data = None THEN <<>> ELSE <<raw_data>>) \o raw_packet_queue_

\* What a packet adds to the points of lidar l.
Points(l, packet) == IF packet.handle = l THEN PointCloudProcess(packet) ELSE <<>>

\* The points of l when the packets have been unpacked behind those there are.
Gathered(l, points, packets) ==
    LET gathered[i \in 0..Len(packets)] ==
            IF i = 0 THEN points ELSE gathered[i - 1] \o Points(l, packets[i])
    IN  gathered[Len(packets)]

\* The points of a lidar on their way to a frame, oldest first.
Waiting(l) == Gathered(l, points_clouds_[l], Pending)

\* Whatever the interleaving of SDK threads, clocks that differ between the
\* lidars and the flag that they share, every point is in one frame, in order.
Cutter == INSTANCE FrameCutter WITH stream <- [l \in Lidar |-> Waiting(l)], frame <- frame_
CutsFrames == Cutter!Spec

\* The lidars are alike.
Alike == Permutations(Lidar)
=============================================================================
