------------------------------ MODULE LivoxPoll ------------------------------
(***************************************************************************)
(* How livox_ros_driver2 hands frames to its publishers and how it shuts   *)
(* down.  Each stream (point clouds, IMU samples) has a queue per lidar,   *)
(* one semaphore, one producing thread (Lds::PushLidarData or              *)
(* StorageImuData) and one polling thread (Lddc::Distribute...Data called  *)
(* by DriverNode's poll threads).  DriverNode's destructor asks both       *)
(* pollers to leave and joins them.                                        *)
(*                                                                         *)
(* Queues are counts of frames: what the frames hold and how two threads   *)
(* share a queue is the business of Ldq.                                   *)
(***************************************************************************)
EXTENDS Integers, FiniteSets

CONSTANTS Streams,     \* the streams of this driver, a subset of AllStreams
          LidarCount,  \* lds_->lidar_count_; lidars are 0..LidarCount - 1
          Capacity,    \* frames a point-cloud queue holds
          ImuBound,    \* bound: an IMU list, unbounded in the code, is counted
                       \* up to here
          Burst,       \* bound: frames of a stream that arrive while its
                       \* poller is not waiting for one
          DrainsFrames \* the transfer format has a publisher in this build;
                       \* kPclPxyziMsg has none under ROS 2

AllStreams == {"pcd", "imu"}

ASSUME StreamsAssumption == Streams \subseteq AllStreams /\ Streams # {}
ASSUME LidarCountAssumption == LidarCount \in Nat
ASSUME CapacityAssumption == Capacity \in Nat \ {0}
ASSUME BoundsAssumption == ImuBound \in Nat \ {0} /\ Burst \in Nat \ {0}
ASSUME DrainsFramesAssumption == DrainsFrames \in BOOLEAN

Lidar == 0..(LidarCount - 1)

VARIABLES queue,          \* queue[s][l]: frames of stream s of lidar l
          sampling,       \* the lidars whose connect_state is Sampling
          count,          \* the semaphores' counts
          producer,       \* where the producing threads are
          source,         \* the lidar whose frame each of them is storing
          arrivals,       \* frames since the poller last got past its Wait
          poller,         \* where the polling threads are
          cursor,         \* the lidar each of them is at
          main,           \* where DriverNode's destructor is
          request_exit,   \* Lds::request_exit_
          exit_signal,    \* exit_signal_ has been set
          passedOver,     \* history: passedOver[s], the lidars the last scan
                          \* skipped and that have had no frame since
          wakes           \* history: Waits passed since request_exit

queues == <<queue, count, producer, source, arrivals>>
polling == <<poller, cursor, wakes>>
exiting == <<main, request_exit, exit_signal>>
vars == <<queues, sampling, polling, exiting, passedOver>>

Init ==
    /\ queue = [s \in Streams |-> [l \in Lidar |-> 0]]
    /\ sampling = {}
    /\ count = [s \in Streams |-> 0]
    /\ producer = [s \in Streams |-> "idle"]
    /\ source = [s \in Streams |-> 0]
    /\ arrivals = [s \in Streams |-> 0]
    /\ poller = [s \in Streams |-> "start"]
    /\ cursor = [s \in Streams |-> 0]
    /\ main = "running" /\ request_exit = FALSE /\ exit_signal = FALSE
    /\ passedOver = [s \in Streams |-> {}]
    /\ wakes = [s \in Streams |-> 0]

\* The last option of a lidar is acknowledged (see LivoxConfig).
BecomeSampling(l) ==
    /\ l \notin sampling
    /\ sampling' = sampling \cup {l}
    /\ UNCHANGED <<queues, polling, exiting, passedOver>>

-----------------------------------------------------------------------------
(* The producing threads.                                                   *)

\* A point-cloud ring refuses a frame when full; the IMU list takes any.
HasRoom(s, l) == s = "pcd" => queue[s][l] < Capacity

Stored(s, l) == IF s = "imu" /\ queue[s][l] = ImuBound THEN ImuBound ELSE queue[s][l] + 1

Arrive(s, l) ==
    /\ producer[s] = "idle"
    /\ poller[s] = "wait" \/ arrivals[s] < Burst
    /\ arrivals' = [arrivals EXCEPT ![s] = IF poller[s] = "wait" THEN @ ELSE @ + 1]
    /\ source' = [source EXCEPT ![s] = l]
    /\ UNCHANGED <<count, sampling, polling, exiting>>

\* Mutant: a dropped frame wakes nobody.
PushLidarDataSilentDrop(s, l) ==
    /\ Arrive(s, l)
    /\ IF HasRoom(s, l)
       THEN /\ queue' = [queue EXCEPT ![s][l] = Stored(s, l)]
            /\ passedOver' = [passedOver EXCEPT ![s] = @ \ {l}]
            /\ producer' = [producer EXCEPT ![s] = "pushed"]
       ELSE UNCHANGED <<queue, passedOver, producer>>

\* A frame of lidar l is stored, or dropped because its ring is full; a dropped
\* frame too goes on to the semaphore.
PushLidarData(s, l) ==
    /\ Arrive(s, l)
    /\ IF HasRoom(s, l)
       THEN /\ queue' = [queue EXCEPT ![s][l] = Stored(s, l)]
            /\ passedOver' = [passedOver EXCEPT ![s] = @ \ {l}]
            /\ producer' = [producer EXCEPT ![s] = "pushed"]
       ELSE /\ producer' = [producer EXCEPT ![s] = "count"]
            /\ UNCHANGED <<queue, passedOver>>

\* After a push: if the queue is not already empty again, look at the count.
CheckNotEmpty(s) ==
    /\ producer[s] = "pushed"
    /\ producer' = [producer EXCEPT
                      ![s] = IF queue[s][source[s]] > 0 THEN "count" ELSE "idle"]
    /\ UNCHANGED <<queue, count, source, arrivals, sampling, polling, exiting, passedOver>>

\* Mutant: the count is not looked at.
GetCountUnchecked(s) ==
    /\ producer[s] = "count"
    /\ producer' = [producer EXCEPT ![s] = "signal"]
    /\ UNCHANGED <<queue, count, source, arrivals, sampling, polling, exiting, passedOver>>

\* Mutant: the wake-up is skipped while the poller is busy.
GetCountIfIdle(s) ==
    /\ producer[s] = "count"
    /\ producer' = [producer EXCEPT
                      ![s] = IF count[s] <= 0 /\ poller[s] = "wait" THEN "signal" ELSE "idle"]
    /\ UNCHANGED <<queue, count, source, arrivals, sampling, polling, exiting, passedOver>>

\* The count is read outside the semaphore's mutex.
GetCount(s) ==
    /\ producer[s] = "count"
    /\ producer' = [producer EXCEPT ![s] = IF count[s] <= 0 THEN "signal" ELSE "idle"]
    /\ UNCHANGED <<queue, count, source, arrivals, sampling, polling, exiting, passedOver>>

Signal(s) ==
    /\ producer[s] = "signal"
    /\ count' = [count EXCEPT ![s] = @ + 1]
    /\ producer' = [producer EXCEPT ![s] = "idle"]
    /\ UNCHANGED <<queue, source, arrivals, sampling, polling, exiting, passedOver>>

-----------------------------------------------------------------------------
(* The polling threads.                                                     *)

MovePoller(s, to) == poller' = [poller EXCEPT ![s] = to]

\* The threads sleep for three seconds first.
StartPolling(s) ==
    /\ poller[s] = "start"
    /\ MovePoller(s, "distribute")
    /\ UNCHANGED <<queues, cursor, wakes, sampling, exiting, passedOver>>

\* Mutant: Distribute...Data does not look at the exit request.
DistributeRegardless(s) ==
    /\ poller[s] = "distribute"
    /\ MovePoller(s, "wait")
    /\ UNCHANGED <<queues, cursor, wakes, sampling, exiting, passedOver>>

\* Distribute...Data returns at once when exit is requested.
Distribute(s) ==
    /\ poller[s] = "distribute"
    /\ MovePoller(s, IF request_exit THEN "check_exit" ELSE "wait")
    /\ UNCHANGED <<queues, cursor, wakes, sampling, exiting, passedOver>>

Wait(s) ==
    /\ poller[s] = "wait"
    /\ count[s] > 0
    /\ count' = [count EXCEPT ![s] = @ - 1]
    /\ arrivals' = [arrivals EXCEPT ![s] = 0]
    /\ cursor' = [cursor EXCEPT ![s] = 0]
    /\ MovePoller(s, "scan")
    /\ wakes' = [wakes EXCEPT ![s] = IF request_exit THEN @ + 1 ELSE @]
    /\ UNCHANGED <<queue, producer, source, sampling, exiting, passedOver>>

\* Mutant: the loop runs one lidar too far.
VisitLidarOffByOne(s) ==
    /\ poller[s] = "scan"
    /\ cursor[s] <= LidarCount
    /\ IF cursor[s] \in sampling
       THEN /\ MovePoller(s, "poll")
            /\ UNCHANGED <<cursor, passedOver>>
       ELSE /\ cursor' = [cursor EXCEPT ![s] = @ + 1]
            /\ passedOver' = [passedOver EXCEPT ![s] = @ \cup {cursor[s]}]
            /\ UNCHANGED poller
    /\ UNCHANGED <<queues, wakes, sampling, exiting>>

\* Mutant: the loop ends at the first lidar that is not sampling.
VisitLidarStops(s) ==
    /\ poller[s] = "scan"
    /\ cursor[s] < LidarCount
    /\ MovePoller(s, IF cursor[s] \in sampling THEN "poll" ELSE "check_exit")
    /\ UNCHANGED <<queues, cursor, passedOver, wakes, sampling, exiting>>

\* The for loop over the lidars: a lidar not sampling is passed over.
VisitLidar(s) ==
    /\ poller[s] = "scan"
    /\ cursor[s] < LidarCount
    /\ IF cursor[s] \in sampling
       THEN /\ MovePoller(s, "poll")
            /\ UNCHANGED <<cursor, passedOver>>
       ELSE /\ cursor' = [cursor EXCEPT ![s] = @ + 1]
            /\ passedOver' = [passedOver EXCEPT ![s] = @ \cup {cursor[s]}]
            /\ UNCHANGED poller
    /\ UNCHANGED <<queues, wakes, sampling, exiting>>

EndScan(s) ==
    /\ poller[s] = "scan"
    /\ cursor[s] = LidarCount
    /\ MovePoller(s, "check_exit")
    /\ UNCHANGED <<queues, cursor, wakes, sampling, exiting, passedOver>>

\* PollingLidar...Data: while not exiting and the queue holds something.  A
\* format without a publisher returns to this loop with the queue as it was.
EnterPublish(s) ==
    /\ poller[s] = "poll"
    /\ ~request_exit /\ queue[s][cursor[s]] > 0
    /\ s = "imu" \/ DrainsFrames
    /\ MovePoller(s, "publish")
    /\ UNCHANGED <<queues, cursor, wakes, sampling, exiting, passedOver>>

\* Mutant: one visit publishes one frame.
LeaveLidarEarly(s) ==
    /\ poller[s] = "poll"
    /\ MovePoller(s, "scan")
    /\ cursor' = [cursor EXCEPT ![s] = @ + 1]
    /\ passedOver' = [passedOver EXCEPT ![s] = @ \ {cursor[s]}]
    /\ UNCHANGED <<queues, wakes, sampling, exiting>>

\* Mutant: the loop does not look at the exit request.
LeaveLidarDeaf(s) ==
    /\ poller[s] = "poll"
    /\ queue[s][cursor[s]] = 0
    /\ MovePoller(s, "scan")
    /\ cursor' = [cursor EXCEPT ![s] = @ + 1]
    /\ passedOver' = [passedOver EXCEPT ![s] = @ \ {cursor[s]}]
    /\ UNCHANGED <<queues, wakes, sampling, exiting>>

LeaveLidar(s) ==
    /\ poller[s] = "poll"
    /\ request_exit \/ queue[s][cursor[s]] = 0
    /\ MovePoller(s, "scan")
    /\ cursor' = [cursor EXCEPT ![s] = @ + 1]
    /\ passedOver' = [passedOver EXCEPT ![s] = @ \ {cursor[s]}]
    /\ UNCHANGED <<queues, wakes, sampling, exiting>>

\* One frame is popped and published.  The point-cloud publishers pop until
\* the ring is empty, whatever the exit request; the IMU publisher pops once.
Publish(s) ==
    /\ poller[s] = "publish"
    /\ queue[s][cursor[s]] > 0
    /\ queue' = [queue EXCEPT ![s][cursor[s]] = @ - 1]
    /\ MovePoller(s, IF s = "imu" THEN "poll" ELSE "publish")
    /\ UNCHANGED <<count, producer, source, arrivals, cursor, wakes, sampling, exiting, passedOver>>

RingDrained(s) ==
    /\ poller[s] = "publish"
    /\ queue[s][cursor[s]] = 0
    /\ MovePoller(s, "poll")
    /\ UNCHANGED <<queues, cursor, wakes, sampling, exiting, passedOver>>

\* future_.wait_for(0) answers ready once the destructor set the promise.
CheckExit(s) ==
    /\ poller[s] = "check_exit"
    /\ MovePoller(s, IF exit_signal THEN "done" ELSE "distribute")
    /\ UNCHANGED <<queues, cursor, wakes, sampling, exiting, passedOver>>

-----------------------------------------------------------------------------
(* The destructor of DriverNode.                                            *)

RequestExit ==
    /\ main = "running"
    /\ request_exit' = TRUE
    /\ main' = "requested"
    /\ UNCHANGED <<queues, polling, exit_signal, sampling, passedOver>>

SetExitSignal ==
    /\ main = "requested"
    /\ exit_signal' = TRUE
    /\ main' = "join_pcd"
    /\ UNCHANGED <<queues, polling, request_exit, sampling, passedOver>>

\* A stream this instance leaves out counts as joined.
Joinable(s) == s \in Streams => poller[s] = "done"

JoinPointCloudPoller ==
    /\ main = "join_pcd" /\ Joinable("pcd")
    /\ main' = "join_imu"
    /\ UNCHANGED <<queues, polling, request_exit, exit_signal, sampling, passedOver>>

JoinImuPoller ==
    /\ main = "join_imu" /\ Joinable("imu")
    /\ main' = "destroyed"
    /\ UNCHANGED <<queues, polling, request_exit, exit_signal, sampling, passedOver>>

-----------------------------------------------------------------------------
StoreFrame(s) == CheckNotEmpty(s) \/ GetCount(s) \/ Signal(s)

Poll(s) == \/ StartPolling(s) \/ Distribute(s) \/ Wait(s)
           \/ VisitLidar(s) \/ EndScan(s)
           \/ EnterPublish(s) \/ LeaveLidar(s) \/ Publish(s) \/ RingDrained(s)
           \/ CheckExit(s)

Shutdown == SetExitSignal \/ JoinPointCloudPoller \/ JoinImuPoller

Next == \/ \E s \in Streams, l \in Lidar : PushLidarData(s, l)
        \/ \E s \in Streams : StoreFrame(s) \/ Poll(s)
        \/ \E l \in Lidar : BecomeSampling(l)
        \/ RequestExit \/ Shutdown

Spec == Init /\ [][Next]_vars

\* Every thread that can run does; a lidar may stop sending, and the node need
\* not be shut down.
FairSpec == /\ Spec
            /\ \A s \in Streams : WF_vars(StoreFrame(s)) /\ WF_vars(Poll(s))
            /\ WF_vars(Shutdown)

\* Some lidar keeps sending each stream, as a lidar in working mode does until
\* its SDK is shut down, after the pollers are joined.
Streaming == \A s \in Streams : WF_vars(\E l \in Lidar : PushLidarData(s, l))

-----------------------------------------------------------------------------
TypeOK ==
    /\ queue \in [Streams -> [Lidar -> Nat]]
    /\ sampling \in SUBSET Lidar
    /\ count \in [Streams -> Nat]
    /\ producer \in [Streams -> {"idle", "pushed", "count", "signal"}]
    /\ source \in [Streams -> Lidar \cup {0}]
    /\ arrivals \in [Streams -> 0..Burst]
    /\ poller \in [Streams -> {"start", "distribute", "wait", "scan", "poll", "publish",
                               "check_exit", "done"}]
    /\ cursor \in [Streams -> 0..LidarCount]
    /\ main \in {"running", "requested", "join_pcd", "join_imu", "destroyed"}
    /\ request_exit \in BOOLEAN /\ exit_signal \in BOOLEAN
    /\ passedOver \in [Streams -> SUBSET Lidar]
    /\ wakes \in [Streams -> Nat]

\* No lost wake-up: when a poller sleeps on an empty semaphore and its producer
\* is not about to raise it, every queue is empty, but for a lidar that was not
\* sampling when it was last passed and has had no frame since.  The count is
\* read outside the mutex (lds.cpp:203), and this is why that does no harm.
NoLostWakeup ==
    \A s \in Streams :
        poller[s] = "wait" /\ count[s] = 0 /\ producer[s] = "idle" /\ ~request_exit =>
            \A l \in Lidar : queue[s][l] > 0 => l \in passedOver[s]

\* Wake-ups do not pile up: however many frames arrive, at most one Wait is
\* owed to them, although GetCount and Signal are separate steps (lds.cpp:203).
AtMostOneWakeup ==
    \A s \in Streams : count[s] + (IF producer[s] = "signal" THEN 1 ELSE 0) <= 1

\* Once exit is requested a poller gets past Wait at most once more, so the
\* joins of ~DriverNode need at most one more frame of each stream.
OneWakeAfterExit == \A s \in Streams : wakes[s] <= 1

\* While lidars send, every frame of a sampling lidar is published or dropped
\* with the driver: its queue is empty again some time, also when its frames
\* came in before it was sampling and other lidars keep the poller busy.
EveryFrameLeaves ==
    Streaming =>
        \A s \in Streams, l \in Lidar :
            queue[s][l] > 0 /\ l \in sampling ~> queue[s][l] = 0 \/ request_exit

\* A frame stored while its lidar is sampling does not wait for another frame.
FreshFrameLeaves ==
    \A s \in Streams, l \in Lidar :
        (queue[s][l] > 0 /\ l \in sampling /\ l \notin passedOver[s])
            ~> (queue[s][l] = 0 \/ request_exit)

\* Frames leave, fresh ones on their own.
FramesLeave == FreshFrameLeaves /\ EveryFrameLeaves

\* While lidars send, the destructor of DriverNode returns.
ShutdownCompletes == Streaming => (request_exit ~> main = "destroyed")
=============================================================================
