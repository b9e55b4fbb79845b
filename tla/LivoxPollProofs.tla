--------------------------- MODULE LivoxPollProofs ---------------------------
(***************************************************************************)
(* The wake-ups of LivoxPoll for any number of lidars and any capacity: no *)
(* frame is left behind by a sleeping poller, wake-ups do not pile up, and *)
(* a poller needs at most one more wake-up once exit is requested.         *)
(***************************************************************************)
EXTENDS LivoxPoll, TLAPS

\* A poller inside PollingLidar...Data stands on a lidar.
Visiting == \A s \in Streams : poller[s] \in {"poll", "publish"} => cursor[s] \in Lidar

\* Wake-ups signalled or about to be.
Wakeups == \A s \in Streams :
              /\ count[s] = 0 \/ count[s] = 1
              /\ producer[s] = "signal" => count[s] = 0

\* Somebody will look at the queue of lidar l: a wake-up is due, or about to be
\* raised, or the scan under way has not passed l yet.
Attended(s, l) == \/ count[s] > 0
                  \/ producer[s] \in {"count", "signal"}
                  \/ producer[s] = "pushed" /\ source[s] = l
                  \/ poller[s] \in {"scan", "poll", "publish"} /\ cursor[s] <= l

Attention == \A s \in Streams, l \in Lidar :
                queue[s][l] > 0 /\ l \notin passedOver[s] /\ ~request_exit => Attended(s, l)

\* A poller that waits has not been woken since exit was requested.
Leaving == \A s \in Streams :
              /\ wakes[s] <= 1
              /\ ~request_exit \/ poller[s] = "wait" => wakes[s] = 0

PollInv == TypeOK /\ Visiting /\ Wakeups /\ Attention /\ Leaving

LEMMA InitialPoll == Init => PollInv
<1> SUFFICES ASSUME Init PROVE PollInv
  OBVIOUS
<1> USE DEF Init
<1>1. TypeOK
  <2>1. queue \in [Streams -> [Lidar -> Nat]] /\ passedOver \in [Streams -> SUBSET Lidar]
    OBVIOUS
  <2>2. cursor \in [Streams -> 0..LidarCount] /\ arrivals \in [Streams -> 0..Burst]
    BY LidarCountAssumption, BoundsAssumption
  <2> QED BY <2>1, <2>2 DEF TypeOK
<1>2. Visiting /\ Wakeups /\ Leaving
  BY DEF Visiting, Wakeups, Leaving
<1>3. Attention
  BY DEF Attention
<1> QED
  BY <1>1, <1>2, <1>3 DEF PollInv

LEMMA BecomeSamplingKeeps ==
    ASSUME PollInv, NEW l \in Lidar, BecomeSampling(l)
    PROVE  PollInv'
<1> USE DEF BecomeSampling, queues, polling, exiting
<1>1. TypeOK' /\ Visiting' /\ Wakeups' /\ Leaving'
  BY DEF PollInv, TypeOK, Visiting, Wakeups, Leaving
<1>2. Attention'
  BY DEF PollInv, Attention, Attended
<1> QED
  BY <1>1, <1>2 DEF PollInv

LEMMA PushLidarDataKeeps ==
    ASSUME PollInv, NEW s \in Streams, NEW l \in Lidar, PushLidarData(s, l)
    PROVE  PollInv'
<1> USE DEF PushLidarData, Arrive, polling, exiting
<1>1. TypeOK'
  <2>1. queue[s] \in [Lidar -> Nat] /\ Stored(s, l) \in Nat
    BY BoundsAssumption DEF PollInv, TypeOK, Stored
  <2>2. queue' \in [Streams -> [Lidar -> Nat]]
    <3> DEFINE stored == [queue[s] EXCEPT ![l] = Stored(s, l)]
    <3>1. queue \in [Streams -> [Lidar -> Nat]]
      BY DEF PollInv, TypeOK
    <3>2. stored \in [Lidar -> Nat]
      BY <2>1
    <3>3. queue' = [queue EXCEPT ![s] = stored] \/ queue' = queue
      OBVIOUS
    <3> HIDE DEF stored
    <3> QED BY <3>1, <3>2, <3>3
  <2>3. arrivals' \in [Streams -> 0..Burst]
    BY BoundsAssumption DEF PollInv, TypeOK
  <2>4. producer' \in [Streams -> {"idle", "pushed", "count", "signal"}]
    <3>1. CASE HasRoom(s, l)
      BY <3>1 DEF PollInv, TypeOK
    <3>2. CASE ~HasRoom(s, l)
      BY <3>2 DEF PollInv, TypeOK
    <3> QED BY <3>1, <3>2
  <2>5. source' \in [Streams -> Lidar \cup {0}]
    BY DEF PollInv, TypeOK
  <2>6. passedOver' \in [Streams -> SUBSET Lidar]
    BY DEF PollInv, TypeOK
  <2> QED BY <2>2, <2>3, <2>4, <2>5, <2>6 DEF PollInv, TypeOK
<1>2. Visiting' /\ Leaving'
  BY DEF PollInv, Visiting, Leaving
<1>3. Wakeups'
  BY DEF PollInv, TypeOK, Wakeups
<1>4. Attention'
  <2> SUFFICES ASSUME NEW t \in Streams, NEW k \in Lidar,
                      queue'[t][k] > 0, k \notin passedOver'[t], ~request_exit'
               PROVE  Attended(t, k)'
    BY DEF Attention
  <2>1. CASE t = s /\ producer'[s] = "count"
    BY <2>1 DEF Attended
  <2>2. CASE t = s /\ producer'[s] = "pushed" /\ k = l
    BY <2>2 DEF PollInv, TypeOK, Attended
  <2>3. CASE t # s \/ k # l
    <3>1. queue'[t][k] = queue[t][k] /\ (k \in passedOver'[t] <=> k \in passedOver[t])
      BY <2>3 DEF PollInv, TypeOK
    <3>2. Attended(t, k)
      BY <3>1 DEF PollInv, Attention
    <3>3. CASE t # s
      BY <3>2, <3>3 DEF PollInv, TypeOK, Attended
    <3>4. CASE t = s
      BY <3>2, <3>4 DEF PollInv, TypeOK, Attended
    <3> QED BY <3>3, <3>4
  <2> QED BY <2>1, <2>2, <2>3 DEF PollInv, TypeOK
<1> QED
  BY <1>1, <1>2, <1>3, <1>4 DEF PollInv

LEMMA StoreFrameKeeps ==
    ASSUME PollInv, NEW s \in Streams, StoreFrame(s)
    PROVE  PollInv'
<1> USE DEF StoreFrame, CheckNotEmpty, GetCount, Signal, polling, exiting
<1>1. TypeOK'
  <2>1. count' \in [Streams -> Nat]
    BY DEF PollInv, TypeOK
  <2>2. producer' \in [Streams -> {"idle", "pushed", "count", "signal"}]
    <3>1. \E p \in {"idle", "count", "signal"} : producer' = [producer EXCEPT ![s] = p]
      OBVIOUS
    <3> QED BY <3>1 DEF PollInv, TypeOK
  <2> QED BY <2>1, <2>2 DEF PollInv, TypeOK
<1>2. Visiting' /\ Leaving'
  BY DEF PollInv, Visiting, Leaving
<1>3. Wakeups'
  BY DEF PollInv, TypeOK, Wakeups
<1>4. Attention'
  <2> SUFFICES ASSUME NEW t \in Streams, NEW k \in Lidar,
                      queue'[t][k] > 0, k \notin passedOver'[t], ~request_exit'
               PROVE  Attended(t, k)'
    BY DEF Attention
  <2>1. queue' = queue /\ passedOver' = passedOver /\ request_exit' = request_exit
    OBVIOUS
  <2>2. Attended(t, k) /\ queue[t][k] > 0
    BY <2>1 DEF PollInv, Attention
  <2>3. CASE t # s
    BY <2>2, <2>3 DEF PollInv, TypeOK, Attended
  <2>4. CASE t = s /\ CheckNotEmpty(s)
    BY <2>2, <2>4 DEF PollInv, TypeOK, Attended
  <2>5. CASE t = s /\ GetCount(s)
    BY <2>2, <2>5 DEF PollInv, TypeOK, Attended
  <2>6. CASE t = s /\ Signal(s)
    BY <2>2, <2>6 DEF PollInv, TypeOK, Attended
  <2> QED BY <2>3, <2>4, <2>5, <2>6
<1> QED
  BY <1>1, <1>2, <1>3, <1>4 DEF PollInv

\* A step of a poller that leaves queues, semaphores and producers alone.
LEMMA PollerOnlyKeeps ==
    ASSUME PollInv, NEW s \in Streams,
           UNCHANGED <<queues, wakes, sampling, exiting, passedOver>>,
           NEW place \in {"distribute", "wait", "check_exit", "poll", "publish", "done"},
           MovePoller(s, place),
           cursor' = cursor,
           place \in {"poll", "publish"} => cursor[s] \in Lidar,
           poller[s] \in {"scan", "poll", "publish"} =>
               place \in {"poll", "publish"} \/ cursor[s] = LidarCount,
           place = "wait" => ~request_exit
    PROVE  PollInv'
<1> USE DEF queues, exiting, MovePoller
<1>1. TypeOK'
  BY DEF PollInv, TypeOK
<1>2. Visiting' /\ Leaving'
  BY DEF PollInv, TypeOK, Visiting, Leaving
<1>3. Wakeups'
  BY DEF PollInv, Wakeups
<1>4. Attention'
  <2> SUFFICES ASSUME NEW t \in Streams, NEW k \in Lidar,
                      queue[t][k] > 0, k \notin passedOver[t], ~request_exit
               PROVE  Attended(t, k)'
    BY DEF Attention
  <2>1. Attended(t, k) /\ ~(LidarCount <= k)
    BY LidarCountAssumption DEF PollInv, Attention, Lidar
  <2>2. CASE t # s
    BY <2>1, <2>2 DEF PollInv, TypeOK, Attended
  <2>3. CASE t = s
    BY <2>1, <2>3 DEF PollInv, TypeOK, Attended
  <2> QED BY <2>2, <2>3
<1> QED
  BY <1>1, <1>2, <1>3, <1>4 DEF PollInv

LEMMA WaitKeeps ==
    ASSUME PollInv, NEW s \in Streams, Wait(s)
    PROVE  PollInv'
<1> USE DEF Wait, exiting, MovePoller
<1>1. count[s] = 1 /\ producer[s] # "signal" /\ wakes[s] = 0
  BY DEF PollInv, TypeOK, Wakeups, Leaving
<1>2. TypeOK'
  <2>1. count' \in [Streams -> Nat] /\ wakes' \in [Streams -> Nat]
    BY <1>1 DEF PollInv, TypeOK
  <2>2. arrivals' \in [Streams -> 0..Burst] /\ cursor' \in [Streams -> 0..LidarCount]
    BY BoundsAssumption, LidarCountAssumption DEF PollInv, TypeOK
  <2> QED BY <2>1, <2>2 DEF PollInv, TypeOK
<1>3. Visiting' /\ Leaving' /\ Wakeups'
  BY <1>1 DEF PollInv, TypeOK, Visiting, Leaving, Wakeups
<1>4. Attention'
  <2> SUFFICES ASSUME NEW t \in Streams, NEW k \in Lidar,
                      queue[t][k] > 0, k \notin passedOver[t], ~request_exit
               PROVE  Attended(t, k)'
    BY DEF Attention
  <2>1. Attended(t, k) /\ 0 <= k
    BY LidarCountAssumption DEF PollInv, Attention, Lidar
  <2>2. CASE t # s
    BY <2>1, <2>2 DEF PollInv, TypeOK, Attended
  <2>3. CASE t = s
    BY <2>1, <2>3 DEF PollInv, TypeOK, Attended
  <2> QED BY <2>2, <2>3
<1> QED
  BY <1>2, <1>3, <1>4 DEF PollInv

\* Going on to the next lidar is safe when nothing of this one is left to see.
LEMMA NextLidarKeeps ==
    ASSUME PollInv, NEW s \in Streams,
           UNCHANGED <<queues, wakes, sampling, exiting>>,
           cursor[s] \in Lidar,
           poller' = [poller EXCEPT ![s] = "scan"],
           cursor' = [cursor EXCEPT ![s] = @ + 1],
           NEW over \in SUBSET Lidar,
           passedOver' = [passedOver EXCEPT ![s] = over],
           passedOver[s] \ {cursor[s]} \subseteq over,
           queue[s][cursor[s]] = 0 \/ request_exit \/ cursor[s] \in over
    PROVE  PollInv'
<1> USE DEF queues, exiting
<1>1. TypeOK'
  <2>1. cursor' \in [Streams -> 0..LidarCount]
    BY LidarCountAssumption DEF PollInv, TypeOK, Lidar
  <2> QED BY <2>1 DEF PollInv, TypeOK
<1>2. Visiting' /\ Leaving' /\ Wakeups'
  BY DEF PollInv, TypeOK, Visiting, Leaving, Wakeups
<1>3. Attention'
  <2> SUFFICES ASSUME NEW t \in Streams, NEW k \in Lidar,
                      queue[t][k] > 0, k \notin passedOver'[t], ~request_exit
               PROVE  Attended(t, k)'
    BY DEF Attention
  <2>1. CASE t # s
    <3>1. Attended(t, k)
      BY <2>1 DEF PollInv, TypeOK, Attention
    <3> QED BY <2>1, <3>1 DEF PollInv, TypeOK, Attended
  <2>2. CASE t = s
    <3>1. k # cursor[s] /\ k \notin passedOver[s]
      BY <2>2 DEF PollInv, TypeOK
    <3>2. Attended(s, k) /\ k \in Int /\ cursor[s] \in Int
      BY <2>2, <3>1 DEF PollInv, Attention, Lidar
    <3>3. cursor'[s] = cursor[s] + 1 /\ poller'[s] = "scan"
      BY DEF PollInv, TypeOK
    <3>4. cursor[s] <= k => cursor'[s] <= k
      BY <3>1, <3>2, <3>3
    <3>5. Attended(s, k)'
      <4> HIDE DEF exiting
      <4> QED BY <3>2, <3>3, <3>4 DEF Attended
    <3> QED BY <2>2, <3>5
  <2> QED BY <2>1, <2>2
<1> QED
  BY <1>1, <1>2, <1>3 DEF PollInv

LEMMA PublishKeeps ==
    ASSUME PollInv, NEW s \in Streams, Publish(s)
    PROVE  PollInv'
<1> USE DEF Publish, exiting, MovePoller
<1> DEFINE at == cursor[s]
<1>1. at \in Lidar /\ queue[s] \in [Lidar -> Nat] /\ queue[s][at] > 0
  BY DEF PollInv, Visiting, TypeOK
<1>2. TypeOK'
  <2> DEFINE left == [queue[s] EXCEPT ![at] = @ - 1]
  <2>1. queue \in [Streams -> [Lidar -> Nat]]
    BY DEF PollInv, TypeOK
  <2>2. left \in [Lidar -> Nat]
    BY <1>1
  <2>3. queue' = [queue EXCEPT ![s] = left]
    OBVIOUS
  <2> HIDE DEF left
  <2>4. queue' \in [Streams -> [Lidar -> Nat]]
    BY <2>1, <2>2, <2>3
  <2> QED BY <2>4 DEF PollInv, TypeOK
<1>3. Visiting' /\ Leaving' /\ Wakeups'
  BY <1>1 DEF PollInv, TypeOK, Visiting, Leaving, Wakeups
<1>4. Attention'
  <2> SUFFICES ASSUME NEW t \in Streams, NEW k \in Lidar,
                      queue'[t][k] > 0, k \notin passedOver[t], ~request_exit
               PROVE  Attended(t, k)'
    BY DEF Attention
  <2>1. queue[t][k] > 0
    BY <1>1 DEF PollInv, TypeOK
  <2>2. Attended(t, k)
    BY <2>1 DEF PollInv, Attention
  <2>3. CASE t # s
    BY <2>2, <2>3 DEF PollInv, TypeOK, Attended
  <2>4. CASE t = s
    BY <2>2, <2>4 DEF PollInv, TypeOK, Attended
  <2> QED BY <2>3, <2>4
<1> QED
  BY <1>2, <1>3, <1>4 DEF PollInv

LEMMA PollKeeps ==
    ASSUME PollInv, NEW s \in Streams, Poll(s)
    PROVE  PollInv'
<1> USE DEF MovePoller
<1>1. CASE StartPolling(s) \/ Distribute(s) \/ CheckExit(s)
  BY <1>1, PollerOnlyKeeps DEF StartPolling, Distribute, CheckExit
<1>2. CASE EndScan(s)
  BY <1>2, PollerOnlyKeeps DEF EndScan
<1>3. CASE EnterPublish(s) \/ RingDrained(s)
  BY <1>3, PollerOnlyKeeps DEF EnterPublish, RingDrained, PollInv, Visiting
<1>4. CASE Wait(s)
  BY <1>4, WaitKeeps
<1>5. CASE VisitLidar(s)
  <2> USE DEF VisitLidar
  <2>1. cursor[s] \in Lidar /\ passedOver[s] \in SUBSET Lidar
    BY <1>5, LidarCountAssumption DEF PollInv, TypeOK, Lidar
  <2>2. CASE cursor[s] \in sampling
    BY <1>5, <2>1, <2>2, PollerOnlyKeeps
  <2>3. CASE cursor[s] \notin sampling
    <3>1. poller' = [poller EXCEPT ![s] = "scan"]
      BY <1>5, <2>3 DEF PollInv, TypeOK
    <3>2. passedOver[s] \cup {cursor[s]} \in SUBSET Lidar
      BY <2>1
    <3> QED BY <1>5, <2>1, <2>3, <3>1, <3>2, NextLidarKeeps
  <2> QED BY <2>2, <2>3
<1>6. CASE LeaveLidar(s)
  <2>1. cursor[s] \in Lidar /\ passedOver[s] \ {cursor[s]} \in SUBSET Lidar
    BY <1>6 DEF PollInv, TypeOK, Visiting, LeaveLidar
  <2> QED BY <1>6, <2>1, NextLidarKeeps DEF LeaveLidar
<1>7. CASE Publish(s)
  BY <1>7, PublishKeeps
<1> QED
  BY <1>1, <1>2, <1>3, <1>4, <1>5, <1>6, <1>7 DEF Poll

\* Exiting starts no wait and stores no frame.
LEMMA ExitKeeps ==
    ASSUME PollInv, RequestExit \/ Shutdown
    PROVE  PollInv'
<1> USE DEF RequestExit, Shutdown, SetExitSignal, JoinPointCloudPoller, JoinImuPoller,
            queues, polling
<1>1. TypeOK'
  BY DEF PollInv, TypeOK
<1>2. Visiting' /\ Wakeups' /\ Leaving'
  BY DEF PollInv, TypeOK, Visiting, Wakeups, Leaving
<1>3. Attention'
  BY DEF PollInv, Attention, Attended
<1> QED
  BY <1>1, <1>2, <1>3 DEF PollInv

LEMMA PollInvariance == Spec => []PollInv
<1>1. PollInv /\ [Next]_vars => PollInv'
  <2> SUFFICES ASSUME PollInv, [Next]_vars PROVE PollInv'
    OBVIOUS
  <2>1. ASSUME NEW s \in Streams, NEW l \in Lidar, PushLidarData(s, l) PROVE PollInv'
    BY <2>1, PushLidarDataKeeps
  <2>2. ASSUME NEW s \in Streams, StoreFrame(s) PROVE PollInv'
    BY <2>2, StoreFrameKeeps
  <2>3. ASSUME NEW s \in Streams, Poll(s) PROVE PollInv'
    BY <2>3, PollKeeps
  <2>4. ASSUME NEW l \in Lidar, BecomeSampling(l) PROVE PollInv'
    BY <2>4, BecomeSamplingKeeps
  <2>5. CASE RequestExit \/ Shutdown
    BY <2>5, ExitKeeps
  <2>6. CASE UNCHANGED vars
    BY <2>6 DEF vars, queues, polling, exiting, PollInv, TypeOK, Visiting, Wakeups,
                Attention, Attended, Leaving
  <2> QED BY <2>1, <2>2, <2>3, <2>4, <2>5, <2>6 DEF Next
<1> QED
  BY InitialPoll, <1>1, PTL DEF Spec

\* The variables keep their types for any number of lidars.
THEOREM PollTypeCorrect == Spec => []TypeOK
<1>1. PollInv => TypeOK
  BY DEF PollInv
<1> QED
  BY <1>1, PollInvariance, PTL

\* For any number of lidars and any capacity, no poller sleeps while a frame
\* that nobody will signal waits for it (lds.cpp:200-211, lddc.cpp:83-92).
THEOREM WakeupsNotLost == Spec => []NoLostWakeup
<1>1. PollInv => NoLostWakeup
  BY SMTT(40) DEF PollInv, TypeOK, NoLostWakeup, Attention, Attended
<1> QED
  BY <1>1, PollInvariance, PTL

\* The unlocked test of the semaphore's count never lets wake-ups pile up.
THEOREM WakeupsBounded == Spec => []AtMostOneWakeup
<1>1. PollInv => AtMostOneWakeup
  BY DEF PollInv, TypeOK, Wakeups, AtMostOneWakeup
<1> QED
  BY <1>1, PollInvariance, PTL

\* A poller passes Wait at most once after exit is requested.
THEOREM LeavesAfterOneWake == Spec => []OneWakeAfterExit
<1>1. PollInv => OneWakeAfterExit
  BY DEF PollInv, Leaving, OneWakeAfterExit
<1> QED
  BY <1>1, PollInvariance, PTL
=============================================================================
