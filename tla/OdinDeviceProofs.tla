--------------------------- MODULE OdinDeviceProofs ---------------------------
(***************************************************************************)
(* What the threads of the odin driver share about the device is consistent *)
(* for any number of device handles, any limit of the IMU queue and any     *)
(* number of samples: types, one transfer of a map at a time, and a handle  *)
(* the SDK has not destroyed.                                               *)
(***************************************************************************)
EXTENDS OdinDevice, SequenceTheorems, FiniteSetTheorems, TLAPS

\* The handle is destroyed only on the way to being forgotten, which
\* KeptHandleLive, a statement about the callback at rest, does not say.
HandleLive ==
    device_cb \notin {"destroy", "clear"} /\ odinDevice # None =>
        handles[odinDevice] \in {"created", "open"}

DeviceInv == TypeOK /\ AtMostOneTransfer /\ HandleLive

LEMMA InitialDevice == Init => DeviceInv
<1> SUFFICES ASSUME Init PROVE DeviceInv
  OBVIOUS
<1>1. 0 \in 0..MaxSamples /\ Len(<<>>) <= QueueLimit /\ QueueLimit \in Nat
  BY LimitAssumption, BoundsAssumption
<1>2. TypeOK
  <2>1. /\ imu_queue \in Seq(1..MaxSamples) /\ Len(imu_queue) <= QueueLimit
        /\ savers \in Seq(DeviceHandle \cup {0, None})
    BY <1>1 DEF Init
  <2>2. /\ {monitor, in_progress, plugged, deviceConnected} \subseteq BOOLEAN
        /\ {deviceDisconnected, imu_running, missed} \subseteq BOOLEAN
        /\ {monitor_running, ros_object, shutdown} \subseteq BOOLEAN
    BY Zenon DEF Init
  <2>3. handles \in [DeviceHandle -> {"free", "created", "open", "closed", "destroyed"}]
    BY DEF Init
  <2>4. /\ data_cb \in 0..MaxSamples /\ arrived \in 0..MaxSamples /\ before \in 0..MaxSamples
        /\ imu_sample \in 0..MaxSamples /\ published \in 0..MaxSamples
    BY <1>1 DEF Init
  <2>5. /\ odinDevice = None /\ imu_mutex = None
        /\ main = "wait" /\ device_cb = "idle" /\ imu = "none"
    BY DEF Init
  <2> QED BY <2>1, <2>2, <2>3, <2>4, <2>5, Zenon DEF TypeOK
<1>3. AtMostOneTransfer /\ HandleLive
  BY DEF Init, AtMostOneTransfer, HandleLive
<1> QED BY <1>2, <1>3 DEF DeviceInv

\* Where a device is, marking its handle keeps the handles' type.
LEMMA MarkedTyped ==
    ASSUME TypeOK, NEW s \in {"open", "closed", "destroyed"}
    PROVE  /\ Marked(s) \in [DeviceHandle -> {"free", "created", "open", "closed", "destroyed"}]
           /\ odinDevice # None => Marked(s)[odinDevice] = s
BY DEF Marked, TypeOK

LEMMA QueuedTyped ==
    ASSUME TypeOK, data_cb # 0
    PROVE  QueuedImu \in Seq(1..MaxSamples) /\ Len(QueuedImu) <= QueueLimit
<1>1. QueueLimit \in Nat /\ QueueLimit > 0 /\ data_cb \in 1..MaxSamples
  BY LimitAssumption, BoundsAssumption DEF TypeOK
<1>2. imu_queue \in Seq(1..MaxSamples) /\ Len(imu_queue) \in Nat /\ Len(imu_queue) <= QueueLimit
  BY LenProperties DEF TypeOK
<1> DEFINE kept == IF Len(imu_queue) >= QueueLimit THEN Tail(imu_queue) ELSE imu_queue
<1>3. kept \in Seq(1..MaxSamples) /\ Len(kept) \in Nat /\ Len(kept) + 1 <= QueueLimit
  <2>1. CASE Len(imu_queue) >= QueueLimit
    <3>1. imu_queue # <<>>
      BY <1>1, <2>1, <1>2
    <3> QED BY <1>1, <1>2, <2>1, <3>1, HeadTailProperties
  <2>2. CASE ~(Len(imu_queue) >= QueueLimit)
    BY <1>1, <1>2, <2>2
  <2> QED BY <2>1, <2>2
<1>4. QueuedImu = Append(kept, data_cb)
  BY DEF QueuedImu
<1> HIDE DEF kept
<1> QED BY <1>1, <1>3, <1>4, AppendProperties

LEMMA RestTyped ==
    ASSUME TypeOK, imu_queue # <<>>
    PROVE  /\ Head(imu_queue) \in 1..MaxSamples
           /\ Tail(imu_queue) \in Seq(1..MaxSamples) /\ Len(Tail(imu_queue)) <= QueueLimit
<1>1. QueueLimit \in Nat /\ Len(imu_queue) \in Nat /\ Len(imu_queue) <= QueueLimit
  BY LimitAssumption, LenProperties DEF TypeOK
<1>2. Head(imu_queue) \in 1..MaxSamples /\ Tail(imu_queue) \in Seq(1..MaxSamples)
      /\ Len(Tail(imu_queue)) = Len(imu_queue) - 1
  BY HeadTailProperties DEF TypeOK
<1> QED BY <1>1, <1>2

\* The list of savers as it grows and shrinks.
LEMMA SaversTyped ==
    ASSUME TypeOK, AtMostOneTransfer
    PROVE  /\ savers = <<>> => /\ Append(savers, 0) \in Seq(DeviceHandle \cup {0, None})
                               /\ Len(Append(savers, 0)) = 1 /\ Append(savers, 0) # <<>>
           /\ \A i \in 1..Len(savers) : RemoveAt(savers, i) = <<>>
<1>1. savers \in Seq(DeviceHandle \cup {0, None}) /\ Len(savers) \in Nat /\ Len(savers) <= 1
  BY LenProperties DEF TypeOK, AtMostOneTransfer
<1>2. savers = <<>> => Append(savers, 0) = <<0>>
  OBVIOUS
<1>3. ASSUME NEW i \in 1..Len(savers) PROVE RemoveAt(savers, i) = <<>>
  <2> DEFINE n == Len(savers)
  <2>1. i = 1 /\ n = 1
    <3>1. n \in Nat /\ n <= 1 /\ i \in 1..n
      BY <1>1
    <3> HIDE DEF n
    <3> QED BY <3>1
  <2>2. SubSeq(savers, 1, 0) = <<>> /\ SubSeq(savers, 2, 1) = <<>>
    BY SubSeqEmpty
  <2>3. RemoveAt(savers, i) = <<>> \o <<>>
    BY <2>1, <2>2 DEF RemoveAt
  <2> QED BY <2>3
<1>4. <<0>> \in Seq(DeviceHandle \cup {0, None}) /\ Len(<<0>>) = 1 /\ <<0>> # <<>>
  OBVIOUS
<1>5. savers = <<>> => /\ Append(savers, 0) \in Seq(DeviceHandle \cup {0, None})
                       /\ Len(Append(savers, 0)) = 1 /\ Append(savers, 0) # <<>>
  <2> DEFINE s == Append(savers, 0)
  <2>1. savers = <<>> => s = <<0>>
    BY <1>2
  <2> HIDE DEF s
  <2> QED BY <1>4, <2>1
<1> QED BY <1>3, <1>5

\* lidar_device_callback, the device comes.
LEMMA AttachKeeps == DeviceInv /\ (Attach \/ DeviceCallback) => DeviceInv'
<1> SUFFICES ASSUME DeviceInv, Attach \/ DeviceCallback PROVE DeviceInv'
  OBVIOUS
<1> USE
DEF DeviceInv, TypeOK, AtMostOneTransfer, HandleLive, device, flags, queue, running, sampling,
    imuThread, monitoring, saving, mainThread
<1>1. CASE Attach
  BY <1>1 DEF Attach
<1>2. CASE ForgetOldDevice
  BY <1>2 DEF ForgetOldDevice, Step, OnlyDevice
<1>3. CASE CreateDevice
  BY <1>3 DEF CreateDevice, Step, OnlyDevice
<1>4. CASE CheckVersion
  BY <1>4 DEF CheckVersion, Step, OnlyDevice
<1>5. CASE OpenDevice
  BY <1>5, MarkedTyped DEF OpenDevice, Step, OnlyDevice
<1>6. CASE FetchCalibration \/ SetDepthParameter
  BY <1>6 DEF FetchCalibration, SetDepthParameter, Step, OnlyDevice
<1>7. CASE SetMode
  BY <1>7 DEF SetMode, Step, OnlyDevice
<1>8. CASE SetRelocalizationMap \/ StartStream
  BY <1>8 DEF SetRelocalizationMap, StartStream, Step, OnlyDevice
<1>9. CASE CloseDevice
  BY <1>9, MarkedTyped DEF CloseDevice, Step, OnlyDevice
<1>10. CASE DestroyDevice
  BY <1>10, MarkedTyped DEF DestroyDevice, Step, OnlyDevice
<1>11. CASE ClearDevice
  BY <1>11 DEF ClearDevice, Step, OnlyDevice
<1>12. CASE Connect
  <2>1. deviceConnected' \in BOOLEAN /\ deviceDisconnected' \in BOOLEAN
    BY <1>12, Zenon DEF Connect
  <2> QED BY <1>12, <2>1 DEF Connect, Step
<1>13. CASE StartImuThread
  <2>1. imu_running' \in BOOLEAN
    BY <1>13, Zenon DEF StartImuThread
  <2> QED BY <1>13, <2>1 DEF StartImuThread, Step
<1>14. CASE StopOldMonitor
  <2>1. monitor_running' \in BOOLEAN
    BY <1>14, Zenon DEF StopOldMonitor
  <2> QED BY <1>14, <2>1 DEF StopOldMonitor, Step
<1>15. CASE StartMonitor
  <2>1. monitor_running' \in BOOLEAN /\ monitor' \in BOOLEAN
    BY <1>15, Zenon DEF StartMonitor
  <2> QED BY <1>15, <2>1 DEF StartMonitor, Step
<1>16. CASE StopImuThread
  <2>1. imu_running' \in BOOLEAN /\ missed' \in BOOLEAN
    BY <1>16, Zenon DEF StopImuThread, LowerImuFlag
  <2> QED BY <1>16, <2>1 DEF StopImuThread, LowerImuFlag, Step, Woken
<1>17. CASE JoinImuThread
  BY <1>17, LimitAssumption DEF JoinImuThread, ImuThreadJoined, Step
<1>18. CASE StopMonitor
  <2>1. monitor_running' \in BOOLEAN
    BY <1>18, Zenon DEF StopMonitor
  <2> QED BY <1>18, <2>1 DEF StopMonitor, Step
<1>19. CASE ClearQueues
  BY <1>19, LimitAssumption DEF ClearQueues, Step
<1> QED BY <1>1, <1>2, <1>3, <1>4, <1>5, <1>6, <1>7, <1>8, <1>9, <1>10, <1>11, <1>12, <1>13, <1>14, <1>15, <1>16, <1>17, <1>18, <1>19
DEF DeviceCallback

\* lidar_data_callback and the thread it feeds.
LEMMA SamplesKeep == DeviceInv /\ (ReceiveImu \/ QueueImu \/ ImuThread \/ ImuSpuriousWake \/ MonitorEnds) => DeviceInv'
<1> SUFFICES ASSUME DeviceInv, ReceiveImu \/ QueueImu \/ ImuThread \/ ImuSpuriousWake \/ MonitorEnds PROVE DeviceInv'
  OBVIOUS
<1> USE
DEF DeviceInv, TypeOK, AtMostOneTransfer, HandleLive, device, flags, queue, running, sampling,
    imuThread, monitoring, saving, mainThread
<1>1. CASE ReceiveImu
  BY <1>1, BoundsAssumption DEF ReceiveImu
<1>2. CASE QueueImu
  <2>1. data_cb # 0 /\ imu_queue' = QueuedImu /\ data_cb' = 0
    BY <1>2 DEF QueueImu, Queueing
  <2>2. imu_queue' \in Seq(1..MaxSamples) /\ Len(imu_queue') <= QueueLimit /\ data_cb' \in 0..MaxSamples
    BY <2>1, QueuedTyped, BoundsAssumption
  <2> QED BY <1>2, <2>2 DEF QueueImu, Queueing, Woken
<1>3. CASE ImuTop \/ ImuLock \/ ImuPredicate \/ ImuSleep
  BY <1>3 DEF ImuTop, ImuLock, ImuPredicate, ImuSleep, ImuGoto, OnlyImu
<1>4. CASE ImuTake
  <2>1. imu_queue' \in Seq(1..MaxSamples) /\ Len(imu_queue') <= QueueLimit /\ imu_sample' \in 0..MaxSamples
    BY <1>4, RestTyped DEF ImuTake
  <2> QED BY <1>4, <2>1 DEF ImuTake, ImuGoto, OnlyImu
<1>5. CASE ImuLeaveDrain \/ ImuLockAgain
  BY <1>5 DEF ImuLeaveDrain, ImuLockAgain, ImuGoto, OnlyImu
<1>6. CASE ImuPublish
  <2>1. published' \in 0..MaxSamples /\ imu_sample' \in 0..MaxSamples
    BY <1>6, BoundsAssumption DEF ImuPublish
  <2> QED BY <1>6, <2>1 DEF ImuPublish, ImuGoto, OnlyImu
<1>7. CASE ImuSpuriousWake
  BY <1>7 DEF ImuSpuriousWake, ImuGoto, OnlyImu
<1>8. CASE MonitorEnds
  <2>1. monitor' \in BOOLEAN
    BY <1>8, Zenon DEF MonitorEnds
  <2> QED BY <1>8, <2>1 DEF MonitorEnds
<1> QED BY <1>1, <1>2, <1>3, <1>4, <1>5, <1>6, <1>7, <1>8 DEF ImuThread

\* The services, the command file and the threads that save a map.
LEMMA RequestsKeep == DeviceInv /\ (LeaveWait \/ ServiceRequest \/ ReadCommand \/ Main \/ SaverCalls \/ SaverEnds) => DeviceInv'
<1> SUFFICES ASSUME DeviceInv, LeaveWait \/ ServiceRequest \/ ReadCommand \/ Main \/ SaverCalls \/ SaverEnds PROVE DeviceInv'
  OBVIOUS
<1> USE
DEF DeviceInv, TypeOK, AtMostOneTransfer, HandleLive, device, flags, queue, running, sampling,
    imuThread, monitoring, saving, mainThread
<1>1. CASE LeaveWait \/ ServiceRequest \/ ReadCommand
  BY <1>1 DEF LeaveWait, ServiceRequest, ReadCommand, MainGoto, OnlyMain
<1>2. CASE ServiceCall \/ SetParameter
  BY <1>2 DEF ServiceCall, SetParameter, MainGoto, OnlyMain
<1>3. CASE SaveMap
  <2>1. in_progress' \in BOOLEAN /\ (in_progress => UNCHANGED saving)
        /\ (~in_progress => in_progress' = TRUE /\ savers' = Append(savers, 0))
    BY <1>3, Zenon DEF SaveMap
  <2>2. AtMostOneTransfer' /\ savers' \in Seq(DeviceHandle \cup {0, None})
    BY <2>1, SaversTyped
  <2> QED BY <1>3, <2>1, <2>2 DEF SaveMap, MainGoto, OnlyMain
<1>4. CASE SaverCalls
  <2>1. PICK i \in 1..Len(savers) : savers' = [savers EXCEPT ![i] = odinDevice]
    BY <1>4 DEF SaverCalls
  <2>2. savers' \in Seq(DeviceHandle \cup {0, None}) /\ Len(savers') = Len(savers)
    BY <2>1, ExceptSeq
  <2> QED BY <1>4, <2>2 DEF SaverCalls, OnlyMain
<1>5. CASE SaverEnds
  <2>1. savers' = <<>> /\ in_progress' = FALSE
    BY <1>5, SaversTyped DEF SaverEnds
  <2>2. in_progress' \in BOOLEAN
    BY <2>1, Zenon
  <2> QED BY <1>5, <2>1, <2>2 DEF SaverEnds, OnlyMain
<1> QED BY <1>1, <1>2, <1>3, <1>4, <1>5 DEF Main

\* The detach and the signal handler.
LEMMA StopKeeps == DeviceInv /\ (Detach \/ Signal \/ SignalHandler) => DeviceInv'
<1> SUFFICES ASSUME DeviceInv, Detach \/ Signal \/ SignalHandler PROVE DeviceInv'
  OBVIOUS
<1> USE
DEF DeviceInv, TypeOK, AtMostOneTransfer, HandleLive, device, flags, queue, running, sampling,
    imuThread, monitoring, saving, mainThread
<1>1. CASE Detach
  <2>1. plugged' \in BOOLEAN /\ deviceConnected' \in BOOLEAN /\ deviceDisconnected' \in BOOLEAN
    BY <1>1, Zenon DEF Detach
  <2> QED BY <1>1, <2>1 DEF Detach, Step
<1>2. CASE Signal
  BY <1>2 DEF Signal, MainGoto, OnlyMain
<1>3. CASE SignalStopsImu
  <2>1. imu_running' \in BOOLEAN /\ missed' \in BOOLEAN
    BY <1>3, Zenon DEF SignalStopsImu, LowerImuFlag
  <2> QED BY <1>3, <2>1 DEF SignalStopsImu, LowerImuFlag, MainGoto, Woken
<1>4. CASE SignalJoinsImu
  BY <1>4, LimitAssumption DEF SignalJoinsImu, ImuThreadJoined, MainGoto
<1>5. CASE SignalStopsMonitor
  <2>1. monitor_running' \in BOOLEAN
    BY <1>5, Zenon DEF SignalStopsMonitor
  <2> QED BY <1>5, <2>1 DEF SignalStopsMonitor, MainGoto
<1>6. CASE SignalStopsStream
  BY <1>6 DEF SignalStopsStream, MainGoto
<1>7. CASE SignalResets
  <2>1. ros_object' \in BOOLEAN
    BY <1>7, Zenon DEF SignalResets
  <2> QED BY <1>7, <2>1 DEF SignalResets, MainGoto, OnlyMain
<1>8. CASE SignalExits
  BY <1>8 DEF SignalExits, MainGoto, OnlyMain
<1> QED BY <1>1, <1>2, <1>3, <1>4, <1>5, <1>6, <1>7, <1>8 DEF SignalHandler

\* However the device comes and goes, whoever saves a map and whenever the
\* driver is stopped: one map is transferred at a time, and the handle that is
\* kept is not one the SDK has destroyed (host_sdk_sample.cpp:541).
THEOREM DeviceIsSound == Spec => []DeviceSound
<1>1. DeviceInv /\ [Next]_vars => DeviceInv'
  <2> SUFFICES ASSUME DeviceInv, [Next]_vars PROVE DeviceInv'
    OBVIOUS
  <2>1. CASE Next
    BY <2>1, AttachKeeps, SamplesKeep, RequestsKeep, StopKeeps DEF Next
  <2>2. CASE UNCHANGED vars
    BY <2>2
    DEF vars, DeviceInv, TypeOK, AtMostOneTransfer, HandleLive, device, flags, queue, running,
        sampling, imuThread, monitoring, saving, mainThread
  <2> QED BY <2>1, <2>2
<1>2. DeviceInv => DeviceSound
  BY DEF DeviceInv, HandleLive, DeviceSound, KeptHandleLive
<1> QED BY InitialDevice, <1>1, <1>2, PTL DEF Spec

-----------------------------------------------------------------------------
(* The order of the samples.                                                *)

\* What ImuInOrder rests on: the queue increases, what the thread took or
\* published is older than all of it, and no sample is newer than the last that
\* came in, which is the one in the hands of the callback.
SamplesOrdered ==
    /\ \A i, j \in 1..Len(imu_queue) : i < j => imu_queue[i] < imu_queue[j]
    /\ \A i \in 1..Len(imu_queue) :
          /\ published < imu_queue[i] /\ imu_sample < imu_queue[i] /\ imu_queue[i] <= arrived
          /\ data_cb # 0 => imu_queue[i] < data_cb
    /\ imu_sample # 0 => published < imu_sample
    /\ published <= arrived /\ imu_sample <= arrived
    /\ data_cb # 0 => data_cb = arrived /\ published < data_cb /\ imu_sample < data_cb

LEMMA PipelineAt ==
    ASSUME TypeOK
    PROVE  /\ Len(imu_queue) \in Nat /\ Len(Pipeline) = Len(imu_queue) + 3
           /\ Pipeline[1] = published /\ Pipeline[2] = imu_sample
           /\ \A i \in 1..Len(imu_queue) : Pipeline[i + 2] = imu_queue[i]
           /\ Pipeline[Len(imu_queue) + 3] = data_cb
<1>1. /\ imu_queue \in Seq(Nat) /\ <<published, imu_sample>> \in Seq(Nat)
      /\ <<data_cb>> \in Seq(Nat) /\ Len(imu_queue) \in Nat
  BY BoundsAssumption, LenProperties DEF TypeOK
<1> DEFINE front == <<published, imu_sample>> \o imu_queue
<1>2. /\ front \in Seq(Nat) /\ Len(front) = Len(imu_queue) + 2
      /\ front[1] = published /\ front[2] = imu_sample
      /\ \A i \in 1..Len(imu_queue) : front[i + 2] = imu_queue[i]
  BY <1>1
<1>3. Pipeline = front \o <<data_cb>>
  BY DEF Pipeline
<1> HIDE DEF front
<1> QED BY <1>1, <1>2, <1>3

LEMMA OrderedInOrder == TypeOK /\ SamplesOrdered => ImuInOrder
<1> SUFFICES ASSUME TypeOK, SamplesOrdered,
                    NEW i \in 1..Len(Pipeline), NEW j \in 1..Len(Pipeline),
                    i < j, Pipeline[i] # 0, Pipeline[j] # 0
             PROVE  Pipeline[i] < Pipeline[j]
  BY DEF ImuInOrder
<1> DEFINE n == Len(imu_queue)
<1>1. n \in Nat /\ i \in 1..(n + 3) /\ j \in 1..(n + 3)
  BY PipelineAt
<1>2. CASE j = n + 3
  <2>1. Pipeline[j] = data_cb
    BY <1>2, PipelineAt
  <2>2. CASE i \in 1..2
    BY <2>1, <2>2, PipelineAt DEF SamplesOrdered
  <2>3. CASE i \in 3..(n + 2)
    <3>1. Pipeline[i] = imu_queue[i - 2] /\ i - 2 \in 1..n
      <4>1. i - 2 \in 1..n
        BY <1>1, <2>3
      <4> QED BY <4>1, PipelineAt
    <3> QED BY <2>1, <3>1 DEF SamplesOrdered
  <2> QED BY <1>1, <1>2, <2>2, <2>3
<1>3. CASE j \in 3..(n + 2)
  <2>1. j - 2 \in 1..n /\ Pipeline[j] = imu_queue[j - 2]
    <3>1. j - 2 \in 1..n
      BY <1>1, <1>3
    <3> QED BY <3>1, PipelineAt
  <2>2. CASE i \in 1..2
    BY <2>1, <2>2, PipelineAt DEF SamplesOrdered
  <2>3. CASE i \in 3..(n + 2)
    <3>1. i - 2 \in 1..n
      BY <1>1, <2>3
    <3>2. Pipeline[i] = imu_queue[i - 2] /\ i - 2 < j - 2
      BY <1>1, <3>1, PipelineAt
    <3> QED BY <2>1, <3>1, <3>2 DEF SamplesOrdered
  <2> QED BY <1>1, <1>3, <2>2, <2>3
<1>4. CASE j = 2
  BY <1>1, <1>4, PipelineAt DEF SamplesOrdered
<1> QED BY <1>1, <1>2, <1>3, <1>4

\* The queue after a callback: its oldest sample may be gone, and the last is new.
LEMMA QueuedOrdered ==
    ASSUME TypeOK, SamplesOrdered, data_cb # 0
    PROVE  /\ \A i, j \in 1..Len(QueuedImu) : i < j => QueuedImu[i] < QueuedImu[j]
           /\ \A i \in 1..Len(QueuedImu) :
                 published < QueuedImu[i] /\ imu_sample < QueuedImu[i] /\ QueuedImu[i] <= arrived
<1> DEFINE kept == IF Len(imu_queue) >= QueueLimit THEN Tail(imu_queue) ELSE imu_queue
<1>1. /\ imu_queue \in Seq(1..MaxSamples) /\ Len(imu_queue) \in Nat
      /\ QueueLimit \in Nat \ {0} /\ data_cb \in 1..MaxSamples /\ MaxSamples \in Nat
  BY LimitAssumption, BoundsAssumption, LenProperties DEF TypeOK
<1>2. /\ kept \in Seq(1..MaxSamples) /\ Len(kept) \in Nat
      /\ \A i, j \in 1..Len(kept) : i < j => kept[i] < kept[j]
      /\ \A i \in 1..Len(kept) :
            published < kept[i] /\ imu_sample < kept[i] /\ kept[i] < data_cb
  <2>1. CASE Len(imu_queue) >= QueueLimit
    <3>1. imu_queue # <<>> /\ kept = Tail(imu_queue)
      BY <1>1, <2>1
    <3> HIDE DEF kept
    <3>2. /\ kept \in Seq(1..MaxSamples) /\ Len(kept) = Len(imu_queue) - 1
          /\ \A i \in 1..Len(kept) : kept[i] = imu_queue[i + 1]
      BY <1>1, <3>1, HeadTailProperties
    <3>3. Len(kept) \in Nat
      BY <3>2, LenProperties
    <3>4. \A i \in 1..Len(kept) : i + 1 \in 1..Len(imu_queue)
      BY <1>1, <3>2, <3>3
    <3>5. ASSUME NEW i \in 1..Len(kept), NEW j \in 1..Len(kept), i < j PROVE kept[i] < kept[j]
      <4>1. i + 1 < j + 1
        BY <3>3, <3>5
      <4> QED BY <3>2, <3>4, <4>1 DEF SamplesOrdered
    <3>6. ASSUME NEW i \in 1..Len(kept)
          PROVE  published < kept[i] /\ imu_sample < kept[i] /\ kept[i] < data_cb
      BY <3>2, <3>4 DEF SamplesOrdered
    <3> QED BY <3>2, <3>3, <3>5, <3>6
  <2>2. CASE ~(Len(imu_queue) >= QueueLimit)
    BY <1>1, <2>2 DEF SamplesOrdered
  <2> QED BY <2>1, <2>2
<1>3. QueuedImu = Append(kept, data_cb)
  BY DEF QueuedImu
<1> HIDE DEF kept
<1>4. /\ Len(QueuedImu) = Len(kept) + 1 /\ QueuedImu[Len(kept) + 1] = data_cb
      /\ \A i \in 1..Len(kept) : QueuedImu[i] = kept[i]
  BY <1>1, <1>2, <1>3, AppendProperties
<1>5. published < data_cb /\ imu_sample < data_cb /\ data_cb = arrived
  BY DEF SamplesOrdered
<1>6. \A i \in 1..Len(QueuedImu) : i \in 1..Len(kept) \/ i = Len(kept) + 1
  BY <1>2, <1>4
<1>7. ASSUME NEW i \in 1..Len(QueuedImu)
      PROVE  published < QueuedImu[i] /\ imu_sample < QueuedImu[i] /\ QueuedImu[i] <= arrived
  <2>1. CASE i \in 1..Len(kept)
    <3>1. QueuedImu[i] = kept[i] /\ kept[i] \in 1..MaxSamples
      BY <1>2, <1>4, <2>1, ElementOfSeq
    <3> QED BY <1>1, <1>2, <1>5, <2>1, <3>1
  <2>2. CASE i = Len(kept) + 1
    BY <1>1, <1>4, <1>5, <2>2
  <2> QED BY <1>6, <2>1, <2>2
<1>8. ASSUME NEW i \in 1..Len(QueuedImu), NEW j \in 1..Len(QueuedImu), i < j
      PROVE  QueuedImu[i] < QueuedImu[j]
  <2>1. i \in 1..Len(kept)
    BY <1>2, <1>4, <1>8
  <2>2. CASE j \in 1..Len(kept)
    BY <1>2, <1>4, <1>8, <2>1, <2>2
  <2>3. CASE j = Len(kept) + 1
    BY <1>2, <1>4, <2>1, <2>3
  <2> QED BY <1>6, <2>2, <2>3
<1> QED BY <1>7, <1>8

\* The samples move in five steps; the others leave them or empty the queue.
LEMMA OrderKept == TypeOK /\ SamplesOrdered /\ [Next]_vars => SamplesOrdered'
<1> SUFFICES ASSUME TypeOK, SamplesOrdered, [Next]_vars PROVE SamplesOrdered'
  OBVIOUS
<1> USE DEF SamplesOrdered, queue, sampling, imuThread
<1>0. /\ imu_queue \in Seq(1..MaxSamples) /\ Len(imu_queue) \in Nat /\ MaxSamples \in Nat
      /\ published \in Nat /\ imu_sample \in Nat /\ arrived \in Nat /\ data_cb \in Nat
      /\ \A i \in 1..Len(imu_queue) : imu_queue[i] \in Nat
  BY BoundsAssumption, LenProperties DEF TypeOK
<1>1. CASE ReceiveImu
  <2>1. UNCHANGED <<imu_queue, published, imu_sample>> /\ arrived' = arrived + 1 /\ data_cb' = arrived + 1
    BY <1>1 DEF ReceiveImu
  <2> QED BY <1>0, <2>1
<1>2. CASE QueueImu
  <2>1. /\ data_cb # 0 /\ data_cb' = 0 /\ imu_queue' = QueuedImu
        /\ UNCHANGED <<published, imu_sample, arrived>>
    BY <1>2 DEF QueueImu, Queueing
  <2> QED BY <2>1, QueuedOrdered
<1>3. CASE ImuTake
  <2>1. /\ imu_queue # <<>> /\ imu_sample' = Head(imu_queue) /\ imu_queue' = Tail(imu_queue)
        /\ UNCHANGED <<published, arrived, data_cb>>
    BY <1>3 DEF ImuTake, OnlyImu
  <2>2. /\ Head(imu_queue) = imu_queue[1] /\ Len(imu_queue') = Len(imu_queue) - 1
        /\ Len(imu_queue) >= 1
        /\ \A i \in 1..Len(imu_queue') : imu_queue'[i] = imu_queue[i + 1]
    BY <1>0, <2>1, HeadTailProperties
  <2>3. 1 \in 1..Len(imu_queue)
        /\ \A i \in 1..Len(imu_queue') : i + 1 \in 1..Len(imu_queue) /\ 1 < i + 1
    BY <1>0, <2>2
  <2> QED BY <1>0, <2>1, <2>2, <2>3
<1>4. CASE ImuPublish
  <2>1. /\ published' \in {published, imu_sample} /\ imu_sample' = 0
        /\ UNCHANGED <<imu_queue, arrived, data_cb>>
    BY <1>4 DEF ImuPublish, OnlyImu
  <2> QED BY <1>0, <2>1
<1>5. CASE JoinImuThread \/ SignalJoinsImu \/ ClearQueues
  <2>1. imu_queue' = <<>> /\ UNCHANGED <<published, imu_sample, arrived, data_cb>>
    BY <1>5 DEF JoinImuThread, SignalJoinsImu, ImuThreadJoined, ClearQueues
  <2> QED BY <2>1
<1>6. ASSUME UNCHANGED <<imu_queue, published, imu_sample, arrived, data_cb>> PROVE SamplesOrdered'
  BY <1>6
<1>7. CASE ImuTop \/ ImuLock \/ ImuPredicate \/ ImuSleep \/ ImuLeaveDrain \/ ImuLockAgain \/ ImuSpuriousWake
  BY <1>6, <1>7
  DEF ImuTop, ImuLock, ImuPredicate, ImuSleep, ImuLeaveDrain, ImuLockAgain, ImuSpuriousWake, OnlyImu
<1>8. CASE LeaveWait \/ ServiceRequest \/ ReadCommand \/ Main \/ SaverCalls \/ SaverEnds \/ Signal \/ MonitorEnds
  BY <1>6, <1>8
  DEF LeaveWait, ServiceRequest, ReadCommand, Main, ServiceCall, SetParameter, SaveMap, SaverCalls,
      SaverEnds, Signal, MonitorEnds, OnlyMain
<1>9. CASE SignalStopsImu \/ SignalStopsMonitor \/ SignalStopsStream \/ SignalResets \/ SignalExits
  BY <1>6, <1>9
  DEF SignalStopsImu, SignalStopsMonitor, SignalStopsStream, SignalResets, SignalExits, OnlyMain
<1>10. CASE Attach \/ Detach \/ ForgetOldDevice \/ CreateDevice \/ CheckVersion \/ OpenDevice \/ FetchCalibration
  BY <1>6, <1>10
  DEF Attach, Detach, ForgetOldDevice, CreateDevice, CheckVersion, OpenDevice, FetchCalibration, OnlyDevice
<1>11. CASE SetDepthParameter \/ SetMode \/ SetRelocalizationMap \/ StartStream \/ CloseDevice \/ DestroyDevice \/ ClearDevice
  BY <1>6, <1>11
  DEF SetDepthParameter, SetMode, SetRelocalizationMap, StartStream, CloseDevice, DestroyDevice,
      ClearDevice, OnlyDevice
<1>12. CASE Connect \/ StartImuThread \/ StopOldMonitor \/ StartMonitor \/ StopImuThread \/ StopMonitor
  BY <1>6, <1>12
  DEF Connect, StartImuThread, StopOldMonitor, StartMonitor, StopImuThread, StopMonitor
<1>13. CASE UNCHANGED vars
  BY <1>6, <1>13 DEF vars
<1> QED BY <1>1, <1>2, <1>3, <1>4, <1>5, <1>7, <1>8, <1>9, <1>10, <1>11, <1>12, <1>13
DEF Next, ImuThread, DeviceCallback, SignalHandler

\* The samples leave in the order they came in, none twice: the IMU thread takes
\* from the front what the callback appends, also when the callback drops the
\* oldest between two of the thread's steps (host_sdk_sample.cpp:1047).
THEOREM SamplesStayInOrder == Spec => []ImuInOrder
<1>1. Init => SamplesOrdered
  BY DEF Init, SamplesOrdered
<1>2. DeviceSound => TypeOK
  BY DEF DeviceSound
<1>3. Spec => []DeviceSound
  BY DeviceIsSound
<1>4. TypeOK /\ SamplesOrdered => ImuInOrder
  BY OrderedInOrder
<1> QED BY <1>1, <1>2, <1>3, <1>4, OrderKept, PTL DEF Spec

-----------------------------------------------------------------------------
(* The samples of an earlier connection.                                    *)

\* The device is there while it is set up and while it is connected; the IMU
\* thread runs only for a connected device; and what it took it publishes.
ConnectionInv ==
    /\ device_cb \notin {"idle", "stop_imu", "join_imu", "stop_monitor", "clear_queues"} => plugged
    /\ deviceConnected =>
          plugged /\ device_cb \in {"start_imu", "stop_old_monitor", "start_monitor", "idle"}
    /\ device_cb \in {"start_imu", "stop_old_monitor", "start_monitor"} => deviceConnected
    /\ imu_running => device_cb = "stop_imu" \/ (deviceConnected /\ device_cb # "start_imu")
    /\ imu_sample # 0 => imu = "publish"

\* Once the queues are cleared only the sample in the hands of the callback is
\* left of a connection; it can be queued before the next connection, and taken
\* in it.  Behind it, there are only samples of the new one.
FewOld ==
    /\ before <= arrived
    /\ ~deviceConnected /\ device_cb \notin {"stop_imu", "join_imu", "stop_monitor", "clear_queues"} =>
          Len(imu_queue) <= 1 /\ (data_cb # 0 => imu_queue = <<>>)
    /\ deviceConnected =>
          /\ \A i \in 2..Len(imu_queue) : imu_queue[i] > before
          /\ imu_queue # <<>> /\ data_cb # 0 => data_cb > before
    /\ deviceConnected /\ device_cb # "start_imu" /\ imu_sample # 0 =>
          /\ \A i \in 1..Len(imu_queue) : imu_queue[i] > before
          /\ data_cb # 0 => data_cb > before

LEMMA ConnectionKept == TypeOK /\ ConnectionInv /\ [Next]_vars => ConnectionInv'
<1> SUFFICES ASSUME TypeOK, ConnectionInv, [Next]_vars PROVE ConnectionInv'
  OBVIOUS
<1> USE DEF ConnectionInv, device, flags, running, imuThread
<1>0. /\ plugged \in BOOLEAN /\ deviceConnected \in BOOLEAN /\ imu_running \in BOOLEAN
  BY DEF TypeOK
<1>1. CASE Attach \/ Detach
  BY <1>0, <1>1 DEF Attach, Detach, Step
<1>2. CASE ForgetOldDevice \/ CreateDevice \/ CheckVersion \/ OpenDevice \/ FetchCalibration \/ SetDepthParameter
  BY <1>0, <1>2
  DEF ForgetOldDevice, CreateDevice, CheckVersion, OpenDevice, FetchCalibration, SetDepthParameter,
      Step, OnlyDevice
<1>3. CASE SetMode \/ SetRelocalizationMap \/ StartStream \/ CloseDevice \/ DestroyDevice \/ ClearDevice
  BY <1>0, <1>3
  DEF SetMode, SetRelocalizationMap, StartStream, CloseDevice, DestroyDevice, ClearDevice, Step, OnlyDevice
<1>4. CASE Connect
  BY <1>0, <1>4 DEF Connect, Step
<1>5. CASE StartImuThread
  BY <1>0, <1>5 DEF StartImuThread, Step
<1>6. CASE StopOldMonitor \/ StartMonitor \/ StopMonitor \/ ClearQueues
  <2>1. CASE StopOldMonitor
    BY <1>0, <2>1 DEF StopOldMonitor, Step
  <2>2. CASE StartMonitor
    BY <1>0, <2>2 DEF StartMonitor, Step
  <2>3. CASE StopMonitor
    BY <1>0, <2>3 DEF StopMonitor, Step
  <2>4. CASE ClearQueues
    BY <1>0, <2>4 DEF ClearQueues, Step
  <2> QED BY <1>6, <2>1, <2>2, <2>3, <2>4
<1>7. CASE StopImuThread
  BY <1>0, <1>7 DEF StopImuThread, LowerImuFlag, Woken, Step
<1>8. CASE JoinImuThread
  BY <1>0, <1>8 DEF JoinImuThread, ImuThreadJoined, Step
<1>9. CASE ReceiveImu \/ QueueImu
  BY <1>0, <1>9 DEF ReceiveImu, QueueImu, Queueing, Woken
<1>10. CASE ImuThread \/ ImuSpuriousWake
  BY <1>0, <1>10
  DEF ImuThread, ImuTop, ImuLock, ImuPredicate, ImuSleep, ImuTake, ImuLeaveDrain, ImuPublish,
      ImuLockAgain, ImuSpuriousWake, ImuGoto, OnlyImu
<1>11. CASE LeaveWait \/ ServiceRequest \/ ReadCommand \/ Main \/ SaverCalls \/ SaverEnds \/ Signal \/ MonitorEnds
  BY <1>0, <1>11
  DEF LeaveWait, ServiceRequest, ReadCommand, Main, ServiceCall, SetParameter, SaveMap, SaverCalls,
      SaverEnds, Signal, MonitorEnds, OnlyMain
<1>12. CASE SignalStopsImu
  BY <1>0, <1>12 DEF SignalStopsImu, LowerImuFlag, Woken
<1>13. CASE SignalJoinsImu
  BY <1>0, <1>13 DEF SignalJoinsImu, ImuThreadJoined
<1>14. CASE SignalStopsMonitor \/ SignalStopsStream \/ SignalResets \/ SignalExits
  BY <1>0, <1>14 DEF SignalStopsMonitor, SignalStopsStream, SignalResets, SignalExits, OnlyMain
<1>15. CASE UNCHANGED vars
  BY <1>0, <1>15 DEF vars
<1> QED BY <1>1, <1>2, <1>3, <1>4, <1>5, <1>6, <1>7, <1>8, <1>9, <1>10, <1>11, <1>12, <1>13, <1>14, <1>15
DEF Next, DeviceCallback, SignalHandler

\* The last of the queue after a callback is its sample; those before were queued.
LEMMA QueuedAt ==
    ASSUME TypeOK, data_cb # 0
    PROVE  /\ Len(QueuedImu) \in Nat \ {0} /\ QueuedImu[Len(QueuedImu)] = data_cb
           /\ Len(QueuedImu) <= Len(imu_queue) + 1
           /\ imu_queue = <<>> => Len(QueuedImu) = 1
           /\ \A i \in 1..Len(QueuedImu) - 1 :
                 \E j \in i..Len(imu_queue) : QueuedImu[i] = imu_queue[j]
<1> DEFINE kept == IF Len(imu_queue) >= QueueLimit THEN Tail(imu_queue) ELSE imu_queue
<1>1. /\ imu_queue \in Seq(1..MaxSamples) /\ Len(imu_queue) \in Nat /\ QueueLimit \in Nat \ {0}
  BY LimitAssumption, LenProperties DEF TypeOK
<1>2. /\ kept \in Seq(1..MaxSamples) /\ Len(kept) \in Nat /\ Len(kept) <= Len(imu_queue)
      /\ \A i \in 1..Len(kept) : \E j \in i..Len(imu_queue) : kept[i] = imu_queue[j]
  <2>1. CASE Len(imu_queue) >= QueueLimit
    <3>1. imu_queue # <<>> /\ kept = Tail(imu_queue)
      BY <1>1, <2>1
    <3> HIDE DEF kept
    <3>2. /\ kept \in Seq(1..MaxSamples) /\ Len(kept) = Len(imu_queue) - 1
          /\ \A i \in 1..Len(kept) : kept[i] = imu_queue[i + 1]
      BY <1>1, <3>1, HeadTailProperties
    <3>3. Len(kept) \in Nat
      BY <3>2, LenProperties
    <3>4. \A i \in 1..Len(kept) : i + 1 \in i..Len(imu_queue)
      BY <1>1, <3>2, <3>3
    <3> QED BY <1>1, <3>2, <3>3, <3>4
  <2>2. CASE ~(Len(imu_queue) >= QueueLimit)
    BY <1>1, <2>2
  <2> QED BY <2>1, <2>2
<1>3. QueuedImu = Append(kept, data_cb)
  BY DEF QueuedImu
<1>4. data_cb \in 1..MaxSamples
  BY BoundsAssumption DEF TypeOK
<1>5. imu_queue = <<>> => Len(kept) = 0
  BY <1>1
<1> HIDE DEF kept
<1>6. /\ Len(QueuedImu) = Len(kept) + 1 /\ QueuedImu[Len(kept) + 1] = data_cb
      /\ \A i \in 1..Len(kept) : QueuedImu[i] = kept[i]
  BY <1>2, <1>3, <1>4, AppendProperties
<1> QED BY <1>1, <1>2, <1>5, <1>6

\* What leaves the samples and the connection alone keeps FewOld, unless the
\* callback leaves the steps FewOld speaks of.
LEMMA FewOldUnchanged ==
    ASSUME FewOld, UNCHANGED <<imu_queue, imu_sample, data_cb, arrived, before, deviceConnected>>,
           device_cb = "start_imu" => device_cb' = "start_imu",
           device_cb \in {"stop_imu", "join_imu", "stop_monitor", "clear_queues"} =>
              device_cb' \in {"stop_imu", "join_imu", "stop_monitor", "clear_queues"}
    PROVE  FewOld'
BY DEF FewOld

LEMMA FewOldQueued ==
    ASSUME TypeOK, FewOld, QueueImu
    PROVE  FewOld'
<1> USE DEF FewOld
<1>1. /\ data_cb # 0 /\ data_cb' = 0 /\ imu_queue' = QueuedImu
      /\ UNCHANGED <<imu_sample, arrived, before, deviceConnected, device_cb>>
  BY DEF QueueImu, Queueing, flags
<1>2. /\ Len(QueuedImu) \in Nat \ {0} /\ QueuedImu[Len(QueuedImu)] = data_cb
      /\ imu_queue = <<>> => Len(QueuedImu) = 1
      /\ \A i \in 1..Len(QueuedImu) - 1 :
            \E j \in i..Len(imu_queue) : QueuedImu[i] = imu_queue[j]
  BY <1>1, QueuedAt
<1>3. Len(imu_queue) \in Nat
  BY LenProperties DEF TypeOK
<1>4. ASSUME deviceConnected, NEW i \in 2..Len(QueuedImu) PROVE QueuedImu[i] > before
  <2>1. imu_queue # <<>>
    BY <1>2
  <2>2. CASE i = Len(QueuedImu)
    BY <1>1, <1>2, <1>4, <2>1, <2>2
  <2>3. CASE i # Len(QueuedImu)
    <3>1. i \in 1..Len(QueuedImu) - 1
      BY <1>2, <2>3
    <3>2. PICK j \in i..Len(imu_queue) : QueuedImu[i] = imu_queue[j]
      BY <1>2, <3>1
    <3> QED BY <1>3, <1>4, <3>2
  <2> QED BY <2>2, <2>3
<1>5. ASSUME deviceConnected, device_cb # "start_imu", imu_sample # 0, NEW i \in 1..Len(QueuedImu)
      PROVE  QueuedImu[i] > before
  <2>1. CASE i = Len(QueuedImu)
    BY <1>1, <1>2, <1>5, <2>1
  <2>2. CASE i # Len(QueuedImu)
    <3>1. i \in 1..Len(QueuedImu) - 1
      BY <1>2, <2>2
    <3>2. PICK j \in i..Len(imu_queue) : QueuedImu[i] = imu_queue[j]
      BY <1>2, <3>1
    <3> QED BY <1>3, <1>5, <3>2
  <2> QED BY <2>1, <2>2
<1> QED BY <1>1, <1>2, <1>4, <1>5

LEMMA FewOldTaken ==
    ASSUME TypeOK, FewOld, ImuTake
    PROVE  FewOld'
<1> USE DEF FewOld
<1>1. /\ imu_queue # <<>> /\ imu_queue' = Tail(imu_queue)
      /\ UNCHANGED <<data_cb, arrived, before, deviceConnected, device_cb>>
  BY DEF ImuTake, OnlyImu, sampling, flags
<1>2. /\ Len(imu_queue') = Len(imu_queue) - 1 /\ Len(imu_queue) \in Nat
      /\ \A i \in 1..Len(imu_queue') : imu_queue'[i] = imu_queue[i + 1]
  BY <1>1, HeadTailProperties, LenProperties DEF TypeOK
<1>3. \A i \in 1..Len(imu_queue') : i + 1 \in 2..Len(imu_queue)
  BY <1>2
<1>4. deviceConnected => \A i \in 1..Len(imu_queue') : imu_queue'[i] > before
  BY <1>2, <1>3
<1>5. Len(imu_queue) <= 1 => Len(imu_queue') <= 1 /\ (data_cb # 0 => imu_queue # <<>>)
  BY <1>1, <1>2
<1>6. \A i \in 2..Len(imu_queue') : i \in 1..Len(imu_queue')
  BY <1>2
<1> QED BY <1>1, <1>4, <1>5, <1>6

LEMMA FewOldKept == TypeOK /\ ConnectionInv /\ FewOld /\ [Next]_vars => FewOld'
<1> SUFFICES ASSUME TypeOK, ConnectionInv, FewOld, [Next]_vars PROVE FewOld'
  OBVIOUS
<1> USE DEF queue, sampling, imuThread, flags
<1>0. arrived \in Nat /\ before \in Nat /\ imu_queue \in Seq(1..MaxSamples) /\ Len(imu_queue) \in Nat
  BY BoundsAssumption, LenProperties DEF TypeOK
<1>1. CASE ReceiveImu
  <2>1. /\ deviceConnected /\ arrived' = arrived + 1 /\ data_cb' = arrived + 1
        /\ UNCHANGED <<imu_queue, imu_sample, before, deviceConnected, device_cb>>
    BY <1>1 DEF ReceiveImu
  <2>2. arrived + 1 > before /\ before <= arrived + 1
    BY <1>0 DEF FewOld
  <2> QED BY <2>1, <2>2 DEF FewOld
<1>2. CASE QueueImu \/ ImuTake
  BY <1>2, FewOldQueued, FewOldTaken
<1>3. CASE ImuPublish
  <2>1. /\ imu_sample' = 0
        /\ UNCHANGED <<imu_queue, data_cb, arrived, before, deviceConnected, device_cb>>
    BY <1>3 DEF ImuPublish, OnlyImu
  <2> QED BY <2>1 DEF FewOld
<1>4. CASE JoinImuThread \/ ClearQueues
  <2>1. /\ imu_queue' = <<>> /\ ~deviceConnected /\ UNCHANGED <<arrived, before, deviceConnected>>
    BY <1>4 DEF JoinImuThread, ClearQueues, ImuThreadJoined, Step, ConnectionInv
  <2> QED BY <2>1 DEF FewOld
<1>5. CASE SignalJoinsImu
  <2>1. /\ imu_queue' = <<>>
        /\ UNCHANGED <<imu_sample, data_cb, arrived, before, deviceConnected, device_cb>>
    BY <1>5 DEF SignalJoinsImu, ImuThreadJoined
  <2> QED BY <2>1 DEF FewOld
<1>6. CASE Connect
  <2>1. /\ ~deviceConnected /\ device_cb = "connect" /\ device_cb' = "start_imu" /\ before' = arrived
        /\ deviceConnected' = TRUE /\ UNCHANGED <<imu_queue, imu_sample, data_cb, arrived>>
    BY <1>6 DEF Connect, Step, ConnectionInv
  <2>2. Len(imu_queue) <= 1 /\ (data_cb # 0 => imu_queue = <<>>)
    BY <2>1 DEF FewOld
  <2> QED BY <1>0, <2>1, <2>2 DEF FewOld
<1>7. CASE StartImuThread
  <2>1. /\ device_cb = "start_imu" /\ device_cb' = "stop_old_monitor"
        /\ UNCHANGED <<imu_queue, imu_sample, data_cb, arrived, before, deviceConnected>>
    BY <1>7 DEF StartImuThread, Step
  <2>2. imu_sample = 0
    BY <1>7, <2>1 DEF StartImuThread, ConnectionInv
  <2> QED BY <2>1, <2>2 DEF FewOld
<1>8. CASE Detach
  <2>1. /\ device_cb' = "stop_imu" /\ deviceConnected' = FALSE /\ UNCHANGED <<arrived, before>>
    BY <1>8 DEF Detach, Step
  <2> QED BY <2>1 DEF FewOld
<1>9. CASE ImuTop \/ ImuLock \/ ImuPredicate \/ ImuSleep \/ ImuLeaveDrain \/ ImuLockAgain \/ ImuSpuriousWake
  BY <1>9, FewOldUnchanged
  DEF ImuTop, ImuLock, ImuPredicate, ImuSleep, ImuLeaveDrain, ImuLockAgain, ImuSpuriousWake, OnlyImu
<1>10. CASE LeaveWait \/ ServiceRequest \/ ReadCommand \/ Main \/ SaverCalls \/ SaverEnds \/ Signal \/ MonitorEnds
  BY <1>10, FewOldUnchanged
  DEF LeaveWait, ServiceRequest, ReadCommand, Main, ServiceCall, SetParameter, SaveMap, SaverCalls,
      SaverEnds, Signal, MonitorEnds, OnlyMain
<1>11. CASE SignalStopsImu \/ SignalStopsMonitor \/ SignalStopsStream \/ SignalResets \/ SignalExits
  BY <1>11, FewOldUnchanged
  DEF SignalStopsImu, SignalStopsMonitor, SignalStopsStream, SignalResets, SignalExits, OnlyMain
<1>12. CASE Attach
  BY <1>12, FewOldUnchanged DEF Attach
<1>13. CASE ForgetOldDevice \/ CreateDevice \/ CheckVersion \/ OpenDevice \/ FetchCalibration
  BY <1>13, FewOldUnchanged
  DEF ForgetOldDevice, CreateDevice, CheckVersion, OpenDevice, FetchCalibration, Step, OnlyDevice
<1>14. CASE SetDepthParameter \/ SetMode \/ SetRelocalizationMap \/ StartStream
  BY <1>14, FewOldUnchanged
  DEF SetDepthParameter, SetMode, SetRelocalizationMap, StartStream, Step, OnlyDevice
<1>15. CASE CloseDevice \/ DestroyDevice \/ ClearDevice
  BY <1>15, FewOldUnchanged DEF CloseDevice, DestroyDevice, ClearDevice, Step, OnlyDevice
<1>16. CASE StopOldMonitor \/ StartMonitor
  BY <1>16, FewOldUnchanged DEF StopOldMonitor, StartMonitor, Step
<1>17. CASE StopImuThread \/ StopMonitor
  BY <1>17, FewOldUnchanged DEF StopImuThread, StopMonitor, Step
<1>18. CASE UNCHANGED vars
  BY <1>18, FewOldUnchanged DEF vars
<1> QED BY <1>1, <1>2, <1>3, <1>4, <1>5, <1>6, <1>7, <1>8, <1>9, <1>10, <1>11, <1>12, <1>13, <1>14,
           <1>15, <1>16, <1>17, <1>18
DEF Next, ImuThread, DeviceCallback, SignalHandler

\* Where an old sample can be: with the thread, or else first in the queue, or
\* else, when the queue is empty, with the callback.
LEMMA OldOneStale == TypeOK /\ FewOld => AtMostOneStale
<1> DEFINE old == {i \in 1..Len(Pipeline) : Pipeline[i] > published /\ Pipeline[i] <= before}
           n == Len(imu_queue)
<1> SUFFICES ASSUME TypeOK, FewOld, deviceConnected, device_cb = "idle"
             PROVE  Cardinality(old) <= 1
  BY DEF AtMostOneStale
<1>1. /\ n \in Nat /\ published \in Nat /\ before \in Nat /\ arrived \in Nat /\ imu_sample \in Nat
      /\ data_cb \in Nat /\ \A i \in 1..n : imu_queue[i] \in Nat
  BY BoundsAssumption, LenProperties DEF TypeOK
<1>2. \A i \in old : i \in 1..(n + 3) /\ i # 1
  BY <1>1, PipelineAt
<1>3. 2 \in old => imu_sample # 0
  BY <1>1, PipelineAt
<1>4. ASSUME NEW i \in old, i \in 3..(n + 2) PROVE i = 3 /\ imu_sample = 0 /\ n # 0
  <2>1. i - 2 \in 1..n
    BY <1>1, <1>4
  <2>2. Pipeline[i] = imu_queue[i - 2] /\ Pipeline[i] <= before
    <3>1. Pipeline[(i - 2) + 2] = imu_queue[i - 2]
      BY <2>1, PipelineAt
    <3>2. (i - 2) + 2 = i
      BY <1>1, <1>4
    <3> QED BY <3>1, <3>2
  <2>3. ~(imu_queue[i - 2] > before)
    BY <1>1, <2>1, <2>2
  <2>4. i - 2 \notin 2..n
    BY <2>3 DEF FewOld
  <2>5. imu_sample = 0
    BY <2>1, <2>3 DEF FewOld
  <2> QED BY <1>1, <1>4, <2>1, <2>4, <2>5
<1>5. n + 3 \in old => imu_sample = 0 /\ n = 0
  <2>1. SUFFICES ASSUME n + 3 \in old PROVE imu_sample = 0 /\ n = 0
    OBVIOUS
  <2>2. data_cb > published /\ data_cb <= before
    BY <1>1, <2>1, PipelineAt
  <2>3. data_cb # 0 /\ ~(data_cb > before)
    BY <1>1, <2>2
  <2>4. imu_queue = <<>>
    BY <2>3 DEF FewOld
  <2> QED BY <2>3, <2>4 DEF FewOld
<1> HIDE DEF old
<1>6. ASSUME NEW i \in old, NEW j \in old PROVE i = j
  <2>1. i \in {2, n + 3} \cup 3..(n + 2) /\ j \in {2, n + 3} \cup 3..(n + 2)
    BY <1>1, <1>2
  <2> HIDE DEF n
  <2> QED BY <1>1, <1>3, <1>4, <1>5, <2>1
<1>7. CASE old = {}
  BY <1>7, FS_EmptySet
<1>8. CASE old # {}
  <2>1. PICK i \in old : TRUE
    BY <1>8
  <2>2. old = {i}
    BY <1>6, <2>1
  <2>3. Cardinality(old) = 1
    BY <2>2, FS_Singleton
  <2> QED BY <2>3
<1> QED BY <1>7, <1>8

\* Of the samples of an earlier connection at most one is still to be published,
\* however long the queue and however often the device comes and goes: the flag
\* the callback reads before it queues is stale for one sample
\* (host_sdk_sample.cpp:1009).
THEOREM OldSamplesFew == Spec => []AtMostOneStale
<1>1. Init => ConnectionInv /\ FewOld
  BY DEF Init, ConnectionInv, FewOld
<1>2. DeviceSound => TypeOK
  BY DEF DeviceSound
<1>3. Spec => []DeviceSound
  BY DeviceIsSound
<1>4. TypeOK /\ FewOld => AtMostOneStale
  BY OldOneStale
<1> QED BY <1>1, <1>2, <1>3, <1>4, ConnectionKept, FewOldKept, PTL DEF Spec
=============================================================================
