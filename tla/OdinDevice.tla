------------------------------ MODULE OdinDevice ------------------------------
(***************************************************************************)
(* The life of the device in the odin driver (host_sdk_sample.cpp).        *)
(*                                                                         *)
(* The Odin SDK calls lidar_device_callback on a thread of its own when    *)
(* the device comes and goes, and lidar_data_callback on others.  The main *)
(* thread answers services, reads the command file and runs the signal     *)
(* handler.  The driver adds a thread that publishes IMU samples, one that *)
(* watches parameters and a detached one that saves the map.  They share   *)
(* odinDevice, a few flags and the IMU queue.                              *)
(*                                                                         *)
(* Calls of the SDK are single steps that succeed or fail.                 *)
(***************************************************************************)
EXTENDS Integers, FiniteSets, Sequences, SequencesExt

CONSTANTS Handles,     \* bound: the device handles the SDK makes
          None,        \* no handle, no thread
          QueueLimit,  \* IMU_QUEUE_MAX_SIZE
          MapMode,     \* g_custom_map_mode
          MaxSamples   \* bound: IMU samples that arrive

ASSUME HandleAssumption == Handles \in Nat \ {0} /\ None \notin 0..Handles /\ None # "imu"
ASSUME LimitAssumption == QueueLimit \in Nat \ {0}
ASSUME MapModeAssumption == MapMode \in {0, 1, 2}
ASSUME BoundsAssumption == MaxSamples \in Nat

DeviceHandle == 1..Handles

VARIABLES main,            \* where the main thread is
          device_cb,       \* where lidar_device_callback is
          data_cb,         \* the IMU sample lidar_data_callback holds, or 0
          imu,             \* where the IMU thread is
          monitor,         \* whether custom_parameter_monitor runs
          savers,          \* the threads in lidar_save_map: the handle each
                           \* works on, 0 until it has read odinDevice
          odinDevice,
          handles,         \* handles[h]: what the SDK made of handle h
          plugged,         \* the device is there, for the SDK
          deviceConnected,
          deviceDisconnected,
          imu_running,     \* g_imu_thread_running
          imu_queue,       \* g_imu_queue
          imu_mutex,       \* who holds g_imu_queue_mutex, or None
          imu_sample,      \* the sample the IMU thread took
          monitor_running, \* g_param_monitor_running
          in_progress,     \* g_map_transfer_in_progress
          ros_object,      \* g_ros_object is set
          shutdown,        \* g_shutdown_requested
          arrived,         \* IMU samples so far
          published,       \* history: the last IMU sample published
          before,          \* history: samples that came in before the device
                           \* was last connected
          missed           \* history: the IMU thread was told to stop between
                           \* its predicate and its sleep

device == <<odinDevice, handles, plugged>>
flags == <<deviceConnected, deviceDisconnected>>
queue == <<imu_queue, imu_mutex>>
running == <<imu_running, missed>>
sampling == <<data_cb, arrived>>
imuThread == <<imu, imu_sample, published>>
monitoring == <<monitor, monitor_running>>
saving == <<savers, in_progress>>
mainThread == <<main, ros_object, shutdown>>
vars == <<mainThread, device_cb, sampling, imuThread, monitoring, saving, device, flags,
          running, queue, before>>

Init ==
    /\ main = "wait" /\ device_cb = "idle" /\ data_cb = 0 /\ imu = "none" /\ monitor = FALSE
    /\ savers = <<>> /\ odinDevice = None
    /\ handles = [h \in DeviceHandle |-> "free"]
    /\ plugged = FALSE /\ deviceConnected = FALSE /\ deviceDisconnected = FALSE
    /\ imu_running = FALSE /\ imu_queue = <<>> /\ imu_mutex = None /\ imu_sample = 0
    /\ monitor_running = FALSE /\ in_progress = FALSE
    /\ ros_object = TRUE /\ shutdown = FALSE
    /\ arrived = 0 /\ published = 0 /\ before = 0 /\ missed = FALSE

Alive == main # "exited"

-----------------------------------------------------------------------------
(* lidar_device_callback, the device comes.                                 *)

\* One step of the callback: what it does to odinDevice and the handles.
Step(from, to) == device_cb = from /\ device_cb' = to
Marked(s) == IF odinDevice = None THEN handles ELSE [handles EXCEPT ![odinDevice] = s]
OnlyDevice == UNCHANGED <<mainThread, sampling, imuThread, monitoring, saving, flags,
                          running, queue, before>>

\* The SDK finds the device; the driver ends if it is behind USB 2.
Attach ==
    /\ Alive /\ device_cb = "idle" /\ ~plugged /\ main # "signal_exit"
    /\ \E h \in DeviceHandle : handles[h] = "free"
    /\ plugged' = TRUE
    /\ \/ device_cb' = "forget" /\ UNCHANGED main
       \/ main' = "exited" /\ UNCHANGED device_cb
    /\ UNCHANGED <<ros_object, shutdown, sampling, imuThread, monitoring, saving,
                   odinDevice, handles, flags, running, queue, before>>

ForgetOldDevice ==
    /\ Alive /\ Step("forget", "create")
    /\ odinDevice' = None
    /\ UNCHANGED <<handles, plugged>> /\ OnlyDevice

CreateDevice ==
    /\ Alive
    /\ \/ /\ Step("create", "version")
          /\ \E h \in DeviceHandle :
                 /\ handles[h] = "free" /\ \A g \in DeviceHandle : handles[g] = "free" => h <= g
                 /\ handles' = [handles EXCEPT ![h] = "created"] /\ odinDevice' = h
       \/ Step("create", "idle") /\ UNCHANGED <<odinDevice, handles>>
    /\ UNCHANGED plugged /\ OnlyDevice

\* The firmware cannot be read or is too old: the driver ends.  The encrypted
\* log cannot be enabled, or a minute has passed: the device is given up.
CheckVersion ==
    /\ Alive /\ UNCHANGED device
    /\ \/ Step("version", "open") /\ OnlyDevice
       \/ Step("version", "close") /\ OnlyDevice
       \/ /\ Step("version", "version") /\ main' = "exited"
          /\ UNCHANGED <<ros_object, shutdown, sampling, imuThread, monitoring, saving,
                         flags, running, queue, before>>

\* A device that is new is opened; one that is initialised or whose stream was
\* stopped stays as it is; one that is streaming ends the driver.
OpenDevice ==
    /\ Alive
    /\ \/ /\ Step("open", "calib")
          /\ handles' = Marked("open")
          /\ UNCHANGED <<odinDevice, plugged>> /\ OnlyDevice
       \/ Step("open", "calib") /\ UNCHANGED device /\ OnlyDevice
       \/ Step("open", "destroy") /\ UNCHANGED device /\ OnlyDevice
       \/ /\ Step("open", "open") /\ main' = "exited"
          /\ UNCHANGED <<device, ros_object, shutdown, sampling, imuThread, monitoring,
                         saving, flags, running, queue, before>>

FetchCalibration ==
    /\ Alive /\ UNCHANGED device /\ OnlyDevice
    /\ Step("calib", "depth") \/ Step("calib", "close")

\* The device is left as it is when its frame rate cannot be set.
SetDepthParameter ==
    /\ Alive /\ UNCHANGED device /\ OnlyDevice
    /\ Step("depth", "mode") \/ Step("depth", "idle")

\* The mode, and the map to find oneself in, which is sent up to three times.
SetMode ==
    /\ Alive /\ UNCHANGED device /\ OnlyDevice
    /\ \/ Step("mode", IF MapMode = 2 THEN "map" ELSE "stream")
       \/ Step("mode", "close")

SetRelocalizationMap ==
    /\ Alive /\ UNCHANGED device /\ OnlyDevice
    /\ Step("map", "stream") \/ Step("map", "close")

\* Registers lidar_data_callback and starts the stream.
StartStream ==
    /\ Alive /\ UNCHANGED device /\ OnlyDevice
    /\ Step("stream", "connect") \/ Step("stream", "close")

CloseDevice ==
    /\ Alive /\ Step("close", "destroy")
    /\ handles' = Marked("closed")
    /\ UNCHANGED <<odinDevice, plugged>> /\ OnlyDevice

DestroyDevice ==
    /\ Alive /\ Step("destroy", "clear")
    /\ handles' = Marked("destroyed")
    /\ UNCHANGED <<odinDevice, plugged>> /\ OnlyDevice

\* Mutant: The handle is kept.
ClearDeviceNot == Alive /\ Step("clear", "idle") /\ UNCHANGED device /\ OnlyDevice

ClearDevice ==
    /\ Alive /\ Step("clear", "idle")
    /\ odinDevice' = None
    /\ UNCHANGED <<handles, plugged>> /\ OnlyDevice

Connect ==
    /\ Alive /\ Step("connect", "start_imu")
    /\ deviceConnected' = TRUE /\ deviceDisconnected' = FALSE
    /\ before' = arrived
    /\ UNCHANGED <<device, mainThread, sampling, imuThread, monitoring, saving, running, queue>>

\* start_imu_thread: the old thread has left before a new one is made.
StartImuThread ==
    /\ Alive /\ Step("start_imu", "stop_old_monitor")
    /\ IF imu_running THEN UNCHANGED <<imu, imu_running>>
       ELSE imu \in {"none", "done"} /\ imu_running' = TRUE /\ imu' = "top"
    /\ UNCHANGED <<missed, device, mainThread, sampling, imu_sample, published, monitoring, saving,
                   flags, queue, before>>

StopOldMonitor ==
    /\ Alive /\ Step("stop_old_monitor", "start_monitor")
    /\ monitor_running' = FALSE
    /\ UNCHANGED <<device, mainThread, sampling, imuThread, monitor, saving, flags, running,
                   queue, before>>

StartMonitor ==
    /\ Alive /\ Step("start_monitor", "idle") /\ ~monitor
    /\ monitor_running' = TRUE /\ monitor' = TRUE
    /\ UNCHANGED <<device, mainThread, sampling, imuThread, saving, flags, running, queue, before>>

-----------------------------------------------------------------------------
(* lidar_device_callback, the device goes.  odinDevice stays as it is.      *)

Detach ==
    /\ Alive /\ plugged /\ Step("idle", "stop_imu")
    /\ main # "signal_exit"
    /\ plugged' = FALSE
    /\ deviceConnected' = FALSE /\ deviceDisconnected' = TRUE
    /\ UNCHANGED <<odinDevice, handles, mainThread, sampling, imuThread, monitoring, saving,
                   running, queue, before>>

\* A thread asleep in the condition variable wants the mutex when it is woken.
Woken(i) == IF i = "asleep" THEN "relock" ELSE i

\* Mutant: The IMU thread is not notified.
LowerImuFlagSilent == imu_running' = FALSE /\ UNCHANGED <<imu, missed>>

\* stop_imu_thread, by the device callback or the signal handler: the flag is
\* changed and the thread notified without the mutex.
LowerImuFlag ==
    /\ imu_running' = FALSE
    /\ imu' = IF imu_running THEN Woken(imu) ELSE imu
    /\ missed' = (missed \/ (imu_running /\ imu = "wait"))

StopImuThread ==
    /\ Alive /\ Step("stop_imu", IF imu_running THEN "join_imu" ELSE "stop_monitor")
    /\ LowerImuFlag
    /\ UNCHANGED <<device, mainThread, sampling, imu_sample, published, monitoring, saving, flags,
                   queue, before>>

\* The shutdown can make two threads join it; they return together.
ImuThreadJoined == imu \in {"none", "done"} /\ imu_mutex = None /\ imu' = "none" /\ imu_queue' = <<>>

JoinImuThread ==
    /\ Alive /\ Step("join_imu", "stop_monitor") /\ ImuThreadJoined
    /\ UNCHANGED <<device, mainThread, sampling, imu_sample, published, monitoring, saving, flags,
                   running, imu_mutex, before>>

StopMonitor ==
    /\ Alive /\ Step("stop_monitor", "clear_queues")
    /\ monitor_running' = FALSE
    /\ UNCHANGED <<device, mainThread, sampling, imuThread, monitor, saving, flags, running,
                   queue, before>>

\* Joins the monitor and clears the queues (clear_all_queues).
ClearQueues ==
    /\ Alive /\ Step("clear_queues", "idle")
    /\ ~monitor /\ imu_mutex = None
    /\ imu_queue' = <<>>
    /\ UNCHANGED <<device, mainThread, sampling, imuThread, monitoring, saving, flags, running,
                   imu_mutex, before>>

-----------------------------------------------------------------------------
(* lidar_data_callback with an IMU sample: looks whether the device is      *)
(* connected, and queues the sample later.                                  *)

\* Mutant: Samples are taken when the device is not connected.
ReceiveImuAlways ==
    /\ Alive /\ data_cb = 0 /\ arrived < MaxSamples /\ odinDevice # None /\ ros_object
    /\ arrived' = arrived + 1 /\ data_cb' = arrived + 1
    /\ UNCHANGED <<device, mainThread, device_cb, imuThread, monitoring, saving, flags, running,
                   queue, before>>

ReceiveImu ==
    /\ Alive /\ data_cb = 0 /\ arrived < MaxSamples
    /\ odinDevice # None /\ deviceConnected /\ ros_object
    /\ arrived' = arrived + 1 /\ data_cb' = arrived + 1
    /\ UNCHANGED <<device, mainThread, device_cb, imuThread, monitoring, saving, flags, running,
                   queue, before>>

Queueing(queued, woken) ==
    /\ Alive /\ data_cb # 0 /\ imu_mutex = None
    /\ imu_queue' = queued /\ imu' = woken /\ data_cb' = 0
    /\ UNCHANGED <<device, mainThread, device_cb, arrived, imu_sample, published, monitoring,
                   saving, flags, running, imu_mutex, before>>

\* Mutant: The limit is off by one.
QueuedImuOverLimit ==
    Append(IF Len(imu_queue) > QueueLimit THEN Tail(imu_queue) ELSE imu_queue, data_cb)

QueuedImu ==
    Append(IF Len(imu_queue) >= QueueLimit THEN Tail(imu_queue) ELSE imu_queue, data_cb)

\* Mutant: Nobody is notified.
QueueImuSilent == Queueing(QueuedImu, imu)

QueueImu == Queueing(QueuedImu, Woken(imu))

-----------------------------------------------------------------------------
(* imu_thread_routine.                                                      *)

ImuGoto(from, to) == imu = from /\ imu' = to
OnlyImu == UNCHANGED <<device, mainThread, device_cb, sampling, monitoring, saving, flags,
                       running, before>>

ImuTop ==
    /\ Alive /\ ImuGoto("top", IF imu_running THEN "relock" ELSE "done")
    /\ UNCHANGED <<queue, imu_sample, published>> /\ OnlyImu

ImuLock ==
    /\ Alive /\ imu_mutex = None /\ ImuGoto("relock", "predicate")
    /\ imu_mutex' = "imu"
    /\ UNCHANGED <<imu_queue, imu_sample, published>> /\ OnlyImu

\* The predicate of the wait.
ImuPredicate ==
    /\ Alive
    /\ ImuGoto("predicate", IF imu_queue # <<>> \/ ~imu_running THEN "drain" ELSE "wait")
    /\ UNCHANGED <<queue, imu_sample, published>> /\ OnlyImu

ImuSleep ==
    /\ Alive /\ ImuGoto("wait", "asleep")
    /\ imu_mutex' = None
    /\ UNCHANGED <<imu_queue, imu_sample, published>> /\ OnlyImu

\* A condition variable may wake up for no reason.
ImuSpuriousWake ==
    /\ Alive /\ ImuGoto("asleep", "relock")
    /\ UNCHANGED <<queue, imu_sample, published>> /\ OnlyImu

\* Mutant: The sample stays in the queue.
ImuTakeFront ==
    /\ Alive /\ imu_queue # <<>> /\ imu_running /\ ImuGoto("drain", "publish")
    /\ imu_sample' = Head(imu_queue) /\ imu_mutex' = None
    /\ UNCHANGED <<imu_queue, published>> /\ OnlyImu

\* Takes the next sample and lets go of the mutex.
ImuTake ==
    /\ Alive /\ imu_queue # <<>> /\ imu_running /\ ImuGoto("drain", "publish")
    /\ imu_sample' = Head(imu_queue) /\ imu_queue' = Tail(imu_queue)
    /\ imu_mutex' = None
    /\ UNCHANGED published /\ OnlyImu

\* The loop over the queue has ended, or the flag is down.
ImuLeaveDrain ==
    /\ Alive /\ (imu_queue = <<>> \/ ~imu_running) /\ ImuGoto("drain", "top")
    /\ imu_mutex' = None
    /\ UNCHANGED <<imu_queue, imu_sample, published>> /\ OnlyImu

ImuPublish ==
    /\ Alive /\ ImuGoto("publish", "drain_lock")
    /\ published' = IF ros_object THEN imu_sample ELSE published
    /\ imu_sample' = 0
    /\ UNCHANGED queue /\ OnlyImu

ImuLockAgain ==
    /\ Alive /\ imu_mutex = None /\ ImuGoto("drain_lock", "drain")
    /\ imu_mutex' = "imu"
    /\ UNCHANGED <<imu_queue, imu_sample, published>> /\ OnlyImu

\* custom_parameter_monitor looks once a second.
MonitorEnds ==
    /\ Alive /\ monitor /\ ~(monitor_running /\ deviceConnected)
    /\ monitor' = FALSE
    /\ UNCHANGED <<device, mainThread, device_cb, sampling, imuThread, monitor_running, saving, flags,
                   running, queue, before>>

-----------------------------------------------------------------------------
(* The main thread.                                                         *)

MainGoto(from, to) == main = from /\ main' = to
OnlyMain == UNCHANGED <<device, device_cb, sampling, imuThread, monitoring, flags, running,
                        queue, before>>

\* The loop that waits for the first connection ends, or finds that the device
\* is behind USB 2 and ends the driver.
LeaveWait ==
    /\ \/ deviceConnected /\ MainGoto("wait", "loop")
       \/ ~deviceConnected /\ plugged /\ MainGoto("wait", "exited")
    /\ UNCHANGED <<ros_object, shutdown, saving>> /\ OnlyMain

\* A service sees whether there is a device, and asks for it again when it calls.
ServiceRequest ==
    /\ MainGoto("loop", IF odinDevice = None THEN "loop" ELSE "service")
    /\ UNCHANGED <<ros_object, shutdown, saving>> /\ OnlyMain

ServiceCall ==
    /\ MainGoto("service", "loop")
    /\ UNCHANGED <<ros_object, shutdown, saving>> /\ OnlyMain

\* A command file, read only while the device is connected.
ReadCommand ==
    /\ ~deviceDisconnected /\ deviceConnected
    /\ MainGoto("loop", IF odinDevice = None THEN "loop" ELSE "command")
    /\ UNCHANGED <<ros_object, shutdown, saving>> /\ OnlyMain

SetParameter ==
    /\ MainGoto("command", "loop")
    /\ UNCHANGED <<ros_object, shutdown, saving>> /\ OnlyMain

\* Mutant: Whether a map is being saved is not looked at.
SaveMapUnchecked ==
    /\ \E from \in {"service", "command"} : MainGoto(from, "loop")
    /\ in_progress' = TRUE /\ savers' = Append(savers, 0)
    /\ UNCHANGED <<ros_object, shutdown>> /\ OnlyMain

\* The service or the command save_map with value 1: the flag goes up before
\* the thread is made, and a second request is turned down.
SaveMap ==
    /\ \E from \in {"service", "command"} : MainGoto(from, "loop")
    /\ IF in_progress THEN UNCHANGED saving
       ELSE in_progress' = TRUE /\ savers' = Append(savers, 0)
    /\ UNCHANGED <<ros_object, shutdown>> /\ OnlyMain

SaverCalls ==
    /\ Alive
    /\ \E i \in 1..Len(savers) : savers[i] = 0 /\ savers' = [savers EXCEPT ![i] = odinDevice]
    /\ UNCHANGED <<in_progress, mainThread>> /\ OnlyMain

SaverEnds ==
    /\ Alive
    /\ \E i \in 1..Len(savers) : savers[i] # 0 /\ savers' = RemoveAt(savers, i)
    /\ in_progress' = FALSE
    /\ UNCHANGED mainThread /\ OnlyMain

-----------------------------------------------------------------------------
(* signal_handler, on the main thread, which never goes on with what it did. *)

Signal ==
    /\ \E from \in {"wait", "loop", "service", "command"} : MainGoto(from, "signal")
    /\ shutdown' = TRUE
    /\ UNCHANGED <<ros_object, saving>> /\ OnlyMain

SignalStopsImu ==
    /\ MainGoto("signal", IF imu_running THEN "signal_join" ELSE "signal_monitor")
    /\ LowerImuFlag
    /\ UNCHANGED <<ros_object, shutdown, saving, device, device_cb, sampling, imu_sample,
                   published, monitoring, flags, queue, before>>

SignalJoinsImu ==
    /\ MainGoto("signal_join", "signal_monitor") /\ ImuThreadJoined
    /\ UNCHANGED <<ros_object, shutdown, saving, device, device_cb, sampling, imu_sample,
                   published, monitoring, flags, running, imu_mutex, before>>

\* Mutant: The monitor is joined without being told to stop.
SignalStopsMonitorNot ==
    /\ MainGoto("signal_monitor", "signal_stream")
    /\ UNCHANGED <<ros_object, shutdown, saving>> /\ OnlyMain

SignalStopsMonitor ==
    /\ MainGoto("signal_monitor", "signal_stream")
    /\ monitor_running' = FALSE
    /\ UNCHANGED <<ros_object, shutdown, saving, device, device_cb, sampling, imuThread,
                   monitor, flags, running, queue, before>>

\* Joins the monitor, stops the stream and forgets the device.
SignalStopsStream ==
    /\ ~monitor /\ MainGoto("signal_stream", "signal_reset")
    /\ odinDevice' = None
    /\ UNCHANGED <<ros_object, shutdown, saving, handles, plugged, device_cb, sampling,
                   imuThread, monitoring, flags, running, queue, before>>

\* lidar_system_deinit, and g_ros_object.reset().
SignalResets ==
    /\ MainGoto("signal_reset", "signal_exit")
    /\ ros_object' = FALSE
    /\ UNCHANGED <<shutdown, saving>> /\ OnlyMain

SignalExits ==
    /\ MainGoto("signal_exit", "exited")
    /\ UNCHANGED <<ros_object, shutdown, saving>> /\ OnlyMain

-----------------------------------------------------------------------------
DeviceCallback ==
    \/ ForgetOldDevice \/ CreateDevice \/ CheckVersion \/ OpenDevice \/ FetchCalibration
    \/ SetDepthParameter \/ SetMode \/ SetRelocalizationMap \/ StartStream
    \/ CloseDevice \/ DestroyDevice \/ ClearDevice
    \/ Connect \/ StartImuThread \/ StopOldMonitor \/ StartMonitor
    \/ StopImuThread \/ JoinImuThread \/ StopMonitor \/ ClearQueues

ImuThread == \/ ImuTop \/ ImuLock \/ ImuPredicate \/ ImuSleep
             \/ ImuTake \/ ImuLeaveDrain \/ ImuPublish \/ ImuLockAgain

Main == ServiceCall \/ SetParameter \/ SaveMap

SignalHandler == \/ SignalStopsImu \/ SignalJoinsImu \/ SignalStopsMonitor
                 \/ SignalStopsStream \/ SignalResets \/ SignalExits

Next ==
    \/ Attach \/ Detach \/ DeviceCallback
    \/ ReceiveImu \/ QueueImu
    \/ ImuThread \/ ImuSpuriousWake \/ MonitorEnds
    \/ LeaveWait \/ ServiceRequest \/ ReadCommand \/ Main \/ SaverCalls \/ SaverEnds
    \/ Signal \/ SignalHandler

Spec == Init /\ [][Next]_vars

\* Threads that can go on do; nothing makes the device come or go, or anybody
\* ask for something.
Fairness == /\ WF_vars(DeviceCallback) /\ WF_vars(QueueImu) /\ WF_vars(ImuThread)
            /\ WF_vars(MonitorEnds) /\ WF_vars(Main) /\ WF_vars(SignalHandler)

FairSpec == Spec /\ Fairness

-----------------------------------------------------------------------------
TypeOK ==
    /\ main \in {"wait", "loop", "service", "command", "signal", "signal_join", "signal_monitor",
                 "signal_stream", "signal_reset", "signal_exit", "exited"}
    /\ device_cb \in {"idle", "forget", "create", "version", "open", "calib", "depth", "mode", "map",
                      "stream", "close", "destroy", "clear", "connect", "start_imu",
                      "stop_old_monitor", "start_monitor", "stop_imu", "join_imu", "stop_monitor",
                      "clear_queues"}
    /\ data_cb \in 0..MaxSamples /\ arrived \in 0..MaxSamples /\ before \in 0..MaxSamples
    /\ imu \in {"none", "top", "relock", "predicate", "wait", "asleep", "drain", "publish",
                "drain_lock", "done"}
    /\ imu_sample \in 0..MaxSamples /\ published \in 0..MaxSamples
    /\ monitor \in BOOLEAN /\ monitor_running \in BOOLEAN
    /\ savers \in Seq(DeviceHandle \cup {0, None}) /\ in_progress \in BOOLEAN
    /\ odinDevice \in DeviceHandle \cup {None}
    /\ handles \in [DeviceHandle -> {"free", "created", "open", "closed", "destroyed"}]
    /\ plugged \in BOOLEAN /\ deviceConnected \in BOOLEAN /\ deviceDisconnected \in BOOLEAN
    /\ imu_running \in BOOLEAN /\ missed \in BOOLEAN
    /\ imu_queue \in Seq(1..MaxSamples) /\ Len(imu_queue) <= QueueLimit
    /\ imu_mutex \in {"imu", None}
    /\ ros_object \in BOOLEAN /\ shutdown \in BOOLEAN

\* One map is saved at a time, whoever asks: the flag is up exactly while a
\* thread saves (host_sdk_sample.cpp:541).
AtMostOneTransfer == Len(savers) <= 1 /\ (in_progress <=> savers # <<>>)

\* However the attempt to connect ended, the handle the services go on using is
\* one the SDK has not destroyed.
KeptHandleLive ==
    device_cb = "idle" /\ odinDevice # None => handles[odinDevice] \in {"created", "open"}

\* What the threads share about the device is consistent: types, one transfer, a
\* live handle.
DeviceSound == TypeOK /\ AtMostOneTransfer /\ KeptHandleLive

\* The samples published, taken, queued and arriving, in that order; 0 is none.
Pipeline == <<published, imu_sample>> \o imu_queue \o <<data_cb>>

\* IMU samples are published in the order they came in, none twice, although
\* the queue drops its oldest while the thread publishes without the mutex.
ImuInOrder ==
    \A i, j \in 1..Len(Pipeline) :
        i < j /\ Pipeline[i] # 0 /\ Pipeline[j] # 0 => Pipeline[i] < Pipeline[j]

\* Of the samples of an earlier connection at most one is still to be published
\* in this one: the sample whose callback was under way during the detach.
AtMostOneStale ==
    deviceConnected /\ device_cb = "idle" =>
        Cardinality({i \in 1..Len(Pipeline) : Pipeline[i] > published /\ Pipeline[i] <= before}) <= 1

Gone == main = "exited"

\* While the device is connected the queue of IMU samples is worked off.
SamplesServed == imu_queue # <<>> /\ deviceConnected ~> imu_queue = <<>> \/ ~deviceConnected \/ shutdown \/ Gone

\* A detach ends, and the device can come back, unless the IMU thread missed
\* the notification that it is to stop (host_sdk_sample.cpp:985).
DetachEnds == device_cb = "join_imu" ~> device_cb # "join_imu" \/ missed \/ Gone

\* Ctrl-C ends the driver, with the same exception, unless the device comes or
\* goes meanwhile: its callback can start a monitor the handler then waits for.
ShutdownEnds == main = "signal" /\ device_cb = "idle" ~> Gone \/ missed \/ device_cb # "idle"

\* Whoever stops the threads of the driver gets to the end of it.
ThreadsJoined == DetachEnds /\ ShutdownEnds
=============================================================================
