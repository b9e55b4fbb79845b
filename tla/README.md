# A formal model of the sentry navigation workspace

This directory is the TLA+ verification development of the ROS 2 workspace in
`src/`: a RoboMaster sentry robot that reads a lidar (a Livox Mid-360 or an Odin
device), localises itself, plans with nav2 and drives its chassis over a serial
line. It models the parts of the code whose correctness depends on
interleavings, lost or reordered answers, faults, shutdown, and the order in
which messages reach the nodes; it checks them with TLC, and proves safety
properties of the drivers and of the small nodes with TLAPS for every value of
the constants.

1. [The system](#1-the-system)
2. [The modules](#2-the-modules)
3. [The runs](#3-the-runs)
4. [Bounds](#4-bounds)
5. [Fairness](#5-fairness)
6. [The proofs](#6-the-proofs)
7. [What the checks found](#7-what-the-checks-found)
8. [What is not modelled, and what was seen on the way](#8-what-is-not-modelled-and-what-was-seen-on-the-way)
9. [Plan](#9-plan)

To run: `tlc -config MC_LivoxPoll.cfg LivoxPoll` and likewise for every run of
section 3; `tlapm M.tla` for the eight modules of section 6.

## 1. The system

Data flows through the workspace as follows; every arrow between packages is a
ROS topic or a transform, every arrow inside a package a call or shared memory.

```
Livox SDK threads --> PubHandler --> Lds: a ring per lidar --> Lddc pollers --> /livox/lidar, /livox/imu
                                     (semaphores, device table)
/livox/* --> point_lio --> loam_interface --> sensor_scan_generation --> terrain_analysis(_ext) --> nav2
                       \-> small_gicp_relocalization  (transform map -> odom)
odin device --> odin_ros_driver --> odin_interface --> (instead of point_lio + loam_interface)
nav2 controller (pb_omni_pid_pursuit_controller), behaviours (pb_nav2_plugins), pb_teleop_twist_joy
      --> fake_vel_transform --> pb_serial_comm --> lower computer (STM32)
```

| component | state it keeps | operations | what is hard | what makes it correct | modules |
|---|---|---|---|---|---|
| `livox_ros_driver2` ring (`comm/ldq`) | slots, `rd_idx`, `wr_idx`, `mask` per lidar | `InitQueue`, `QueuePushAny`, `QueuePop` | two threads, no lock, indices that wrap | a FIFO: whole frames, once, in order; lost only when full | `Ldq`, `BoundedFifo`, `QueueSizing` |
| its publishing (`lds`, `lddc`, `driver_node`, `semaphore`) | counts of two semaphores, IMU lists, `connect_state`, `request_exit_`, the exit promise | `StoragePointData`, `StorageImuData`, `Distribute*Data`, `Polling*`, `~DriverNode` | count read without the mutex, lidars that start late, shutdown of sleeping threads | no lost wake-up, every frame published, the destructor returns | `LivoxPoll` |
| its configuration (`livox_lidar_callback`, `cache_index`, `lds_lidar`) | device table, `set_bits`, `connect_state` | `LidarInfoChangeCallback`, seven answer callbacks, `GetFreeIndex` | callbacks on several SDK threads, time-outs, refusals | one device per lidar, published only when configured, retries end | `LivoxConfig` |
| its frame assembly (`pub_handler`) | queue of raw packets, a point buffer per lidar, publishing clock | `OnLivoxLidarPointCloudCallback`, `RawDataProcess`, `CheckTimer` | two time bases, catch-up after pauses, exit while packets wait | every point published in one frame, frames at the interval | `PubHandler`, `FrameCutter` |
| `pb_serial_comm` codec (`frame.cpp`) | none | `crc16`, `packFrame`, `parseFrames` | bytes in the data that look like delimiters | every frame found, no damaged one accepted | `SerialFrame` |
| `pb_serial_comm` node | the port, the frame being read, `running_` | `receiveLoop`, `open`/`close`, callbacks that send | lost bytes, starting mid-frame, unplugging, shutdown | nothing published that was not sent, everything on a clean line | `SerialLink` |
| `odin_ros_driver`: the device | `deviceConnected`, `odinDevice`, IMU queue, map-transfer flag, threads | device callback, data callback, services, command file, signal handler | device detached at any time, threads joined from callbacks, detached threads | threads stop, no use of a destroyed handle, one map transfer, samples in order | `OdinDevice` |
| its start (`main`, `yaml_parser`) | settings, directories, mode | `loadConfig`, USB checks, set-up of the device | keys of the wrong kind, missing directories | the settings in force are the file's | `OdinStartup` |
| its streams and transforms | rates, the clock offset, pending images and clouds, last transform | one branch of the data callback per stream, the renderer's pairing, the republishing thread | streams of different rates, clocks, a thread that invents stamps | pairs in order, stamps that increase, recorded by the rule that published | `OdinStreams`, `OdinPairing`, `OdinTf` |
| its recording (`data_logger.h`) | two buffers, a writer thread, files | `enqueue`, rotation, `shutdown` | buffers swapped while callbacks write | every record once and in order | `OdinRecord` |
| its calibration and image nodes | `calib.yaml`, tables, last image | renderer, depth image, reprojection, overlay | a file written and read by four parties, roundings | lens and extrinsics of one whole file, points where they are seen | `Calibration`, `CloudImages` |
| `odin_interface` | odom -> lidar transform, cached imu -> lidar | odometry, cloud, 10 Hz map timer | reads the transform tree it writes | scans in odom; map -> odom is odin's | `OdinInterface`, `MapOdom`, `ScanFrames` |
| `point_lio` | scan and IMU queues, `lidar_pushed`, `imu_pushed`, the ivox map | three callbacks, `sync_packages`, the filter's order, the preprocessing, the map | pairing two streams by time, loop-back of time stamps, cutting, capacity | scans and samples used once and in order, points timed right, the map covers | `ScanSync`, `Preprocess`, `LocalMap` |
| `loam_interface`, `sensor_scan_generation` | one transform | callbacks | first transform not available | frames consistent | `ScanFrames` |
| `fake_vel_transform` | latest command, angle, time of the last plan | five callbacks | a command waits for a plan | the newest command is published; the frame turns only with a command | `FakeVel` |
| `small_gicp_relocalization` | accumulated cloud, result, previous result | cloud, two timers, initial pose | result, pose and cloud from different moments | an initial pose is where the next attempt starts | `Relocalization` |
| `pb_nav2_plugins` | end time, command, initial pose; voxels | `onRun`, `onCycleUpdate`, `findBestDirection` | failures in the middle, gaps at the ends of the sweep | stops when it ends (but not when its pose is lost), moves into the widest gap | `BackUp` |
| `pb_omni_pid_pursuit_controller` | path, PID sums, limits | `setPlan`, `computeVelocityCommands`, parameters | plans that turn back, limits that change, transforms that fail unnoticed | keeps the goal, stops before obstacles it can place | `OmniPid` |
| `pb_teleop_twist_joy` | `sent_disable_msg_`, goal clock | `joyCallback` | release of the enable button, goals on their way | the robot stands after a release; goals spaced | `Teleop` |
| `pointcloud_to_laserscan` | subscription, `alive_` | listener thread, cloud callback | subscribing from another thread, an index at the last angle | subscribed exactly while someone listens, each ray the nearest point | `LaserScan` |
| `terrain_analysis`, `terrain_analysis_ext` | rolling grids of points | callbacks and one cycle | grids that roll, points that decay or are cleared | points stay in their place and leave in time, obstacles seen are published | `Terrain`, `TerrainExt`, `TerrainGrid` |
| `pb2025_nav_bringup` | launch files, parameters | launches under arguments, lifecycle managers | combinations nobody started | one sender of each transform | `Launch` |
| `ign_sim_pointcloud_tool`, voxel layer | | one callback each | none of control | real arithmetic | none |

`PROJECT.json` lists the components with their sources and the hazards with
their lines.

## 2. The modules

### `Ldq`: one point-cloud ring

`storage_packet`, `rd_idx`, `wr_idx`, `mask` are the fields of `LidarDataQueue`.
Every action is one access to memory the two threads share. `PushLidarData`,
`AllocateStorage`, `InitialiseIndices`, `DropFrame`, `BeginPush`, `WriteSlot`
and `AdvanceWrite` are the frame-assembly thread in `Lds::PushLidarData`;
`PollQueue`, `RecheckEmpty`, `ReadHeader`, `ReadPoints` and `QueuePopUpdate` the
polling thread in `Lddc` and `QueuePop`. A slot is a header and points, written
and read separately, so that a torn frame can be seen. The stores of a push are
`pending` until they are visible: in program order when `InOrder`, in any order
otherwise, because `rd_idx` and `wr_idx` are `volatile` and not atomic.

`BoundedFifo` is what the ring promises: accept when there is room, refuse when
full, hand over in order. `Ldq` implements it with the frames between the
indices as the queue; a push happens, seen from there, when `wr_idx` moves.

`QueueSizing` has the arithmetic around the ring: the clamped frequency, the
wanted number of frames, the power of two allocated.

### `LivoxPoll`: publishing and shutdown

Queues are counts here; what a ring does inside is the business of `Ldq`. Each
stream (`"pcd"`, `"imu"`) has a semaphore (`count`), a producing thread
(`PushLidarData`, `CheckNotEmpty`, `GetCount`, `Signal`) and a polling thread
(`StartPolling` .. `CheckExit`), which is `Distribute...Data` in the loop of
`...PollThread`. `GetCount` and `Signal` are separate steps because
`Semaphore::GetCount` takes no lock; `Wait` is one step because the condition
variable is used with a predicate under the mutex. `RequestExit`,
`SetExitSignal` and the two joins are `~DriverNode`. `BecomeSampling` is the
last acknowledgement of `LivoxConfig`. `passedOver` and `wakes` are history.

The streams differ in three places, which the actions name: an IMU list takes
any number of samples, the IMU publisher pops one sample per call, and only
point clouds have a format without a publisher (`DrainsFrames`).

### `LivoxConfig`: the device table and the options

`index` and `taken` are `map_index_` and `index_cache_`; `set_bits` and
`sampling` are fields of the devices. `LidarInfoChangeCallback` is one action
per step that another thread can come between: `FindDevice`, the two scopes of
`GetFreeIndex` (`LookAgain`, `InsertIndex` or `NoFreeIndex`), `LockConfig`, one
`RequestOption` per option, `UnlockConfig`, and the three requests that follow.
The network is a count of unanswered requests per lidar and kind, so resends and
answers that overtake each other need no queue. The four callbacks of the
options are the same code with another bit and are the same three actions. An
answer that finds no device or has no response ends the request as `PlainAnswer`
does. A device taken for a lidar that is not in the file has a zeroed
configuration, in which no option is -1, and a zero handle to which the attitude
goes in vain. The entries of the config file are taken to be different lidars.

### `PubHandler`: frames from packets

`FrameCutter` is what frame assembly promises: the points of a lidar are a
stream, and a frame takes a prefix of some of the streams. `PubHandler` has the
queue of raw packets, the packet in the thread's hands (`raw_data`), the buffers
(`points_clouds_`) and the flag `is_timestamp_sync_` that every packet of every
lidar overwrites. `CheckQuit`, `TakePacket`, `WaitForPacket`, `WakeWith...` and
`ProcessPacket` are the loop of `RawDataProcess`; nothing depends on the
notification, since the wait ends after 500 ms and looks again. `ProcessPacket`
unpacks the packet and checks the timer in one step, since only that thread
touches the buffers: `CheckSyncedTimer` or `CheckHostTimer`, by the flag at that
moment. A point is its time stamp. A synchronised lidar stamps its packets with
its own clock, another gets the time of the host, which `Tick` moves on.

### `SerialFrame` and `SerialLink`

`SerialFrame` is `frame.cpp` over real bytes with the real CRC. `ParseStep` is
one turn of the loop of `parseFrames`; the test for too few bytes, where the
code leaves the loop, is the first conjunct of `FrameAt`, which then fails at
every later position too. The test of LEN against 255 is always false and is
left out of both modules.

`SerialLink` is `receiveLoop` byte by byte: `pc` is the byte read next, `port`
what has become of the serial port, `wire` the bytes the kernel holds. `ReadFails`
is a time-out or a read error, which the code does not tell apart. The lower
computer, the line and the plug are the environment: a frame is sent byte by
byte, a byte may be lost or changed, the plug may be pulled at any moment.
Time-outs are not timed: a read may fail whenever no byte is there. The CRC is a
parameter; the instance has a checksum that is cheap to evaluate.

### `OdinDevice`: the life of the odin device

`device_cb`, `data_cb`, `imu`, `main` and `savers` are where the SDK's two kinds
of threads, the IMU thread, the main thread and the detached map savers are. The
device callback goes through its set-up (`create` .. `start_monitor`), any step
of which the SDK can refuse; each refusal takes the way through `close`,
`destroy` and `clear` that the code takes from there. A detach stops the IMU
thread, the monitor and the queues one after the other. The IMU thread's wait is
three steps (`predicate`, `wait`, `asleep`), because `stop_imu_thread` notifies
without the mutex; `missed` is history. A handle is what the SDK made of it:
free, created, open, closed, destroyed.

`MC_Drivers` has an instance of `LivoxConfig` and one of `OdinDevice`, each a
scene of its own, for what the two drivers owe: the liveness of both is one run.

### The other parts of the odin driver

`OdinStartup` is `main` up to the loop: a configuration file is a sequence of
keys and values of a kind, `ReadKey` one of the parser's, and `isUsbDevicePresent`,
`ReadSettings` and the device callback's set-up decide what follows.
`OdinStreams` has one `Packet` per kind of data: the topics and files it goes
to, the stamp in each of the time modes (`make_aligned_stamp`), the counters of
the rates and the window of clock offsets. `OdinPairing` is `process_pair` and
the two queues it reads; `OdinTf` is `publishOdometry` and the thread that
repeats the last transform. `OdinRecord` has the two buffers of a
`BinaryDataLogger`, the callbacks that fill one and the thread that writes the
other, with the files a session opens. `Calibration` follows `calib.yaml` from
the device to the renderer of the driver, the depth node and the reprojection
node; `CloudImages` is the projections themselves over a small image, and the
overlay node.

### From scans to nav2

`Preprocess` is the handlers that choose and time the points of a scan and cut
it into frames; `ScanSync` the queues, `sync_packages` and the order in which
the main loop takes points and samples; `LocalMap` the ivox cache with its
capacity, what of a scan is added, and the saving. `ScanFrames` composes
`loam_interface` or `OdinInterface` with `sensor_scan_generation`: a robot that
moves, an obstacle that does not, odometry and clouds that come late or never.
`MapOdom` is the timer of `odin_interface`. Transforms are permutations of three
points (`RigidMotion`), the smallest group in which order and direction show.
`Terrain` and `TerrainExt` are the two nodes' cycles over `TerrainGrid` (the
rolling voxels, heights, cells without data, connectivity).
`LaserScan` is both nodes of `pointcloud_to_laserscan`.

### From nav2 to the chassis

`OmniPid` has the controller's state over positions on a line, where a plan may
turn back, and its geometry as operators on small grids. `BackUp` is the
behaviour as the server runs it, with `findBestDirection` as a function of the
rays that are free. `Teleop` is `joyCallback` with goals that are accepted late.
`FakeVel` is the velocity transform; the rotation is kept as the angle.
`Relocalization` keeps poses as values, a registration gives one or fails.
`Launch` computes the nodes that each combination of arguments starts.

`Nodes` puts eighteen of these modules side by side (`OdinPairing`, `OdinTf`,
`OdinStreams`, `OdinRecord`, `OdinStartup`, `Calibration`, `FakeVel`,
`Relocalization`, `ScanFrames` and `MapOdom`, `ScanSync`, `LaserScan`, `BackUp`,
`Teleop`, `OmniPid`, `Launch`, `Terrain`, `TerrainExt`), with their constants as its own: a behaviour is
one *scene*, in which one module runs and the others stand. Its properties say
which modules they are about and name the property there; `NodeProofs` and
`FoldProofs` prove them for every value of the constants. `MC_Nodes` gives the constants their
values and adds the other modules as further scenes in the same way, the
arithmetic of the ring and the codec, through bounded inputs, among them.

Each module holds, before the operator it changes, the mutants the properties
are tried against (`...OffByOne`, `...Unchecked` and so on); they model no code.

## 3. The runs

| run | checks | shows |
|---|---|---|
| `ldq` | `TypeOK`, `NoSlotRace`, `PopNeverFails`, `FifoSpec` | with stores in program order the ring is a bounded FIFO and the threads never meet in a slot |
| `livox_poll` | `TypeOK`, `NoLostWakeup`, `AtMostOneWakeup`, `OneWakeAfterExit`, `FramesLeave`, `ShutdownCompletes` | the unlocked count does no harm; frames from before a lidar was sampling get out too, while lidars send, and the destructor returns |
| `livox_config` | `TypeOK`, `OneLidarPerDevice`, `ConfiguredBeforeSampling` | reports and answers interleaved, more lidars than devices, lidars outside the file among them |
| `pub_handler` | `FramesSound`, `CutsFrames` | every point in one frame and in order, whatever the clocks; frames on time when they are synchronised |
| `serial_link` | `LinkSound`, `AlignedFramesPublished`, `DestructorReturns`, `ClosedPortConnects` | exactly what was sent, once and in order, after the line was quiet, and nothing false ever; the thread ends from any point; a port not yet open is opened when the device is there to stay |
| `odin` | `DeviceSound`, `ImuInOrder`, `AtMostOneStale` | the device comes, fails, goes and comes again under services and Ctrl-C: no destroyed handle is kept, one map is saved at a time, samples stay in order |
| `drivers_live` | `RetriesEnd`, `SamplesServed`, `ThreadsJoined` | Livox: time-outs are retried to the end (`OptionsSettle`, `WorkModeReached`). Odin: the queue is worked off; a detach and a shutdown end, unless the IMU thread misses the notification |
| `nodes` | fifteen properties, below | the other modules |
| `serial_link_replug` (violated) | `ConnectsWhenPlugged` | finding 1 |
| `serial_link_no_data` (violated) | `AlignedFramesPublished` | finding 2 |
| `odin_frames` (violated) | `ScanInOdom` | finding 3 |
| `terrain_clearing` (violated) | `ClearsBeyond` | finding 4 |

The properties of `nodes`, and those of the modules they consist of:

| property | of | says |
|---|---|---|
| `TypeOK` | all | types |
| `PairsRendered` | `OdinPairing` `RenderedInOrder`, `MatchableRendered` | no image or cloud is rendered twice or out of order, and a match is given up only for another |
| `PosesHold` | `OdinTf` `NeverInTheFuture`; `Relocalization` `StartsFromLast`; `OdinStreams` `StreamsSound`; `Calibration` `CalibrationSound` | stamps stay behind the clock, attempts start from the last pose, every frame is in one rate, the offset is of the newest measurements, a recorded stamp is made by the rule of the published one, and lens and extrinsics are of one whole camera file (the renderer's table: only with a single camera) |
| `CommandsHold` | `FakeVel` `NewestKept`; `BackUp` `StandsWhenEnded`; `Teleop` `ReleaseStops` | the newest command waits, the robot stands outside the behaviour unless its last run lost the pose, a release stops |
| `FramesAgree` | `ScanFrames`, `MapOdom` | scans in odom (of loam_interface), odometry of the lidar, clouds as seen, the chassis where it was, map -> odom as the device last sent |
| `ScansSound` | `LaserScan` `EndsUnsubscribed`, `NearestPerRay`; `OdinRecord` `RecordSound` | nobody ends subscribed; a ray is the nearest accepted point, and only a point at `angle_max` is looked up past the last ray; records once and in order |
| `LaunchSound` | `Launch` `OneOfEach`, `VelocitiesTransformed`, `ProcessesKept`; `OdinStartup` `StartupSound` | one sender per transform, velocities go through the transform, settings follow the file, maps have a place |
| `PursuitSound` | `OmniPid` `KeepsGoal`, `StopsForObstacles`, geometry | pruning keeps the goal; no command into an obstacle on the path when every pose was transformed |
| `TerrainSound` | `Terrain`, `TerrainExt` `NearTheirColumn`, `StaleLeave` | points stay in place and leave in time |
| `CloudsSound` | `CloudImages`, `Preprocess`, `LocalMap` | colours where points are seen, overlays forward; points timed right and cut whole (without times in the cloud, up to the first bad return of a layer); the map keeps the cubes last used, finds the nearest, covers, is saved once |
| `SamplesUsedOnce` | `ScanSync` | samples once and in order, `imu_next` is the front |
| `AlgorithmsAgree` | `QueueSizing`, `SerialFrame`; `BackUp` `SectorIsGap`; `TerrainGrid` `ObstaclesAreDeep`, `SearchConnects` | the ring's size, the codec, the gap, the cells without data and the connected ones |
| `StepsHeed` | `OdinTf`, `Relocalization`, `FakeVel`, `BackUp`, `Teleop`, `OmniPid`, `Launch`, `Terrain` `ClearingClears` | action properties: what a step may not do; a clearing leaves nothing nearer than `clearingDis` |
| `TerrainHeeds` | `Terrain` `SeenIsServed`; `TerrainExt` `GroundConnected` | action properties of what is published: an obstacle a scan sees, in the settings the repository uses, and connected ground |
| `ThreadsServe` | `LaserScan` `FollowsListeners`, `DestructorReturns`; `OdinRecord` `ShutdownReturns` | liveness |

Deadlock is checked for `ldq`, whose threads run for ever. It is not for the
others: the drivers and nodes stop when they are shut down, and the instances
stop at their bounds.

## 4. Bounds

- `Ldq`: a ring of 4 slots (a request for 3, rounded up), indices modulo 8
  (2^32 in the code; a multiple of the size is all the masking needs), two
  distinct frames. Wrapping takes two turns of the ring. Nothing else is
  bounded. The proofs hold for all sizes.
- `LivoxPoll`: `Burst` frames may arrive between two `Wait`s of a poller.
  Without a bound a producer faster than the poller keeps it in one lidar for
  ever: that a thread gets to publish as fast as frames come is an assumption
  on the machine, and the bound is this assumption. Two lidars and rings of 2
  make both a full ring and a lidar that is passed over happen. The run has the
  point clouds alone; the IMU stream, which differs in three places, is left to
  the proofs of safety. `ImuBound` counts the unlimited IMU list up to a bound:
  with it full, a further sample changes nothing that the properties see.
- `LivoxConfig`: `MaxReports` bounds how often a lidar is reported; the second
  report finds its device and sets options that are being answered, which is the
  interesting case. `Tracked` leaves the answers of the commands that change no
  state out of the safety run; `drivers_live` has them all, with one lidar. Three
  lidars and two devices fill the table. The two lidars outside the file are alike, and
  so are the threads, hence the symmetry of `livox_config`, which checks no
  liveness. A lidar on two threads at once (`OneAtATime = FALSE`) is left to the
  theorem `DevicesNotShared`.
- `PubHandler`: a packet of two points every millisecond and a frame every two,
  four packets in all, two in the queue, four milliseconds of the host's clock.
  A synchronised lidar gets to its second frame, the host's clock to a missed
  interval and the call that catches up. An interval that is no whole number of
  milliseconds is not covered; the package's README recommends 5 to 50 Hz.
- `SerialLink`: two frames, one fault, one unplug: a damaged frame and the one
  behind it that may be swallowed. The data contain SOF and EOF, and `Corrupt`
  has both among the values of a damaged byte. One fault cannot turn the
  checksum into that of another frame; with more, a 16-bit code can be deceived,
  and `OnlySentFramesPublished` says nothing of it.
- `OdinDevice`: two connections with a queue of two and three samples for
  safety, so that a queue overflows and a sample of the first connection can be
  left for the second; one connection, which can end at any moment, for liveness
  (in `MC_Drivers`).
- The scenes of `nodes` (constants in its `INSTANCE`s): pairing has queues of 2,
  stamps up to 3 and two sessions; transforms a clock of 5 and two starts of the
  device; teleoperation 6 units of 125 ms, three times the spacing of goals;
  a scan of two rays of two units with `angle_max` at their end, as the default
  angles have it; synchronisation a clock of 6 with scans of one unit; plans have up to three
  poses on a line of three, which may coincide or turn back; the terrain's
  grids five columns a side and four cycles, enough to roll twice, its settings those
  of the repository scaled to cells of two or three points (`useSorting`, a quantile
  of a third, two points for a ground, no obstacles without data), its scans three
  points, on the ground, above and alone; scans up to
  seven points cut into three frames, two scans; a map of three cubes and four
  scans, so that a cube is dropped; recording batches of two with three frames
  from two callbacks; five kinds of camera files over two attaches; images of
  14 by 9 with depth images a third of that; the back-up sweep up to nine rays,
  room for four gaps; words of 10 bits, frequencies up to 105 Hz in tenths, all
  sequences of three pieces out of ten for the codec.

## 5. Fairness

- Threads run (weak fairness of each thread's steps). The operating system
  schedules them; no step is a busy wait that another step of the same thread
  depends on.
- `LivoxPoll!Streaming`, a premise of `EveryFrameLeaves` and `ShutdownCompletes`:
  some lidar keeps sending each stream. Livox lidars send until the SDK is shut
  down, and `~DriverNode` joins the pollers before that; the driver relies on
  it, because nobody signals the semaphores at exit. A driver with no lidar on
  the network does not return from its destructor.
- `LivoxConfig`: a request stays outstanding through its time-outs and is answered
  at last (weak fairness of the answers), the work mode with success. A thread
  waiting for `config_mutex_` gets it; the run has one thread, so the mutex is free.
- `SerialLink`: the receiving thread and the destructor. Nothing is assumed of
  the line, the lower computer or the plug; `ClosedPortConnects` speaks of a
  device that stays.
- `OdinDevice`: the callbacks under way, the IMU thread, the monitor's end, the
  main thread and the signal handler go on. Nothing makes the device come or go,
  or a user ask for something; `ThreadsJoined` says what it excludes.
- `LaserScan`: the listener thread, the join, and a callback that ends.
  `OdinRecord`: the writer and the join. The other scenes have no liveness.

## 6. The proofs

Eight modules hold theorems. Each safety theorem is by an inductive invariant,
mostly stronger than the property.

`LdqProofs`. `IndexInv` has the types, what each position of the two threads
says of the indices, and the distance between them: at most `Size`, less than
`Size` while a push is under way, more than 0 while a pop is. From it
`TypeCorrect`, `NeverOverrun` and `PopSucceeds`, for every size, index width and
frame, ordered stores or not. `ContentInv` adds, for `InOrder`, that the slots
between the indices hold whole frames and what a thread inside a slot has
written or read of it; it gives `RaceFree` and `PacketsWhole`. The lemmas on
arithmetic modulo `IndexMod` (`SlotsDiffer`: different indices at a distance
below `Size` have different slots) are what the wrap-around needs.
`ImplementsFifo` maps every step to a step of `BoundedFifo` or a stutter.

`LivoxPollProofs`. The invariant relates `count`, the place of the producer and
the place of the poller: while the poller sleeps with frames in a queue it has
not passed over, the semaphore is up or its producer is on the way to raise it.
`WakeupsBounded` needs that the producer, between `GetCount` and `Signal`, saw a
count of 0 that only it can raise. `LeavesAfterOneWake` counts from the exit
request. Any streams, any number of lidars, any capacity.

`LivoxConfigProofs`. `OneLidarPerDevice` follows from: devices in `index` are in
`taken`. `ConfiguredBeforeSampling` needs, for every device, that each option
asked of it is acknowledged, or has its bit set, or is still ahead of a thread
that holds `config_mutex_` and is at that device; and that an outstanding
request has its bit set by then. It is proved under `OneAtATime`: the SDK does
not report one lidar on two threads at once.

`OdinDeviceProofs`. `DeviceIsSound` holds for any number of handles and samples
and any queue limit. What makes `DeviceSound` inductive is `HandleLive`: between
the calls of the callback `odinDevice` is a handle that is created or open, and
while one is being given up, the place of the callback says which state it is
in; a destroyed one is forgotten in the next step. `SamplesStayInOrder` rests on
`SamplesOrdered`: the queue increases, what the thread took or published is older
than all of it, and the callback holds the newest. `OldSamplesFew` needs
`FewOld`: after the queues are cleared only the sample in the hands of the
callback is left of a connection; in the next one it is taken, or first in the
queue, or, with the queue empty, still with the callback. That no thread takes
one before is `ConnectionInv`: the IMU thread runs only for a connected device.

`PubHandlerProofs`. `ImplementsCutter` is the refinement of `FrameCutter` for
any lidars, packets, clocks and interval: `Waiting`, the points gathered and
those of the packets not yet unpacked, is the stream of a lidar; a packet coming
in extends it, and `ProcessPacket` either cuts what it gathers or leaves the sum
as it was. `FramesAreSound` adds the time of the frames. `TimeInv` says that,
with all clocks synchronised, the packets of a lidar are stamped one after the
other (`InStep`) and its points have not reached their `Deadline`, the next
multiple of the interval or the one after it; that a packet which reaches it
makes a frame due (`UnpackOnTime`) is arithmetic with remainders, for which
`DueAt` says when the millisecond of the check meets the interval.

`SerialLinkProofs`. `LinkTypes`, and `AlignedFramesGetThrough` for frames that
carry data (`HasData`; without it finding 2 is a counterexample), any bytes in
them, any checksum, and any faults, unplugging and shutdown. `PlaceInv` says
that on an aligned line the bytes read, those on the wire and those still to be
sent are together the images of frames that were sent, and that what was
published followed by those frames is what is owed. It is kept because the
position of `receiveLoop` in a frame is the number of bytes it has of the image
(`ReadWithin`), and because a fault or a time-out within a frame ends alignment.

`NodeProofs`, about the scenes of `Nodes`. `TeleopSteps` and its like say that a
step of the composition is a step of each module or leaves it, so that a proof
about one has that module's actions only.

- `PairsDoRender`. `InLine` puts the messages of each stream in one order:
  rendered, in hand, queued; the one in hand is the front of the queue unless a
  full queue has lost it meanwhile. That gives the order. For the matches,
  `Sorted` says of each message that is neither queued nor rendered that one of
  the other stream is too far after it, and that of two that match both are
  queued or one is rendered. It holds while
  no queue was full, on the first connection, which is where the property says
  something; `PairInv` is all this for both streams, each step of
  `try_process_pair` interleaved with the two callbacks.
- `FramesDoAgree`, for any mount and obstacle. That motions compose and have inverses
  (`MotionsCompose`, `InverseUndoes`) is all that is used of them. `FramesInv`: a transform that is looked up once is
  the mount's whenever it was found, and each message published last is of one
  scan and its own pose. `DeviceInTree`: what the device sent is on its way to
  the timer or is in the tree.
- `PosesDoHold` has three more invariants. `StreamsInv`: each frame is in one
  rate or in the count for the next (`Counted`), and the window has the newest
  measurements, whose mean is in use (`WindowMoves`, one in and, when full, one out).
  `CalibInv`: what each of the four parties knows of the camera file at each of
  its steps, so that a table is of the camera whose parameters are in use.
  `TfInv`: the transform cached runs with the host's clock from a stamp that was
  not ahead of the device's.
- `StampsDoAdvance` and `StampsNotAhead` from `TfInv`; `StampAfterLast`: the
  next stamp is later than the last, also where the extrapolated one is not.
- `TerrainIsSound`, for any places of the vehicle, any scans of finitely many points,
  and voxels of any size and number. Both nodes do the same to the same kind of grid,
  so `GridInv` is about a record, to which each is mapped (`Terrain_State`,
  `Ext_State`). It has `NearTheirColumn`; that a column updated since the vehicle last
  moved has no point that was too old then (`FreshSince`); that the vehicle is then
  within a voxel of the middle, so that the next scan rolls nothing and the times of
  the columns, which do not roll with the points, are still their own (`Centred`); and
  that after a scan no column is overdue. `RollsBy` brings the vehicle back to the
  middle from any distance (`RollsAre`), a point is put at most half a voxel from the
  middle of its column (`IndexIs`), and the mean of the times of a place is a time, by
  induction over a finite set (`SumIsInt`). `TerrainClears` is the step that serves a
  request to clear.
- `ReleaseHolds` needs `StopIsDue`: every path that commanded something left
  `sent_disable_msg_` set, a goal on its way at a release is known to be
  overtaken, and only automatic control has goals. `GoalsKeepDistance` is an
  action property, from `ClockFollowsGoal`: `last_goal_time` is the time of the
  last goal sent, also across releases.
- `NewestIsKept` is inductive by itself; `FrameTurnsOnlyWithCommand` is an
  action property of every step. `StartsFromLastHolds` and `NewStampIsNewPose`
  from `RelocInv`. `EndsStanding` from `OnlyRunningMoves` (a robot that moves is
  in a running behaviour, or goes on since one lost its pose: `onRun` publishes nothing), and `StartsOnlySafely`.
  `CommandsDoHold` has the three that the run states together.

`FoldProofs`, about the scenes whose code loops over data of any length.

- `ScansDoHold`. `RecInv` has one line of frames: file, batch, queued batches and
  pending frames are together what was handed over (`HandedOver`; `Queued` is what
  the batches of a queue say one after the other, `QueuedIsFlat` that it is
  `FlattenSeq`), every number is in it or held by one callback (`NumbersApart`),
  and the thread ends only with nothing left (`EndsInOrder`). After the end of
  the logger has begun, frames may follow that no property counts on.
  `UnsubscribedInv` is for the listener thread. `RaysAreNearest` is about
  a cloud of any length and any `angle_max` up to the end of the last ray: `NearestOf` says it of the points looked at so far,
  point by point (`NearestLooked`).
- `SamplesAreUsedOnce`, for any stamps and scans, the IMU as input or as output.
  `SyncInv`: the queue of samples is the newest part of those that came,
  `imu_next` is its front once a scan was taken, and what was used are the samples
  right before the front; from the first point on, the time predicted to is not
  past the front. A scan is taken when the last sample is not before its end, so no
  loop takes that one out and the queue is not popped empty. The loops of the main
  loop are one recursive function (`Loop`); what a loop keeps is proved turn by
  turn, for any number of turns.
- `LaunchDoesHold`. Of the launch files, that every set of arguments starts each
  node once and joins every velocity to the base (`BringupFits`, `LaunchedOnce`,
  `ReachesAlong`): a name says which file started its node (`NamesTell`). `LaunchInv`
  is for what happens then: only nodes started are up, what waits is to respawn,
  and a component is up only with its container. Of the driver's start,
  `StartupInv`: from the reading of the file on, the settings are those of the parsed
  file. `FileRead` says by induction over its entries that a key's value is that of
  the last usable one, from which `SettingsFollow`.
- `PursuitIsSound`. `PursuitInv`: what is left of the plan is an end of what
  `setPlan` got, and not empty. Pruning takes off a part before the nearest pose within
  reach (`BeginIs`), so the goal stays. A command is given only if none of the
  poses looked up is occupied, which are the sampled ones unless a transform
  failed (`blind`); `EveryPoseSampled` says that on a path of at most `sample_points` poses
  every pose is a sample. The geometry holds for all integers, not the
  run's grid: `CentreHolds` (the radius of a curvature), `SegmentHolds` (where the
  look-ahead circle meets the path), `PoseHolds` (the pose at a distance along a path of
  any length, whose cumulative distances are a recursive function).
- `StepsDoHeed`, the action properties of eight modules for every step of `Nodes`:
  those of `NodeProofs`, `ShutdownStays` and `PursuitPrunes`, which says that a computation prunes
  up to a pose it searched; a plan that is set again is not shorter than its end.

Assumptions are those on the constants, named in the modules: `InOrder`,
`OneAtATime` and `HasData` where a theorem states them; the bounds are natural
numbers; the window and the queues hold something; plans are sequences of
integers, the search distance and the extent of the costmap are natural numbers,
and there is at least one collision sample; voxels are of an even size, in the unit of
places, `angle_max` is not past the end of the last ray, a column is due some time after its update, and points keep for some time or none; a configuration file is a sequence of keys
with values; the mount is a motion of the
model; a scan is combined of at least one; the names of cameras are none of those for no file and a file half written; frames,
SOF and EOF are bytes, and SOF differs from EOF; the interval of frames is a
multiple of the millisecond at which the timer is looked at, as in the run.

Sums and concatenations over all packets or frames are recursive functions.
What they give for a sequence with one element more, at either end, is proved
(`GatheredLast`, `GatheredFirst`, `FlatLast`, `FlatFirst`, `NearestLooked`) by induction up to a
number, from the well-foundedness of the naturals: `CountsUp` has a set of
naturals instead of a predicate, so that it needs no operator as a parameter.

Only model-checked:

- liveness, which this prover has no rules for;
- `OnlySentFramesPublished` of the serial link: out of step, with damaged bytes,
  it holds only for checksums that tell the damage apart, and the instance has
  one such checksum and one fault;
- the operators that fold over data (`SerialFrame`, `QueueSizing`,
  `findBestDirection`, the grids of `TerrainGrid`, `CloudImages`, `Preprocess`),
  which the runs compare with their definitions over bounded inputs;
- `SeenIsServed`, for which the ground of a cell would have to be shown to be a
  quantile of the sorted heights, an induction over data, and `GroundConnected`, whose
  search is a recursive function on states that are no numbers;
- the types of the nodes, and `LocalMap`, which is not among the modules of `Nodes`.

## 7. What the checks found

1. `serial_link_replug`: after the device was open and is pulled out,
   `SerialPort::isOpen()` stays true, since a read error does not close the
   port; the node never opens the device again. The README of `pb_serial_comm`
   (line 58) promises that plugging it in connects it. Until then the thread
   spins, because `select` reports a dead descriptor as readable.
2. `serial_link_no_data`: `receiveLoop` marks a time-out by `len = 0` and so
   drops frames announced with no data, which `frame.hpp:28` allows and
   `packFrame` and `parseFrames` handle.
3. `odin_frames`: `odin_interface.cpp:148` brings the cloud from the frame of
   the lidar to odom by the inverse of the transform that does so. As soon as
   the lidar is not at the origin of odom, a standing obstacle moves from scan
   to scan. `loam_interface`, whose outputs `src/README.md:13` promises, does not.
4. `terrain_clearing`: `nav2_params.yaml:109` (and the two other files) says of
   `clearingDis` that the points beyond it are cleared; `terrainAnalysis.cpp:389`
   clears those within it, which is what `ClearingClears` of the run `nodes` says.
   With the 0.0 of the files the button clears nothing.

## 8. What is not modelled, and what was seen on the way

Filters, registration and control gains are real-valued data with little
control: the filter of `point_lio`, GICP, the PID's tuning, the undistortion of
images (`createDistortionMaps`). The intensity voxel layer and
`ign_sim_pointcloud_tool` convert points one by one. Vendored code (`3rdparty`,
`Livox-SDK2`, `IKFoM`, `rapidjson`, `matplotlibcpp`) is modelled, where it
matters, from how `src/` uses it. JSON and YAML parsing (but for the odin
driver's keys), logging, and behaviour trees, which nav2 runs, are left out.
Data races that are undefined behaviour inside a `std::map` (`GetIndex`) and
`DeInitQueue` under running threads are not modelled.

Things the code does that no document contradicts, and that the models take as
they are:

- *bringup*: without composition `behavior_server` publishes `cmd_vel`
  unremapped. `terrain_analysis` listens to `map_clearing`, the extended node to
  `cloud_clearing`.
- *controller*: parameters set at run time never reach the PIDs, which are made
  in `configure`; `min_max_sum_error` is unused; `setPlan` resets neither the
  PIDs nor `last_velocity_scaling_factor_`. Two failed transforms are not noticed:
  of the plan into the robot's frame (line 327) and of the sampled poses into the
  costmap's (263). A default pose is used in their place, and a command may be
  given along a plan with an obstacle on it.
- *terrain*: the counters that say when a voxel is filtered do not roll with the
  voxels; a point just seen is dropped when the filter averages its time with
  older ones beyond `decayTime`, which with the repository's 0.5 s and an update
  every 1.0 s can take away an obstacle that is seen in every scan; `buttons[5]` of
  a joystick is read unchecked.
- *preprocessing*: the first point of a cut scan is always dropped; a scan with
  fewer than two points per wanted frame is lost; times given to untimed points
  count from the first valid return in `velodyne_handler`, but `hesai_handler`
  takes the angle of a return before it looks whether it is a number: a bad first
  return leaves all of its layer without offsets, a later bad one may cost a
  revolution; `hesai_handler` uses a ring at or beyond
  `N_SCANS` unchecked.
- *point_lio*: `GetClosestPoint` returning false leaves the neighbours of the
  scan before; `flg_reset` is never set; when frames are combined the eleventh
  scan is dropped.
- *odin start*: `isUsbDevicePresent` reads a directory as a file, so the strict
  check in `main` never runs; that of the device callback does, and exits. The
  key tables of floats are not cleared when a file is read again. `map_dir` is
  empty when `save_map` is asked outside mode 1.
- *odin streams*: rates are 0 when the status log and the console both ask for
  them; the stamp of a recorded frame is made anew. That `host_sdk_sample.h:193-195`
  calls the recorded stamps consistent with the published ones is read as: by the
  same policy, which holds; the two are equal only where the stamp comes from the
  packet, or if clock and offset have not moved in between, and both go back when
  the offset grows.
- *odin recording*: a file that does not open swallows its frames and queues
  them without limit; a crash loses what is not written, less than a batch.
- *calibration*: the renderer is used although its initialisation failed; a
  table of the first lens is static, and used with the parameters of a second
  camera; extrinsics of the wrong length go unnoticed; neither node follows a new file; the
  reprojection node waits eleven times 5 s. A file that is read while it is
  written is assumed not to parse.
- *images*: nearer points can be overdrawn by farther ones, near-white points
  vanish in the overlay, the size of the resized depth image is a constant.
- *laser scan*: a point at `angle_max` itself is not rejected; with the default angles,
  where the last ray ends there, its index is one past the ranges, which is not
  checked.
- *back up*: a run that loses its pose ends without a velocity, so the robot goes on
  until somebody else stops it; a gap that reaches the last direction is not seen, and a gap no
  wider than the best one stays the candidate for the rest of the sweep.

## 9. Plan

Done, in this order: the Livox ring, publishing, configuration and frame
assembly with their proofs; the serial link; the odin device and its proofs;
the odin driver's other parts; `point_lio`; the frames from the SLAM to nav2;
terrain; the controller, behaviours, teleoperation and the velocity transform
with their proofs; relocalization; the launch files and the odin driver's start,
with their proofs.

What is left, by importance:

1. Proofs: the map of `point_lio`; the types of the nodes; that `SerialLink` publishes
   nothing false, for a CRC that tells the faults apart.
2. `LivoxDriver`, which composes `PubHandler`, `LivoxConfig` and `LivoxPoll`, and
   an abstract specification of the driver: each frame of a configured lidar is
   published once or dropped by a full ring.
3. The joints and the shoot message of `Teleop`, the sending callbacks of
   `pb_serial_comm`, the extrinsics that points and samples of a Livox lidar
   share, the voxel layer's marking and clearing.
