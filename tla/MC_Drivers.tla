----------------------------- MODULE MC_Drivers -----------------------------
(* Instances of LivoxConfig, up to three lidars with one in the config file, and *)
(* a connection of OdinDevice: a behaviour is one scene, in which one of the two *)
(* runs and the other stands.                                                    *)
EXTENDS LivoxConfig, TLC

CONSTANTS h1, h2, h3, t1, t2,
          Scenes   \* the scenes that can run

VARIABLES
    scene,
    \* OdinDevice
    main, device_cb, data_cb, imu, monitor, savers, odinDevice, handles, plugged,
    deviceConnected, deviceDisconnected, imu_running, imu_queue, imu_mutex, imu_sample,
    monitor_running, in_progress, ros_object, shutdown, arrived, published, before, missed

OdinVars ==
    <<main, device_cb, data_cb, imu, monitor, savers, odinDevice, handles, plugged,
      deviceConnected, deviceDisconnected, imu_running, imu_queue, imu_mutex, imu_sample,
      monitor_running, in_progress, ros_object, shutdown, arrived, published, before, missed>>

\* One connection, which can end at any moment; a queue of one sample.
Odin == INSTANCE OdinDevice WITH
    Handles <- 1, QueueLimit <- 1, MapMode <- 0, MaxSamples <- 2

MCOptions == <<"data_type", "pattern">>
MCUserConfigs == <<h1>>
MCWanted == [h \in {h1} |-> Option]

\* The threads are alike, and so are the lidars that are not in the file.
Alike == Permutations({t1, t2}) \cup Permutations({h2, h3})

MCInit == scene \in Scenes /\ Init /\ Odin!Init

MCNext ==
    /\ \/ scene = "livox" /\ Next /\ UNCHANGED OdinVars
       \/ scene = "odin" /\ Odin!Next /\ UNCHANGED vars
    /\ UNCHANGED scene

MCSpec == MCInit /\ [][MCNext]_<<scene, vars, OdinVars>>

\* The fairness of both modules: of a module that stands, no step it is about can
\* be taken.
FairScenes == MCSpec /\ Fairness /\ Odin!Fairness

\* The queue of samples is worked off: OdinDevice's SamplesServed, of its scene.
SamplesServed == Odin!SamplesServed

\* A detach and a shutdown end: OdinDevice's ThreadsJoined, of its scene.
ThreadsJoined == Odin!ThreadsJoined
=============================================================================
