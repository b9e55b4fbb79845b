-------------------------------- MODULE OdinTf --------------------------------
(***************************************************************************)
(* The transforms of the odin driver (host_sdk_sample.h): publishOdometry  *)
(* sends odom->imu in a burst of stamps and caches it, and a thread sends  *)
(* the cached transform again, with a stamp it extrapolates.               *)
(*                                                                         *)
(* Time is in milliseconds of any length, the same for the device's stamps *)
(* and the host's steady clock; a sample takes up to Delay to arrive.      *)
(***************************************************************************)
EXTENDS Integers, FiniteSets

CONSTANTS Delay,     \* bound: the time a sample is under way
          MaxTime,   \* bound: the device's clock
          MaxBoots,  \* bound: how often the device starts
          Burst      \* the length of the burst, 200 ms

VARIABLES device_clock,               \* the device's clock
          clock,             \* the host's steady clock
          boots,
          cached,            \* cached_tf_: its stamp and when it was cached, or {}
          extrinsics,        \* has_cached_extrinsics_
          last_published,    \* last_published_sec
          publisher,         \* the thread: "asleep", "awake", "done"
          running,           \* tf_thread_running_
          tfs_sent           \* the transforms sent by the last step

vars == <<device_clock, clock, boots, cached, extrinsics, last_published, publisher, running,
          tfs_sent>>

Init ==
    /\ device_clock = 1 /\ clock = 1 /\ boots = 1 /\ cached = {} /\ extrinsics = FALSE
    /\ last_published = 0 /\ publisher = "asleep" /\ running = TRUE /\ tfs_sent = {}

\* The thread sleeps for its period, at least a millisecond.
Tick ==
    /\ device_clock < MaxTime
    /\ device_clock' = device_clock + 1 /\ clock' = clock + 1
    /\ publisher' = IF publisher = "asleep" THEN "awake" ELSE publisher
    /\ tfs_sent' = {}
    /\ UNCHANGED <<boots, cached, extrinsics, last_published, running>>

\* A device that starts again counts from the beginning.
Restart ==
    /\ boots < MaxBoots /\ boots' = boots + 1
    /\ device_clock' = 1 /\ tfs_sent' = {}
    /\ UNCHANGED <<clock, cached, extrinsics, last_published, publisher, running>>

\* publishWiwc.
publishWiwc ==
    /\ extrinsics' = TRUE /\ tfs_sent' = {}
    /\ UNCHANGED <<device_clock, clock, boots, cached, last_published, publisher, running>>

Tf(child, stamp) == [child |-> child, stamp |-> stamp]

\* The transforms that go with odometry of this stamp.
BurstOf(stamp) ==
    {Tf(c, s) : c \in {"imu"} \cup (IF extrinsics THEN {"lidar", "camera_0"} ELSE {}),
                s \in stamp..(stamp + Burst)}

\* Mutant: the time the transform was cached at is kept from the first one.
publishOdometryKeepingTime ==
    \E stamp \in (device_clock - Delay)..device_clock :
        /\ stamp > 0
        /\ cached' = {[stamp |-> stamp,
                        at |-> IF cached = {} THEN clock ELSE (CHOOSE c \in cached : TRUE).at]}
        /\ tfs_sent' = BurstOf(stamp)
        /\ UNCHANGED <<device_clock, clock, boots, extrinsics, last_published, publisher, running>>

\* publishOdometry with a standard sample.
publishOdometry ==
    \E stamp \in (device_clock - Delay)..device_clock :
        /\ stamp > 0
        /\ cached' = {[stamp |-> stamp, at |-> clock]}
        /\ tfs_sent' = BurstOf(stamp)
        /\ UNCHANGED <<device_clock, clock, boots, extrinsics, last_published, publisher, running>>

Estimate == CHOOSE e \in {c.stamp + (clock - c.at) : c \in cached} : TRUE

\* Mutant: the guard lets the same stamp through.
NextStampRepeating == IF Estimate < last_published THEN last_published + 1 ELSE Estimate

NextStamp == IF Estimate <= last_published THEN last_published + 1 ELSE Estimate

\* One round of the thread.
Republish ==
    /\ publisher = "awake" /\ publisher' = IF running THEN "asleep" ELSE "done"
    /\ IF running /\ cached # {}
       THEN /\ last_published' = NextStamp
            /\ tfs_sent' = {Tf(c, NextStamp) :
                                c \in {"imu"} \cup (IF extrinsics THEN {"lidar"} ELSE {})}
       ELSE UNCHANGED last_published /\ tfs_sent' = {}
    /\ UNCHANGED <<device_clock, clock, boots, cached, extrinsics, running>>

\* stopTfExtraPublishTimer, which joins the thread.
StopThread ==
    /\ running /\ running' = FALSE /\ tfs_sent' = {}
    /\ UNCHANGED <<device_clock, clock, boots, cached, extrinsics, last_published, publisher>>

Next == Tick \/ Restart \/ publishWiwc \/ publishOdometry \/ Republish \/ StopThread

Spec == Init /\ [][Next]_vars

-----------------------------------------------------------------------------
TypeOK ==
    /\ device_clock \in 1..MaxTime /\ boots \in 1..MaxBoots
    /\ clock \in Nat /\ last_published \in Nat
    /\ cached \subseteq [stamp : 1..MaxTime, at : Nat] /\ Cardinality(cached) <= 1
    /\ extrinsics \in BOOLEAN /\ running \in BOOLEAN
    /\ publisher \in {"asleep", "awake", "done"}
    /\ tfs_sent \subseteq [child : {"imu", "lidar", "camera_0"}, stamp : Nat]

\* Every round of the thread stamps its transform later than the one before,
\* whatever odometry came in between and however late it was
\* (host_sdk_sample.h:1970).
RepublishedIncrease ==
    publisher = "awake" /\ running /\ publisher' # "awake" /\ cached # {} =>
        last_published' > last_published

\* The extrapolation and its guard never run ahead of the device's clock:
\* nobody is told of a pose at a time that is still to come, burst aside.
NeverInTheFuture == boots = 1 => last_published <= device_clock
=============================================================================
