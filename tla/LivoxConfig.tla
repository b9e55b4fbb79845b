----------------------------- MODULE LivoxConfig -----------------------------
(***************************************************************************)
(* How livox_ros_driver2 brings a lidar up.  The Livox SDK reports a lidar *)
(* on one of its threads (LidarInfoChangeCallback): the driver finds the   *)
(* lidar's device, or takes a free one, and sends the lidar its options,   *)
(* its attitude, its work mode and the order to send IMU data.  Each       *)
(* request is answered on another SDK thread: it succeeded, it timed out   *)
(* or it was refused.  A lidar whose options are all acknowledged becomes  *)
(* Sampling, and only then is its data published (see LivoxPoll).          *)
(***************************************************************************)
EXTENDS Integers, Sequences, FiniteSets

CONSTANTS Handle,      \* the lidars (their addresses)
          UserConfigs, \* the lidars of the config file, in its order
          Wanted,      \* Wanted[h]: the options the file gives lidar h
          Options,     \* the options, in the order they are requested
          SlotCount,   \* kMaxSourceLidar
          Thread,      \* the SDK threads that report lidars
          None,        \* no thread, no lidar
          OneAtATime,  \* the SDK does not report one lidar on two threads
          Tracked,     \* the commands whose answers this instance follows
          MaxReports   \* bound: reports of one lidar

Commands == {"attitude", "work_mode", "imu"}
Option == {Options[i] : i \in 1..Len(Options)}
Listed == {UserConfigs[i] : i \in 1..Len(UserConfigs)}
Request == Option \cup Commands
Slot == 0..(SlotCount - 1)

ASSUME NoneAssumption == None \notin Handle \cup Thread
ASSUME UserConfigsAssumption ==
    /\ UserConfigs \in Seq(Handle)
    /\ \A i, j \in 1..Len(UserConfigs) : UserConfigs[i] = UserConfigs[j] => i = j
ASSUME OptionsAssumption ==
    /\ Options \in Seq(STRING)
    /\ \A i \in 1..Len(Options) : Options[i] \notin Commands
ASSUME WantedAssumption == Wanted \in [Listed -> SUBSET Option]
ASSUME SlotCountAssumption == SlotCount \in Nat
ASSUME SwitchAssumption == OneAtATime \in BOOLEAN /\ Tracked \subseteq Commands
ASSUME MaxReportsAssumption == MaxReports \in Nat

VARIABLES index,        \* map_index_: the device of each lidar that has one
          taken,        \* index_cache_: the devices given away
          set_bits,     \* set_bits[s]: the options device s waits for
          sampling,     \* the devices whose connect_state is Sampling
          config_mutex, \* the thread that holds it, or None
          pc,           \* where LidarInfoChangeCallback is on each thread
          handle,       \* its lidar
          device,       \* its lidar_device (a slot), when found
          at,           \* the option it is at
          requests,     \* requests[h][r]: requests not answered yet
          reports,      \* reports of each lidar so far
          acked,        \* history: acked[s], the options device s acknowledged
          refused,      \* history: refused[s], the options it refused
          normal        \* history: the lidars in normal work mode

slots == <<index, taken>>
devices == <<set_bits, sampling, acked, refused>>
handler == <<pc, handle, device, at>>
vars == <<slots, devices, config_mutex, handler, requests, reports, normal>>

\* Device s is the one InitLivoxLidar filled from the s-th entry of the file.
FromFile(s) == s < Len(UserConfigs)

\* The options of device s that are not -1.  A device taken for a lidar that is
\* not in the file has a zeroed config, and zero is an option to set.
Asked(s) == IF FromFile(s) THEN Wanted[UserConfigs[s + 1]] ELSE Option

\* livox_config.handle: zero, the address of no lidar, outside the file.
ConfigHandle(s) == IF FromFile(s) THEN UserConfigs[s + 1] ELSE None

\* After InitLivoxLidar: entries beyond the last device are given up.
FilledSlots == {s \in Slot : FromFile(s)}

Init ==
    /\ index = [h \in {UserConfigs[s + 1] : s \in FilledSlots} |->
                    CHOOSE s \in FilledSlots : UserConfigs[s + 1] = h]
    /\ taken = FilledSlots
    /\ set_bits = [s \in Slot |-> {}]
    /\ sampling = {}
    /\ config_mutex = None
    /\ pc = [t \in Thread |-> "idle"]
    /\ handle = [t \in Thread |-> None]
    /\ device = [t \in Thread |-> 0]
    /\ at = [t \in Thread |-> 1]
    /\ requests = [h \in Handle |-> [r \in Request |-> 0]]
    /\ reports = [h \in Handle |-> 0]
    /\ acked = [s \in Slot |-> {}]
    /\ refused = [s \in Slot |-> {}]
    /\ normal = {}

Goto(t, to) == pc' = [pc EXCEPT ![t] = to]

\* A request to the lidar.
Send(h, r) == requests' = IF r \in Option \cup Tracked
                          THEN [requests EXCEPT ![h][r] = @ + 1] ELSE requests

-----------------------------------------------------------------------------
(* LidarInfoChangeCallback.                                                 *)

ReportLidar(t, h) ==
    /\ pc[t] = "idle" /\ reports[h] < MaxReports
    /\ OneAtATime => \A u \in Thread : pc[u] # "idle" => handle[u] # h
    /\ reports' = [reports EXCEPT ![h] = @ + 1]
    /\ handle' = [handle EXCEPT ![t] = h]
    /\ Goto(t, "find")
    /\ UNCHANGED <<slots, devices, config_mutex, device, at, requests, normal>>

\* GetLidarDevice.
FindDevice(t) ==
    /\ pc[t] = "find"
    /\ IF handle[t] \in DOMAIN index
       THEN /\ device' = [device EXCEPT ![t] = index[handle[t]]]
            /\ Goto(t, "lock")
       ELSE UNCHANGED device /\ Goto(t, "look_again")
    /\ UNCHANGED <<slots, devices, config_mutex, handle, at, requests, reports, normal>>

\* GetFreeIndex, first scope of its mutex: the lidar may have a device by now.
LookAgain(t) ==
    /\ pc[t] = "look_again"
    /\ Goto(t, IF handle[t] \in DOMAIN index THEN "work_mode" ELSE "insert")
    /\ UNCHANGED <<slots, devices, config_mutex, handle, device, at, requests, reports, normal>>

\* Mutant: the loop over index_cache_ runs one device too far.
FreeOffByOne == (0..SlotCount) \ taken

\* The devices GetFreeIndex may give away.
Free == Slot \ taken

\* Mutant: the device found free is not marked as taken.
InsertIndexUnmarked(t) ==
    /\ pc[t] = "insert" /\ Free # {}
    /\ \E s \in Free :
          /\ \A u \in Free : s <= u
          /\ index' = [h \in DOMAIN index \cup {handle[t]} |->
                           IF h = handle[t] THEN s ELSE index[h]]
    /\ Goto(t, "work_mode")
    /\ UNCHANGED <<taken, devices, config_mutex, handle, device, at, requests, reports, normal>>

\* GetFreeIndex, second scope: the first free device is taken.
InsertIndex(t) ==
    /\ pc[t] = "insert" /\ Free # {}
    /\ \E s \in Free :
          /\ \A u \in Free : s <= u
          /\ taken' = taken \cup {s}
          /\ index' = [h \in DOMAIN index \cup {handle[t]} |->
                           IF h = handle[t] THEN s ELSE index[h]]
    /\ Goto(t, "work_mode")
    /\ UNCHANGED <<devices, config_mutex, handle, device, at, requests, reports, normal>>

\* No device is left: the lidar is given up.
NoFreeIndex(t) ==
    /\ pc[t] = "insert" /\ Free = {}
    /\ Goto(t, "idle")
    /\ UNCHANGED <<slots, devices, config_mutex, handle, device, at, requests, reports, normal>>

\* Mutant: config_mutex_ is not taken.
LockConfigNot(t) ==
    /\ pc[t] = "lock"
    /\ at' = [at EXCEPT ![t] = 1]
    /\ Goto(t, "options")
    /\ UNCHANGED <<slots, devices, config_mutex, handle, device, requests, reports, normal>>

LockConfig(t) ==
    /\ pc[t] = "lock" /\ config_mutex = None
    /\ config_mutex' = t
    /\ at' = [at EXCEPT ![t] = 1]
    /\ Goto(t, "options")
    /\ UNCHANGED <<slots, devices, handle, device, requests, reports, normal>>

\* An option that is not -1 is marked in set_bits and sent to the lidar.
RequestOption(t) ==
    /\ pc[t] = "options" /\ at[t] <= Len(Options)
    /\ LET s == device[t]
           o == Options[at[t]]
       IN IF o \in Asked(s)
          THEN /\ set_bits' = [set_bits EXCEPT ![s] = @ \cup {o}]
               /\ Send(handle[t], o)
          ELSE UNCHANGED <<set_bits, requests>>
    /\ at' = [at EXCEPT ![t] = @ + 1]
    /\ UNCHANGED <<slots, sampling, acked, refused, config_mutex, pc, handle, device,
                   reports, normal>>

UnlockConfig(t) ==
    /\ pc[t] = "options" /\ at[t] > Len(Options)
    /\ config_mutex' = None
    /\ Goto(t, "attitude")
    /\ UNCHANGED <<slots, devices, handle, device, at, requests, reports, normal>>

\* The attitude goes to config.handle, which only devices of the file have.
SendAttitude(t) ==
    /\ pc[t] = "attitude"
    /\ IF ConfigHandle(device[t]) = None THEN UNCHANGED requests
                                         ELSE Send(ConfigHandle(device[t]), "attitude")
    /\ Goto(t, "work_mode")
    /\ UNCHANGED <<slots, devices, config_mutex, handle, device, at, reports, normal>>

SendWorkMode(t) ==
    /\ pc[t] = "work_mode"
    /\ Send(handle[t], "work_mode")
    /\ Goto(t, "imu")
    /\ UNCHANGED <<slots, devices, config_mutex, handle, device, at, reports, normal>>

SendImuEnable(t) ==
    /\ pc[t] = "imu"
    /\ Send(handle[t], "imu")
    /\ Goto(t, "idle")
    /\ UNCHANGED <<slots, devices, config_mutex, handle, device, at, reports, normal>>

-----------------------------------------------------------------------------
(* The answers of the lidar, on another thread of the SDK.                  *)

Answered(h, r) == [requests EXCEPT ![h][r] = @ - 1]

\* Mutant: the lidar is Sampling at its first acknowledged option.
OptionSetAtOnce(h, o) ==
    /\ requests[h][o] > 0 /\ h \in DOMAIN index /\ config_mutex = None
    /\ requests' = Answered(h, o)
    /\ acked' = [acked EXCEPT ![index[h]] = @ \cup {o}]
    /\ set_bits' = [set_bits EXCEPT ![index[h]] = @ \ {o}]
    /\ sampling' = sampling \cup {index[h]}
    /\ UNCHANGED <<slots, refused, config_mutex, handler, reports, normal>>

\* Under config_mutex_ the option's bit is cleared, and with the last bit the
\* device becomes Sampling.
OptionSet(h, o) ==
    /\ requests[h][o] > 0 /\ h \in DOMAIN index /\ config_mutex = None
    /\ LET s == index[h] IN
          /\ acked' = [acked EXCEPT ![s] = @ \cup {o}]
          /\ set_bits' = [set_bits EXCEPT ![s] = @ \ {o}]
          /\ sampling' = IF set_bits[s] \subseteq {o} THEN sampling \cup {s} ELSE sampling
    /\ requests' = Answered(h, o)
    /\ UNCHANGED <<slots, refused, config_mutex, handler, reports, normal>>

\* Mutant: an option that timed out is given up.
OptionTimeoutIgnored(h, o) ==
    /\ requests[h][o] > 0
    /\ requests' = Answered(h, o)
    /\ UNCHANGED <<slots, devices, config_mutex, handler, reports, normal>>

\* An option that timed out is requested again.
OptionTimeout(h, o) ==
    /\ requests[h][o] > 0 /\ h \in DOMAIN index
    /\ UNCHANGED vars

\* An option the lidar refuses is only logged: its bit stays.
OptionRefused(h, o) ==
    /\ requests[h][o] > 0 /\ h \in DOMAIN index
    /\ requests' = Answered(h, o)
    /\ refused' = [refused EXCEPT ![index[h]] = @ \cup {o}]
    /\ UNCHANGED <<slots, set_bits, sampling, acked, config_mutex, handler, reports, normal>>

WorkModeSet(h) ==
    /\ requests[h]["work_mode"] > 0
    /\ requests' = Answered(h, "work_mode")
    /\ normal' = normal \cup {h}
    /\ UNCHANGED <<slots, devices, config_mutex, handler, reports>>

\* Mutant: a refused work mode is given up, as a refused option is.
WorkModeGivenUp(h) ==
    /\ requests[h]["work_mode"] > 0
    /\ requests' = Answered(h, "work_mode")
    /\ UNCHANGED <<slots, devices, config_mutex, handler, reports, normal>>

\* Whatever else the answer is, the work mode is requested again.
WorkModeFailed(h) ==
    /\ requests[h]["work_mode"] > 0
    /\ UNCHANGED vars

\* The attitude and the IMU order are requested again after a timeout and are
\* done with after any other answer.
PlainAnswer(h, r) ==
    /\ r \in {"attitude", "imu"} /\ requests[h][r] > 0
    /\ requests' = Answered(h, r)
    /\ UNCHANGED <<slots, devices, config_mutex, handler, reports, normal>>

PlainTimeout(h, r) ==
    /\ r \in {"attitude", "imu"} /\ requests[h][r] > 0
    /\ UNCHANGED vars

-----------------------------------------------------------------------------
InfoChange(t) == \/ FindDevice(t) \/ LookAgain(t) \/ InsertIndex(t) \/ NoFreeIndex(t)
                 \/ LockConfig(t) \/ RequestOption(t) \/ UnlockConfig(t)
                 \/ SendAttitude(t) \/ SendWorkMode(t) \/ SendImuEnable(t)

Answer(h) == \/ \E o \in Option : OptionSet(h, o) \/ OptionTimeout(h, o) \/ OptionRefused(h, o)
             \/ WorkModeSet(h) \/ WorkModeFailed(h)
             \/ \E r \in Commands : PlainAnswer(h, r) \/ PlainTimeout(h, r)

Next == \/ \E t \in Thread : InfoChange(t) \/ \E h \in Handle : ReportLidar(t, h)
        \/ \E h \in Handle : Answer(h)

Spec == Init /\ [][Next]_vars

\* The SDK's threads run, and a request is answered at last: it waits, however often
\* it times out and is made again; a lidar does not refuse its work mode for ever.
Fairness == /\ \A t \in Thread : WF_vars(InfoChange(t)) /\ WF_vars(LockConfig(t))
            /\ \A h \in Handle : /\ WF_vars(WorkModeSet(h))
                                 /\ \A o \in Option : WF_vars(OptionSet(h, o) \/ OptionRefused(h, o))
                                 /\ \A r \in Commands : WF_vars(PlainAnswer(h, r))

FairSpec == Spec /\ Fairness

-----------------------------------------------------------------------------
TypeOK ==
    /\ DOMAIN index \subseteq Handle /\ index \in [DOMAIN index -> Slot]
    /\ taken \subseteq Slot
    /\ set_bits \in [Slot -> SUBSET Option]
    /\ sampling \subseteq Slot
    /\ config_mutex \in Thread \cup {None}
    /\ pc \in [Thread -> {"idle", "find", "look_again", "insert", "lock", "options",
                          "attitude", "work_mode", "imu"}]
    /\ handle \in [Thread -> Handle \cup {None}]
    /\ device \in [Thread -> Slot \cup {0}]
    /\ at \in [Thread -> 1..(Len(Options) + 1)]
    /\ requests \in [Handle -> [Request -> Nat]]
    /\ reports \in [Handle -> 0..MaxReports]
    /\ acked \in [Slot -> SUBSET Option] /\ refused \in [Slot -> SUBSET Option]
    /\ normal \subseteq Handle

\* Two lidars never share a device (and with it a ring and a configuration),
\* although GetFreeIndex looks for the lidar in one scope of its mutex and takes
\* the device in another (cache_index.cpp:47).
OneLidarPerDevice ==
    \A g, h \in DOMAIN index : index[g] = index[h] => g = h

\* A device is Sampling, and its data published, only when every option it was
\* to set has been acknowledged, however answers and reports interleave: this
\* is what config_mutex_ is for (livox_lidar_callback.cpp:60).
ConfiguredBeforeSampling ==
    \A s \in sampling : Asked(s) \subseteq acked[s]

\* A device that waits for options becomes Sampling, unless the lidar refused
\* one, through any number of timeouts.
OptionsSettle ==
    \A s \in Slot : set_bits[s] # {} ~> (s \in sampling \/ refused[s] # {})

\* A lidar that was reported and has a device gets to its normal work mode.
WorkModeReached ==
    \A h \in Handle : (reports[h] > 0 /\ h \in DOMAIN index) ~> h \in normal

\* Every request is retried until it is done or refused.
RetriesEnd == OptionsSettle /\ WorkModeReached
=============================================================================
