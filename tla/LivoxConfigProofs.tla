-------------------------- MODULE LivoxConfigProofs --------------------------
(***************************************************************************)
(* The bring-up of LivoxConfig for any lidars, options, devices and SDK    *)
(* threads: no device is shared, and a device is Sampling only when all    *)
(* its options were acknowledged.  The second needs the SDK to report a    *)
(* lidar on one thread at a time (OneAtATime).                             *)
(***************************************************************************)
EXTENDS LivoxConfig, TLAPS

\* The devices in use are those given away, and no two lidars have one.
DevicesApart ==
    /\ \A h \in DOMAIN index : index[h] \in taken
    /\ OneLidarPerDevice

AtLidar == \A t \in Thread : pc[t] # "idle" => handle[t] \in Handle

BaseInv == TypeOK /\ DevicesApart /\ AtLidar

\* A thread is alone with its lidar: its device stays the lidar's, and no other
\* thread finds one for it.
Alone ==
    \A t \in Thread :
        /\ pc[t] \in {"lock", "options", "attitude"} =>
               handle[t] \in DOMAIN index /\ device[t] = index[handle[t]]
        /\ pc[t] = "insert" => handle[t] \notin DOMAIN index
        /\ \A u \in Thread :
               pc[t] # "idle" /\ pc[u] # "idle" /\ handle[t] = handle[u] => t = u

\* The lock is held exactly while a thread requests options.
LockHeld == \A t \in Thread : pc[t] = "options" <=> config_mutex = t

\* Option o of device s is not forgotten: it is acknowledged or waited for.
Remembered(s, o) == o \in Asked(s) => o \in acked[s] \cup set_bits[s]

\* The options behind the thread's position are remembered.
PassUnderWay ==
    \A t \in Thread : pc[t] = "options" =>
        \A i \in 1..(at[t] - 1) : Remembered(device[t], Options[i])

\* Once a request for an option is out, all options are remembered, but for the
\* device whose pass is under way.
PassDone ==
    \A h \in Handle, o \in Option : requests[h][o] > 0 =>
        /\ h \in DOMAIN index
        /\ \/ \A p \in Option : Remembered(index[h], p)
           \/ \E t \in Thread : pc[t] = "options" /\ device[t] = index[h]

Bookkeeping == Alone /\ LockHeld /\ PassUnderWay /\ PassDone /\ ConfiguredBeforeSampling

ConfigInv == BaseInv /\ Bookkeeping

-----------------------------------------------------------------------------
(* What Send and Answered do to the requests.                               *)

LEMMA AskedIsOption == \A s \in Slot : Asked(s) \subseteq Option
<1> TAKE s \in Slot
<1>1. CASE FromFile(s)
  <2>1. s + 1 \in 1..Len(UserConfigs)
    BY <1>1, SlotCountAssumption, UserConfigsAssumption DEF FromFile, Slot
  <2>2. UserConfigs[s + 1] \in Listed
    BY <2>1 DEF Listed
  <2> QED BY <1>1, <2>2, WantedAssumption DEF Asked
<1>2. CASE ~FromFile(s)
  BY <1>2 DEF Asked
<1> QED BY <1>1, <1>2

LEMMA SendAdds ==
    ASSUME requests \in [Handle -> [Request -> Nat]],
           NEW h \in Handle, NEW r \in Request, Send(h, r)
    PROVE  /\ requests' \in [Handle -> [Request -> Nat]]
           /\ \A g \in Handle, q \in Request :
                  requests'[g][q] > 0 => requests[g][q] > 0 \/ (g = h /\ q = r)
<1> DEFINE more == [requests[h] EXCEPT ![r] = @ + 1]
<1>1. more \in [Request -> Nat]
  OBVIOUS
<1>2. requests' = [requests EXCEPT ![h] = more] \/ requests' = requests
  BY DEF Send
<1>3. \A q \in Request : more[q] > 0 => requests[h][q] > 0 \/ q = r
  OBVIOUS
<1> HIDE DEF more
<1> QED BY <1>1, <1>2, <1>3

LEMMA AnsweredRemoves ==
    ASSUME requests \in [Handle -> [Request -> Nat]],
           NEW h \in Handle, NEW r \in Request, requests[h][r] > 0,
           requests' = Answered(h, r)
    PROVE  /\ requests' \in [Handle -> [Request -> Nat]]
           /\ \A g \in Handle, q \in Request : requests'[g][q] > 0 => requests[g][q] > 0
<1> DEFINE less == [requests[h] EXCEPT ![r] = @ - 1]
<1>1. less \in [Request -> Nat] /\ \A q \in Request : less[q] > 0 => requests[h][q] > 0
  OBVIOUS
<1>2. requests' = [requests EXCEPT ![h] = less]
  BY DEF Answered
<1> HIDE DEF less
<1> QED BY <1>1, <1>2

LEMMA RequestKinds ==
    /\ Option \subseteq Request /\ Commands \subseteq Request
    /\ \A o \in Option : o \notin Commands
BY OptionsAssumption DEF Request, Option, Commands

-----------------------------------------------------------------------------
(* No device is shared.                                                     *)

LEMMA InitialSlots ==
    ASSUME NEW s \in FilledSlots
    PROVE  UserConfigs[s + 1] \in Handle /\ s \in Slot /\ s + 1 \in 1..Len(UserConfigs)
BY SlotCountAssumption, UserConfigsAssumption DEF FilledSlots, FromFile, Slot

LEMMA InitialBase == Init => BaseInv
<1> SUFFICES ASSUME Init PROVE BaseInv
  OBVIOUS
<1> DEFINE Filled == {UserConfigs[s + 1] : s \in FilledSlots}
<1>1. \A h \in Filled : index[h] \in FilledSlots /\ UserConfigs[index[h] + 1] = h
  BY DEF Init
<1>2. DOMAIN index = Filled /\ Filled \subseteq Handle /\ FilledSlots \subseteq Slot
  BY InitialSlots DEF Init
<1>3. index \in [DOMAIN index -> Slot]
  BY <1>1, <1>2 DEF Init
<1>4. DevicesApart
  BY <1>1, <1>2 DEF Init, DevicesApart, OneLidarPerDevice
<1>5. AtLidar
  BY DEF Init, AtLidar
<1>6. at \in [Thread -> 1..(Len(Options) + 1)]
  BY OptionsAssumption DEF Init
<1>7. requests \in [Handle -> [Request -> Nat]] /\ reports \in [Handle -> 0..MaxReports]
  BY MaxReportsAssumption DEF Init
<1> QED
  BY <1>2, <1>3, <1>4, <1>5, <1>6, <1>7 DEF Init, BaseInv, TypeOK

LEMMA BaseKeeps == BaseInv /\ [Next]_vars => BaseInv'
<1> SUFFICES ASSUME BaseInv, [Next]_vars PROVE BaseInv'
  OBVIOUS
<1> USE DEF BaseInv, slots, devices, handler, Goto
<1>1. ASSUME NEW t \in Thread, NEW h \in Handle, ReportLidar(t, h) PROVE BaseInv'
  <2>1. TypeOK'
    BY <1>1, MaxReportsAssumption DEF ReportLidar, TypeOK
  <2>2. DevicesApart' /\ AtLidar'
    BY <1>1 DEF ReportLidar, TypeOK, DevicesApart, OneLidarPerDevice, AtLidar
  <2> QED BY <2>1, <2>2
<1>2. ASSUME NEW t \in Thread, InfoChange(t) PROVE BaseInv'
  <2>1. CASE FindDevice(t)
    BY <2>1 DEF FindDevice, TypeOK, DevicesApart, OneLidarPerDevice, AtLidar
  <2>2. CASE LookAgain(t)
    BY <2>2 DEF LookAgain, TypeOK, DevicesApart, OneLidarPerDevice, AtLidar
  <2>3. CASE InsertIndex(t)
    <3>1. PICK s \in Free :
            /\ taken' = taken \cup {s}
            /\ index' = [h \in DOMAIN index \cup {handle[t]} |->
                            IF h = handle[t] THEN s ELSE index[h]]
      BY <2>3 DEF InsertIndex
    <3>2. s \in Slot /\ s \notin taken /\ handle[t] \in Handle
      BY <2>3 DEF Free, InsertIndex, AtLidar
    <3>3. TypeOK'
      <4>1. DOMAIN index' \subseteq Handle /\ index' \in [DOMAIN index' -> Slot]
        BY <3>1, <3>2 DEF TypeOK
      <4> QED BY <2>3, <3>1, <3>2, <4>1 DEF InsertIndex, TypeOK
    <3>4. DevicesApart'
      BY <3>1, <3>2 DEF DevicesApart, OneLidarPerDevice
    <3> QED BY <2>3, <3>3, <3>4 DEF InsertIndex, TypeOK, AtLidar
  <2>4. CASE NoFreeIndex(t)
    BY <2>4 DEF NoFreeIndex, TypeOK, DevicesApart, OneLidarPerDevice, AtLidar
  <2>5. CASE LockConfig(t)
    <3>1. 1 \in 1..(Len(Options) + 1)
      BY OptionsAssumption
    <3> QED BY <2>5, <3>1 DEF LockConfig, TypeOK, DevicesApart, OneLidarPerDevice, AtLidar
  <2>6. CASE RequestOption(t)
    <3>1. at[t] \in 1..Len(Options) /\ handle[t] \in Handle /\ Options[at[t]] \in Option
      BY <2>6, OptionsAssumption DEF RequestOption, TypeOK, AtLidar, Option
    <3>2. requests' \in [Handle -> [Request -> Nat]]
      BY <2>6, <3>1, SendAdds, RequestKinds DEF RequestOption, TypeOK
    <3>3. set_bits' \in [Slot -> SUBSET Option]
      <4> DEFINE s == device[t]
                 o == Options[at[t]]
      <4>1. set_bits' = [set_bits EXCEPT ![s] = @ \cup {o}] \/ set_bits' = set_bits
        BY <2>6 DEF RequestOption
      <4>2. o \in Option /\ set_bits \in [Slot -> SUBSET Option]
        BY <3>1 DEF TypeOK
      <4> HIDE DEF s, o
      <4> QED BY <4>1, <4>2
    <3>4. at' \in [Thread -> 1..(Len(Options) + 1)]
      BY <2>6, <3>1, OptionsAssumption DEF RequestOption, TypeOK
    <3>5. TypeOK'
      BY <2>6, <3>2, <3>3, <3>4 DEF RequestOption, TypeOK
    <3> QED BY <2>6, <3>5 DEF RequestOption, DevicesApart, OneLidarPerDevice, AtLidar
  <2>7. CASE UnlockConfig(t)
    BY <2>7 DEF UnlockConfig, TypeOK, DevicesApart, OneLidarPerDevice, AtLidar
  <2>8. CASE SendAttitude(t)
    <3>1. requests' \in [Handle -> [Request -> Nat]]
      <4>1. ConfigHandle(device[t]) # None => ConfigHandle(device[t]) \in Handle
        <5>1. device[t] \in Nat
          BY SlotCountAssumption DEF TypeOK, Slot
        <5> QED BY <5>1, UserConfigsAssumption DEF ConfigHandle, FromFile
      <4> QED BY <2>8, <4>1, SendAdds, RequestKinds DEF SendAttitude, TypeOK, Commands
    <3> QED BY <2>8, <3>1
            DEF SendAttitude, TypeOK, DevicesApart, OneLidarPerDevice, AtLidar
  <2>9. CASE SendWorkMode(t)
    <3>1. requests' \in [Handle -> [Request -> Nat]]
      BY <2>9, SendAdds, RequestKinds DEF SendWorkMode, TypeOK, AtLidar, Commands
    <3> QED BY <2>9, <3>1
            DEF SendWorkMode, TypeOK, DevicesApart, OneLidarPerDevice, AtLidar
  <2>10. CASE SendImuEnable(t)
    <3>1. requests' \in [Handle -> [Request -> Nat]]
      BY <2>10, SendAdds, RequestKinds DEF SendImuEnable, TypeOK, AtLidar, Commands
    <3> QED BY <2>10, <3>1
            DEF SendImuEnable, TypeOK, DevicesApart, OneLidarPerDevice, AtLidar
  <2> QED BY <1>2, <2>1, <2>2, <2>3, <2>4, <2>5, <2>6, <2>7, <2>8, <2>9, <2>10 DEF InfoChange
<1>3. ASSUME NEW h \in Handle, Answer(h) PROVE BaseInv'
  <2>1. ASSUME NEW o \in Option, OptionSet(h, o) PROVE BaseInv'
    <3>1. requests' \in [Handle -> [Request -> Nat]]
      BY <2>1, AnsweredRemoves, RequestKinds DEF OptionSet, TypeOK
    <3>2. index[h] \in Slot
      BY <2>1 DEF OptionSet, TypeOK
    <3> QED BY <2>1, <3>1, <3>2
            DEF OptionSet, TypeOK, DevicesApart, OneLidarPerDevice, AtLidar
  <2>2. ASSUME NEW o \in Option, OptionRefused(h, o) PROVE BaseInv'
    <3>1. requests' \in [Handle -> [Request -> Nat]]
      BY <2>2, AnsweredRemoves, RequestKinds DEF OptionRefused, TypeOK
    <3> QED BY <2>2, <3>1
            DEF OptionRefused, TypeOK, DevicesApart, OneLidarPerDevice, AtLidar
  <2>3. CASE WorkModeSet(h)
    <3>1. requests' \in [Handle -> [Request -> Nat]]
      BY <2>3, AnsweredRemoves, RequestKinds DEF WorkModeSet, TypeOK, Commands
    <3> QED BY <2>3, <3>1
            DEF WorkModeSet, TypeOK, DevicesApart, OneLidarPerDevice, AtLidar
  <2>4. ASSUME NEW r \in Commands, PlainAnswer(h, r) PROVE BaseInv'
    <3>1. requests' \in [Handle -> [Request -> Nat]]
      BY <2>4, AnsweredRemoves, RequestKinds DEF PlainAnswer, TypeOK
    <3> QED BY <2>4, <3>1
            DEF PlainAnswer, TypeOK, DevicesApart, OneLidarPerDevice, AtLidar
  <2>5. CASE UNCHANGED vars
    BY <2>5 DEF vars, TypeOK, DevicesApart, OneLidarPerDevice, AtLidar
  <2> QED
    BY <1>3, <2>1, <2>2, <2>3, <2>4, <2>5
    DEF Answer, OptionTimeout, WorkModeFailed, PlainTimeout
<1>4. CASE UNCHANGED vars
  BY <1>4 DEF vars, TypeOK, DevicesApart, OneLidarPerDevice, AtLidar
<1> QED
  BY <1>1, <1>2, <1>3, <1>4 DEF Next

\* The type invariant, for any number of lidars, devices and threads.
THEOREM ConfigTypeCorrect == Spec => []TypeOK
<1>1. BaseInv => TypeOK
  BY DEF BaseInv
<1> QED BY <1>1, InitialBase, BaseKeeps, PTL DEF Spec

\* GetFreeIndex never gives one device to two lidars, whatever threads call it
\* and whatever lidars they report.
THEOREM DevicesNotShared == Spec => []OneLidarPerDevice
<1>1. BaseInv => OneLidarPerDevice
  BY DEF BaseInv, DevicesApart
<1> QED BY <1>1, InitialBase, BaseKeeps, PTL DEF Spec

-----------------------------------------------------------------------------
(* Sampling devices are configured, when a lidar is reported on one thread  *)
(* at a time.                                                               *)

LEMMA InitialConfig == Init => ConfigInv
<1> SUFFICES ASSUME Init PROVE ConfigInv
  OBVIOUS
<1>1. BaseInv
  BY InitialBase
<1>2. Alone /\ LockHeld /\ PassUnderWay
  BY NoneAssumption DEF Init, Alone, LockHeld, PassUnderWay
<1>3. PassDone
  BY RequestKinds DEF Init, PassDone
<1>4. ConfiguredBeforeSampling
  BY DEF Init, ConfiguredBeforeSampling
<1> QED
  BY <1>1, <1>2, <1>3, <1>4 DEF ConfigInv, Bookkeeping

\* A step that neither moves a thread in or out of its option pass nor sends or
\* settles an option leaves the bookkeeping as it is.
LEMMA BookkeepingKept ==
    ASSUME ConfigInv,
           UNCHANGED <<devices, config_mutex, device, at>>,
           \A h \in DOMAIN index : h \in DOMAIN index' /\ index'[h] = index[h],
           \A t \in Thread : pc'[t] = "options" <=> pc[t] = "options",
           \A h \in Handle, o \in Option : requests'[h][o] > 0 => requests[h][o] > 0
    PROVE  LockHeld' /\ PassUnderWay' /\ PassDone' /\ ConfiguredBeforeSampling'
<1> USE DEF devices
<1>1. LockHeld' /\ ConfiguredBeforeSampling'
  BY DEF ConfigInv, Bookkeeping, LockHeld, ConfiguredBeforeSampling, Asked
<1>2. PassUnderWay'
  BY DEF ConfigInv, Bookkeeping, PassUnderWay, Remembered
<1>3. PassDone'
  <2> SUFFICES ASSUME NEW h \in Handle, NEW o \in Option, requests'[h][o] > 0
               PROVE  /\ h \in DOMAIN index'
                      /\ \/ \A p \in Option : Remembered(index[h], p)
                         \/ \E t \in Thread : pc[t] = "options" /\ device[t] = index[h]
                      /\ index'[h] = index[h]
    BY DEF PassDone, Remembered
  <2> QED BY DEF ConfigInv, Bookkeeping, PassDone
<1> QED BY <1>1, <1>2, <1>3

\* The steps of LidarInfoChangeCallback outside its option pass.
LEMMA PlainStepsKeep ==
    ASSUME OneAtATime, ConfigInv, NEW t \in Thread,
           \/ \E h \in Handle : ReportLidar(t, h)
           \/ FindDevice(t) \/ LookAgain(t) \/ InsertIndex(t) \/ NoFreeIndex(t)
           \/ SendAttitude(t) \/ SendWorkMode(t) \/ SendImuEnable(t)
    PROVE  Bookkeeping'
<1> USE DEF slots, devices, handler, Goto
<1>1. TypeOK /\ Alone /\ AtLidar
  BY DEF ConfigInv, Bookkeeping, BaseInv
<1>2. ASSUME NEW h \in Handle, ReportLidar(t, h)
      PROVE  Alone' /\ UNCHANGED <<devices, config_mutex, device, at, index, requests>>
             /\ \A u \in Thread : pc'[u] = "options" <=> pc[u] = "options"
  BY <1>1, <1>2 DEF ReportLidar, Alone, TypeOK
<1>3. ASSUME FindDevice(t)
      PROVE  Alone' /\ PassUnderWay' /\ PassDone' /\ LockHeld' /\ ConfiguredBeforeSampling'
  <2>1. Alone'
    BY <1>1, <1>3 DEF FindDevice, Alone, TypeOK
  <2>2. \A u \in Thread : /\ pc'[u] = "options" <=> pc[u] = "options"
                          /\ pc[u] = "options" => device'[u] = device[u]
    BY <1>1, <1>3 DEF FindDevice, TypeOK
  <2>3. PassUnderWay' /\ LockHeld' /\ ConfiguredBeforeSampling'
    BY <1>3, <2>2 DEF FindDevice, ConfigInv, Bookkeeping, PassUnderWay, Remembered, LockHeld,
                      ConfiguredBeforeSampling, Asked
  <2>4. PassDone'
    BY <1>3, <2>2 DEF FindDevice, ConfigInv, Bookkeeping, PassDone, Remembered
  <2> QED BY <2>1, <2>3, <2>4
<1>4. ASSUME LookAgain(t) \/ NoFreeIndex(t)
      PROVE  Alone' /\ UNCHANGED <<devices, config_mutex, device, at, index, requests>>
             /\ \A u \in Thread : pc'[u] = "options" <=> pc[u] = "options"
  BY <1>1, <1>4 DEF LookAgain, NoFreeIndex, Alone, TypeOK
<1>5. ASSUME InsertIndex(t)
      PROVE  /\ Alone' /\ UNCHANGED <<devices, config_mutex, device, at, requests>>
             /\ \A h \in DOMAIN index : h \in DOMAIN index' /\ index'[h] = index[h]
             /\ \A u \in Thread : pc'[u] = "options" <=> pc[u] = "options"
  <2>1. PICK s \in Free : index' = [h \in DOMAIN index \cup {handle[t]} |->
                                      IF h = handle[t] THEN s ELSE index[h]]
    BY <1>5 DEF InsertIndex
  <2>2. handle[t] \notin DOMAIN index
    BY <1>1, <1>5 DEF InsertIndex, Alone
  <2>3. \A h \in DOMAIN index : h \in DOMAIN index' /\ index'[h] = index[h]
    BY <2>1, <2>2
  <2>4. \A u \in Thread : u # t /\ pc[u] # "idle" => handle[u] # handle[t]
    BY <1>1, <1>5 DEF InsertIndex, Alone
  <2>5. Alone'
    BY <1>1, <1>5, <2>1, <2>3, <2>4 DEF InsertIndex, Alone, TypeOK
  <2> QED BY <1>1, <1>5, <2>3, <2>5 DEF InsertIndex, TypeOK
<1>6. ASSUME SendAttitude(t) \/ SendWorkMode(t) \/ SendImuEnable(t)
      PROVE  /\ Alone' /\ UNCHANGED <<devices, config_mutex, device, at, index>>
             /\ \A u \in Thread : pc'[u] = "options" <=> pc[u] = "options"
             /\ \A h \in Handle, o \in Option : requests'[h][o] > 0 => requests[h][o] > 0
  <2>1. /\ Alone' /\ UNCHANGED <<devices, config_mutex, device, at, index>>
        /\ \A u \in Thread : pc'[u] = "options" <=> pc[u] = "options"
    <3>1. CASE SendAttitude(t)
      BY <1>1, <3>1 DEF SendAttitude, Alone, TypeOK
    <3>2. CASE SendWorkMode(t)
      BY <1>1, <3>2 DEF SendWorkMode, Alone, TypeOK
    <3>3. CASE SendImuEnable(t)
      BY <1>1, <3>3 DEF SendImuEnable, Alone, TypeOK
    <3> QED BY <1>6, <3>1, <3>2, <3>3
  <2>2. PICK r \in Commands, h \in Handle : Send(h, r) \/ UNCHANGED requests
    <3>1. device[t] \in Nat
      BY <1>1, SlotCountAssumption DEF TypeOK, Slot
    <3>2. ConfigHandle(device[t]) # None => ConfigHandle(device[t]) \in Handle
      BY <3>1, UserConfigsAssumption DEF ConfigHandle, FromFile
    <3>3. handle[t] \in Handle
      BY <1>1, <1>6 DEF SendAttitude, SendWorkMode, SendImuEnable, AtLidar
    <3> QED BY <1>6, <3>2, <3>3 DEF SendAttitude, SendWorkMode, SendImuEnable, Commands
  <2>3. \A g \in Handle, o \in Option : requests'[g][o] > 0 => requests[g][o] > 0
    <3>1. CASE Send(h, r)
      BY <1>1, <2>2, <3>1, SendAdds, RequestKinds DEF TypeOK
    <3> QED BY <2>2, <3>1
  <2> QED BY <2>1, <2>3
<1> QED
  BY <1>2, <1>3, <1>4, <1>5, <1>6, BookkeepingKept DEF Bookkeeping

\* The option pass, under config_mutex_.
LEMMA LockConfigKeeps ==
    ASSUME ConfigInv, NEW t \in Thread, LockConfig(t)
    PROVE  Bookkeeping'
<1> USE DEF LockConfig, slots, devices, Goto
<1>1. TypeOK /\ Alone /\ \A u \in Thread : pc[u] # "options"
  BY NoneAssumption DEF ConfigInv, Bookkeeping, BaseInv, LockHeld
<1>2. Alone' /\ LockHeld' /\ ConfiguredBeforeSampling'
  BY <1>1, NoneAssumption DEF Alone, TypeOK, LockHeld, ConfigInv, Bookkeeping, ConfiguredBeforeSampling, Asked
<1>3. PassUnderWay'
  BY <1>1 DEF PassUnderWay, TypeOK
<1>4. PassDone'
  BY <1>1 DEF ConfigInv, Bookkeeping, PassDone, Remembered
<1> QED BY <1>2, <1>3, <1>4 DEF Bookkeeping

LEMMA RequestOptionKeeps ==
    ASSUME ConfigInv, NEW t \in Thread, RequestOption(t)
    PROVE  Bookkeeping'
<1> USE DEF RequestOption, slots
<1>1. TypeOK /\ Alone /\ AtLidar /\ LockHeld
  BY DEF ConfigInv, Bookkeeping, BaseInv
<1>2. PICK s, o : s = device[t] /\ o = Options[at[t]]
  OBVIOUS
<1>3. at[t] \in 1..Len(Options) /\ handle[t] \in Handle /\ o \in Option
  BY <1>1, <1>2, OptionsAssumption DEF TypeOK, AtLidar, Option
<1>4. s \in Slot /\ handle[t] \in DOMAIN index /\ index[handle[t]] = s
  BY <1>2, <1>1 DEF Alone, TypeOK
<1>5. set_bits' = [set_bits EXCEPT ![s] = @ \cup {o}] \/ (set_bits' = set_bits /\ o \notin Asked(s))
  BY <1>2
<1>6. \A q \in Slot, p \in Option : Remembered(q, p) => Remembered(q, p)'
  <2> SUFFICES ASSUME NEW q \in Slot
               PROVE  set_bits[q] \subseteq set_bits'[q] /\ acked'[q] = acked[q]
    BY DEF Remembered, Asked, FromFile
  <2>2. acked' = acked /\ set_bits \in [Slot -> SUBSET Option]
    BY <1>1 DEF TypeOK
  <2> QED BY <1>5, <2>2
<1>7. Remembered(s, o)'
  BY <1>1, <1>4, <1>5 DEF Remembered, TypeOK, Asked, FromFile
<1>8. Alone' /\ LockHeld' /\ ConfiguredBeforeSampling'
  BY <1>1 DEF Alone, LockHeld, ConfigInv, Bookkeeping, ConfiguredBeforeSampling, Asked
<1>9. PassUnderWay'
  <2> SUFFICES ASSUME NEW u \in Thread, pc[u] = "options", NEW i \in 1..(at'[u] - 1)
               PROVE  Remembered(device[u], Options[i])'
    BY DEF PassUnderWay
  <2>1. u = t
    BY <1>1 DEF LockHeld
  <2>2. at'[t] = at[t] + 1
    BY <1>1 DEF TypeOK
  <2>3. CASE i = at[t]
    <3>1. device'[u] = s /\ Options[i] = o
      BY <1>2, <2>1, <2>3
    <3> QED BY <1>7, <3>1
  <2>4. CASE i # at[t]
    <3>1. i \in 1..(at[t] - 1)
      BY <1>3, <2>1, <2>2, <2>4
    <3>2. Remembered(s, Options[i]) /\ Options[i] \in Option
      BY <1>2, <1>3, <3>1, OptionsAssumption DEF ConfigInv, Bookkeeping, PassUnderWay, Option
    <3>3. device'[u] = s
      BY <1>2, <2>1
    <3> QED BY <1>2, <1>4, <1>6, <3>2, <3>3
  <2> QED BY <2>3, <2>4
<1>10. PassDone'
  <2> SUFFICES ASSUME NEW h \in Handle, NEW p \in Option, requests'[h][p] > 0
               PROVE  /\ h \in DOMAIN index
                      /\ \/ \A q \in Option : Remembered(index[h], q)'
                         \/ \E u \in Thread : pc[u] = "options" /\ device[u] = index[h]
    BY DEF PassDone
  <2>1. requests[h][p] > 0 \/ h = handle[t]
    <3>1. Send(handle[t], o) \/ UNCHANGED requests
      BY <1>2
    <3>2. CASE Send(handle[t], o)
      BY <1>1, <1>3, <3>2, SendAdds, RequestKinds DEF TypeOK
    <3> QED BY <3>1, <3>2
  <2>2. CASE h = handle[t]
    <3>1. pc[t] = "options" /\ device[t] = index[h] /\ h \in DOMAIN index
      BY <1>2, <1>4, <2>2
    <3> QED BY <3>1
  <2>3. CASE requests[h][p] > 0
    <3>1. /\ h \in DOMAIN index
          /\ \/ \A q \in Option : Remembered(index[h], q)
             \/ \E u \in Thread : pc[u] = "options" /\ device[u] = index[h]
      BY <2>3 DEF ConfigInv, Bookkeeping, PassDone
    <3>2. index[h] \in Slot
      BY <1>1, <3>1 DEF TypeOK
    <3> QED BY <1>6, <3>1, <3>2
  <2> QED BY <2>1, <2>2, <2>3
<1> QED BY <1>8, <1>9, <1>10 DEF Bookkeeping

LEMMA UnlockConfigKeeps ==
    ASSUME ConfigInv, NEW t \in Thread, UnlockConfig(t)
    PROVE  Bookkeeping'
<1> USE DEF UnlockConfig, slots, devices, Goto
<1>1. TypeOK /\ Alone /\ LockHeld
  BY DEF ConfigInv, Bookkeeping, BaseInv
<1>2. \A u \in Thread : pc[u] = "options" => u = t
  BY <1>1 DEF LockHeld
<1>3. \A u \in Thread : pc'[u] # "options"
  BY <1>1, <1>2 DEF TypeOK
<1>4. Alone' /\ LockHeld' /\ PassUnderWay' /\ ConfiguredBeforeSampling'
  BY <1>1, <1>3, NoneAssumption
     DEF Alone, TypeOK, LockHeld, PassUnderWay, ConfigInv, Bookkeeping, ConfiguredBeforeSampling, Asked
<1>5. \A p \in Option : Remembered(device[t], p)
  <2> SUFFICES ASSUME NEW i \in 1..Len(Options)
               PROVE  Remembered(device[t], Options[i])
    BY DEF Option
  <2>1. i \in 1..(at[t] - 1)
    BY <1>1, OptionsAssumption DEF TypeOK
  <2> QED BY <2>1 DEF ConfigInv, Bookkeeping, PassUnderWay
<1>6. PassDone'
  <2> SUFFICES ASSUME NEW h \in Handle, NEW p \in Option, requests[h][p] > 0
               PROVE  /\ h \in DOMAIN index
                      /\ \A q \in Option : Remembered(index[h], q)
    BY DEF PassDone, Remembered
  <2> QED BY <1>2, <1>5 DEF ConfigInv, Bookkeeping, PassDone
<1> QED BY <1>4, <1>6 DEF Bookkeeping

\* The answers: an option acknowledged while no pass is under way leaves no
\* option of its device forgotten, and the last one makes it Sampling.
LEMMA OptionSetKeeps ==
    ASSUME ConfigInv, NEW h \in Handle, NEW o \in Option, OptionSet(h, o)
    PROVE  Bookkeeping'
<1> USE DEF OptionSet, slots, handler
<1> DEFINE s == index[h]
<1>1. TypeOK /\ Alone /\ LockHeld /\ s \in Slot
  BY DEF ConfigInv, Bookkeeping, BaseInv, TypeOK
<1>2. \A u \in Thread : pc[u] # "options"
  BY <1>1, NoneAssumption DEF LockHeld
<1>3. \A p \in Option : Remembered(s, p)
  BY <1>2 DEF ConfigInv, Bookkeeping, PassDone
<1>4. Alone' /\ LockHeld' /\ PassUnderWay'
  BY <1>1, <1>2 DEF Alone, LockHeld, PassUnderWay
<1>5. \A q \in Slot : acked[q] \subseteq acked'[q] /\ (q # s => set_bits'[q] = set_bits[q])
  BY <1>1 DEF TypeOK
<1>6. acked'[s] = acked[s] \cup {o} /\ set_bits'[s] = set_bits[s] \ {o}
  BY <1>1 DEF TypeOK
<1>7. PassDone'
  <2> SUFFICES ASSUME NEW g \in Handle, NEW p \in Option, requests'[g][p] > 0
               PROVE  g \in DOMAIN index /\ \A q \in Option : Remembered(index[g], q)'
    BY DEF PassDone
  <2>1. requests[g][p] > 0
    BY <1>1, AnsweredRemoves, RequestKinds DEF TypeOK
  <2>2. g \in DOMAIN index /\ \A q \in Option : Remembered(index[g], q)
    BY <1>2, <2>1 DEF ConfigInv, Bookkeeping, PassDone
  <2>3. index[g] \in Slot
    BY <1>1, <2>2 DEF TypeOK
  <2>4. CASE index[g] # s
    BY <1>5, <2>2, <2>3, <2>4 DEF Remembered, Asked, FromFile
  <2>5. CASE index[g] = s
    BY <1>6, <2>2, <2>5 DEF Remembered, Asked, FromFile
  <2> QED BY <2>2, <2>4, <2>5
<1>8. ConfiguredBeforeSampling'
  <2> SUFFICES ASSUME NEW q \in sampling' PROVE Asked(q) \subseteq acked'[q]
    BY DEF ConfiguredBeforeSampling, Asked, FromFile
  <2>1. CASE q \in sampling
    BY <1>1, <1>5, <2>1 DEF ConfigInv, Bookkeeping, ConfiguredBeforeSampling, TypeOK
  <2>2. CASE q \notin sampling
    <3>1. q = s /\ set_bits[s] \subseteq {o}
      BY <2>2
    <3>2. Asked(s) \subseteq acked[s] \cup {o}
      BY <1>1, <1>3, <3>1, AskedIsOption DEF Remembered
    <3> QED BY <1>6, <3>1, <3>2
  <2> QED BY <2>1, <2>2
<1> QED BY <1>4, <1>7, <1>8 DEF Bookkeeping

LEMMA OtherAnswersKeep ==
    ASSUME ConfigInv, NEW h \in Handle,
           \/ \E o \in Option : OptionRefused(h, o)
           \/ WorkModeSet(h)
           \/ \E r \in Commands : PlainAnswer(h, r)
    PROVE  Bookkeeping'
<1>1. TypeOK /\ Alone
  BY DEF ConfigInv, Bookkeeping, BaseInv
<1>2. /\ UNCHANGED <<slots, handler, config_mutex, set_bits, sampling, acked>>
      /\ \E r \in Request : requests[h][r] > 0 /\ requests' = Answered(h, r)
  BY RequestKinds DEF OptionRefused, WorkModeSet, PlainAnswer, devices, Commands
<1>3. \A g \in Handle, o \in Option : requests'[g][o] > 0 => requests[g][o] > 0
  BY <1>1, <1>2, AnsweredRemoves, RequestKinds DEF TypeOK
<1>4. Alone' /\ LockHeld' /\ PassUnderWay' /\ ConfiguredBeforeSampling'
  BY <1>1, <1>2 DEF slots, handler, Alone, ConfigInv, Bookkeeping, LockHeld, PassUnderWay, Remembered,
                    ConfiguredBeforeSampling, Asked, FromFile
<1>5. PassDone'
  BY <1>2, <1>3 DEF slots, handler, ConfigInv, Bookkeeping, PassDone, Remembered, Asked, FromFile
<1> QED BY <1>4, <1>5 DEF Bookkeeping

LEMMA ConfigKeeps ==
    ASSUME OneAtATime
    PROVE  ConfigInv /\ [Next]_vars => ConfigInv'
<1> SUFFICES ASSUME ConfigInv, [Next]_vars PROVE ConfigInv'
  OBVIOUS
<1>1. BaseInv'
  BY BaseKeeps DEF ConfigInv, Bookkeeping
<1>2. ASSUME NEW t \in Thread, InfoChange(t) \/ \E h \in Handle : ReportLidar(t, h)
      PROVE  Bookkeeping'
  <2>1. CASE LockConfig(t)
    BY <2>1, LockConfigKeeps
  <2>2. CASE RequestOption(t)
    BY <2>2, RequestOptionKeeps
  <2>3. CASE UnlockConfig(t)
    BY <2>3, UnlockConfigKeeps
  <2>4. CASE \/ \E h \in Handle : ReportLidar(t, h)
             \/ FindDevice(t) \/ LookAgain(t) \/ InsertIndex(t) \/ NoFreeIndex(t)
             \/ SendAttitude(t) \/ SendWorkMode(t) \/ SendImuEnable(t)
    BY <2>4, PlainStepsKeep
  <2> QED BY <1>2, <2>1, <2>2, <2>3, <2>4 DEF InfoChange
<1>3. ASSUME UNCHANGED vars PROVE Bookkeeping'
  <2> USE <1>3 DEF vars, slots, devices, handler, ConfigInv, Bookkeeping
  <2>1. Alone' /\ LockHeld'
    BY DEF Alone, LockHeld
  <2>2. \A s, o : Remembered(s, o)' <=> Remembered(s, o)
    BY DEF Remembered, Asked, FromFile
  <2>3. PassUnderWay' /\ PassDone'
    BY <2>2 DEF PassUnderWay, PassDone
  <2>4. ConfiguredBeforeSampling'
    BY DEF ConfiguredBeforeSampling, Asked, FromFile
  <2> QED BY <2>1, <2>3, <2>4
<1>4. ASSUME NEW h \in Handle, Answer(h) PROVE Bookkeeping'
  <2>1. ASSUME NEW o \in Option, OptionSet(h, o) PROVE Bookkeeping'
    BY <2>1, OptionSetKeeps
  <2>2. CASE \/ \E o \in Option : OptionRefused(h, o)
             \/ WorkModeSet(h)
             \/ \E r \in Commands : PlainAnswer(h, r)
    BY <2>2, OtherAnswersKeep
  <2>3. CASE UNCHANGED vars
    BY <1>3, <2>3
  <2> QED BY <1>4, <2>1, <2>2, <2>3 DEF Answer, OptionTimeout, WorkModeFailed, PlainTimeout
<1>5. Bookkeeping'
  BY <1>2, <1>3, <1>4 DEF Next
<1> QED BY <1>1, <1>5 DEF ConfigInv, Bookkeeping

\* config_mutex_ does its work for any number of options and lidars: a device is
\* Sampling only with every option it was to set acknowledged.
THEOREM SamplingIsConfigured ==
    ASSUME OneAtATime
    PROVE  Spec => []ConfiguredBeforeSampling
<1>1. ConfigInv => ConfiguredBeforeSampling
  BY DEF ConfigInv, Bookkeeping
<1> QED BY <1>1, InitialConfig, ConfigKeeps, PTL DEF Spec
=============================================================================
