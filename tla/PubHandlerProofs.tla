--------------------------- MODULE PubHandlerProofs ---------------------------
(***************************************************************************)
(* Proofs about the frame assembly, for any lidars, packets, queue limit,  *)
(* interval and clocks: the types, that frames are cut on time, and that   *)
(* the frames are the streams of points, cut.                              *)
(***************************************************************************)
EXTENDS PubHandler, SequenceTheorems, WellFoundedInduction, TLAPS

-----------------------------------------------------------------------------
(* Types.                                                                   *)

\* The thread holds a packet exactly while it processes one.
HoldsPacket == IF worker = "process" THEN raw_data \in Packet ELSE raw_data = None

TypeInv == TypeOK /\ HoldsPacket

LEMMA PointsTyped ==
    ASSUME NEW p \in Packet
    PROVE  /\ PointCloudProcess(p) \in Seq(Nat) /\ Len(PointCloudProcess(p)) = PointNum
           /\ PointCloudProcess(p)[1] = p.time_stamp
           /\ PointCloudProcess(p)[PointNum] = p.time_stamp + (PointNum - 1) * PointInterval
           /\ (PointNum - 1) * PointInterval \in Nat
<1>1. \A i \in 1..PointNum : (i - 1) * PointInterval \in Nat
  BY PacketAssumption
<1>2. \A i \in 1..PointNum : p.time_stamp + (i - 1) * PointInterval \in Nat
  BY <1>1 DEF Packet
<1>3. 1 \in 1..PointNum /\ PointNum \in 1..PointNum
  BY PacketAssumption
<1>4. (1 - 1) * PointInterval = 0 /\ p.time_stamp \in Nat
  BY PacketAssumption DEF Packet
<1> QED BY <1>1, <1>2, <1>3, <1>4, PacketAssumption DEF PointCloudProcess

LEMMA UnpackedTyped ==
    ASSUME TypeInv, worker = "process"
    PROVE  Unpacked \in [Lidar -> Seq(Nat)]
<1>1. PointCloudProcess(raw_data) \in Seq(Nat)
  BY PointsTyped DEF TypeInv, HoldsPacket
<1>2. points_clouds_[raw_data.handle] \o PointCloudProcess(raw_data) \in Seq(Nat)
  BY <1>1 DEF TypeInv, TypeOK, HoldsPacket, Packet
<1> QED BY <1>2 DEF TypeInv, TypeOK, Unpacked

LEMMA PublishTyped ==
    ASSUME TypeInv, worker = "process", NEW ls, Publish(Unpacked, ls)
    PROVE  points_clouds_' \in [Lidar -> Seq(Nat)] /\ frame_' \in [Lidar -> Seq(Nat)]
BY UnpackedTyped DEF Publish, TypeInv, TypeOK

LEMMA KeepTyped ==
    ASSUME TypeInv, worker = "process", Keep(Unpacked)
    PROVE  points_clouds_' \in [Lidar -> Seq(Nat)] /\ frame_' \in [Lidar -> Seq(Nat)]
BY UnpackedTyped DEF Keep, TypeInv, TypeOK

LEMMA TakeTyped ==
    ASSUME TypeInv, worker # "process", raw_packet_queue_ # <<>>, TakeFront
    PROVE  TypeInv'
<1>1. raw_data' \in Packet /\ raw_packet_queue_' \in Seq(Packet)
  BY DEF TakeFront, TypeInv, TypeOK
<1>2. Len(raw_packet_queue_') <= MaxQueue
  <2>1. Len(raw_packet_queue_') = Len(raw_packet_queue_) - 1 /\ Len(raw_packet_queue_) \in Nat
    BY DEF TakeFront, TypeInv, TypeOK
  <2> QED BY <2>1, BoundAssumption DEF TypeInv, TypeOK
<1> QED BY <1>1, <1>2 DEF TakeFront, TypeInv, TypeOK, HoldsPacket, frameVars, envVars

LEMMA TypeInit == Init => TypeInv
<1> SUFFICES ASSUME Init PROVE TypeInv
  OBVIOUS
<1>1. phase \in [Lidar -> Nat]
  <2>1. phase \in [Lidar -> Phase \cup {0}] /\ Phase \cup {0} \subseteq Nat
    BY PacketAssumption DEF Init
  <2> QED BY <2>1
<1>2. <<>> \in Seq(Nat) /\ <<>> \in Seq(Packet) /\ Len(<<>>) <= MaxQueue
  BY BoundAssumption
<1>3. points_clouds_ \in [Lidar -> Seq(Nat)] /\ frame_ \in [Lidar -> Seq(Nat)]
  BY <1>2 DEF Init
<1>4. sent \in [Lidar -> Nat] /\ synced \in [Lidar -> BOOLEAN]
  BY DEF Init
<1> QED BY <1>1, <1>2, <1>3, <1>4 DEF Init, TypeInv, TypeOK, HoldsPacket

LEMMA TypeStep == TypeInv /\ [Next]_vars => TypeInv'
<1> SUFFICES ASSUME TypeInv, [Next]_vars PROVE TypeInv'
  OBVIOUS
<1> USE DEF queueVars, frameVars, envVars
<1>1. CASE Tick
  BY <1>1, TimeAssumption DEF Tick, TypeInv, TypeOK, HoldsPacket
<1>2. ASSUME NEW l \in Lidar, OnLivoxLidarPointCloudCallback(l) PROVE TypeInv'
  <2>1. GetEthPacketTimestamp(l) \in Nat
    <3>1. phase[l] \in Nat /\ sent[l] \in Nat /\ now \in Nat
      BY DEF TypeInv, TypeOK
    <3> QED BY <3>1, PacketAssumption DEF GetEthPacketTimestamp
  <2>2. [handle |-> l, time_stamp |-> GetEthPacketTimestamp(l)] \in Packet
    BY <2>1 DEF Packet
  <2>3. raw_packet_queue_' \in Seq(Packet) /\ Len(raw_packet_queue_') <= MaxQueue
    BY <1>2, <2>2, BoundAssumption DEF OnLivoxLidarPointCloudCallback, TypeInv, TypeOK
  <2>4. sent' \in [Lidar -> Nat]
    BY <1>2 DEF OnLivoxLidarPointCloudCallback, TypeInv, TypeOK
  <2> QED BY <1>2, <2>3, <2>4 DEF OnLivoxLidarPointCloudCallback, TypeInv, TypeOK, HoldsPacket
<1>3. ASSUME NEW l \in Lidar, OnLivoxLidarImuPacket(l) PROVE TypeInv'
  BY <1>3 DEF OnLivoxLidarImuPacket, TypeInv, TypeOK, HoldsPacket
<1>4. CASE CheckQuit \/ WaitForPacket \/ WakeWithNothing
  BY <1>4 DEF CheckQuit, WaitForPacket, WakeWithNothing, TypeInv, TypeOK, HoldsPacket
<1>5. CASE TakePacket \/ WakeWithPacket
  BY <1>5, TakeTyped DEF TakePacket, WakeWithPacket
<1>6. CASE ProcessPacket
  <2>1. points_clouds_' \in [Lidar -> Seq(Nat)] /\ frame_' \in [Lidar -> Seq(Nat)]
    BY <1>6, PublishTyped, KeepTyped DEF ProcessPacket, CheckSyncedTimer, CheckHostTimer
  <2>2. last_pub_time_' \in Nat \cup {None}
    BY <1>6, TimeAssumption DEF ProcessPacket, CheckSyncedTimer, CheckHostTimer, TypeInv, TypeOK
  <2> QED BY <1>6, <2>1, <2>2 DEF ProcessPacket, TypeInv, TypeOK, HoldsPacket
<1>7. CASE RemoveObserver \/ RequestExit \/ Join
  BY <1>7 DEF RemoveObserver, RequestExit, Join, TypeInv, TypeOK, HoldsPacket
<1>8. CASE UNCHANGED vars
  BY <1>8 DEF vars, TypeInv, TypeOK, HoldsPacket
<1> QED BY <1>1, <1>2, <1>3, <1>4, <1>5, <1>6, <1>7, <1>8 DEF Next, Worker
-----------------------------------------------------------------------------
(* The packets of a lidar with a synchronised clock are PacketTicks apart,  *)
(* from the place where they are stamped to the place where they are used.  *)

\* The packets of lidar l among ps are stamped first, first + PacketTicks and so
\* on, and the next one of l to come in will be stamped end.
InStep(ps, l, first, end) ==
    /\ \A i \in 1..Len(ps) :
          ps[i].handle = l =>
              /\ (\A j \in 1..(i - 1) : ps[j].handle # l) => ps[i].time_stamp = first
              /\ (\A j \in (i + 1)..Len(ps) : ps[j].handle # l) =>
                     ps[i].time_stamp + PacketTicks = end
              /\ \A j \in (i + 1)..Len(ps) :
                    ps[j].handle = l /\ (\A k \in (i + 1)..(j - 1) : ps[k].handle # l) =>
                        ps[j].time_stamp = ps[i].time_stamp + PacketTicks
    /\ (\A i \in 1..Len(ps) : ps[i].handle # l) => first = end

LEMMA InStepArrive ==
    ASSUME NEW ps \in Seq(Packet), NEW l \in Lidar, NEW first \in Nat, NEW end \in Nat,
           NEW p \in Packet, InStep(ps, l, first, end)
    PROVE  /\ p.handle # l => InStep(Append(ps, p), l, first, end)
           /\ p.handle = l /\ p.time_stamp = end => InStep(Append(ps, p), l, first, end + PacketTicks)
<1> DEFINE qs == Append(ps, p)
<1>1. /\ Len(qs) = Len(ps) + 1 /\ qs[Len(ps) + 1] = p /\ Len(ps) \in Nat
      /\ \A i \in 1..Len(ps) : qs[i] = ps[i]
  OBVIOUS
<1> HIDE DEF qs
<1>2. ASSUME p.handle # l PROVE InStep(qs, l, first, end)
  <2>1. ASSUME NEW i \in 1..Len(qs), qs[i].handle = l
        PROVE  i \in 1..Len(ps) /\ qs[i] = ps[i] /\ ps[i].handle = l
    BY <1>1, <1>2, <2>1
  <2>2. ASSUME NEW i \in 1..Len(qs), qs[i].handle = l, \A j \in 1..(i - 1) : qs[j].handle # l
        PROVE  qs[i].time_stamp = first
    <3>1. \A j \in 1..(i - 1) : ps[j].handle # l
      BY <1>1, <2>1, <2>2
    <3> QED BY <2>1, <2>2, <3>1 DEF InStep
  <2>3. ASSUME NEW i \in 1..Len(qs), qs[i].handle = l,
               \A j \in (i + 1)..Len(qs) : qs[j].handle # l
        PROVE  qs[i].time_stamp + PacketTicks = end
    <3>1. \A j \in (i + 1)..Len(ps) : ps[j].handle # l
      BY <1>1, <2>1, <2>3
    <3> QED BY <2>1, <2>3, <3>1 DEF InStep
  <2>4. ASSUME NEW i \in 1..Len(qs), qs[i].handle = l, NEW j \in (i + 1)..Len(qs),
               qs[j].handle = l, \A k \in (i + 1)..(j - 1) : qs[k].handle # l
        PROVE  qs[j].time_stamp = qs[i].time_stamp + PacketTicks
    <3>1. i \in 1..Len(ps) /\ j \in (i + 1)..Len(ps) /\ qs[i] = ps[i] /\ qs[j] = ps[j]
      BY <1>1, <2>1, <2>4
    <3>2. \A k \in (i + 1)..(j - 1) : ps[k].handle # l
      BY <1>1, <2>4, <3>1
    <3> QED BY <2>4, <3>1, <3>2 DEF InStep
  <2>5. ASSUME \A i \in 1..Len(qs) : qs[i].handle # l PROVE first = end
    <3>1. \A i \in 1..Len(ps) : ps[i].handle # l
      BY <1>1, <2>5
    <3> QED BY <3>1 DEF InStep
  <2> QED BY <2>2, <2>3, <2>4, <2>5 DEF InStep
<1>3. ASSUME p.handle = l, p.time_stamp = end PROVE InStep(qs, l, first, end + PacketTicks)
  <2> DEFINE Latest(i) == ps[i].handle = l /\ \A j \in (i + 1)..Len(ps) : ps[j].handle # l
  <2>1. \A i \in 1..Len(ps) : Latest(i) => ps[i].time_stamp + PacketTicks = end
    BY DEF InStep
  <2>2. (\A i \in 1..Len(ps) : ps[i].handle # l) => first = end
    BY DEF InStep
  <2>3. ASSUME NEW i \in 1..Len(qs), qs[i].handle = l
        PROVE  /\ (\A j \in 1..(i - 1) : qs[j].handle # l) => qs[i].time_stamp = first
               /\ (\A j \in (i + 1)..Len(qs) : qs[j].handle # l) =>
                      qs[i].time_stamp + PacketTicks = end + PacketTicks
               /\ \A j \in (i + 1)..Len(qs) :
                    qs[j].handle = l /\ (\A k \in (i + 1)..(j - 1) : qs[k].handle # l) =>
                        qs[j].time_stamp = qs[i].time_stamp + PacketTicks
    <3>1. CASE i = Len(ps) + 1
      BY <1>1, <1>3, <2>2, <2>3, <3>1
    <3>2. CASE i \in 1..Len(ps)
      <4>1. (\A j \in 1..(i - 1) : qs[j].handle # l) => qs[i].time_stamp = first
        BY <1>1, <2>3, <3>2, SMTT(40) DEF InStep
      <4>2. ~ \A j \in (i + 1)..Len(qs) : qs[j].handle # l
        BY <1>1, <1>3, <3>2
      <4>3. ASSUME NEW j \in (i + 1)..Len(qs), qs[j].handle = l,
                   \A k \in (i + 1)..(j - 1) : qs[k].handle # l
            PROVE  qs[j].time_stamp = qs[i].time_stamp + PacketTicks
        <5>1. CASE j = Len(ps) + 1
          <6>1. Latest(i)
            BY <1>1, <2>3, <3>2, <4>3, <5>1, SMTT(40)
          <6> QED BY <1>1, <1>3, <2>1, <3>2, <5>1, <6>1
        <5>2. CASE j \in (i + 1)..Len(ps)
          <6>1. ps[i].handle = l /\ ps[j].handle = l /\ \A k \in (i + 1)..(j - 1) : ps[k].handle # l
            BY <1>1, <2>3, <3>2, <4>3, <5>2
          <6> QED BY <1>1, <3>2, <5>2, <6>1 DEF InStep
        <5> QED BY <1>1, <3>2, <5>1, <5>2
      <4> QED BY <4>1, <4>2, <4>3
    <3> QED BY <1>1, <3>1, <3>2
  <2>4. ~ \A i \in 1..Len(qs) : qs[i].handle # l
    BY <1>1, <1>3
  <2> QED BY <2>3, <2>4 DEF InStep
<1> QED BY <1>2, <1>3 DEF qs

LEMMA InStepUse ==
    ASSUME NEW ps \in Seq(Packet), ps # <<>>, NEW l \in Lidar, NEW first \in Nat, NEW end \in Nat,
           InStep(ps, l, first, end)
    PROVE  /\ Head(ps).handle # l => InStep(Tail(ps), l, first, end)
           /\ Head(ps).handle = l => /\ Head(ps).time_stamp = first
                                     /\ InStep(Tail(ps), l, first + PacketTicks, end)
<1> DEFINE qs == Tail(ps)
<1>1. /\ Len(ps) = Len(qs) + 1 /\ Len(qs) \in Nat /\ Head(ps) = ps[1]
      /\ \A i \in 1..Len(qs) : qs[i] = ps[i + 1]
  OBVIOUS
<1> HIDE DEF qs
<1>2. ASSUME NEW i \in 1..Len(qs), qs[i].handle = l
      PROVE  /\ (\A j \in (i + 1)..Len(qs) : qs[j].handle # l) => qs[i].time_stamp + PacketTicks = end
             /\ \A j \in (i + 1)..Len(qs) :
                    qs[j].handle = l /\ (\A k \in (i + 1)..(j - 1) : qs[k].handle # l) =>
                        qs[j].time_stamp = qs[i].time_stamp + PacketTicks
  <2>1. i + 1 \in 1..Len(ps) /\ ps[i + 1].handle = l /\ qs[i] = ps[i + 1]
    BY <1>1, <1>2
  <2>2. (\A j \in (i + 1)..Len(qs) : qs[j].handle # l) =>
            \A j \in ((i + 1) + 1)..Len(ps) : ps[j].handle # l
    <3> SUFFICES ASSUME \A j \in (i + 1)..Len(qs) : qs[j].handle # l,
                        NEW j \in ((i + 1) + 1)..Len(ps)
                 PROVE  ps[j].handle # l
      OBVIOUS
    <3>1. j - 1 \in (i + 1)..Len(qs) /\ qs[j - 1] = ps[(j - 1) + 1] /\ (j - 1) + 1 = j
      BY <1>1
    <3> QED BY <3>1
  <2>3. ASSUME NEW j \in (i + 1)..Len(qs), qs[j].handle = l,
               \A k \in (i + 1)..(j - 1) : qs[k].handle # l
        PROVE  qs[j].time_stamp = qs[i].time_stamp + PacketTicks
    <3>1. j + 1 \in ((i + 1) + 1)..Len(ps) /\ qs[j] = ps[j + 1]
      BY <1>1
    <3>2. ASSUME NEW k \in ((i + 1) + 1)..((j + 1) - 1) PROVE ps[k].handle # l
      <4>1. k - 1 \in (i + 1)..(j - 1) /\ qs[k - 1] = ps[(k - 1) + 1] /\ (k - 1) + 1 = k
        BY <1>1
      <4> QED BY <2>3, <4>1
    <3> QED BY <2>1, <2>3, <3>1, <3>2 DEF InStep
  <2> QED BY <2>1, <2>2, <2>3 DEF InStep
<1>3. ASSUME ps[1].handle # l PROVE InStep(qs, l, first, end)
  <2>1. ASSUME NEW i \in 1..Len(qs), qs[i].handle = l, \A j \in 1..(i - 1) : qs[j].handle # l
        PROVE  qs[i].time_stamp = first
    <3>1. i + 1 \in 1..Len(ps) /\ qs[i] = ps[i + 1]
      BY <1>1
    <3>2. ASSUME NEW j \in 1..((i + 1) - 1) PROVE ps[j].handle # l
      <4>1. j = 1 \/ (j - 1 \in 1..(i - 1) /\ qs[j - 1] = ps[(j - 1) + 1] /\ (j - 1) + 1 = j)
        BY <1>1
      <4> QED BY <1>3, <2>1, <4>1
    <3> QED BY <2>1, <3>1, <3>2 DEF InStep
  <2>2. ASSUME \A i \in 1..Len(qs) : qs[i].handle # l PROVE first = end
    <3>1. ASSUME NEW j \in 1..Len(ps) PROVE ps[j].handle # l
      <4>1. j = 1 \/ (j - 1 \in 1..Len(qs) /\ qs[j - 1] = ps[(j - 1) + 1] /\ (j - 1) + 1 = j)
        BY <1>1
      <4> QED BY <1>3, <2>2, <4>1
    <3> QED BY <3>1 DEF InStep
  <2> QED BY <1>2, <2>1, <2>2 DEF InStep
<1>4. ASSUME ps[1].handle = l
      PROVE  ps[1].time_stamp = first /\ InStep(qs, l, first + PacketTicks, end)
  <2>1. 1 \in 1..Len(ps) /\ ps[1].time_stamp = first
    BY <1>1, <1>4 DEF InStep
  <2>2. ASSUME NEW i \in 1..Len(qs), qs[i].handle = l, \A j \in 1..(i - 1) : qs[j].handle # l
        PROVE  qs[i].time_stamp = first + PacketTicks
    <3>1. i + 1 \in (1 + 1)..Len(ps) /\ qs[i] = ps[i + 1]
      BY <1>1
    <3>2. ASSUME NEW k \in (1 + 1)..((i + 1) - 1) PROVE ps[k].handle # l
      <4>1. k - 1 \in 1..(i - 1) /\ qs[k - 1] = ps[(k - 1) + 1] /\ (k - 1) + 1 = k
        BY <1>1
      <4> QED BY <2>2, <4>1
    <3> QED BY <1>4, <2>1, <2>2, <3>1, <3>2 DEF InStep
  <2>3. ASSUME \A i \in 1..Len(qs) : qs[i].handle # l PROVE first + PacketTicks = end
    <3>1. ASSUME NEW j \in (1 + 1)..Len(ps) PROVE ps[j].handle # l
      <4>1. j - 1 \in 1..Len(qs) /\ qs[j - 1] = ps[(j - 1) + 1] /\ (j - 1) + 1 = j
        BY <1>1
      <4> QED BY <2>3, <4>1
    <3> QED BY <1>4, <2>1, <3>1 DEF InStep
  <2> QED BY <1>2, <2>1, <2>2, <2>3 DEF InStep
<1> QED BY <1>1, <1>3, <1>4 DEF qs

-----------------------------------------------------------------------------
(* Division.                                                                *)

LEMMA TimesMono ==
    ASSUME NEW x \in Int, NEW y \in Int, NEW d \in Nat, x <= y
    PROVE  x * d <= y * d
OBVIOUS

LEMMA NextMultiple ==
    ASSUME NEW n \in Int, NEW d \in Int
    PROVE  (n + 1) * d = n * d + d /\ n * d \in Int
OBVIOUS

LEMMA Division ==
    ASSUME NEW a \in Nat, NEW d \in Nat \ {0}
    PROVE  /\ a \div d \in Nat /\ a % d \in 0..(d - 1) /\ a = (a \div d) * d + (a % d)
           /\ (a \div d) * d <= a /\ a < (a \div d + 1) * d
<1> DEFINE q == a \div d  r == a % d
<1>1. a = q * d + r
  OBVIOUS
<1>2. q \in Nat /\ r \in 0..(d - 1)
  OBVIOUS
<1> HIDE DEF q, r
<1>3. (q + 1) * d = q * d + d /\ q * d \in Int
  BY <1>2, NextMultiple
<1> QED BY <1>1, <1>2, <1>3 DEF q, r

LEMMA Quotient ==
    ASSUME NEW a \in Nat, NEW d \in Nat \ {0}, NEW q \in Nat, q * d <= a, a < (q + 1) * d
    PROVE  a \div d = q /\ a % d = a - q * d
<1> DEFINE t == a \div d
<1>1. /\ t \in Nat /\ a % d \in 0..(d - 1) /\ a = t * d + (a % d)
      /\ t * d <= a /\ a < (t + 1) * d
  BY Division
<1> HIDE DEF t
<1>2. ~ (t >= q + 1)
  <2> SUFFICES ASSUME t >= q + 1 PROVE FALSE
    OBVIOUS
  <2>1. (q + 1) * d <= t * d /\ (q + 1) * d \in Int /\ t * d \in Int
    BY <1>1, TimesMono
  <2> QED BY <1>1, <2>1
<1>3. ~ (t + 1 <= q)
  <2> SUFFICES ASSUME t + 1 <= q PROVE FALSE
    OBVIOUS
  <2>1. (t + 1) * d <= q * d /\ (t + 1) * d \in Int /\ q * d \in Int
    BY <1>1, TimesMono
  <2> QED BY <1>1, <2>1
<1>4. t = q
  BY <1>1, <1>2, <1>3
<1> QED BY <1>1, <1>4 DEF t

\* In the first millisecond after a multiple of the interval, the millisecond
\* is a multiple of the interval in milliseconds.
LEMMA DueAt ==
    ASSUME NEW k \in Nat \ {0}, NEW r \in Nat,
           k * publish_interval_ <= r, r < k * publish_interval_ + TicksPerMs
    PROVE  (r \div TicksPerMs) % publish_interval_ms_ = 0 /\ r \div TicksPerMs # 0
<1> DEFINE m == publish_interval_ms_
<1>1. TicksPerMs \in Nat \ {0} /\ publish_interval_ \in Nat \ {0}
      /\ publish_interval_ % TicksPerMs = 0
  BY TimeAssumption, CadenceAssumption
<1>2. m \in Nat /\ publish_interval_ = m * TicksPerMs
  <2>1. m \in Nat /\ publish_interval_ = m * TicksPerMs + (publish_interval_ % TicksPerMs)
    BY <1>1, Division DEF publish_interval_ms_
  <2>2. m * TicksPerMs \in Int
    BY <1>1, <2>1
  <2> HIDE DEF m
  <2> QED BY <1>1, <2>1, <2>2
<1> HIDE DEF m
<1>3. m # 0
  BY <1>1, <1>2
<1> DEFINE n == k * m
<1>4. n \in Nat \ {0}
  BY <1>2, <1>3
<1>5. k * publish_interval_ = n * TicksPerMs
  BY <1>1, <1>2
<1>6. n % m = 0
  <2>1. (k + 1) * m = n + m /\ n \in Int
    BY <1>2, NextMultiple
  <2> HIDE DEF n
  <2>2. k * m <= n
    BY <1>4 DEF n
  <2>3. n < (k + 1) * m
    BY <1>2, <1>3, <2>1
  <2>4. n % m = n - k * m
    BY <1>2, <1>3, <1>4, <2>2, <2>3, Quotient
  <2> QED BY <2>1, <2>4 DEF n
<1> HIDE DEF n
<1>7. (n + 1) * TicksPerMs = n * TicksPerMs + TicksPerMs /\ n * TicksPerMs \in Int
  BY <1>1, <1>4, NextMultiple
<1>8. r \div TicksPerMs = n
  <2>1. n * TicksPerMs <= r /\ r < (n + 1) * TicksPerMs
    BY <1>5, <1>7
  <2> QED BY <1>1, <1>4, <2>1, Quotient
<1> QED BY <1>4, <1>6, <1>8 DEF m

-----------------------------------------------------------------------------
(* Frames on time.                                                          *)

\* The time that a packet's points take up.
Width == (PointNum - 1) * PointInterval

\* When points that began to gather at base are in a frame: at the next multiple
\* of the interval, or the one after it.
Deadline(q, base) ==
    (IF base - q * publish_interval_ <= TicksPerMs THEN q + 1 ELSE q + 2) * publish_interval_

\* The points of a lidar whose next packet is stamped first.
OnTime(points, first) ==
    points # <<>> =>
        LET base == Head(points)
            recent == Last(points)
        IN  /\ base <= recent /\ recent + PacketTicks = first + Width
            /\ \E q \in Nat : /\ q * publish_interval_ <= base
                              /\ base < (q + 1) * publish_interval_
                              /\ recent < Deadline(q, base)

AllSynced == \A l \in Lidar : synced[l]

\* With synchronised clocks the flag is set while there are packets, the packets
\* of every lidar are in step with its points, and these are on time.
TimeInv ==
    AllSynced =>
        /\ Pending # <<>> => is_timestamp_sync_
        /\ \A l \in Lidar : \E first \in Nat :
              /\ InStep(Pending, l, first, phase[l] + sent[l] * PacketTicks)
              /\ OnTime(points_clouds_[l], first)

LEMMA UnpackedEnds ==
    ASSUME NEW points \in Seq(Nat), NEW p \in Packet
    PROVE  LET all == points \o PointCloudProcess(p)
           IN  /\ all \in Seq(Nat) /\ all # <<>>
               /\ Head(all) = IF points = <<>> THEN p.time_stamp ELSE Head(points)
               /\ Last(all) = p.time_stamp + Width
<1> DEFINE new == PointCloudProcess(p)
<1>1. /\ new \in Seq(Nat) /\ Len(new) = PointNum /\ new[1] = p.time_stamp
      /\ new[PointNum] = p.time_stamp + Width /\ PointNum \in Nat \ {0}
  BY PointsTyped, PacketAssumption DEF Width
<1> HIDE DEF new
<1>2. /\ points \o new \in Seq(Nat) /\ Len(points \o new) = Len(points) + PointNum
      /\ \A i \in 1..(Len(points) + PointNum) :
            (points \o new)[i] = IF i <= Len(points) THEN points[i] ELSE new[i - Len(points)]
      /\ Len(points) \in Nat
  BY <1>1
<1>3. (points \o new)[Len(points) + PointNum] = new[PointNum]
  <2>1. Len(points) + PointNum \in 1..(Len(points) + PointNum)
        /\ ~ (Len(points) + PointNum <= Len(points))
        /\ (Len(points) + PointNum) - Len(points) = PointNum
    BY <1>1, <1>2
  <2> QED BY <1>2, <2>1
<1>4. (points \o new)[1] = IF points = <<>> THEN new[1] ELSE points[1]
  <2>1. 1 \in 1..(Len(points) + PointNum) /\ (points = <<>> <=> ~ (1 <= Len(points)))
        /\ (points = <<>> => 1 - Len(points) = 1)
    BY <1>1, <1>2
  <2> QED BY <1>2, <2>1
<1>5. points \o new # <<>> /\ Head(points \o new) = (points \o new)[1]
  BY <1>1, <1>2
<1>6. points # <<>> => Head(points) = points[1]
  OBVIOUS
<1> QED BY <1>1, <1>2, <1>3, <1>4, <1>5, <1>6 DEF Last, new

\* A packet that takes the points of its lidar to their deadline makes a frame due.
LEMMA UnpackOnTime ==
    ASSUME NEW points \in Seq(Nat), NEW p \in Packet, OnTime(points, p.time_stamp),
           ~ FrameDue(points \o PointCloudProcess(p))
    PROVE  OnTime(points \o PointCloudProcess(p), p.time_stamp + PacketTicks)
<1> DEFINE all == points \o PointCloudProcess(p)
           base == Head(all)
           recent == Last(all)
           first == p.time_stamp
           I == publish_interval_
<1>1. /\ all # <<>> /\ base = (IF points = <<>> THEN first ELSE Head(points))
      /\ recent = first + Width
  BY UnpackedEnds
<1>2. /\ TicksPerMs \in Nat \ {0} /\ I \in Nat \ {0} /\ I >= TicksPerMs
      /\ PacketTicks \in Nat /\ PacketTicks <= TicksPerMs
      /\ Width \in Nat /\ Width < PacketTicks /\ first \in Nat
  BY TimeAssumption, PacketAssumption, CadenceAssumption, PointsTyped DEF Width, Packet
<1>3. points # <<>> => Head(points) \in Nat /\ Last(points) \in Nat
  BY DEF Last
<1> HIDE DEF all, base, recent, first
<1>4. base \in Nat /\ recent \in Nat /\ base <= recent
  <2>1. points # <<>> => Head(points) <= Last(points) /\ Last(points) + PacketTicks = first + Width
    BY DEF OnTime, first
  <2> QED BY <1>1, <1>2, <1>3, <2>1
<1>5. \E q \in Nat : q * I <= base /\ base < (q + 1) * I
                     /\ (recent < base + TicksPerMs \/ recent < Deadline(q, base) + TicksPerMs)
  <2>1. CASE points = <<>>
    <3>1. base \div I \in Nat /\ (base \div I) * I <= base /\ base < (base \div I + 1) * I
      BY <1>2, <1>4, Division
    <3>2. recent < base + TicksPerMs
      BY <1>1, <1>2, <2>1
    <3> QED BY <3>1, <3>2
  <2>2. CASE points # <<>>
    <3>1. PICK q \in Nat : /\ q * I <= base /\ base < (q + 1) * I
                           /\ Last(points) < Deadline(q, base)
      BY <1>1, <2>2 DEF OnTime, first
    <3>2. Last(points) + PacketTicks = recent
      BY <1>1, <2>2 DEF OnTime, first
    <3>3. Deadline(q, base) \in Int
      <4>1. q * I \in Int /\ (q + 1) * I \in Int /\ (q + 2) * I \in Int
        BY <1>2
      <4> QED BY <4>1 DEF Deadline
    <3>4. recent < Deadline(q, base) + TicksPerMs
      BY <1>2, <1>3, <2>2, <3>1, <3>2, <3>3
    <3> QED BY <3>1, <3>4
  <2> QED BY <2>1, <2>2
<1>6. PICK q \in Nat : q * I <= base /\ base < (q + 1) * I
                       /\ (recent < base + TicksPerMs \/ recent < Deadline(q, base) + TicksPerMs)
  BY <1>5
<1>7. /\ q * I \in Int /\ (q + 1) * I = q * I + I /\ (q + 2) * I = q * I + I + I
      /\ q + 1 \in Nat \ {0} /\ q + 2 \in Nat \ {0}
  <2>1. (q + 1) * I = q * I + I /\ q * I \in Int /\ ((q + 1) + 1) * I = (q + 1) * I + I
    BY <1>2, NextMultiple
  <2>2. (q + 1) + 1 = q + 2
    OBVIOUS
  <2> QED BY <2>1, <2>2
<1>8. ASSUME NEW k \in Nat \ {0}, k * I <= recent, recent < k * I + TicksPerMs,
             recent - base >= I - TicksPerMs
      PROVE  FALSE
  <2>1. (recent \div TicksPerMs) % publish_interval_ms_ = 0 /\ recent \div TicksPerMs # 0
    BY <1>4, <1>8, DueAt
  <2>2. GetRecentTimeStamp(all) = recent /\ GetLidarBaseTime(all) = base
    BY <1>1 DEF GetRecentTimeStamp, GetLidarBaseTime, recent, base
  <2> QED BY <1>8, <2>1, <2>2 DEF FrameDue, publish_interval_tolerance_, all
<1>9. recent < Deadline(q, base)
  <2>1. CASE base - q * I <= TicksPerMs
    <3>1. Deadline(q, base) = (q + 1) * I
      BY <2>1 DEF Deadline
    <3>2. CASE recent >= (q + 1) * I
      <4>1. recent < (q + 1) * I + TicksPerMs /\ recent - base >= I - TicksPerMs
        BY <1>2, <1>4, <1>6, <1>7, <2>1, <3>1, <3>2
      <4> QED BY <1>7, <1>8, <3>2, <4>1
    <3> QED BY <1>4, <1>7, <3>1, <3>2, <1>2
  <2>2. CASE ~ (base - q * I <= TicksPerMs)
    <3>1. Deadline(q, base) = (q + 2) * I
      BY <2>2 DEF Deadline
    <3>2. CASE recent >= (q + 2) * I
      <4>1. recent < (q + 2) * I + TicksPerMs /\ recent - base >= I - TicksPerMs
        BY <1>2, <1>4, <1>6, <1>7, <2>2, <3>1, <3>2
      <4> QED BY <1>7, <1>8, <3>2, <4>1
    <3> QED BY <1>4, <1>7, <3>1, <3>2, <1>2
  <2> QED BY <2>1, <2>2
<1>10. recent + PacketTicks = (first + PacketTicks) + Width
  BY <1>1, <1>2
<1> QED BY <1>4, <1>6, <1>9, <1>10 DEF OnTime, all, base, recent, first

\* What the steps of the queue do to the packets not unpacked yet: they arrive
\* behind the others, stay while the thread takes one, and are used in order.
LEMMA PendingArrive ==
    ASSUME TypeInv, NEW p \in Packet, raw_packet_queue_' = Append(raw_packet_queue_, p),
           UNCHANGED raw_data
    PROVE  Pending \in Seq(Packet) /\ Pending' = Append(Pending, p)
<1> DEFINE held == IF raw_data = None THEN <<>> ELSE <<raw_data>>
<1>1. held \in Seq(Packet) /\ raw_packet_queue_ \in Seq(Packet)
  BY DEF TypeInv, TypeOK
<1>2. Pending = held \o raw_packet_queue_ /\ Pending' = held \o Append(raw_packet_queue_, p)
  BY DEF Pending
<1> HIDE DEF held
<1> QED BY <1>1, <1>2, AppendIsConcat, ConcatAssociative

LEMMA PendingTake ==
    ASSUME TypeInv, worker # "process", raw_packet_queue_ # <<>>, TakeFront
    PROVE  Pending' = Pending
<1>1. raw_packet_queue_ \in Seq(Packet) /\ raw_data = None /\ None \notin Packet
  BY NoneAssumption DEF TypeInv, TypeOK, HoldsPacket, Packet
<1>2. Head(raw_packet_queue_) \in Packet
  BY <1>1
<1>3. raw_data' = Head(raw_packet_queue_) /\ raw_packet_queue_' = Tail(raw_packet_queue_)
  BY DEF TakeFront
<1>4. Pending = <<>> \o raw_packet_queue_ /\ <<>> \o raw_packet_queue_ = raw_packet_queue_
  BY <1>1, ConcatEmptySeq DEF Pending
<1>5. Pending' = <<Head(raw_packet_queue_)>> \o Tail(raw_packet_queue_)
  BY <1>1, <1>2, <1>3 DEF Pending
<1>6. <<Head(raw_packet_queue_)>> \o Tail(raw_packet_queue_) = raw_packet_queue_
  BY <1>1
<1> QED BY <1>4, <1>5, <1>6

LEMMA PendingUse ==
    ASSUME TypeInv, worker = "process", UNCHANGED raw_packet_queue_, raw_data' = None
    PROVE  /\ Pending \in Seq(Packet) /\ Pending # <<>> /\ Pending' \in Seq(Packet)
           /\ Head(Pending) = raw_data /\ Tail(Pending) = Pending'
<1>1. raw_packet_queue_ \in Seq(Packet) /\ raw_data \in Packet /\ raw_data # None
  BY NoneAssumption DEF TypeInv, TypeOK, HoldsPacket, Packet
<1>2. Pending = <<raw_data>> \o raw_packet_queue_
  BY <1>1 DEF Pending
<1>3. Pending' = <<>> \o raw_packet_queue_ /\ <<>> \o raw_packet_queue_ = raw_packet_queue_
  BY <1>1, ConcatEmptySeq DEF Pending
<1> QED BY <1>1, <1>2, <1>3

LEMMA StampTyped ==
    ASSUME TypeInv, NEW l \in Lidar
    PROVE  phase[l] + sent[l] * PacketTicks \in Nat
<1>1. phase[l] \in Nat /\ sent[l] \in Nat /\ PacketTicks \in Nat
  BY PacketAssumption DEF TypeInv, TypeOK
<1>2. \A a, b \in Nat : a * b \in Nat
  OBVIOUS
<1>3. sent[l] * PacketTicks \in Nat
  BY <1>1, <1>2
<1> QED BY <1>1, <1>3

LEMMA TimeInit == Init => TimeInv
<1> SUFFICES ASSUME Init PROVE TimeInv
  OBVIOUS
<1>1. Pending = <<>>
  <2>1. <<>> \o <<>> = <<>>
    OBVIOUS
  <2> QED BY <2>1 DEF Init, Pending
<1>2. ASSUME NEW l \in Lidar
      PROVE  \E first \in Nat : /\ InStep(Pending, l, first, phase[l] + sent[l] * PacketTicks)
                                /\ OnTime(points_clouds_[l], first)
  <2>1. phase[l] \in Nat /\ sent[l] = 0 /\ 0 * PacketTicks = 0
    BY TypeInit, PacketAssumption DEF Init, TypeInv, TypeOK
  <2>2. InStep(<<>>, l, phase[l], phase[l])
    BY DEF InStep
  <2>3. OnTime(points_clouds_[l], phase[l])
    BY DEF Init, OnTime
  <2> QED BY <1>1, <2>1, <2>2, <2>3
<1> QED BY <1>1, <1>2 DEF TimeInv

LEMMA TimeArrive ==
    ASSUME TypeInv, TimeInv, NEW l \in Lidar, OnLivoxLidarPointCloudCallback(l)
    PROVE  TimeInv'
<1> DEFINE p == [handle |-> l, time_stamp |-> GetEthPacketTimestamp(l)]
           stamp(k) == phase[k] + sent[k] * PacketTicks
<1> SUFFICES ASSUME AllSynced' PROVE /\ Pending' # <<>> => is_timestamp_sync_'
                                     /\ \A k \in Lidar : \E first \in Nat :
                                          InStep(Pending', k, first, stamp(k)')
                                          /\ OnTime(points_clouds_'[k], first)
  BY DEF TimeInv
<1>1. AllSynced /\ synced[l]
  BY DEF AllSynced, OnLivoxLidarPointCloudCallback, envVars
<1>2. \A k \in Lidar : stamp(k) \in Nat
  BY StampTyped
<1>3. p \in Packet /\ p.handle = l /\ p.time_stamp = stamp(l)
  BY <1>1, <1>2 DEF GetEthPacketTimestamp, Packet
<1>4. raw_packet_queue_' = Append(raw_packet_queue_, p) /\ UNCHANGED raw_data
  BY DEF OnLivoxLidarPointCloudCallback
<1> HIDE DEF p
<1>5. Pending \in Seq(Packet) /\ Pending' = Append(Pending, p)
  BY <1>3, <1>4, PendingArrive
<1>6. ASSUME NEW k \in Lidar PROVE stamp(k)' = IF k = l THEN stamp(k) + PacketTicks ELSE stamp(k)
  <2>1. sent[k] \in Nat /\ phase[k] \in Nat /\ sent \in [Lidar -> Nat]
    BY DEF TypeInv, TypeOK
  <2>2. phase' = phase /\ sent'[k] = IF k = l THEN sent[k] + 1 ELSE sent[k]
    BY <2>1 DEF OnLivoxLidarPointCloudCallback, envVars
  <2>3. (sent[k] + 1) * PacketTicks = sent[k] * PacketTicks + PacketTicks
        /\ sent[k] * PacketTicks \in Int
    BY <2>1, PacketAssumption, NextMultiple
  <2> QED BY <2>1, <2>2, <2>3, PacketAssumption
<1> HIDE DEF stamp
<1>7. ASSUME NEW k \in Lidar
      PROVE  \E first \in Nat : InStep(Pending', k, first, stamp(k)')
                                /\ OnTime(points_clouds_'[k], first)
  <2>1. PICK first \in Nat : InStep(Pending, k, first, stamp(k)) /\ OnTime(points_clouds_[k], first)
    BY <1>1 DEF TimeInv, stamp
  <2>2. InStep(Append(Pending, p), k, first, stamp(k)')
    BY <1>2, <1>3, <1>5, <1>6, <2>1, InStepArrive
  <2>3. points_clouds_' = points_clouds_
    BY DEF OnLivoxLidarPointCloudCallback, frameVars
  <2> QED BY <1>5, <2>1, <2>2, <2>3
<1>8. is_timestamp_sync_'
  BY <1>1 DEF OnLivoxLidarPointCloudCallback
<1> QED BY <1>7, <1>8

LEMMA TimeProcess ==
    ASSUME TypeInv, TimeInv, ProcessPacket
    PROVE  TimeInv'
<1> SUFFICES ASSUME AllSynced'
             PROVE  /\ Pending' # <<>> => is_timestamp_sync_'
                    /\ \A k \in Lidar : \E first \in Nat :
                          InStep(Pending', k, first, phase'[k] + sent'[k] * PacketTicks)
                          /\ OnTime(points_clouds_'[k], first)
  BY DEF TimeInv
<1>1. AllSynced /\ UNCHANGED <<is_timestamp_sync_, phase, sent>>
  BY DEF AllSynced, ProcessPacket, envVars, queueVars
<1>2. /\ Pending \in Seq(Packet) /\ Pending # <<>>
      /\ Head(Pending) = raw_data /\ Tail(Pending) = Pending'
  BY PendingUse DEF ProcessPacket, queueVars
<1>3. is_timestamp_sync_ /\ CheckSyncedTimer /\ raw_data \in Packet /\ raw_data.handle \in Lidar
  BY <1>1, <1>2 DEF TimeInv, ProcessPacket, CheckHostTimer, TypeInv, HoldsPacket, Packet
<1>4. ASSUME NEW k \in Lidar
      PROVE  \E first \in Nat : InStep(Pending', k, first, phase'[k] + sent'[k] * PacketTicks)
                                /\ OnTime(points_clouds_'[k], first)
  <2> DEFINE stamp == phase[k] + sent[k] * PacketTicks
             all == points_clouds_[k] \o PointCloudProcess(raw_data)
  <2>1. PICK first \in Nat : InStep(Pending, k, first, stamp) /\ OnTime(points_clouds_[k], first)
    BY <1>1 DEF TimeInv
  <2>2. stamp \in Nat /\ PacketTicks \in Nat
    BY PacketAssumption, StampTyped
  <2>3. stamp = phase'[k] + sent'[k] * PacketTicks
    BY <1>1
  <2> HIDE DEF stamp
  <2>4. CASE raw_data.handle # k
    <3>1. InStep(Pending', k, first, stamp)
      BY <1>2, <2>1, <2>2, <2>4, InStepUse
    <3>2. points_clouds_'[k] = points_clouds_[k]
      BY <1>3, <2>4 DEF CheckSyncedTimer, Publish, Keep, Unpacked, TypeInv, TypeOK
    <3> QED BY <2>1, <2>3, <3>1, <3>2
  <2>5. CASE raw_data.handle = k
    <3>1. raw_data.time_stamp = first /\ InStep(Pending', k, first + PacketTicks, stamp)
      BY <1>2, <2>1, <2>2, <2>5, InStepUse
    <3>2. Unpacked[k] = all
      BY <2>5 DEF Unpacked, TypeInv, TypeOK
    <3>3. OnTime(points_clouds_'[k], first + PacketTicks)
      <4>1. CASE FrameDue(all)
        <5>1. points_clouds_'[k] = <<>>
          BY <1>3, <2>5, <3>2, <4>1 DEF CheckSyncedTimer, Publish
        <5> QED BY <5>1 DEF OnTime
      <4>2. CASE ~FrameDue(all)
        <5>1. points_clouds_'[k] = all
          BY <1>3, <2>5, <3>2, <4>2 DEF CheckSyncedTimer, Keep
        <5>2. points_clouds_[k] \in Seq(Nat)
          BY DEF TypeInv, TypeOK
        <5>3. OnTime(all, first + PacketTicks)
          BY <1>3, <2>1, <3>1, <4>2, <5>2, UnpackOnTime
        <5> QED BY <5>1, <5>3
      <4> QED BY <4>1, <4>2
    <3> QED BY <2>2, <2>3, <3>1, <3>3
  <2> QED BY <2>4, <2>5
<1> QED BY <1>1, <1>3, <1>4

LEMMA TimeStep == TypeInv /\ TimeInv /\ [Next]_vars => TimeInv'
<1> SUFFICES ASSUME TypeInv, TimeInv, [Next]_vars PROVE TimeInv'
  OBVIOUS
<1> DEFINE Same == UNCHANGED <<points_clouds_, synced, sent, phase>> /\ Pending' = Pending
<1>1. ASSUME Same, UNCHANGED is_timestamp_sync_ \/ (AllSynced => is_timestamp_sync_')
      PROVE  TimeInv'
  BY <1>1 DEF TimeInv, AllSynced
<1> HIDE DEF Same
<1> USE DEF queueVars, frameVars, envVars
<1>2. CASE Tick
  BY <1>1, <1>2 DEF Tick, Pending, Same
<1>3. ASSUME NEW l \in Lidar, OnLivoxLidarPointCloudCallback(l) PROVE TimeInv'
  BY <1>3, TimeArrive
<1>4. ASSUME NEW l \in Lidar, OnLivoxLidarImuPacket(l) PROVE TimeInv'
  <2>1. AllSynced => is_timestamp_sync_'
    BY <1>4 DEF OnLivoxLidarImuPacket, AllSynced
  <2>2. Same
    BY <1>4 DEF OnLivoxLidarImuPacket, Pending, Same
  <2> QED BY <1>1, <2>1, <2>2
<1>5. CASE CheckQuit \/ WaitForPacket \/ WakeWithNothing
  BY <1>1, <1>5 DEF CheckQuit, WaitForPacket, WakeWithNothing, Pending, Same
<1>6. CASE TakePacket \/ WakeWithPacket
  <2>1. TakeFront /\ worker # "process" /\ raw_packet_queue_ # <<>>
    BY <1>6 DEF TakePacket, WakeWithPacket
  <2>2. Same /\ UNCHANGED is_timestamp_sync_
    BY <2>1, PendingTake DEF TakeFront, Same
  <2> QED BY <1>1, <2>2
<1>7. CASE ProcessPacket
  BY <1>7, TimeProcess
<1>8. CASE RemoveObserver \/ RequestExit \/ Join
  BY <1>1, <1>8 DEF RemoveObserver, RequestExit, Join, Pending, Same
<1>9. CASE UNCHANGED vars
  BY <1>1, <1>9 DEF vars, Pending, Same
<1> QED BY <1>2, <1>3, <1>4, <1>5, <1>6, <1>7, <1>8, <1>9 DEF Next, Worker

LEMMA TimeInvSound == TypeInv /\ TimeInv => FramesOnTime
<1> SUFFICES ASSUME TypeInv, TimeInv, AllSynced, NEW l \in Lidar, points_clouds_[l] # <<>>
             PROVE  LET base == GetLidarBaseTime(points_clouds_[l])
                        gathered == GetRecentTimeStamp(points_clouds_[l]) - base
                        starts == base % publish_interval_ <= TicksPerMs
                    IN  gathered < (IF starts THEN 1 ELSE 2) * publish_interval_
  BY DEF FramesOnTime, AllSynced
<1> DEFINE base == Head(points_clouds_[l])
           recent == Last(points_clouds_[l])
           I == publish_interval_
<1>1. base = GetLidarBaseTime(points_clouds_[l]) /\ recent = GetRecentTimeStamp(points_clouds_[l])
  BY DEF GetLidarBaseTime, GetRecentTimeStamp
<1>2. PICK q \in Nat : q * I <= base /\ base < (q + 1) * I /\ recent < Deadline(q, base)
  BY DEF TimeInv, OnTime
<1>3. base \in Nat /\ recent \in Nat /\ I \in Nat \ {0}
  BY TimeAssumption DEF TypeInv, TypeOK, Last
<1> HIDE DEF base, recent
<1>4. base % I = base - q * I
  BY <1>2, <1>3, Quotient
<1>5. q * I \in Int /\ (q + 1) * I = q * I + I /\ (q + 2) * I = q * I + I + I
  <2>1. (q + 1) * I = q * I + I /\ q * I \in Int /\ ((q + 1) + 1) * I = (q + 1) * I + I
    BY <1>3, NextMultiple
  <2>2. (q + 1) + 1 = q + 2
    OBVIOUS
  <2> QED BY <2>1, <2>2
<1>6. CASE base % I <= TicksPerMs
  <2>1. recent < (q + 1) * I
    BY <1>2, <1>4, <1>6 DEF Deadline
  <2>2. recent - base < 1 * I
    BY <1>2, <1>3, <1>5, <2>1
  <2> QED BY <1>1, <1>6, <2>2
<1>7. CASE ~ (base % I <= TicksPerMs)
  <2>1. recent < (q + 2) * I
    BY <1>2, <1>4, <1>7 DEF Deadline
  <2>2. recent - base < 2 * I
    BY <1>2, <1>3, <1>5, <2>1
  <2> QED BY <1>1, <1>7, <2>2
<1> QED BY <1>6, <1>7

\* For any lidars, packets and interval: the types, and the frames of lidars with
\* synchronised clocks are cut within an interval, or two for the points that
\* began to gather between the multiples (pub_handler.cpp:186-200).
THEOREM FramesAreSound == Spec => []FramesSound
<1>1. Init => TypeInv /\ TimeInv
  BY TypeInit, TimeInit
<1>2. TypeInv /\ TimeInv /\ [Next]_vars => (TypeInv /\ TimeInv)'
  BY TypeStep, TimeStep
<1>3. TypeInv /\ TimeInv => FramesSound
  BY TimeInvSound DEF FramesSound, TypeInv
<1> QED BY <1>1, <1>2, <1>3, PTL DEF Spec

-----------------------------------------------------------------------------
(* What unpacking packets gathers.                                          *)

LEMMA NatLeast ==
    ASSUME NEW T, T \subseteq Nat, T # {}
    PROVE  \E x \in T : \A y \in T : x <= y
<1> DEFINE R == OpToRel(<, Nat)
<1>1. IsWellFoundedOn(R, Nat)
  BY NatLessThanWellFounded
<1>2. \A x, y \in Nat : x < y => <<x, y>> \in R
  BY DEF OpToRel
<1> HIDE DEF R
<1>3. \E x \in T : \A y \in T : ~ (<<y, x>> \in R)
  BY <1>1, WFMin
<1>4. \A x, y \in Nat : ~(y < x) => x <= y
  OBVIOUS
<1> QED BY <1>2, <1>3, <1>4

\* Induction up to n, over a set of naturals.
LEMMA CountsUp ==
    ASSUME NEW n \in Nat, NEW S, 0 \in S, \A i \in 1..n : i - 1 \in S => i \in S
    PROVE  \A i \in 0..n : i \in S
<1> DEFINE T == {i \in 0..n : i \notin S}
<1> SUFFICES ASSUME T # {} PROVE FALSE
  OBVIOUS
<1>1. PICK x \in T : \A y \in T : x <= y
  <2>1. T \subseteq Nat
    OBVIOUS
  <2> HIDE DEF T
  <2> QED BY <2>1, NatLeast
<1>2. x \in 1..n
  BY <1>1
<1>3. x - 1 \in 0..n /\ ~ (x <= x - 1)
  BY <1>2
<1>4. x - 1 \in S
  BY <1>1, <1>3
<1> QED BY <1>1, <1>2, <1>4

\* An offset_time, for sequences whose elements do not matter.
Offset == Nat

\* g holds the points of l after 0, 1, ..., n of the packets.
Gathers(g, n, l, points, packets) ==
    g = [i \in 0..n |-> IF i = 0 THEN points ELSE g[i - 1] \o Points(l, packets[i])]

LEMMA GathersExists ==
    ASSUME NEW l, NEW points, NEW packets, NEW m \in Nat
    PROVE  \E g : Gathers(g, m, l, points, packets)
<1> DEFINE S == {n \in 0..m : \E g : Gathers(g, n, l, points, packets)}
<1>1. 0 \in S
  <2> DEFINE g == [i \in 0..0 |-> points]
  <2>1. Gathers(g, 0, l, points, packets)
    BY DEF Gathers
  <2> HIDE DEF g
  <2> QED BY <2>1
<1>2. ASSUME NEW n \in 1..m, n - 1 \in S PROVE n \in S
  <2>1. PICK g : Gathers(g, n - 1, l, points, packets)
    BY <1>2
  <2> DEFINE h == [i \in 0..n |-> IF i = n THEN g[n - 1] \o Points(l, packets[n]) ELSE g[i]]
  <2>2. ASSUME NEW i \in 0..n
        PROVE  h[i] = IF i = 0 THEN points ELSE h[i - 1] \o Points(l, packets[i])
    <3>1. CASE i = n
      <4>1. i - 1 \in 0..n /\ i - 1 # n /\ i # 0
        BY <3>1
      <4> QED BY <3>1, <4>1
    <3>2. CASE i # n
      <4>1. i \in 0..(n - 1)
        BY <3>2
      <4>2. g[i] = IF i = 0 THEN points ELSE g[i - 1] \o Points(l, packets[i])
        BY <2>1, <4>1 DEF Gathers
      <4>3. i # 0 => i - 1 \in 0..n /\ i - 1 # n
        BY <4>1
      <4> QED BY <3>2, <4>2, <4>3
    <3> QED BY <3>1, <3>2
  <2>3. h = [i \in 0..n |-> h[i]]
    OBVIOUS
  <2> HIDE DEF h
  <2>4. Gathers(h, n, l, points, packets)
    BY <2>2, <2>3 DEF Gathers
  <2> QED BY <2>4
<1>3. m \in S
  <2> HIDE DEF S
  <2>1. \A i \in 0..m : i \in S
    BY <1>1, <1>2, CountsUp
  <2> QED BY <2>1
<1> QED BY <1>3

\* The same, point by point.
GatherSteps(g, l, points, packets) ==
    /\ g[0] = points
    /\ \A i \in 1..Len(packets) : g[i] = g[i - 1] \o Points(l, packets[i])

LEMMA GatheredIs ==
    ASSUME NEW l \in Lidar, NEW points \in Seq(Offset), NEW packets \in Seq(Packet)
    PROVE  \E g : Gathered(l, points, packets) = g[Len(packets)] /\ GatherSteps(g, l, points, packets)
<1> DEFINE n == Len(packets)
           g == CHOOSE f : f = [i \in 0..n |-> IF i = 0 THEN points
                                               ELSE f[i - 1] \o Points(l, packets[i])]
<1>1. Gathered(l, points, packets) = g[n]
  BY DEF Gathered
<1>2. \E f : Gathers(f, n, l, points, packets)
  <2>1. n \in Nat
    OBVIOUS
  <2> HIDE DEF n, g
  <2> QED BY <2>1, GathersExists
<1>3. g = [i \in 0..n |-> IF i = 0 THEN points ELSE g[i - 1] \o Points(l, packets[i])]
  BY <1>2 DEF Gathers
<1> HIDE DEF g
<1>4. g[0] = points /\ \A i \in 1..n : g[i] = g[i - 1] \o Points(l, packets[i])
  <2>1. n \in Nat
    OBVIOUS
  <2> HIDE DEF n
  <2> QED BY <1>3, <2>1
<1> QED BY <1>1, <1>4 DEF GatherSteps

LEMMA AddedTyped ==
    ASSUME NEW p \in Packet, NEW l \in Lidar
    PROVE  Points(l, p) \in Seq(Offset)
BY PointsTyped DEF Points, Offset

LEMMA JoinTyped ==
    ASSUME NEW a \in Seq(Offset), NEW b \in Seq(Offset)
    PROVE  a \o b \in Seq(Offset)
OBVIOUS

LEMMA JoinAssociative ==
    ASSUME NEW a \in Seq(Offset), NEW b \in Seq(Offset), NEW c \in Seq(Offset)
    PROVE  a \o (b \o c) = (a \o b) \o c
BY ConcatAssociative, SMTT(40)

LEMMA GatheredNone ==
    ASSUME NEW l \in Lidar, NEW points \in Seq(Offset)
    PROVE  Gathered(l, points, <<>>) = points
<1>1. <<>> \in Seq(Packet) /\ Len(<<>>) = 0
  OBVIOUS
<1>2. \E g : Gathered(l, points, <<>>) = g[Len(<<>>)] /\ GatherSteps(g, l, points, <<>>)
  BY <1>1, GatheredIs
<1>3. \E g : Gathered(l, points, <<>>) = g[0] /\ g[0] = points
  BY <1>1, <1>2 DEF GatherSteps
<1> QED BY <1>3

LEMMA GatheredTyped ==
    ASSUME NEW l \in Lidar, NEW points \in Seq(Offset), NEW packets \in Seq(Packet)
    PROVE  Gathered(l, points, packets) \in Seq(Offset)
<1> DEFINE n == Len(packets)
<1>1. n \in Nat /\ \A i \in 1..n : packets[i] \in Packet
  OBVIOUS
<1>2. PICK g : Gathered(l, points, packets) = g[Len(packets)] /\ GatherSteps(g, l, points, packets)
  BY GatheredIs
<1>g. /\ Gathered(l, points, packets) = g[n] /\ g[0] = points
      /\ \A i \in 1..n : g[i] = g[i - 1] \o Points(l, packets[i])
  BY <1>2 DEF GatherSteps
<1> DEFINE S == {i \in 0..n : g[i] \in Seq(Offset)}
<1> HIDE DEF n
<1>3. 0 \in S
  BY <1>1, <1>g
<1>4. ASSUME NEW i \in 1..n, i - 1 \in S PROVE i \in S
  <2>1. g[i - 1] \in Seq(Offset) /\ Points(l, packets[i]) \in Seq(Offset)
    BY <1>1, <1>4, AddedTyped
  <2>2. g[i] = g[i - 1] \o Points(l, packets[i])
    BY <1>g
  <2>3. g[i] \in Seq(Offset)
    BY <2>1, <2>2, JoinTyped
  <2> QED BY <2>3
<1>5. n \in S
  <2> HIDE DEF S
  <2>1. \A i \in 0..n : i \in S
    BY <1>1, <1>3, <1>4, CountsUp
  <2> QED BY <1>1, <2>1
<1> QED BY <1>g, <1>5

LEMMA GatheredLast ==
    ASSUME NEW l \in Lidar, NEW points \in Seq(Offset), NEW packets \in Seq(Packet), NEW p \in Packet
    PROVE  Gathered(l, points, Append(packets, p)) = Gathered(l, points, packets) \o Points(l, p)
<1> DEFINE n == Len(packets)  longer == Append(packets, p)
<1>1. /\ n \in Nat /\ Len(longer) = n + 1 /\ longer[n + 1] = p
      /\ \A i \in 1..n : longer[i] = packets[i]
      /\ longer \in Seq(Packet)
  OBVIOUS
<1> HIDE DEF n, longer
<1>2. PICK g : Gathered(l, points, packets) = g[Len(packets)] /\ GatherSteps(g, l, points, packets)
  BY GatheredIs
<1>g. /\ Gathered(l, points, packets) = g[n] /\ g[0] = points
      /\ \A i \in 1..n : g[i] = g[i - 1] \o Points(l, packets[i])
  BY <1>2 DEF GatherSteps, n
<1>3. PICK h : Gathered(l, points, longer) = h[Len(longer)] /\ GatherSteps(h, l, points, longer)
  BY <1>1, GatheredIs
<1>h. /\ Gathered(l, points, longer) = h[n + 1] /\ h[0] = points
      /\ \A i \in 1..(n + 1) : h[i] = h[i - 1] \o Points(l, longer[i])
  BY <1>1, <1>3 DEF GatherSteps
<1> DEFINE S == {i \in 0..n : h[i] = g[i]}
<1>4. 0 \in S
  BY <1>1, <1>g, <1>h
<1>5. ASSUME NEW i \in 1..n, i - 1 \in S PROVE i \in S
  <2>1. i \in 1..(n + 1) /\ longer[i] = packets[i] /\ h[i - 1] = g[i - 1]
    BY <1>1, <1>5
  <2>2. h[i] = h[i - 1] \o Points(l, longer[i]) /\ g[i] = g[i - 1] \o Points(l, packets[i])
    BY <1>g, <1>h, <2>1
  <2>3. h[i] = g[i]
    BY <2>1, <2>2
  <2> QED BY <2>3
<1>6. n \in S
  <2> HIDE DEF S
  <2>1. \A i \in 0..n : i \in S
    BY <1>1, <1>4, <1>5, CountsUp
  <2> QED BY <1>1, <2>1
<1>7. h[n + 1] = h[n] \o Points(l, p)
  <2>1. n + 1 \in 1..(n + 1) /\ (n + 1) - 1 = n
    BY <1>1
  <2> QED BY <1>1, <1>h, <2>1
<1> QED BY <1>g, <1>h, <1>6, <1>7 DEF longer

LEMMA GatheredFirst ==
    ASSUME NEW l \in Lidar, NEW points \in Seq(Offset), NEW packets \in Seq(Packet), packets # <<>>
    PROVE  Gathered(l, points \o Points(l, Head(packets)), Tail(packets))
             = Gathered(l, points, packets)
<1> DEFINE rest == Tail(packets)  n == Len(rest)
<1>1. /\ n \in Nat /\ Len(packets) = n + 1 /\ Head(packets) = packets[1]
      /\ \A i \in 1..n : rest[i] = packets[i + 1]
      /\ rest \in Seq(Packet) /\ Head(packets) \in Packet
  OBVIOUS
<1>2. PICK g : Gathered(l, points, packets) = g[Len(packets)] /\ GatherSteps(g, l, points, packets)
  BY GatheredIs
<1>g. /\ Gathered(l, points, packets) = g[n + 1] /\ g[0] = points
      /\ \A i \in 1..(n + 1) : g[i] = g[i - 1] \o Points(l, packets[i])
  <2> HIDE DEF n
  <2> QED BY <1>1, <1>2 DEF GatherSteps
<1> DEFINE begun == points \o Points(l, Head(packets))
<1>3. PICK h : Gathered(l, begun, rest) = h[Len(rest)] /\ GatherSteps(h, l, begun, rest)
  <2>1. begun \in Seq(Offset)
    BY <1>1, AddedTyped, JoinTyped
  <2> HIDE DEF rest, begun
  <2> QED BY <1>1, <2>1, GatheredIs
<1> HIDE DEF rest
<1>h. /\ Gathered(l, begun, rest) = h[n] /\ h[0] = begun
      /\ \A i \in 1..n : h[i] = h[i - 1] \o Points(l, rest[i])
  <2> HIDE DEF begun
  <2> QED BY <1>3 DEF GatherSteps
<1> HIDE DEF n, rest
<1> DEFINE S == {i \in 0..n : h[i] = g[i + 1]}
<1>4. 0 \in S
  <2>1. g[1] = g[0] \o Points(l, packets[1])
    <3>1. 1 \in 1..(n + 1) /\ 1 - 1 = 0
      BY <1>1
    <3> QED BY <1>g, <3>1
  <2>2. g[0] = points /\ h[0] = begun /\ packets[1] = Head(packets)
    BY <1>1, <1>g, <1>h
  <2>3. h[0] = g[1] /\ 0 \in 0..n /\ 0 + 1 = 1
    BY <1>1, <2>1, <2>2
  <2> HIDE DEF begun
  <2> QED BY <2>3
<1>5. ASSUME NEW i \in 1..n, i - 1 \in S PROVE i \in S
  <2>1. h[i] = h[i - 1] \o Points(l, packets[i + 1]) /\ h[i - 1] = g[(i - 1) + 1]
    BY <1>1, <1>h, <1>5
  <2>2. i + 1 \in 1..(n + 1) /\ (i + 1) - 1 = i /\ (i - 1) + 1 = i /\ i \in 0..n
    BY <1>1
  <2>3. g[i + 1] = g[i] \o Points(l, packets[i + 1])
    BY <1>g, <2>2
  <2> QED BY <2>1, <2>2, <2>3
<1>6. n \in S
  <2> HIDE DEF S
  <2>1. \A i \in 0..n : i \in S
    BY <1>1, <1>4, <1>5, CountsUp
  <2> QED BY <1>1, <2>1
<1> QED BY <1>g, <1>h, <1>6 DEF rest

LEMMA GatheredBehind ==
    ASSUME NEW l \in Lidar, NEW points \in Seq(Offset), NEW packets \in Seq(Packet)
    PROVE  points \o Gathered(l, <<>>, packets) = Gathered(l, points, packets)
<1> DEFINE n == Len(packets)
<1>1. n \in Nat /\ \A i \in 1..n : packets[i] \in Packet
  OBVIOUS
<1>2. PICK g : Gathered(l, points, packets) = g[Len(packets)] /\ GatherSteps(g, l, points, packets)
  BY GatheredIs
<1>g. /\ Gathered(l, points, packets) = g[n] /\ g[0] = points
      /\ \A i \in 1..n : g[i] = g[i - 1] \o Points(l, packets[i])
  BY <1>2 DEF GatherSteps
<1>3. PICK h : Gathered(l, <<>>, packets) = h[Len(packets)] /\ GatherSteps(h, l, <<>>, packets)
  BY EmptySeq, GatheredIs
<1>h. /\ Gathered(l, <<>>, packets) = h[n] /\ h[0] = <<>>
      /\ \A i \in 1..n : h[i] = h[i - 1] \o Points(l, packets[i])
  BY <1>3 DEF GatherSteps
<1> HIDE DEF n
<1> DEFINE S == {i \in 0..n : h[i] \in Seq(Offset) /\ points \o h[i] = g[i]}
<1>4. 0 \in S
  <2>1. h[0] \in Seq(Offset) /\ points \o h[0] = g[0]
    BY <1>g, <1>h, EmptySeq, ConcatEmptySeq
  <2> QED BY <1>1, <2>1
<1>5. ASSUME NEW i \in 1..n, i - 1 \in S PROVE i \in S
  <2>1. /\ h[i - 1] \in Seq(Offset) /\ points \o h[i - 1] = g[i - 1]
        /\ Points(l, packets[i]) \in Seq(Offset)
    BY <1>1, <1>5, AddedTyped
  <2>2. h[i] = h[i - 1] \o Points(l, packets[i]) /\ g[i] = g[i - 1] \o Points(l, packets[i])
    BY <1>g, <1>h
  <2>3. points \o (h[i - 1] \o Points(l, packets[i])) = (points \o h[i - 1]) \o Points(l, packets[i])
    BY <2>1, JoinAssociative
  <2>4. h[i] \in Seq(Offset)
    BY <2>1, <2>2, JoinTyped
  <2>5. points \o h[i] = g[i]
    BY <2>1, <2>2, <2>3
  <2> QED BY <2>4, <2>5
<1>6. n \in S
  <2> HIDE DEF S
  <2>1. \A i \in 0..n : i \in S
    BY <1>1, <1>4, <1>5, CountsUp
  <2> QED BY <1>1, <2>1
<1> QED BY <1>g, <1>h, <1>6

-----------------------------------------------------------------------------
(* The frames are the streams of points, cut.                               *)

LEMMA WaitingTyped ==
    ASSUME TypeInv, Pending \in Seq(Packet), NEW l \in Lidar
    PROVE  points_clouds_[l] \in Seq(Offset) /\ Waiting(l) \in Seq(Offset)
<1>1. points_clouds_[l] \in Seq(Offset)
  BY DEF TypeInv, TypeOK, Offset
<1> QED BY <1>1, GatheredTyped DEF Waiting

LEMMA WaitingSame ==
    ASSUME UNCHANGED points_clouds_, Pending' = Pending, UNCHANGED frame_
    PROVE  UNCHANGED <<[l \in Lidar |-> Waiting(l)], frame_>>
BY DEF Waiting

LEMMA CutsInit == Init => Cutter!Init
<1> SUFFICES ASSUME Init PROVE Cutter!Init
  OBVIOUS
<1>1. Pending = <<>>
  <2>1. <<>> \o <<>> = <<>>
    OBVIOUS
  <2> QED BY <2>1 DEF Init, Pending
<1>2. \A l \in Lidar : Waiting(l) = <<>>
  BY <1>1, EmptySeq, GatheredNone DEF Init, Waiting
<1> QED BY <1>2 DEF Init, Cutter!Init

LEMMA CutsArrive ==
    ASSUME TypeInv, NEW l \in Lidar, OnLivoxLidarPointCloudCallback(l)
    PROVE  Cutter!Arrive
<1> DEFINE p == [handle |-> l, time_stamp |-> GetEthPacketTimestamp(l)]
           before == [k \in Lidar |-> Waiting(k)]
<1>1. p \in Packet /\ p.handle = l
  <2>1. GetEthPacketTimestamp(l) \in Nat
    BY StampTyped DEF GetEthPacketTimestamp, TypeInv, TypeOK
  <2> QED BY <2>1 DEF Packet
<1>2. raw_packet_queue_' = Append(raw_packet_queue_, p) /\ UNCHANGED <<raw_data, points_clouds_, frame_>>
  BY DEF OnLivoxLidarPointCloudCallback, frameVars
<1> HIDE DEF p
<1>3. Pending \in Seq(Packet) /\ Pending' = Append(Pending, p)
  BY <1>1, <1>2, PendingArrive
<1>4. ASSUME NEW k \in Lidar
      PROVE  Waiting(k) \in Seq(Offset) /\ Waiting(k)' = Waiting(k) \o Points(k, p)
  <2>1. points_clouds_[k] \in Seq(Offset) /\ Waiting(k) \in Seq(Offset)
    BY <1>3, WaitingTyped
  <2>2. Gathered(k, points_clouds_[k], Append(Pending, p))
          = Gathered(k, points_clouds_[k], Pending) \o Points(k, p)
    BY <1>1, <1>3, <2>1, GatheredLast
  <2> QED BY <1>2, <1>3, <2>1, <2>2 DEF Waiting
<1>5. \A k \in Lidar \ {l} : before'[k] = before[k]
  BY <1>1, <1>4, ConcatEmptySeq DEF Points
<1>6. /\ before[l] \in Seq(Offset) /\ before'[l] = before[l] \o PointCloudProcess(p)
      /\ PointCloudProcess(p) \in Seq(Offset) /\ Len(PointCloudProcess(p)) = PointNum
  BY <1>1, <1>4, PointsTyped DEF Points, Offset
<1> HIDE DEF before
<1>7. Len(before'[l]) > Len(before[l]) /\ SubSeq(before'[l], 1, Len(before[l])) = before[l]
  <2>1. PointNum > 0 /\ PointNum \in Nat /\ Len(before[l]) \in Nat
    BY <1>6, PacketAssumption
  <2>2. Len(before'[l]) = Len(before[l]) + PointNum
    BY <1>6, ConcatProperties
  <2>3. SubSeq(before'[l], 1, Len(before[l])) = before[l]
    BY <1>6, SubSeqOfConcat1, SubSeqFull
  <2> QED BY <2>1, <2>2, <2>3
<1> QED BY <1>2, <1>5, <1>7 DEF Cutter!Arrive, before

LEMMA CutsProcess ==
    ASSUME TypeInv, ProcessPacket
    PROVE  Cutter!Cut \/ UNCHANGED <<[l \in Lidar |-> Waiting(l)], frame_>>
<1>1. /\ Pending \in Seq(Packet) /\ Pending # <<>> /\ Pending' \in Seq(Packet)
      /\ Head(Pending) = raw_data /\ Tail(Pending) = Pending' /\ raw_data \in Packet
  BY PendingUse DEF ProcessPacket, queueVars, TypeInv, HoldsPacket
<1>2. Unpacked \in [Lidar -> Seq(Offset)]
  BY UnpackedTyped DEF ProcessPacket, Offset
<1>3. ASSUME NEW k \in Lidar PROVE Waiting(k) = Gathered(k, Unpacked[k], Pending')
  <2>1. points_clouds_[k] \in Seq(Offset)
    BY <1>1, WaitingTyped
  <2>2. Unpacked[k] = points_clouds_[k] \o Points(k, raw_data)
    <3>1. CASE raw_data.handle = k
      BY <3>1 DEF Unpacked, Points, TypeInv, TypeOK
    <3>2. CASE raw_data.handle # k
      <4>1. Unpacked[k] = points_clouds_[k] /\ Points(k, raw_data) = <<>>
        BY <3>2 DEF Unpacked, Points, TypeInv, TypeOK
      <4> QED BY <2>1, <4>1, ConcatEmptySeq
    <3> QED BY <3>1, <3>2
  <2> QED BY <1>1, <2>1, <2>2, GatheredFirst DEF Waiting
<1>4. \A k \in Lidar : Waiting(k)' = Gathered(k, points_clouds_'[k], Pending')
  BY DEF Waiting
<1>5. CASE Keep(Unpacked)
  <2>1. \A k \in Lidar : Waiting(k)' = Waiting(k)
    BY <1>3, <1>4, <1>5 DEF Keep
  <2> QED BY <1>5, <2>1 DEF Keep
<1>6. ASSUME NEW ls \in SUBSET Lidar, Publish(Unpacked, ls)
      PROVE  Cutter!Cut \/ UNCHANGED <<[l \in Lidar |-> Waiting(l)], frame_>>
  <2>1. CASE \A k \in ls : Unpacked[k] = <<>>
    <3>1. \A k \in Lidar : points_clouds_'[k] = Unpacked[k]
      BY <1>6, <2>1 DEF Publish
    <3>2. UNCHANGED frame_
      BY <1>6, <2>1 DEF Publish
    <3>3. \A k \in Lidar : Waiting(k)' = Waiting(k)
      BY <1>3, <1>4, <3>1
    <3> QED BY <3>2, <3>3
  <2>2. CASE ~ \A k \in ls : Unpacked[k] = <<>>
    <3>1. frame_' = [k \in Lidar |-> IF k \in ls THEN Unpacked[k] ELSE <<>>]
      BY <1>6, <2>2 DEF Publish
    <3>2. points_clouds_' = [k \in Lidar |-> IF k \in ls THEN <<>> ELSE Unpacked[k]]
      BY <1>6 DEF Publish
    <3>3. ASSUME NEW k \in Lidar PROVE frame_'[k] \o Waiting(k)' = Waiting(k)
      <4>1. CASE k \in ls
        <5>1. frame_'[k] = Unpacked[k] /\ Waiting(k)' = Gathered(k, <<>>, Pending')
          BY <1>4, <3>1, <3>2, <4>1
        <5>2. Unpacked[k] \o Gathered(k, <<>>, Pending') = Gathered(k, Unpacked[k], Pending')
          BY <1>1, <1>2, GatheredBehind
        <5> QED BY <1>3, <5>1, <5>2
      <4>2. CASE k \notin ls
        <5>1. frame_'[k] = <<>> /\ Waiting(k)' = Gathered(k, Unpacked[k], Pending')
          BY <1>4, <3>1, <3>2, <4>2
        <5>2. Gathered(k, Unpacked[k], Pending') \in Seq(Offset)
          BY <1>1, <1>2, GatheredTyped
        <5> QED BY <1>3, <5>1, <5>2, ConcatEmptySeq
      <4> QED BY <4>1, <4>2
    <3>4. DOMAIN frame_' = Lidar /\ \E k \in Lidar : frame_'[k] # <<>>
      BY <2>2, <3>1
    <3> QED BY <3>3, <3>4 DEF Cutter!Cut
  <2> QED BY <2>1, <2>2
<1>7. Keep(Unpacked) \/ Publish(Unpacked, {raw_data.handle}) \/ Publish(Unpacked, Lidar)
  BY DEF ProcessPacket, CheckSyncedTimer, CheckHostTimer
<1>8. {raw_data.handle} \in SUBSET Lidar /\ Lidar \in SUBSET Lidar
  BY <1>1 DEF Packet
<1> QED BY <1>5, <1>6, <1>7, <1>8

LEMMA CutsStep ==
    TypeInv /\ [Next]_vars =>
        [Cutter!Arrive \/ Cutter!Cut]_<<[l \in Lidar |-> Waiting(l)], frame_>>
<1> SUFFICES ASSUME TypeInv, [Next]_vars
             PROVE  Cutter!Arrive \/ Cutter!Cut \/ UNCHANGED <<[l \in Lidar |-> Waiting(l)], frame_>>
  OBVIOUS
<1> DEFINE Same == UNCHANGED <<points_clouds_, frame_>> /\ Pending' = Pending
<1>1. Same => UNCHANGED <<[l \in Lidar |-> Waiting(l)], frame_>>
  BY WaitingSame
<1> HIDE DEF Same
<1> USE DEF queueVars, frameVars, envVars
<1>2. CASE Tick
  BY <1>1, <1>2 DEF Tick, Pending, Same
<1>3. ASSUME NEW l \in Lidar, OnLivoxLidarPointCloudCallback(l) PROVE Cutter!Arrive
  BY <1>3, CutsArrive
<1>4. ASSUME NEW l \in Lidar, OnLivoxLidarImuPacket(l) PROVE Same
  BY <1>4 DEF OnLivoxLidarImuPacket, Pending, Same
<1>5. CASE CheckQuit \/ WaitForPacket \/ WakeWithNothing
  BY <1>1, <1>5 DEF CheckQuit, WaitForPacket, WakeWithNothing, Pending, Same
<1>6. CASE TakePacket \/ WakeWithPacket
  <2>1. TakeFront /\ worker # "process" /\ raw_packet_queue_ # <<>>
    BY <1>6 DEF TakePacket, WakeWithPacket
  <2> QED BY <1>1, <2>1, PendingTake DEF TakeFront, Same
<1>7. CASE ProcessPacket
  BY <1>7, CutsProcess
<1>8. CASE RemoveObserver \/ RequestExit \/ Join
  BY <1>1, <1>8 DEF RemoveObserver, RequestExit, Join, Pending, Same
<1>9. CASE UNCHANGED vars
  BY <1>1, <1>9 DEF vars, Pending, Same
<1> QED BY <1>1, <1>2, <1>3, <1>4, <1>5, <1>6, <1>7, <1>8, <1>9 DEF Next, Worker

\* Whatever the interleaving of the SDK's threads with the frame thread, and
\* whichever lidars are synchronised, the frame assembly (pub_handler.cpp:69-305)
\* implements FrameCutter: every point comes out in one frame, in its order.
THEOREM ImplementsCutter == Spec => CutsFrames
<1>1. Init => TypeInv /\ Cutter!Init
  BY TypeInit, CutsInit
<1>2. TypeInv /\ [Next]_vars => TypeInv'
  BY TypeStep
<1>3. TypeInv /\ [Next]_vars =>
        [Cutter!Arrive \/ Cutter!Cut]_<<[l \in Lidar |-> Waiting(l)], frame_>>
  BY CutsStep
<1> QED BY <1>1, <1>2, <1>3, PTL DEF Spec, CutsFrames, Cutter!Spec

=============================================================================
