------------------------------ MODULE LdqProofs ------------------------------
(***************************************************************************)
(* What the ring of Ldq guarantees for every size, every index width and   *)
(* every set of frames: the indices never overrun, a pop never fails, and, *)
(* when the stores of a push are visible in order, the two threads are     *)
(* never inside one slot and no packet is torn.                            *)
(***************************************************************************)
EXTENDS Ldq, SequenceTheorems, TLAPS

\* A difference of two uint32_t counters, as a value of the counter's range.
LEMMA Difference ==
    ASSUME NEW a \in Index, NEW b \in Index
    PROVE  /\ Distance(a, b) = IF a >= b THEN a - b ELSE a - b + IndexMod
           /\ Distance(a, b) \in Index
  BY SizeAssumption, IndexModAssumption DEF Index, Distance

LEMMA DistanceRange ==
    ASSUME NEW a \in Index, NEW b \in Index
    PROVE  /\ Distance(a, b) \in Nat /\ Distance(a, b) < IndexMod
           /\ Distance(a, b) = 0 <=> a = b
<1>1. a \in Int /\ b \in Int /\ 0 <= a /\ 0 <= b /\ a < IndexMod /\ b < IndexMod
  BY IndexModAssumption DEF Index
<1> QED
  BY <1>1, Difference, IndexModAssumption

\* An increment of a uint32_t counter.
LEMMA SuccessorValue ==
    ASSUME NEW a \in Index
    PROVE  /\ Successor(a) = IF a = IndexMod - 1 THEN 0 ELSE a + 1
           /\ Successor(a) \in Index
  BY SizeAssumption, IndexModAssumption DEF Index, Successor

\* Advancing the write index raises the used size by one, advancing the read
\* index lowers it by one, as long as the ring is not at either end.
LEMMA UsedAfterAdvance ==
    ASSUME NEW w \in Index, NEW r \in Index
    PROVE  /\ Distance(w, r) < Size =>
                 Distance(Successor(w), r) = Distance(w, r) + 1
           /\ w # r =>
                 Distance(w, Successor(r)) = Distance(w, r) - 1
<1>1. Successor(w) \in Index /\ Successor(r) \in Index
  BY SuccessorValue
<1>2. w \in Int /\ r \in Int /\ IndexMod \in Int /\ Size \in Int /\ Size < IndexMod
      /\ 0 <= w /\ w < IndexMod /\ 0 <= r /\ r < IndexMod /\ 0 < Size
  BY SizeAssumption, IndexModAssumption DEF Index
<1>3. Distance(w, r) = IF w >= r THEN w - r ELSE w - r + IndexMod
  BY Difference
<1>4. ASSUME Distance(w, r) < Size
      PROVE  Distance(Successor(w), r) = Distance(w, r) + 1
  <2>1. Distance(Successor(w), r) =
          IF Successor(w) >= r THEN Successor(w) - r ELSE Successor(w) - r + IndexMod
    BY <1>1, Difference
  <2>2. Successor(w) = IF w = IndexMod - 1 THEN 0 ELSE w + 1
    BY SuccessorValue
  <2> QED BY <2>1, <2>2, <1>2, <1>3, <1>4
<1>5. ASSUME w # r
      PROVE  Distance(w, Successor(r)) = Distance(w, r) - 1
  <2>1. Distance(w, Successor(r)) =
          IF w >= Successor(r) THEN w - Successor(r) ELSE w - Successor(r) + IndexMod
    BY <1>1, Difference
  <2>2. Successor(r) = IF r = IndexMod - 1 THEN 0 ELSE r + 1
    BY SuccessorValue
  <2> QED BY <2>1, <2>2, <1>2, <1>3, <1>5
<1> QED BY <1>4, <1>5

LEMMA Distributes ==
    ASSUME NEW n \in Int, NEW m \in Int, NEW s \in Int
    PROVE  n * s - m * s = (n - m) * s /\ n * s + m * s = (n + m) * s
  OBVIOUS

LEMMA NoMultipleBetween ==
    ASSUME NEW n \in Int, NEW s \in Nat \ {0}, 0 < n * s, n * s < s
    PROVE  FALSE
  OBVIOUS

LEMMA Division ==
    ASSUME NEW a \in Nat, NEW s \in Nat \ {0}
    PROVE  \E q \in Nat, r \in Nat : r = a % s /\ a = q * s + r
<1> DEFINE q == a \div s  r == a % s
<1>1. a = q * s + r
  OBVIOUS
<1>2. q \in Nat /\ r \in Nat
  OBVIOUS
<1> QED BY <1>1, <1>2

\* Two indices less than a turn of the ring apart address different slots:
\* this is where the index range must be a multiple of the size.
LEMMA SlotsDiffer ==
    ASSUME NEW a \in Index, NEW b \in Index,
           0 < Distance(a, b), Distance(a, b) < Size
    PROVE  a % Size # b % Size
<1> SUFFICES ASSUME a % Size = b % Size PROVE FALSE
  OBVIOUS
<1>1. a \in Nat /\ b \in Nat /\ IndexMod \in Nat /\ Size \in Nat \ {0} /\ Size \in Int
  BY SizeAssumption, IndexModAssumption DEF Index
<1>2. PICK qa \in Nat, ra \in Nat : ra = a % Size /\ a = qa * Size + ra
  BY <1>1, Division
<1>3. PICK qb \in Nat, rb \in Nat : rb = b % Size /\ b = qb * Size + rb
  BY <1>1, Division
<1>4. PICK k \in Nat, z \in Nat : z = IndexMod % Size /\ IndexMod = k * Size + z
  BY <1>1, Division
<1>5. ra = rb /\ z = 0
  BY <1>2, <1>3, <1>4, IndexModAssumption
<1>6. a - b = (qa - qb) * Size
  <2>1. a - b = qa * Size - qb * Size
    BY <1>1, <1>2, <1>3, <1>5
  <2> QED BY <2>1, <1>1, Distributes
<1>7. CASE a >= b
  <2>1. Distance(a, b) = (qa - qb) * Size
    BY <1>7, <1>6, Difference
  <2>2. qa - qb \in Int
    OBVIOUS
  <2> QED BY <2>1, <2>2, <1>1, NoMultipleBetween
<1>8. CASE ~(a >= b)
  <2>1. a - b + IndexMod = (qa - qb) * Size + k * Size
    BY <1>1, <1>4, <1>5, <1>6
  <2>2. qa - qb \in Int /\ k \in Int /\ qa - qb + k \in Int
    OBVIOUS
  <2>3. a - b + IndexMod = (qa - qb + k) * Size
    BY <2>1, <2>2, <1>1, Distributes
  <2>4. Distance(a, b) = (qa - qb + k) * Size
    BY <1>8, <2>3, Difference
  <2> QED BY <2>2, <2>4, <1>1, NoMultipleBetween
<1> QED BY <1>7, <1>8
-----------------------------------------------------------------------------
\* InitQueue has run to its end.
Ready == storage_packet # NoStorage /\ producer # "initialise"

\* The facts about the control state and the indices that every step keeps.
\* The full check reserves a slot (Reserved) that a pop cannot take away, and
\* the emptiness check of the poller finds a frame (Found) that a push cannot
\* take away: each thread moves only its own index.
Phases == /\ producer \in {"initialise", "check", "write"} => storage_packet # NoStorage
          /\ producer = "allocate" => storage_packet = NoStorage
          /\ producer = "write" <=> pending # {}
          /\ producer # "idle" => packet \in Frame
Sized == IF Ready THEN mask = Size - 1 ELSE rd_idx = 0 /\ wr_idx = 0
Bounded == UsedSize <= Size
Reserved == "wr_idx" \in pending => UsedSize < Size
Found == consumer # "idle" => rd_idx # wr_idx

IndexInv == TypeOK /\ Phases /\ Sized /\ Bounded /\ Reserved /\ Found

LEMMA InitialIndices == Init => IndexInv
<1> SUFFICES ASSUME Init PROVE IndexInv
  OBVIOUS
<1>1. 0 \in Index
  BY SizeAssumption, IndexModAssumption DEF Index
<1>2. UsedSize = 0
  BY <1>1, Difference DEF Init, UsedSize
<1> QED
  BY <1>1, <1>2, SizeAssumption
     DEF Init, IndexInv, TypeOK, Phases, Sized, Ready, Bounded, Reserved, Found, Slot, Store

\* What a step that leaves the indices alone has to show.
LEMMA IndicesKept ==
    ASSUME IndexInv, UNCHANGED <<rd_idx, wr_idx, mask>>, TypeOK', Phases',
           Ready' <=> Ready,
           "wr_idx" \in pending' => UsedSize < Size,
           consumer' # "idle" => rd_idx # wr_idx
    PROVE  IndexInv'
  BY DEF IndexInv, Sized, Bounded, Reserved, Found, UsedSize

LEMMA PushLidarDataKeeps ==
    ASSUME IndexInv, NEW f \in Frame, PushLidarData(f)
    PROVE  IndexInv'
<1> USE DEF PushLidarData, ring, consumerVars
<1>1. TypeOK'
  BY DEF IndexInv, TypeOK
<1>2. Phases'
  BY DEF IndexInv, Phases
<1>3. Ready' <=> Ready
  BY DEF Ready
<1> QED
  BY <1>1, <1>2, <1>3, IndicesKept DEF IndexInv, Reserved, Found

LEMMA AllocateStorageKeeps ==
    ASSUME IndexInv, AllocateStorage
    PROVE  IndexInv'
<1> USE DEF AllocateStorage, consumerVars
<1>1. storage_packet' \in [Slot -> Packet]
  BY DEF Packet
<1>2. storage_packet' # NoStorage
  BY <1>1, NoStorageAssumption DEF Slot, Packet
<1>3. TypeOK'
  BY <1>1 DEF IndexInv, TypeOK
<1>4. Phases'
  BY <1>2 DEF IndexInv, Phases
<1>5. ~Ready /\ ~Ready'
  BY <1>2 DEF IndexInv, Phases, Ready
<1> QED
  BY <1>3, <1>4, <1>5, IndicesKept DEF IndexInv, Reserved, Found

LEMMA InitialiseIndicesKeeps ==
    ASSUME IndexInv, InitialiseIndices
    PROVE  IndexInv'
<1> USE DEF InitialiseIndices, consumerVars
<1>1. rd_idx = 0 /\ wr_idx = 0 /\ consumer = "idle" /\ pending = {}
  BY DEF IndexInv, Phases, Sized, Ready, Found
<1>2. TypeOK'
  BY SizeAssumption, IndexModAssumption DEF IndexInv, TypeOK, Index
<1>3. Phases'
  BY DEF IndexInv, Phases
<1>4. Sized' /\ Found' /\ Reserved'
  BY <1>1, <1>3 DEF Sized, Found, Reserved, Ready, Phases
<1>5. Bounded'
  BY <1>1 DEF IndexInv, Bounded, UsedSize
<1> QED
  BY <1>2, <1>3, <1>4, <1>5 DEF IndexInv

LEMMA DropFrameKeeps ==
    ASSUME IndexInv, DropFrame
    PROVE  IndexInv'
<1> USE DEF DropFrame, ring, consumerVars
<1>1. TypeOK' /\ Phases'
  BY DEF IndexInv, TypeOK, Phases
<1>2. Ready' <=> Ready
  BY DEF Ready
<1> QED
  BY <1>1, <1>2, IndicesKept DEF IndexInv, Reserved, Found

LEMMA BeginPushKeeps ==
    ASSUME IndexInv, BeginPush
    PROVE  IndexInv'
<1> USE DEF BeginPush, ring, consumerVars
<1>1. Ready /\ Ready'
  BY DEF IndexInv, Phases, Ready
<1>2. UsedSize < Size
  <2>1. UsedSize \in Index
    BY Difference DEF IndexInv, TypeOK, UsedSize
  <2> QED BY <1>1, <2>1, SizeAssumption DEF IndexInv, Sized, IsFull, Index
<1>3. TypeOK' /\ Phases'
  BY DEF IndexInv, TypeOK, Phases, Store
<1> QED
  BY <1>1, <1>2, <1>3, IndicesKept DEF IndexInv, Found

\* When the last store becomes visible the push is over.
LEMMA CompleteKeeps ==
    ASSUME IndexInv, NEW store \in Store, MayBecomeVisible(store), Complete(store),
           storage_packet' # NoStorage
    PROVE  /\ Phases'
           /\ pending' \in SUBSET Store /\ packet' \in Frame \cup {None}
           /\ producer' \in {"idle", "write"}
           /\ pending' \subseteq pending
<1> USE DEF MayBecomeVisible, Complete
<1>1. pending' \in SUBSET Store /\ pending' \subseteq pending
  BY DEF IndexInv, TypeOK
<1>2. CASE pending' = {}
  BY <1>1, <1>2 DEF IndexInv, Phases, TypeOK
<1>3. CASE pending' # {}
  BY <1>1, <1>3 DEF IndexInv, Phases, TypeOK
<1> QED BY <1>2, <1>3

LEMMA WriteSlotKeeps ==
    ASSUME IndexInv, NEW field \in {"header", "points"}, WriteSlot(field)
    PROVE  IndexInv'
<1> USE DEF WriteSlot, consumerVars
<1>1. producer = "write" /\ storage_packet \in [Slot -> Packet] /\ packet \in Frame
  BY DEF IndexInv, TypeOK, Phases, MayBecomeVisible
<1>2. storage_packet' \in [Slot -> Packet]
  BY <1>1 DEF Packet
<1>3. storage_packet' # NoStorage
  BY <1>2, NoStorageAssumption DEF Slot, Packet
<1>4. field \in Store
  BY DEF Store
<1>5. /\ Phases' /\ pending' \in SUBSET Store /\ packet' \in Frame \cup {None}
      /\ producer' \in {"idle", "write"} /\ pending' \subseteq pending
  BY <1>3, <1>4, CompleteKeeps
<1>6. TypeOK'
  BY <1>2, <1>5 DEF IndexInv, TypeOK
<1>7. Ready /\ Ready'
  BY <1>1, <1>3, <1>5 DEF IndexInv, Phases, Ready
<1> QED
  BY <1>5, <1>6, <1>7, IndicesKept DEF IndexInv, Reserved, Found

LEMMA AdvanceWriteKeeps ==
    ASSUME IndexInv, AdvanceWrite
    PROVE  IndexInv'
<1> USE DEF AdvanceWrite, consumerVars
<1>1. "wr_idx" \in Store /\ "wr_idx" \in pending /\ producer = "write"
  BY DEF Store, MayBecomeVisible
<1>2. storage_packet # NoStorage /\ storage_packet' = storage_packet
  BY <1>1 DEF IndexInv, Phases
<1>3. /\ Phases' /\ pending' \in SUBSET Store /\ packet' \in Frame \cup {None}
      /\ producer' \in {"idle", "write"} /\ pending' \subseteq pending
  BY <1>1, <1>2, CompleteKeeps
<1>4. wr_idx \in Index /\ rd_idx \in Index /\ wr_idx' \in Index
  BY SuccessorValue DEF IndexInv, TypeOK
<1>5. TypeOK'
  BY <1>3, <1>4 DEF IndexInv, TypeOK
<1>6. Ready /\ Ready'
  BY <1>1, <1>2, <1>3 DEF Ready
<1>7. UsedSize < Size /\ UsedSize' = UsedSize + 1
  BY <1>1, <1>4, UsedAfterAdvance DEF IndexInv, Reserved, UsedSize
<1>8. UsedSize \in Nat
  BY <1>4, DistanceRange, IndexModAssumption DEF UsedSize
<1>9. Bounded'
  BY <1>7, <1>8, SizeAssumption DEF Bounded
<1>10. rd_idx' # wr_idx'
  <2>1. Distance(wr_idx', rd_idx') = UsedSize'
    BY DEF UsedSize
  <2> QED BY <2>1, <1>4, <1>7, <1>8, DistanceRange
<1>11. Sized' /\ Found' /\ Reserved'
  BY <1>6, <1>10 DEF IndexInv, Sized, Found, Reserved, Complete
<1> QED
  BY <1>3, <1>5, <1>9, <1>11 DEF IndexInv

LEMMA PollerKeeps ==
    ASSUME IndexInv, PollQueue \/ RecheckEmpty \/ ReadHeader \/ ReadPoints
    PROVE  IndexInv'
<1> USE DEF PollQueue, RecheckEmpty, ReadHeader, ReadPoints, ring, producerVars, IsEmpty
<1>1. /\ storage_packet' = storage_packet /\ producer' = producer
      /\ packet' = packet /\ pending' = pending
      /\ rd_idx' = rd_idx /\ wr_idx' = wr_idx /\ mask' = mask
      /\ taken' = taken /\ lost' = lost
  OBVIOUS
<1>2. consumer' \in {"idle", "prepop", "header", "points", "update"}
  OBVIOUS
<1>3. pkg' \in [header : Frame \cup {None, Garbage}, points : Frame \cup {None, Garbage}]
  <2>1. CASE PollQueue \/ RecheckEmpty
    BY <2>1 DEF IndexInv, TypeOK
  <2>2. CASE ReadHeader \/ ReadPoints
    <3>1. Ready
      BY <2>2 DEF IndexInv, Found, Sized
    <3>2. storage_packet \in [Slot -> Packet] /\ mask + 1 = Size
      BY <3>1, SizeAssumption DEF IndexInv, TypeOK, Sized, Ready
    <3>3. SlotOf(rd_idx) \in Slot
      BY <3>2, SizeAssumption DEF IndexInv, TypeOK, Index, SlotOf, Slot
    <3>4. storage_packet[SlotOf(rd_idx)] \in Packet
      BY <3>2, <3>3
    <3> QED BY <2>2, <3>4 DEF IndexInv, TypeOK, Packet
  <2> QED BY <2>1, <2>2
<1>4. TypeOK'
  BY <1>1, <1>2, <1>3 DEF IndexInv, TypeOK
<1>5. Phases' /\ (Ready' <=> Ready)
  BY <1>1 DEF IndexInv, Phases, Ready
<1>6. consumer' # "idle" => rd_idx # wr_idx
  BY DEF IndexInv, Found
<1> QED
  BY <1>1, <1>4, <1>5, <1>6, IndicesKept DEF IndexInv, Reserved

LEMMA QueuePopUpdateKeeps ==
    ASSUME IndexInv, QueuePopUpdate
    PROVE  IndexInv'
<1> USE DEF QueuePopUpdate, producerVars
<1>1. wr_idx \in Index /\ rd_idx \in Index /\ rd_idx' \in Index
  BY SuccessorValue DEF IndexInv, TypeOK
<1>2. TypeOK' /\ Phases'
  BY <1>1 DEF IndexInv, TypeOK, Phases
<1>3. rd_idx # wr_idx /\ Ready /\ Ready'
  BY DEF IndexInv, Found, Sized, Ready
<1>4. UsedSize' = UsedSize - 1
  BY <1>1, <1>3, UsedAfterAdvance DEF UsedSize
<1>5. UsedSize \in Nat
  BY <1>1, DistanceRange, IndexModAssumption DEF UsedSize
<1>6. Bounded' /\ Reserved'
  BY <1>4, <1>5, SizeAssumption DEF IndexInv, Bounded, Reserved
<1>7. Sized' /\ Found'
  BY <1>3 DEF IndexInv, Sized, Found
<1> QED
  BY <1>2, <1>6, <1>7 DEF IndexInv

LEMMA NextKeepsIndices == IndexInv /\ [Next]_vars => IndexInv'
<1> SUFFICES ASSUME IndexInv, [Next]_vars PROVE IndexInv'
  OBVIOUS
<1>1. ASSUME NEW f \in Frame, PushLidarData(f) PROVE IndexInv'
  BY <1>1, PushLidarDataKeeps
<1>2. CASE AllocateStorage
  BY <1>2, AllocateStorageKeeps
<1>3. CASE InitialiseIndices
  BY <1>3, InitialiseIndicesKeeps
<1>4. CASE DropFrame
  BY <1>4, DropFrameKeeps
<1>5. CASE BeginPush
  BY <1>5, BeginPushKeeps
<1>6. ASSUME NEW field \in {"header", "points"}, WriteSlot(field) PROVE IndexInv'
  BY <1>6, WriteSlotKeeps
<1>7. CASE AdvanceWrite
  BY <1>7, AdvanceWriteKeeps
<1>8. CASE PollQueue \/ RecheckEmpty \/ ReadHeader \/ ReadPoints
  BY <1>8, PollerKeeps
<1>9. CASE QueuePopUpdate
  BY <1>9, QueuePopUpdateKeeps
<1>10. CASE UNCHANGED vars
  BY <1>10 DEF vars, ring, producerVars, consumerVars, IndexInv, TypeOK, Phases, Sized,
               Ready, Bounded, Reserved, Found, UsedSize
<1> QED
  BY <1>1, <1>2, <1>3, <1>4, <1>5, <1>6, <1>7, <1>8, <1>9, <1>10
     DEF Next, ProducerNext, ConsumerNext

LEMMA IndexInvariance == Spec => []IndexInv
<1>1. Init => IndexInv
  BY InitialIndices
<1>2. IndexInv /\ [Next]_vars => IndexInv'
  BY NextKeepsIndices
<1> QED
  BY <1>1, <1>2, PTL DEF Spec

\* The variables keep their types, whatever the size and the index width.
THEOREM TypeCorrect == Spec => []TypeOK
<1>1. IndexInv => TypeOK
  BY DEF IndexInv
<1> QED
  BY <1>1, IndexInvariance, PTL

\* PushLidarData never overruns the ring (lds.cpp:200), whatever the size, the
\* width of the wrapping indices and the order in which stores become visible.
THEOREM NeverOverrun == Spec => []NoOverrun
<1>1. IndexInv => NoOverrun
  BY DEF IndexInv, Bounded, NoOverrun
<1> QED
  BY <1>1, IndexInvariance, PTL

\* QueuePop never fails in PublishPointcloud2 (lddc.cpp:158), so the ignored
\* result of the call does no harm.
THEOREM PopSucceeds == Spec => []PopNeverFails
<1>1. IndexInv => PopNeverFails
  BY DEF IndexInv, Found, PopNeverFails, IsEmpty
<1> QED
  BY <1>1, IndexInvariance, PTL
-----------------------------------------------------------------------------
\* Distances from a common start: the order of two indices in the ring.
LEMMA DistanceBetween ==
    ASSUME NEW a \in Index, NEW b \in Index, NEW c \in Index
    PROVE  /\ Distance(b, c) <= Distance(a, c) =>
                 Distance(a, b) = Distance(a, c) - Distance(b, c)
           /\ Distance(b, c) = Distance(a, c) => a = b
<1>1. /\ Distance(a, b) = IF a >= b THEN a - b ELSE a - b + IndexMod
      /\ Distance(a, c) = IF a >= c THEN a - c ELSE a - c + IndexMod
      /\ Distance(b, c) = IF b >= c THEN b - c ELSE b - c + IndexMod
  BY Difference
<1>2. /\ a \in Int /\ b \in Int /\ c \in Int /\ IndexMod \in Int
      /\ 0 <= a /\ 0 <= b /\ 0 <= c /\ a < IndexMod /\ b < IndexMod /\ c < IndexMod
  BY IndexModAssumption DEF Index
<1> QED BY <1>1, <1>2

\* The facts about the content of the ring that hold when stores are visible
\* in order: how far a push is (Stages), what it has written (Written), that
\* every frame between the indices is whole (Filled), and that the poller's
\* copy is the frame it stands on (Copied).
Whole(slot) == slot.header = slot.points /\ slot.header \in Frame
Stages == pending \in {{}, Store, {"points", "wr_idx"}, {"wr_idx"}}
Written == producer = "write" =>
               /\ "header" \notin pending => storage_packet[Target].header = packet
               /\ "points" \notin pending => storage_packet[Target].points = packet
Filled == \A j \in Index : Distance(j, rd_idx) < UsedSize =>
                               Whole(storage_packet[SlotOf(j)])
Copied == /\ consumer \in {"points", "update"} =>
                 pkg.header = storage_packet[SlotOf(rd_idx)].header
          /\ consumer = "update" => pkg.points = storage_packet[SlotOf(rd_idx)].points

ContentInv == Stages /\ Written /\ Filled /\ Copied

\* Which slots the two threads address.
LEMMA Addresses ==
    ASSUME IndexInv, Ready
    PROVE  /\ mask + 1 = Size /\ storage_packet \in [Slot -> Packet]
           /\ \A j \in Index : SlotOf(j) = j % Size /\ SlotOf(j) \in Slot
           /\ "wr_idx" \in pending => Target = SlotOf(wr_idx)
<1>1. mask + 1 = Size
  BY SizeAssumption DEF IndexInv, Sized
<1>2. ASSUME NEW j \in Index PROVE SlotOf(j) = j % Size /\ SlotOf(j) \in Slot
  BY <1>1, SizeAssumption DEF SlotOf, Index, Slot
<1> QED
  BY <1>1, <1>2 DEF IndexInv, TypeOK, Ready, Target

\* While a push may still write, its slot is none of those between the indices.
LEMMA TargetIsFree ==
    ASSUME IndexInv, Ready, "wr_idx" \in pending
    PROVE  \A j \in Index : Distance(j, rd_idx) < UsedSize => SlotOf(j) # Target
<1> SUFFICES ASSUME NEW j \in Index, Distance(j, rd_idx) < UsedSize
             PROVE  SlotOf(j) # Target
  OBVIOUS
<1>1. wr_idx \in Index /\ rd_idx \in Index
  BY DEF IndexInv, TypeOK
<1>2. UsedSize \in Nat /\ UsedSize < Size
  BY <1>1, DistanceRange, IndexModAssumption DEF UsedSize, IndexInv, Reserved
<1>3. PICK d \in Nat : d = Distance(j, rd_idx) /\ d < UsedSize
  BY <1>1, DistanceRange
<1>4. wr_idx % Size # j % Size
  <2>1. Distance(wr_idx, j) = UsedSize - d
    <3>1. Distance(wr_idx, rd_idx) = UsedSize
      BY DEF UsedSize
    <3>2. Distance(j, rd_idx) <= Distance(wr_idx, rd_idx)
      BY <1>2, <1>3, <3>1
    <3> QED BY <1>1, <1>3, <3>1, <3>2, DistanceBetween
  <2>2. 0 < UsedSize - d /\ UsedSize - d < Size
    BY <1>2, <1>3, SizeAssumption
  <2> QED BY <1>1, <2>1, <2>2, SlotsDiffer
<1>5. SlotOf(j) = j % Size /\ SlotOf(wr_idx) = wr_idx % Size
  BY <1>1, Addresses
<1>6. Target = SlotOf(wr_idx)
  BY Addresses
<1> QED
  BY <1>4, <1>5, <1>6

\* The poller's slot is one of those between the indices.
LEMMA ReaderInside ==
    ASSUME IndexInv, consumer # "idle"
    PROVE  Ready /\ rd_idx \in Index /\ Distance(rd_idx, rd_idx) < UsedSize
<1>1. Ready /\ rd_idx # wr_idx /\ rd_idx \in Index /\ wr_idx \in Index
  BY DEF IndexInv, TypeOK, Found, Sized
<1>2. UsedSize # 0 /\ UsedSize \in Nat
  BY <1>1, DistanceRange, IndexModAssumption DEF UsedSize
<1>3. Distance(rd_idx, rd_idx) = 0
  BY <1>1, Difference DEF Index
<1> QED
  BY <1>1, <1>2, <1>3

LEMMA InitialContent == Init => ContentInv
  BY Difference, SizeAssumption, IndexModAssumption, InitialIndices
     DEF Init, ContentInv, Stages, Written, Filled, Copied, UsedSize, IndexInv, TypeOK, Index

\* A step that changes neither the ring nor the poller, and starts no push or
\* starts a whole one.
LEMMA RingKept ==
    ASSUME ContentInv, UNCHANGED <<ring, consumerVars>>,
           pending' \in {{}, Store},
           producer' = "write" => pending' = Store
    PROVE  ContentInv'
<1> USE DEF ring, consumerVars
<1>1. Stages'
  BY DEF Stages
<1>2. Written'
  BY DEF Written, Store
<1>3. Filled' /\ Copied'
  BY DEF ContentInv, Filled, Copied, UsedSize, SlotOf
<1> QED
  BY <1>1, <1>2, <1>3 DEF ContentInv

LEMMA WriteSlotContent ==
    ASSUME IndexInv, ContentInv, InOrder, NEW field \in {"header", "points"}, WriteSlot(field)
    PROVE  ContentInv'
<1> USE DEF WriteSlot, consumerVars
<1>1. /\ producer = "write" /\ packet \in Frame /\ Ready
      /\ field \in pending /\ pending \cap Before(field) = {}
      /\ pending' = pending \ {field}
  BY DEF IndexInv, Phases, MayBecomeVisible, Complete, Ready
<1>2. \/ field = "header" /\ pending = Store /\ pending' = {"points", "wr_idx"}
      \/ field = "points" /\ pending = {"points", "wr_idx"} /\ pending' = {"wr_idx"}
  BY <1>1 DEF ContentInv, Stages, Store, Before
<1>3. "wr_idx" \in pending /\ "wr_idx" \in pending' /\ producer' = "write" /\ packet' = packet
  BY <1>1, <1>2 DEF Complete, Store
<1>4. Target \in Slot /\ Target' = Target
  <2>1. wr_idx \in Index
    BY DEF IndexInv, TypeOK
  <2> QED BY <2>1, <1>1, <1>3, Addresses DEF Target, SlotOf
<1>5. /\ storage_packet \in [Slot -> Packet]
      /\ storage_packet' = [storage_packet EXCEPT ![Target][field] = packet]
  BY <1>1, Addresses
<1>6. Stages'
  BY <1>2 DEF Stages
<1>7. Written'
  <2>1. /\ storage_packet'[Target][field] = packet
        /\ field = "points" => storage_packet'[Target].header = storage_packet[Target].header
    BY <1>2, <1>4, <1>5 DEF Packet
  <2>2. CASE field = "header"
    BY <2>1, <2>2, <1>2, <1>3, <1>4 DEF Written
  <2>3. CASE field = "points"
    <3>1. storage_packet[Target].header = packet
      BY <2>3, <1>1, <1>2 DEF ContentInv, Written
    <3> QED BY <2>1, <2>3, <3>1, <1>2, <1>3, <1>4 DEF Written
  <2> QED BY <2>2, <2>3
<1>8. ASSUME NEW j \in Index, Distance(j, rd_idx) < UsedSize
      PROVE  storage_packet'[SlotOf(j)] = storage_packet[SlotOf(j)] /\ SlotOf(j)' = SlotOf(j)
  <2>1. SlotOf(j) # Target /\ SlotOf(j) \in Slot
    BY <1>1, <1>3, <1>8, TargetIsFree, Addresses
  <2> QED BY <2>1, <1>4, <1>5 DEF SlotOf
<1>9. Filled'
  BY <1>8 DEF ContentInv, Filled, UsedSize
<1>10. consumer # "idle" =>
         /\ storage_packet'[SlotOf(rd_idx)] = storage_packet[SlotOf(rd_idx)]
         /\ SlotOf(rd_idx)' = SlotOf(rd_idx)
  BY <1>8, ReaderInside
<1>11. Copied'
  BY <1>10 DEF ContentInv, Copied
<1> QED
  BY <1>6, <1>7, <1>9, <1>11 DEF ContentInv

LEMMA AdvanceWriteContent ==
    ASSUME IndexInv, ContentInv, InOrder, AdvanceWrite
    PROVE  ContentInv'
<1> USE DEF AdvanceWrite, consumerVars
<1>1. /\ producer = "write" /\ packet \in Frame /\ Ready
      /\ pending = {"wr_idx"} /\ pending' = {} /\ producer' = "idle"
  BY DEF IndexInv, Phases, MayBecomeVisible, Complete, Ready, ContentInv, Stages, Store, Before
<1>2. wr_idx \in Index /\ rd_idx \in Index
  BY DEF IndexInv, TypeOK
<1>3. Whole(storage_packet[SlotOf(wr_idx)])
  <2>1. Target = SlotOf(wr_idx)
    BY <1>1, Addresses
  <2> QED BY <2>1, <1>1 DEF ContentInv, Written, Whole
<1>4. UsedSize' = UsedSize + 1
  BY <1>1, <1>2, UsedAfterAdvance DEF IndexInv, Reserved, UsedSize
<1>5. ASSUME NEW j \in Index, Distance(j, rd_idx) < UsedSize + 1
      PROVE  Whole(storage_packet[SlotOf(j)])
  <2>1. Distance(j, rd_idx) \in Nat /\ UsedSize \in Nat
    BY <1>2, DistanceRange, IndexModAssumption DEF UsedSize
  <2>2. CASE Distance(j, rd_idx) < UsedSize
    BY <2>2 DEF ContentInv, Filled
  <2>3. CASE Distance(j, rd_idx) = UsedSize
    <3>1. j = wr_idx
      BY <2>3, <1>2, DistanceBetween DEF UsedSize
    <3> QED BY <3>1, <1>3
  <2> QED BY <2>1, <2>2, <2>3, <1>5
<1>6. Filled'
  BY <1>4, <1>5 DEF Filled, SlotOf
<1> QED
  BY <1>1, <1>6 DEF ContentInv, Stages, Written, Copied, SlotOf

LEMMA PollerContent ==
    ASSUME IndexInv, ContentInv, PollQueue \/ RecheckEmpty \/ ReadHeader \/ ReadPoints
    PROVE  ContentInv'
<1> USE DEF PollQueue, RecheckEmpty, ReadHeader, ReadPoints, ring, producerVars
<1>1. Stages' /\ Written' /\ Filled'
  BY DEF ContentInv, Stages, Written, Filled, Target, SlotOf, UsedSize
<1>2. Copied'
  BY DEF IndexInv, TypeOK, ContentInv, Copied, SlotOf
<1> QED
  BY <1>1, <1>2 DEF ContentInv

LEMMA QueuePopUpdateContent ==
    ASSUME IndexInv, ContentInv, QueuePopUpdate
    PROVE  ContentInv'
<1> USE DEF QueuePopUpdate, producerVars
<1>1. wr_idx \in Index /\ rd_idx \in Index /\ rd_idx # wr_idx
  BY DEF IndexInv, TypeOK, Found
<1>2. UsedSize' = UsedSize - 1
  BY <1>1, UsedAfterAdvance DEF UsedSize
<1>3. UsedSize \in Nat /\ UsedSize < IndexMod /\ IndexMod \in Nat
  BY <1>1, DistanceRange, IndexModAssumption DEF UsedSize
<1>4. ASSUME NEW j \in Index, Distance(j, rd_idx') < UsedSize - 1
      PROVE  Distance(j, rd_idx) < UsedSize
  <2>1. /\ rd_idx' = IF rd_idx = IndexMod - 1 THEN 0 ELSE rd_idx + 1
        /\ rd_idx' \in Index
    BY <1>1, SuccessorValue
  <2>2. /\ Distance(j, rd_idx') = IF j >= rd_idx' THEN j - rd_idx' ELSE j - rd_idx' + IndexMod
        /\ Distance(j, rd_idx) = IF j >= rd_idx THEN j - rd_idx ELSE j - rd_idx + IndexMod
    BY <1>1, <2>1, Difference
  <2> QED BY <2>1, <2>2, <1>1, <1>3, <1>4 DEF Index
<1>5. Filled'
  BY <1>2, <1>4 DEF ContentInv, Filled, SlotOf
<1> QED
  BY <1>5 DEF ContentInv, Stages, Written, Copied, Target, SlotOf

\* Before InitQueue has ended the ring is empty and nobody is in a slot.
LEMMA InitQueueContent ==
    ASSUME IndexInv, ContentInv, AllocateStorage \/ InitialiseIndices
    PROVE  ContentInv'
<1> USE DEF AllocateStorage, InitialiseIndices, consumerVars
<1>1. rd_idx = 0 /\ wr_idx = 0 /\ consumer = "idle" /\ pending = {} /\ 0 \in Index
  BY SizeAssumption, IndexModAssumption
     DEF IndexInv, Phases, Sized, Ready, Found, Index
<1>2. rd_idx' = 0 /\ wr_idx' = 0 /\ consumer' = "idle" /\ pending' = {} /\ producer' # "write"
  BY <1>1
<1>3. UsedSize' = 0
  BY <1>1, <1>2, DistanceRange DEF UsedSize
<1>4. Filled'
  BY <1>1, <1>2, <1>3, DistanceRange DEF Filled
<1> QED
  BY <1>2, <1>4 DEF ContentInv, Stages, Written, Copied

LEMMA NextKeepsContent ==
    ASSUME InOrder
    PROVE  IndexInv /\ ContentInv /\ [Next]_vars => ContentInv'
<1> SUFFICES ASSUME IndexInv, ContentInv, [Next]_vars PROVE ContentInv'
  OBVIOUS
<1>1. ASSUME NEW f \in Frame, PushLidarData(f) PROVE ContentInv'
  BY <1>1, RingKept DEF PushLidarData, ring, consumerVars, IndexInv, Phases
<1>2. CASE AllocateStorage \/ InitialiseIndices
  BY <1>2, InitQueueContent
<1>3. CASE DropFrame
  BY <1>3, RingKept DEF DropFrame, ring, consumerVars, IndexInv, Phases
<1>4. CASE BeginPush
  BY <1>4, RingKept DEF BeginPush, ring, consumerVars
<1>5. ASSUME NEW field \in {"header", "points"}, WriteSlot(field) PROVE ContentInv'
  BY <1>5, WriteSlotContent
<1>6. CASE AdvanceWrite
  BY <1>6, AdvanceWriteContent
<1>7. CASE PollQueue \/ RecheckEmpty \/ ReadHeader \/ ReadPoints
  BY <1>7, PollerContent
<1>8. CASE QueuePopUpdate
  BY <1>8, QueuePopUpdateContent
<1>9. CASE UNCHANGED vars
  BY <1>9 DEF vars, ring, producerVars, consumerVars, ContentInv, Stages, Written, Filled,
              Copied, Target, SlotOf, UsedSize
<1> QED
  BY <1>1, <1>2, <1>3, <1>4, <1>5, <1>6, <1>7, <1>8, <1>9
     DEF Next, ProducerNext, ConsumerNext

LEMMA ContentInvariance ==
    ASSUME InOrder
    PROVE  Spec => []ContentInv
<1>1. Init => ContentInv
  BY InitialContent
<1>2. IndexInv /\ ContentInv /\ [Next]_vars => ContentInv'
  BY NextKeepsContent
<1> QED
  BY <1>1, <1>2, IndexInvariance, PTL DEF Spec

\* With the stores of a push visible in order, the two threads that share the
\* ring without a lock are never inside the same slot (ldq.cpp:104, 138).
THEOREM RaceFree ==
    ASSUME InOrder
    PROVE  Spec => []NoSlotRace
<1>1. IndexInv /\ ContentInv => NoSlotRace
  <2> SUFFICES ASSUME IndexInv, ContentInv, pending \cap {"header", "points"} # {},
                      consumer # "idle", Target = SlotOf(rd_idx)
               PROVE  FALSE
    BY DEF NoSlotRace
  <2>1. "wr_idx" \in pending
    BY DEF ContentInv, Stages, Store
  <2> QED BY <2>1, ReaderInside, TargetIsFree
<1> QED
  BY <1>1, IndexInvariance, ContentInvariance, PTL

\* With the stores of a push visible in order, every frame handed to the
\* publisher is one whole frame somebody pushed (lddc.cpp:158).
THEOREM PacketsWhole ==
    ASSUME InOrder
    PROVE  Spec => []NoTornPacket
<1>1. IndexInv /\ ContentInv => NoTornPacket
  <2> SUFFICES ASSUME IndexInv, ContentInv, consumer = "update"
               PROVE  pkg.header = pkg.points /\ pkg.header \in Frame
    BY DEF NoTornPacket
  <2>1. Whole(storage_packet[SlotOf(rd_idx)])
    BY ReaderInside DEF ContentInv, Filled
  <2> QED BY <2>1 DEF ContentInv, Copied, Whole
<1> QED
  BY <1>1, IndexInvariance, ContentInvariance, PTL
-----------------------------------------------------------------------------
\* Positions in the ring.
LEMMA NthValue ==
    ASSUME NEW r \in Index, NEW i \in 1..Size
    PROVE  /\ Nth(r, i) \in Index
           /\ Nth(r, i) = IF r + i - 1 < IndexMod THEN r + i - 1 ELSE r + i - 1 - IndexMod
  BY SizeAssumption, IndexModAssumption DEF Nth, Index

LEMMA NthDistance ==
    ASSUME NEW r \in Index, NEW i \in 1..Size
    PROVE  /\ Distance(Nth(r, i), r) = i - 1
           /\ \A w \in Index : Distance(w, r) = i - 1 => Nth(r, i) = w
<1>1. Nth(r, i) \in Index
  BY NthValue
<1>2. Distance(Nth(r, i), r) = i - 1
  <2>1. r \in Int /\ 0 <= r /\ r < IndexMod /\ i \in Int /\ 1 <= i /\ i <= Size
        /\ IndexMod \in Int /\ Size \in Int /\ Size < IndexMod
    BY SizeAssumption, IndexModAssumption DEF Index
  <2>2. Distance(Nth(r, i), r) =
          IF Nth(r, i) >= r THEN Nth(r, i) - r ELSE Nth(r, i) - r + IndexMod
    BY <1>1, Difference
  <2> QED BY <2>1, <2>2, NthValue
<1>3. ASSUME NEW w \in Index, Distance(w, r) = i - 1 PROVE Nth(r, i) = w
  BY <1>1, <1>2, <1>3, DistanceBetween, DistanceRange
<1> QED
  BY <1>2, <1>3

LEMMA NthOfSuccessor ==
    ASSUME NEW r \in Index, NEW i \in 1..(Size - 1)
    PROVE  Nth(Successor(r), i) = Nth(r, i + 1)
<1>1. Successor(r) \in Index /\ i \in 1..Size /\ i + 1 \in 1..Size
  BY SuccessorValue, SizeAssumption
<1>2. r \in Int /\ 0 <= r /\ r < IndexMod /\ i \in Int /\ 1 <= i /\ i <= Size - 1
      /\ IndexMod \in Int /\ Size \in Int /\ Size < IndexMod
  BY SizeAssumption, IndexModAssumption DEF Index
<1>3. Nth(r, i + 1) = IF r + i < IndexMod THEN r + i ELSE r + i - IndexMod
  BY <1>1, <1>2, NthValue
<1>4. Nth(Successor(r), i) = IF Successor(r) + i - 1 < IndexMod THEN Successor(r) + i - 1
                             ELSE Successor(r) + i - 1 - IndexMod
  BY <1>1, NthValue
<1>5. Successor(r) = IF r = IndexMod - 1 THEN 0 ELSE r + 1
  BY SuccessorValue
<1> QED
  BY <1>2, <1>3, <1>4, <1>5

\* The frames between the indices form a sequence no longer than the ring.
LEMMA ContentIsSequence ==
    ASSUME IndexInv, ContentInv
    PROVE  /\ UsedSize \in 0..Size
           /\ Content \in Seq(Frame) /\ Len(Content) = UsedSize
<1>1. wr_idx \in Index /\ rd_idx \in Index
  BY DEF IndexInv, TypeOK
<1>2. UsedSize \in 0..Size
  BY <1>1, DistanceRange, SizeAssumption DEF IndexInv, Bounded, UsedSize
<1>3. ASSUME NEW i \in 1..UsedSize
      PROVE  storage_packet[SlotOf(Nth(rd_idx, i))].header \in Frame
  <2>1. i \in 1..Size /\ i - 1 < UsedSize
    BY <1>2, SizeAssumption
  <2>2. Nth(rd_idx, i) \in Index /\ Distance(Nth(rd_idx, i), rd_idx) = i - 1
    BY <1>1, <2>1, NthValue, NthDistance
  <2> QED BY <2>1, <2>2 DEF ContentInv, Filled, Whole
<1>4. Content \in [1..UsedSize -> Frame]
  BY <1>3 DEF Content
<1> QED
  BY <1>2, <1>4

LEMMA InitialFifo == Init => Fifo!Init
<1> SUFFICES ASSUME Init PROVE Fifo!Init
  OBVIOUS
<1>1. IndexInv /\ ContentInv
  BY InitialIndices, InitialContent
<1>2. UsedSize = 0
  BY <1>1, DistanceRange DEF Init, UsedSize, IndexInv, TypeOK
<1>3. Content = <<>>
  BY <1>1, <1>2, ContentIsSequence
<1> QED
  BY <1>3 DEF Init, Fifo!Init

\* Steps that do not touch what lies between the indices.
LEMMA ContentKept ==
    ASSUME UNCHANGED <<ring, taken, lost>>
    PROVE  UNCHANGED <<Content, taken, lost>>
  BY DEF ring, Content, UsedSize, SlotOf

LEMMA InitQueueFifo ==
    ASSUME IndexInv, ContentInv, IndexInv', ContentInv', AllocateStorage \/ InitialiseIndices
    PROVE  UNCHANGED <<Content, taken, lost>>
<1> USE DEF AllocateStorage, InitialiseIndices
<1>1. /\ rd_idx = 0 /\ wr_idx = 0 /\ rd_idx' = 0 /\ wr_idx' = 0 /\ 0 \in Index
      /\ taken' = taken /\ lost' = lost
  BY SizeAssumption, IndexModAssumption DEF IndexInv, Phases, Sized, Ready, Index
<1>2. UsedSize = 0 /\ UsedSize' = 0
  BY <1>1, DistanceRange DEF UsedSize
<1>3. Content = <<>> /\ Content' = <<>>
  BY <1>2 DEF Content
<1> QED
  BY <1>1, <1>3

LEMMA DropFrameFifo ==
    ASSUME IndexInv, ContentInv, DropFrame
    PROVE  packet \in Frame /\ Fifo!Refuse(packet)
<1> USE DEF DropFrame
<1>1. Ready /\ packet \in Frame
  BY DEF IndexInv, Phases, Ready
<1>2. Len(Content) = Size
  BY <1>1, ContentIsSequence, SizeAssumption DEF IndexInv, Sized, IsFull
<1>3. Content' = Content
  BY DEF ring, Content, UsedSize, SlotOf
<1> QED
  BY <1>1, <1>2, <1>3 DEF Fifo!Refuse, consumerVars

LEMMA WriteSlotFifo ==
    ASSUME IndexInv, ContentInv, InOrder, NEW field \in {"header", "points"}, WriteSlot(field)
    PROVE  UNCHANGED <<Content, taken, lost>>
<1> USE DEF WriteSlot
<1>1. Ready /\ "wr_idx" \in pending
  BY DEF IndexInv, Phases, Ready, MayBecomeVisible, ContentInv, Stages, Store, Before
<1>2. wr_idx \in Index /\ rd_idx \in Index /\ UsedSize \in 0..Size
  BY ContentIsSequence DEF IndexInv, TypeOK
<1>3. ASSUME NEW i \in 1..UsedSize
      PROVE  storage_packet'[SlotOf(Nth(rd_idx, i))] = storage_packet[SlotOf(Nth(rd_idx, i))]
  <2>1. i \in 1..Size /\ i - 1 < UsedSize
    BY <1>2, SizeAssumption
  <2>2. Nth(rd_idx, i) \in Index /\ Distance(Nth(rd_idx, i), rd_idx) < UsedSize
    BY <1>2, <2>1, NthValue, NthDistance
  <2>3. SlotOf(Nth(rd_idx, i)) # Target /\ SlotOf(Nth(rd_idx, i)) \in Slot
    BY <1>1, <2>2, TargetIsFree, Addresses
  <2> QED BY <1>1, <2>3, Addresses
<1>4. UsedSize' = UsedSize
  BY DEF UsedSize
<1>5. Content' = [i \in 1..UsedSize |-> storage_packet'[SlotOf(Nth(rd_idx, i))].header]
  BY <1>4 DEF Content, SlotOf
<1>6. Content' = Content
  <2>1. \A i \in 1..UsedSize : storage_packet'[SlotOf(Nth(rd_idx, i))].header
                                 = storage_packet[SlotOf(Nth(rd_idx, i))].header
    BY <1>3
  <2>2. [i \in 1..UsedSize |-> storage_packet'[SlotOf(Nth(rd_idx, i))].header]
          = [i \in 1..UsedSize |-> storage_packet[SlotOf(Nth(rd_idx, i))].header]
    BY <2>1
  <2> QED BY <2>2, <1>5 DEF Content
<1> QED
  BY <1>6

LEMMA AdvanceWriteFifo ==
    ASSUME IndexInv, ContentInv, InOrder, AdvanceWrite
    PROVE  packet \in Frame /\ Fifo!Accept(packet)
<1> USE DEF AdvanceWrite
<1>1. /\ producer = "write" /\ packet \in Frame /\ Ready /\ pending = {"wr_idx"}
  BY DEF IndexInv, Phases, MayBecomeVisible, Ready, ContentInv, Stages, Store, Before
<1>2. /\ wr_idx \in Index /\ rd_idx \in Index /\ UsedSize \in Nat
      /\ UsedSize < Size /\ UsedSize' = UsedSize + 1
  BY <1>1, UsedAfterAdvance, ContentIsSequence DEF IndexInv, TypeOK, Reserved, UsedSize
<1>3. storage_packet[SlotOf(wr_idx)].header = packet
  <2>1. Target = SlotOf(wr_idx)
    BY <1>1, Addresses
  <2> QED BY <2>1, <1>1 DEF ContentInv, Written
<1>4. Nth(rd_idx, UsedSize + 1) = wr_idx
  BY <1>2, NthDistance, SizeAssumption DEF UsedSize
<1>5. Content' = [i \in 1..(UsedSize + 1) |-> storage_packet[SlotOf(Nth(rd_idx, i))].header]
  BY <1>2 DEF Content, SlotOf
<1>6. Content' = Append(Content, packet)
  <2>1. Content \in Seq(Frame) /\ Len(Content) = UsedSize
    BY ContentIsSequence
  <2> DEFINE new == Append(Content, packet)
  <2>2. new \in Seq(Frame) /\ Len(new) = UsedSize + 1
    BY <2>1, <1>1, AppendProperties
  <2>3. \A i \in 1..UsedSize : new[i] = Content[i]
    BY <2>1, <1>1, AppendProperties
  <2>4. new[UsedSize + 1] = packet
    BY <2>1, <1>1, AppendProperties
  <2>5. ASSUME NEW i \in 1..(UsedSize + 1)
        PROVE  Content'[i] = new[i] /\ new[i] \in Frame
    <3> HIDE DEF new
    <3>1. Content'[i] = storage_packet[SlotOf(Nth(rd_idx, i))].header
      BY <1>5
    <3>2. CASE i \in 1..UsedSize
      <4>1. Content[i] = storage_packet[SlotOf(Nth(rd_idx, i))].header
        BY <3>2 DEF Content
      <4>2. Content[i] \in Frame
        BY <3>2, <2>1, ElementOfSeq
      <4> QED BY <3>1, <3>2, <4>1, <4>2, <2>3
    <3>3. CASE i = UsedSize + 1
      BY <3>1, <3>3, <2>4, <1>1, <1>3, <1>4
    <3> QED BY <3>2, <3>3, <1>2
  <2> HIDE DEF new
  <2>6. Content' \in [1..(UsedSize + 1) -> Frame]
    BY <2>5, <1>5
  <2>7. Content' \in Seq(Frame) /\ Len(Content') = UsedSize + 1
    BY <2>6, <1>2
  <2>8. Content' = new
    BY <2>2, <2>5, <2>7, SeqEqual
  <2> QED BY <2>8 DEF new
<1> QED
  BY <1>1, <1>2, <1>6, ContentIsSequence DEF Fifo!Accept, consumerVars

LEMMA QueuePopUpdateFifo ==
    ASSUME IndexInv, ContentInv, QueuePopUpdate
    PROVE  Fifo!Take
<1> USE DEF QueuePopUpdate
<1>1. /\ wr_idx \in Index /\ rd_idx \in Index /\ rd_idx # wr_idx
      /\ UsedSize \in 1..Size /\ UsedSize' = UsedSize - 1
  <2>1. wr_idx \in Index /\ rd_idx \in Index /\ rd_idx # wr_idx
    BY DEF IndexInv, TypeOK, Found
  <2>2. UsedSize # 0 /\ UsedSize' = UsedSize - 1
    BY <2>1, DistanceRange, UsedAfterAdvance DEF UsedSize
  <2> QED BY <2>1, <2>2, ContentIsSequence
<1>2. Content \in Seq(Frame) /\ Len(Content) = UsedSize /\ Content # <<>>
  BY <1>1, ContentIsSequence
<1>3. Nth(rd_idx, 1) = rd_idx
  <2>1. 1 \in 1..Size /\ Distance(rd_idx, rd_idx) = 1 - 1
    BY <1>1, DistanceRange, SizeAssumption
  <2> QED BY <1>1, <2>1, NthDistance
<1>4. taken' = Head(Content)
  BY <1>1, <1>2, <1>3 DEF Content, ContentInv, Copied
<1>5. ASSUME NEW i \in 1..(UsedSize - 1) PROVE Nth(rd_idx', i) = Nth(rd_idx, i + 1)
  BY <1>1, NthOfSuccessor, SizeAssumption
<1>6. Content' = [i \in 1..(UsedSize - 1) |-> storage_packet[SlotOf(Nth(rd_idx', i))].header]
  BY <1>1 DEF Content, SlotOf
<1>7. Content' = [i \in 1..(UsedSize - 1) |-> Content[i + 1]]
  BY <1>1, <1>5, <1>6 DEF Content
<1>8. Content' = Tail(Content)
  <2>1. /\ Tail(Content) \in Seq(Frame) /\ Len(Tail(Content)) = UsedSize - 1
        /\ \A i \in 1..(UsedSize - 1) : Tail(Content)[i] = Content[i + 1]
    BY <1>1, <1>2, HeadTailProperties
  <2>2. \A i \in 1..(UsedSize - 1) : Content[i + 1] \in Frame
    BY <1>1, <1>2, ElementOfSeq
  <2>3. Content' \in [1..(UsedSize - 1) -> Frame]
    BY <1>7, <2>2
  <2>4. Content' \in Seq(Frame) /\ Len(Content') = UsedSize - 1
    BY <1>1, <2>3
  <2>5. \A i \in 1..(UsedSize - 1) : Content'[i] = Tail(Content)[i]
    BY <1>7, <2>1
  <2> QED BY <2>1, <2>4, <2>5, SeqEqual
<1> QED
  BY <1>2, <1>4, <1>8 DEF Fifo!Take, producerVars

\* With the stores of a push visible in order, the shared ring is a bounded
\* first-in first-out queue: what PushLidarData stores is what the publisher
\* gets, and frames are dropped only from a full ring.
THEOREM ImplementsFifo ==
    ASSUME InOrder
    PROVE  Spec => FifoSpec
<1>1. Init => Fifo!Init
  BY InitialFifo
<1>2. ASSUME IndexInv, ContentInv, IndexInv', ContentInv', [Next]_vars
      PROVE  [Fifo!Next]_<<Content, taken, lost>>
  <2>1. ASSUME NEW f \in Frame, PushLidarData(f) PROVE UNCHANGED <<Content, taken, lost>>
    BY <2>1, ContentKept DEF PushLidarData
  <2>2. CASE AllocateStorage \/ InitialiseIndices
    BY <1>2, <2>2, InitQueueFifo
  <2>3. CASE DropFrame
    BY <1>2, <2>3, DropFrameFifo DEF Fifo!Next
  <2>4. CASE BeginPush
    BY <2>4, ContentKept DEF BeginPush
  <2>5. ASSUME NEW field \in {"header", "points"}, WriteSlot(field)
        PROVE  UNCHANGED <<Content, taken, lost>>
    BY <1>2, <2>5, WriteSlotFifo
  <2>6. CASE AdvanceWrite
    BY <1>2, <2>6, AdvanceWriteFifo DEF Fifo!Next
  <2>7. CASE PollQueue \/ RecheckEmpty \/ ReadHeader \/ ReadPoints
    BY <2>7, ContentKept DEF PollQueue, RecheckEmpty, ReadHeader, ReadPoints
  <2>8. CASE QueuePopUpdate
    BY <1>2, <2>8, QueuePopUpdateFifo DEF Fifo!Next
  <2>9. CASE UNCHANGED vars
    BY <2>9, ContentKept DEF vars
  <2> QED
    BY <1>2, <2>1, <2>2, <2>3, <2>4, <2>5, <2>6, <2>7, <2>8, <2>9
       DEF Next, ProducerNext, ConsumerNext
<1> QED
  BY <1>1, <1>2, IndexInvariance, ContentInvariance, PTL DEF Spec, FifoSpec, Fifo!Spec
=============================================================================
