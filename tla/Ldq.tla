--------------------------------- MODULE Ldq ---------------------------------
(***************************************************************************)
(* One LidarDataQueue of livox_ros_driver2: a ring of point-cloud frames   *)
(* written by the frame-assembly thread (Lds::PushLidarData) and read by   *)
(* the polling thread (Lddc::PollingLidarPointCloudData) without a lock.   *)
(* Every step is one access to memory the two threads share.  A slot holds *)
(* a header (base_time, points_num) and the points; they are written and   *)
(* read one after the other, so a slot touched by both threads shows as a  *)
(* packet whose header and points belong to different frames.              *)
(*                                                                         *)
(* rd_idx and wr_idx are volatile, not atomic, and the slot is ordinary    *)
(* memory.  InOrder says that the stores of a push become visible in       *)
(* program order (x86, no reordering by the compiler); without it they     *)
(* become visible in any order, which the C++ and ARM memory models allow. *)
(***************************************************************************)
EXTENDS Integers, Sequences

CONSTANTS Frame,       \* what a frame can hold
          None,        \* a local or history variable without a frame
          Garbage,     \* the content of a slot nobody has written
          NoStorage,   \* storage_packet = nullptr
          Size,        \* the slots InitQueue allocates
          IndexMod,    \* rd_idx and wr_idx count modulo this, 2^32 in the code
          InOrder      \* the stores of a push become visible in program order

ASSUME SizeAssumption == Size \in Nat \ {0}
ASSUME IndexModAssumption == IndexMod \in Nat /\ Size < IndexMod /\ IndexMod % Size = 0
ASSUME FrameAssumption == None \notin Frame /\ Garbage \notin Frame
ASSUME InOrderAssumption == InOrder \in BOOLEAN
ASSUME NoStorageAssumption ==
    NoStorage \notin [0..(Size - 1) -> [header : Frame \cup {Garbage},
                                        points : Frame \cup {Garbage}]]

VARIABLES storage_packet,  \* the slots, or NoStorage
          rd_idx, wr_idx, mask,
          producer,        \* where the frame-assembly thread is
          packet,          \* the frame it is pushing
          pending,         \* the stores of QueuePushAny not yet visible
          consumer,        \* where the polling thread is
          pkg,             \* its copy of the slot being popped
          taken,           \* history: the frame popped last
          lost             \* history: the frame dropped last

ring == <<storage_packet, rd_idx, wr_idx, mask>>
producerVars == <<producer, packet, pending>>
consumerVars == <<consumer, pkg>>
vars == <<ring, producerVars, consumerVars, taken, lost>>

Slot == 0..(Size - 1)
Index == 0..(IndexMod - 1)
Store == {"header", "points", "wr_idx"}
Packet == [header : Frame \cup {Garbage}, points : Frame \cup {Garbage}]

\* The slot an index addresses: index & mask, mask + 1 a power of two.
SlotOf(index) == index % (mask + 1)

\* Mutant: the index itself is kept below the size of the ring.
SuccessorInRing(index) == (index + 1) % Size

\* The next value of an index counter.
Successor(index) == (index + 1) % IndexMod

\* How far index a is ahead of index b, as uint32_t subtraction computes it.
Distance(a, b) == (a - b) % IndexMod

UsedSize == Distance(wr_idx, rd_idx)
\* Mutant: the queue is full one frame too late.
IsFullOffByOne == UsedSize > mask + 1

IsFull == UsedSize > mask
IsEmpty == rd_idx = wr_idx

-----------------------------------------------------------------------------
Init == /\ storage_packet = NoStorage
        /\ rd_idx = 0 /\ wr_idx = 0 /\ mask = 0
        /\ producer = "idle" /\ packet = None /\ pending = {}
        /\ consumer = "idle" /\ pkg = [header |-> None, points |-> None]
        /\ taken = None /\ lost = None

\* PushLidarData is called with a frame; the first call finds no storage.
PushLidarData(f) ==
    /\ producer = "idle"
    /\ packet' = f
    /\ producer' = IF storage_packet = NoStorage THEN "allocate" ELSE "check"
    /\ UNCHANGED <<ring, pending, consumerVars, taken, lost>>

\* InitQueue, first half: the consumer sees storage from here on.
AllocateStorage ==
    /\ producer = "allocate"
    /\ storage_packet' = [s \in Slot |-> [header |-> Garbage, points |-> Garbage]]
    /\ producer' = "initialise"
    /\ UNCHANGED <<rd_idx, wr_idx, mask, packet, pending, consumerVars, taken, lost>>

\* Mutant: the mask is the size.
InitialiseIndicesWideMask ==
    /\ producer = "initialise"
    /\ rd_idx' = 0 /\ wr_idx' = 0
    /\ mask' = Size
    /\ producer' = "check"
    /\ UNCHANGED <<storage_packet, packet, pending, consumerVars, taken, lost>>

\* InitQueue, second half: the indices and the mask.
InitialiseIndices ==
    /\ producer = "initialise"
    /\ rd_idx' = 0 /\ wr_idx' = 0
    /\ mask' = Size - 1
    /\ producer' = "check"
    /\ UNCHANGED <<storage_packet, packet, pending, consumerVars, taken, lost>>

\* Mutant: a full queue is emptied to make room.
EmptyFullQueue ==
    /\ producer = "check"
    /\ IsFull
    /\ rd_idx' = wr_idx
    /\ producer' = "write" /\ pending' = Store
    /\ UNCHANGED <<storage_packet, wr_idx, mask, packet, consumerVars, taken, lost>>

\* QueueIsFull answers yes: the frame is dropped.
DropFrame ==
    /\ producer = "check"
    /\ IsFull
    /\ lost' = packet
    /\ producer' = "idle" /\ packet' = None
    /\ UNCHANGED <<ring, pending, consumerVars, taken>>

\* QueueIsFull answers no: QueuePushAny starts.
BeginPush ==
    /\ producer = "check"
    /\ ~IsFull
    /\ producer' = "write" /\ pending' = Store
    /\ UNCHANGED <<ring, packet, consumerVars, taken, lost>>

\* The slot being written: the one wr_idx addressed when the push began.
Target == SlotOf(IF "wr_idx" \in pending THEN wr_idx ELSE (wr_idx - 1) % IndexMod)

\* Mutant: the index is advanced ahead of the copy.
BeforeIndexFirst(store) == CASE store = "wr_idx" -> {}
                             [] store = "header" -> {"wr_idx"}
                             [] store = "points" -> {"wr_idx", "header"}

\* The stores that precede a store in the text of QueuePushAny.
Before(store) == CASE store = "header" -> {}
                   [] store = "points" -> {"header"}
                   [] store = "wr_idx" -> {"header", "points"}

MayBecomeVisible(store) ==
    /\ producer = "write"
    /\ store \in pending
    /\ InOrder => pending \cap Before(store) = {}

\* The packet is pushed when the last of its stores is visible.
Complete(store) ==
    /\ pending' = pending \ {store}
    /\ IF pending' = {} THEN producer' = "idle" /\ packet' = None
                        ELSE UNCHANGED <<producer, packet>>

\* base_time and points_num, or the points, of the slot.
WriteSlot(field) ==
    /\ MayBecomeVisible(field)
    /\ storage_packet' = [storage_packet EXCEPT ![Target][field] = packet]
    /\ Complete(field)
    /\ UNCHANGED <<rd_idx, wr_idx, mask, consumerVars, taken, lost>>

AdvanceWrite ==
    /\ MayBecomeVisible("wr_idx")
    /\ wr_idx' = Successor(wr_idx)
    /\ Complete("wr_idx")
    /\ UNCHANGED <<storage_packet, rd_idx, mask, consumerVars, taken, lost>>

-----------------------------------------------------------------------------
\* The loops of the poller see storage and a frame, and call QueuePop.
PollQueue ==
    /\ consumer = "idle"
    /\ storage_packet # NoStorage
    /\ ~IsEmpty
    /\ consumer' = "prepop"
    /\ UNCHANGED <<ring, producerVars, pkg, taken, lost>>

\* QueuePrePop asks again; the poller ignores a refusal.
RecheckEmpty ==
    /\ consumer = "prepop"
    /\ consumer' = IF IsEmpty THEN "idle" ELSE "header"
    /\ UNCHANGED <<ring, producerVars, pkg, taken, lost>>

ReadHeader ==
    /\ consumer = "header"
    /\ pkg' = [pkg EXCEPT !.header = storage_packet[SlotOf(rd_idx)].header]
    /\ consumer' = "points"
    /\ UNCHANGED <<ring, producerVars, taken, lost>>

ReadPoints ==
    /\ consumer = "points"
    /\ pkg' = [pkg EXCEPT !.points = storage_packet[SlotOf(rd_idx)].points]
    /\ consumer' = "update"
    /\ UNCHANGED <<ring, producerVars, taken, lost>>

\* QueuePopUpdate frees the slot; the packet goes on to be published.
QueuePopUpdate ==
    /\ consumer = "update"
    /\ rd_idx' = Successor(rd_idx)
    /\ taken' = pkg.header
    /\ consumer' = "idle" /\ pkg' = [header |-> None, points |-> None]
    /\ UNCHANGED <<storage_packet, wr_idx, mask, producerVars, lost>>

ProducerNext ==
    \/ \E f \in Frame : PushLidarData(f)
    \/ AllocateStorage \/ InitialiseIndices
    \/ DropFrame \/ BeginPush
    \/ \E field \in {"header", "points"} : WriteSlot(field)
    \/ AdvanceWrite

ConsumerNext == PollQueue \/ RecheckEmpty \/ ReadHeader \/ ReadPoints \/ QueuePopUpdate

Next == ProducerNext \/ ConsumerNext

Spec == Init /\ [][Next]_vars

-----------------------------------------------------------------------------
TypeOK ==
    /\ storage_packet \in [Slot -> Packet] \cup {NoStorage}
    /\ rd_idx \in Index /\ wr_idx \in Index
    /\ mask \in {0, Size - 1}
    /\ producer \in {"idle", "allocate", "initialise", "check", "write"}
    /\ packet \in Frame \cup {None}
    /\ pending \in SUBSET Store
    /\ consumer \in {"idle", "prepop", "header", "points", "update"}
    /\ pkg \in [header : Frame \cup {None, Garbage}, points : Frame \cup {None, Garbage}]
    /\ taken \in Frame \cup {None, Garbage} /\ lost \in Frame \cup {None}

\* The writer never laps the reader, also when the 32-bit indices wrap: the
\* full check of PushLidarData is made long before wr_idx moves.
NoOverrun == storage_packet # NoStorage => UsedSize <= Size

\* The two threads are never inside the same slot (lds.cpp and lddc.cpp
\* share the ring without a lock).
NoSlotRace ==
    ~ /\ pending \cap {"header", "points"} # {}
      /\ consumer \in {"header", "points"}
      /\ Target = SlotOf(rd_idx)

\* A frame handed to the publisher is one frame, not the header of one and
\* the points of another, and never the content of an unwritten slot.
NoTornPacket == consumer = "update" => pkg.header = pkg.points /\ pkg.header \in Frame

\* QueuePop, whose result PublishPointcloud2 ignores, never fails: the slot
\* the poller saw is still there when QueuePrePop looks again.
PopNeverFails == consumer # "idle" => ~IsEmpty

\* The index of the i-th frame of a ring whose oldest frame is at index r.
Nth(r, i) == (r + i - 1) % IndexMod

\* The frames between the indices, oldest first.
Content == [i \in 1..UsedSize |-> storage_packet[SlotOf(Nth(rd_idx, i))].header]

\* The ring does what BoundedFifo promises: frames come out once, whole and in
\* the order they went in, and a frame is dropped only when Size others wait
\* (lds.cpp:200-211 decides on one read of the indices, and acts later).
Fifo == INSTANCE BoundedFifo WITH Capacity <- Size, queue <- Content
FifoSpec == Fifo!Spec
=============================================================================
