----------------------------- MODULE QueueSizing -----------------------------
(***************************************************************************)
(* How livox_ros_driver2 sizes a point-cloud queue: the frames it wants    *)
(* room for, from the publishing frequency, rounded up to a power of two   *)
(* because the ring masks its indices.  Word is the width of uint32_t.     *)
(***************************************************************************)
EXTENDS Integers, Bitwise

CONSTANT Word   \* bits of the unsigned word, 32 in the code; at least 1

\* DriverNode clamps the frequency parameter; tenths of a hertz.
ClampFrequency(tenths) == IF tenths < 5 THEN 5 ELSE IF tenths > 1000 THEN 1000 ELSE tenths

\* Mutant: the ring keeps its default size at every frequency.
CalculatePacketQueueSizeFixed(tenths) == 10

CalculatePacketQueueSize(tenths) == IF tenths > 100 THEN (tenths \div 10) + 1 ELSE 10

IsPowerOf2(size) == size # 0 /\ size & (size - 1) = 0

\* Mutant: the search stops at the first power of two above size / 2.
RoundupPowerOf2Low(size) ==
    IF size = 0 THEN 1 ELSE 2^(CHOOSE i \in 0..(Word - 1) : 2^i <= size /\ size < 2^(i + 1))

\* The first power of two not below size, or the largest the word holds.
RoundupPowerOf2(size) ==
    LET reaches(i) == size <= 2^i
        last == Word - 1
    IN  IF \E i \in 0..last : reaches(i)
        THEN 2^(CHOOSE i \in 0..last : reaches(i) /\ \A j \in 0..(i - 1) : ~reaches(j))
        ELSE 2^last

\* The slots InitQueue allocates for a wanted size.
AllocatedSize(size) == IF IsPowerOf2(size) THEN size ELSE RoundupPowerOf2(size)

-----------------------------------------------------------------------------
(* Properties, over bounded inputs.                                         *)

\* InitQueue allocates the least power of two that holds the wanted size, and
\* one that divides the range of the indices, as the masking of ldq.cpp needs.
RoundsUpTightly(size) ==
    size \in 1..2^(Word - 1) =>
        /\ \E k \in 0..(Word - 1) : AllocatedSize(size) = 2^k
        /\ size <= AllocatedSize(size) /\ AllocatedSize(size) < 2 * size

\* At every frequency the driver accepts, the ring of a lidar holds the frames
\* of a whole second, so a publisher stalled for less loses none.
HoldsOneSecond(tenths) ==
    LET frequency == ClampFrequency(tenths)
    IN  10 * AllocatedSize(CalculatePacketQueueSize(frequency)) >= frequency
=============================================================================
