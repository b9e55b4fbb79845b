----------------------------- MODULE SerialFrame -----------------------------
(***************************************************************************)
(* The frame codec of pb_serial_comm (frame.cpp): the CRC, packFrame and   *)
(* parseFrames, over bytes as they are.                                    *)
(***************************************************************************)
EXTENDS Integers, Sequences, SequencesExt, Bitwise

SOF == 165
EOF == 90
OVERHEAD == 6   \* FRAME_OVERHEAD

\* Mutant: the polynomial is never added.
CrcBitShiftOnly(crc) == crc \div 2

\* One bit of the CRC: shifted out, it brings in the polynomial 0xA001.
CrcBit(crc) == IF crc % 2 = 1 THEN (crc \div 2) ^^ 40961 ELSE crc \div 2

CrcByte(crc, byte) ==
    FoldLeft(LAMBDA c, j : CrcBit(c), crc ^^ byte, <<1, 2, 3, 4, 5, 6, 7, 8>>)

crc16(bytes) == FoldLeft(CrcByte, 65535, bytes)

LowHigh(crc) == <<crc % 256, crc \div 256>>

\* The CRC of a frame covers its command, its length and its data.
CrcOf(cmd, data) == LowHigh(crc16(<<cmd, Len(data)>> \o data))

\* The length is stored in one byte.
packFrame(cmd, data) ==
    <<SOF, cmd, Len(data) % 256>> \o data
        \o LowHigh(crc16(<<cmd, Len(data) % 256>> \o data)) \o <<EOF>>

\* A whole frame that checks out stands at position i of the buffer.
FrameAt(buffer, i) ==
    /\ i + OVERHEAD - 1 <= Len(buffer)
    /\ buffer[i] = SOF
    /\ LET len == buffer[i + 2]
           end == i + OVERHEAD + len - 1
       IN  /\ end <= Len(buffer)
           /\ LowHigh(crc16(SubSeq(buffer, i + 1, i + 2 + len)))
                  = SubSeq(buffer, end - 2, end - 1)
           /\ buffer[end] = EOF

\* Mutant: the search goes on behind a candidate that failed.
ParseStepSkipping(buffer, found, i) ==
    IF i < found.next THEN found
    ELSE IF FrameAt(buffer, i)
         THEN [found EXCEPT !.frames = Append(@, [cmd |-> buffer[i + 1],
                                data |-> SubSeq(buffer, i + 3, i + 2 + buffer[i + 2])]),
                            !.next = i + OVERHEAD + buffer[i + 2]]
         ELSE IF buffer[i] = SOF /\ i + OVERHEAD - 1 <= Len(buffer)
              THEN [found EXCEPT !.next = i + OVERHEAD + buffer[i + 2]]
              ELSE found

\* The loop of parseFrames at position i: a frame is taken and jumped over, any
\* other byte is passed, also the SOF of a candidate that does not check out.
ParseStep(buffer, found, i) ==
    IF i >= found.next /\ FrameAt(buffer, i)
    THEN [frames |-> Append(found.frames, [cmd |-> buffer[i + 1],
                                 data |-> SubSeq(buffer, i + 3, i + 2 + buffer[i + 2])]),
          next |-> i + OVERHEAD + buffer[i + 2]]
    ELSE found

parseFrames(buffer) ==
    FoldLeft(LAMBDA found, i : ParseStep(buffer, found, i),
             [frames |-> <<>>, next |-> 1], [i \in 1..Len(buffer) |-> i]).frames

-----------------------------------------------------------------------------
(* Properties, over bounded inputs.                                         *)

\* parseFrames finds every frame of a buffer, in order, whatever noise, cut and
\* damaged frames lie between them, and finds nothing else (frame.hpp:62).  A
\* piece has the bytes and the frames that are in them.
FindsEveryFrame(pieces) ==
    parseFrames(FlattenSeq([i \in 1..Len(pieces) |-> pieces[i].bytes]))
        = FlattenSeq([i \in 1..Len(pieces) |-> pieces[i].frames])

\* A frame changed in one or two bits does not check out.
DetectsTwoBits(cmd, data) ==
    LET image == packFrame(cmd, data)
        bit == (2 .. Len(image) - 1) \X (0..7)
        Flip(b, im) == [im EXCEPT ![b[1]] = @ ^^ (2^b[2])]
    IN  \A b, c \in bit : LET changed == IF b = c THEN Flip(b, image)
                                         ELSE Flip(b, Flip(c, image))
                          IN  ~FrameAt(changed, 1)
=============================================================================
