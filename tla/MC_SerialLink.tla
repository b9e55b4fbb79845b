---------------------------- MODULE MC_SerialLink ----------------------------
(* Instances of SerialLink: a referee frame that contains SOF, a gimbal      *)
(* frame that contains EOF, and a referee frame without data.  The gimbal's  *)
(* eight data bytes are scaled down to two.  A checksum that is cheap to     *)
(* evaluate stands for the CRC, of which SerialFrame has the real one.       *)
EXTENDS SerialLink

Weighted(bytes, w) == FoldLeft(+, 0, [i \in 1..Len(bytes) |-> bytes[i] * (1 + w * i)]) % 256
MCCrc(cmdId, bytes) == LET covered == <<cmdId, Len(bytes)>> \o bytes
                       IN  <<Weighted(covered, 0), Weighted(covered, 1)>>

Referee == [cmd |-> 18, data |-> <<165>>]
Gimbal == [cmd |-> 17, data |-> <<90, 1>>]
NoData == [cmd |-> 18, data |-> <<>>]
MCFrames == {Referee, Gimbal}
MCFramesNoData == {Referee, NoData}
MCLengths == [c \in {17, 18} |-> IF c = 17 THEN {2} ELSE 0..255]
=============================================================================
