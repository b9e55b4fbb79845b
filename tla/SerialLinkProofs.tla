--------------------------- MODULE SerialLinkProofs ---------------------------
(***************************************************************************)
(* Proofs about the serial link, for any frames, checksum, line faults and *)
(* order of plugging: the types, and that frames with data get through     *)
(* once the line has been quiet, until it loses or changes a byte.         *)
(***************************************************************************)
EXTENDS SerialLink, SequenceTheorems, WellFoundedInduction, TLAPS

-----------------------------------------------------------------------------
(* Types.                                                                   *)

\* How much of a frame has been read where.
Stages == /\ pc = "data" => Len(data) < len
          /\ pc \in {"crc_l", "crc_h", "eof"} => Len(data) = len
          /\ pc = "crc_h" => Len(crc) = 1
          /\ pc = "eof" => Len(crc) = 2
          /\ pc = "configure" => port # "live"

TypeInv == TypeOK /\ Stages

\* The frames receiveLoop can put together.
Received == [cmd : Byte, data : Seq(Byte)]

LEMMA JoinTyped ==
    ASSUME NEW S, NEW a \in Seq(S), NEW b \in Seq(S)
    PROVE  a \o b \in Seq(S) /\ Len(a \o b) = Len(a) + Len(b)
OBVIOUS

LEMMA JoinAssociative ==
    \A S : \A a, b, c \in Seq(S) : a \o (b \o c) = (a \o b) \o c
BY ConcatAssociative, SMTT(40)

LEMMA BytesJoined ==
    ASSUME NEW a \in Seq(Byte), NEW b \in Seq(Byte)
    PROVE  /\ a \o b \in Seq(Byte) /\ Len(a \o b) = Len(a) + Len(b)
           /\ \A i \in 1..(Len(a) + Len(b)) :
                 (a \o b)[i] = IF i <= Len(a) THEN a[i] ELSE b[i - Len(a)]
BY ConcatProperties

LEMMA LenJoined ==
    ASSUME NEW a \in Seq(Byte), NEW b \in Seq(Byte)
    PROVE  a \o b \in Seq(Byte) /\ Len(a \o b) = Len(a) + Len(b)
BY JoinTyped

LEMMA NonEmptyJoined ==
    ASSUME NEW a \in Seq(Byte), NEW b \in Seq(Byte), a # <<>>
    PROVE  Head(a \o b) = Head(a) /\ Tail(a \o b) = Tail(a) \o b
<1>1. /\ a \o b \in Seq(Byte) /\ Len(a \o b) = Len(a) + Len(b)
      /\ \A i \in 1..(Len(a) + Len(b)) :
            (a \o b)[i] = IF i <= Len(a) THEN a[i] ELSE b[i - Len(a)]
  BY BytesJoined
<1>2. Len(a) \in Nat /\ Len(b) \in Nat /\ Len(a) > 0 /\ Head(a) = a[1]
  OBVIOUS
<1>3. a \o b # <<>> /\ Head(a \o b) = (a \o b)[1]
  BY <1>1, <1>2
<1>4. (a \o b)[1] = a[1]
  BY <1>1, <1>2
<1>5. /\ Tail(a) \in Seq(Byte) /\ Len(Tail(a)) = Len(a) - 1
      /\ \A i \in 1..(Len(a) - 1) : Tail(a)[i] = a[i + 1]
  BY <1>2
<1>6. /\ Tail(a) \o b \in Seq(Byte) /\ Len(Tail(a) \o b) = Len(Tail(a)) + Len(b)
      /\ \A i \in 1..(Len(Tail(a)) + Len(b)) :
            (Tail(a) \o b)[i] = IF i <= Len(Tail(a)) THEN Tail(a)[i] ELSE b[i - Len(Tail(a))]
  BY <1>5, BytesJoined
<1>7. /\ Tail(a \o b) \in Seq(Byte) /\ Len(Tail(a \o b)) = Len(a \o b) - 1
      /\ \A i \in 1..(Len(a \o b) - 1) : Tail(a \o b)[i] = (a \o b)[i + 1]
  BY <1>1, <1>3
<1>8. Len(Tail(a \o b)) = Len(Tail(a) \o b)
  BY <1>1, <1>2, <1>5, <1>6, <1>7
<1>9. ASSUME NEW i \in 1..Len(Tail(a) \o b) PROVE Tail(a \o b)[i] = (Tail(a) \o b)[i]
  <2>1. i \in 1..(Len(a \o b) - 1) /\ i \in 1..(Len(Tail(a)) + Len(b)) /\ i + 1 \in 1..(Len(a) + Len(b))
    BY <1>1, <1>2, <1>5, <1>6
  <2>2. Tail(a \o b)[i] = IF i + 1 <= Len(a) THEN a[i + 1] ELSE b[(i + 1) - Len(a)]
    BY <1>1, <1>7, <2>1
  <2>3. (i + 1 <= Len(a) <=> i <= Len(Tail(a))) /\ (i + 1) - Len(a) = i - Len(Tail(a))
    BY <1>2, <1>5, <2>1
  <2>4. i + 1 <= Len(a) => Tail(a)[i] = a[i + 1]
    BY <1>2, <1>5, <2>1
  <2> QED BY <1>6, <2>1, <2>2, <2>3, <2>4
<1> QED BY <1>3, <1>4, <1>2, <1>6, <1>7, <1>8, <1>9, SeqEqual

LEMMA BytesEnd ==
    ASSUME NEW a \in Seq(Byte), NEW m \in 1..(Len(a) + 1)
    PROVE  LET end == SubSeq(a, m, Len(a))
           IN  /\ end \in Seq(Byte) /\ Len(end) = Len(a) + 1 - m
               /\ \A i \in 1..(Len(a) + 1 - m) : end[i] = a[m - 1 + i]
<1>1. Len(a) \in Nat
  OBVIOUS
<1>2. SubSeq(a, m, Len(a)) = [i \in 1..(Len(a) - m + 1) |-> a[m + i - 1]]
  BY <1>1
<1>3. Len(a) - m + 1 = Len(a) + 1 - m /\ Len(a) + 1 - m \in Nat
  BY <1>1
<1>4. \A i \in 1..(Len(a) + 1 - m) : m + i - 1 = m - 1 + i /\ m + i - 1 \in 1..Len(a)
  BY <1>1
<1>5. \A i \in 1..(Len(a) + 1 - m) : a[m - 1 + i] \in Byte
  BY <1>4
<1>6. SubSeq(a, m, Len(a)) = [i \in 1..(Len(a) + 1 - m) |-> a[m - 1 + i]]
  BY <1>2, <1>3, <1>4
<1> QED BY <1>3, <1>5, <1>6, IsASeq

LEMMA ByteAppended ==
    ASSUME NEW a \in Seq(Byte), NEW b \in Byte
    PROVE  Append(a, b) \in Seq(Byte) /\ Len(Append(a, b)) = Len(a) + 1
OBVIOUS

LEMMA ImageTyped ==
    ASSUME NEW f \in Frames
    PROVE  /\ f.cmd \in Byte /\ f.data \in Seq(Byte) /\ Len(f.data) \in Byte
           /\ Crc(f.cmd, f.data) \in Seq(Byte) /\ Len(Crc(f.cmd, f.data)) = 2
           /\ Image(f) \in Seq(Byte) /\ Len(Image(f)) = Len(f.data) + 6
<1>1. f \in [cmd : Byte, data : Seq(Byte)]
  BY FramesAssumption
<1>2. /\ f.cmd \in Byte /\ f.data \in Seq(Byte) /\ Len(f.data) \in Byte
      /\ Crc(f.cmd, f.data) \in Seq(Byte) /\ Len(Crc(f.cmd, f.data)) = 2
  BY <1>1, FramesAssumption
<1>3. <<SOF, f.cmd, Len(f.data)>> \in Seq(Byte) /\ <<EOF>> \in Seq(Byte)
  BY <1>2, ByteAssumption
<1>4. /\ Len(<<SOF, f.cmd, Len(f.data)>>) = 3 /\ Len(<<EOF>>) = 1 /\ Len(f.data) \in Nat
  BY <1>2
<1> DEFINE a == <<SOF, f.cmd, Len(f.data)>>  b == f.data  c == Crc(f.cmd, f.data)  d == <<EOF>>
<1>5. Image(f) = ((a \o b) \o c) \o d
  BY DEF Image
<1>6. a \in Seq(Byte) /\ b \in Seq(Byte) /\ c \in Seq(Byte) /\ d \in Seq(Byte)
  BY <1>2, <1>3
<1>7. Len(a) = 3 /\ Len(c) = 2 /\ Len(d) = 1 /\ Len(b) = Len(f.data)
  BY <1>2, <1>4
<1> HIDE DEF a, b, c, d
<1>8. a \o b \in Seq(Byte) /\ Len(a \o b) = 3 + Len(f.data)
  <2>1. a \o b \in Seq(Byte) /\ Len(a \o b) = Len(a) + Len(b)
    BY ONLY <1>6, LenJoined
  <2> QED BY <1>7, <2>1
<1>9. (a \o b) \o c \in Seq(Byte) /\ Len((a \o b) \o c) = 3 + Len(f.data) + 2
  BY <1>6, <1>7, <1>8, LenJoined
<1>10. Image(f) \in Seq(Byte) /\ Len(Image(f)) = 3 + Len(f.data) + 2 + 1
  BY <1>5, <1>6, <1>7, <1>9, LenJoined
<1> QED BY <1>2, <1>4, <1>10

LEMMA OwesTyped ==
    ASSUME NEW S, NEW f \in S
    PROVE  Owes(f) \in Seq(S)
<1>1. <<f>> \in Seq(S) /\ <<>> \in Seq(S)
  OBVIOUS
<1> QED BY <1>1 DEF Owes

LEMMA TypeInit == Init => TypeInv
<1> SUFFICES ASSUME Init PROVE TypeInv
  OBVIOUS
<1>1. SOF \in Byte /\ 0 \in Byte
  BY ByteAssumption DEF Byte
<1>2. 0 \in 0..MaxFrames /\ 0 \in 0..MaxFaults /\ 0 \in 0..MaxUnplugs
  BY BoundsAssumption
<1>3. <<>> \in Seq(Byte) /\ <<>> \in Seq(Frames) /\ <<>> \in Seq(Received) /\ Len(<<>>) <= 2
  OBVIOUS
<1> QED BY <1>1, <1>2, <1>3 DEF Init, TypeInv, TypeOK, Stages, Received

LEMMA ReadTyped ==
    ASSUME TypeInv, NEW p, ReadByte(p)
    PROVE  Head(wire) \in Byte /\ wire' \in Seq(Byte) /\ UNCHANGED port
BY DEF TypeInv, TypeOK, ReadByte

LEMMA TypeStep == TypeInv /\ [Next]_vars => TypeInv'
<1> SUFFICES ASSUME TypeInv, [Next]_vars PROVE TypeInv'
  OBVIOUS
<1> USE DEF reader, sender, Goto, KeepFrame, KeepWorld
<1>1. ASSUME NEW f \in Frames, SendFrame(f) PROVE TypeInv'
  <2>1. sending' \in Seq(Byte)
    BY <1>1, ImageTyped DEF SendFrame
  <2>2. Owes(f) \in Seq(Frames) /\ owed \in Seq(Frames)
    BY OwesTyped DEF TypeInv, TypeOK
  <2>3. owed' \in Seq(Frames)
    BY <1>1, <2>2, JoinTyped DEF SendFrame
  <2>4. published' \in Seq(Received)
    BY <1>1 DEF SendFrame, TypeInv, TypeOK, Received
  <2> QED BY <1>1, <2>1, <2>3, <2>4, BoundsAssumption DEF SendFrame, TypeInv, TypeOK, Stages, Received
<1>2. CASE SendByte
  BY <1>2 DEF SendByte, TypeInv, TypeOK, Stages
<1>3. CASE DamageByte
  <2>1. wire' \in Seq(Byte) /\ sending' \in Seq(Byte)
    <3>1. sending' \in Seq(Byte) /\ wire \in Seq(Byte)
      BY <1>3 DEF DamageByte, TypeInv, TypeOK
    <3>2. \A b \in Corrupt : Append(wire, b) \in Seq(Byte)
      BY <3>1, ByteAssumption
    <3> QED BY <1>3, <3>1, <3>2 DEF DamageByte
  <2>2. faults' \in 0..MaxFaults
    BY <1>3, BoundsAssumption DEF DamageByte, TypeInv, TypeOK
  <2> QED BY <1>3, <2>1, <2>2 DEF DamageByte, TypeInv, TypeOK, Stages
<1>4. CASE Unplug
  <2>1. unplugs' \in 0..MaxUnplugs
    BY <1>4, BoundsAssumption DEF Unplug, TypeInv, TypeOK
  <2>2. <<>> \in Seq(Byte)
    OBVIOUS
  <2>3. port' \in {"closed", "opened", "live", "dead"} /\ (pc' = "configure" => port' # "live")
    BY <1>4 DEF Unplug, TypeInv, TypeOK, Stages
  <2>4. plugged' \in BOOLEAN /\ wire' \in Seq(Byte) /\ sending' \in Seq(Byte)
        /\ aligned' \in BOOLEAN
    BY <1>4, <2>2 DEF Unplug, TypeInv, TypeOK
  <2>5. UNCHANGED <<running, main, pc, cmd, data, len, crc, published, owed, frames, faults>>
    BY <1>4 DEF Unplug
  <2> QED BY <2>1, <2>3, <2>4, <2>5 DEF TypeInv, TypeOK, Stages
<1>5. CASE Plug
  BY <1>5 DEF Plug, TypeInv, TypeOK, Stages
<1>6. CASE Stop \/ AlreadyOpen \/ OpenPort \/ Configure \/ OpenFails \/ WakeUp
  BY <1>6 DEF Stop, AlreadyOpen, OpenPort, Configure, OpenFails, WakeUp, TypeInv, TypeOK, Stages
<1>7. CASE ReadFails
  BY <1>7 DEF ReadFails, TypeInv, TypeOK, Stages
<1>8. CASE ReadSof
  BY <1>8, ReadTyped DEF ReadSof, ReadByte, TypeInv, TypeOK, Stages
<1>9. CASE ReadCmd
  BY <1>9, ReadTyped DEF ReadCmd, ReadByte, TypeInv, TypeOK, Stages
<1>10. CASE ReadLen
  <2>1. len' \in Byte /\ data' = <<>> /\ wire' \in Seq(Byte)
    BY <1>10, ReadTyped DEF ReadLen
  <2>4. len' \in Nat
    BY <2>1 DEF Byte
  <2>2. data' \in Seq(Byte) /\ Len(data') = 0
    BY <2>1
  <2>3. pc' = IF len' = 0 THEN "check" ELSE "data"
    BY <1>10 DEF ReadLen
  <2> QED BY <1>10, <2>1, <2>2, <2>3, <2>4, SMTT(40) DEF ReadLen, ReadByte, TypeInv, TypeOK, Stages
<1>11. CASE ReadData
  <2>1. data' \in Seq(Byte) /\ Len(data') = Len(data) + 1
    BY <1>11, ReadTyped DEF ReadData, TypeInv, TypeOK
  <2>2. Len(data) \in Nat /\ len \in Nat /\ Len(data) < len
    BY <1>11 DEF ReadData, ReadByte, TypeInv, TypeOK, Stages, Byte
  <2> QED BY <1>11, <2>1, <2>2, ReadTyped DEF ReadData, ReadByte, TypeInv, TypeOK, Stages
<1>12. CASE ReadCrcLow
  BY <1>12, ReadTyped DEF ReadCrcLow, ReadByte, TypeInv, TypeOK, Stages
<1>13. CASE ReadCrcHigh
  <2>1. crc' \in Seq(Byte) /\ Len(crc') = 2
    <3>1. crc \in Seq(Byte) /\ Len(crc) = 1 /\ Head(wire) \in Byte
      BY <1>13, ReadTyped DEF ReadCrcHigh, ReadByte, TypeInv, TypeOK, Stages
    <3>2. crc' = Append(crc, Head(wire))
      BY <1>13 DEF ReadCrcHigh
    <3> QED BY <3>1, <3>2, ByteAppended
  <2> QED BY <1>13, <2>1, ReadTyped DEF ReadCrcHigh, ReadByte, TypeInv, TypeOK, Stages
<1>14. CASE ReadEof
  <2>1. [cmd |-> cmd, data |-> data] \in Received /\ published \in Seq(Received)
    BY DEF TypeInv, TypeOK, Received
  <2>2. published' \in Seq(Received)
    BY <1>14, <2>1, OwesTyped, JoinTyped DEF ReadEof
  <2> QED BY <1>14, <2>2, ReadTyped DEF ReadEof, ReadByte, TypeInv, TypeOK, Stages, Received
<1>15. CASE StopRunning \/ JoinAndClose
  <2>1. <<>> \in Seq(Byte)
    OBVIOUS
  <2> QED BY <1>15, <2>1 DEF StopRunning, JoinAndClose, TypeInv, TypeOK, Stages
<1>16. CASE UNCHANGED vars
  BY <1>16 DEF vars, TypeInv, TypeOK, Stages
<1> QED BY <1>1, <1>2, <1>3, <1>4, <1>5, <1>6, <1>7, <1>8, <1>9, <1>10, <1>11, <1>12, <1>13,
           <1>14, <1>15, <1>16 DEF Next, Receive

-----------------------------------------------------------------------------
(* Sequences of sequences, joined.                                          *)

LEMMA NatLeast ==
    ASSUME NEW T, T \subseteq Nat, T # {}
    PROVE  \E x \in T : \A y \in T : x <= y
<1> DEFINE R == OpToRel(<, Nat)
<1>1. IsWellFoundedOn(R, Nat)
  BY NatLessThanWellFounded
<1>2. \A x, y \in Nat : x < y => <<x, y>> \in R
  BY DEF OpToRel
<1> HIDE DEF R
<1>3. \E x \in T : \A y \in T : ~ (<<y, x>> \in R)
  BY <1>1, WFMin
<1>4. \A x, y \in Nat : ~(y < x) => x <= y
  OBVIOUS
<1> QED BY <1>2, <1>3, <1>4

\* Induction up to n, over a set of naturals.
LEMMA CountsUp ==
    ASSUME NEW n \in Nat, NEW S, 0 \in S, \A i \in 1..n : i - 1 \in S => i \in S
    PROVE  \A i \in 0..n : i \in S
<1> DEFINE T == {i \in 0..n : i \notin S}
<1> SUFFICES ASSUME T # {} PROVE FALSE
  OBVIOUS
<1>1. PICK x \in T : \A y \in T : x <= y
  <2>1. T \subseteq Nat
    OBVIOUS
  <2> HIDE DEF T
  <2> QED BY <2>1, NatLeast
<1>2. x \in 1..n
  BY <1>1
<1>3. x - 1 \in 0..n /\ ~ (x <= x - 1)
  BY <1>2
<1>4. x - 1 \in S
  BY <1>1, <1>3
<1> QED BY <1>1, <1>2, <1>4

\* f holds ss[1], ss[1] \o ss[2], ... up to n.
Flattens(f, n, ss) == f = [i \in 0..n |-> IF i = 0 THEN <<>> ELSE f[i - 1] \o ss[i]]

Flat(ss) == (CHOOSE f : Flattens(f, Len(ss), ss))[Len(ss)]

LEMMA FlattensExists ==
    ASSUME NEW ss, NEW m \in Nat
    PROVE  \E f : Flattens(f, m, ss)
<1> DEFINE S == {n \in 0..m : \E f : Flattens(f, n, ss)}
<1>1. 0 \in S
  <2> DEFINE g == [i \in 0..0 |-> <<>>]
  <2>1. Flattens(g, 0, ss)
    BY DEF Flattens
  <2> HIDE DEF g
  <2> QED BY <2>1
<1>2. ASSUME NEW n \in 1..m, n - 1 \in S PROVE n \in S
  <2>1. PICK g : Flattens(g, n - 1, ss)
    BY <1>2
  <2> DEFINE h == [i \in 0..n |-> IF i = n THEN g[n - 1] \o ss[n] ELSE g[i]]
  <2>2. ASSUME NEW i \in 0..n PROVE h[i] = IF i = 0 THEN <<>> ELSE h[i - 1] \o ss[i]
    <3>1. CASE i = n
      <4>1. i - 1 \in 0..n /\ i - 1 # n /\ i # 0
        BY <3>1
      <4> QED BY <3>1, <4>1
    <3>2. CASE i # n
      <4>1. i \in 0..(n - 1)
        BY <3>2
      <4>2. g[i] = IF i = 0 THEN <<>> ELSE g[i - 1] \o ss[i]
        BY <2>1, <4>1 DEF Flattens
      <4>3. i # 0 => i - 1 \in 0..n /\ i - 1 # n
        BY <4>1
      <4> QED BY <3>2, <4>2, <4>3
    <3> QED BY <3>1, <3>2
  <2>3. h = [i \in 0..n |-> h[i]]
    OBVIOUS
  <2> HIDE DEF h
  <2>4. Flattens(h, n, ss)
    BY <2>2, <2>3 DEF Flattens
  <2> QED BY <2>4
<1>3. m \in S
  <2> HIDE DEF S
  <2>1. \A i \in 0..m : i \in S
    BY <1>1, <1>2, CountsUp
  <2> QED BY <2>1
<1> QED BY <1>3

\* The same, step by step.
FlatSteps(f, ss) ==
    f[0] = <<>> /\ \A i \in 1..Len(ss) : f[i] = f[i - 1] \o ss[i]

LEMMA FlatIs ==
    ASSUME NEW S, NEW ss \in Seq(Seq(S))
    PROVE  \E f : Flat(ss) = f[Len(ss)] /\ FlatSteps(f, ss)
<1> DEFINE n == Len(ss)
           f == CHOOSE g : Flattens(g, n, ss)
<1>1. Flat(ss) = f[n] /\ n \in Nat
  BY DEF Flat
<1>2. \E g : Flattens(g, n, ss)
  <2> HIDE DEF n, f
  <2> QED BY <1>1, FlattensExists
<1>3. Flattens(f, n, ss)
  BY <1>2
<1> HIDE DEF f
<1>4. f[0] = <<>> /\ \A i \in 1..n : f[i] = f[i - 1] \o ss[i]
  <2> HIDE DEF n
  <2>1. f = [i \in 0..n |-> IF i = 0 THEN <<>> ELSE f[i - 1] \o ss[i]]
    BY <1>3 DEF Flattens
  <2>2. f[0] = <<>>
    BY <1>1, <2>1
  <2>3. ASSUME NEW i \in 1..n PROVE f[i] = f[i - 1] \o ss[i]
    <3>1. i \in 0..n /\ i # 0
      BY <1>1
    <3> QED BY <2>1, <3>1
  <2> QED BY <2>2, <2>3
<1> QED BY <1>1, <1>4 DEF FlatSteps

LEMMA FlatNone == Flat(<<>>) = <<>>
<1>1. <<>> \in Seq(Seq(Nat)) /\ Len(<<>>) = 0
  OBVIOUS
<1>2. \E f : Flat(<<>>) = f[Len(<<>>)] /\ FlatSteps(f, <<>>)
  BY <1>1, FlatIs
<1> QED BY <1>1, <1>2 DEF FlatSteps

LEMMA FlatTyped ==
    ASSUME NEW S, NEW ss \in Seq(Seq(S))
    PROVE  Flat(ss) \in Seq(S)
<1> DEFINE n == Len(ss)
<1>1. n \in Nat /\ \A i \in 1..n : ss[i] \in Seq(S)
  OBVIOUS
<1>2. PICK f : Flat(ss) = f[Len(ss)] /\ FlatSteps(f, ss)
  BY FlatIs
<1>3. Flat(ss) = f[n] /\ f[0] = <<>> /\ \A i \in 1..n : f[i] = f[i - 1] \o ss[i]
  BY <1>2 DEF FlatSteps
<1> DEFINE T == {i \in 0..n : f[i] \in Seq(S)}
<1> HIDE DEF n
<1>4. 0 \in T
  <2>1. f[0] \in Seq(S)
    BY <1>3, EmptySeq
  <2> QED BY <1>1, <2>1
<1>5. ASSUME NEW i \in 1..n, i - 1 \in T PROVE i \in T
  <2>1. f[i - 1] \in Seq(S) /\ ss[i] \in Seq(S)
    BY <1>1, <1>5
  <2>2. f[i] = f[i - 1] \o ss[i]
    BY <1>3
  <2>3. f[i] \in Seq(S)
    BY <2>1, <2>2, JoinTyped
  <2> QED BY <2>3
<1>6. n \in T
  <2> HIDE DEF T
  <2>1. \A i \in 0..n : i \in T
    BY <1>1, <1>4, <1>5, CountsUp
  <2> QED BY <1>1, <2>1
<1> QED BY <1>3, <1>6

LEMMA FlatLast ==
    ASSUME NEW S, NEW ss \in Seq(Seq(S)), NEW s \in Seq(S)
    PROVE  Flat(Append(ss, s)) = Flat(ss) \o s
<1> DEFINE n == Len(ss)  longer == Append(ss, s)
<1>1. /\ n \in Nat /\ Len(longer) = n + 1 /\ longer[n + 1] = s
      /\ \A i \in 1..n : longer[i] = ss[i]
      /\ longer \in Seq(Seq(S))
  OBVIOUS
<1> HIDE DEF n, longer
<1>2. PICK f : Flat(ss) = f[Len(ss)] /\ FlatSteps(f, ss)
  BY FlatIs
<1>f. Flat(ss) = f[n] /\ f[0] = <<>> /\ \A i \in 1..n : f[i] = f[i - 1] \o ss[i]
  BY <1>2 DEF FlatSteps, n
<1>3. PICK h : Flat(longer) = h[Len(longer)] /\ FlatSteps(h, longer)
  BY <1>1, FlatIs
<1>h. Flat(longer) = h[n + 1] /\ h[0] = <<>> /\ \A i \in 1..(n + 1) : h[i] = h[i - 1] \o longer[i]
  BY <1>1, <1>3 DEF FlatSteps
<1> DEFINE T == {i \in 0..n : h[i] = f[i]}
<1>4. 0 \in T
  BY <1>1, <1>f, <1>h
<1>5. ASSUME NEW i \in 1..n, i - 1 \in T PROVE i \in T
  <2>1. i \in 1..(n + 1) /\ longer[i] = ss[i] /\ h[i - 1] = f[i - 1]
    BY <1>1, <1>5
  <2>2. h[i] = h[i - 1] \o longer[i] /\ f[i] = f[i - 1] \o ss[i]
    BY <1>f, <1>h, <2>1
  <2>3. h[i] = f[i]
    BY <2>1, <2>2
  <2> QED BY <2>3
<1>6. n \in T
  <2> HIDE DEF T
  <2>1. \A i \in 0..n : i \in T
    BY <1>1, <1>4, <1>5, CountsUp
  <2> QED BY <1>1, <2>1
<1>7. h[n + 1] = h[n] \o s
  <2>1. n + 1 \in 1..(n + 1) /\ (n + 1) - 1 = n
    BY <1>1
  <2> QED BY <1>1, <1>h, <2>1
<1> QED BY <1>f, <1>h, <1>6, <1>7 DEF longer

LEMMA FlatFirst ==
    ASSUME NEW S, NEW ss \in Seq(Seq(S)), ss # <<>>
    PROVE  Flat(ss) = Head(ss) \o Flat(Tail(ss))
<1> DEFINE rest == Tail(ss)  n == Len(rest)
<1>1. /\ n \in Nat /\ Len(ss) = n + 1 /\ Head(ss) = ss[1] /\ Head(ss) \in Seq(S)
      /\ \A i \in 1..n : rest[i] = ss[i + 1] /\ rest[i] \in Seq(S)
      /\ rest \in Seq(Seq(S))
  OBVIOUS
<1>2. PICK f : Flat(ss) = f[Len(ss)] /\ FlatSteps(f, ss)
  BY FlatIs
<1>f. Flat(ss) = f[n + 1] /\ f[0] = <<>> /\ \A i \in 1..(n + 1) : f[i] = f[i - 1] \o ss[i]
  <2> HIDE DEF n
  <2> QED BY <1>1, <1>2 DEF FlatSteps
<1> HIDE DEF rest
<1>3. PICK h : Flat(rest) = h[Len(rest)] /\ FlatSteps(h, rest)
  BY <1>1, FlatIs
<1>h. Flat(rest) = h[n] /\ h[0] = <<>> /\ \A i \in 1..n : h[i] = h[i - 1] \o rest[i]
  BY <1>3 DEF FlatSteps
<1> HIDE DEF n
<1> DEFINE T == {i \in 0..n : h[i] \in Seq(S) /\ Head(ss) \o h[i] = f[i + 1]}
<1>4. 0 \in T
  <2>1. 1 \in 1..(n + 1) /\ 1 - 1 = 0 /\ 0 + 1 = 1 /\ 0 \in 0..n
    BY <1>1
  <2>2. f[1] = f[0] \o ss[1]
    BY <1>f, <2>1
  <2>3. f[1] = Head(ss) /\ h[0] \in Seq(S) /\ Head(ss) \o h[0] = Head(ss)
    BY <1>1, <1>f, <1>h, <2>2, EmptySeq, ConcatEmptySeq
  <2> QED BY <2>1, <2>3
<1>5. ASSUME NEW i \in 1..n, i - 1 \in T PROVE i \in T
  <2>1. h[i - 1] \in Seq(S) /\ Head(ss) \o h[i - 1] = f[(i - 1) + 1] /\ rest[i] \in Seq(S)
    BY <1>1, <1>5
  <2>2. i + 1 \in 1..(n + 1) /\ (i + 1) - 1 = i /\ (i - 1) + 1 = i /\ i \in 0..n
    BY <1>1
  <2>3. h[i] = h[i - 1] \o rest[i] /\ f[i + 1] = f[i] \o rest[i]
    <3>1. f[i + 1] = f[(i + 1) - 1] \o ss[i + 1] /\ rest[i] = ss[i + 1]
      BY <1>1, <1>f, <2>2
    <3> QED BY <1>h, <2>2, <3>1
  <2>4. Head(ss) \o (h[i - 1] \o rest[i]) = (Head(ss) \o h[i - 1]) \o rest[i]
    <3> DEFINE a == Head(ss)  b == h[i - 1]  c == rest[i]
    <3>1. a \in Seq(S) /\ b \in Seq(S) /\ c \in Seq(S)
      BY <1>1, <2>1
    <3> HIDE DEF a, b, c
    <3>2. a \o (b \o c) = (a \o b) \o c
      BY ONLY <3>1, JoinAssociative
    <3> QED BY <3>2 DEF a, b, c
  <2>5. h[i] \in Seq(S)
    BY <2>1, <2>3, JoinTyped
  <2>6. Head(ss) \o h[i] = f[i + 1]
    BY <2>1, <2>2, <2>3, <2>4
  <2> QED BY <2>2, <2>5, <2>6
<1>6. n \in T
  <2> HIDE DEF T
  <2>1. \A i \in 0..n : i \in T
    BY <1>1, <1>4, <1>5, CountsUp
  <2> QED BY <1>1, <2>1
<1> QED BY <1>f, <1>h, <1>6 DEF rest

-----------------------------------------------------------------------------
(* The frames under way.                                                    *)

\* The bytes of the frames fs, and what handleFrame publishes of them.
Bytes(fs) == Flat([i \in 1..Len(fs) |-> Image(fs[i])])
Due(fs) == Flat([i \in 1..Len(fs) |-> Owes(fs[i])])

LEMMA FramesTyped ==
    ASSUME NEW fs \in Seq(Frames)
    PROVE  /\ [i \in 1..Len(fs) |-> Image(fs[i])] \in Seq(Seq(Byte))
           /\ [i \in 1..Len(fs) |-> Owes(fs[i])] \in Seq(Seq(Frames))
           /\ Bytes(fs) \in Seq(Byte) /\ Due(fs) \in Seq(Frames)
<1>1. Len(fs) \in Nat /\ \A i \in 1..Len(fs) : fs[i] \in Frames
  OBVIOUS
<1>2. \A i \in 1..Len(fs) : Image(fs[i]) \in Seq(Byte) /\ Owes(fs[i]) \in Seq(Frames)
  BY <1>1, ImageTyped, OwesTyped
<1>3. /\ [i \in 1..Len(fs) |-> Image(fs[i])] \in Seq(Seq(Byte))
      /\ [i \in 1..Len(fs) |-> Owes(fs[i])] \in Seq(Seq(Frames))
  BY <1>1, <1>2, IsASeq
<1> QED BY <1>3, FlatTyped DEF Bytes, Due

LEMMA FramesNone == Bytes(<<>>) = <<>> /\ Due(<<>>) = <<>>
<1>1. [i \in 1..Len(<<>>) |-> Image(<<>>[i])] = <<>> /\ [i \in 1..Len(<<>>) |-> Owes(<<>>[i])] = <<>>
  OBVIOUS
<1> QED BY <1>1, FlatNone DEF Bytes, Due

LEMMA FramesLast ==
    ASSUME NEW fs \in Seq(Frames), NEW f \in Frames
    PROVE  /\ Append(fs, f) \in Seq(Frames)
           /\ Bytes(Append(fs, f)) = Bytes(fs) \o Image(f)
           /\ Due(Append(fs, f)) = Due(fs) \o Owes(f)
<1> DEFINE n == Len(fs)  longer == Append(fs, f)
           is == [i \in 1..Len(fs) |-> Image(fs[i])]
           os == [i \in 1..Len(fs) |-> Owes(fs[i])]
<1>1. n \in Nat /\ longer \in Seq(Frames) /\ Len(longer) = n + 1
      /\ \A i \in 1..(n + 1) : longer[i] = IF i = n + 1 THEN f ELSE fs[i]
  OBVIOUS
<1>2. is \in Seq(Seq(Byte)) /\ os \in Seq(Seq(Frames))
      /\ Image(f) \in Seq(Byte) /\ Owes(f) \in Seq(Frames)
  BY FramesTyped, ImageTyped, OwesTyped
<1>3. [i \in 1..Len(longer) |-> Image(longer[i])] = Append(is, Image(f))
  <2>1. Append(is, Image(f)) = [i \in 1..(n + 1) |-> IF i = n + 1 THEN Image(f) ELSE is[i]]
    BY <1>1, <1>2
  <2> QED BY <1>1, <2>1
<1>4. [i \in 1..Len(longer) |-> Owes(longer[i])] = Append(os, Owes(f))
  <2>1. Append(os, Owes(f)) = [i \in 1..(n + 1) |-> IF i = n + 1 THEN Owes(f) ELSE os[i]]
    BY <1>1, <1>2
  <2> QED BY <1>1, <2>1
<1> HIDE DEF is, os, longer, n
<1>5. Flat(Append(is, Image(f))) = Flat(is) \o Image(f)
  BY <1>2, FlatLast
<1>6. Flat(Append(os, Owes(f))) = Flat(os) \o Owes(f)
  BY <1>2, FlatLast
<1> QED BY <1>1, <1>3, <1>4, <1>5, <1>6 DEF Bytes, Due, is, os, longer

LEMMA FramesFirst ==
    ASSUME NEW fs \in Seq(Frames), fs # <<>>
    PROVE  /\ Head(fs) \in Frames /\ Tail(fs) \in Seq(Frames)
           /\ Bytes(fs) = Image(Head(fs)) \o Bytes(Tail(fs))
           /\ Due(fs) = Owes(Head(fs)) \o Due(Tail(fs))
<1> DEFINE rest == Tail(fs)
           is == [i \in 1..Len(fs) |-> Image(fs[i])]
           os == [i \in 1..Len(fs) |-> Owes(fs[i])]
<1>1. /\ Len(fs) \in Nat /\ Len(fs) > 0 /\ Head(fs) = fs[1] /\ Head(fs) \in Frames
      /\ rest \in Seq(Frames) /\ Len(rest) = Len(fs) - 1
      /\ \A i \in 1..(Len(fs) - 1) : rest[i] = fs[i + 1]
  OBVIOUS
<1>2. is \in Seq(Seq(Byte)) /\ os \in Seq(Seq(Frames))
      /\ Len(is) = Len(fs) /\ Len(os) = Len(fs)
  <2>1. is \in Seq(Seq(Byte)) /\ os \in Seq(Seq(Frames))
    BY FramesTyped
  <2>2. Len(is) = Len(fs) /\ Len(os) = Len(fs)
    BY <1>1
  <2> QED BY <2>1, <2>2
<1>3. is # <<>> /\ Head(is) = Image(Head(fs)) /\ os # <<>> /\ Head(os) = Owes(Head(fs))
  BY <1>1, <1>2
<1>4. Tail(is) = [i \in 1..Len(rest) |-> Image(rest[i])]
  <2>1. Tail(is) = [i \in 1..(Len(is) - 1) |-> is[i + 1]]
    BY <1>2, <1>3
  <2>2. \A i \in 1..(Len(fs) - 1) : is[i + 1] = Image(rest[i])
    BY <1>1
  <2> HIDE DEF is, rest
  <2> QED BY <1>1, <1>2, <2>1, <2>2
<1>5. Tail(os) = [i \in 1..Len(rest) |-> Owes(rest[i])]
  <2>1. Tail(os) = [i \in 1..(Len(os) - 1) |-> os[i + 1]]
    BY <1>2, <1>3
  <2>2. \A i \in 1..(Len(fs) - 1) : os[i + 1] = Owes(rest[i])
    BY <1>1
  <2> HIDE DEF os, rest
  <2> QED BY <1>1, <1>2, <2>1, <2>2
<1> HIDE DEF is, os, rest
<1>6. Flat(is) = Head(is) \o Flat(Tail(is))
  BY <1>2, <1>3, FlatFirst
<1>7. Flat(os) = Head(os) \o Flat(Tail(os))
  BY <1>2, <1>3, FlatFirst
<1>8. Bytes(fs) = Flat(is) /\ Due(fs) = Flat(os)
  BY DEF Bytes, Due, is, os
<1>9. Bytes(rest) = Flat(Tail(is)) /\ Due(rest) = Flat(Tail(os))
  BY <1>4, <1>5 DEF Bytes, Due
<1> QED BY <1>1, <1>3, <1>6, <1>7, <1>8, <1>9 DEF rest

-----------------------------------------------------------------------------
(* The place of the reader in the frames.                                   *)

InFrame == {"cmd", "len", "data", "crc_l", "crc_h", "eof"}

\* How many bytes of the frame under way have been read.
BytesRead == IF pc = "cmd" THEN 1
             ELSE IF pc = "len" THEN 2
             ELSE 3 + Len(data) + (IF pc = "crc_h" THEN 1 ELSE IF pc = "eof" THEN 2 ELSE 0)

\* What has been read is the beginning of f.
Reads(f) ==
    /\ pc # "cmd" => cmd = f.cmd
    /\ pc \notin {"cmd", "len"} =>
           len = Len(f.data) /\ \A i \in 1..Len(data) : data[i] = f.data[i]
    /\ pc \in {"crc_h", "eof"} => \A i \in 1..Len(crc) : crc[i] = Crc(f.cmd, f.data)[i]

Left(f) == SubSeq(Image(f), BytesRead + 1, Len(Image(f)))

\* The bytes under way are those of whole frames.
BetweenFrames(fs) ==
    /\ pc \in {"check", "sof", "stopped"}
    /\ wire \o sending = Bytes(fs)
    /\ published \o Due(fs) = owed

\* They are what is left of f, and whole frames.
WithinFrame(f, fs) ==
    /\ pc \in InFrame /\ Reads(f)
    /\ wire \o sending = Left(f) \o Bytes(fs)
    /\ published \o (Owes(f) \o Due(fs)) = owed

\* On an aligned line, the bytes under way are those of frames sent and owed.
PlaceInv ==
    aligned => /\ port = "live"
               /\ \E fs \in Seq(Frames) : \/ BetweenFrames(fs)
                                          \/ \E f \in Frames : WithinFrame(f, fs)

\* Image, byte by byte.
LEMMA ImageBytes ==
    ASSUME NEW f \in Frames
    PROVE  LET n == Len(f.data)
               image == Image(f)
           IN  /\ n \in Nat /\ Len(image) = n + 6
               /\ image[1] = SOF /\ image[2] = f.cmd /\ image[3] = n
               /\ \A i \in 1..n : image[3 + i] = f.data[i]
               /\ image[n + 4] = Crc(f.cmd, f.data)[1]
               /\ image[n + 5] = Crc(f.cmd, f.data)[2]
               /\ image[n + 6] = EOF
<1> DEFINE a == <<SOF, f.cmd, Len(f.data)>>  b == f.data  c == Crc(f.cmd, f.data)  d == <<EOF>>
           n == Len(f.data)
<1>1. /\ f.cmd \in Byte /\ b \in Seq(Byte) /\ n \in Byte /\ n \in Nat
      /\ c \in Seq(Byte) /\ Len(c) = 2 /\ Len(Image(f)) = n + 6
  BY ImageTyped
<1>2. a \in Seq(Byte) /\ d \in Seq(Byte) /\ Len(a) = 3 /\ Len(d) = 1
  BY <1>1, ByteAssumption
<1>3. a[1] = SOF /\ a[2] = f.cmd /\ a[3] = n /\ d[1] = EOF
  OBVIOUS
<1>4. Image(f) = ((a \o b) \o c) \o d /\ Len(b) = n
  BY DEF Image
<1> HIDE DEF a, b, c, d, n
<1>5. /\ a \o b \in Seq(Byte) /\ Len(a \o b) = 3 + n
      /\ \A i \in 1..(3 + n) : (a \o b)[i] = IF i <= 3 THEN a[i] ELSE b[i - 3]
  <2>1. a \in Seq(Byte) /\ b \in Seq(Byte) /\ Len(a) = 3 /\ Len(b) = n
    BY <1>1, <1>2, <1>4
  <2>2. /\ a \o b \in Seq(Byte) /\ Len(a \o b) = Len(a) + Len(b)
        /\ \A i \in 1..(Len(a) + Len(b)) :
              (a \o b)[i] = IF i <= Len(a) THEN a[i] ELSE b[i - Len(a)]
    BY <2>1, BytesJoined
  <2> QED BY <1>4, <2>1, <2>2
<1>6. /\ (a \o b) \o c \in Seq(Byte) /\ Len((a \o b) \o c) = 3 + n + 2
      /\ \A i \in 1..(3 + n + 2) :
            ((a \o b) \o c)[i] = IF i <= 3 + n THEN (a \o b)[i] ELSE c[i - (3 + n)]
  <2>1. (a \o b) \in Seq(Byte) /\ c \in Seq(Byte) /\ Len((a \o b)) = 3 + n /\ Len(c) = 2
    BY <1>1, <1>5
  <2>2. /\ (a \o b) \o c \in Seq(Byte) /\ Len((a \o b) \o c) = Len((a \o b)) + Len(c)
        /\ \A i \in 1..(Len((a \o b)) + Len(c)) :
              ((a \o b) \o c)[i] = IF i <= Len((a \o b)) THEN (a \o b)[i] ELSE c[i - Len((a \o b))]
    BY <2>1, BytesJoined
  <2> QED BY <1>4, <2>1, <2>2
<1>7. \A i \in 1..(3 + n + 2 + 1) :
         Image(f)[i] = IF i <= 3 + n + 2 THEN ((a \o b) \o c)[i] ELSE d[i - (3 + n + 2)]
  <2>1. ((a \o b) \o c) \in Seq(Byte) /\ d \in Seq(Byte) /\ Len(((a \o b) \o c)) = 3 + n + 2 /\ Len(d) = 1
    BY <1>2, <1>4, <1>6
  <2>2. /\ ((a \o b) \o c) \o d \in Seq(Byte) /\ Len(((a \o b) \o c) \o d) = Len(((a \o b) \o c)) + Len(d)
        /\ \A i \in 1..(Len(((a \o b) \o c)) + Len(d)) :
              (((a \o b) \o c) \o d)[i] = IF i <= Len(((a \o b) \o c)) THEN ((a \o b) \o c)[i] ELSE d[i - Len(((a \o b) \o c))]
    BY <2>1, BytesJoined
  <2> QED BY <1>4, <2>1, <2>2
<1>8. ASSUME NEW i \in 1..3 PROVE Image(f)[i] = a[i]
  <2>1. i \in 1..(3 + n) /\ i \in 1..(3 + n + 2) /\ i \in 1..(3 + n + 2 + 1)
        /\ i <= 3 /\ i <= 3 + n /\ i <= 3 + n + 2
    BY <1>1
  <2> QED BY <1>5, <1>6, <1>7, <2>1
<1>9. ASSUME NEW i \in 1..n PROVE Image(f)[3 + i] = b[i]
  <2>1. 3 + i \in 1..(3 + n) /\ 3 + i \in 1..(3 + n + 2) /\ 3 + i \in 1..(3 + n + 2 + 1)
        /\ ~ (3 + i <= 3) /\ 3 + i <= 3 + n /\ 3 + i <= 3 + n + 2 /\ (3 + i) - 3 = i
    BY <1>1
  <2> QED BY <1>5, <1>6, <1>7, <2>1
<1>10. \A i \in 1..2 : Image(f)[n + 3 + i] = c[i]
  BY <1>1, <1>5, <1>6, <1>7
<1>11. Image(f)[n + 6] = d[1]
  BY <1>1, <1>5, <1>6, <1>7
<1>12. n + 4 = n + 3 + 1 /\ n + 5 = n + 3 + 2
  BY <1>1
<1> QED BY <1>1, <1>3, <1>8, <1>9, <1>10, <1>11, <1>12 DEF b, c, n

\* What is left of image after k bytes begins what is on the line ...
AtByte(image, k, rest, w, s) ==
    /\ image \in Seq(Byte) /\ k \in 0..(Len(image) - 1) /\ rest \in Seq(Byte)
    /\ w \in Seq(Byte) /\ s \in Seq(Byte) /\ w # <<>>
    /\ w \o s = SubSeq(image, k + 1, Len(image)) \o rest

\* ... and the next byte is taken from there.
TakesByte(image, k, rest, w, s) ==
    Head(w) = image[k + 1] /\ Tail(w) \o s = SubSeq(image, k + 2, Len(image)) \o rest

LEMMA FirstByte ==
    ASSUME NEW image, NEW k, NEW rest, NEW w, NEW s, AtByte(image, k, rest, w, s)
    PROVE  TakesByte(image, k, rest, w, s)
<1>a. /\ image \in Seq(Byte) /\ k \in 0..(Len(image) - 1) /\ rest \in Seq(Byte)
      /\ w \in Seq(Byte) /\ s \in Seq(Byte) /\ w # <<>>
      /\ w \o s = SubSeq(image, k + 1, Len(image)) \o rest
  BY DEF AtByte
<1> DEFINE n == Len(image)  left == SubSeq(image, k + 1, n)  after == SubSeq(image, k + 2, n)
<1>1. n \in Nat /\ k \in Nat /\ k + 1 \in 1..(n + 1) /\ k + 2 \in 1..(n + 1)
  BY <1>a
<1>2. /\ left \in Seq(Byte) /\ Len(left) = n + 1 - (k + 1)
      /\ \A i \in 1..(n + 1 - (k + 1)) : left[i] = image[(k + 1) - 1 + i]
  BY <1>a, <1>1, BytesEnd
<1>5. /\ after \in Seq(Byte) /\ Len(after) = n + 1 - (k + 2)
      /\ \A i \in 1..(n + 1 - (k + 2)) : after[i] = image[(k + 2) - 1 + i]
  BY <1>a, <1>1, BytesEnd
<1> HIDE DEF n, left, after
<1>6. left # <<>> /\ Head(left) = image[k + 1]
  <2>1. Len(left) > 0 /\ left[1] = image[(k + 1) - 1 + 1] /\ (k + 1) - 1 + 1 = k + 1
    BY <1>1, <1>2
  <2> QED BY <1>2, <2>1
<1>7. Tail(left) = after
  <2>1. /\ Tail(left) \in Seq(Byte) /\ Len(Tail(left)) = Len(left) - 1
        /\ \A i \in 1..(Len(left) - 1) : Tail(left)[i] = left[i + 1]
    BY <1>2, <1>6
  <2>2. Len(Tail(left)) = Len(after)
    <3>1. Len(Tail(left)) = Len(left) - 1
      BY <2>1
    <3>2. Len(left) = n + 1 - (k + 1) /\ Len(after) = n + 1 - (k + 2)
      BY <1>2, <1>5
    <3>3. (n + 1 - (k + 1)) - 1 = n + 1 - (k + 2)
      BY <1>1
    <3> QED BY <3>1, <3>2, <3>3
  <2>3. ASSUME NEW i \in 1..Len(after) PROVE Tail(left)[i] = after[i]
    <3>1. i \in 1..(Len(left) - 1) /\ i + 1 \in 1..(n + 1 - (k + 1)) /\ i \in 1..(n + 1 - (k + 2))
      BY <1>1, <1>2, <1>5
    <3>2. (k + 1) - 1 + (i + 1) = (k + 2) - 1 + i
      BY <1>1
    <3> QED BY <1>2, <1>5, <2>1, <3>1, <3>2
  <2> QED BY <1>5, <2>1, <2>2, <2>3, SeqEqual
<1>3. Head(w \o s) = Head(w) /\ Tail(w \o s) = Tail(w) \o s
  BY <1>a, NonEmptyJoined
<1>4. Head(left \o rest) = Head(left) /\ Tail(left \o rest) = Tail(left) \o rest
  BY <1>a, <1>2, <1>6, NonEmptyJoined
<1>8. w \o s = left \o rest
  BY <1>a DEF left, n
<1>9. Head(w) = image[k + 1] /\ Tail(w) \o s = after \o rest
  BY <1>3, <1>4, <1>6, <1>7, <1>8
<1> QED BY <1>9 DEF TakesByte, after, n

\* The frames the README's table has all carry data (README.md of pb_serial_comm).
HasData == \A f \in Frames : f.data # <<>>

LEMMA ReceivedAssociative ==
    \A a, b, c \in Seq(Received) : a \o (b \o c) = (a \o b) \o c
BY JoinAssociative

LEMMA OwesReceived ==
    ASSUME NEW f \in Frames, NEW fs \in Seq(Frames)
    PROVE  Owes(f) \in Seq(Received) /\ Due(fs) \in Seq(Received)
<1>1. f \in Received /\ Frames \subseteq Received
  BY FramesAssumption DEF Received
<1>2. Seq(Frames) \subseteq Seq(Received)
  BY <1>1, SeqMonotonic
<1> QED BY <1>1, <1>2, OwesTyped, FramesTyped

LEMMA LeftTyped ==
    ASSUME TypeInv, pc \in InFrame, NEW f \in Frames, Reads(f)
    PROVE  /\ BytesRead \in 0..(Len(Image(f)) - 1)
           /\ Left(f) \in Seq(Byte)
<1> DEFINE n == Len(f.data)
<1>1. n \in Nat /\ Image(f) \in Seq(Byte) /\ Len(Image(f)) = n + 6
  BY ImageTyped
<1>2. Len(data) \in Nat /\ len \in Nat
  BY DEF TypeInv, TypeOK, Byte
<1>3. /\ pc = "data" => Len(data) < n
      /\ pc \in {"crc_l", "crc_h", "eof"} => Len(data) = n
  BY DEF Reads, TypeInv, Stages
<1> HIDE DEF n
<1>4. BytesRead \in 0..(n + 5)
  BY <1>1, <1>2, <1>3 DEF BytesRead, InFrame
<1>5. BytesRead \in 0..(Len(Image(f)) - 1) /\ BytesRead + 1 \in 1..(Len(Image(f)) + 1)
  BY <1>1, <1>4
<1>6. Left(f) \in Seq(Byte)
  BY <1>1, <1>5, BytesEnd DEF Left
<1> QED BY <1>5, <1>6

\* What the lower computer's steps do to the bytes under way.
LEMMA PlaceSendByte == TypeInv /\ PlaceInv /\ SendByte => PlaceInv'
<1> SUFFICES ASSUME TypeInv, PlaceInv, SendByte, aligned PROVE PlaceInv'
  BY DEF SendByte, PlaceInv
<1>1. port = "live"
  BY DEF PlaceInv
<1>2. wire' \o sending' = wire \o sending
  <2>1. wire \in Seq(Byte) /\ sending \in Seq(Byte) /\ sending # <<>>
        /\ wire' = Append(wire, Head(sending)) /\ sending' = Tail(sending)
    BY <1>1 DEF SendByte, TypeInv, TypeOK
  <2>2. Head(sending) \in Byte /\ Tail(sending) \in Seq(Byte) /\ <<Head(sending)>> \in Seq(Byte)
        /\ sending = <<Head(sending)>> \o Tail(sending)
    BY <2>1
  <2>3. Append(wire, Head(sending)) = wire \o <<Head(sending)>>
    BY <2>1, <2>2, AppendIsConcat
  <2> DEFINE a == wire  b == <<Head(sending)>>  c == Tail(sending)
  <2>4. a \in Seq(Byte) /\ b \in Seq(Byte) /\ c \in Seq(Byte)
    BY <2>1, <2>2
  <2> HIDE DEF a, b, c
  <2>5. a \o (b \o c) = (a \o b) \o c
    BY ONLY <2>4, JoinAssociative
  <2> QED BY <2>1, <2>2, <2>3, <2>5 DEF a, b, c
<1>3. UNCHANGED <<port, pc, cmd, data, len, crc, published, owed, aligned>>
  BY DEF SendByte, reader
<1>4. PICK fs \in Seq(Frames) : BetweenFrames(fs) \/ \E f \in Frames : WithinFrame(f, fs)
  BY DEF PlaceInv
<1>5. BetweenFrames(fs) => BetweenFrames(fs)'
  BY <1>2, <1>3 DEF BetweenFrames
<1>6. \A f \in Frames : WithinFrame(f, fs) => WithinFrame(f, fs)'
  BY <1>2, <1>3 DEF WithinFrame, Reads, Left, BytesRead
<1>7. BetweenFrames(fs)' \/ \E f \in Frames : WithinFrame(f, fs)'
  BY <1>4, <1>5, <1>6
<1> QED BY <1>1, <1>3, <1>7 DEF PlaceInv

LEMMA PlaceSendFrame ==
    ASSUME TypeInv, PlaceInv, NEW f \in Frames, SendFrame(f), aligned'
    PROVE  PlaceInv'
<1>1. /\ sending = <<>> /\ sending' = Image(f) /\ wire \in Seq(Byte) /\ Image(f) \in Seq(Byte)
      /\ UNCHANGED <<port, wire, pc, cmd, data, len, crc>>
  BY ImageTyped DEF SendFrame, TypeInv, TypeOK, reader
<1>2. wire \o sending = wire
  BY <1>1, ConcatEmptySeq
<1>3. published \in Seq(Received) /\ owed \in Seq(Frames) /\ Owes(f) \in Seq(Frames)
  BY OwesTyped DEF TypeInv, TypeOK, Received
<1>4. CASE aligned
  <2>1. published' = published /\ owed' = owed \o Owes(f)
    BY <1>4 DEF SendFrame
  <2>2. PICK fs \in Seq(Frames) : BetweenFrames(fs) \/ \E g \in Frames : WithinFrame(g, fs)
    BY <1>4 DEF PlaceInv
  <2> DEFINE more == Append(fs, f)
  <2>3. more \in Seq(Frames) /\ Bytes(more) = Bytes(fs) \o Image(f) /\ Due(more) = Due(fs) \o Owes(f)
    BY FramesLast
  <2>4. Bytes(fs) \in Seq(Byte) /\ Due(fs) \in Seq(Received) /\ Owes(f) \in Seq(Received)
    BY FramesTyped, OwesReceived
  <2>5. CASE BetweenFrames(fs)
    <3>1. wire' \o sending' = Bytes(more)
      BY <1>1, <1>2, <2>3, <2>5 DEF BetweenFrames
    <3>2. published' \o Due(more) = owed'
      <4>1. published \o (Due(fs) \o Owes(f)) = (published \o Due(fs)) \o Owes(f)
        BY <1>3, <2>4, ReceivedAssociative
      <4> QED BY <2>1, <2>3, <2>5, <4>1 DEF BetweenFrames
    <3>3. BetweenFrames(more)'
      BY <1>1, <2>5, <3>1, <3>2 DEF BetweenFrames
    <3> QED BY <1>1, <1>4, <2>3, <3>3 DEF PlaceInv
  <2>6. ASSUME NEW g \in Frames, WithinFrame(g, fs) PROVE PlaceInv'
    <3>1. Image(g) \in Seq(Byte) /\ Left(g) \in Seq(Byte)
      BY <2>6, LeftTyped, ImageTyped DEF WithinFrame
    <3>2. wire' \o sending' = Left(g) \o Bytes(more)
      <4>1. Left(g) \o (Bytes(fs) \o Image(f)) = (Left(g) \o Bytes(fs)) \o Image(f)
        BY ONLY <1>1, <2>4, <3>1, JoinAssociative, SMTT(40)
      <4> QED BY <1>1, <1>2, <2>3, <2>6, <4>1 DEF WithinFrame
    <3>3. published' \o (Owes(g) \o Due(more)) = owed'
      <4>1. Owes(g) \in Seq(Received) /\ Owes(g) \o Due(fs) \in Seq(Received)
        BY <2>4, OwesReceived, JoinTyped
      <4>2. Owes(g) \o (Due(fs) \o Owes(f)) = (Owes(g) \o Due(fs)) \o Owes(f)
        BY ONLY <2>4, <4>1, JoinAssociative, SMTT(40)
      <4>3. published \o ((Owes(g) \o Due(fs)) \o Owes(f)) = (published \o (Owes(g) \o Due(fs))) \o Owes(f)
        BY <1>3, <2>4, <4>1, ReceivedAssociative, SMTT(40)
      <4> QED BY <2>1, <2>3, <2>6, <4>2, <4>3 DEF WithinFrame
    <3>4. Left(g)' = Left(g) /\ Reads(g)' = Reads(g)
      BY <1>1 DEF Left, BytesRead, Reads
    <3>5. WithinFrame(g, more)'
      BY <1>1, <2>6, <3>2, <3>3, <3>4 DEF WithinFrame
    <3> QED BY <1>1, <1>4, <2>3, <3>5 DEF PlaceInv
  <2> QED BY <2>2, <2>5, <2>6
<1>5. CASE ~aligned
  <2>1. Quiet /\ published' = <<>> /\ owed' = Owes(f)
    BY <1>5 DEF SendFrame
  <2>2. wire' \o sending' = Image(f)
    BY <1>1, <2>1, ConcatEmptySeq DEF Quiet
  <2> DEFINE fs == Append(<<>>, f)
  <2>3. fs \in Seq(Frames) /\ Bytes(fs) = Bytes(<<>>) \o Image(f) /\ Due(fs) = Due(<<>>) \o Owes(f)
    BY EmptySeq, FramesLast
  <2>4. Bytes(fs) = Image(f) /\ Due(fs) = Owes(f)
    BY <1>1, <1>3, <2>3, FramesNone, ConcatEmptySeq
  <2>5. published' \o Due(fs) = owed'
    BY <1>3, <2>1, <2>4, ConcatEmptySeq
  <2> HIDE DEF fs
  <2>6. BetweenFrames(fs)'
    BY <1>1, <2>1, <2>2, <2>4, <2>5 DEF BetweenFrames, Quiet
  <2> QED BY <1>1, <2>1, <2>3, <2>6 DEF PlaceInv, Quiet
<1> QED BY <1>4, <1>5

\* A byte read within f is the next of f.
LEMMA ReadWithin ==
    ASSUME TypeInv, NEW f \in Frames, NEW fs \in Seq(Frames), WithinFrame(f, fs), ReadByte(pc)
    PROVE  /\ BytesRead \in 0..(Len(Image(f)) - 1)
           /\ Head(wire) = Image(f)[BytesRead + 1]
           /\ wire' \o sending' = SubSeq(Image(f), BytesRead + 2, Len(Image(f))) \o Bytes(fs)
<1>1. BytesRead \in 0..(Len(Image(f)) - 1)
  BY LeftTyped DEF WithinFrame
<1>2. /\ wire \in Seq(Byte) /\ sending \in Seq(Byte) /\ wire # <<>>
      /\ wire' = Tail(wire) /\ sending' = sending
  BY DEF ReadByte, KeepWorld, sender, TypeInv, TypeOK
<1>3. wire \o sending = SubSeq(Image(f), BytesRead + 1, Len(Image(f))) \o Bytes(fs)
  BY DEF WithinFrame, Left
<1>4. Image(f) \in Seq(Byte) /\ Bytes(fs) \in Seq(Byte)
  BY ImageTyped, FramesTyped
<1> DEFINE k == BytesRead  image == Image(f)  rest == Bytes(fs)
<1>5. /\ image \in Seq(Byte) /\ rest \in Seq(Byte) /\ k \in 0..(Len(image) - 1)
      /\ wire \o sending = SubSeq(image, k + 1, Len(image)) \o rest
  BY <1>1, <1>3, <1>4
<1> HIDE DEF k, image, rest
<1>6. Head(wire) = image[k + 1] /\ Tail(wire) \o sending = SubSeq(image, k + 2, Len(image)) \o rest
  <2>1. AtByte(image, k, rest, wire, sending)
    BY <1>2, <1>5 DEF AtByte
  <2>2. TakesByte(image, k, rest, wire, sending)
    BY <2>1, FirstByte
  <2> QED BY <2>2 DEF TakesByte
<1> QED BY <1>1, <1>2, <1>6 DEF k, image, rest

\* The reader goes on within f.
LEMMA ReadOn ==
    ASSUME TypeInv, NEW f \in Frames, NEW fs \in Seq(Frames), WithinFrame(f, fs), ReadByte(pc),
           UNCHANGED published, pc' \in InFrame, BytesRead' = BytesRead + 1, Reads(f)'
    PROVE  WithinFrame(f, fs)'
<1>1. BytesRead \in Nat /\ BytesRead' + 1 = BytesRead + 2
  <2>1. BytesRead \in 0..(Len(Image(f)) - 1)
    BY ReadWithin
  <2> QED BY <2>1
<1>2. wire' \o sending' = Left(f)' \o Bytes(fs)
  BY <1>1, ReadWithin DEF Left
<1>3. UNCHANGED owed
  BY DEF ReadByte, KeepWorld, sender
<1> QED BY <1>2, <1>3 DEF WithinFrame

LEMMA PlaceBegin ==
    ASSUME TypeInv, PlaceInv, ReadSof, aligned'
    PROVE  PlaceInv'
<1>1. /\ aligned /\ UNCHANGED <<port, published, owed, sending, cmd, data, len, crc>>
      /\ pc = "sof" /\ wire \in Seq(Byte) /\ sending \in Seq(Byte) /\ wire # <<>>
      /\ wire' = Tail(wire) /\ pc' = IF Head(wire) = SOF THEN "cmd" ELSE "check"
  BY DEF ReadSof, ReadByte, KeepWorld, KeepFrame, Goto, sender, TypeInv, TypeOK
<1>2. PICK fs \in Seq(Frames) : BetweenFrames(fs)
  BY <1>1 DEF PlaceInv, WithinFrame, InFrame
<1>3. fs # <<>>
  <2> SUFFICES ASSUME fs = <<>> PROVE FALSE
    OBVIOUS
  <2>1. wire \o sending = <<>>
    BY <1>2, FramesNone DEF BetweenFrames
  <2>2. Len(wire \o sending) = Len(wire) + Len(sending) /\ Len(wire) \in Nat \ {0} /\ Len(sending) \in Nat
    BY <1>1
  <2> QED BY <2>1, <2>2
<1> DEFINE f == Head(fs)  rest == Tail(fs)
<1>4. /\ f \in Frames /\ rest \in Seq(Frames)
      /\ Bytes(fs) = Image(f) \o Bytes(rest) /\ Due(fs) = Owes(f) \o Due(rest)
  BY <1>3, FramesFirst
<1> HIDE DEF f, rest
<1> DEFINE image == Image(f)  after == Bytes(rest)
<1>5. /\ image \in Seq(Byte) /\ after \in Seq(Byte)
      /\ 0 \in 0..(Len(image) - 1) /\ image[1] = SOF
  <2>1. image[1] = SOF /\ Len(image) = Len(f.data) + 6 /\ Len(f.data) \in Nat
    BY <1>4, ImageBytes
  <2>2. image \in Seq(Byte) /\ after \in Seq(Byte)
    BY <1>4, ImageTyped, FramesTyped
  <2>3. 0 \in 0..(Len(image) - 1)
    BY <2>1
  <2> QED BY <2>1, <2>2, <2>3
<1>6. wire \o sending = SubSeq(image, 0 + 1, Len(image)) \o after
  <2>1. SubSeq(image, 1, Len(image)) = image
    BY <1>5, SubSeqFull
  <2>2. wire \o sending = image \o after
    BY <1>2, <1>4 DEF BetweenFrames
  <2> HIDE DEF image, after
  <2> QED BY <2>1, <2>2
<1> HIDE DEF image, after
<1>7. Head(wire) = image[0 + 1] /\ Tail(wire) \o sending = SubSeq(image, 0 + 2, Len(image)) \o after
  <2>1. AtByte(image, 0, after, wire, sending)
    BY <1>1, <1>5, <1>6 DEF AtByte
  <2>2. TakesByte(image, 0, after, wire, sending)
    BY <2>1, FirstByte
  <2> QED BY <2>2 DEF TakesByte
<1>8. pc' = "cmd" /\ BytesRead' = 1
  BY <1>1, <1>5, <1>7 DEF BytesRead
<1>9. wire' \o sending' = Left(f)' \o Bytes(rest)
  <2>1. BytesRead' + 1 = 0 + 2
    BY <1>8
  <2>2. Left(f)' = SubSeq(image, 0 + 2, Len(image))
    BY <2>1 DEF Left, image
  <2> QED BY <1>1, <1>7, <2>2 DEF after
<1>10. published' \o (Owes(f) \o Due(rest)) = owed'
  BY <1>1, <1>2, <1>4 DEF BetweenFrames
<1>11. WithinFrame(f, rest)'
  BY <1>8, <1>9, <1>10 DEF WithinFrame, Reads, InFrame
<1> QED BY <1>1, <1>4, <1>11 DEF PlaceInv

LEMMA PlaceRead ==
    ASSUME HasData, TypeInv, PlaceInv, aligned',
           ReadCmd \/ ReadLen \/ ReadData \/ ReadCrcLow \/ ReadCrcHigh \/ ReadEof
    PROVE  PlaceInv'
<1>1. /\ aligned /\ UNCHANGED <<port, owed>> /\ pc \in InFrame /\ ReadByte(pc)
  BY DEF ReadCmd, ReadLen, ReadData, ReadCrcLow, ReadCrcHigh, ReadEof, ReadByte, KeepWorld,
         sender, InFrame
<1>2. PICK fs \in Seq(Frames) : \E f \in Frames : WithinFrame(f, fs)
  BY <1>1 DEF PlaceInv, BetweenFrames, InFrame
<1>3. PICK f \in Frames : WithinFrame(f, fs)
  BY <1>2
<1> DEFINE n == Len(f.data)  image == Image(f)
<1>4. /\ BytesRead \in 0..(Len(image) - 1) /\ Head(wire) = image[BytesRead + 1]
      /\ wire' \o sending' = SubSeq(image, BytesRead + 2, Len(image)) \o Bytes(fs)
  BY <1>1, <1>3, ReadWithin
<1>5. /\ n \in Nat /\ Len(image) = n + 6
      /\ image[1] = SOF /\ image[2] = f.cmd /\ image[3] = n
      /\ \A i \in 1..n : image[3 + i] = f.data[i]
      /\ image[n + 4] = Crc(f.cmd, f.data)[1]
      /\ image[n + 5] = Crc(f.cmd, f.data)[2]
      /\ image[n + 6] = EOF
  BY ImageBytes
<1>6. /\ Len(data) \in Nat /\ data \in Seq(Byte) /\ len \in Nat /\ crc \in Seq(Byte)
      /\ f.data \in Seq(Byte) /\ n > 0
  <2>1. f.data \in Seq(Byte) /\ f.data # <<>>
    BY ImageTyped DEF HasData
  <2> QED BY <2>1 DEF TypeInv, TypeOK, Byte
<1>7. Reads(f) /\ Stages
  BY <1>3 DEF WithinFrame, TypeInv
<1> HIDE DEF n, image
<1> SUFFICES WithinFrame(f, fs)' \/ BetweenFrames(fs)'
  BY <1>1 DEF PlaceInv
<1> USE DEF Goto, InFrame
<1>8. CASE ReadCmd
  <2>1. pc = "cmd" /\ pc' = "len" /\ cmd' = Head(wire) /\ UNCHANGED published
    BY <1>8 DEF ReadCmd, ReadByte
  <2>2. BytesRead = 1 /\ BytesRead' = 2
    BY <2>1 DEF BytesRead
  <2>3. cmd' = f.cmd
    BY <1>4, <1>5, <2>1, <2>2
  <2>4. Reads(f)'
    BY <2>1, <2>3 DEF Reads
  <2> QED BY <1>1, <1>3, <2>1, <2>2, <2>4, ReadOn
<1>9. CASE ReadLen
  <2>1. /\ pc = "len" /\ len' = Head(wire) /\ data' = <<>> /\ UNCHANGED <<published, cmd>>
        /\ pc' = IF Head(wire) = 0 THEN "check" ELSE "data"
    BY <1>9 DEF ReadLen, ReadByte
  <2>2. BytesRead = 2
    BY <2>1 DEF BytesRead
  <2>3. Head(wire) = n
    BY <1>4, <1>5, <2>2
  <2>4. pc' = "data" /\ len' = n /\ Len(data') = 0
    BY <1>6, <2>1, <2>3
  <2>5. BytesRead' = 3
    BY <2>4 DEF BytesRead
  <2>6. Reads(f)'
    <3>1. \A i \in 1..Len(data') : data'[i] = f.data[i]
      BY <2>4
    <3> QED BY <1>7, <2>1, <2>4, <3>1 DEF Reads, n
  <2> QED BY <1>1, <1>3, <2>1, <2>2, <2>4, <2>5, <2>6, ReadOn
<1>10. CASE ReadData
  <2>1. /\ pc = "data" /\ data' = Append(data, Head(wire)) /\ UNCHANGED <<published, cmd, len>>
        /\ pc' = IF Len(data) + 1 = len THEN "crc_l" ELSE "data"
    BY <1>10 DEF ReadData, ReadByte
  <2>2. /\ len = n /\ \A i \in 1..Len(data) : data[i] = f.data[i]
        /\ Len(data) < n /\ cmd = f.cmd
    BY <1>7, <2>1 DEF Reads, Stages, n
  <2>3. BytesRead = 3 + Len(data)
    BY <1>6, <2>1 DEF BytesRead
  <2>4. Head(wire) = f.data[Len(data) + 1]
    <3>1. Len(data) + 1 \in 1..n /\ 3 + (Len(data) + 1) = BytesRead + 1
      BY <1>5, <1>6, <2>2, <2>3
    <3> QED BY <1>4, <1>5, <3>1
  <2>5. /\ Len(data') = Len(data) + 1
        /\ \A i \in 1..(Len(data) + 1) : data'[i] = IF i = Len(data) + 1 THEN Head(wire) ELSE data[i]
    BY <1>6, <2>1
  <2>6. \A i \in 1..Len(data') : data'[i] = f.data[i]
    BY <1>6, <2>2, <2>4, <2>5, SMTT(40)
  <2>7. pc' \in {"crc_l", "data"} /\ BytesRead' = BytesRead + 1
    BY <1>6, <2>1, <2>3, <2>5 DEF BytesRead
  <2>8. Reads(f)'
    BY <2>1, <2>2, <2>6, <2>7 DEF Reads, n
  <2> QED BY <1>1, <1>3, <2>1, <2>7, <2>8, ReadOn
<1>11. CASE ReadCrcLow
  <2>1. /\ pc = "crc_l" /\ pc' = "crc_h" /\ crc' = <<Head(wire)>>
        /\ UNCHANGED <<published, cmd, data, len>>
    BY <1>11 DEF ReadCrcLow, ReadByte
  <2>2. Len(data) = n /\ BytesRead = 3 + n /\ BytesRead' = 4 + n
    BY <1>5, <1>7, <2>1 DEF BytesRead, Stages, Reads, n
  <2>3. Head(wire) = Crc(f.cmd, f.data)[1]
    <3>1. BytesRead + 1 = n + 4
      BY <1>5, <2>2
    <3> QED BY <1>4, <1>5, <3>1
  <2>4. \A i \in 1..Len(crc') : crc'[i] = Crc(f.cmd, f.data)[i]
    BY <2>1, <2>3
  <2>5. Reads(f)'
    BY <1>7, <2>1, <2>4 DEF Reads
  <2>6. BytesRead' = BytesRead + 1
    BY <1>5, <2>2
  <2> QED BY <1>1, <1>3, <2>1, <2>5, <2>6, ReadOn
<1>12. CASE ReadCrcHigh
  <2>1. /\ pc = "crc_h" /\ pc' = "eof" /\ crc' = Append(crc, Head(wire))
        /\ UNCHANGED <<published, cmd, data, len>>
    BY <1>12 DEF ReadCrcHigh, ReadByte
  <2>2. /\ Len(data) = n /\ BytesRead = 3 + n + 1 /\ BytesRead' = 3 + n + 2
        /\ Len(crc) = 1 /\ crc[1] = Crc(f.cmd, f.data)[1]
    <3>1. Len(crc) = 1 /\ \A i \in 1..Len(crc) : crc[i] = Crc(f.cmd, f.data)[i]
      BY <1>7, <2>1 DEF Stages, Reads
    <3>2. Len(data) = n /\ BytesRead = 3 + n + 1 /\ BytesRead' = 3 + n + 2
      BY <1>5, <1>7, <2>1 DEF BytesRead, Stages, Reads, n
    <3> QED BY <3>1, <3>2
  <2>3. Head(wire) = Crc(f.cmd, f.data)[2]
    <3>1. BytesRead + 1 = n + 5
      BY <1>5, <2>2
    <3> QED BY <1>4, <1>5, <3>1
  <2>4. Len(crc') = 2 /\ crc'[1] = crc[1] /\ crc'[2] = Head(wire)
    <3>1. Len(Append(crc, Head(wire))) = Len(crc) + 1
          /\ \A i \in 1..(Len(crc) + 1) :
                Append(crc, Head(wire))[i] = IF i = Len(crc) + 1 THEN Head(wire) ELSE crc[i]
      BY <1>6
    <3> QED BY <2>1, <2>2, <3>1
  <2>5. \A i \in 1..Len(crc') : crc'[i] = Crc(f.cmd, f.data)[i]
    BY <2>2, <2>3, <2>4
  <2>6. Reads(f)'
    BY <1>7, <2>1, <2>5 DEF Reads
  <2>7. BytesRead' = BytesRead + 1
    BY <1>5, <2>2
  <2> QED BY <1>1, <1>3, <2>1, <2>6, <2>7, ReadOn
<1>13. CASE ReadEof
  <2>1. /\ pc = "eof" /\ pc' = "check"
        /\ published' = IF Head(wire) = EOF /\ crc = Crc(cmd, data)
                        THEN published \o Owes([cmd |-> cmd, data |-> data]) ELSE published
    BY <1>13 DEF ReadEof, ReadByte
  <2>2. /\ cmd = f.cmd /\ Len(data) = n /\ \A i \in 1..n : data[i] = f.data[i]
        /\ Len(crc) = 2 /\ \A i \in 1..2 : crc[i] = Crc(f.cmd, f.data)[i]
    BY <1>7, <2>1 DEF Stages, Reads, n
  <2>3. data = f.data
    BY <1>6, <2>2, SeqEqual DEF n
  <2>4. crc = Crc(cmd, data)
    <3>1. Crc(f.cmd, f.data) \in Seq(Byte) /\ Len(Crc(f.cmd, f.data)) = 2
      BY ImageTyped
    <3>2. crc = Crc(f.cmd, f.data)
      BY <1>6, <2>2, <3>1, SeqEqual, SMTT(40)
    <3> QED BY <2>2, <2>3, <3>2
  <2>5. BytesRead + 1 = n + 6
    BY <1>5, <2>1, <2>2 DEF BytesRead
  <2>6. Head(wire) = EOF
    BY <1>4, <1>5, <2>5
  <2>7. [cmd |-> cmd, data |-> data] = f
    <3>1. f \in [cmd : Byte, data : Seq(Byte)]
      BY FramesAssumption
    <3> QED BY <2>2, <2>3, <3>1
  <2>8. published' = published \o Owes(f)
    BY <2>1, <2>4, <2>6, <2>7
  <2>9. published' \o Due(fs) = owed'
    <3>1. published \in Seq(Received) /\ Owes(f) \in Seq(Received) /\ Due(fs) \in Seq(Received)
      BY OwesReceived DEF TypeInv, TypeOK, Received
    <3>2. published \o (Owes(f) \o Due(fs)) = (published \o Owes(f)) \o Due(fs)
      BY <3>1, ReceivedAssociative
    <3> QED BY <1>1, <1>3, <2>8, <3>2 DEF WithinFrame
  <2>10. wire' \o sending' = Bytes(fs)
    <3>1. BytesRead + 2 = Len(image) + 1
      BY <1>4, <1>5, <2>5
    <3>2. SubSeq(image, Len(image) + 1, Len(image)) = <<>>
      BY <1>5
    <3>3. Bytes(fs) \in Seq(Byte)
      BY FramesTyped
    <3> QED BY <1>4, <3>1, <3>2, <3>3, ConcatEmptySeq
  <2> QED BY <2>1, <2>9, <2>10 DEF BetweenFrames
<1> QED BY <1>8, <1>9, <1>10, <1>11, <1>12, <1>13

LEMMA PlaceStep == HasData /\ TypeInv /\ PlaceInv /\ [Next]_vars => PlaceInv'
<1> SUFFICES ASSUME HasData, TypeInv, PlaceInv, [Next]_vars, aligned' PROVE PlaceInv'
  BY DEF PlaceInv
<1> USE DEF reader, sender, Goto, KeepFrame, KeepWorld
<1>1. ASSUME NEW f \in Frames, SendFrame(f) PROVE PlaceInv'
  BY <1>1, PlaceSendFrame
<1>2. CASE SendByte
  BY <1>2, PlaceSendByte
<1>3. CASE DamageByte \/ Unplug \/ JoinAndClose
  BY <1>3 DEF DamageByte, Unplug, JoinAndClose
<1>4. ASSUME UNCHANGED <<port, wire, sending, published, owed>>, aligned,
             \/ UNCHANGED <<pc, cmd, data, len, crc>>
             \/ pc \in {"check", "sof", "stopped"} /\ pc' \in {"check", "sof", "stopped"}
      PROVE  PlaceInv'
  <2>1. PICK fs \in Seq(Frames) : BetweenFrames(fs) \/ \E f \in Frames : WithinFrame(f, fs)
    BY <1>4 DEF PlaceInv
  <2>2. BetweenFrames(fs) => BetweenFrames(fs)'
    BY <1>4 DEF BetweenFrames
  <2>3. ASSUME NEW f \in Frames, WithinFrame(f, fs) PROVE WithinFrame(f, fs)'
    <3>1. UNCHANGED <<pc, cmd, data, len, crc>>
      BY <1>4, <2>3 DEF WithinFrame, InFrame
    <3> QED BY <1>4, <2>3, <3>1 DEF WithinFrame, Reads, Left, BytesRead
  <2>4. BetweenFrames(fs)' \/ \E f \in Frames : WithinFrame(f, fs)'
    BY <2>1, <2>2, <2>3
  <2> QED BY <1>4, <2>4 DEF PlaceInv
<1>5. CASE Plug \/ StopRunning
  BY <1>4, <1>5 DEF Plug, StopRunning
<1>6. CASE Stop \/ AlreadyOpen
  BY <1>4, <1>6 DEF Stop, AlreadyOpen
<1>7. CASE OpenPort \/ Configure \/ OpenFails \/ WakeUp
  BY <1>7 DEF OpenPort, Configure, OpenFails, WakeUp, PlaceInv, BetweenFrames, WithinFrame,
              InFrame, TypeInv, Stages
<1>8. CASE ReadFails
  BY <1>4, <1>8 DEF ReadFails
<1>9. CASE ReadSof
  BY <1>9, PlaceBegin
<1>10. CASE ReadCmd \/ ReadLen \/ ReadData \/ ReadCrcLow \/ ReadCrcHigh \/ ReadEof
  BY <1>10, PlaceRead
<1>11. CASE UNCHANGED vars
  BY <1>4, <1>11 DEF vars
<1> QED BY <1>1, <1>2, <1>3, <1>5, <1>6, <1>7, <1>8, <1>9, <1>10, <1>11 DEF Next, Receive

LEMMA PlaceSound == TypeInv /\ PlaceInv => AlignedFramesPublished
<1> SUFFICES ASSUME TypeInv, PlaceInv, aligned
             PROVE  IsPrefix(published, owed) /\ (Quiet => published = owed)
  BY DEF AlignedFramesPublished
<1>1. PICK fs \in Seq(Frames) : BetweenFrames(fs) \/ \E f \in Frames : WithinFrame(f, fs)
  BY DEF PlaceInv
<1>2. published \in Seq(Received) /\ Due(fs) \in Seq(Received)
  <2>1. Due(fs) \in Seq(Frames) /\ Frames \subseteq Received
    BY FramesTyped, FramesAssumption DEF Received
  <2>2. Seq(Frames) \subseteq Seq(Received)
    BY <2>1, SeqMonotonic
  <2> QED BY <2>1, <2>2 DEF TypeInv, TypeOK, Received
<1>3. \E u \in Seq(Received) : published \o u = owed
  <2>1. ASSUME NEW f \in Frames PROVE Owes(f) \o Due(fs) \in Seq(Received)
    BY OwesReceived, JoinTyped
  <2> QED BY <1>1, <1>2, <2>1 DEF BetweenFrames, WithinFrame
<1>4. IsPrefix(published, owed)
  <2>1. PICK u \in Seq(Received) : published \o u = owed
    BY <1>3
  <2>2. /\ Len(owed) = Len(published) + Len(u) /\ Len(published) \in Nat /\ Len(u) \in Nat
        /\ SubSeq(published \o u, 1, Len(published)) = published
    BY <1>2, <2>1, SubSeqOfConcat1, SubSeqFull
  <2> QED BY <2>1, <2>2 DEF IsPrefix
<1>5. ASSUME Quiet PROVE published = owed
  <2>1. BetweenFrames(fs) /\ wire \o sending = <<>>
    BY <1>1, <1>5, ConcatEmptySeq DEF Quiet, WithinFrame, InFrame
  <2>2. fs = <<>>
    <3> SUFFICES ASSUME fs # <<>> PROVE FALSE
      OBVIOUS
    <3> DEFINE f == Head(fs)  rest == Tail(fs)
    <3>1. f \in Frames /\ rest \in Seq(Frames) /\ Bytes(fs) = Image(f) \o Bytes(rest)
      BY FramesFirst
    <3>2. Image(f) \in Seq(Byte) /\ Len(Image(f)) = Len(f.data) + 6 /\ Len(f.data) \in Nat
          /\ Bytes(rest) \in Seq(Byte) /\ Len(Bytes(rest)) \in Nat
      <4>1. Bytes(rest) \in Seq(Byte)
        BY <3>1, FramesTyped
      <4> QED BY <3>1, <4>1, ImageTyped, ImageBytes
    <3> HIDE DEF f, rest
    <3>3. Len(Bytes(fs)) = Len(f.data) + 6 + Len(Bytes(rest))
      BY <3>1, <3>2, LenJoined
    <3> QED BY <2>1, <3>2, <3>3 DEF BetweenFrames
  <2> QED BY <1>2, <2>1, <2>2, FramesNone, ConcatEmptySeq DEF BetweenFrames
<1> QED BY <1>4, <1>5

\* The type invariant, for any frames, faults and plugging.
THEOREM LinkTypes == Spec => []TypeOK
<1>1. TypeInv => TypeOK
  BY DEF TypeInv
<1> QED BY <1>1, TypeInit, TypeStep, PTL DEF Spec

\* For any frames that carry data, whatever bytes they and their checksums are made
\* of, and whatever happens to the line before: from a frame that finds the line
\* quiet on, every frame is published, once and in order (serial_comm_node.cpp:139-202).
THEOREM AlignedFramesGetThrough ==
    ASSUME HasData
    PROVE  Spec => []AlignedFramesPublished
<1>1. Init => TypeInv /\ PlaceInv
  BY TypeInit DEF Init, PlaceInv
<1>2. TypeInv /\ PlaceInv /\ [Next]_vars => (TypeInv /\ PlaceInv)'
  BY TypeStep, PlaceStep
<1>3. TypeInv /\ PlaceInv => AlignedFramesPublished
  BY PlaceSound
<1> QED BY <1>1, <1>2, <1>3, PTL DEF Spec

=============================================================================
