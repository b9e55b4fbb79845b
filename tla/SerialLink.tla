----------------------------- MODULE SerialLink -----------------------------
(***************************************************************************)
(* The receiving side of pb_serial_comm: the thread of                     *)
(* SerialCommNode::receiveLoop opens the serial port, retries while the    *)
(* device is missing, reads frames from it byte by byte and publishes      *)
(* those that check out, until the destructor tells it to stop.  The lower *)
(* computer and the line, which loses and corrupts bytes, are the          *)
(* environment; so is the hand that pulls the plug.                        *)
(*                                                                         *)
(* A frame is SOF, command, length, data, two bytes of CRC, EOF.           *)
(***************************************************************************)
EXTENDS Integers, Sequences, SequencesExt

CONSTANTS Frames,     \* the frames the lower computer sends: [cmd, data]
          Corrupt,    \* the values a corrupted byte can take
          SOF, EOF,   \* FRAME_SOF, FRAME_EOF
          Crc(_, _),  \* the CRC of a command and its data, low byte first
          Lengths,    \* Lengths[cmd]: data lengths handleFrame takes for cmd
          MaxFrames,  \* bound: frames sent
          MaxFaults,  \* bound: bytes lost or corrupted
          MaxUnplugs  \* bound: times the plug is pulled

Byte == 0..255

ASSUME ByteAssumption == SOF \in Byte /\ EOF \in Byte /\ SOF # EOF /\ Corrupt \subseteq Byte
\* What packFrame can send: the length is one byte.
ASSUME FramesAssumption ==
    /\ Frames \subseteq [cmd : Byte, data : Seq(Byte)]
    /\ \A f \in Frames : /\ Len(f.data) \in Byte
                         /\ Crc(f.cmd, f.data) \in Seq(Byte) /\ Len(Crc(f.cmd, f.data)) = 2
ASSUME BoundsAssumption == MaxFrames \in Nat /\ MaxFaults \in Nat /\ MaxUnplugs \in Nat

VARIABLES plugged,    \* the device file exists
          port,       \* closed, opened (its options not set), live, or dead:
                      \* open on a device that has gone
          wire,       \* bytes sent and not read
          pc,         \* where receiveLoop is: at the byte it reads next
          cmd, data, len, crc,    \* what it has read of the frame
          running,    \* running_
          main,       \* where the destructor is
          published,  \* history: frames published since the line was aligned
          sending,    \* the lower computer's bytes of the frame under way
          owed,       \* history: frames begun since then that handleFrame takes
          aligned,    \* history: reader and sender agree where frames begin
          frames, faults, unplugs \* counters for the bounds

reader == <<pc, cmd, data, len, crc>>
sender == <<sending, owed, frames>>
vars == <<plugged, port, wire, reader, running, main, published, sender, aligned,
          faults, unplugs>>

\* packFrame.
Image(f) == <<SOF, f.cmd, Len(f.data)>> \o f.data \o Crc(f.cmd, f.data) \o <<EOF>>

\* handleFrame publishes known commands of the right length.
Publishes(c, d) == c \in DOMAIN Lengths /\ Len(d) \in Lengths[c]

\* What is published of a frame that checks out.
Owes(f) == IF Publishes(f.cmd, f.data) THEN <<f>> ELSE <<>>

Init ==
    /\ plugged \in BOOLEAN /\ port = "closed" /\ wire = <<>>
    /\ pc = "check" /\ cmd = SOF /\ data = <<>> /\ len = 0 /\ crc = <<>>
    /\ running = TRUE /\ main = "running"
    /\ published = <<>> /\ sending = <<>> /\ owed = <<>> /\ aligned = FALSE
    /\ frames = 0 /\ faults = 0 /\ unplugs = 0

-----------------------------------------------------------------------------
(* The lower computer and the line.                                         *)

\* The line is quiet and the reader waits for a frame to begin.
Quiet == wire = <<>> /\ sending = <<>> /\ port = "live" /\ pc \in {"check", "sof"}

\* A frame is begun.  It aligns the line if the line was quiet.
SendFrame(f) ==
    /\ frames < MaxFrames /\ sending = <<>> /\ plugged
    /\ frames' = frames + 1
    /\ sending' = Image(f)
    /\ aligned' = (aligned \/ Quiet)
    /\ owed' = IF aligned THEN owed \o Owes(f) ELSE Owes(f)
    /\ published' = IF aligned THEN published ELSE <<>>
    /\ UNCHANGED <<plugged, port, wire, reader, running, main, faults, unplugs>>

\* A byte is sent: it is lost when the port is not open for it.
SendByte ==
    /\ sending # <<>> /\ plugged
    /\ sending' = Tail(sending)
    /\ wire' = IF port = "live" THEN Append(wire, Head(sending)) ELSE wire
    /\ UNCHANGED <<plugged, port, reader, running, main, published, owed, aligned,
                   frames, faults, unplugs>>

\* The line loses a byte or changes it.
DamageByte ==
    /\ sending # <<>> /\ plugged /\ port = "live" /\ faults < MaxFaults
    /\ sending' = Tail(sending)
    /\ wire' = wire \/ \E b \in Corrupt \ {Head(sending)} : wire' = Append(wire, b)
    /\ faults' = faults + 1
    /\ aligned' = FALSE
    /\ UNCHANGED <<plugged, port, reader, running, main, published, owed, frames, unplugs>>

Unplug ==
    /\ plugged /\ unplugs < MaxUnplugs
    /\ plugged' = FALSE
    /\ port' = IF port = "closed" THEN port ELSE "dead"
    /\ wire' = <<>> /\ sending' = <<>>
    /\ aligned' = FALSE
    /\ unplugs' = unplugs + 1
    /\ UNCHANGED <<reader, running, main, published, owed, frames, faults>>

Plug ==
    /\ ~plugged
    /\ plugged' = TRUE
    /\ UNCHANGED <<port, wire, reader, running, main, published, sender, aligned,
                   faults, unplugs>>

-----------------------------------------------------------------------------
(* receiveLoop.                                                             *)

Goto(to) == pc' = to
KeepFrame == UNCHANGED <<cmd, data, len, crc>>
KeepWorld == UNCHANGED <<plugged, running, main, sender, faults, unplugs>>

Stop ==
    /\ pc = "check" /\ ~running
    /\ Goto("stopped")
    /\ UNCHANGED <<port, wire, published, aligned>> /\ KeepFrame /\ KeepWorld

AlreadyOpen ==
    /\ pc = "check" /\ running /\ port # "closed"
    /\ Goto("sof")
    /\ UNCHANGED <<port, wire, published, aligned>> /\ KeepFrame /\ KeepWorld

\* port_->open succeeds; the options are set next.
OpenPort ==
    /\ pc = "check" /\ running /\ port = "closed" /\ plugged
    /\ port' = "opened"
    /\ Goto("configure")
    /\ UNCHANGED <<wire, published, aligned>> /\ KeepFrame /\ KeepWorld

\* set_option fails on a device that has gone, and open() closes the port.
Configure ==
    /\ pc = "configure"
    /\ IF port = "opened" THEN port' = "live" /\ Goto("sof")
                          ELSE port' = "closed" /\ Goto("sleep")
    /\ UNCHANGED <<wire, published, aligned>> /\ KeepFrame /\ KeepWorld

\* Mutant: a failed open ends the thread.
OpenFailsForGood ==
    /\ pc = "check" /\ running /\ port = "closed" /\ ~plugged
    /\ Goto("stopped")
    /\ UNCHANGED <<port, wire, published, aligned>> /\ KeepFrame /\ KeepWorld

\* Without the device the thread sleeps two seconds and tries again.
OpenFails ==
    /\ pc = "check" /\ running /\ port = "closed" /\ ~plugged
    /\ Goto("sleep")
    /\ UNCHANGED <<port, wire, published, aligned>> /\ KeepFrame /\ KeepWorld

WakeUp ==
    /\ pc = "sleep"
    /\ Goto("check")
    /\ UNCHANGED <<port, wire, published, aligned>> /\ KeepFrame /\ KeepWorld

\* readByte succeeds at stage p: the byte is Head(wire).
ReadByte(p) ==
    /\ pc = p /\ port = "live" /\ wire # <<>>
    /\ wire' = Tail(wire)
    /\ UNCHANGED <<port, aligned>> /\ KeepWorld

\* Mutant: a timeout before a frame waits on without looking at running_.
ReadFailsDeaf ==
    /\ pc \in {"sof", "cmd", "len", "data", "crc_l", "crc_h", "eof"}
    /\ port = "dead" \/ wire = <<>>
    /\ Goto(IF pc = "sof" THEN "sof" ELSE "check")
    /\ aligned' = (aligned /\ pc = "sof")
    /\ UNCHANGED <<port, wire, published>> /\ KeepFrame /\ KeepWorld

\* readByte fails: nothing arrived in time, or the device has gone.  Whatever
\* was read of the frame is given up; the port stays open.
ReadFails ==
    /\ pc \in {"sof", "cmd", "len", "data", "crc_l", "crc_h", "eof"}
    /\ port = "dead" \/ wire = <<>>
    /\ Goto("check")
    /\ aligned' = (aligned /\ pc = "sof")
    /\ UNCHANGED <<port, wire, published>> /\ KeepFrame /\ KeepWorld

\* Bytes that are not SOF are skipped.
ReadSof ==
    /\ ReadByte("sof")
    /\ Goto(IF Head(wire) = SOF THEN "cmd" ELSE "check")
    /\ UNCHANGED published /\ KeepFrame

ReadCmd ==
    /\ ReadByte("cmd")
    /\ cmd' = Head(wire)
    /\ Goto("len")
    /\ UNCHANGED <<published, data, len, crc>>

\* A frame without data is given up right after its length.
ReadLen ==
    /\ ReadByte("len")
    /\ len' = Head(wire) /\ data' = <<>>
    /\ Goto(IF Head(wire) = 0 THEN "check" ELSE "data")
    /\ UNCHANGED <<published, cmd, crc>>

\* Mutant: the loop over the data ends one byte early.
ReadDataShort ==
    /\ ReadByte("data")
    /\ data' = Append(data, Head(wire))
    /\ Goto(IF Len(data) + 1 >= len - 1 THEN "crc_l" ELSE "data")
    /\ UNCHANGED <<published, cmd, len, crc>>

\* Mutant: the loop over the data ends one byte late.
ReadDataLong ==
    /\ ReadByte("data")
    /\ data' = Append(data, Head(wire))
    /\ Goto(IF Len(data) = len THEN "crc_l" ELSE "data")
    /\ UNCHANGED <<published, cmd, len, crc>>

ReadData ==
    /\ ReadByte("data")
    /\ data' = Append(data, Head(wire))
    /\ Goto(IF Len(data) + 1 = len THEN "crc_l" ELSE "data")
    /\ UNCHANGED <<published, cmd, len, crc>>

ReadCrcLow ==
    /\ ReadByte("crc_l")
    /\ crc' = <<Head(wire)>>
    /\ Goto("crc_h")
    /\ UNCHANGED <<published, cmd, data, len>>

ReadCrcHigh ==
    /\ ReadByte("crc_h")
    /\ crc' = Append(crc, Head(wire))
    /\ Goto("eof")
    /\ UNCHANGED <<published, cmd, data, len>>

\* Mutant: the CRC is not compared.
ReadEofUnchecked ==
    /\ ReadByte("eof")
    /\ Goto("check")
    /\ published' = IF Head(wire) = EOF
                    THEN published \o Owes([cmd |-> cmd, data |-> data]) ELSE published
    /\ KeepFrame

\* The last byte: if it is EOF and the CRC is right, handleFrame gets the frame.
ReadEof ==
    /\ ReadByte("eof")
    /\ Goto("check")
    /\ published' = IF Head(wire) = EOF /\ crc = Crc(cmd, data)
                    THEN published \o Owes([cmd |-> cmd, data |-> data]) ELSE published
    /\ KeepFrame

-----------------------------------------------------------------------------
(* The destructor of SerialCommNode.                                        *)

StopRunning ==
    /\ main = "running"
    /\ running' = FALSE /\ main' = "join"
    /\ UNCHANGED <<plugged, port, wire, reader, published, sender, aligned, faults, unplugs>>

JoinAndClose ==
    /\ main = "join" /\ pc = "stopped"
    /\ main' = "destroyed"
    /\ port' = "closed" /\ wire' = <<>> /\ aligned' = FALSE
    /\ UNCHANGED <<plugged, reader, running, published, sender, faults, unplugs>>

-----------------------------------------------------------------------------
Receive == \/ Stop \/ AlreadyOpen \/ OpenPort \/ Configure \/ OpenFails \/ WakeUp
           \/ ReadFails \/ ReadSof \/ ReadCmd \/ ReadLen \/ ReadData
           \/ ReadCrcLow \/ ReadCrcHigh \/ ReadEof

Next == \/ \E f \in Frames : SendFrame(f)
        \/ SendByte \/ DamageByte \/ Unplug \/ Plug
        \/ Receive \/ StopRunning \/ JoinAndClose

Spec == Init /\ [][Next]_vars

\* The thread runs, and the destructor, once it has begun, goes on.
FairSpec == Spec /\ WF_vars(Receive) /\ WF_vars(JoinAndClose)

-----------------------------------------------------------------------------
TypeOK ==
    /\ plugged \in BOOLEAN /\ running \in BOOLEAN /\ aligned \in BOOLEAN
    /\ port \in {"closed", "opened", "live", "dead"}
    /\ pc \in {"check", "sleep", "configure", "sof", "cmd", "len", "data", "crc_l", "crc_h",
               "eof", "stopped"}
    /\ wire \in Seq(Byte) /\ sending \in Seq(Byte)
    /\ cmd \in Byte /\ len \in Byte /\ data \in Seq(Byte)
    /\ crc \in Seq(Byte) /\ Len(crc) <= 2
    /\ pc \in {"data", "crc_l"} => Len(data) <= len
    /\ main \in {"running", "join", "destroyed"}
    /\ published \in Seq([cmd : Byte, data : Seq(Byte)]) /\ owed \in Seq(Frames)
    /\ frames \in 0..MaxFrames /\ faults \in 0..MaxFaults /\ unplugs \in 0..MaxUnplugs

\* From a frame that finds the line quiet on, every frame is published, once and
\* in order, with the line quiet again when all are: no byte pattern in a frame
\* makes receiveLoop lose its place.  Losing it takes a lost or corrupted byte
\* or a gap inside a frame, and the next pause ends that.
AlignedFramesPublished ==
    aligned => /\ IsPrefix(published, owed)
               /\ Quiet => published = owed

\* Out of step too, nothing is published that was not sent.
OnlySentFramesPublished ==
    \A i \in 1..Len(published) : published[i] \in Frames

\* Types, and no frame that was not sent.
LinkSound == TypeOK /\ OnlySentFramesPublished

\* With the plug in, the port gets connected.  The README of pb_serial_comm
\* promises it for a port that is not plugged in (README.md:58).
ConnectsWhenPlugged == plugged ~> (port = "live" \/ ~plugged \/ ~running)

\* A port that is closed gets connected when its device appears, also when the
\* plug is pulled between open and set_option (serial_port.cpp:43).
ClosedPortConnects ==
    plugged /\ port = "closed" ~> (port = "live" \/ ~plugged \/ ~running)

\* The destructor returns: the thread sees running_ whatever the line does.
DestructorReturns == ~running ~> main = "destroyed"
=============================================================================
