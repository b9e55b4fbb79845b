------------------------------- MODULE OdinRecord -------------------------------
(***************************************************************************)
(* The recording of the odin driver: BinaryDataLogger's writer of one file   *)
(* (the five are alike), the callbacks that number frames and hand them to   *)
(* it, and the list of extrinsics in calib_online.yaml.                      *)
(*                                                                         *)
(* A section under the writer's mutex is one step.  A frame is its number.   *)
(***************************************************************************)
EXTENDS Integers, Sequences, SequencesExt

CONSTANTS Callbacks,    \* threads of the SDK that deliver frames
          batch_size,
          MaxFrames     \* bound: frames and extrinsics taken

VARIABLES cloud_index_,   \* numbers given
          holds,          \* the number a callback has for the frame it makes
          pending, write_queue, stop,
          worker, batch,  \* where the writer's thread is, and what it writes
          opened, file,   \* the file could be opened, what is in it
          logger,         \* up, shutting down, or gone
          enqueued,       \* the frames handed over before the shutdown
          index_count, wcwi_index_, online   \* of calib_online.yaml, and what is in it

writer == <<pending, write_queue, stop>>
thread == <<worker, batch, opened, file>>
rotations == <<index_count, wcwi_index_, online>>
vars == <<cloud_index_, holds, writer, thread, logger, enqueued, rotations>>

NoFrame == -1

Init ==
    /\ cloud_index_ = 0 /\ holds = [c \in Callbacks |-> NoFrame]
    /\ pending = <<>> /\ write_queue = <<>> /\ stop = FALSE
    /\ worker = "open" /\ batch = <<>> /\ opened = FALSE /\ file = <<>>
    /\ logger = "up" /\ enqueued = <<>>
    /\ index_count = 0 /\ wcwi_index_ = 0 /\ online = <<>>

-----------------------------------------------------------------------------
(* The callbacks.                                                           *)

\* A cloud gets its number; one without points is not recorded.
TakeIndex(c, points) ==
    /\ logger = "up" /\ holds[c] = NoFrame /\ cloud_index_ < MaxFrames /\ points > 0
    /\ holds' = [holds EXCEPT ![c] = cloud_index_] /\ cloud_index_' = cloud_index_ + 1
    /\ UNCHANGED <<writer, thread, logger, enqueued, rotations>>

\* Mutant: a full batch starts the next one with its last frame.
SwapKeepingLast(frames) ==
    IF Len(frames) >= batch_size
    THEN /\ pending' = <<Last(frames)>> /\ write_queue' = Append(write_queue, frames)
    ELSE pending' = frames /\ UNCHANGED write_queue

\* Mutant: a batch is full one frame later.
SwapLate(frames) ==
    IF Len(frames) > batch_size
    THEN /\ pending' = <<>> /\ write_queue' = Append(write_queue, frames)
    ELSE pending' = frames /\ UNCHANGED write_queue

\* A full batch is queued for the thread.
SwapPending(frames) ==
    IF Len(frames) >= batch_size
    THEN /\ pending' = <<>> /\ write_queue' = Append(write_queue, frames)
    ELSE pending' = frames /\ UNCHANGED write_queue

\* The frame, made meanwhile, is handed over.
enqueue(c) ==
    /\ holds[c] # NoFrame /\ logger # "gone"
    /\ SwapPending(Append(pending, holds[c]))
    /\ enqueued' = IF stop THEN enqueued ELSE Append(enqueued, holds[c])
    /\ holds' = [holds EXCEPT ![c] = NoFrame]
    /\ UNCHANGED <<cloud_index_, stop, thread, logger, rotations>>

\* Mutant: extrinsics that could not be written are counted.
recordrotate_counted(opens) ==
    /\ logger = "up" /\ wcwi_index_ < MaxFrames
    /\ wcwi_index_' = wcwi_index_ + 1
    /\ online' = IF ~opens THEN online
                 ELSE Append(IF index_count = 0 THEN <<>> ELSE online, index_count)
    /\ index_count' = index_count + 1
    /\ UNCHANGED <<cloud_index_, holds, writer, thread, logger, enqueued>>

\* Extrinsics: numbered for their writer, and added to calib_online.yaml, which
\* the first of them starts.
recordrotate(opens) ==
    /\ logger = "up" /\ wcwi_index_ < MaxFrames
    /\ wcwi_index_' = wcwi_index_ + 1
    /\ IF opens
       THEN /\ online' = Append(IF index_count = 0 THEN <<>> ELSE online, index_count)
            /\ index_count' = index_count + 1
       ELSE UNCHANGED <<online, index_count>>
    /\ UNCHANGED <<cloud_index_, holds, writer, thread, logger, enqueued>>

-----------------------------------------------------------------------------
(* The thread.                                                              *)

Idle == UNCHANGED <<cloud_index_, holds, writer, logger, enqueued, rotations>>

OpenFile(opens) ==
    /\ worker = "open" /\ opened' = opens
    /\ worker' = IF opens THEN "wait" ELSE "ended"
    /\ UNCHANGED <<batch, file>> /\ Idle

\* Mutant: a thread told to stop does.
TakeBatchUnlessStopped ==
    /\ worker = "wait" /\ (stop \/ write_queue # <<>>)
    /\ IF ~stop
       THEN /\ batch' = Head(write_queue) /\ write_queue' = Tail(write_queue)
            /\ worker' = "write"
       ELSE worker' = "ended" /\ UNCHANGED <<batch, write_queue>>
    /\ UNCHANGED <<cloud_index_, holds, pending, stop, opened, file, logger, enqueued, rotations>>

\* It wakes for a batch or for the end, and takes batches first.
TakeBatch ==
    /\ worker = "wait" /\ (stop \/ write_queue # <<>>)
    /\ IF write_queue # <<>>
       THEN /\ batch' = Head(write_queue) /\ write_queue' = Tail(write_queue)
            /\ worker' = "write"
       ELSE worker' = "ended" /\ UNCHANGED <<batch, write_queue>>
    /\ UNCHANGED <<cloud_index_, holds, pending, stop, opened, file, logger, enqueued, rotations>>

WriteBatch ==
    /\ worker = "write" /\ file' = file \o batch /\ batch' = <<>> /\ worker' = "wait"
    /\ UNCHANGED opened /\ Idle

-----------------------------------------------------------------------------
(* The end: the logger's destructor.                                        *)

\* Mutant: the frames of a batch that is not full are left.
ShutdownWithoutSwap ==
    /\ logger = "up" /\ logger' = "joining" /\ stop' = TRUE
    /\ UNCHANGED <<pending, write_queue, cloud_index_, holds, thread, enqueued, rotations>>

Shutdown ==
    /\ logger = "up" /\ logger' = "joining" /\ stop' = TRUE
    /\ pending' = <<>>
    /\ write_queue' = IF pending = <<>> THEN write_queue ELSE Append(write_queue, pending)
    /\ UNCHANGED <<cloud_index_, holds, thread, enqueued, rotations>>

Join ==
    /\ logger = "joining" /\ worker = "ended" /\ logger' = "gone"
    /\ UNCHANGED <<cloud_index_, holds, writer, thread, enqueued, rotations>>

-----------------------------------------------------------------------------
Thread == TakeBatch \/ WriteBatch \/ \E opens \in BOOLEAN : OpenFile(opens)

Next ==
    \/ \E c \in Callbacks : enqueue(c) \/ \E points \in 0 .. 1 : TakeIndex(c, points)
    \/ \E opens \in BOOLEAN : recordrotate(opens)
    \/ Thread \/ Shutdown \/ Join

Spec == Init /\ [][Next]_vars

\* The thread runs on, and the destructor goes on once the thread has ended.
FairSpec == Spec /\ WF_vars(Thread) /\ WF_vars(Join)

-----------------------------------------------------------------------------
Numbers == 0 .. MaxFrames - 1

TypeOK ==
    /\ cloud_index_ \in 0 .. MaxFrames /\ holds \in [Callbacks -> Numbers \cup {NoFrame}]
    /\ pending \in Seq(Numbers) /\ write_queue \in Seq(Seq(Numbers)) /\ stop \in BOOLEAN
    /\ worker \in {"open", "wait", "write", "ended"} /\ batch \in Seq(Numbers)
    /\ opened \in BOOLEAN /\ file \in Seq(Numbers) /\ logger \in {"up", "joining", "gone"}
    /\ index_count \in 0 .. MaxFrames /\ wcwi_index_ \in 0 .. MaxFrames

\* What was handed over is in the file, with the thread, or queued, in the order
\* it was handed over in and once; only a file that did not open swallows frames.
NothingLost ==
    LET under_way == file \o batch \o FlattenSeq(write_queue) \o pending
    IN  IsPrefix(enqueued, under_way) /\ (~stop => under_way = enqueued)

\* After the destructor the file has every frame handed over before it.
FileComplete == logger = "gone" /\ opened => IsPrefix(enqueued, file)

\* No two frames have one number; a single callback's are in order.
NumbersOnce ==
    \A i, j \in DOMAIN enqueued :
        i < j => /\ enqueued[i] # enqueued[j]
                 /\ (\E c \in Callbacks : Callbacks = {c}) => enqueued[i] < enqueued[j]

\* A crash takes less than a batch of the frames that were not queued.
LessThanBatch == Len(pending) < batch_size

\* The extrinsics in calib_online.yaml are numbered from 0 without a gap.
OnlineNumbered ==
    /\ \A i \in DOMAIN online : online[i] = i - 1
    /\ Len(online) = index_count /\ index_count <= wcwi_index_

RecordSound == NothingLost /\ FileComplete /\ NumbersOnce /\ LessThanBatch /\ OnlineNumbered

\* The destructor, once it runs, returns.
ShutdownReturns == logger = "joining" ~> logger = "gone"
================================================================================
