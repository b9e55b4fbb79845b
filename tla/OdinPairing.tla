----------------------------- MODULE OdinPairing -----------------------------
(***************************************************************************)
(* The colouring of point clouds in the odin driver (host_sdk_sample.h).   *)
(*                                                                         *)
(* The SDK's threads put images and clouds into two queues, each under its *)
(* own mutex.  The main thread looks at both fronts under both mutexes,    *)
(* decides with neither, and removes fronts under both again; in between   *)
(* a queue at its limit may have lost the front that was looked at.        *)
(* A device that comes back counts its stamps from the beginning, and the  *)
(* queues are not cleared.                                                 *)
(***************************************************************************)
EXTENDS Integers, Sequences, Functions

CONSTANTS Limit,       \* size of both queues
          Tolerance,   \* MAX_TIME_DIFF
          MaxStamp,    \* bound: the last stamp of a connection
          MaxSession   \* bound: connections

VARIABLES rgb_image_queue_,
          pcd_queue_,
          picked,        \* the fronts try_process_pair has in hand, or <<>>
          session,       \* the connection, from 1
          connected,
          images,        \* history: the images of this connection
          clouds,        \* history: the clouds of this connection
          rendered,      \* history: the pairs rendered, in order
          overflowed     \* history: a queue was full

vars == <<rgb_image_queue_, pcd_queue_, picked, session, connected, images, clouds, rendered,
          overflowed>>

Message == [session : 1..MaxSession, stamp : 1..MaxStamp]

Init ==
    /\ rgb_image_queue_ = <<>> /\ pcd_queue_ = <<>> /\ picked = <<>>
    /\ session = 1 /\ connected = TRUE
    /\ images = {} /\ clouds = {} /\ rendered = <<>> /\ overflowed = FALSE

\* The messages of one stream that can come next: its stamps only grow.
Next1(arrived) ==
    {m \in Message : /\ m.session = session
                     /\ \A a \in arrived : a.stamp < m.stamp}

Queued(q, m) == Append(IF Len(q) >= Limit THEN Tail(q) ELSE q, m)

publishRgb ==
    /\ connected
    /\ \E m \in Next1(images) :
          /\ rgb_image_queue_' = Queued(rgb_image_queue_, m)
          /\ images' = images \cup {m}
    /\ overflowed' = (overflowed \/ Len(rgb_image_queue_) >= Limit)
    /\ UNCHANGED <<pcd_queue_, picked, session, connected, clouds, rendered>>

publishIntensityCloud ==
    /\ connected
    /\ \E m \in Next1(clouds) :
          /\ pcd_queue_' = Queued(pcd_queue_, m)
          /\ clouds' = clouds \cup {m}
    /\ overflowed' = (overflowed \/ Len(pcd_queue_) >= Limit)
    /\ UNCHANGED <<rgb_image_queue_, picked, session, connected, images, rendered>>

-----------------------------------------------------------------------------
(* try_process_pair; the main loop begins it only while connected.          *)

LookAtFronts ==
    /\ picked = <<>> /\ connected
    /\ rgb_image_queue_ # <<>> /\ pcd_queue_ # <<>>
    /\ picked' = <<Head(rgb_image_queue_), Head(pcd_queue_)>>
    /\ UNCHANGED <<rgb_image_queue_, pcd_queue_, session, connected, images, clouds, rendered,
                   overflowed>>

TimeDiff == picked[1].stamp - picked[2].stamp

\* Mutant: the newer of the two is removed.
DropOlderSwapped ==
    /\ picked # <<>>
    /\ \/ /\ TimeDiff > Tolerance /\ rgb_image_queue_' = Tail(rgb_image_queue_)
          /\ UNCHANGED pcd_queue_
       \/ /\ -TimeDiff > Tolerance /\ pcd_queue_' = Tail(pcd_queue_)
          /\ UNCHANGED rgb_image_queue_
    /\ picked' = <<>>
    /\ UNCHANGED <<session, connected, images, clouds, rendered, overflowed>>

\* Too far apart: the front of the queue whose message is older is removed.
DropOlder ==
    /\ picked # <<>>
    /\ \/ /\ TimeDiff > Tolerance /\ pcd_queue_' = Tail(pcd_queue_)
          /\ UNCHANGED rgb_image_queue_
       \/ /\ -TimeDiff > Tolerance /\ rgb_image_queue_' = Tail(rgb_image_queue_)
          /\ UNCHANGED pcd_queue_
    /\ picked' = <<>>
    /\ UNCHANGED <<session, connected, images, clouds, rendered, overflowed>>

\* Mutant: the cloud stays in its queue.
process_pair_keeping_cloud ==
    /\ picked # <<>> /\ TimeDiff \in -Tolerance..Tolerance
    /\ rgb_image_queue_' = Tail(rgb_image_queue_)
    /\ rendered' = Append(rendered, picked) /\ picked' = <<>>
    /\ UNCHANGED <<pcd_queue_, session, connected, images, clouds, overflowed>>

\* Both fronts are removed and the pair in hand is rendered.
process_pair ==
    /\ picked # <<>> /\ TimeDiff \in -Tolerance..Tolerance
    /\ rgb_image_queue_' = Tail(rgb_image_queue_) /\ pcd_queue_' = Tail(pcd_queue_)
    /\ rendered' = Append(rendered, picked) /\ picked' = <<>>
    /\ UNCHANGED <<session, connected, images, clouds, overflowed>>

-----------------------------------------------------------------------------
Detach ==
    /\ connected /\ connected' = FALSE
    /\ UNCHANGED <<rgb_image_queue_, pcd_queue_, picked, session, images, clouds, rendered, overflowed>>

Reattach ==
    /\ ~connected /\ session < MaxSession
    /\ connected' = TRUE /\ session' = session + 1 /\ images' = {} /\ clouds' = {}
    /\ UNCHANGED <<rgb_image_queue_, pcd_queue_, picked, rendered, overflowed>>

Next == \/ publishRgb \/ publishIntensityCloud
        \/ LookAtFronts \/ DropOlder \/ process_pair
        \/ Detach \/ Reattach

Spec == Init /\ [][Next]_vars

-----------------------------------------------------------------------------
TypeOK ==
    /\ rgb_image_queue_ \in Seq(Message) /\ Len(rgb_image_queue_) <= Limit
    /\ pcd_queue_ \in Seq(Message) /\ Len(pcd_queue_) <= Limit
    /\ picked = <<>> \/ picked \in Message \X Message
    /\ session \in 1..MaxSession /\ connected \in BOOLEAN /\ overflowed \in BOOLEAN
    /\ images \subseteq Message /\ clouds \subseteq Message
    /\ rendered \in Seq(Message \X Message)

Before(a, b) == a.session < b.session \/ (a.session = b.session /\ a.stamp < b.stamp)

\* No image and no cloud is rendered twice or out of order, although a queue
\* may lose the front between the look at it and its removal.
RenderedInOrder ==
    \A i, j \in 1..Len(rendered) : i < j =>
        Before(rendered[i][1], rendered[j][1]) /\ Before(rendered[i][2], rendered[j][2])

\* While no queue was full and the device did not come back, a message is
\* given up only when no partner for it can be left: every image and cloud that
\* are close enough are queued, in hand, or at least one of them is rendered.
MatchableRendered ==
    ~overflowed /\ session = 1 =>
        \A i \in images, c \in clouds : i.stamp - c.stamp \in -Tolerance..Tolerance =>
            \/ \E k \in 1..Len(rendered) : rendered[k][1] = i \/ rendered[k][2] = c
            \/ i \in Range(rgb_image_queue_) /\ c \in Range(pcd_queue_)
=============================================================================
