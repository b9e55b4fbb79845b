------------------------------ MODULE LaserScan ------------------------------
(***************************************************************************)
(* pointcloud_to_laserscan: two nodes, each with a thread that subscribes   *)
(* to its input exactly while somebody listens to its output, and the       *)
(* conversion of a cloud into a scan.                                       *)
(***************************************************************************)
EXTENDS Integers, Sequences

CONSTANTS Rays,         \* ranges_size
          Increment,    \* angle_increment
          AngleMax,     \* angle_max - angle_min
          MaxRange      \* range_max; ranges start at 1 here

VARIABLES node,              \* which of the two
          alive_, ok,        \* ok: the ROS context is not shut down
          listeners,         \* somebody is subscribed to the output
          subscribed,        \* the node is subscribed to its input
          seen,              \* the thread's subscription_count > 0
          listener,            \* "test", "act", "wait", "leave", "done"
          destructor,        \* "none", "join", "done"
          in_callback        \* a message is in the callback

vars == <<node, alive_, ok, listeners, subscribed, seen, listener, destructor, in_callback>>

Init ==
    /\ node \in {"pointcloud_to_laserscan", "laserscan_to_pointcloud"}
    /\ alive_ = TRUE /\ ok = TRUE /\ listeners = FALSE /\ subscribed = FALSE /\ seen = FALSE
    /\ listener = "test" /\ destructor = "none" /\ in_callback = FALSE

-----------------------------------------------------------------------------
(* The scan made of a cloud.                                                *)

Inf == MaxRange + 1

\* low stands for a height or an intensity outside the limits.
Point == [angle : -1 .. Rays * Increment + 1, range : 1 .. Inf, low : BOOLEAN]

Accepted(p) == ~p.low /\ p.range <= MaxRange /\ p.angle >= 0 /\ p.angle <= AngleMax

Ray(p) == p.angle \div Increment

\* Mutant: the last point of a ray counts, not the nearest.
LookAtLast(ranges, p) ==
    IF Accepted(p) /\ Ray(p) < Rays THEN [ranges EXCEPT ![Ray(p)] = p.range] ELSE ranges

\* An index past the last ray is not checked: what is read and perhaps written
\* there is not a ray of the scan.
LookAt(ranges, p) ==
    IF Accepted(p) /\ Ray(p) < Rays /\ p.range < ranges[Ray(p)]
    THEN [ranges EXCEPT ![Ray(p)] = p.range] ELSE ranges

\* Some point of the cloud is looked up past the last ray.
Overruns(cloud) == \E k \in DOMAIN cloud : Accepted(cloud[k]) /\ Ray(cloud[k]) >= Rays

\* The points one after the other.
ScanOf(cloud) ==
    LET scan[n \in 0..Len(cloud)] ==
            IF n = 0 THEN [i \in 0..Rays - 1 |-> Inf] ELSE LookAt(scan[n - 1], cloud[n])
    IN  scan[Len(cloud)]

\* A ray of the scan is the nearest accepted point of its sector, or none.  A
\* point at angle_max is accepted, and past the last ray where the sectors end
\* there, as they do with the default angles; no other point is.
NearestPerRay(cloud) ==
    /\ Overruns(cloud) => \E k \in DOMAIN cloud : cloud[k].angle = AngleMax /\ AngleMax = Rays * Increment
    /\ \A i \in 0..Rays - 1 :
            LET near == {cloud[k].range : k \in {k \in DOMAIN cloud : Accepted(cloud[k]) /\ Ray(cloud[k]) = i}}
            IN  IF near = {} THEN ScanOf(cloud)[i] = Inf
                ELSE ScanOf(cloud)[i] \in near /\ \A r \in near : ScanOf(cloud)[i] <= r

-----------------------------------------------------------------------------
(* subscriptionListenerThreadLoop                                           *)

Running == UNCHANGED <<node, alive_, ok, listeners, destructor, in_callback>>

LoopTest ==
    /\ listener = "test"
    /\ listener' = IF ok /\ alive_ THEN "act" ELSE "leave"
    /\ seen' = listeners
    /\ UNCHANGED subscribed /\ Running

\* Mutant: unsubscribes only when the thread ends.
FollowListenersOnce ==
    /\ listener = "act" /\ listener' = "wait"
    /\ subscribed' = (subscribed \/ seen)
    /\ UNCHANGED seen /\ Running

FollowListeners ==
    /\ listener = "act" /\ listener' = "wait"
    /\ subscribed' = seen
    /\ UNCHANGED seen /\ Running

\* A graph change or 100 ms.
WaitEnds ==
    /\ listener = "wait" /\ listener' = "test"
    /\ UNCHANGED <<subscribed, seen>> /\ Running

\* Mutant: the thread ends without unsubscribing.
LeaveLoopSubscribed ==
    /\ listener = "leave" /\ listener' = "done"
    /\ UNCHANGED <<subscribed, seen>> /\ Running

LeaveLoop ==
    /\ listener = "leave" /\ listener' = "done" /\ subscribed' = FALSE
    /\ UNCHANGED seen /\ Running

ListenersComeOrGo ==
    /\ listeners' = ~listeners /\ destructor # "done"
    /\ UNCHANGED <<node, alive_, ok, subscribed, seen, listener, destructor, in_callback>>

\* Ctrl-C.
ShutDownContext ==
    /\ ok /\ ok' = FALSE
    /\ UNCHANGED <<node, alive_, listeners, subscribed, seen, listener, destructor, in_callback>>

\* Mutant: both nodes have the destructor of laserscan_to_pointcloud.
BeginDestructorRaising ==
    /\ destructor = "none" /\ ~in_callback /\ destructor' = "join"
    /\ alive_' = TRUE
    /\ UNCHANGED <<node, ok, listeners, subscribed, seen, listener, in_callback>>

\* The destructor runs when the executor has let go of the node.  That of
\* laserscan_to_pointcloud stores true into alive_.
BeginDestructor ==
    /\ destructor = "none" /\ ~in_callback /\ destructor' = "join"
    /\ alive_' = (node # "pointcloud_to_laserscan")
    /\ UNCHANGED <<node, ok, listeners, subscribed, seen, listener, in_callback>>

Join ==
    /\ destructor = "join" /\ listener = "done" /\ destructor' = "done"
    /\ UNCHANGED <<node, alive_, ok, listeners, subscribed, seen, listener, in_callback>>

-----------------------------------------------------------------------------
(* cloudCallback, on the executor's thread; a message may have been taken    *)
(* before the subscription went.                                             *)

TakeCloud ==
    /\ subscribed /\ ~in_callback /\ destructor = "none" /\ in_callback' = TRUE
    /\ UNCHANGED <<node, alive_, ok, listeners, subscribed, seen, listener, destructor>>

\* Publishes a scan, or nothing when the cloud cannot be transformed.
CallbackEnds ==
    /\ in_callback /\ in_callback' = FALSE
    /\ UNCHANGED <<node, alive_, ok, listeners, subscribed, seen, listener, destructor>>

Thread == LoopTest \/ FollowListeners \/ WaitEnds \/ LeaveLoop

Next == \/ Thread \/ ListenersComeOrGo \/ ShutDownContext \/ BeginDestructor \/ Join
        \/ TakeCloud \/ CallbackEnds

Spec == Init /\ [][Next]_vars

Fairness == WF_vars(Thread) /\ WF_vars(Join) /\ WF_vars(CallbackEnds)

-----------------------------------------------------------------------------
TypeOK ==
    /\ node \in {"pointcloud_to_laserscan", "laserscan_to_pointcloud"}
    /\ {alive_, ok, listeners, subscribed, seen, in_callback} \subseteq BOOLEAN
    /\ listener \in {"test", "act", "wait", "leave", "done"} /\ destructor \in {"none", "join", "done"}

\* The thread unsubscribes before it ends, and the node is not destroyed with
\* the subscription alive.
EndsUnsubscribed == listener = "done" \/ destructor = "done" => ~subscribed

\* Whoever listens and stays gets the input subscribed, while the node runs.
FollowsListeners ==
    /\ listeners /\ ok /\ alive_ ~> subscribed \/ ~listeners \/ ~ok \/ ~alive_
    /\ ~listeners ~> ~subscribed \/ listeners

\* The destructor returns: the thread sees that it is to end.  That of
\* laserscan_to_pointcloud does only once the context is shut down.
DestructorReturns ==
    destructor = "join" /\ (node = "pointcloud_to_laserscan" \/ ~ok) ~> destructor = "done"
=============================================================================
