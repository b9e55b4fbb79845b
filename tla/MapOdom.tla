------------------------------- MODULE MapOdom -------------------------------
(***************************************************************************)
(* The timer of odin_interface that sends map->odom, and the transform      *)
(* tree it reads.  A device that found itself in a map sends odom->map; the *)
(* timer sends the inverse the other way, into the same tree.  Transforms   *)
(* reach the tree late.                                                     *)
(***************************************************************************)
EXTENDS RigidMotion, Sequences

VARIABLES device,    \* the odom->map the device sends, or <<>>
          parent_of, \* the tree: parent_of.map and parent_of.odom, each the
                     \* transform from the other frame, or <<>>
          on_way,    \* the transforms sent and not yet in the tree, per child
          map_odom   \* the last map->odom sent, or <<>>

vars == <<device, parent_of, on_way, map_odom>>

Child == {"map", "odom"}

Init ==
    /\ device = <<>> /\ map_odom = <<>>
    /\ parent_of = [c \in Child |-> <<>>] /\ on_way = [c \in Child |-> <<>>]

\* Mutant: the lookup begins at odom, and finds what the timer sent.
LookupFromOdom ==
    IF parent_of["odom"] # <<>> THEN {InverseOf(parent_of["odom"][1])}
    ELSE IF parent_of["map"] # <<>> THEN {parent_of["map"][1]} ELSE {}

\* lookupTransform(odom, map): from map up, then from odom up.
Lookup ==
    IF parent_of["map"] # <<>> THEN {parent_of["map"][1]}
    ELSE IF parent_of["odom"] # <<>> THEN {InverseOf(parent_of["odom"][1])} ELSE {}

Inverted(lookup) == IF lookup = {} THEN Identity ELSE InverseOf(CHOOSE t \in lookup : TRUE)

mapOdomTimerCallback ==
    /\ map_odom' = <<Inverted(Lookup)>>
    /\ on_way' = [on_way EXCEPT !["odom"] = map_odom']
    /\ UNCHANGED <<device, parent_of>>

\* The device finds itself, again and again.
Relocalise ==
    /\ \E t \in Motions : device' = <<t>>
    /\ on_way' = [on_way EXCEPT !["map"] = device']
    /\ UNCHANGED <<parent_of, map_odom>>

TransformArrives ==
    /\ \E c \in Child : /\ on_way[c] # <<>>
                        /\ parent_of' = [parent_of EXCEPT ![c] = on_way[c]]
                        /\ on_way' = [on_way EXCEPT ![c] = <<>>]
    /\ UNCHANGED <<device, map_odom>>

Next == mapOdomTimerCallback \/ Relocalise \/ TransformArrives

Spec == Init /\ [][Next]_vars

-----------------------------------------------------------------------------
TypeOK ==
    /\ {device, map_odom} \subseteq {<<>>} \cup {<<t>> : t \in Motions}
    /\ {parent_of, on_way} \subseteq [Child -> {<<>>} \cup {<<t>> : t \in Motions}]

\* What the timer sends next is the inverse of what the device last sent, as
\* soon as that is in the tree: its own transform, which is in the same tree
\* and was the identity before, does not keep it there (odin_interface.cpp:181).
FollowsDevice ==
    parent_of["map"] # <<>> /\ on_way["map"] = <<>> => Inverted(Lookup) = InverseOf(device[1])
=============================================================================
