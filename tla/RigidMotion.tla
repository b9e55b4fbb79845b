----------------------------- MODULE RigidMotion -----------------------------
(***************************************************************************)
(* Transforms between frames (tf2::Transform) as the permutations of three *)
(* points: the smallest group in which the order of two transforms and the *)
(* direction of one matter.  A transform A->B maps the coordinates in B of *)
(* a point to its coordinates in A.                                         *)
(***************************************************************************)
EXTENDS Integers, Functions

Points == 1..3

Motions == {f \in [Points -> Points] : IsInjective(f)}

Identity == [p \in Points |-> p]

f ** g == [p \in Points |-> f[g[p]]]

InverseOf(f) == AntiFunction(f)
=============================================================================
