-------------------------------- MODULE BackUp --------------------------------
(***************************************************************************)
(* The back-up behaviour of pb_nav2_plugins, as the behaviour server of     *)
(* nav2 runs it: onRun once, then onCycleUpdate until it is not RUNNING;    *)
(* a goal that is cancelled stops the robot.  A velocity moves the robot    *)
(* until another is published.                                              *)
(***************************************************************************)
EXTENDS Integers, Sequences

CONSTANTS Distance,   \* |command_x_|
          Allowances  \* the time allowances asked for; 0 is no limit

VARIABLES status,      \* "idle", "waiting", "running", "succeeded", "failed"
          reason,      \* why it failed last
          moving,      \* the last velocity published is not zero
          moved,       \* how far the robot is from initial_pose_
          left,        \* the time until end_time_
          command_time_allowance_,
          localised,   \* the pose is available
          blocked,     \* the way is not free
          lost         \* history: the last run under way ended without its pose

vars == <<status, reason, moving, moved, left, command_time_allowance_, localised, blocked, lost>>

Init ==
    /\ status = "idle" /\ reason = "none" /\ moving = FALSE /\ moved = 0 /\ left = 0
    /\ command_time_allowance_ = 0 /\ localised = TRUE /\ blocked = FALSE /\ lost = FALSE

\* A goal arrives; onRun waits until the costmap's service is there.  Nothing is
\* published: a robot that moves goes on moving.
Goal ==
    /\ status \in {"idle", "succeeded", "failed"} /\ status' = "waiting"
    /\ UNCHANGED <<reason, moving, moved, left, command_time_allowance_, localised, blocked, lost>>

\* The rest of onRun: no costmap within a second, no pose (the second time with
\* the goal's allowance already taken over), or under way.
onRun ==
    /\ status = "waiting"
    /\ \/ /\ localised /\ status' = "running" /\ lost' = FALSE
          /\ \E a \in Allowances : command_time_allowance_' = a /\ left' = a
          /\ moved' = 0 /\ UNCHANGED reason
       \/ /\ status' = "failed" /\ reason' = "start"
          /\ \/ UNCHANGED <<command_time_allowance_, left>>
             \/ \E a \in Allowances : command_time_allowance_' = a /\ left' = a
          /\ UNCHANGED <<moved, lost>>
    /\ UNCHANGED <<moving, localised, blocked>>

\* Mutant: no end stops the robot.
EndMoving(result, why, stops) ==
    status' = result /\ reason' = why /\ lost' = (why = "pose") /\ UNCHANGED moving

End(result, why, stops) ==
    /\ status' = result /\ reason' = why /\ lost' = (why = "pose")
    /\ moving' = (moving /\ ~stops)

TimeIsUp == left < 0 /\ command_time_allowance_ > 0

\* Mutant: a free way is not looked for.
onCycleUpdateBlind ==
    /\ status = "running"
    /\ \/ TimeIsUp /\ End("failed", "time", TRUE)
       \/ ~TimeIsUp /\ ~localised /\ End("failed", "pose", FALSE)
       \/ ~TimeIsUp /\ localised /\ moved >= Distance /\ End("succeeded", "none", TRUE)
       \/ ~TimeIsUp /\ localised /\ moved < Distance /\ moving' = TRUE /\ UNCHANGED <<status, reason, lost>>
    /\ UNCHANGED <<moved, left, command_time_allowance_, localised, blocked>>

onCycleUpdate ==
    /\ status = "running"
    /\ \/ TimeIsUp /\ End("failed", "time", TRUE)
       \/ ~TimeIsUp /\ ~localised /\ End("failed", "pose", FALSE)
       \/ ~TimeIsUp /\ localised /\ moved >= Distance /\ End("succeeded", "none", TRUE)
       \/ ~TimeIsUp /\ localised /\ moved < Distance /\ blocked /\ End("failed", "collision", TRUE)
       \/ /\ ~TimeIsUp /\ localised /\ moved < Distance /\ ~blocked
          /\ moving' = TRUE /\ UNCHANGED <<status, reason, lost>>
    /\ UNCHANGED <<moved, left, command_time_allowance_, localised, blocked>>

\* Between two cycles time passes and the robot moves; the clock stops one
\* past the end.
Elapse ==
    /\ status = "running" /\ left >= 0
    /\ left' = IF command_time_allowance_ > 0 THEN left - 1 ELSE left
    /\ moved' = IF moving /\ moved < Distance THEN moved + 1 ELSE moved
    /\ UNCHANGED <<status, reason, moving, command_time_allowance_, localised, blocked, lost>>

PoseComesOrGoes ==
    /\ localised' = ~localised
    /\ UNCHANGED <<status, reason, moving, moved, left, command_time_allowance_, blocked, lost>>

ObstacleComesOrGoes ==
    /\ blocked' = ~blocked
    /\ UNCHANGED <<status, reason, moving, moved, left, command_time_allowance_, localised, lost>>

\* The server stops the robot.
Cancel ==
    /\ status = "running" /\ End("failed", "cancelled", TRUE)
    /\ UNCHANGED <<moved, left, command_time_allowance_, localised, blocked>>

Next == \/ Goal \/ onRun \/ onCycleUpdate \/ Elapse \/ Cancel
        \/ PoseComesOrGoes \/ ObstacleComesOrGoes

Spec == Init /\ [][Next]_vars

-----------------------------------------------------------------------------
TypeOK ==
    /\ status \in {"idle", "waiting", "running", "succeeded", "failed"}
    /\ reason \in {"none", "start", "time", "pose", "collision", "cancelled"}
    /\ {moving, localised, blocked, lost} \subseteq BOOLEAN
    /\ moved \in 0..Distance /\ command_time_allowance_ \in {0} \cup Allowances
    /\ left \in Int /\ left >= -1

\* While the behaviour is not under way the robot stands, unless the last run
\* that was lost its pose: that is the one end that does not stop it
\* (back_up_free_space.cpp:123), and then it moves on while the next goal waits
\* and when that goal fails in onRun.
StandsWhenEnded == status # "running" /\ moving => lost

\* The robot is not set going when the way was blocked, the pose unknown, the
\* distance done or the time up.
StartsSafely ==
    ~moving /\ moving' => ~blocked /\ localised /\ moved < Distance /\ ~TimeIsUp

-----------------------------------------------------------------------------
(* findBestDirection: one sweep over the directions around the robot that   *)
(* looks for a gap to back up into.  A direction is its place in the sweep; *)
(* whether the ray along it is free (is_safe, from the costmap) is the      *)
(* input.  Angles are multiples of angle_increment from -pi, so none is the *)
(* mark -1.0f.                                                              *)

Unset == -1

\* The angle 0.0f, where the best sector starts out empty, is half-way.
Start(directions) ==
    LET zero == directions \div 2 + 1
    IN  [first_safe |-> Unset, last_unsafe |-> Unset, final_safe |-> zero, final_unsafe |-> zero]

\* Mutant: a gap goes on at the next free direction.
ExtendOverwriting(s, angle, is_safe) ==
    LET first == IF is_safe /\ s.first_safe = Unset THEN angle ELSE s.first_safe
        last == IF ~is_safe /\ first # Unset THEN angle ELSE s.last_unsafe
    IN  [s EXCEPT !.first_safe = first, !.last_unsafe = last]

\* A gap begins at a free direction and ends at the next that is not.
Extend(s, angle, is_safe) ==
    LET first == IF is_safe /\ s.first_safe = Unset THEN angle ELSE s.first_safe
        last == IF ~is_safe /\ first # Unset /\ s.last_unsafe = Unset THEN angle
                ELSE s.last_unsafe
    IN  [s EXCEPT !.first_safe = first, !.last_unsafe = last]

\* A gap that is wider than the best so far becomes the best, and the search
\* for the next begins; one that is not stays, and no other gap begins.
KeepWidest(s) ==
    IF /\ s.first_safe # Unset /\ s.last_unsafe # Unset
       /\ s.last_unsafe - s.first_safe > s.final_unsafe - s.final_safe
    THEN [first_safe |-> Unset, last_unsafe |-> Unset,
          final_safe |-> s.first_safe, final_unsafe |-> s.last_unsafe]
    ELSE s

\* The sector whose middle is the direction taken; is_safe is a sequence.
findBestDirection(is_safe) ==
    LET after[angle \in 0..Len(is_safe)] ==
            IF angle = 0 THEN Start(Len(is_safe))
            ELSE KeepWidest(Extend(after[angle - 1], angle, is_safe[angle]))
    IN  after[Len(is_safe)]

\* The robot backs up into free space (back_up_free_space.hpp:36): if a free
\* direction comes before one that is not, the sweep finds a sector, all its
\* directions are free, and it cannot be extended at either end.
SectorIsGap(rays) ==
    LET best == findBestDirection(rays)
    IN  (\E i, j \in 1..Len(rays) : i < j /\ rays[i] /\ ~rays[j]) =>
            /\ best.final_safe < best.final_unsafe
            /\ \A i \in best.final_safe .. best.final_unsafe - 1 : rays[i]
            /\ best.final_safe > 1 => ~rays[best.final_safe - 1]
            /\ ~rays[best.final_unsafe]
=============================================================================
