------------------------------- MODULE OmniPid -------------------------------
(***************************************************************************)
(* pb_omni_pid_pursuit_controller: follows a plan by its lookahead point.   *)
(*                                                                         *)
(* A position is a point of a line and a plan a sequence of them: the plan  *)
(* may turn back and repeat points.  The curvature of the path and the      *)
(* angle to the goal are inputs.  The controller server calls configure,    *)
(* activate, setPlan, computeVelocityCommands and deactivate one after the  *)
(* other; parameters change in between (mutex_).  Speeds are whole numbers, *)
(* the products of the scalings are rounded down.                           *)
(***************************************************************************)
EXTENDS Integers, Sequences, FiniteSetsExt

CONSTANTS Line,            \* positions
          Plans,           \* the plans, sequences of positions
          Obstructions,    \* sets of occupied positions
          SearchDist,      \* max_robot_pose_search_dist_
          Extent,          \* getCostmapMaxExtent()
          Lookaheads,      \* the distances getLookAheadDistance returns
          sample_points,   \* 10 in the code
          Origin,          \* of the costmap's frame
          Limits,          \* the pairs <<v_linear_min_, v_linear_max_>> a user may set
          Approach,        \* min_approach_linear_velocity_
          ScalingDist,     \* approach_velocity_scaling_dist_
          Rate             \* max_velocity_scaling_factor_rate_ * control_duration_

VARIABLES activated, global_plan_,
          limits,          \* v_linear_min_, v_linear_max_
          move_pid_,       \* its limits, pre_error_, integral_
          last_velocity_scaling_factor_,
          plan_set,           \* history: the plan last set
          lethal,          \* the points of the costmap that are occupied
          looked,          \* history: the part of the plan of the last computation
          blind,           \* history: a pose of it was looked at elsewhere
          cmd_vel          \* the speed it returned, or {} if it threw

vars == <<activated, global_plan_, limits, move_pid_, last_velocity_scaling_factor_, plan_set, lethal,
          looked, blind, cmd_vel>>

Clamp(low, x, high) == IF x < low THEN low ELSE IF x > high THEN high ELSE x
Least(x, y) == IF x < y THEN x ELSE y
Greatest(x, y) == IF x > y THEN x ELSE y
Dist(p, q) == IF p < q THEN q - p ELSE p - q

\* configure() makes the regulators with the limits of that moment.
Init ==
    /\ limits \in Limits
    /\ move_pid_ = [min |-> limits[1], max |-> limits[2], pre_error_ |-> 0, integral_ |-> 0]
    /\ activated = FALSE /\ global_plan_ = <<>> /\ plan_set = <<>>
    /\ last_velocity_scaling_factor_ = 0
    /\ lethal = {} /\ looked = <<>> /\ blind = FALSE /\ cmd_vel = {}

activate ==
    /\ ~activated /\ activated' = TRUE
    /\ UNCHANGED <<global_plan_, limits, move_pid_, last_velocity_scaling_factor_, plan_set, lethal,
                   looked, blind, cmd_vel>>

deactivate ==
    /\ activated /\ activated' = FALSE /\ cmd_vel' = {}
    /\ UNCHANGED <<global_plan_, limits, move_pid_, last_velocity_scaling_factor_, plan_set, lethal,
                   looked, blind>>

setPlan ==
    /\ activated
    /\ \E plan \in Plans : global_plan_' = plan /\ plan_set' = plan
    /\ UNCHANGED <<activated, limits, move_pid_, last_velocity_scaling_factor_, lethal, looked,
                   blind, cmd_vel>>

\* The handler is registered while the controller is active; the regulators keep
\* the limits they were made with.
dynamicParametersCallback ==
    /\ activated /\ limits' \in Limits
    /\ UNCHANGED <<activated, global_plan_, move_pid_, last_velocity_scaling_factor_, plan_set, lethal,
                   looked, blind, cmd_vel>>

-----------------------------------------------------------------------------
(* The steps of a computation.                                              *)

Length(plan, i) ==
    LET sum[k \in 1 .. i] == IF k = 1 THEN 0 ELSE sum[k - 1] + Dist(plan[k - 1], plan[k])
    IN  sum[i]

\* Mutant: the closest pose of the whole plan.
SearchedAll(plan) == DOMAIN plan

\* The poses before first_after_integrated_distance.
Searched(plan) == {i \in DOMAIN plan : i = 1 \/ Length(plan, i) <= SearchDist}

\* The first of the closest poses among those.
Begin(plan, robot) ==
    Min({i \in Searched(plan) :
            \A j \in Searched(plan) : Dist(robot, plan[i]) <= Dist(robot, plan[j])})

\* The poses from there to the first outside the costmap.
Transformed(plan, robot) ==
    LET tail == SubSeq(plan, Begin(plan, robot), Len(plan))
        far == {i \in DOMAIN tail : Dist(tail[i], robot) > Extent}
    IN  SubSeq(tail, 1, IF far = {} THEN Len(tail) ELSE Min(far) - 1)

\* The first pose that is far enough, else the last.
getLookAheadPoint(path, robot, lookahead_dist) ==
    LET enough == {i \in DOMAIN path : Dist(path[i], robot) >= lookahead_dist}
    IN  IF enough = {} THEN path[Len(path)] ELSE path[Min(enough)]

\* PID::calculate with gains and time step 1: the integral is cut back after use.
calculate(pid, error) ==
    LET integral == pid.integral_ + error
    IN  [pid |-> [pid EXCEPT !.integral_ = Clamp(-1, integral, 1), !.pre_error_ = error],
         out |-> Clamp(pid.min, error + integral + (error - pid.pre_error_), pid.max)]

\* The factors of the three ranges of curvature, in quarters.
Reduction == [low |-> 4, middle |-> 3, high |-> 2]

applyCurvatureLimitation(speed, curvature, last) ==
    LET target == (speed * Reduction[curvature]) \div 4
        scaled == IF curvature = "low" THEN speed ELSE last + Clamp(-Rate, target - last, Rate)
    IN  Least(speed, Greatest(scaled, 2 * Approach))

applyApproachVelocityScaling(speed, path, robot) ==
    LET remaining == Length(path, Len(path))
        scaled == IF remaining < ScalingDist
                  THEN (speed * Dist(path[Len(path)], robot)) \div ScalingDist ELSE speed
    IN  Least(speed, Greatest(scaled, Approach))

\* Mutant: one sample too few.
SamplesFew(n) == [k \in 0 .. sample_points - 2 |-> 1 + Least((k * n) \div sample_points, n - 1)]

\* Which pose of n each sample is of.
Samples(n) == [k \in 0 .. sample_points - 1 |-> 1 + Least((k * n) \div sample_points, n - 1)]

\* The poses before `based' could not be transformed into the robot's frame: they
\* are default ones, where the robot is.
Local(path, based, robot) == [i \in DOMAIN path |-> IF i < based THEN robot ELSE path[i]]

\* The poses looked up: neither those before `based', which have no frame, nor the
\* samples before `mapped' could be transformed into the costmap's frame, and they
\* are default ones, at its origin.
Checked(path, based, mapped) ==
    LET sample == Samples(Len(path))
    IN  [k \in DOMAIN sample |-> IF sample[k] < based \/ k < mapped THEN Origin ELSE path[sample[k]]]

InCostmap(p, robot) == Dist(p, robot) <= Extent

\* The first sample outside the costmap ends the search.
isCollisionDetected(poses, robot) ==
    \E k \in DOMAIN poses :
        /\ poses[k] \in lethal
        /\ \A j \in DOMAIN poses : j <= k => InCostmap(poses[j], robot)

NoCommand == cmd_vel' = {} /\ blind' = FALSE /\ UNCHANGED <<move_pid_, last_velocity_scaling_factor_>>

\* The rest of a computation.  The robot turns first (its error is 0) or drives to
\* the lookahead point.  Whether a pose was transformed is not looked at; the
\* transforms of one computation are for one time, and once there is one there is
\* for the poses after.
Follow(path, based, robot) ==
    LET local == Local(path, based, robot)
        errors == {0} \cup {Dist(getLookAheadPoint(local, robot, d), robot) : d \in Lookaheads}
    IN  \E poses \in {Checked(path, based, mapped) : mapped \in 0 .. sample_points}, error \in errors :
            LET pid == calculate(move_pid_, error)
            IN  \E turned \in {applyCurvatureLimitation(pid.out, c, last_velocity_scaling_factor_) :
                                   c \in DOMAIN Reduction} :
                    /\ blind' = (local # path \/ poses # Checked(path, 1, 0))
                    /\ move_pid_' = pid.pid /\ last_velocity_scaling_factor_' = turned
                    /\ cmd_vel' = IF isCollisionDetected(poses, robot) THEN {}
                                  ELSE {applyApproachVelocityScaling(turned, local, robot)}

\* Without a plan, or the robot's pose in its frame, nothing is computed.
computeVelocityCommands ==
    /\ activated
    /\ \/ looked' = <<>> /\ NoCommand /\ UNCHANGED global_plan_
       \/ /\ global_plan_ # <<>>
          /\ \E robot \in Line :
                LET path == Transformed(global_plan_, robot)
                IN  /\ global_plan_' = SubSeq(global_plan_, Begin(global_plan_, robot), Len(global_plan_))
                    /\ looked' = path
                    /\ IF path = <<>> THEN NoCommand
                       ELSE \E based \in 1 .. Len(path) + 1 : Follow(path, based, robot)
    /\ UNCHANGED <<activated, limits, plan_set, lethal>>

\* The obstacles move; a command is for those it was computed with.
Obstacles ==
    /\ lethal' \in Obstructions
    /\ cmd_vel' = {}
    /\ UNCHANGED <<activated, global_plan_, limits, move_pid_, last_velocity_scaling_factor_, plan_set,
                   looked, blind>>

Next ==
    \/ activate \/ deactivate \/ setPlan \/ dynamicParametersCallback
    \/ computeVelocityCommands \/ Obstacles

Spec == Init /\ [][Next]_vars

-----------------------------------------------------------------------------
(* Properties.                                                              *)

TypeOK ==
    /\ {activated, blind} \subseteq BOOLEAN /\ limits \in Limits /\ lethal \in Obstructions \cup {{}}
    /\ plan_set \in Plans \cup {<<>>} /\ {global_plan_, looked} \subseteq Seq(Line)
    /\ move_pid_.integral_ \in -1 .. 1 /\ move_pid_.pre_error_ \in 0 .. Max(Line)
    /\ cmd_vel \subseteq move_pid_.min .. move_pid_.max

\* However often the plan is pruned, what is kept is the end of the plan that was
\* set, its goal included.
KeepsGoal ==
    plan_set # <<>> =>
        /\ global_plan_ # <<>>
        /\ \E k \in DOMAIN plan_set : global_plan_ = SubSeq(plan_set, k, Len(plan_set))

\* No command moves the robot along a plan with an occupied pose, if every pose
\* of it is a sample and is looked up where it is.  (One that could not be
\* transformed is not, and the code may give the command all the same.)
StopsForObstacles ==
    cmd_vel # {} /\ ~blind /\ Len(looked) <= sample_points =>
        \A i \in DOMAIN looked : looked[i] \notin lethal

\* A computation gives up at most the poses of the search distance, so a plan
\* that comes back to where the robot is is not cut short.
PrunesNearby ==
    plan_set' = plan_set /\ Len(global_plan_') < Len(global_plan_) =>
        Length(global_plan_, 1 + Len(global_plan_) - Len(global_plan_')) <= SearchDist

-----------------------------------------------------------------------------
(* The geometry, on points with integer coordinates: the point of a path at *)
(* a distance, the meeting point of a segment and a circle, and the circle   *)
(* through three points.  What the code divides by is kept beside the        *)
(* numerator.                                                                *)

Abs(x) == IF x < 0 THEN -x ELSE x
\* Mutant: the sign the other way round.
SignSwapped(x) == IF x < 0 THEN 1 ELSE -1
Sign(x) == IF x < 0 THEN -1 ELSE 1      \* copysign(1.0, x)
Norm2(p) == p[1] * p[1] + p[2] * p[2]

-----------------------------------------------------------------------------
(* Paths, by their positions along a line.                                  *)

calculateCumulativeDistances(path) ==
    LET sum[i \in DOMAIN path] ==
            IF i = 1 THEN 0 ELSE sum[i - 1] + Abs(path[i] - path[i - 1])
    IN  sum

\* Mutant: the first distance beyond the target, the last point being one.
UpperBound(distances, target) ==
    CHOOSE i \in DOMAIN distances :
        /\ distances[i] > target \/ i = Len(distances)
        /\ \A j \in 1 .. i - 1 : distances[j] <= target

LowerBound(distances, target) ==
    CHOOSE i \in DOMAIN distances :
        distances[i] >= target /\ \A j \in 1 .. i - 1 : distances[j] < target

\* The point at a distance along the path, times what the code divides by.
findPoseAtDistance(path, target) ==
    LET distances == calculateCumulativeDistances(path)
        last == Len(path)
        i == LowerBound(distances, target)
    IN  IF target <= 0 THEN [times |-> path[1], by |-> 1]
        ELSE IF target >= distances[last] THEN [times |-> path[last], by |-> 1]
        ELSE LET step == distances[i] - distances[i - 1]
             IN  [times |-> path[i - 1] * step
                            + (target - distances[i - 1]) * (path[i] - path[i - 1]),
                  by |-> step]

-----------------------------------------------------------------------------
(* Circles.                                                                 *)

\* The root of a square, for the squares that occur.
Root(n) == CHOOSE k \in 0 .. n : k * k = n
HasRoot(n) == n >= 0 /\ \E k \in 0 .. n : k * k = n

\* What circleSegmentIntersection takes the root of.
Discriminant(p1, p2, r) ==
    LET d == p1[1] * p2[2] - p2[1] * p1[2]
    IN  r * r * Norm2(<<p2[1] - p1[1], p2[2] - p1[2]>>) - d * d

circleSegmentIntersection(p1, p2, r) ==
    LET dx == p2[1] - p1[1]
        dy == p2[2] - p1[2]
        d == p1[1] * p2[2] - p2[1] * p1[2]
        s == Sign(Norm2(p2) - Norm2(p1)) * Root(Discriminant(p1, p2, r))
    IN  [times |-> <<d * dy + dx * s, -d * dx + dy * s>>, by |-> dx * dx + dy * dy]

\* Mutant: two terms of the second coordinate swapped.
CentreSwapped(a, b, c) ==
    [times |-> <<Norm2(a) * (b[2] - c[2]) + Norm2(b) * (c[2] - a[2]) + Norm2(c) * (a[2] - b[2]),
                 Norm2(a) * (c[1] - b[1]) + Norm2(b) * (b[1] - a[1]) + Norm2(c) * (a[1] - c[1])>>,
     by |-> 2 * (a[1] * (b[2] - c[2]) + b[1] * (c[2] - a[2]) + c[1] * (a[2] - b[2]))]

\* The centre of the circle through three points; divided by 0 the radius is
\* not a number, or infinite, and counts as a straight line.
Centre(a, b, c) ==
    [times |-> <<Norm2(a) * (b[2] - c[2]) + Norm2(b) * (c[2] - a[2]) + Norm2(c) * (a[2] - b[2]),
                 Norm2(a) * (c[1] - b[1]) + Norm2(b) * (a[1] - c[1]) + Norm2(c) * (b[1] - a[1])>>,
     by |-> 2 * (a[1] * (b[2] - c[2]) + b[1] * (c[2] - a[2]) + c[1] * (a[2] - b[2]))]

-----------------------------------------------------------------------------
(* Properties, over bounded inputs.                                         *)

\* The point is between the two poses it is interpolated from, as far from the
\* start as asked, and nothing is divided by 0 although poses may coincide.
PoseIsOnPath(path, target) ==
    LET pose == findPoseAtDistance(path, target)
        distances == calculateCumulativeDistances(path)
    IN  /\ pose.by > 0
        /\ 0 < target /\ target < distances[Len(path)] =>
               \E i \in 1 .. Len(path) - 1 :
                   /\ Abs(pose.times - path[i] * pose.by) = (target - distances[i]) * pose.by
                   /\ Abs(path[i + 1] * pose.by - pose.times)
                      = (distances[i + 1] - target) * pose.by

\* From a point inside the circle to one that is not, the code's root is on the
\* circle and on the segment.
MeetsOnSegment(p1, p2, r) ==
    Norm2(p1) < r * r /\ Norm2(p2) >= r * r /\ HasRoot(Discriminant(p1, p2, r)) =>
        LET p == circleSegmentIntersection(p1, p2, r)
            along(q) == (q[1] - p.by * p1[1]) * (p2[1] - p1[1])
                        + (q[2] - p.by * p1[2]) * (p2[2] - p1[2])
        IN  /\ Norm2(p.times) = r * r * p.by * p.by
            /\ 0 <= along(p.times) /\ along(p.times) <= p.by * p.by
            /\ (p.times[1] - p.by * p1[1]) * (p2[2] - p1[2])
               = (p.times[2] - p.by * p1[2]) * (p2[1] - p1[1])

\* The centre is as far from each of the points, and there is none just when
\* they are on a line.
CentreIsEquidistant(a, b, c) ==
    LET m == Centre(a, b, c)
        from(p) == Norm2(<<p[1] * m.by - m.times[1], p[2] * m.by - m.times[2]>>)
        turn == (b[1] - a[1]) * (c[2] - a[2]) - (b[2] - a[2]) * (c[1] - a[1])
    IN  /\ m.by = 0 <=> turn = 0
        /\ m.by # 0 => from(a) = from(b) /\ from(b) = from(c)
=============================================================================
