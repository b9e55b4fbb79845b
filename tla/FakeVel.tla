------------------------------- MODULE FakeVel -------------------------------
(***************************************************************************)
(* fake_vel_transform: turns velocity commands given in a frame of fixed    *)
(* yaw into the frame of the gimbal, which spins.                           *)
(*                                                                         *)
(* A command has no stamp.  While the controller is active a command waits  *)
(* for the next pair of a local plan and an odometry message, whose yaw     *)
(* turns it; a zero command, and any command when the controller has been   *)
(* silent for CONTROLLER_TIMEOUT, is published at once.                     *)
(***************************************************************************)
EXTENDS Integers

CONSTANTS MaxCommands,   \* bound: commands
          Yaws,          \* the yaws of odometry messages
          Speeds         \* the spin speeds asked for

VARIABLES current_robot_base_angle_, spin_speed_, latest_cmd_vel_,
          active,       \* a plan came within the last CONTROLLER_TIMEOUT
          odometry,     \* yaws of the odometry messages not paired yet
          plan,         \* a local plan is not paired yet
          newest,       \* history: the newest command
          answered,     \* history: newest was published
          out           \* the last velocity published

vars == <<current_robot_base_angle_, spin_speed_, latest_cmd_vel_, active, odometry, plan, newest,
          answered, out>>

NoCommand == [n |-> 0, zero |-> TRUE]

Init ==
    /\ current_robot_base_angle_ = 0 /\ spin_speed_ = 0 /\ latest_cmd_vel_ = NoCommand
    /\ active = FALSE /\ odometry = {} /\ plan = FALSE
    /\ newest = NoCommand /\ answered = TRUE
    /\ out = [n |-> 0, yaw |-> 0, spin |-> 0]

cmdSpinCallback ==
    /\ spin_speed_' \in Speeds
    /\ UNCHANGED <<current_robot_base_angle_, latest_cmd_vel_, active, odometry, plan, newest,
                   answered, out>>

\* Mutant: the frame turns with every odometry message.
odometryCallbackAlways ==
    \E yaw \in Yaws :
        /\ odometry' = odometry \cup {yaw}
        /\ current_robot_base_angle_' = yaw
        /\ UNCHANGED <<spin_speed_, latest_cmd_vel_, active, plan, newest, answered, out>>

odometryCallback ==
    \E yaw \in Yaws :
        /\ odometry' = odometry \cup {yaw}
        /\ current_robot_base_angle_' = IF active THEN current_robot_base_angle_ ELSE yaw
        /\ UNCHANGED <<spin_speed_, latest_cmd_vel_, active, plan, newest, answered, out>>

transformVelocity(c, yaw) == [n |-> c.n, yaw |-> yaw, spin |-> spin_speed_]

\* Mutant: a command does not replace one that waits.
cmdVelCallbackKeeping ==
    \E zero \in BOOLEAN :
        LET c == [n |-> newest.n + 1, zero |-> zero]
        IN  /\ newest.n < MaxCommands /\ newest' = c
            /\ answered' = (zero \/ ~active)
            /\ out' = IF answered' THEN transformVelocity(c, current_robot_base_angle_) ELSE out
            /\ latest_cmd_vel_' = IF answered' \/ latest_cmd_vel_ # NoCommand
                                  THEN latest_cmd_vel_ ELSE c
            /\ UNCHANGED <<current_robot_base_angle_, spin_speed_, active, odometry, plan>>

cmdVelCallback ==
    \E zero \in BOOLEAN :
        LET c == [n |-> newest.n + 1, zero |-> zero]
        IN  /\ newest.n < MaxCommands /\ newest' = c
            /\ answered' = (zero \/ ~active)
            /\ out' = IF answered' THEN transformVelocity(c, current_robot_base_angle_) ELSE out
            /\ latest_cmd_vel_' = IF answered' THEN latest_cmd_vel_ ELSE c
            /\ UNCHANGED <<current_robot_base_angle_, spin_speed_, active, odometry, plan>>

localPlanCallback ==
    /\ active' = TRUE /\ plan' = TRUE
    /\ UNCHANGED <<current_robot_base_angle_, spin_speed_, latest_cmd_vel_, odometry, newest,
                   answered, out>>

\* CONTROLLER_TIMEOUT after the last plan.
ControllerSilent ==
    /\ active /\ active' = FALSE
    /\ UNCHANGED <<current_robot_base_angle_, spin_speed_, latest_cmd_vel_, odometry, plan, newest,
                   answered, out>>

\* A plan and the odometry that is nearest to it.
syncCallback ==
    \E yaw \in odometry :
        /\ plan /\ plan' = FALSE /\ odometry' = {}
        /\ IF latest_cmd_vel_ = NoCommand
           THEN UNCHANGED <<current_robot_base_angle_, answered, out>>
           ELSE /\ current_robot_base_angle_' = yaw
                /\ out' = transformVelocity(latest_cmd_vel_, yaw)
                /\ answered' = (answered \/ latest_cmd_vel_ = newest)
        /\ UNCHANGED <<spin_speed_, latest_cmd_vel_, active, newest>>

Next == \/ cmdSpinCallback \/ odometryCallback \/ cmdVelCallback \/ localPlanCallback
        \/ ControllerSilent \/ syncCallback

Spec == Init /\ [][Next]_vars

-----------------------------------------------------------------------------
TypeOK ==
    /\ current_robot_base_angle_ \in {0} \cup Yaws /\ spin_speed_ \in {0} \cup Speeds
    /\ latest_cmd_vel_ \in [n : 0..MaxCommands, zero : BOOLEAN]
    /\ newest \in [n : 0..MaxCommands, zero : BOOLEAN]
    /\ active \in BOOLEAN /\ plan \in BOOLEAN /\ answered \in BOOLEAN
    /\ odometry \subseteq Yaws
    /\ out \in [n : 0..MaxCommands, yaw : {0} \cup Yaws, spin : {0} \cup Speeds]

\* A command is published when it comes or kept for the next plan, and is not
\* forgotten for an older one: what still waits for a plan is the newest
\* command, unless that has been published.
NewestKept == ~answered => latest_cmd_vel_ = newest /\ ~newest.zero

\* While the controller is active the fake frame, in which it plans, turns only
\* together with a command (publishTransform sends this angle).
FrameTurnsWithCommand ==
    active /\ current_robot_base_angle_' # current_robot_base_angle_ =>
        out'.yaw = current_robot_base_angle_' /\ out'.n = latest_cmd_vel_.n
=============================================================================
