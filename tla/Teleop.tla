-------------------------------- MODULE Teleop --------------------------------
(***************************************************************************)
(* pb_teleop_twist_joy: one callback per message of the joystick.  Under    *)
(* manual control it publishes velocities, under automatic control it sends *)
(* goals to nav2, at most one every 250 ms.                                 *)
(***************************************************************************)
EXTENDS Integers

CONSTANTS Modes,       \* of "manual_control" and "auto_control"
          HasTurbo,    \* enable_turbo_button_ >= 0
          MaxTime      \* bound: time, in units of 125 ms

VARIABLES control_mode_, require_enable_button_,
          sent_disable_msg_,   \* not initialised by the constructor
          time,
          last_goal_time,      \* a static, set by the first call, or -1
          commanded,              \* the last velocity published is not zero
          sending,             \* a goal is on its way to nav2
          driving,             \* nav2 drives to a goal of this node
          released,            \* the last message had no button pressed
          overtaken,           \* history: a goal was on its way at the release
          goal_sent_at                 \* history: when the last goal was sent, or -1

fixed == <<control_mode_, require_enable_button_>>
clocks == <<time, last_goal_time, goal_sent_at>>
vars == <<fixed, sent_disable_msg_, clocks, commanded, sending, driving, released, overtaken>>

Init ==
    /\ control_mode_ \in Modes /\ require_enable_button_ \in BOOLEAN
    /\ sent_disable_msg_ \in BOOLEAN
    /\ time = 0 /\ last_goal_time = -1 /\ goal_sent_at = -1
    /\ commanded = FALSE /\ sending = FALSE /\ driving = FALSE
    /\ released = TRUE /\ overtaken = FALSE

Tick ==
    /\ time < MaxTime /\ time' = time + 1
    /\ UNCHANGED <<fixed, sent_disable_msg_, last_goal_time, goal_sent_at, commanded, sending,
                   driving, released, overtaken>>

\* async_send_goal only sends; nav2 takes the goal up later.
GoalAccepted ==
    /\ sending /\ sending' = FALSE /\ driving' = TRUE
    /\ UNCHANGED <<fixed, sent_disable_msg_, clocks, commanded, released, overtaken>>

\* nav2 reaches the goal, or gives up.
GoalEnds ==
    /\ driving /\ driving' = FALSE
    /\ UNCHANGED <<fixed, sent_disable_msg_, clocks, commanded, sending, released, overtaken>>

\* Mutant: the clock is not started again.
sendGoalPoseActionUnclocked(axes, pose) ==
    LET last == IF last_goal_time = -1 THEN time ELSE last_goal_time
    IN  IF axes /\ pose
        THEN /\ last_goal_time' = last
             /\ IF time - last >= 2 THEN sending' = TRUE /\ goal_sent_at' = time
                ELSE UNCHANGED <<sending, goal_sent_at>>
        ELSE UNCHANGED <<sending, goal_sent_at, last_goal_time>>

\* axes: whether a stick is out of its middle; pose: whether map->base is known.
\* The first call only starts the clock.
sendGoalPoseAction(axes, pose) ==
    LET last == IF last_goal_time = -1 THEN time ELSE last_goal_time
    IN  IF axes /\ pose
        THEN IF time - last >= 2 THEN sending' = TRUE /\ goal_sent_at' = time /\ last_goal_time' = time
             ELSE last_goal_time' = last /\ UNCHANGED <<sending, goal_sent_at>>
        ELSE UNCHANGED <<sending, goal_sent_at, last_goal_time>>

\* A velocity, or under automatic control a goal.
Command(axes, pose) ==
    /\ \/ /\ control_mode_ = "manual_control" /\ commanded' = axes
          /\ UNCHANGED <<sending, goal_sent_at, last_goal_time>>
       \/ control_mode_ = "auto_control" /\ sendGoalPoseAction(axes, pose) /\ UNCHANGED commanded
    /\ released' = FALSE /\ overtaken' = FALSE /\ UNCHANGED driving

\* Mutant: only automatic control sets the flag.
sendCmdVelMsgGoalOnly(axes, pose) ==
    /\ Command(axes, pose)
    /\ sent_disable_msg_' = (sent_disable_msg_ \/ control_mode_ = "auto_control")

sendCmdVelMsg(axes, pose) == Command(axes, pose) /\ sent_disable_msg_' = TRUE

\* Under automatic control the goals are cancelled as well: those nav2 has taken
\* up by now (async_cancel_goals_before), not one that is on its way.
sendZeroCommand ==
    /\ driving' = (driving /\ control_mode_ # "auto_control")
    /\ commanded' = FALSE /\ overtaken' = sending

Released ==
    /\ IF sent_disable_msg_ THEN sendZeroCommand /\ sent_disable_msg_' = FALSE
       ELSE UNCHANGED <<commanded, driving, overtaken, sent_disable_msg_>>
    /\ released' = TRUE
    /\ UNCHANGED <<sending, goal_sent_at, last_goal_time>>

joyCallback ==
    \E enable, turbo, axes, pose \in BOOLEAN :
        /\ IF (turbo /\ HasTurbo) \/ enable \/ ~require_enable_button_
           THEN sendCmdVelMsg(axes, pose) ELSE Released
        /\ UNCHANGED <<fixed, time>>

Next == Tick \/ GoalAccepted \/ GoalEnds \/ joyCallback

Spec == Init /\ [][Next]_vars

-----------------------------------------------------------------------------
TypeOK ==
    /\ control_mode_ \in Modes
    /\ {require_enable_button_, sent_disable_msg_, commanded, sending, driving, released, overtaken}
           \subseteq BOOLEAN
    /\ time \in 0..MaxTime /\ last_goal_time \in -1..time /\ goal_sent_at \in -1..time

\* Once the buttons are released the robot neither moves nor has a goal
\* (pb_teleop_twist_joy.cpp:150), however the release falls between the goals.
\* The one exception is a goal that was on its way when the goals were
\* cancelled: it is taken up afterwards and driven to.
ReleaseStops == released => ~commanded /\ (driving => overtaken)

\* Goals are not sent in quick succession, across releases and pauses too.
GoalsSpaced ==
    goal_sent_at' # goal_sent_at /\ goal_sent_at >= 0 => goal_sent_at' - goal_sent_at >= 2
=============================================================================
