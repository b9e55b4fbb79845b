------------------------------ MODULE NodeProofs ------------------------------
(***************************************************************************)
(* What holds of the nodes for every value of the constants: the commands  *)
(* the robot gets, the stamps and transforms, the pairs that are rendered, *)
(* the frames of the scans, the device's streams and calibration, the grids *)
(* of the terrain.  The other nodes whose code runs over data of any length *)
(* are in FoldProofs.                                                       *)
(***************************************************************************)
EXTENDS Nodes, FiniteSetTheorems, SequenceTheorems, WellFoundedInduction, TLAPS

-----------------------------------------------------------------------------
(* A step of Nodes is one of the module whose scene runs, and none of the   *)
(* others.                                                                  *)

LEMMA TeleopSteps == (Init => Teleop!Init) /\ ([Next]_vars => [Teleop!Next]_TeleopVars)
<1>1. ASSUME Next, scene = "teleop" PROVE Teleop!Next
  BY <1>1 DEF Next, Step
<1>2. ASSUME Next, scene # "teleop" PROVE UNCHANGED TeleopVars
  BY <1>2 DEF Next, OthersStand
<1> QED BY <1>1, <1>2 DEF Init, vars, modules

LEMMA BackUpSteps == (Init => BackUp!Init) /\ ([Next]_vars => [BackUp!Next]_BackUpVars)
<1>1. ASSUME Next, scene = "back_up" PROVE BackUp!Next
  BY <1>1 DEF Next, Step
<1>2. ASSUME Next, scene # "back_up" PROVE UNCHANGED BackUpVars
  BY <1>2 DEF Next, OthersStand
<1> QED BY <1>1, <1>2 DEF Init, vars, modules

LEMMA FakeVelSteps == (Init => FakeVel!Init) /\ ([Next]_vars => [FakeVel!Next]_FakeVelVars)
<1>1. ASSUME Next, scene = "fake_vel" PROVE FakeVel!Next
  BY <1>1 DEF Next, Step
<1>2. ASSUME Next, scene # "fake_vel" PROVE UNCHANGED FakeVelVars
  BY <1>2 DEF Next, OthersStand
<1> QED BY <1>1, <1>2 DEF Init, vars, modules

LEMMA RelocalSteps == (Init => Relocal!Init) /\ ([Next]_vars => [Relocal!Next]_RelocalVars)
<1>1. ASSUME Next, scene = "relocalization" PROVE Relocal!Next
  BY <1>1 DEF Next, Step
<1>2. ASSUME Next, scene # "relocalization" PROVE UNCHANGED RelocalVars
  BY <1>2 DEF Next, OthersStand
<1> QED BY <1>1, <1>2 DEF Init, vars, modules

LEMMA TfSteps == (Init => Tf!Init) /\ ([Next]_vars => [Tf!Next]_TfVars)
<1>1. ASSUME Next, scene = "transforms" PROVE Tf!Next
  BY <1>1 DEF Next, Step
<1>2. ASSUME Next, scene # "transforms" PROVE UNCHANGED TfVars
  BY <1>2 DEF Next, OthersStand
<1> QED BY <1>1, <1>2 DEF Init, vars, modules

LEMMA PairingSteps == (Init => Pairing!Init) /\ ([Next]_vars => [Pairing!Next]_PairingVars)
<1>1. ASSUME Next, scene = "pairing" PROVE Pairing!Next
  BY <1>1 DEF Next, Step
<1>2. ASSUME Next, scene # "pairing" PROVE UNCHANGED PairingVars
  BY <1>2 DEF Next, OthersStand
<1> QED BY <1>1, <1>2 DEF Init, vars, modules

LEMMA FramesSteps == (Init => Frames!Init) /\ ([Next]_vars => [Frames!Next]_FramesVars)
<1>1. ASSUME Next, scene = "frames" PROVE Frames!Next
  BY <1>1 DEF Next, Step
<1>2. ASSUME Next, scene # "frames" PROVE UNCHANGED FramesVars
  BY <1>2 DEF Next, OthersStand
<1> QED BY <1>1, <1>2 DEF Init, vars, modules

LEMMA MapOdomSteps == (Init => MapOdom!Init) /\ ([Next]_vars => [MapOdom!Next]_MapOdomVars)
<1>1. ASSUME Next, scene = "map_odom" PROVE MapOdom!Next
  BY <1>1 DEF Next, Step
<1>2. ASSUME Next, scene # "map_odom" PROVE UNCHANGED MapOdomVars
  BY <1>2 DEF Next, OthersStand
<1> QED BY <1>1, <1>2 DEF Init, vars, modules

LEMMA StreamsSteps == (Init => Streams!Init) /\ ([Next]_vars => [Streams!Next]_StreamsVars)
<1>1. ASSUME Next, scene = "streams" PROVE Streams!Next
  BY <1>1 DEF Next, Step
<1>2. ASSUME Next, scene # "streams" PROVE UNCHANGED StreamsVars
  BY <1>2 DEF Next, OthersStand
<1> QED BY <1>1, <1>2 DEF Init, vars, modules

LEMMA CalibSteps == (Init => Calib!Init) /\ ([Next]_vars => [Calib!Next]_CalibVars)
<1>1. ASSUME Next, scene = "calibration" PROVE Calib!Next
  BY <1>1 DEF Next, Step
<1>2. ASSUME Next, scene # "calibration" PROVE UNCHANGED CalibVars
  BY <1>2 DEF Next, OthersStand
<1> QED BY <1>1, <1>2 DEF Init, vars, modules

LEMMA TerrainSteps == (Init => Terrain!Init) /\ ([Next]_vars => [Terrain!Next]_TerrainVars)
<1>1. ASSUME Next, scene = "terrain" PROVE Terrain!Next
  BY <1>1 DEF Next, Step
<1>2. ASSUME Next, scene # "terrain" PROVE UNCHANGED TerrainVars
  BY <1>2 DEF Next, OthersStand
<1> QED BY <1>1, <1>2 DEF Init, vars, modules

LEMMA ExtSteps == (Init => Ext!Init) /\ ([Next]_vars => [Ext!Next]_ExtVars)
<1>1. ASSUME Next, scene = "terrain_ext" PROVE Ext!Next
  BY <1>1 DEF Next, Step
<1>2. ASSUME Next, scene # "terrain_ext" PROVE UNCHANGED ExtVars
  BY <1>2 DEF Next, OthersStand
<1> QED BY <1>1, <1>2 DEF Init, vars, modules

-----------------------------------------------------------------------------
(* The joystick node for any modes and any length of time: a release stops  *)
(* the robot, and goals keep their distance.                                *)

\* What ReleaseStops rests on: after a message that commanded something the
\* flag is set, whatever it was at the start; a goal on its way at a release is
\* known to be; and only automatic control has goals.
StopIsDue ==
    /\ Teleop!ReleaseStops
    /\ ~released => sent_disable_msg_
    /\ released /\ sending => overtaken
    /\ control_mode_ # "auto_control" => ~sending /\ ~driving

\* Once the buttons are released the robot neither moves nor has a goal, except
\* one that was on its way when the goals were cancelled (sendZeroCommand).
THEOREM ReleaseHolds == Spec => []Teleop!ReleaseStops
<1>1. Teleop!Init => StopIsDue
  BY DEF Teleop!Init, StopIsDue, Teleop!ReleaseStops
<1>2. StopIsDue /\ [Teleop!Next]_TeleopVars => StopIsDue'
  <2> SUFFICES ASSUME StopIsDue, [Teleop!Next]_TeleopVars PROVE StopIsDue'
    OBVIOUS
  <2> USE DEF StopIsDue, Teleop!ReleaseStops, Teleop!fixed, Teleop!clocks
  <2>1. CASE Teleop!Tick
    BY <2>1 DEF Teleop!Tick
  <2>2. CASE Teleop!GoalAccepted
    BY <2>2 DEF Teleop!GoalAccepted
  <2>3. CASE Teleop!GoalEnds
    BY <2>3 DEF Teleop!GoalEnds
  <2>4. CASE Teleop!joyCallback
    <3>1. UNCHANGED Teleop!fixed
      BY <2>4 DEF Teleop!joyCallback
    <3>2. ASSUME NEW axes \in BOOLEAN, NEW pose \in BOOLEAN, Teleop!sendCmdVelMsg(axes, pose)
          PROVE  StopIsDue'
      <4>1. sent_disable_msg_' = TRUE /\ released' = FALSE /\ driving' = driving
        BY <3>2 DEF Teleop!sendCmdVelMsg, Teleop!Command
      <4>2. control_mode_ # "auto_control" => sending' = sending
        BY <3>2 DEF Teleop!sendCmdVelMsg, Teleop!Command
      <4> QED BY <3>1, <4>1, <4>2
    <3>3. ASSUME Teleop!Released PROVE StopIsDue'
      BY Zenon, <3>1, <3>3 DEF Teleop!Released, Teleop!sendZeroCommand
    <3> QED BY <2>4, <3>2, <3>3 DEF Teleop!joyCallback
  <2>5. CASE UNCHANGED TeleopVars
    BY <2>5 DEF TeleopVars
  <2> QED BY <2>1, <2>2, <2>3, <2>4, <2>5 DEF Teleop!Next
<1>3. StopIsDue => Teleop!ReleaseStops
  BY DEF StopIsDue
<1> QED BY <1>1, <1>2, <1>3, TeleopSteps, PTL DEF Spec

-----------------------------------------------------------------------------
\* The clock of the goals was started by the last goal, if there was one.
ClockFollowsGoal ==
    /\ time \in Nat /\ last_goal_time \in Int /\ goal_sent_at \in Int
    /\ goal_sent_at >= 0 => last_goal_time = goal_sent_at

LEMMA ClockKept ==
    /\ Teleop!Init => ClockFollowsGoal
    /\ ClockFollowsGoal /\ [Teleop!Next]_TeleopVars => ClockFollowsGoal' /\ [Teleop!GoalsSpaced]_TeleopVars
<1> USE DEF Teleop!fixed, Teleop!clocks
<1>1. Teleop!Init => ClockFollowsGoal
  BY DEF Teleop!Init, ClockFollowsGoal
<1>2. ASSUME ClockFollowsGoal, [Teleop!Next]_TeleopVars PROVE ClockFollowsGoal' /\ [Teleop!GoalsSpaced]_TeleopVars
  <2> USE <1>2 DEF ClockFollowsGoal, Teleop!GoalsSpaced
  <2>1. CASE Teleop!Tick
    BY <2>1 DEF Teleop!Tick
  <2>2. CASE Teleop!GoalAccepted
    BY <2>2 DEF Teleop!GoalAccepted
  <2>3. CASE Teleop!GoalEnds
    BY <2>3 DEF Teleop!GoalEnds
  <2>4. CASE Teleop!joyCallback
    <3>1. UNCHANGED <<control_mode_, require_enable_button_, time>>
      BY <2>4 DEF Teleop!joyCallback
    <3>2. ASSUME NEW axes \in BOOLEAN, NEW pose \in BOOLEAN, Teleop!sendCmdVelMsg(axes, pose)
          PROVE  ClockFollowsGoal' /\ Teleop!GoalsSpaced
      <4>1. CASE UNCHANGED <<sending, goal_sent_at, last_goal_time>>
        BY <3>1, <3>2, <4>1 DEF Teleop!sendCmdVelMsg, Teleop!Command
      <4>2. CASE Teleop!sendGoalPoseAction(axes, pose) /\ UNCHANGED commanded
        BY <3>1, <3>2, <4>2 DEF Teleop!sendCmdVelMsg, Teleop!Command, Teleop!sendGoalPoseAction
      <4> QED BY <3>2, <4>1, <4>2 DEF Teleop!sendCmdVelMsg, Teleop!Command
    <3>3. ASSUME Teleop!Released PROVE ClockFollowsGoal' /\ Teleop!GoalsSpaced
      BY <3>1, <3>3 DEF Teleop!Released, Teleop!sendZeroCommand
    <3> QED BY <2>4, <3>2, <3>3 DEF Teleop!joyCallback
  <2>5. CASE UNCHANGED TeleopVars
    BY <2>5 DEF TeleopVars
  <2> QED BY <1>2, <2>1, <2>2, <2>3, <2>4, <2>5 DEF Teleop!Next
<1> QED BY <1>1, <1>2

\* Goals are 250 ms apart, also across releases (sendGoalPoseAction).
THEOREM GoalsKeepDistance == Spec => [][Teleop!GoalsSpaced]_TeleopVars
BY ClockKept, TeleopSteps, PTL DEF Spec
-----------------------------------------------------------------------------
(* The back-up behaviour for any distance and any time allowances: it ends  *)
(* with the robot standing unless the pose was lost, and never sets the     *)
(* robot going into what is not free.                                       *)

\* Only a run under way moves the robot, or the last one if it lost its pose.
OnlyRunningMoves == moving => status = "running" \/ lost

\* While no run is under way the robot stands, unless the last one lost its pose
\* (onCycleUpdate returns there without a call of stopRobot, and a goal that then
\* waits or fails in onRun does not stop the robot either).
THEOREM EndsStanding == Spec => []BackUp!StandsWhenEnded
<1>1. BackUp!Init => OnlyRunningMoves
  BY DEF BackUp!Init, OnlyRunningMoves
<1>2. OnlyRunningMoves /\ [BackUp!Next]_BackUpVars => OnlyRunningMoves'
  <2> SUFFICES ASSUME OnlyRunningMoves, [BackUp!Next]_BackUpVars PROVE OnlyRunningMoves'
    OBVIOUS
  <2> USE DEF OnlyRunningMoves
  <2>1. CASE BackUp!Goal
    BY <2>1 DEF BackUp!Goal
  <2>2. CASE BackUp!onRun
    BY <2>2 DEF BackUp!onRun
  <2>3. CASE BackUp!onCycleUpdate
    BY Zenon, <2>3 DEF BackUp!onCycleUpdate, BackUp!End
  <2>4. CASE BackUp!Elapse \/ BackUp!PoseComesOrGoes \/ BackUp!ObstacleComesOrGoes
    BY Zenon, <2>4 DEF BackUp!Elapse, BackUp!PoseComesOrGoes, BackUp!ObstacleComesOrGoes
  <2>5. CASE BackUp!Cancel
    BY Zenon, <2>5 DEF BackUp!Cancel, BackUp!End
  <2>6. CASE UNCHANGED BackUpVars
    BY <2>6 DEF BackUpVars
  <2> QED BY <2>1, <2>2, <2>3, <2>4, <2>5, <2>6 DEF BackUp!Next
<1>3. OnlyRunningMoves => BackUp!StandsWhenEnded
  BY DEF OnlyRunningMoves, BackUp!StandsWhenEnded
<1> QED BY <1>1, <1>2, <1>3, BackUpSteps, PTL DEF Spec

\* A step that sets the robot going is a cycle that found the way free, the
\* pose known, and neither the distance done nor the time up.
THEOREM StartsOnlySafely == Spec => [][BackUp!StartsSafely]_BackUpVars
<1>1. [BackUp!Next]_BackUpVars => [BackUp!StartsSafely]_BackUpVars
  <2> SUFFICES ASSUME BackUp!Next PROVE BackUp!StartsSafely
    OBVIOUS
  <2>1. CASE BackUp!onCycleUpdate
    BY Zenon, <2>1 DEF BackUp!onCycleUpdate, BackUp!End, BackUp!StartsSafely
  <2>2. CASE BackUp!Goal \/ BackUp!onRun \/ BackUp!Elapse \/ BackUp!Cancel \/ BackUp!PoseComesOrGoes \/ BackUp!ObstacleComesOrGoes
    BY Zenon, <2>2 DEF BackUp!Goal, BackUp!onRun, BackUp!Elapse, BackUp!Cancel, BackUp!End,
       BackUp!PoseComesOrGoes, BackUp!ObstacleComesOrGoes, BackUp!StartsSafely
  <2> QED BY <2>1, <2>2 DEF BackUp!Next
<1> QED BY <1>1, BackUpSteps, PTL DEF Spec
-----------------------------------------------------------------------------
(* The velocity transform for any number of commands, yaws and speeds: no   *)
(* command is forgotten for an older one, and the frame in which the        *)
(* controller plans turns only together with a command.                     *)

\* A command that was not published when it came is the one that waits, and is
\* not a zero one; a pair of a plan and an odometry message publishes it.
THEOREM NewestIsKept == Spec => []FakeVel!NewestKept
<1>1. FakeVel!Init => FakeVel!NewestKept
  BY DEF FakeVel!Init, FakeVel!NewestKept
<1>2. FakeVel!NewestKept /\ [FakeVel!Next]_FakeVelVars => FakeVel!NewestKept'
  <2> SUFFICES ASSUME FakeVel!NewestKept, [FakeVel!Next]_FakeVelVars PROVE FakeVel!NewestKept'
    OBVIOUS
  <2> USE DEF FakeVel!NewestKept
  <2>1. CASE FakeVel!cmdSpinCallback \/ FakeVel!localPlanCallback \/ FakeVel!ControllerSilent
    BY <2>1 DEF FakeVel!cmdSpinCallback, FakeVel!localPlanCallback, FakeVel!ControllerSilent
  <2>2. CASE FakeVel!odometryCallback
    BY <2>2 DEF FakeVel!odometryCallback
  <2>3. CASE FakeVel!cmdVelCallback
    BY <2>3 DEF FakeVel!cmdVelCallback
  <2>4. CASE FakeVel!syncCallback
    BY Zenon, <2>4 DEF FakeVel!syncCallback
  <2>5. CASE UNCHANGED FakeVelVars
    BY <2>5 DEF FakeVelVars
  <2> QED BY <2>1, <2>2, <2>3, <2>4, <2>5 DEF FakeVel!Next
<1> QED BY <1>1, <1>2, FakeVelSteps, PTL DEF Spec

\* While the controller is active the fake frame turns only with the command
\* that is published with that angle (publishTransform, syncCallback).
THEOREM FrameTurnsOnlyWithCommand == Spec => [][FakeVel!FrameTurnsWithCommand]_FakeVelVars
<1>1. [FakeVel!Next]_FakeVelVars => [FakeVel!FrameTurnsWithCommand]_FakeVelVars
  <2> SUFFICES ASSUME FakeVel!Next PROVE FakeVel!FrameTurnsWithCommand
    OBVIOUS
  <2> USE DEF FakeVel!FrameTurnsWithCommand
  <2>1. CASE FakeVel!cmdSpinCallback \/ FakeVel!localPlanCallback \/ FakeVel!ControllerSilent
    BY Zenon, <2>1 DEF FakeVel!cmdSpinCallback, FakeVel!localPlanCallback, FakeVel!ControllerSilent
  <2>2. CASE FakeVel!odometryCallback \/ FakeVel!cmdVelCallback
    BY Zenon, <2>2 DEF FakeVel!odometryCallback, FakeVel!cmdVelCallback
  <2>3. CASE FakeVel!syncCallback
    BY <2>3 DEF FakeVel!syncCallback, FakeVel!transformVelocity
  <2> QED BY <2>1, <2>2, <2>3 DEF FakeVel!Next
<1> QED BY <1>1, FakeVelSteps, PTL DEF Spec
-----------------------------------------------------------------------------
(* The relocalization for any poses and any number of scans: an attempt     *)
(* starts from the pose found or given last, and a transform that reaches   *)
(* the listeners with a new stamp carries it.                               *)

RelocInv == heard.stamp \in Int /\ last_scan_time_ \in Int /\ Relocal_scans \in Int /\ Relocal!StartsFromLast

LEMMA RelocKept ==
    /\ Relocal!Init => RelocInv
    /\ RelocInv /\ [Relocal!Next]_RelocalVars => RelocInv' /\ [Relocal!FreshScanCarriesPose]_RelocalVars
<1>1. Relocal!Init => RelocInv
  BY DEF Relocal!Init, RelocInv, Relocal!StartsFromLast
<1>2. ASSUME RelocInv, [Relocal!Next]_RelocalVars PROVE RelocInv' /\ [Relocal!FreshScanCarriesPose]_RelocalVars
  <2> USE <1>2 DEF RelocInv, Relocal!StartsFromLast, Relocal!FreshScanCarriesPose
  <2>1. CASE Relocal!BaseTransform \/ Relocal!loadGlobalMap
    BY <2>1 DEF Relocal!BaseTransform, Relocal!loadGlobalMap
  <2>2. CASE Relocal!registeredPcdCallback
    BY <2>2 DEF Relocal!registeredPcdCallback
  <2>3. CASE Relocal!performRegistration
    BY <2>3 DEF Relocal!performRegistration, Relocal!Converge
  <2>4. CASE Relocal!publishTransform
    <3>1. heard' = heard \/ heard' = [stamp |-> last_scan_time_, pose |-> result_t_]
      BY <2>4 DEF Relocal!publishTransform, Relocal!NextStamp
    <3>2. heard'.stamp > heard.stamp => heard'.pose = given /\ heard'.stamp = last_scan_time_
      BY <3>1
    <3> QED BY <2>4, <3>1, <3>2 DEF Relocal!publishTransform
  <2>5. CASE Relocal!initialPoseCallback
    BY <2>5 DEF Relocal!initialPoseCallback, Relocal!Converge
  <2>6. CASE UNCHANGED RelocalVars
    BY <2>6 DEF RelocalVars
  <2> QED BY <1>2, <2>1, <2>2, <2>3, <2>4, <2>5, <2>6 DEF Relocal!Next
<1> QED BY <1>1, <1>2

\* performRegistration starts where the last attempt or the operator left it.
THEOREM StartsFromLastHolds == Spec => []Relocal!StartsFromLast
<1>1. (Relocal!Init => RelocInv) /\ (RelocInv /\ [Relocal!Next]_RelocalVars => RelocInv')
  BY RelocKept
<1>2. RelocInv => Relocal!StartsFromLast
  BY DEF RelocInv
<1> QED BY <1>1, <1>2, RelocalSteps, PTL DEF Spec

\* publishTransform stamps by the last scan, so that a transform newer than
\* what a listener has is the pose found or given last.
THEOREM NewStampIsNewPose == Spec => [][Relocal!FreshScanCarriesPose]_RelocalVars
<1>1. (Relocal!Init => RelocInv) /\ (RelocInv /\ [Relocal!Next]_RelocalVars => RelocInv' /\ [Relocal!FreshScanCarriesPose]_RelocalVars)
  BY RelocKept
<1> QED BY <1>1, RelocalSteps, PTL DEF Spec
-----------------------------------------------------------------------------
(* The transforms of the odin driver, for any delay of the samples: the      *)
(* stamps of the thread that repeats them increase, and never pass the       *)
(* device's clock while the device is the one it was.                        *)

\* The transform that is cached runs with the host's clock from a stamp that was
\* not ahead of the device's; a thread that is awake has not used its millisecond.
TfInv ==
    /\ device_clock \in Nat /\ clock \in Nat /\ last_published \in Nat /\ boots \in Nat \ {0}
    /\ \/ cached = {}
       \/ \E stamp, at \in Int :
             /\ cached = {[stamp |-> stamp, at |-> at]}
             /\ boots = 1 => stamp + (clock - at) <= device_clock
    /\ boots = 1 => /\ last_published <= device_clock
                    /\ Tf_publisher = "awake" => last_published < device_clock

\* NextStamp: the extrapolated stamp, or the one after the last.
LEMMA StampAfterLast ==
    ASSUME NEW stamp \in Int, NEW at \in Int, cached = {[stamp |-> stamp, at |-> at]},
           clock \in Nat, last_published \in Nat
    PROVE  /\ Tf!NextStamp \in Nat /\ Tf!NextStamp > last_published
           /\ Tf!NextStamp = last_published + 1 \/ Tf!NextStamp = stamp + (clock - at)
<1> DEFINE e == stamp + (clock - at)
<1>1. Tf!Estimate = CHOOSE x \in {c.stamp + (clock - c.at) : c \in cached} : TRUE
  BY DEF Tf!Estimate
<1>2. {c.stamp + (clock - c.at) : c \in cached} = {e}
  OBVIOUS
<1>3. Tf!Estimate = e
  BY <1>1, <1>2
<1> QED BY <1>3 DEF Tf!NextStamp

LEMMA TfKept ==
    /\ Init => TfInv
    /\ TfInv /\ [Tf!Next]_TfVars => TfInv' /\ Tf!RepublishedIncrease
<1>1. Init => TfInv
  BY DEF Init, Tf!Init, TfInv
<1>2. ASSUME TfInv, [Tf!Next]_TfVars PROVE TfInv' /\ Tf!RepublishedIncrease
  <2> USE <1>2 DEF TfInv, Tf!RepublishedIncrease
  <2>1. CASE Tf!Tick
    BY <2>1 DEF Tf!Tick
  <2>2. CASE Tf!Restart
    BY <2>2 DEF Tf!Restart
  <2>3. CASE Tf!publishWiwc \/ Tf!StopThread
    BY <2>3 DEF Tf!publishWiwc, Tf!StopThread
  <2>4. CASE Tf!publishOdometry
    <3>1. PICK stamp \in (device_clock - Delay)..device_clock :
              cached' = {[stamp |-> stamp, at |-> clock]}
      BY <2>4 DEF Tf!publishOdometry
    <3>2. UNCHANGED <<device_clock, clock, boots, last_published, Tf_publisher, Tf_running>>
      BY <2>4 DEF Tf!publishOdometry
    <3>3. stamp \in Int /\ clock \in Int /\ stamp + (clock - clock) <= device_clock
      BY TfAssumption
    <3> QED BY <3>1, <3>2, <3>3
  <2>5. CASE Tf!Republish
    <3>1. UNCHANGED <<device_clock, clock, boots, cached, Tf_running>>
      BY <2>5 DEF Tf!Republish
    <3>2. Tf_publisher = "awake" /\ Tf_publisher' # "awake"
      BY <2>5 DEF Tf!Republish
    <3>3. CASE Tf_running /\ cached # {}
      <4>1. last_published' = Tf!NextStamp
        BY <2>5, <3>3 DEF Tf!Republish
      <4>2. PICK stamp, at \in Int :
                /\ cached = {[stamp |-> stamp, at |-> at]}
                /\ boots = 1 => stamp + (clock - at) <= device_clock
        BY <3>3
      <4>3. /\ last_published' \in Nat /\ last_published' > last_published
            /\ last_published' = last_published + 1 \/ last_published' = stamp + (clock - at)
        BY <4>1, <4>2, StampAfterLast
      <4>4. boots = 1 => last_published' <= device_clock
        BY <3>2, <4>2, <4>3
      <4> QED BY <3>1, <3>2, <4>3, <4>4
    <3>4. CASE ~(Tf_running /\ cached # {})
      BY <2>5, <3>1, <3>2, <3>4 DEF Tf!Republish
    <3> QED BY <3>3, <3>4
  <2>6. CASE UNCHANGED TfVars
    BY <2>6 DEF TfVars
  <2> QED BY <2>1, <2>2, <2>3, <2>4, <2>5, <2>6 DEF Tf!Next
<1> QED BY <1>1, <1>2

\* The repeated stamps never pass the device's clock (the loop of the thread that
\* startTfExtraPublishTimer starts).
THEOREM StampsNotAhead == Spec => []Tf!NeverInTheFuture
<1>1. TfInv => Tf!NeverInTheFuture
  BY DEF TfInv, Tf!NeverInTheFuture
<1>2. (Init => TfInv) /\ (TfInv /\ [Tf!Next]_TfVars => TfInv')
  BY TfKept
<1> QED BY <1>1, <1>2, TfSteps, PTL DEF Spec

\* The thread stamps each transform later than the last, and a transform of the
\* relocalization that is new for the listeners carries the newest pose.
THEOREM StampsDoAdvance ==
    Spec => [][Tf!RepublishedIncrease /\ Relocal!FreshScanCarriesPose]_vars
<1>1. TfInv /\ RelocInv /\ [Next]_vars =>
          TfInv' /\ RelocInv' /\ [Tf!RepublishedIncrease /\ Relocal!FreshScanCarriesPose]_vars
  <2> SUFFICES ASSUME TfInv, RelocInv, [Next]_vars
               PROVE  TfInv' /\ RelocInv' /\ Tf!RepublishedIncrease /\ Relocal!FreshScanCarriesPose
    OBVIOUS
  <2>1. TfInv' /\ Tf!RepublishedIncrease
    BY TfKept, TfSteps
  <2>2. RelocInv' /\ [Relocal!FreshScanCarriesPose]_RelocalVars
    BY RelocKept, RelocalSteps
  <2>3. UNCHANGED RelocalVars => Relocal!FreshScanCarriesPose
    BY DEF RelocInv, RelocalVars, Relocal!FreshScanCarriesPose
  <2> QED BY <2>1, <2>2, <2>3
<1>2. Init => TfInv /\ RelocInv
  BY TfKept, RelocKept, RelocalSteps
<1> QED BY <1>1, <1>2, PTL DEF Spec

-----------------------------------------------------------------------------
\* The robot stands when the back-up behaviour has ended and when the buttons are
\* released, and no command is forgotten for an older one.
THEOREM CommandsDoHold == Spec => []CommandsHold
BY NewestIsKept, EndsStanding, ReleaseHolds, PTL DEF CommandsHold
-----------------------------------------------------------------------------
(* The pairs of images and clouds, for queues of any length, any tolerance   *)
(* and any number of connections: they are rendered in order, and two that   *)
(* match are given up only for another match.                                *)

Message == Pairing!Message

\* The messages of one stream: q are queued, hand is what is picked of them, those
\* of connection n have come and those in done are rendered.  They stand in the
\* order they came: rendered, in hand, queued; and the one in hand is the front of
\* the queue unless the queue has lost it.
InLine(n, q, hand, come, done) ==
    /\ q \in Seq(Message) /\ hand \subseteq Message /\ come \subseteq Message
    /\ done \subseteq Message
    /\ \A a \in come : a.session = n
    /\ \A i \in 1..Len(q) : q[i].session < n \/ q[i] \in come
    /\ \A x \in hand \cup done : x.session < n \/ x \in come
    /\ \A i, j \in 1..Len(q) : i < j => Pairing!Before(q[i], q[j])
    /\ \A x \in done, i \in 1..Len(q) : Pairing!Before(x, q[i])
    /\ \A x \in done, y \in hand : Pairing!Before(x, y)
    /\ \A x \in hand, i \in 1..Len(q) : Pairing!Before(x, q[i]) \/ (i = 1 /\ q[i] = x)

LEMMA MessageFields ==
    ASSUME NEW m \in Message PROVE m.session \in Nat /\ m.stamp \in Nat
BY PairingAssumption DEF Message, Pairing!Message

\* Whatever is known of the stream is before a message that comes in.
LEMMA NewIsLast ==
    ASSUME NEW n \in Nat, NEW come \in SUBSET Message, NEW m \in Message, m.session = n,
           \A a \in come : a.stamp < m.stamp, \A a \in come : a.session = n,
           NEW x \in Message, x.session < n \/ x \in come
    PROVE  Pairing!Before(x, m)
BY MessageFields DEF Pairing!Before

LEMMA AppendedAt ==
    ASSUME NEW q \in Seq(Message), NEW m \in Message
    PROVE  /\ Append(q, m) \in Seq(Message) /\ Len(Append(q, m)) = Len(q) + 1
           /\ Append(q, m)[Len(q) + 1] = m
           /\ \A i \in 1..Len(q) : Append(q, m)[i] = q[i]
OBVIOUS

LEMMA TailAt ==
    ASSUME NEW q \in Seq(Message), q # <<>>
    PROVE  /\ Tail(q) \in Seq(Message) /\ Len(Tail(q)) = Len(q) - 1 /\ Len(q) \in Nat \ {0}
           /\ \A i \in 1..Len(Tail(q)) : i + 1 \in 1..Len(q) /\ Tail(q)[i] = q[i + 1]
           /\ Head(q) = q[1] /\ Head(q) \in Message
OBVIOUS

\* A front that is lost leaves the rest in line.
LEMMA LineLoses ==
    ASSUME NEW n \in Nat, NEW q, NEW hand, NEW come, NEW done,
           InLine(n, q, hand, come, done), q # <<>>
    PROVE  InLine(n, Tail(q), hand, come, done)
<1> USE DEF InLine
<1>1. /\ Tail(q) \in Seq(Message) /\ Len(Tail(q)) = Len(q) - 1 /\ Len(q) \in Nat \ {0}
      /\ \A i \in 1..Len(Tail(q)) : i + 1 \in 1..Len(q) /\ Tail(q)[i] = q[i + 1]
  BY TailAt
<1>2. \A x \in hand, i \in 1..Len(Tail(q)) : Pairing!Before(x, Tail(q)[i])
  <2> TAKE x \in hand, i \in 1..Len(Tail(q))
  <2>1. i + 1 \in 1..Len(q) /\ Tail(q)[i] = q[i + 1] /\ i + 1 # 1
    BY <1>1
  <2> QED BY <2>1
<1>3. \A i, j \in 1..Len(Tail(q)) : i < j => Pairing!Before(Tail(q)[i], Tail(q)[j])
  <2> TAKE i, j \in 1..Len(Tail(q))
  <2> HAVE i < j
  <2>1. i + 1 < j + 1
    BY <1>1
  <2> QED BY <1>1, <2>1
<1> QED BY <1>1, <1>2, <1>3

LEMMA LineGrows ==
    ASSUME NEW n \in Nat, NEW q, NEW hand, NEW come, NEW done,
           InLine(n, q, hand, come, done), NEW m \in Message, m.session = n,
           \A a \in come : a.stamp < m.stamp
    PROVE  InLine(n, Append(q, m), hand, come \cup {m}, done)
<1> USE DEF InLine
<1>1. /\ Append(q, m) \in Seq(Message) /\ Len(Append(q, m)) = Len(q) + 1 /\ Len(q) \in Nat
      /\ Append(q, m)[Len(q) + 1] = m
      /\ \A i \in 1..Len(q) : Append(q, m)[i] = q[i]
  BY AppendedAt
<1>2. \A x \in Message : x.session < n \/ x \in come => Pairing!Before(x, m)
  BY NewIsLast
<1>3. \A i \in 1..Len(q) : q[i] \in Message
  OBVIOUS
<1>4. \A i \in 1..Len(Append(q, m)) : i \in 1..Len(q) \/ i = Len(q) + 1
  BY <1>1
<1>5. \A i \in 1..Len(Append(q, m)) :
          Append(q, m)[i].session < n \/ Append(q, m)[i] \in come \cup {m}
  BY <1>1, <1>4
<1>6. \A i, j \in 1..Len(Append(q, m)) : i < j => Pairing!Before(Append(q, m)[i], Append(q, m)[j])
  <2> TAKE i, j \in 1..Len(Append(q, m))
  <2> HAVE i < j
  <2>1. i \in 1..Len(q)
    BY <1>1, <1>4
  <2>2. CASE j \in 1..Len(q)
    BY <1>1, <2>1, <2>2
  <2>3. CASE j = Len(q) + 1
    BY <1>1, <1>2, <1>3, <2>1, <2>3
  <2> QED BY <1>4, <2>2, <2>3
<1>7. \A x \in done, i \in 1..Len(Append(q, m)) : Pairing!Before(x, Append(q, m)[i])
  BY <1>1, <1>2, <1>4
<1>8. \A x \in hand, i \in 1..Len(Append(q, m)) :
          Pairing!Before(x, Append(q, m)[i]) \/ (i = 1 /\ Append(q, m)[i] = x)
  BY <1>1, <1>2, <1>4
<1> QED BY <1>1, <1>5, <1>6, <1>7, <1>8

\* publishRgb, publishIntensityCloud: a full queue loses its front first.
LEMMA LineQueues ==
    ASSUME NEW n \in Nat, NEW q, NEW hand, NEW come, NEW done,
           InLine(n, q, hand, come, done), NEW m \in Message, m.session = n,
           \A a \in come : a.stamp < m.stamp
    PROVE  /\ InLine(n, Pairing!Queued(q, m), hand, come \cup {m}, done)
           /\ Pairing!Queued(q, m) # <<>>
<1>1. q \in Seq(Message)
  BY DEF InLine
<1>2. CASE Len(q) >= Limit
  <2>1. q # <<>>
    BY <1>1, <1>2, PairingAssumption
  <2>2. InLine(n, Append(Tail(q), m), hand, come \cup {m}, done)
    BY <2>1, LineLoses, LineGrows
  <2>3. Pairing!Queued(q, m) = Append(Tail(q), m)
    BY <1>2 DEF Pairing!Queued
  <2>4. Len(Append(Tail(q), m)) = Len(Tail(q)) + 1 /\ Len(Tail(q)) \in Nat
    BY <1>1, <2>1
  <2> QED BY <2>2, <2>3, <2>4
<1>3. CASE ~(Len(q) >= Limit)
  <2>1. Pairing!Queued(q, m) = Append(q, m)
    BY <1>3 DEF Pairing!Queued
  <2>2. Len(Append(q, m)) = Len(q) + 1 /\ Len(q) \in Nat
    BY <1>1
  <2> QED BY <2>1, <2>2, LineGrows
<1> QED BY <1>2, <1>3

\* LookAtFronts.
LEMMA LineLooked ==
    ASSUME NEW n \in Nat, NEW q, NEW come, NEW done,
           InLine(n, q, {}, come, done), q # <<>>
    PROVE  InLine(n, q, {Head(q)}, come, done)
<1> USE DEF InLine
<1>1. Head(q) = q[1] /\ Head(q) \in Message /\ 1 \in 1..Len(q)
  BY TailAt
<1>2. \A i \in 1..Len(q) : i # 1 => 1 < i
  OBVIOUS
<1>3. \A i \in 1..Len(q) : Pairing!Before(q[1], q[i]) \/ i = 1
  BY <1>1, <1>2
<1> QED BY <1>1, <1>3

\* DropOlder; and process_pair, which renders what is in hand.
LEMMA LineDrops ==
    ASSUME NEW n \in Nat, NEW q, NEW hand, NEW come, NEW done,
           InLine(n, q, hand, come, done)
    PROVE  InLine(n, q, {}, come, done)
BY DEF InLine

LEMMA LineShown ==
    ASSUME NEW n \in Nat, NEW q, NEW h, NEW come, NEW done,
           InLine(n, q, {h}, come, done), q # <<>>
    PROVE  InLine(n, Tail(q), {}, come, done \cup {h})
<1>1. InLine(n, Tail(q), {h}, come, done)
  BY LineLoses
<1>2. \A i \in 1..Len(Tail(q)) : Pairing!Before(h, Tail(q)[i])
  <2> TAKE i \in 1..Len(Tail(q))
  <2>1. q \in Seq(Message)
    BY DEF InLine
  <2>2. i + 1 \in 1..Len(q) /\ Tail(q)[i] = q[i + 1] /\ i + 1 # 1
    BY <2>1, TailAt
  <2> QED BY <2>2 DEF InLine
<1> QED BY <1>1, <1>2 DEF InLine

\* Reattach.
LEMMA LineReattached ==
    ASSUME NEW n \in Nat, NEW q, NEW hand, NEW come, NEW done,
           InLine(n, q, hand, come, done)
    PROVE  InLine(n + 1, q, hand, {}, done)
<1> USE DEF InLine
<1>1. \A x \in Message : x.session < n \/ x \in come => x.session < n + 1
  BY MessageFields
<1>2. \A i \in 1..Len(q) : q[i] \in Message
  OBVIOUS
<1> QED BY <1>1, <1>2

\* The messages a and b of the two streams that are queued (qa, qb) and rendered
\* (da, db): one that is neither has a message of the other stream too far after
\* it, and of two that match both are queued or one is rendered.
Sorted(a, b, qa, qb, da, db) ==
    /\ \A x \in a : x \in da \/ x \in qa \/ \E y \in b : y.stamp > x.stamp + Tolerance
    /\ \A y \in b : y \in db \/ y \in qb \/ \E x \in a : x.stamp > y.stamp + Tolerance
    /\ \A x \in a, y \in b : x.stamp - y.stamp \in -Tolerance..Tolerance =>
           x \in da \/ y \in db \/ (x \in qa /\ y \in qb)

LEMMA SortedSwaps ==
    ASSUME NEW a \in SUBSET Message, NEW b \in SUBSET Message, NEW qa, NEW qb, NEW da, NEW db,
           Sorted(a, b, qa, qb, da, db)
    PROVE  Sorted(b, a, qb, qa, db, da)
<1>1. \A x \in a, y \in b : y.stamp - x.stamp \in -Tolerance..Tolerance
          => x.stamp - y.stamp \in -Tolerance..Tolerance
  BY MessageFields, PairingAssumption
<1> QED BY <1>1 DEF Sorted

\* A message that comes is after the ones a partner was missed for.
LEMMA SortedArrives ==
    ASSUME NEW a \in SUBSET Message, NEW b \in SUBSET Message, NEW qa, NEW qb, NEW da, NEW db,
           Sorted(a, b, qa, qb, da, db), NEW m \in Message, \A x \in a : x.stamp < m.stamp
    PROVE  Sorted(a \cup {m}, b, qa \cup {m}, qb, da, db)
<1>1. \A y \in b : m.stamp - y.stamp \in -Tolerance..Tolerance => y \in db \/ y \in qb
  <2> TAKE y \in b
  <2>1. ASSUME NEW x \in a, x.stamp > y.stamp + Tolerance,
               m.stamp - y.stamp \in -Tolerance..Tolerance
        PROVE  FALSE
    <3>1. x.stamp < m.stamp /\ x.stamp \in Nat /\ m.stamp \in Nat /\ y.stamp \in Nat
      BY MessageFields
    <3> QED BY <2>1, <3>1, PairingAssumption
  <2> QED BY <2>1 DEF Sorted
<1> QED BY <1>1 DEF Sorted

\* A front is dropped: the other front, and all behind it, is too far after it.
LEMMA SortedDrops ==
    ASSUME NEW a \in SUBSET Message, NEW b \in SUBSET Message, NEW qa, NEW qb, NEW da, NEW db,
           Sorted(a, b, qa, qb, da, db), NEW x \in Message, NEW y \in b,
           y.stamp > x.stamp + Tolerance, \A z \in qb : z \in Message /\ z.stamp >= y.stamp,
           NEW rest, qa \subseteq rest \cup {x}
    PROVE  Sorted(a, b, rest, qb, da, db)
<1>1. \A z \in qb : ~(x.stamp - z.stamp \in -Tolerance..Tolerance)
  <2> TAKE z \in qb
  <2>1. x.stamp \in Nat /\ y.stamp \in Nat /\ z.stamp \in Nat /\ z.stamp >= y.stamp
    BY MessageFields
  <2> QED BY <2>1, PairingAssumption
<1> QED BY <1>1 DEF Sorted

LEMMA SortedShows ==
    ASSUME NEW a, NEW b, NEW qa, NEW qb, NEW da, NEW db, Sorted(a, b, qa, qb, da, db),
           NEW x, NEW y, NEW resta, qa \subseteq resta \cup {x}, NEW restb, qb \subseteq restb \cup {y}
    PROVE  Sorted(a, b, resta, restb, da \cup {x}, db \cup {y})
BY DEF Sorted

-----------------------------------------------------------------------------
\* What try_process_pair has in hand of stream i, and what it has rendered.
InHand(i) == IF picked = <<>> THEN {} ELSE {picked[i]}
ShownOf(r, i) == {r[k][i] : k \in 1..Len(r)}

Pairs == Message \X Message

PairTypes ==
    /\ session \in Nat \ {0} /\ rendered \in Seq(Pairs) /\ picked \in {<<>>} \cup Pairs
    /\ picked # <<>> => rgb_image_queue_ # <<>> /\ pcd_queue_ # <<>>

ImagesInLine ==
    InLine(session, rgb_image_queue_, InHand(1), Pairing_images, ShownOf(rendered, 1))
CloudsInLine ==
    InLine(session, pcd_queue_, InHand(2), Pairing_clouds, ShownOf(rendered, 2))

Matches ==
    ~overflowed /\ session = 1 =>
        /\ picked # <<>> => picked = <<Head(rgb_image_queue_), Head(pcd_queue_)>>
        /\ Sorted(Pairing_images, Pairing_clouds, Pairing!Range(rgb_image_queue_),
                  Pairing!Range(pcd_queue_), ShownOf(rendered, 1), ShownOf(rendered, 2))

PairInv ==
    PairTypes /\ ImagesInLine /\ CloudsInLine /\ Pairing!RenderedInOrder /\ Matches

LEMMA SetOfAppended ==
    ASSUME NEW q \in Seq(Message), NEW m \in Message
    PROVE  Pairing!Range(Append(q, m)) = Pairing!Range(q) \cup {m}
<1>1. \A i \in 1..Len(q) + 1 : i \in 1..Len(q) \/ i = Len(q) + 1
  OBVIOUS
<1>2. Len(q) + 1 \in 1..Len(q) + 1 /\ \A i \in 1..Len(q) : i \in 1..Len(q) + 1
  OBVIOUS
<1>3. /\ DOMAIN Append(q, m) = 1..Len(q) + 1 /\ DOMAIN q = 1..Len(q)
  OBVIOUS
<1> QED BY <1>1, <1>2, <1>3, AppendedAt DEF Pairing!Range

LEMMA SetOfTail ==
    ASSUME NEW q \in Seq(Message), q # <<>>
    PROVE  Pairing!Range(q) \subseteq Pairing!Range(Tail(q)) \cup {Head(q)}
<1>1. /\ DOMAIN Tail(q) = 1..Len(q) - 1 /\ DOMAIN q = 1..Len(q) /\ Len(q) \in Nat
      /\ Len(Tail(q)) = Len(q) - 1
  OBVIOUS
<1>2. ASSUME NEW i \in 1..Len(q), i # 1 PROVE q[i] \in Pairing!Range(Tail(q))
  <2>1. i - 1 \in 1..Len(Tail(q)) /\ i - 1 + 1 = i
    BY <1>1, <1>2
  <2>2. Tail(q)[i - 1] = q[i]
    BY <2>1, TailAt
  <2> QED BY Zenon, <1>1, <2>1, <2>2 DEF Pairing!Range
<1> QED BY <1>1, <1>2, TailAt DEF Pairing!Range

LEMMA ShownAppended ==
    ASSUME NEW r \in Seq(Pairs), NEW p \in Pairs, NEW i \in {1, 2}
    PROVE  ShownOf(Append(r, p), i) = ShownOf(r, i) \cup {p[i]}
<1>1. \A k \in 1..Len(r) + 1 : k \in 1..Len(r) \/ k = Len(r) + 1
  OBVIOUS
<1>2. Len(r) + 1 \in 1..Len(r) + 1 /\ \A k \in 1..Len(r) : k \in 1..Len(r) + 1
  OBVIOUS
<1>3. /\ Len(Append(r, p)) = Len(r) + 1 /\ Append(r, p)[Len(r) + 1] = p
      /\ \A k \in 1..Len(r) : Append(r, p)[k] = r[k]
  OBVIOUS
<1> QED BY <1>1, <1>2, <1>3 DEF ShownOf

-----------------------------------------------------------------------------
\* What comes in while a queue is not full.
LEMMA QueuesNoOverflow ==
    ASSUME NEW q \in Seq(Message), NEW m \in Message, ~(Len(q) >= Limit)
    PROVE  /\ Pairing!Queued(q, m) = Append(q, m)
           /\ q # <<>> => Head(Append(q, m)) = Head(q)
BY DEF Pairing!Queued

\* publishRgb of either stream keeps what is known of matches.
LEMMA PairImageKept == PairInv /\ Pairing!publishRgb => PairInv'
<1> SUFFICES ASSUME PairInv, Pairing!publishRgb PROVE PairInv'
  OBVIOUS
<1>1. PICK m \in Pairing!Next1(Pairing_images) :
          /\ rgb_image_queue_' = Pairing!Queued(rgb_image_queue_, m)
          /\ Pairing_images' = Pairing_images \cup {m}
  BY DEF Pairing!publishRgb
<1>2. m \in Message /\ m.session = session /\ \A a \in Pairing_images : a.stamp < m.stamp
  BY DEF Pairing!Next1, Message
<1>3. UNCHANGED <<pcd_queue_, picked, session, Pairing_clouds, rendered>>
  BY DEF Pairing!publishRgb
<1>4. InHand(1)' = InHand(1) /\ InHand(2)' = InHand(2)
  BY <1>3 DEF InHand
<1>5. session \in Nat /\ InLine(session, rgb_image_queue_, InHand(1), Pairing_images, ShownOf(rendered, 1))
  BY DEF PairInv, PairTypes, ImagesInLine
<1>6. /\ InLine(session, rgb_image_queue_', InHand(1), Pairing_images', ShownOf(rendered, 1))
      /\ rgb_image_queue_' # <<>>
  BY <1>1, <1>2, <1>5, LineQueues
<1>7. PairTypes' /\ ImagesInLine' /\ CloudsInLine' /\ Pairing!RenderedInOrder'
  BY <1>3, <1>4, <1>6 DEF PairInv, PairTypes, ImagesInLine, CloudsInLine, Pairing!RenderedInOrder
<1>8. Matches'
  <2> SUFFICES ASSUME ~overflowed', session' = 1 PROVE Matches'
    BY DEF Matches
  <2>1. ~overflowed /\ ~(Len(rgb_image_queue_) >= Limit) /\ session = 1
    BY Zenon, <1>3 DEF Pairing!publishRgb
  <2>2. rgb_image_queue_ \in Seq(Message) /\ Pairing_images \subseteq Message
    BY <1>5 DEF InLine
  <2>3. Pairing_clouds \subseteq Message
    BY DEF PairInv, CloudsInLine, InLine
  <2>4. /\ Pairing!Range(rgb_image_queue_') = Pairing!Range(rgb_image_queue_) \cup {m}
        /\ rgb_image_queue_ # <<>> => Head(rgb_image_queue_') = Head(rgb_image_queue_)
    BY Zenon, <1>1, <1>2, <2>1, <2>2, SetOfAppended, QueuesNoOverflow
  <2>5. Sorted(Pairing_images', Pairing_clouds, Pairing!Range(rgb_image_queue_'),
               Pairing!Range(pcd_queue_), ShownOf(rendered, 1), ShownOf(rendered, 2))
    <3>1. Sorted(Pairing_images, Pairing_clouds, Pairing!Range(rgb_image_queue_),
                 Pairing!Range(pcd_queue_), ShownOf(rendered, 1), ShownOf(rendered, 2))
      BY <2>1 DEF PairInv, Matches
    <3> QED BY <1>1, <1>2, <2>2, <2>3, <2>4, <3>1, SortedArrives
  <2>6. picked' # <<>> => picked' = <<Head(rgb_image_queue_'), Head(pcd_queue_')>>
    BY <1>3, <2>1, <2>4 DEF PairInv, PairTypes, Matches
  <2> QED BY <1>3, <2>5, <2>6 DEF Matches
<1> QED BY <1>7, <1>8 DEF PairInv

LEMMA PairCloudKept == PairInv /\ Pairing!publishIntensityCloud => PairInv'
<1> SUFFICES ASSUME PairInv, Pairing!publishIntensityCloud PROVE PairInv'
  OBVIOUS
<1>1. PICK m \in Pairing!Next1(Pairing_clouds) :
          /\ pcd_queue_' = Pairing!Queued(pcd_queue_, m)
          /\ Pairing_clouds' = Pairing_clouds \cup {m}
  BY DEF Pairing!publishIntensityCloud
<1>2. m \in Message /\ m.session = session /\ \A a \in Pairing_clouds : a.stamp < m.stamp
  BY DEF Pairing!Next1, Message
<1>3. UNCHANGED <<rgb_image_queue_, picked, session, Pairing_images, rendered>>
  BY DEF Pairing!publishIntensityCloud
<1>4. InHand(1)' = InHand(1) /\ InHand(2)' = InHand(2)
  BY <1>3 DEF InHand
<1>5. session \in Nat /\ InLine(session, pcd_queue_, InHand(2), Pairing_clouds, ShownOf(rendered, 2))
  BY DEF PairInv, PairTypes, CloudsInLine
<1>6. /\ InLine(session, pcd_queue_', InHand(2), Pairing_clouds', ShownOf(rendered, 2))
      /\ pcd_queue_' # <<>>
  BY <1>1, <1>2, <1>5, LineQueues
<1>7. PairTypes' /\ ImagesInLine' /\ CloudsInLine' /\ Pairing!RenderedInOrder'
  BY <1>3, <1>4, <1>6 DEF PairInv, PairTypes, ImagesInLine, CloudsInLine, Pairing!RenderedInOrder
<1>8. Matches'
  <2> SUFFICES ASSUME ~overflowed', session' = 1 PROVE Matches'
    BY DEF Matches
  <2>1. ~overflowed /\ ~(Len(pcd_queue_) >= Limit) /\ session = 1
    BY Zenon, <1>3 DEF Pairing!publishIntensityCloud
  <2>2. pcd_queue_ \in Seq(Message) /\ Pairing_clouds \subseteq Message
    BY <1>5 DEF InLine
  <2>3. Pairing_images \subseteq Message
    BY DEF PairInv, ImagesInLine, InLine
  <2>4. /\ Pairing!Range(pcd_queue_') = Pairing!Range(pcd_queue_) \cup {m}
        /\ pcd_queue_ # <<>> => Head(pcd_queue_') = Head(pcd_queue_)
    BY Zenon, <1>1, <1>2, <2>1, <2>2, SetOfAppended, QueuesNoOverflow
  <2>5. Sorted(Pairing_images, Pairing_clouds', Pairing!Range(rgb_image_queue_),
               Pairing!Range(pcd_queue_'), ShownOf(rendered, 1), ShownOf(rendered, 2))
    <3>1. Sorted(Pairing_images, Pairing_clouds, Pairing!Range(rgb_image_queue_),
                 Pairing!Range(pcd_queue_), ShownOf(rendered, 1), ShownOf(rendered, 2))
      BY <2>1 DEF PairInv, Matches
    <3>2. Sorted(Pairing_clouds', Pairing_images, Pairing!Range(pcd_queue_'),
                 Pairing!Range(rgb_image_queue_), ShownOf(rendered, 2), ShownOf(rendered, 1))
      BY <1>1, <1>2, <2>2, <2>3, <2>4, <3>1, SortedSwaps, SortedArrives
    <3>3. Pairing_clouds' \subseteq Message
      BY <1>1, <1>2, <2>2
    <3> QED BY <2>3, <3>2, <3>3, SortedSwaps
  <2>6. picked' # <<>> => picked' = <<Head(rgb_image_queue_'), Head(pcd_queue_')>>
    BY <1>3, <2>1, <2>4 DEF PairInv, PairTypes, Matches
  <2> QED BY <1>3, <2>5, <2>6 DEF Matches
<1> QED BY <1>7, <1>8 DEF PairInv

LEMMA PairLookKept == PairInv /\ Pairing!LookAtFronts => PairInv'
<1> SUFFICES ASSUME PairInv, Pairing!LookAtFronts PROVE PairInv'
  OBVIOUS
<1>1. /\ picked = <<>> /\ rgb_image_queue_ # <<>> /\ pcd_queue_ # <<>>
      /\ picked' = <<Head(rgb_image_queue_), Head(pcd_queue_)>>
      /\ UNCHANGED <<rgb_image_queue_, pcd_queue_, session, Pairing_images, Pairing_clouds,
                     rendered, overflowed>>
  BY DEF Pairing!LookAtFronts
<1>2. rgb_image_queue_ \in Seq(Message) /\ pcd_queue_ \in Seq(Message) /\ session \in Nat
  BY DEF PairInv, PairTypes, ImagesInLine, CloudsInLine, InLine
<1>3. Head(rgb_image_queue_) \in Message /\ Head(pcd_queue_) \in Message
  BY <1>1, <1>2
<1>4. picked' \in Pairs /\ picked' # <<>>
  BY <1>1, <1>3 DEF Pairs
<1>5. /\ InHand(1) = {} /\ InHand(1)' = {Head(rgb_image_queue_)}
      /\ InHand(2) = {} /\ InHand(2)' = {Head(pcd_queue_)}
  BY <1>1, <1>4 DEF InHand
<1>6. ImagesInLine'
  <2>1. InLine(session, rgb_image_queue_, {}, Pairing_images, ShownOf(rendered, 1))
    BY Zenon, <1>5 DEF PairInv, ImagesInLine
  <2>2. InLine(session, rgb_image_queue_, {Head(rgb_image_queue_)}, Pairing_images,
               ShownOf(rendered, 1))
    BY <1>1, <1>2, <2>1, LineLooked
  <2> QED BY Zenon, <1>1, <1>5, <2>2 DEF ImagesInLine
<1>8. CloudsInLine'
  <2>1. InLine(session, pcd_queue_, {}, Pairing_clouds, ShownOf(rendered, 2))
    BY <1>5 DEF PairInv, CloudsInLine
  <2>2. InLine(session, pcd_queue_, {Head(pcd_queue_)}, Pairing_clouds, ShownOf(rendered, 2))
    BY <1>1, <1>2, <2>1, LineLooked
  <2> QED BY Zenon, <1>1, <1>5, <2>2 DEF CloudsInLine
<1>7. PairTypes' /\ Pairing!RenderedInOrder' /\ Matches'
  BY <1>1, <1>4 DEF PairInv, PairTypes, Pairing!RenderedInOrder, Matches
<1> QED BY <1>6, <1>7, <1>8 DEF PairInv

\* On the first connection every message queued is of it, and the front the oldest.
LEMMA FrontIsOldest ==
    ASSUME NEW q, NEW hand, NEW come, NEW done, InLine(1, q, hand, come, done), q # <<>>
    PROVE  /\ Head(q) \in come /\ Head(q) \in Message
           /\ \A z \in Pairing!Range(q) : z \in Message /\ z.stamp >= Head(q).stamp
<1>1. q \in Seq(Message) /\ Head(q) = q[1] /\ Head(q) \in Message /\ 1 \in 1..Len(q)
  BY TailAt DEF InLine
<1>2. \A x \in Message : ~(x.session < 1)
  BY PairingAssumption DEF Message, Pairing!Message
<1>3. \A i \in 1..Len(q) : q[i] \in Message /\ q[i] \in come /\ q[i].session = 1
  BY <1>1, <1>2 DEF InLine
<1>4. \A i \in 1..Len(q) : q[i].stamp >= q[1].stamp
  <2> TAKE i \in 1..Len(q)
  <2>1. q[i].stamp \in Nat /\ q[1].stamp \in Nat
    BY <1>1, <1>3, MessageFields
  <2>2. CASE i = 1
    BY <2>1, <2>2
  <2>3. CASE i # 1
    <3>1. 1 < i
      BY <2>3
    <3>2. Pairing!Before(q[1], q[i])
      BY <1>1, <3>1 DEF InLine
    <3> QED BY <1>1, <1>3, <2>1, <3>2 DEF Pairing!Before
  <2> QED BY <2>2, <2>3
<1>5. DOMAIN q = 1..Len(q)
  BY <1>1
<1> QED BY <1>1, <1>3, <1>4, <1>5 DEF Pairing!Range

LEMMA PairDropKept == PairInv /\ Pairing!DropOlder => PairInv'
<1> SUFFICES ASSUME PairInv, Pairing!DropOlder PROVE PairInv'
  OBVIOUS
<1> DEFINE Images == Pairing!Range(rgb_image_queue_)
           Clouds == Pairing!Range(pcd_queue_)
<1>1. /\ picked # <<>> /\ picked' = <<>>
      /\ UNCHANGED <<session, Pairing_images, Pairing_clouds, rendered, overflowed>>
  BY DEF Pairing!DropOlder
<1>2. /\ InLine(session, rgb_image_queue_, {}, Pairing_images, ShownOf(rendered, 1))
      /\ InLine(session, pcd_queue_, {}, Pairing_clouds, ShownOf(rendered, 2))
      /\ session \in Nat /\ rgb_image_queue_ # <<>> /\ pcd_queue_ # <<>>
  BY <1>1, LineDrops DEF PairInv, PairTypes, ImagesInLine, CloudsInLine
<1>3. rgb_image_queue_ \in Seq(Message) /\ pcd_queue_ \in Seq(Message)
  BY <1>2 DEF InLine
<1>4. InHand(1)' = {} /\ InHand(2)' = {}
  BY <1>1 DEF InHand
<1>5. PairTypes' /\ Pairing!RenderedInOrder'
  BY <1>1 DEF PairInv, PairTypes, Pairing!RenderedInOrder
<1>6. ASSUME ~overflowed, session = 1
      PROVE  /\ picked[1] = Head(rgb_image_queue_) /\ picked[2] = Head(pcd_queue_)
             /\ Sorted(Pairing_images, Pairing_clouds, Images, Clouds,
                       ShownOf(rendered, 1), ShownOf(rendered, 2))
             /\ Pairing_images \subseteq Message /\ Pairing_clouds \subseteq Message
             /\ Head(rgb_image_queue_) \in Pairing_images /\ Head(pcd_queue_) \in Pairing_clouds
             /\ \A z \in Images : z \in Message /\ z.stamp >= Head(rgb_image_queue_).stamp
             /\ \A z \in Clouds : z \in Message /\ z.stamp >= Head(pcd_queue_).stamp
  <2>1. /\ InLine(1, rgb_image_queue_, {}, Pairing_images, ShownOf(rendered, 1))
        /\ InLine(1, pcd_queue_, {}, Pairing_clouds, ShownOf(rendered, 2))
    BY <1>2, <1>6
  <2>2. /\ Head(rgb_image_queue_) \in Pairing_images
        /\ \A z \in Images : z \in Message /\ z.stamp >= Head(rgb_image_queue_).stamp
    BY <1>2, <2>1, FrontIsOldest
  <2>3. /\ Head(pcd_queue_) \in Pairing_clouds
        /\ \A z \in Clouds : z \in Message /\ z.stamp >= Head(pcd_queue_).stamp
    BY <1>2, <2>1, FrontIsOldest
  <2>4. Pairing_images \subseteq Message /\ Pairing_clouds \subseteq Message
    BY <2>1 DEF InLine
  <2>5. /\ picked[1] = Head(rgb_image_queue_) /\ picked[2] = Head(pcd_queue_)
        /\ Sorted(Pairing_images, Pairing_clouds, Images, Clouds,
                  ShownOf(rendered, 1), ShownOf(rendered, 2))
    BY <1>1, <1>6 DEF PairInv, Matches
  <2> QED BY <2>2, <2>3, <2>4, <2>5
<1>7. CASE /\ picked[1].stamp - picked[2].stamp > Tolerance
           /\ pcd_queue_' = Tail(pcd_queue_) /\ UNCHANGED rgb_image_queue_
  <2>1. InLine(session, Tail(pcd_queue_), {}, Pairing_clouds, ShownOf(rendered, 2))
    BY <1>2, LineLoses
  <2>2. ImagesInLine' /\ CloudsInLine'
    BY Zenon, <1>1, <1>2, <1>4, <1>7, <2>1 DEF ImagesInLine, CloudsInLine
  <2>3. ASSUME ~overflowed, session = 1
        PROVE  Sorted(Pairing_images, Pairing_clouds, Images, Pairing!Range(Tail(pcd_queue_)),
                      ShownOf(rendered, 1), ShownOf(rendered, 2))
    <3>1. Head(rgb_image_queue_).stamp > Head(pcd_queue_).stamp + Tolerance
      <4>1. Head(rgb_image_queue_) \in Message /\ Head(pcd_queue_) \in Message
        BY <1>2, <1>3
      <4>2. Head(rgb_image_queue_).stamp \in Nat /\ Head(pcd_queue_).stamp \in Nat
        BY <4>1, MessageFields
      <4>3. picked[1] = Head(rgb_image_queue_) /\ picked[2] = Head(pcd_queue_)
        BY <1>6, <2>3
      <4> QED BY <1>7, <4>2, <4>3, PairingAssumption
    <3>2. Head(pcd_queue_) \in Message
               /\ Clouds \subseteq Pairing!Range(Tail(pcd_queue_)) \cup {Head(pcd_queue_)}
      BY <1>2, <1>3, SetOfTail
    <3>3. Sorted(Pairing_clouds, Pairing_images, Clouds, Images,
                 ShownOf(rendered, 2), ShownOf(rendered, 1))
      BY <1>6, <2>3, SortedSwaps
    <3>4. Sorted(Pairing_clouds, Pairing_images, Pairing!Range(Tail(pcd_queue_)), Images,
                 ShownOf(rendered, 2), ShownOf(rendered, 1))
      BY <1>6, <2>3, <3>1, <3>2, <3>3, SortedDrops
    <3> QED BY <1>6, <2>3, <3>4, SortedSwaps
  <2>4. Matches'
    BY <1>1, <1>7, <2>3 DEF Matches
  <2> QED BY <1>5, <2>2, <2>4 DEF PairInv
<1>8. CASE /\ -(picked[1].stamp - picked[2].stamp) > Tolerance
           /\ rgb_image_queue_' = Tail(rgb_image_queue_) /\ UNCHANGED pcd_queue_
  <2>1. InLine(session, Tail(rgb_image_queue_), {}, Pairing_images, ShownOf(rendered, 1))
    BY <1>2, LineLoses
  <2>2. ImagesInLine' /\ CloudsInLine'
    BY Zenon, <1>1, <1>2, <1>4, <1>8, <2>1 DEF ImagesInLine, CloudsInLine
  <2>3. ASSUME ~overflowed, session = 1
        PROVE  Sorted(Pairing_images, Pairing_clouds, Pairing!Range(Tail(rgb_image_queue_)), Clouds,
                      ShownOf(rendered, 1), ShownOf(rendered, 2))
    <3>1. Head(pcd_queue_).stamp > Head(rgb_image_queue_).stamp + Tolerance
      <4>1. Head(rgb_image_queue_) \in Message /\ Head(pcd_queue_) \in Message
        BY <1>2, <1>3
      <4>2. Head(rgb_image_queue_).stamp \in Nat /\ Head(pcd_queue_).stamp \in Nat
        BY <4>1, MessageFields
      <4>3. picked[1] = Head(rgb_image_queue_) /\ picked[2] = Head(pcd_queue_)
        BY <1>6, <2>3
      <4> QED BY <1>8, <4>2, <4>3, PairingAssumption
    <3>2. Head(rgb_image_queue_) \in Message
               /\ Images \subseteq Pairing!Range(Tail(rgb_image_queue_)) \cup {Head(rgb_image_queue_)}
      BY <1>2, <1>3, SetOfTail
    <3> QED BY <1>6, <2>3, <3>1, <3>2, SortedDrops
  <2>4. Matches'
    BY <1>1, <1>8, <2>3 DEF Matches
  <2> QED BY <1>5, <2>2, <2>4 DEF PairInv
<1> QED BY <1>7, <1>8 DEF Pairing!DropOlder, Pairing!TimeDiff

LEMMA PairShowKept == PairInv /\ Pairing!process_pair => PairInv'
<1> SUFFICES ASSUME PairInv, Pairing!process_pair PROVE PairInv'
  OBVIOUS
<1>1. /\ picked # <<>> /\ picked' = <<>> /\ rendered' = Append(rendered, picked)
      /\ rgb_image_queue_' = Tail(rgb_image_queue_) /\ pcd_queue_' = Tail(pcd_queue_)
      /\ UNCHANGED <<session, Pairing_images, Pairing_clouds, overflowed>>
  BY DEF Pairing!process_pair
<1>2. /\ InLine(session, rgb_image_queue_, {picked[1]}, Pairing_images, ShownOf(rendered, 1))
      /\ InLine(session, pcd_queue_, {picked[2]}, Pairing_clouds, ShownOf(rendered, 2))
      /\ session \in Nat /\ rgb_image_queue_ # <<>> /\ pcd_queue_ # <<>>
      /\ picked \in Pairs /\ rendered \in Seq(Pairs)
  BY <1>1 DEF PairInv, PairTypes, ImagesInLine, CloudsInLine, InHand
<1>3. rgb_image_queue_ \in Seq(Message) /\ pcd_queue_ \in Seq(Message)
  BY <1>2 DEF InLine
<1>4. InHand(1)' = {} /\ InHand(2)' = {}
  BY <1>1 DEF InHand
<1>5. /\ ShownOf(rendered', 1) = ShownOf(rendered, 1) \cup {picked[1]}
      /\ ShownOf(rendered', 2) = ShownOf(rendered, 2) \cup {picked[2]}
  BY <1>1, <1>2, ShownAppended
<1>6. PairTypes'
  BY <1>1, <1>2 DEF PairInv, PairTypes
<1>7. /\ InLine(session, Tail(rgb_image_queue_), {}, Pairing_images, ShownOf(rendered', 1))
      /\ InLine(session, Tail(pcd_queue_), {}, Pairing_clouds, ShownOf(rendered', 2))
  <2>1. InLine(session, Tail(rgb_image_queue_), {}, Pairing_images,
               ShownOf(rendered, 1) \cup {picked[1]})
    BY Zenon, <1>2, LineShown
  <2>2. InLine(session, Tail(pcd_queue_), {}, Pairing_clouds,
               ShownOf(rendered, 2) \cup {picked[2]})
    BY Zenon, <1>2, LineShown
  <2> QED BY <1>5, <2>1, <2>2
<1>8. ImagesInLine' /\ CloudsInLine'
  BY Zenon, <1>1, <1>4, <1>7 DEF ImagesInLine, CloudsInLine
<1>9. Pairing!RenderedInOrder'
  <2>1. /\ \A x \in ShownOf(rendered, 1) : Pairing!Before(x, picked[1])
        /\ \A x \in ShownOf(rendered, 2) : Pairing!Before(x, picked[2])
    BY <1>2 DEF InLine
  <2>2. /\ Len(rendered') = Len(rendered) + 1 /\ rendered'[Len(rendered) + 1] = picked
        /\ Len(rendered) \in Nat /\ \A k \in 1..Len(rendered) : rendered'[k] = rendered[k]
    BY <1>1, <1>2
  <2>3. \A k \in 1..Len(rendered) : rendered[k][1] \in ShownOf(rendered, 1)
                                    /\ rendered[k][2] \in ShownOf(rendered, 2)
    BY DEF ShownOf
  <2>4. ASSUME NEW i \in 1..Len(rendered'), NEW j \in 1..Len(rendered'), i < j
        PROVE  /\ Pairing!Before(rendered'[i][1], rendered'[j][1])
               /\ Pairing!Before(rendered'[i][2], rendered'[j][2])
    <3>1. i \in 1..Len(rendered) /\ (j \in 1..Len(rendered) \/ j = Len(rendered) + 1)
      BY <2>2, <2>4
    <3>2. CASE j \in 1..Len(rendered)
      BY <2>2, <2>4, <3>1, <3>2 DEF PairInv, Pairing!RenderedInOrder
    <3>3. CASE j = Len(rendered) + 1
      BY <2>1, <2>2, <2>3, <3>1, <3>3
    <3> QED BY <3>1, <3>2, <3>3
  <2> QED BY <2>4 DEF Pairing!RenderedInOrder
<1>10. Matches'
  <2> SUFFICES ASSUME ~overflowed', session' = 1 PROVE Matches'
    BY DEF Matches
  <2> DEFINE Images == Pairing!Range(rgb_image_queue_)
             Clouds == Pairing!Range(pcd_queue_)
             RestImages == Pairing!Range(Tail(rgb_image_queue_))
             RestClouds == Pairing!Range(Tail(pcd_queue_))
             ShownImages == ShownOf(rendered, 1)
             ShownClouds == ShownOf(rendered, 2)
             i == picked[1]
             c == picked[2]
  <2>1. /\ i = Head(rgb_image_queue_) /\ c = Head(pcd_queue_)
        /\ Sorted(Pairing_images, Pairing_clouds, Images, Clouds, ShownImages, ShownClouds)
    BY <1>1 DEF PairInv, Matches
  <2>2. Images \subseteq RestImages \cup {i} /\ Clouds \subseteq RestClouds \cup {c}
    BY <1>2, <1>3, <2>1, SetOfTail
  <2>3. Sorted(Pairing_images, Pairing_clouds, RestImages, RestClouds,
               ShownImages \cup {i}, ShownClouds \cup {c})
    <3> HIDE DEF Images, Clouds, RestImages, RestClouds, ShownImages, ShownClouds, i, c
    <3> QED BY Zenon, <2>1, <2>2, SortedShows
  <2> QED BY Zenon, <1>1, <1>5, <2>3 DEF Matches
<1> QED BY <1>6, <1>8, <1>9, <1>10 DEF PairInv

LEMMA PairSessionKept == PairInv /\ (Pairing!Detach \/ Pairing!Reattach) => PairInv'
<1>1. ASSUME PairInv, Pairing!Detach PROVE PairInv'
  BY <1>1 DEF PairInv, PairTypes, ImagesInLine, CloudsInLine, InHand, Matches, Pairing!Detach,
     Pairing!RenderedInOrder
<1>2. ASSUME PairInv, Pairing!Reattach PROVE PairInv'
  <2>1. /\ session' = session + 1 /\ Pairing_images' = {} /\ Pairing_clouds' = {}
        /\ UNCHANGED <<rgb_image_queue_, pcd_queue_, picked, rendered, overflowed>>
    BY <1>2 DEF Pairing!Reattach
  <2>2. session \in Nat \ {0} /\ session' # 1
    BY <1>2, <2>1 DEF PairInv, PairTypes
  <2>3. InHand(1)' = InHand(1) /\ InHand(2)' = InHand(2)
    BY <2>1 DEF InHand
  <2>4. /\ InLine(session + 1, rgb_image_queue_, InHand(1), {}, ShownOf(rendered, 1))
        /\ InLine(session + 1, pcd_queue_, InHand(2), {}, ShownOf(rendered, 2))
    BY <1>2, <2>2, LineReattached DEF PairInv, ImagesInLine, CloudsInLine
  <2> QED BY <1>2, <2>1, <2>2, <2>3, <2>4
      DEF PairInv, PairTypes, ImagesInLine, CloudsInLine, Matches, Pairing!RenderedInOrder
<1> QED BY <1>1, <1>2

LEMMA PairKept == (Pairing!Init => PairInv) /\ (PairInv /\ [Pairing!Next]_PairingVars => PairInv')
<1>1. Pairing!Init => PairInv
  <2> SUFFICES ASSUME Pairing!Init PROVE PairInv
    OBVIOUS
  <2>1. /\ rgb_image_queue_ = <<>> /\ pcd_queue_ = <<>> /\ picked = <<>> /\ session = 1
        /\ Pairing_images = {} /\ Pairing_clouds = {} /\ rendered = <<>>
    BY DEF Pairing!Init
  <2>2. ShownOf(rendered, 1) = {} /\ ShownOf(rendered, 2) = {} /\ InHand(1) = {} /\ InHand(2) = {}
    BY <2>1 DEF ShownOf, InHand
  <2>3. InLine(1, <<>>, {}, {}, {})
    BY DEF InLine
  <2>4. Sorted({}, {}, Pairing!Range(<<>>), Pairing!Range(<<>>), {}, {})
    BY DEF Sorted
  <2>5. PairTypes /\ Pairing!RenderedInOrder
    BY <2>1 DEF PairTypes, Pairing!RenderedInOrder
  <2> QED BY Zenon, <2>1, <2>2, <2>3, <2>4, <2>5 DEF PairInv, ImagesInLine, CloudsInLine, Matches
<1>2. ASSUME PairInv, UNCHANGED PairingVars PROVE PairInv'
  BY <1>2 DEF PairInv, PairTypes, ImagesInLine, CloudsInLine, InHand, Matches, PairingVars,
     Pairing!RenderedInOrder
<1> QED BY <1>1, <1>2, PairImageKept, PairCloudKept, PairLookKept, PairDropKept, PairShowKept,
       PairSessionKept DEF Pairing!Next

\* No image or cloud is rendered twice or out of order, although a queue may lose
\* a front between the look at it and its removal; and while no queue was full and
\* the device did not come back, two that match are given up only for another
\* match (try_process_pair, host_sdk_sample.h).
THEOREM PairsDoRender == Spec => []PairsRendered
<1>1. PairInv => PairsRendered
  <2> SUFFICES ASSUME PairInv PROVE Pairing!MatchableRendered
    BY DEF PairInv, PairsRendered
  <2> QED BY DEF PairInv, Matches, Sorted, ShownOf, Pairing!MatchableRendered
<1> QED BY <1>1, PairKept, PairingSteps, PTL DEF Spec

-----------------------------------------------------------------------------
(* The frames of the scans, for any mount of the lidar, any obstacle, any    *)
(* motion of the robot and any number of scans.                              *)

LEMMA MotionsCompose ==
    ASSUME NEW f \in Frames!Motions, NEW g \in Frames!Motions
    PROVE  /\ Frames!**(f, g) \in Frames!Motions
           /\ \A p \in Frames!Points : Frames!**(f, g)[p] = f[g[p]] /\ g[p] \in Frames!Points
<1>1. f \in [1..3 -> 1..3] /\ \A a, b \in 1..3 : f[a] = f[b] => a = b
  BY DEF Frames!Motions, Frames!Points, Frames!IsInjective
<1>2. g \in [1..3 -> 1..3] /\ \A a, b \in 1..3 : g[a] = g[b] => a = b
  BY DEF Frames!Motions, Frames!Points, Frames!IsInjective
<1> QED BY <1>1, <1>2 DEF Frames!Motions, Frames!Points, Frames!IsInjective, Frames!**

LEMMA InverseUndoes ==
    ASSUME NEW f \in Frames!Motions
    PROVE  /\ Frames!InverseOf(f) \in Frames!Motions
           /\ \A p \in Frames!Points : /\ Frames!InverseOf(f)[f[p]] = p
                                       /\ f[Frames!InverseOf(f)[p]] = p
<1>1. f \in [1..3 -> 1..3] /\ \A a, b \in 1..3 : f[a] = f[b] => a = b
  BY DEF Frames!Motions, Frames!Points, Frames!IsInjective
<1>2. {f[1], f[2], f[3]} = {1, 2, 3}
  BY <1>1
<1>3. Frames!Range(f) = 1..3
  BY <1>1, <1>2 DEF Frames!Range
<1>4. Frames!InverseOf(f) = [t \in 1..3 |-> CHOOSE s \in 1..3 : t \in 1..3 => f[s] = t]
  BY <1>1, <1>3 DEF Frames!InverseOf, Frames!AntiFunction, Frames!Inverse
<1>5. \A t \in 1..3 : \E s \in 1..3 : t \in 1..3 => f[s] = t
  BY <1>1, <1>2
<1>6. \A t \in 1..3 : Frames!InverseOf(f)[t] \in 1..3 /\ f[Frames!InverseOf(f)[t]] = t
  <2> TAKE t \in 1..3
  <2> DEFINE P(s) == t \in 1..3 => f[s] = t
  <2>1. Frames!InverseOf(f)[t] = CHOOSE s \in 1..3 : P(s)
    BY <1>4
  <2>2. \E s \in 1..3 : P(s)
    BY <1>5
  <2>3. (CHOOSE s \in 1..3 : P(s)) \in 1..3 /\ P(CHOOSE s \in 1..3 : P(s))
    <3> HIDE DEF P
    <3> QED BY <2>2
  <2> QED BY <2>1, <2>3
<1>7. Frames!InverseOf(f) \in [1..3 -> 1..3]
  BY <1>4, <1>6
<1>8. \A p \in 1..3 : Frames!InverseOf(f)[f[p]] = p
  BY <1>1, <1>6
<1> QED BY <1>6, <1>7, <1>8 DEF Frames!Motions, Frames!Points, Frames!IsInjective

LEMMA SameMotion ==
    ASSUME NEW f \in Frames!Motions, NEW g \in Frames!Motions, \A p \in Frames!Points : f[p] = g[p]
    PROVE  f = g
BY DEF Frames!Motions

\* The pose loam_interface publishes, and the one sensor_scan_generation does.
LEMMA MountUndone ==
    ASSUME NEW f \in Frames!Motions, NEW m \in Frames!Motions
    PROVE  /\ Frames!**(m, Frames!**(Frames!InverseOf(m), f)) = f
           /\ Frames!**(Frames!**(f, m), Frames!InverseOf(m)) = f
<1> DEFINE inverse == Frames!InverseOf(m)
<1>1. inverse \in Frames!Motions
      /\ \A p \in Frames!Points : inverse[m[p]] = p /\ m[inverse[p]] = p
  BY InverseUndoes
<1> HIDE DEF inverse
<1>2. \A p \in Frames!Points : f[p] \in Frames!Points
  BY DEF Frames!Motions
<1>3. Frames!**(m, Frames!**(inverse, f)) = f
  <2> DEFINE g == Frames!**(inverse, f)
             h == Frames!**(m, g)
  <2>1. g \in Frames!Motions /\ \A p \in Frames!Points : g[p] = inverse[f[p]]
    BY <1>1, MotionsCompose
  <2> HIDE DEF g
  <2>2. h \in Frames!Motions /\ \A p \in Frames!Points : h[p] = m[g[p]]
    BY <2>1, MotionsCompose
  <2> HIDE DEF h
  <2>3. \A p \in Frames!Points : h[p] = f[p]
    BY <1>1, <1>2, <2>1, <2>2
  <2>4. h = f
    BY <2>2, <2>3, SameMotion
  <2> QED BY <2>4 DEF g, h
<1>4. Frames!**(Frames!**(f, m), inverse) = f
  <2> DEFINE g == Frames!**(f, m)
             h == Frames!**(g, inverse)
  <2>1. g \in Frames!Motions /\ \A p \in Frames!Points : g[p] = f[m[p]]
    BY MotionsCompose
  <2> HIDE DEF g
  <2>2. h \in Frames!Motions
        /\ \A p \in Frames!Points : h[p] = g[inverse[p]] /\ inverse[p] \in Frames!Points
    BY <1>1, <2>1, MotionsCompose
  <2> HIDE DEF h
  <2>3. \A p \in Frames!Points : h[p] = f[p]
    BY <1>1, <2>1, <2>2
  <2>4. h = f
    BY <2>2, <2>3, SameMotion
  <2> QED BY <2>4 DEF g, h
<1> QED BY <1>3, <1>4 DEF inverse

\* What ScanFrames knows of its transforms: those that are looked up once are the
\* mount's; the last scan, odometry and pose published are of scans there were.
KnownOnce ==
    /\ source = "loam" /\ base_frame_to_lidar_initialized_ => tf_odom_to_lidar_odom_ = Mount
    /\ imu_to_lidar_cached_ => tf_imu_to_lidar_ = Mount

Seen(n) == n \in 1..Len(poses)

ScansTyped == poses \in Seq(Frames!Motions) /\ odometry_at \in Nat /\ cloud_at \in Nat

RegisteredInv ==
    registered_scan # <<>> =>
        /\ Seen(registered_scan[1].stamp)
        /\ source = "loam" /\ registered_scan[1].ready => registered_scan[1].at = Obstacle

OdometryInv ==
    lidar_odometry # <<>> =>
        /\ Seen(lidar_odometry[1].stamp)
        /\ lidar_odometry[1].pose = Frames!LidarAt(lidar_odometry[1].stamp)

SensorInv ==
    /\ sensor_scan # <<>> =>
           /\ Seen(sensor_scan[1].stamp) /\ Seen(sensor_scan[1].odometry)
           /\ source = "loam" /\ sensor_scan[1].ready =>
                  sensor_scan[1].at =
                      Frames!InverseOf(Frames!LidarAt(sensor_scan[1].odometry))[Obstacle]
    /\ chassis # <<>> =>
           /\ sensor_scan # <<>>
           /\ chassis[1].known => chassis[1].pose = poses[sensor_scan[1].odometry]

FramesInv ==
    ScansTyped /\ KnownOnce /\ RegisteredInv /\ OdometryInv /\ SensorInv

LEMMA LidarMoves ==
    ASSUME ScansTyped, NEW n, Seen(n)
    PROVE  poses[n] \in Frames!Motions /\ Frames!LidarAt(n) \in Frames!Motions
<1>1. poses[n] \in Frames!Motions
  BY DEF ScansTyped, Seen
<1> QED BY <1>1, FramesAssumption, MotionsCompose DEF Frames!LidarAt

LEMMA FramesScan == FramesInv /\ Frames!Scan => FramesInv'
<1> SUFFICES ASSUME FramesInv, Frames!Scan PROVE FramesInv'
  OBVIOUS
<1>1. PICK pose \in Frames!Motions : poses' = Append(poses, pose)
  BY DEF Frames!Scan
<1>2. UNCHANGED <<source, odometry_at, cloud_at, tf_odom_to_lidar_odom_,
                  base_frame_to_lidar_initialized_, tf_imu_to_lidar_, imu_to_lidar_cached_,
                  registered_scan, lidar_odometry, sensor_scan, chassis>>
  BY DEF Frames!Scan, Frames!loamOnly, Frames!odinOnly, Frames!sensorScan
<1>3. poses \in Seq(Frames!Motions)
  BY DEF FramesInv, ScansTyped
<1>4. poses' \in Seq(Frames!Motions) /\ \A n : Seen(n) => Seen(n)' /\ poses'[n] = poses[n]
  BY <1>1, <1>3 DEF Seen
<1>5. \A n : Seen(n) => Frames!LidarAt(n)' = Frames!LidarAt(n)
  BY <1>4 DEF Frames!LidarAt
<1>6. ScansTyped' /\ KnownOnce'
  BY <1>2, <1>4 DEF FramesInv, ScansTyped, KnownOnce
<1>7. RegisteredInv' /\ OdometryInv'
  BY <1>2, <1>4, <1>5 DEF FramesInv, RegisteredInv, OdometryInv, Frames!LidarAt
<1>8. SensorInv'
  BY <1>2, <1>4, <1>5 DEF FramesInv, SensorInv, Frames!LidarAt
<1> QED BY <1>6, <1>7, <1>8 DEF FramesInv

LEMMA FramesOdometry == FramesInv /\ Frames!OdometryArrives => FramesInv'
<1> SUFFICES ASSUME FramesInv, Frames!OdometryArrives PROVE FramesInv'
  OBVIOUS
<1>1. PICK n \in odometry_at + 1 .. Len(poses), lookup \in Frames!Lookups :
          /\ odometry_at' = n
          /\ \/ /\ source = "loam"
                /\ Frames!odometryCallback(Frames!SlamOdometry(n), lookup)
                /\ UNCHANGED Frames!odinOnly
             \/ /\ source = "odin"
                /\ Frames!Odin!odometryCallback(Frames!DeviceOdometry(n), lookup, Mount)
                /\ UNCHANGED Frames!loamOnly
  BY DEF Frames!OdometryArrives
<1>2. UNCHANGED <<source, poses, cloud_at, registered_scan, sensor_scan, chassis>>
  BY <1>1 DEF Frames!OdometryArrives, Frames!sensorScan, Frames!odometryCallback,
     Frames!Odin!odometryCallback
<1>3. Seen(n) /\ n \in Nat
  BY DEF FramesInv, ScansTyped, Seen
<1>4. Frames!LidarAt(n) \in Frames!Motions /\ poses[n] \in Frames!Motions
  BY <1>3, LidarMoves DEF FramesInv
<1>5. lookup = {} \/ lookup = {Mount}
  BY DEF Frames!Lookups
<1>6. (CHOOSE t \in {Mount} : TRUE) = Mount
  OBVIOUS
<1>7. KnownOnce' /\ OdometryInv'
  <2>1. CASE source = "loam" /\ Frames!odometryCallback(Frames!SlamOdometry(n), lookup)
             /\ UNCHANGED Frames!odinOnly
    <3> DEFINE found == base_frame_to_lidar_initialized_ \/ lookup # {}
               tf == IF base_frame_to_lidar_initialized_ THEN tf_odom_to_lidar_odom_
                     ELSE CHOOSE t \in lookup : TRUE
    <3>1. found => tf = Mount
      BY <1>5, <1>6, <2>1 DEF FramesInv, KnownOnce
    <3>2. /\ base_frame_to_lidar_initialized_' = found
          /\ found => /\ tf_odom_to_lidar_odom_' = tf
                      /\ lidar_odometry' =
                             <<[stamp |-> n,
                                pose |-> Frames!**(tf, Frames!**(Frames!InverseOf(Mount),
                                                               Frames!LidarAt(n)))]>>
          /\ ~found => UNCHANGED <<tf_odom_to_lidar_odom_, lidar_odometry>>
          /\ UNCHANGED <<tf_imu_to_lidar_, imu_to_lidar_cached_>>
      BY <2>1 DEF Frames!odometryCallback, Frames!SlamOdometry, Frames!Compose,
         Frames!odinOnly, Frames!**, Frames!Points
    <3> HIDE DEF found, tf
    <3>3. KnownOnce'
      BY <1>2, <3>1, <3>2 DEF FramesInv, KnownOnce
    <3>4. CASE found
      <4>1. lidar_odometry' = <<[stamp |-> n, pose |-> Frames!LidarAt(n)]>>
        BY <1>4, <3>1, <3>2, <3>4, FramesAssumption, MountUndone
      <4>2. lidar_odometry'[1].stamp = n /\ lidar_odometry'[1].pose = Frames!LidarAt(n)
        BY <4>1
      <4> QED BY <1>2, <1>3, <3>3, <4>2 DEF OdometryInv, Seen, Frames!LidarAt
    <3>5. CASE ~found
      BY <1>2, <3>2, <3>3, <3>5 DEF FramesInv, OdometryInv, Seen, Frames!LidarAt
    <3> QED BY <3>4, <3>5
  <2>2. CASE source = "odin"
             /\ Frames!Odin!odometryCallback(Frames!DeviceOdometry(n), lookup, Mount)
             /\ UNCHANGED Frames!loamOnly
    <3>1. Frames!Odin!ImuToLidar(lookup, Mount) = Mount
      BY <1>5, <1>6 DEF FramesInv, KnownOnce, Frames!Odin!ImuToLidar
    <3>2. /\ lidar_odometry' =
                 <<[stamp |-> n,
                    pose |-> Frames!**(poses[n], Frames!Odin!ImuToLidar(lookup, Mount))]>>
          /\ imu_to_lidar_cached_' => tf_imu_to_lidar_' = Frames!Odin!ImuToLidar(lookup, Mount)
          /\ UNCHANGED <<tf_odom_to_lidar_odom_, base_frame_to_lidar_initialized_>>
      BY <2>2 DEF Frames!Odin!odometryCallback, Frames!DeviceOdometry, Frames!loamOnly,
         Frames!**, Frames!Odin!**, Frames!Points, Frames!Odin!Points
    <3>3. KnownOnce'
      BY <1>2, <2>2, <3>1, <3>2 DEF KnownOnce
    <3>4. lidar_odometry'[1].stamp = n /\ lidar_odometry'[1].pose = Frames!LidarAt(n)
      BY <3>1, <3>2 DEF Frames!LidarAt
    <3> QED BY <1>2, <1>3, <3>3, <3>4 DEF OdometryInv, Seen, Frames!LidarAt
  <2> QED BY <1>1, <2>1, <2>2
<1>8. ScansTyped' /\ RegisteredInv' /\ SensorInv'
  BY <1>1, <1>2, <1>3 DEF FramesInv, ScansTyped, RegisteredInv, SensorInv, Seen, Frames!LidarAt
<1> QED BY <1>7, <1>8 DEF FramesInv

LEMMA FramesCloud == FramesInv /\ Frames!CloudArrives => FramesInv'
<1> SUFFICES ASSUME FramesInv, Frames!CloudArrives PROVE FramesInv'
  OBVIOUS
<1>1. PICK n \in cloud_at + 1 .. Len(poses) :
          /\ cloud_at' = n
          /\ \/ /\ source = "loam" /\ Frames!pointCloudCallback(Frames!SlamCloud(n))
                /\ UNCHANGED Frames!odinOnly
             \/ /\ source = "odin" /\ Frames!Odin!pointCloudCallback(Frames!DeviceCloud(n))
                /\ UNCHANGED Frames!loamOnly
  BY DEF Frames!CloudArrives
<1>2. UNCHANGED <<source, poses, odometry_at, tf_odom_to_lidar_odom_,
                  base_frame_to_lidar_initialized_, tf_imu_to_lidar_, imu_to_lidar_cached_,
                  lidar_odometry, sensor_scan, chassis>>
  BY <1>1 DEF Frames!CloudArrives, Frames!sensorScan, Frames!pointCloudCallback,
     Frames!Odin!pointCloudCallback, Frames!loamOnly, Frames!odinOnly
<1>3. Seen(n) /\ n \in Nat
  BY DEF FramesInv, ScansTyped, Seen
<1>4. RegisteredInv'
  <2>1. CASE source = "loam" /\ Frames!pointCloudCallback(Frames!SlamCloud(n))
    <3>1. registered_scan' =
              <<[stamp |-> n,
                 at |-> tf_odom_to_lidar_odom_[Frames!InverseOf(Mount)[Obstacle]],
                 ready |-> base_frame_to_lidar_initialized_]>>
      BY <2>1 DEF Frames!pointCloudCallback, Frames!SlamCloud
    <3>2. base_frame_to_lidar_initialized_ =>
              tf_odom_to_lidar_odom_[Frames!InverseOf(Mount)[Obstacle]] = Obstacle
      <4>1. Mount[Frames!InverseOf(Mount)[Obstacle]] = Obstacle
        BY FramesAssumption, InverseUndoes
      <4> QED BY <2>1, <4>1 DEF FramesInv, KnownOnce
    <3> DEFINE r == registered_scan'[1]
    <3>3. r.stamp = n /\ (r.ready => r.at = Obstacle)
      BY <3>1, <3>2
    <3> QED BY <1>2, <1>3, <3>3 DEF RegisteredInv, Seen
  <2>2. CASE source = "odin" /\ Frames!Odin!pointCloudCallback(Frames!DeviceCloud(n))
    <3>1. registered_scan'[1].stamp = n
      BY <2>2 DEF Frames!Odin!pointCloudCallback, Frames!DeviceCloud
    <3> QED BY <1>2, <1>3, <2>2, <3>1 DEF RegisteredInv, Seen
  <2> QED BY <1>1, <2>1, <2>2
<1>5. ScansTyped' /\ KnownOnce' /\ OdometryInv' /\ SensorInv'
  BY <1>1, <1>2, <1>3
     DEF FramesInv, ScansTyped, KnownOnce, OdometryInv, SensorInv, Seen, Frames!LidarAt
<1> QED BY <1>4, <1>5 DEF FramesInv

LEMMA FramesPaired == FramesInv /\ Frames!Paired => FramesInv'
<1> SUFFICES ASSUME FramesInv, Frames!Paired PROVE FramesInv'
  OBVIOUS
<1>1. PICK lookup \in {{}, {Frames!InverseOf(Mount)}} :
          Frames!laserCloudAndOdometryHandler(lidar_odometry[1], registered_scan[1], lookup)
  BY Zenon DEF Frames!Paired
<1>2. /\ lidar_odometry # <<>> /\ registered_scan # <<>>
      /\ UNCHANGED <<source, poses, odometry_at, cloud_at, tf_odom_to_lidar_odom_,
                  base_frame_to_lidar_initialized_, tf_imu_to_lidar_, imu_to_lidar_cached_,
                  registered_scan, lidar_odometry>>
  BY DEF Frames!Paired, Frames!world, Frames!loamOnly, Frames!odinOnly
<1> DEFINE n == lidar_odometry[1].stamp
<1>3. /\ Seen(n) /\ lidar_odometry[1].pose = Frames!LidarAt(n) /\ Seen(registered_scan[1].stamp)
      /\ source = "loam" /\ registered_scan[1].ready => registered_scan[1].at = Obstacle
  BY <1>2 DEF FramesInv, OdometryInv, RegisteredInv
<1>4. /\ chassis' = <<[stamp |-> registered_scan[1].stamp,
                       pose |-> Frames!**(Frames!LidarAt(n), Frames!getTransform(lookup)),
                       known |-> lookup # {}]>>
      /\ sensor_scan' = <<[stamp |-> registered_scan[1].stamp, odometry |-> n,
                           at |-> Frames!InverseOf(Frames!LidarAt(n))[registered_scan[1].at],
                           ready |-> registered_scan[1].ready]>>
  BY <1>1, <1>3 DEF Frames!laserCloudAndOdometryHandler, Frames!ToLidar
<1> HIDE DEF n
<1>5. lookup # {} => Frames!**(Frames!LidarAt(n), Frames!getTransform(lookup)) = poses[n]
  <2> SUFFICES ASSUME lookup = {Frames!InverseOf(Mount)}
               PROVE  Frames!**(Frames!LidarAt(n), Frames!getTransform(lookup)) = poses[n]
    OBVIOUS
  <2> DEFINE inverse == Frames!InverseOf(Mount)
  <2>1. Frames!getTransform({inverse}) = inverse
    <3> HIDE DEF inverse
    <3> QED BY DEF Frames!getTransform
  <2>2. poses[n] \in Frames!Motions
    BY <1>3, LidarMoves DEF FramesInv
  <2> QED BY <2>1, <2>2, FramesAssumption, MountUndone DEF Frames!LidarAt
<1>6. /\ sensor_scan' # <<>>
      /\ sensor_scan'[1].stamp = registered_scan[1].stamp /\ sensor_scan'[1].odometry = n
      /\ sensor_scan'[1].ready = registered_scan[1].ready
      /\ sensor_scan'[1].at = Frames!InverseOf(Frames!LidarAt(n))[registered_scan[1].at]
      /\ chassis'[1].known => chassis'[1].pose = poses[n]
  BY Zenon, <1>4, <1>5
<1>7. SensorInv'
  BY <1>2, <1>3, <1>6 DEF SensorInv, Seen, Frames!LidarAt
<1>8. ScansTyped' /\ KnownOnce' /\ RegisteredInv' /\ OdometryInv'
  BY <1>2 DEF FramesInv, ScansTyped, KnownOnce, RegisteredInv, OdometryInv, Seen, Frames!LidarAt
<1> QED BY <1>7, <1>8 DEF FramesInv

LEMMA FramesKept == (Frames!Init => FramesInv) /\ (FramesInv /\ [Frames!Next]_FramesVars => FramesInv')
<1>1. Frames!Init => FramesInv
  <2> SUFFICES ASSUME Frames!Init PROVE FramesInv
    OBVIOUS
  <2>1. /\ poses = <<Frames!Identity>> /\ odometry_at = 0 /\ cloud_at = 0
        /\ base_frame_to_lidar_initialized_ = FALSE /\ imu_to_lidar_cached_ = FALSE
        /\ registered_scan = <<>> /\ lidar_odometry = <<>> /\ sensor_scan = <<>> /\ chassis = <<>>
    BY DEF Frames!Init, Frames!LoamInit, Frames!Odin!OdinInit, Frames!SensorScanInit
  <2>2. Frames!Identity \in Frames!Motions
    BY DEF Frames!Identity, Frames!Motions, Frames!Points, Frames!IsInjective
  <2> QED BY <2>1, <2>2
        DEF FramesInv, ScansTyped, KnownOnce, RegisteredInv, OdometryInv, SensorInv
<1>2. ASSUME FramesInv, UNCHANGED FramesVars PROVE FramesInv'
  BY <1>2 DEF FramesInv, ScansTyped, KnownOnce, RegisteredInv, OdometryInv, SensorInv, Seen,
     Frames!LidarAt, FramesVars
<1> QED BY <1>1, <1>2, FramesScan, FramesOdometry, FramesCloud, FramesPaired DEF Frames!Next

-----------------------------------------------------------------------------
\* MapOdom: what the device sends is on its way to the tree, or in it.
DeviceInTree ==
    /\ parent_of = [c \in {"map", "odom"} |-> parent_of[c]]
    /\ on_way = [c \in {"map", "odom"} |-> on_way[c]]
    /\ on_way["map"] # <<>> => on_way["map"] = device
    /\ on_way["map"] = <<>> /\ parent_of["map"] # <<>> => parent_of["map"] = device

LEMMA MapOdomKept ==
    (MapOdom!Init => DeviceInTree) /\ (DeviceInTree /\ [MapOdom!Next]_MapOdomVars => DeviceInTree')
<1>1. MapOdom!Init => DeviceInTree
  BY DEF MapOdom!Init, MapOdom!Child, DeviceInTree
<1>2. ASSUME DeviceInTree, MapOdom!mapOdomTimerCallback PROVE DeviceInTree'
  BY Zenon, <1>2 DEF DeviceInTree, MapOdom!mapOdomTimerCallback
<1>3. ASSUME DeviceInTree, MapOdom!Relocalise PROVE DeviceInTree'
  <2>1. PICK t \in MapOdom!Motions : device' = <<t>>
    BY <1>3 DEF MapOdom!Relocalise
  <2>2. /\ on_way' = [on_way EXCEPT !["map"] = device'] /\ UNCHANGED parent_of
        /\ on_way = [c \in {"map", "odom"} |-> on_way[c]]
    BY <1>3 DEF DeviceInTree, MapOdom!Relocalise
  <2>3. on_way'["map"] = device' /\ device' # <<>>
    BY <2>1, <2>2
  <2> QED BY Zenon, <1>3, <2>2, <2>3 DEF DeviceInTree
<1>4. ASSUME DeviceInTree, MapOdom!TransformArrives PROVE DeviceInTree'
  BY Zenon, <1>4 DEF DeviceInTree, MapOdom!TransformArrives, MapOdom!Child
<1>5. ASSUME DeviceInTree, UNCHANGED MapOdomVars PROVE DeviceInTree'
  BY <1>5 DEF DeviceInTree, MapOdomVars
<1> QED BY <1>1, <1>2, <1>3, <1>4, <1>5 DEF MapOdom!Next

LEMMA TreeFollows == DeviceInTree => MapOdom!FollowsDevice
<1> SUFFICES ASSUME DeviceInTree, parent_of["map"] # <<>>, on_way["map"] = <<>>
             PROVE  MapOdom!Inverted(MapOdom!Lookup) = MapOdom!InverseOf(device[1])
  BY DEF MapOdom!FollowsDevice
<1> DEFINE t == device[1]
<1>1. MapOdom!Lookup = {t}
  BY DEF DeviceInTree, MapOdom!Lookup
<1>2. MapOdom!Inverted({t}) = MapOdom!InverseOf(t)
  <2> HIDE DEF t
  <2> QED BY DEF MapOdom!Inverted
<1> QED BY <1>1, <1>2

\* An obstacle that stands is at one place in every scan loam_interface registers;
\* the odometry both interfaces publish is the pose of the lidar; what
\* sensor_scan_generation gives back is what the lidar saw, and its chassis is where
\* the robot was; and map->odom is the inverse of what the device last sent
\* (loam_interface.cpp, odin_interface.cpp, sensor_scan_generation.cpp).
THEOREM FramesDoAgree == Spec => []FramesAgree
<1>1. FramesInv => Frames!LoamScanInOdom /\ Frames!OdometryIsLidar /\ Frames!ChassisFollows
  BY DEF FramesInv, RegisteredInv, OdometryInv, SensorInv, Frames!LoamScanInOdom,
     Frames!ScanInOdom, Frames!OdometryIsLidar, Frames!ChassisFollows
<1>2. FramesInv => Frames!SensorScanAsSeen
  BY DEF FramesInv, SensorInv, Frames!SensorScanAsSeen
<1>3. FramesInv /\ DeviceInTree => FramesAgree
  BY <1>1, <1>2, TreeFollows DEF FramesAgree
<1> QED BY <1>3, FramesKept, FramesSteps, MapOdomKept, MapOdomSteps, PTL DEF Spec

-----------------------------------------------------------------------------
(* The packets of the device, for any window, any offsets of its clock and    *)
(* any number of packets.                                                     *)

Counting == [start : Nat, last : Nat, count : Nat]

StreamsTyped ==
    /\ now \in Nat /\ syncs \in Seq(Offsets)
    /\ rx = [s \in Streams!Streams |-> rx[s]]
    /\ \A s \in Streams!Streams :
           /\ rx[s] \in Counting
           /\ frames[s] \in Nat /\ reported[s] \in Nat
    /\ frames = [s \in Streams!Streams |-> frames[s]]
    /\ reported = [s \in Streams!Streams |-> reported[s]]

\* Every frame that came is in a rate or in the count of the next one.
Counted == \A s \in Streams!Streams : reported[s] + rx[s].count = frames[s]

\* The newest measurements, as many as the window holds.
Newest(s) ==
    SubSeq(s, IF Len(s) > PTP_SMOOTH_WINDOW_SIZE THEN Len(s) - PTP_SMOOTH_WINDOW_SIZE + 1 ELSE 1,
           Len(s))

WindowInv ==
    /\ ptp = [delay |-> ptp.delay, offset |-> ptp.offset]
    /\ ptp.offset = Newest(syncs) /\ ptp.delay \in Seq(Int) /\ Len(ptp.delay) = Len(ptp.offset)
    /\ Len(syncs) > 0 => smooth.offset = Streams!Mean(ptp.offset)

\* The stamp the frame in hand was published with is the one it would get now,
\* unless the clock it is taken from went on.
SampleInv ==
    sample # Streams!None =>
        /\ sample.at \in Nat /\ sample.at <= now
        /\ sample.synced \in Nat /\ sample.synced <= Len(syncs)
        /\ \/ Streams!make_aligned_stamp(sample.measured) = sample.published
           \/ g_use_host_ros_time = 1 /\ now > sample.at
           \/ g_use_host_ros_time = 2 /\ Len(syncs) > sample.synced

StreamsInv ==
    StreamsTyped /\ Counted /\ WindowInv /\ SampleInv /\ Streams!RecordedBySameRule

LEMMA SuffixAppended ==
    ASSUME NEW S, NEW s \in Seq(S), NEW v \in S, NEW a \in 0..Len(s)
    PROVE  /\ SubSeq(s, a + 1, Len(s)) \in Seq(S) /\ Len(SubSeq(s, a + 1, Len(s))) = Len(s) - a
           /\ Append(SubSeq(s, a + 1, Len(s)), v) = SubSeq(Append(s, v), a + 1, Len(s) + 1)
<1> DEFINE n == Len(s)
           t == Append(s, v)
           old == SubSeq(s, a + 1, n)
           new == SubSeq(t, a + 1, n + 1)
           longer == Append(old, v)
<1>1. n \in Nat /\ t \in Seq(S) /\ Len(t) = n + 1 /\ t[n + 1] = v /\ \A i \in 1..n : t[i] = s[i]
  OBVIOUS
<1>2. (\A i \in a + 1 .. n : s[i] \in S) /\ (\A i \in a + 1 .. n + 1 : t[i] \in S)
  OBVIOUS
<1> HIDE DEF n, t
<1>3. a + 1 \in Int /\ n \in Int /\ n + 1 \in Int /\ a \in 0..n /\ n - (a + 1) + 1 = n - a
      /\ n + 1 - (a + 1) + 1 = n - a + 1
  BY <1>1 DEF n
<1>4. old \in Seq(S) /\ Len(old) = n - a /\ \A i \in 1 .. n - a : old[i] = s[a + 1 + i - 1]
  BY <1>1, <1>2, <1>3, SubSeqProperties
<1>5. new \in Seq(S) /\ Len(new) = n - a + 1 /\ \A i \in 1 .. n - a + 1 : new[i] = t[a + 1 + i - 1]
  BY <1>1, <1>2, <1>3, SubSeqProperties
<1> HIDE DEF old, new
<1>6. /\ longer \in Seq(S) /\ Len(longer) = n - a + 1 /\ longer[n - a + 1] = v
      /\ \A i \in 1 .. n - a : longer[i] = old[i]
  BY <1>4
<1> HIDE DEF longer
<1>7. \A i \in 1 .. n - a + 1 : longer[i] = new[i]
  <2> TAKE i \in 1 .. n - a + 1
  <2>1. CASE i = n - a + 1
    BY <1>1, <1>3, <1>5, <1>6, <2>1
  <2>2. CASE i # n - a + 1
    <3>1. n \in Nat /\ a \in Nat /\ i \in Int /\ a <= n /\ 1 <= i /\ i <= n - a + 1
      BY <1>1, <1>3
    <3>2. i <= n - a
      BY <2>2, <3>1
    <3>3. i \in 1 .. n - a /\ a + 1 + i - 1 \in 1..n
      BY <3>1, <3>2
    <3> QED BY Zenon, <1>1, <1>4, <1>5, <1>6, <3>3
  <2> QED BY <2>1, <2>2
<1>8. longer = new
  BY <1>1, <1>3, <1>5, <1>6, <1>7
<1> QED BY Zenon, <1>4, <1>8 DEF longer, new, old, n, t

\* The window after one more measurement.
LEMMA WindowMoves ==
    ASSUME NEW S, NEW s \in Seq(S), NEW v \in S
    PROVE  /\ Streams!Window(Newest(s), v) = Newest(Append(s, v))
           /\ Newest(s) \in Seq(S)
           /\ Len(Newest(s)) =
                  IF Len(s) > PTP_SMOOTH_WINDOW_SIZE THEN PTP_SMOOTH_WINDOW_SIZE ELSE Len(s)
<1> DEFINE W == PTP_SMOOTH_WINDOW_SIZE
           n == Len(s)
           t == Append(s, v)
           longer == Append(Newest(s), v)
<1>1. W \in Nat \ {0} /\ n \in Nat /\ t \in Seq(S) /\ Len(t) = n + 1
  BY StreamsAssumption
<1> HIDE DEF W, n, t
<1>2. PICK a \in 0..n : /\ Newest(s) = SubSeq(s, a + 1, n)
                        /\ a = IF n > W THEN n - W ELSE 0
  <2>1. CASE n > W
    <3>1. n - W \in 0..n /\ Newest(s) = SubSeq(s, n - W + 1, n)
      BY <1>1, <2>1 DEF Newest, n, W
    <3> QED BY Zenon, <2>1, <3>1
  <2>2. CASE ~(n > W)
    <3>1. 0 \in 0..n /\ Newest(s) = SubSeq(s, 0 + 1, n)
      BY <1>1, <2>2 DEF Newest, n, W
    <3> QED BY Zenon, <2>2, <3>1
  <2> QED BY <2>1, <2>2
<1>3. /\ Newest(s) \in Seq(S) /\ Len(Newest(s)) = n - a
      /\ longer = SubSeq(t, a + 1, n + 1)
  <2>1. a \in 0..Len(s)
    BY DEF n
  <2>2. /\ SubSeq(s, a + 1, Len(s)) \in Seq(S) /\ Len(SubSeq(s, a + 1, Len(s))) = Len(s) - a
        /\ Append(SubSeq(s, a + 1, Len(s)), v) = SubSeq(Append(s, v), a + 1, Len(s) + 1)
    BY <2>1, SuffixAppended
  <2> QED BY Zenon, <1>2, <2>2 DEF n, t
<1>4. Len(longer) = n - a + 1
  BY <1>1, <1>3
<1>5. Streams!Window(Newest(s), v) = IF n - a + 1 > W THEN Tail(longer) ELSE longer
  BY <1>4 DEF Streams!Window, W
<1>6. Newest(t) = SubSeq(t, IF n + 1 > W THEN n + 1 - W + 1 ELSE 1, n + 1)
  BY <1>1 DEF Newest, W
<1> HIDE DEF longer
<1>7. CASE n + 1 > W
  <2>1. n - a + 1 > W /\ n + 1 - W + 1 = a + 1 + 1 /\ a + 1 \in 1..n + 1 /\ n + 1 \in a + 1 .. n + 1
    BY <1>1, <1>2, <1>7
  <2>2. Tail(SubSeq(t, a + 1, n + 1)) = SubSeq(t, a + 1 + 1, n + 1)
    BY <1>1, <2>1, HeadTailOfSubSeq
  <2>3. Streams!Window(Newest(s), v) = Newest(t)
    BY Zenon, <1>3, <1>5, <1>6, <1>7, <2>1, <2>2
  <2>4. n - a = IF n > W THEN W ELSE n
    BY <1>1, <1>2
  <2> QED BY <1>3, <2>3, <2>4 DEF n, t, W
<1>8. CASE ~(n + 1 > W)
  <2>1. ~(n - a + 1 > W) /\ a + 1 = 1 /\ n - a = IF n > W THEN W ELSE n
    BY <1>1, <1>2, <1>8
  <2>2. Streams!Window(Newest(s), v) = Newest(t)
    BY <1>3, <1>5, <1>6, <1>8, <2>1
  <2> QED BY <1>3, <2>1, <2>2 DEF n, t, W
<1> QED BY <1>7, <1>8

\* update_count and cal_fps keep the count of the frames.
LEMMA RatesCount ==
    ASSUME NEW r \in Counting, now \in Nat
    PROVE  /\ Streams!update_count(r) \in Counting /\ Streams!update_count(r).count = r.count + 1
           /\ Streams!cal_fps(r).next \in Counting /\ Streams!cal_fps(r).frames \in Nat
           /\ Streams!cal_fps(r).frames + Streams!cal_fps(r).next.count = r.count
<1>1. /\ r = [start |-> r.start, last |-> r.last, count |-> r.count]
      /\ r.start \in Nat /\ r.last \in Nat /\ r.count \in Nat
  BY DEF Counting
<1>2. Streams!update_count(r) =
          [start |-> IF r.count = 0 THEN now ELSE r.start,
           last |-> IF r.count = 0 THEN r.last ELSE now, count |-> r.count + 1]
  <2>1. CASE r.count = 0
    <3>1. Streams!update_count(r) = [r EXCEPT !.start = now, !.last = r.last, !.count = r.count + 1]
      BY <2>1 DEF Streams!update_count
    <3> QED BY Zenon, <2>1, <3>1 DEF Counting
  <2>2. CASE r.count # 0
    <3>1. Streams!update_count(r) = [r EXCEPT !.start = r.start, !.last = now, !.count = r.count + 1]
      BY <2>2 DEF Streams!update_count
    <3> QED BY Zenon, <2>2, <3>1 DEF Counting
  <2> QED BY <2>1, <2>2
<1>3. CASE r.count < 2
  <2>1. Streams!cal_fps(r).next = r /\ Streams!cal_fps(r).frames = 0
    BY <1>3 DEF Streams!cal_fps
  <2> QED BY <1>1, <1>2, <2>1 DEF Counting
<1>4. CASE ~(r.count < 2)
  <2>1. Streams!cal_fps(r).next = [start |-> r.last, last |-> r.last, count |-> 1]
    BY Zenon, <1>1, <1>4 DEF Streams!cal_fps
  <2>2. Streams!cal_fps(r).frames = r.count - 1
    BY <1>4 DEF Streams!cal_fps
  <2> QED BY <1>1, <1>2, <1>4, <2>1, <2>2 DEF Counting
<1> QED BY <1>3, <1>4

LEMMA StreamsFrame ==
    ASSUME StreamsInv, NEW kind \in Kinds, NEW age \in 0 .. 1, Streams!Frame(kind, age)
    PROVE  StreamsInv'
<1>1. /\ age <= now /\ rx' = [rx EXCEPT ![kind] = Streams!update_count(@)]
      /\ frames' = [frames EXCEPT ![kind] = @ + 1]
      /\ UNCHANGED <<g_use_host_ros_time, now, ptp, smooth, syncs, reported, recorded>>
  BY DEF Streams!Frame, Streams!Settings, Streams!Clocks, Streams!Reporting
<1>2. kind \in Streams!Streams
  BY StreamsAssumption
<1>3. /\ now \in Nat /\ Len(syncs) \in Nat
      /\ rx[kind] \in Counting
      /\ reported[kind] + rx[kind].count = frames[kind]
      /\ reported[kind] \in Nat /\ frames[kind] \in Nat
      /\ rx = [s \in Streams!Streams |-> rx[s]] /\ frames = [s \in Streams!Streams |-> frames[s]]
  BY <1>2 DEF StreamsInv, StreamsTyped, Counted
<1>4. /\ Streams!update_count(rx[kind]) \in Counting
      /\ Streams!update_count(rx[kind]).count = rx[kind].count + 1
  BY <1>3, RatesCount
<1>5. /\ rx'[kind] = Streams!update_count(rx[kind]) /\ frames'[kind] = frames[kind] + 1
      /\ \A s \in Streams!Streams : s # kind => rx'[s] = rx[s] /\ frames'[s] = frames[s]
      /\ rx' = [s \in Streams!Streams |-> rx'[s]] /\ frames' = [s \in Streams!Streams |-> frames'[s]]
  BY Zenon, <1>1, <1>2, <1>3
<1>6. StreamsTyped' /\ Counted'
  <2>1. \A s \in Streams!Streams :
            /\ rx'[s] \in Counting
            /\ frames'[s] \in Nat /\ reported[s] + rx'[s].count = frames'[s]
    <3> TAKE s \in Streams!Streams
    <3>1. CASE s = kind
      <4>1. rx[kind].count \in Nat
        BY <1>3 DEF Counting
      <4>2. reported[kind] + (rx[kind].count + 1) = frames[kind] + 1
        BY <1>3, <4>1
      <4> QED BY <1>3, <1>4, <1>5, <3>1, <4>2
    <3>2. CASE s # kind
      BY <1>5, <3>2 DEF StreamsInv, StreamsTyped, Counted
    <3> QED BY <3>1, <3>2
  <2> QED BY <1>1, <1>5, <2>1 DEF StreamsInv, StreamsTyped, Counted
<1>7. WindowInv' /\ Streams!RecordedBySameRule'
  BY Zenon, <1>1 DEF StreamsInv, WindowInv, Newest, Streams!RecordedBySameRule, Streams!Mean
<1>8. SampleInv'
  <2> SUFFICES ASSUME sample' # Streams!None PROVE SampleInv'
    BY DEF SampleInv, Streams!None
  <2>1. sample' = [measured |-> now - age, published |-> Streams!make_aligned_stamp(now - age),
                   at |-> now, synced |-> Len(syncs)]
    BY DEF Streams!Frame, Streams!None
  <2>2. /\ sample'.at = now /\ sample'.synced = Len(syncs) /\ sample'.measured = now - age
        /\ sample'.published = Streams!make_aligned_stamp(now - age)
    BY <2>1
  <2>3. Streams!make_aligned_stamp(sample.measured)' = Streams!make_aligned_stamp(now - age)
    BY <1>1, <2>2 DEF Streams!make_aligned_stamp
  <2> QED BY <1>1, <1>3, <2>2, <2>3 DEF SampleInv
<1> QED BY <1>6, <1>7, <1>8 DEF StreamsInv

LEMMA StreamsRecord == StreamsInv /\ Streams!Record => StreamsInv'
<1> SUFFICES ASSUME StreamsInv, Streams!Record PROVE StreamsInv'
  OBVIOUS
<1>1. /\ sample # Streams!None /\ sample' = Streams!None
      /\ recorded' = [frame |-> sample, stamp |-> Streams!aligned_stamp_ns(sample.measured),
                      at |-> now, synced |-> Len(syncs)]
      /\ UNCHANGED <<g_use_host_ros_time, now, rx, frames, ptp, smooth, syncs, reported>>
  BY DEF Streams!Record, Streams!Settings, Streams!Rates, Streams!Clocks, Streams!Reporting,
     Streams!None
<1>2. StreamsTyped' /\ Counted' /\ WindowInv' /\ SampleInv'
  BY Zenon, <1>1 DEF StreamsInv, StreamsTyped, Counted, WindowInv, Newest, Streams!Mean, SampleInv,
     Streams!None
<1>3. /\ recorded'.frame = sample /\ recorded'.at = now /\ recorded'.synced = Len(syncs)
      /\ recorded'.stamp = Streams!make_aligned_stamp(sample.measured)
  BY <1>1 DEF Streams!aligned_stamp_ns
<1>4. g_use_host_ros_time = 1 => recorded'.stamp = now
  BY <1>3 DEF Streams!make_aligned_stamp
<1>5. now \in Nat /\ sample.at \in Nat /\ sample.at <= now
  BY <1>1 DEF StreamsInv, StreamsTyped, SampleInv
<1>6. Streams!RecordedBySameRule'
  BY <1>1, <1>3, <1>4, <1>5 DEF StreamsInv, SampleInv, Streams!RecordedBySameRule
<1> QED BY <1>2, <1>6 DEF StreamsInv

LEMMA StreamsNtp ==
    ASSUME StreamsInv, NEW offset \in Offsets, Streams!Ntp(1, offset) PROVE StreamsInv'
<1>1. /\ ptp' = [delay |-> Streams!Window(ptp.delay, 1), offset |-> Streams!Window(ptp.offset, offset)]
      /\ smooth' = [delay |-> Streams!Mean(ptp'.delay), offset |-> Streams!Mean(ptp'.offset)]
      /\ syncs' = Append(syncs, offset)
      /\ UNCHANGED <<g_use_host_ros_time, now, rx, frames, sample, recorded, reported>>
  BY DEF Streams!Ntp, Streams!Settings, Streams!Rates, Streams!Recording, Streams!Reporting
<1>2. syncs \in Seq(Offsets) /\ ptp.offset = Newest(syncs) /\ ptp.delay \in Seq(Int)
      /\ Len(ptp.delay) = Len(ptp.offset)
  BY DEF StreamsInv, StreamsTyped, WindowInv
<1>3. /\ Streams!Window(Newest(syncs), offset) = Newest(Append(syncs, offset))
      /\ Newest(syncs) \in Seq(Offsets)
  BY <1>2, WindowMoves
<1>4. /\ Streams!Window(ptp.delay, 1) \in Seq(Int)
      /\ Len(Streams!Window(ptp.delay, 1)) = Len(Streams!Window(ptp.offset, offset))
  <2> DEFINE d == ptp.delay
             o == ptp.offset
             longd == Append(d, 1)
             longo == Append(o, offset)
  <2>1. d \in Seq(Int) /\ o \in Seq(Offsets) /\ Len(d) = Len(o)
    BY <1>2, <1>3
  <2> HIDE DEF d, o
  <2>2. /\ longd \in Seq(Int) /\ longo \in Seq(Offsets) /\ Len(longd) = Len(longo)
        /\ Len(d) \in Nat /\ longd # <<>> /\ longo # <<>>
    BY <2>1
  <2>3. Streams!Window(d, 1) = IF Len(longd) > PTP_SMOOTH_WINDOW_SIZE THEN Tail(longd) ELSE longd
    BY DEF Streams!Window
  <2>4. Streams!Window(o, offset) =
            IF Len(longo) > PTP_SMOOTH_WINDOW_SIZE THEN Tail(longo) ELSE longo
    BY DEF Streams!Window
  <2> HIDE DEF longd, longo
  <2>5. /\ Tail(longd) \in Seq(Int) /\ Len(Tail(longd)) = Len(longd) - 1
        /\ Len(Tail(longo)) = Len(longo) - 1
    BY <2>2
  <2> QED BY Zenon, <2>2, <2>3, <2>4, <2>5 DEF d, o
<1>5. WindowInv'
  <2>1. ptp'.offset = Streams!Window(ptp.offset, offset) /\ ptp'.delay = Streams!Window(ptp.delay, 1)
        /\ smooth'.offset = Streams!Mean(ptp'.offset)
        /\ ptp' = [delay |-> ptp'.delay, offset |-> ptp'.offset]
    BY <1>1
  <2>2. ptp'.offset = Newest(syncs')
    BY <1>1, <1>2, <1>3, <2>1
  <2> QED BY Zenon, <1>4, <2>1, <2>2 DEF WindowInv, Newest
<1>6. StreamsTyped' /\ Counted' /\ Streams!RecordedBySameRule'
  BY <1>1, <1>2 DEF StreamsInv, StreamsTyped, Counted, Streams!RecordedBySameRule
<1>7. SampleInv'
  <2>1. Len(syncs') = Len(syncs) + 1 /\ Len(syncs) \in Nat
    BY <1>1, <1>2
  <2>2. CASE g_use_host_ros_time = 2
    BY <1>1, <2>1, <2>2 DEF StreamsInv, SampleInv
  <2>3. CASE g_use_host_ros_time # 2
    BY <1>1, <2>1, <2>3 DEF StreamsInv, SampleInv, Streams!make_aligned_stamp
  <2> QED BY <2>2, <2>3
<1> QED BY <1>5, <1>6, <1>7 DEF StreamsInv

LEMMA StreamsWrite ==
    ASSUME StreamsInv, NEW output, Streams!WriteRates(output) PROVE StreamsInv'
<1>1. /\ rx' = [s \in Streams!Streams |-> Streams!cal_fps(rx[s]).next]
      /\ reported' = [s \in Streams!Streams |-> reported[s] + Streams!cal_fps(rx[s]).frames]
      /\ UNCHANGED <<g_use_host_ros_time, now, frames, ptp, smooth, syncs, sample, recorded>>
  BY DEF Streams!WriteRates, Streams!Settings, Streams!Clocks, Streams!Recording
<1>2. \A s \in Streams!Streams :
          /\ rx'[s] \in Counting /\ reported'[s] \in Nat
          /\ reported'[s] + rx'[s].count = reported[s] + rx[s].count
  <2> TAKE s \in Streams!Streams
  <2>1. rx[s] \in Counting /\ reported[s] \in Nat
    BY DEF StreamsInv, StreamsTyped
  <2>2. now \in Nat
    BY DEF StreamsInv, StreamsTyped
  <2>3. /\ Streams!cal_fps(rx[s]).next \in Counting /\ Streams!cal_fps(rx[s]).frames \in Nat
        /\ Streams!cal_fps(rx[s]).frames + Streams!cal_fps(rx[s]).next.count = rx[s].count
    BY <2>1, <2>2, RatesCount
  <2>4. /\ rx'[s] = Streams!cal_fps(rx[s]).next
        /\ reported'[s] = reported[s] + Streams!cal_fps(rx[s]).frames
    BY <1>1
  <2>5. rx'[s].count \in Nat
    BY <2>3, <2>4 DEF Counting
  <2> QED BY <2>1, <2>3, <2>4, <2>5
<1>3. /\ rx' = [s \in Streams!Streams |-> rx'[s]]
      /\ reported' = [s \in Streams!Streams |-> reported'[s]]
  BY <1>1
<1>4. StreamsTyped' /\ Counted'
  BY Zenon, <1>1, <1>2, <1>3 DEF StreamsInv, StreamsTyped, Counted
<1>5. WindowInv'
  BY Zenon, <1>1 DEF StreamsInv, WindowInv, Newest, Streams!Mean
<1>6. SampleInv'
  BY <1>1 DEF StreamsInv, SampleInv, Streams!make_aligned_stamp
<1>7. Streams!RecordedBySameRule'
  BY <1>1 DEF StreamsInv, Streams!RecordedBySameRule
<1> QED BY <1>4, <1>5, <1>6, <1>7 DEF StreamsInv

LEMMA StreamsTick == StreamsInv /\ Streams!Tick => StreamsInv'
<1> SUFFICES ASSUME StreamsInv, Streams!Tick PROVE StreamsInv'
  OBVIOUS
<1>1. /\ now' = now + 1 /\ now \in Nat
      /\ UNCHANGED <<g_use_host_ros_time, rx, frames, ptp, smooth, syncs, sample, recorded, reported>>
  BY DEF Streams!Tick, Streams!Settings, Streams!Rates, Streams!Clocks, Streams!Recording,
     Streams!Reporting, StreamsInv, StreamsTyped
<1>2. StreamsTyped' /\ Counted'
  BY <1>1 DEF StreamsInv, StreamsTyped, Counted
<1>4. WindowInv'
  BY Zenon, <1>1 DEF StreamsInv, WindowInv, Newest, Streams!Mean
<1>5. Streams!RecordedBySameRule'
  BY <1>1 DEF StreamsInv, Streams!RecordedBySameRule
<1>3. SampleInv'
  <2>1. CASE g_use_host_ros_time = 1
    BY <1>1, <2>1 DEF StreamsInv, SampleInv
  <2>2. CASE g_use_host_ros_time # 1
    BY <1>1, <2>2 DEF StreamsInv, SampleInv, Streams!make_aligned_stamp
  <2> QED BY <2>1, <2>2
<1> QED BY <1>2, <1>3, <1>4, <1>5 DEF StreamsInv

LEMMA StreamsKept ==
    (Streams!Init => StreamsInv) /\ (StreamsInv /\ [Streams!Next]_StreamsVars => StreamsInv')
<1>1. Streams!Init => StreamsInv
  <2> SUFFICES ASSUME Streams!Init PROVE StreamsInv
    OBVIOUS
  <2>1. /\ now = 0 /\ syncs = <<>> /\ sample = Streams!None /\ recorded = Streams!None
        /\ rx = [s \in Streams!Streams |-> [start |-> 0, last |-> 0, count |-> 0]]
        /\ ptp = [delay |-> <<>>, offset |-> <<>>]
        /\ frames = [s \in Streams!Streams |-> 0] /\ reported = [s \in Streams!Streams |-> 0]
    BY DEF Streams!Init
  <2>2. StreamsTyped /\ Counted
    BY <2>1 DEF StreamsTyped, Counted, Counting
  <2>3. WindowInv
    <3>1. ptp.offset = <<>> /\ ptp.delay = <<>> /\ Len(syncs) = 0
      BY <2>1
    <3>2. Newest(<<>>) = SubSeq(<<>>, 1, 0)
      BY StreamsAssumption DEF Newest
    <3>3. SubSeq(<<>>, 1, 0) = <<>>
      BY SubSeqEmpty
    <3> QED BY <2>1, <3>1, <3>2, <3>3 DEF WindowInv
  <2> QED BY <2>1, <2>2, <2>3 DEF StreamsInv, SampleInv, Streams!RecordedBySameRule
<1>2. ASSUME StreamsInv, Streams!DeviceStatus PROVE StreamsInv'
  BY Zenon, <1>2 DEF Streams!DeviceStatus, Streams!Settings, Streams!Rates, Streams!Clocks,
     Streams!Recording, StreamsInv, StreamsTyped, Counted, WindowInv, Newest, Streams!Mean,
     SampleInv, Streams!make_aligned_stamp, Streams!RecordedBySameRule
<1>3. ASSUME StreamsInv, UNCHANGED StreamsVars PROVE StreamsInv'
  BY Zenon, <1>3 DEF StreamsVars, StreamsInv, StreamsTyped, Counted, WindowInv, Newest,
     Streams!Mean, SampleInv, Streams!make_aligned_stamp, Streams!RecordedBySameRule
<1> QED BY <1>1, <1>2, <1>3, StreamsFrame, StreamsRecord, StreamsNtp, StreamsWrite, StreamsTick
       DEF Streams!Next

LEMMA StreamsAreSound == StreamsInv => Streams!StreamsSound
<1> SUFFICES ASSUME StreamsInv PROVE Streams!RatesAddUp /\ Streams!OffsetIsRecent
  BY DEF StreamsInv, Streams!StreamsSound
<1>1. Streams!RatesAddUp
  BY DEF StreamsInv, Counted, Streams!RatesAddUp
<1>2. Streams!OffsetIsRecent
  <2>1. /\ ptp.offset = Newest(syncs) /\ Len(ptp.delay) = Len(ptp.offset)
        /\ Len(syncs) > 0 => smooth.offset =
               Streams!Quotient(Streams!Sum(Newest(syncs)), Len(ptp.offset))
    BY DEF StreamsInv, WindowInv, Streams!Mean
  <2> QED BY Zenon, <2>1 DEF Newest, Streams!OffsetIsRecent
<1> QED BY <1>1, <1>2

-----------------------------------------------------------------------------
(* The calibration, for any cameras and files, and any order in which the     *)
(* driver writes them and the nodes read them.                                *)

LEMMA WhatFilesHold ==
    ASSUME NEW f
    PROVE  /\ Calib!Holds(f) \in {"unreadable", "whole", "short", "missing", "incomplete"}
           /\ Calib!Holds(f) # "unreadable" => f \in Calib!Cameras
BY CalibAssumption DEF Calib!Holds

\* What the driver has of the file at each step of the callback.
FileInv ==
    /\ step \in {"stream", "load", "ready"} => Calib!Holds(calib_config) # "incomplete"
    /\ step \in {"render", "stream", "load", "ready"} /\ initial_state # "stream_stopped" =>
           calib_config = Calib_odinDevice

RendererInv ==
    step \in {"stream", "load", "ready"} /\ Calib!Holds(calib_config) = "whole" =>
        renderer.params = calib_config

PublisherInv ==
    step = "ready" /\ Calib!Holds(calib_config) = "whole" =>
        /\ Calib_publisher.lens = calib_config /\ Calib_publisher.ext = calib_config
        /\ Calib_publisher.ok
        /\ Undistort => Calib_publisher.map = calib_config

\* A renderer made from one whole file only has that camera's parameters and table.
TableInv ==
    \A d \in Calib!Cameras : Calib!Holds(d) = "whole" /\ inits \subseteq {<<"whole", d>>} =>
        /\ renderer.made => renderer.params = d
        /\ renderer.table \in {Calib!None, d}

WaitInv == reprojector.phase \in {"gate", "wait"} => wait_count < Polls

CalibInv ==
    /\ Calib!TypeOK /\ FileInv /\ RendererInv /\ PublisherInv /\ Calib!TrustedIsOwn
    /\ TableInv /\ Calib!NodesCalibrated /\ WaitInv

\* A step that leaves the renderer, the publisher and the nodes.
LEMMA CalibCallback ==
    ASSUME CalibInv, Calib!TypeOK', FileInv', RendererInv', PublisherInv',
           UNCHANGED <<renderer, Calib_publisher, depth, reprojector, inits, wait_count>>
    PROVE  CalibInv'
<1>1. Calib!TrustedIsOwn' /\ TableInv'
  BY DEF CalibInv, Calib!TrustedIsOwn, TableInv, Calib!Holds
<1>2. Calib!NodesCalibrated' /\ WaitInv'
  BY DEF CalibInv, Calib!NodesCalibrated, Calib!Holds, WaitInv
<1> QED BY <1>1, <1>2 DEF CalibInv

LEMMA CalibAttach ==
    ASSUME CalibInv, NEW d \in Calib!Cameras, NEW state \in Calib!InitialStates,
           Calib!Attach(d, state)
    PROVE  CalibInv'
<1>1. /\ step' \in {"fetch", "render"} /\ attaches < MaxAttaches /\ attaches' = attaches + 1
      /\ Calib_odinDevice' = d /\ initial_state' = state /\ Calib_seen' = Calib_seen \cup {d}
      /\ step' = "render" => state = "stream_stopped"
      /\ UNCHANGED <<calib_config, renderer, Calib_publisher, depth, reprojector, wait_count, inits>>
  BY DEF Calib!Attach, Calib!Step, Calib!NeedsFile, Calib!nodes
<1>2. Calib!TypeOK'
  BY <1>1, CalibAssumption DEF CalibInv, Calib!TypeOK, Calib!InitialStates
<1>3. FileInv' /\ RendererInv' /\ PublisherInv'
  BY <1>1 DEF FileInv, RendererInv, PublisherInv
<1> QED BY <1>1, <1>2, <1>3, CalibCallback

LEMMA CalibCallbackSteps ==
    ASSUME CalibInv,
           Calib!BeginFile \/ Calib!EndFile \/ Calib!GiveUp \/ Calib!StartStream \/ Calib!Detach
    PROVE  CalibInv'
<1>1. UNCHANGED <<initial_state, attaches, renderer, Calib_publisher, depth, reprojector,
                  wait_count, Calib_seen, inits>>
  BY DEF Calib!BeginFile, Calib!EndFile, Calib!GiveUp, Calib!StartStream, Calib!Detach,
     Calib!nodes, Calib!history
<1>2. CASE Calib!BeginFile
  <2>1. step' = "write" /\ calib_config' = "partial" /\ UNCHANGED Calib_odinDevice
    BY <1>2 DEF Calib!BeginFile, Calib!Step
  <2>2. Calib!TypeOK'
    BY <1>1, <2>1 DEF CalibInv, Calib!TypeOK
  <2> QED BY <1>1, <2>1, <2>2, CalibCallback DEF FileInv, RendererInv, PublisherInv
<1>3. CASE Calib!EndFile
  <2>1. step' = "render" /\ calib_config' = Calib_odinDevice /\ UNCHANGED Calib_odinDevice
    BY <1>3 DEF Calib!EndFile, Calib!Step
  <2>2. Calib!TypeOK'
    BY <1>1, <2>1 DEF CalibInv, Calib!TypeOK
  <2> QED BY <1>1, <2>1, <2>2, CalibCallback DEF FileInv, RendererInv, PublisherInv
<1>4. CASE Calib!GiveUp \/ Calib!Detach
  <2>1. step' = "idle" /\ Calib_odinDevice' = Calib!None /\ UNCHANGED calib_config
    BY <1>4 DEF Calib!GiveUp, Calib!Detach, Calib!Step
  <2>2. Calib!TypeOK'
    BY <1>1, <2>1 DEF CalibInv, Calib!TypeOK
  <2> QED BY <1>1, <2>1, <2>2, CalibCallback DEF FileInv, RendererInv, PublisherInv
<1>5. CASE Calib!StartStream
  <2>1. step = "stream" /\ step' = "load" /\ UNCHANGED <<calib_config, Calib_odinDevice>>
    BY <1>5 DEF Calib!StartStream, Calib!Step
  <2>2. Calib!TypeOK'
    BY <1>1, <2>1 DEF CalibInv, Calib!TypeOK
  <2>3. FileInv' /\ RendererInv' /\ PublisherInv'
    BY <1>1, <2>1 DEF CalibInv, FileInv, RendererInv, PublisherInv, Calib!Holds
  <2> QED BY <1>1, <2>2, <2>3, CalibCallback
<1> QED BY <1>2, <1>3, <1>4, <1>5

LEMMA CalibMakes == CalibInv /\ Calib!MakeRenderer => CalibInv'
<1> SUFFICES ASSUME CalibInv, Calib!MakeRenderer PROVE CalibInv'
  OBVIOUS
<1> DEFINE f == calib_config
<1>1. UNCHANGED <<Calib_odinDevice, initial_state, attaches, calib_config, Calib_publisher, depth,
                  reprojector, wait_count, Calib_seen>>
  BY DEF Calib!MakeRenderer, Calib!nodes
<1>2. CASE Calib!Holds(f) = "incomplete"
  <2>1. step' = "ended" /\ UNCHANGED <<renderer, inits>>
    BY <1>2 DEF Calib!MakeRenderer, Calib!Step
  <2>2. Calib!TypeOK'
    BY <1>1, <2>1 DEF CalibInv, Calib!TypeOK
  <2> QED BY <1>1, <2>1, <2>2, CalibCallback DEF FileInv, RendererInv, PublisherInv
<1>3. CASE Calib!Holds(f) # "incomplete"
  <2>1. /\ step = "render" /\ step' = "stream" /\ renderer' = Calib!Made
        /\ inits' = inits \cup {<<Calib!Holds(f), f>>}
    BY <1>3 DEF Calib!MakeRenderer, Calib!Step
  <2>2. renderer \in [made : BOOLEAN, params : Calib!Cameras \cup {Calib!None},
                      table : Calib!Cameras \cup {Calib!None, "zero"}]
    BY DEF CalibInv, Calib!TypeOK
  <2>3. /\ renderer'.made = TRUE /\ renderer'.table = renderer.table
        /\ renderer'.params = IF Calib!Holds(f) = "whole" THEN f ELSE renderer.params
        /\ renderer' \in [made : BOOLEAN, params : Calib!Cameras \cup {Calib!None},
                          table : Calib!Cameras \cup {Calib!None, "zero"}]
    BY Zenon, <2>1, <2>2, WhatFilesHold DEF Calib!Made
  <2>4. Calib!TypeOK'
    BY <1>1, <2>1, <2>3 DEF CalibInv, Calib!TypeOK
  <2>5. FileInv' /\ RendererInv' /\ PublisherInv'
    BY <1>1, <1>3, <2>1, <2>3 DEF CalibInv, FileInv, RendererInv, PublisherInv, Calib!Holds
  <2>6. TableInv'
    <3> SUFFICES ASSUME NEW d \in Calib!Cameras, Calib!Holds(d) = "whole", inits' \subseteq {<<"whole", d>>}
                 PROVE  renderer'.params = d /\ renderer'.table \in {Calib!None, d}
      BY <2>3 DEF TableInv, Calib!Holds
    <3>1. <<Calib!Holds(f), f>> \in {<<"whole", d>>} /\ inits \subseteq {<<"whole", d>>}
      BY Zenon, <2>1
    <3>2. Calib!Holds(f) = "whole" /\ f = d
      BY <3>1
    <3> QED BY <2>3, <3>1, <3>2 DEF CalibInv, TableInv
  <2>7. Calib!TrustedIsOwn' /\ Calib!NodesCalibrated' /\ WaitInv'
    BY <1>1 DEF CalibInv, WaitInv, Calib!TrustedIsOwn, Calib!NodesCalibrated, Calib!Holds
  <2> QED BY <2>4, <2>5, <2>6, <2>7 DEF CalibInv
<1> QED BY <1>2, <1>3

LEMMA CalibLoads == CalibInv /\ Calib!loadCameraParams => CalibInv'
<1> SUFFICES ASSUME CalibInv, Calib!loadCameraParams PROVE CalibInv'
  OBVIOUS
<1> DEFINE f == calib_config
           Publishers == [lens : Calib!Cameras \cup {Calib!None}, map : Calib!Cameras \cup {Calib!None},
                          ext : Calib!Cameras \cup {Calib!None}, ok : BOOLEAN]
<1>1. /\ step = "load" /\ step' = "ready" /\ Calib_publisher' = Calib!loaded(f)
      /\ UNCHANGED <<Calib_odinDevice, initial_state, attaches, calib_config, renderer, depth,
                     reprojector, wait_count, Calib_seen, inits>>
  BY DEF Calib!loadCameraParams, Calib!Step, Calib!nodes, Calib!history
<1>2. Calib_publisher \in Publishers
  BY DEF CalibInv, Calib!TypeOK
<1>3. Calib!Holds(f) \in {"unreadable", "whole", "short", "missing"}
      /\ (Calib!Holds(f) # "unreadable" => f \in Calib!Cameras)
  BY <1>1, WhatFilesHold DEF CalibInv, FileInv
<1>4. /\ Calib_publisher' \in Publishers
      /\ Calib!Holds(f) = "whole" =>
             /\ Calib_publisher'.lens = f /\ Calib_publisher'.ext = f /\ Calib_publisher'.ok
             /\ Undistort => Calib_publisher'.map = f
      /\ Calib!Holds(f) = "short" => Calib_publisher'.lens = f
      /\ Calib!Holds(f) = "missing" => ~Calib_publisher'.ok
      /\ Calib!Holds(f) = "unreadable" => Calib_publisher' = Calib_publisher
  <2> DEFINE read == [Calib_publisher EXCEPT !.lens = f, !.ok = FALSE,
                                             !.map = IF Undistort THEN f ELSE @]
  <2>1. CASE Calib!Holds(f) = "unreadable"
    BY <1>1, <1>2, <2>1 DEF Calib!loaded
  <2>2. CASE Calib!Holds(f) # "unreadable"
    <3>1. /\ read \in Publishers /\ read.lens = f /\ ~read.ok /\ (Undistort => read.map = f)
      BY Zenon, <1>2, <1>3, <2>2
    <3>2. CASE Calib!Holds(f) = "missing"
      <4>1. Calib_publisher' = read
        BY <1>1, <3>2 DEF Calib!loaded
      <4> QED BY <3>1, <3>2, <4>1
    <3>3. CASE Calib!Holds(f) = "short"
      <4>1. Calib_publisher' = [read EXCEPT !.ok = TRUE]
        BY <1>1, <3>3 DEF Calib!loaded
      <4> HIDE DEF read
      <4> QED BY Zenon, <3>1, <3>3, <4>1
    <3>4. CASE Calib!Holds(f) = "whole"
      <4>1. Calib_publisher' = [read EXCEPT !.ext = f, !.ok = TRUE]
        BY <1>1, <3>4 DEF Calib!loaded
      <4> HIDE DEF read
      <4> QED BY Zenon, <1>3, <2>2, <3>1, <3>4, <4>1
    <3> QED BY <1>3, <2>2, <3>2, <3>3, <3>4
  <2> QED BY <2>1, <2>2
<1>5. Calib!TypeOK'
  BY <1>1, <1>4 DEF CalibInv, Calib!TypeOK
<1>6. FileInv' /\ RendererInv' /\ PublisherInv'
  BY <1>1, <1>4 DEF CalibInv, FileInv, RendererInv, PublisherInv, Calib!Holds
<1>7. Calib!TrustedIsOwn'
  BY <1>1, <1>3, <1>4 DEF CalibInv, Calib!TrustedIsOwn, Calib!Holds
<1>8. TableInv' /\ Calib!NodesCalibrated' /\ WaitInv'
  BY <1>1 DEF CalibInv, WaitInv, TableInv, Calib!NodesCalibrated, Calib!Holds
<1> QED BY <1>5, <1>6, <1>7, <1>8 DEF CalibInv

LEMMA CalibRenders == CalibInv /\ Calib!render => CalibInv'
<1> SUFFICES ASSUME CalibInv, Calib!render PROVE CalibInv'
  OBVIOUS
<1>1. /\ renderer.made /\ renderer.table = Calib!None
      /\ renderer' = [renderer EXCEPT !.table = IF renderer.params = Calib!None THEN "zero"
                                                ELSE renderer.params]
      /\ UNCHANGED <<step, Calib_odinDevice, initial_state, attaches, calib_config,
                     Calib_publisher, depth, reprojector, wait_count, Calib_seen, inits>>
  BY DEF Calib!render, Calib!callback, Calib!nodes, Calib!history
<1>2. renderer \in [made : BOOLEAN, params : Calib!Cameras \cup {Calib!None},
                    table : Calib!Cameras \cup {Calib!None, "zero"}]
  BY DEF CalibInv, Calib!TypeOK
<1>3. /\ renderer'.made = renderer.made /\ renderer'.params = renderer.params
      /\ renderer'.table = IF renderer.params = Calib!None THEN "zero" ELSE renderer.params
      /\ renderer' \in [made : BOOLEAN, params : Calib!Cameras \cup {Calib!None},
                        table : Calib!Cameras \cup {Calib!None, "zero"}]
  BY Zenon, <1>1, <1>2
<1>4. Calib!TypeOK'
  BY <1>1, <1>3 DEF CalibInv, Calib!TypeOK
<1>5. FileInv' /\ RendererInv' /\ PublisherInv' /\ Calib!TrustedIsOwn'
  BY <1>1, <1>3 DEF CalibInv, FileInv, RendererInv, PublisherInv, Calib!TrustedIsOwn, Calib!Holds
<1>6. TableInv'
  BY <1>1, <1>3, CalibAssumption DEF CalibInv, TableInv, Calib!Holds
<1>7. Calib!NodesCalibrated' /\ WaitInv'
  BY <1>1 DEF CalibInv, WaitInv, Calib!NodesCalibrated, Calib!Holds
<1> QED BY <1>4, <1>5, <1>6, <1>7 DEF CalibInv

\* A step of the depth node or of the reprojection node.
LEMMA CalibNodes ==
    ASSUME CalibInv, Calib!TypeOK', Calib!NodesCalibrated', WaitInv',
           UNCHANGED <<step, Calib_odinDevice, initial_state, calib_config, renderer,
                       Calib_publisher, inits>>
    PROVE  CalibInv'
BY DEF CalibInv, FileInv, RendererInv, PublisherInv, Calib!TrustedIsOwn, TableInv, Calib!Holds

Depths == [phase : {"gate", "wait", "loaded", "running", "stopped"},
           camera : Calib!Cameras \cup {Calib!None}]
Reprojectors ==
    [phase : {"gate", "wait", "running", "stopped"}, camera : Calib!Cameras \cup {Calib!None},
     Tcl : Calib!Cameras \cup {Calib!None}, Til : Calib!Cameras \cup {Calib!None, "fixed"}]

LEMMA CalibDepth ==
    ASSUME CalibInv, Calib!GateDepth \/ Calib!loadCalibParameters \/ Calib!StartDepth
    PROVE  CalibInv'
<1>1. UNCHANGED <<step, Calib_odinDevice, initial_state, attaches, calib_config, renderer,
                  Calib_publisher, reprojector, wait_count, Calib_seen, inits>>
  BY DEF Calib!GateDepth, Calib!loadCalibParameters, Calib!StartDepth, Calib!callback, Calib!history
<1>2. depth \in Depths
  BY DEF CalibInv, Calib!TypeOK, Depths
<1>3. depth' \in Depths /\ (depth'.phase = "running" => Calib!Holds(depth'.camera) = "whole")
  <2>1. CASE Calib!GateDepth
    <3>1. PICK to \in {"wait", "stopped"} : depth' = [depth EXCEPT !.phase = to]
      BY <2>1 DEF Calib!GateDepth
    <3> QED BY <1>2, <3>1 DEF Depths
  <2>2. CASE Calib!loadCalibParameters
    <3>1. CASE Calib!Holds(calib_config) = "unreadable"
      <4>1. depth' = [depth EXCEPT !.phase = "stopped"]
        BY <2>2, <3>1 DEF Calib!loadCalibParameters
      <4> QED BY <1>2, <4>1 DEF Depths
    <3>2. CASE Calib!Holds(calib_config) # "unreadable"
      <4>1. depth' = [phase |-> "loaded", camera |-> calib_config] /\ calib_config \in Calib!Cameras
        BY <2>2, <3>2, WhatFilesHold DEF Calib!loadCalibParameters
      <4> QED BY <4>1 DEF Depths
    <3> QED BY <3>1, <3>2
  <2>3. CASE Calib!StartDepth
    <3>1. depth' = [depth EXCEPT !.phase = IF Calib!Usable(depth.camera) THEN "running" ELSE "stopped"]
      BY <2>3 DEF Calib!StartDepth
    <3>2. /\ depth' \in Depths /\ depth'.camera = depth.camera
          /\ depth'.phase = "running" => Calib!Usable(depth.camera)
      BY <1>2, <3>1 DEF Depths
    <3> QED BY <3>2 DEF Calib!Usable
  <2> QED BY <2>1, <2>2, <2>3
<1>4. Calib!TypeOK' /\ Calib!NodesCalibrated' /\ WaitInv'
  BY <1>1, <1>3 DEF CalibInv, WaitInv, Calib!TypeOK, Calib!NodesCalibrated, Depths, Calib!Holds
<1> QED BY <1>1, <1>4, CalibNodes

LEMMA CalibReprojector ==
    ASSUME CalibInv, Calib!GateReprojection \/ Calib!Poll \/ Calib!loadParameters \/ Calib!syncCallback
    PROVE  CalibInv'
<1> DEFINE Sound(r) ==
               r.phase = "running" =>
                   /\ Calib!Holds(r.camera) = "whole"
                   /\ r.Til = r.Tcl \/ (r.Til = "fixed" /\ r.Tcl = r.camera)
<1>1. UNCHANGED <<step, Calib_odinDevice, initial_state, attaches, calib_config, renderer,
                  Calib_publisher, depth, Calib_seen, inits>>
  BY DEF Calib!GateReprojection, Calib!Poll, Calib!loadParameters, Calib!syncCallback,
     Calib!callback, Calib!history
<1>2. reprojector \in Reprojectors /\ Sound(reprojector) /\ wait_count \in 0..Polls
  BY DEF CalibInv, Calib!TypeOK, Calib!NodesCalibrated, Reprojectors
<1>3. reprojector' \in Reprojectors /\ Sound(reprojector')
  <2>1. CASE Calib!GateReprojection
    <3>1. PICK to \in {"wait", "stopped"} : reprojector' = [reprojector EXCEPT !.phase = to]
      BY <2>1 DEF Calib!GateReprojection
    <3> QED BY <1>2, <3>1 DEF Reprojectors
  <2>2. CASE Calib!Poll
    <3>1. reprojector' = [reprojector EXCEPT !.phase = "stopped"] \/ reprojector' = reprojector
      BY <2>2 DEF Calib!Poll
    <3> QED BY <1>2, <3>1 DEF Reprojectors
  <2>3. CASE Calib!loadParameters
    <3>1. CASE Calib!Holds(calib_config) = "whole"
      <4>1. /\ reprojector' = [phase |-> "running", camera |-> calib_config, Tcl |-> calib_config,
                               Til |-> "fixed"]
            /\ calib_config \in Calib!Cameras
        BY <2>3, <3>1, WhatFilesHold DEF Calib!loadParameters
      <4> QED BY <3>1, <4>1 DEF Reprojectors
    <3>2. CASE Calib!Holds(calib_config) # "whole"
      <4>1. reprojector' = [reprojector EXCEPT !.phase = "stopped"]
        BY <2>3, <3>2 DEF Calib!loadParameters
      <4> QED BY <1>2, <4>1 DEF Reprojectors
    <3> QED BY <3>1, <3>2
  <2>4. CASE Calib!syncCallback
    <3>1. PICK d \in Calib_seen : \E T_CL, T_IL \in {"identity", d} :
              reprojector' = Calib!updateExtrinsics(T_CL, T_IL)
      BY <2>4 DEF Calib!syncCallback
    <3>2. d \in Calib!Cameras
      BY DEF CalibInv, Calib!TypeOK
    <3>3. \/ reprojector' = reprojector
          \/ reprojector' = [reprojector EXCEPT !.Tcl = d, !.Til = d]
      BY Zenon, <3>1 DEF Calib!updateExtrinsics
    <3> QED BY Zenon, <1>2, <3>2, <3>3 DEF Reprojectors
  <2> QED BY <2>1, <2>2, <2>3, <2>4
<1>4. wait_count' \in 0..Polls /\ WaitInv'
  <2>1. CASE Calib!Poll
    <3>1. /\ reprojector.phase = "wait" /\ wait_count' = wait_count + 1
          /\ reprojector' = IF wait_count' >= Polls THEN [reprojector EXCEPT !.phase = "stopped"]
                            ELSE reprojector
      BY <2>1 DEF Calib!Poll
    <3>2. wait_count < Polls
      BY <3>1 DEF CalibInv, WaitInv
    <3>3. wait_count' >= Polls => reprojector'.phase = "stopped"
      BY <1>2, <3>1 DEF Reprojectors
    <3> QED BY <1>2, <3>1, <3>2, <3>3, CalibAssumption DEF WaitInv
  <2>2. CASE ~Calib!Poll
    <3>1. wait_count' = wait_count
      BY <2>2 DEF Calib!GateReprojection, Calib!loadParameters, Calib!syncCallback
    <3>2. reprojector'.phase \in {"gate", "wait"} => reprojector.phase \in {"gate", "wait"}
      BY Zenon, <1>2, <2>2
         DEF Calib!GateReprojection, Calib!loadParameters, Calib!syncCallback,
             Calib!updateExtrinsics, Reprojectors
    <3> QED BY <1>2, <3>1, <3>2 DEF CalibInv, WaitInv
  <2> QED BY <2>1, <2>2
<1>5. Calib!TypeOK' /\ Calib!NodesCalibrated'
  BY <1>1, <1>3, <1>4 DEF CalibInv, Calib!TypeOK, Calib!NodesCalibrated, Reprojectors, Calib!Holds
<1> QED BY <1>1, <1>4, <1>5, CalibNodes

LEMMA CalibKept == (Calib!Init => CalibInv) /\ (CalibInv /\ [Calib!Next]_CalibVars => CalibInv')
<1>1. Calib!Init => CalibInv
  <2> SUFFICES ASSUME Calib!Init PROVE CalibInv
    OBVIOUS
  <2>1. Calib!TypeOK
    BY CalibAssumption DEF Calib!Init, Calib!TypeOK, Calib!InitialStates
  <2>2. FileInv /\ RendererInv /\ PublisherInv
    BY DEF Calib!Init, FileInv, RendererInv, PublisherInv
  <2>3. Calib!TrustedIsOwn /\ TableInv /\ Calib!NodesCalibrated /\ WaitInv
    BY CalibAssumption DEF Calib!Init, Calib!TrustedIsOwn, TableInv, Calib!NodesCalibrated, WaitInv
  <2> QED BY <2>1, <2>2, <2>3 DEF CalibInv
<1>2. ASSUME CalibInv, UNCHANGED CalibVars PROVE CalibInv'
  <2>1. Calib!TypeOK' /\ FileInv' /\ RendererInv' /\ PublisherInv'
    BY <1>2 DEF CalibVars, CalibInv, Calib!TypeOK, FileInv, RendererInv, PublisherInv, Calib!Holds
  <2> QED BY <1>2, <2>1, CalibCallback DEF CalibVars
<1> QED BY <1>1, <1>2, CalibAttach, CalibCallbackSteps, CalibMakes, CalibLoads, CalibRenders,
       CalibDepth, CalibReprojector DEF Calib!Next

LEMMA CalibrationIsSound == CalibInv => Calib!CalibrationSound
<1>1. CalibInv => Calib!OneCamera
  BY DEF CalibInv, FileInv, RendererInv, PublisherInv, Calib!OneCamera
<1>2. CalibInv => Calib!TableIsOwn
  BY DEF CalibInv, TableInv, Calib!TableIsOwn
<1> QED BY <1>1, <1>2 DEF CalibInv, Calib!CalibrationSound

\* Every frame of the device is in one rate, the offset of its clock is the mean of
\* the newest measurements, and a recorded frame has the stamp of its message; the
\* driver and the nodes beside it use the whole file of one camera; the repeated
\* stamps never pass the device's clock; and an attempt to relocalise starts from
\* the pose last given or found (host_sdk_sample.cpp, small_gicp_relocalization.cpp).
THEOREM PosesDoHold == Spec => []PosesHold
<1>1. Spec => []Streams!StreamsSound
  BY StreamsAreSound, StreamsKept, StreamsSteps, PTL DEF Spec
<1>2. Spec => []Calib!CalibrationSound
  BY CalibrationIsSound, CalibKept, CalibSteps, PTL DEF Spec
<1>3. Tf!NeverInTheFuture /\ Relocal!StartsFromLast /\ Streams!StreamsSound
          /\ Calib!CalibrationSound => PosesHold
  BY DEF PosesHold
<1> QED BY <1>1, <1>2, <1>3, StampsNotAhead, StartsFromLastHolds, PTL

-----------------------------------------------------------------------------
(* Induction over the naturals.                                             *)

\* A set of naturals has a least one.
LEMMA NatLeast ==
    ASSUME NEW T, T \subseteq Nat, T # {}
    PROVE  \E x \in T : \A y \in T : x <= y
<1> DEFINE R == OpToRel(<, Nat)
<1>1. IsWellFoundedOn(R, Nat)
  BY Zenon, NatLessThanWellFounded
<1>2. \A x, y \in Nat : x < y => <<x, y>> \in R
  BY DEF OpToRel
<1> HIDE DEF R
<1>3. \E x \in T : \A y \in T : ~ (<<y, x>> \in R)
  BY Zenon, <1>1, WFMin
<1>4. \A x, y \in Nat : ~(y < x) => x <= y
  OBVIOUS
<1> QED BY Zenon, <1>2, <1>3, <1>4

\* Induction up to n, over a set of naturals.
LEMMA CountsUp ==
    ASSUME NEW n \in Nat, NEW S, 0 \in S, \A i \in 1..n : i - 1 \in S => i \in S
    PROVE  \A i \in 0..n : i \in S
<1> DEFINE T == {i \in 0..n : i \notin S}
<1> SUFFICES ASSUME T # {} PROVE FALSE
  OBVIOUS
<1>1. PICK x \in T : \A y \in T : x <= y
  <2>1. T \subseteq Nat
    OBVIOUS
  <2> HIDE DEF T
  <2> QED BY Zenon, <2>1, NatLeast
<1>2. x \in 1..n
  BY <1>1
<1>3. x - 1 \in 0..n /\ ~ (x <= x - 1)
  BY <1>2
<1>4. x - 1 \in S
  BY <1>1, <1>3
<1> QED BY <1>1, <1>2, <1>4

-----------------------------------------------------------------------------
(* Sets and sums.                                                           *)

\* What comes of finitely many is finite.
LEMMA ImageFinite ==
    ASSUME NEW S, IsFiniteSet(S), NEW f, NEW T, T \subseteq {f[x] : x \in S}
    PROVE  IsFiniteSet(T)
<1> DEFINE U == {f[x] : x \in S}
           g == [x \in S |-> f[x]]
<1>1. g \in [S -> U]
  OBVIOUS
<1>2. \A u \in U : \E x \in S : g[x] = u
  OBVIOUS
<1>3. g \in Surjection(S, U)
  BY <1>1, <1>2 DEF Surjection
<1> HIDE DEF g, U
<1>4. IsFiniteSet(U)
  BY <1>3, FS_Surjection
<1> QED BY <1>4, FS_Subset DEF U

\* A recursive definition of a sum over the subsets of S, as SumSet has one.
SumsIn(g, S, D) ==
    g = [s \in D |-> IF s = {} THEN 0 ELSE (CHOOSE x \in s : TRUE) + g[s \ {CHOOSE x \in s : TRUE}]]

\* Those of at most n elements.
Subsets(S, n) == {s \in SUBSET S : Cardinality(s) <= n}

LEMMA SubsetsAre ==
    ASSUME NEW S, IsFiniteSet(S), NEW n \in Nat
    PROVE  /\ Subsets(S, 0) = {{}}
           /\ Subsets(S, n) \subseteq Subsets(S, n + 1)
           /\ \A s \in Subsets(S, n + 1) : s # {} =>
                 /\ (CHOOSE x \in s : TRUE) \in s
                 /\ s \ {CHOOSE x \in s : TRUE} \in Subsets(S, n)
<1>1. \A s \in SUBSET S : IsFiniteSet(s) /\ Cardinality(s) \in Nat
  BY FS_Subset, FS_CardinalityType
<1>2. \A s \in SUBSET S : Cardinality(s) = 0 <=> s = {}
  BY <1>1, FS_EmptySet
<1>3. Subsets(S, 0) = {{}}
  BY <1>1, <1>2 DEF Subsets
<1>4. Subsets(S, n) \subseteq Subsets(S, n + 1)
  BY <1>1 DEF Subsets
<1>5. ASSUME NEW s \in Subsets(S, n + 1), s # {}
      PROVE  /\ (CHOOSE x \in s : TRUE) \in s
             /\ s \ {CHOOSE x \in s : TRUE} \in Subsets(S, n)
  <2> DEFINE c == CHOOSE x \in s : TRUE
  <2>1. c \in s
    BY <1>5
  <2> HIDE DEF c
  <2>2. s \in SUBSET S /\ Cardinality(s) <= n + 1
    BY DEF Subsets
  <2>3. Cardinality(s \ {c}) = Cardinality(s) - 1
    BY <1>1, <2>1, <2>2, FS_RemoveElement
  <2>4. Cardinality(s \ {c}) <= n
    BY <1>1, <2>2, <2>3
  <2>5. s \ {c} \in Subsets(S, n)
    BY <2>2, <2>4 DEF Subsets
  <2> QED BY <2>1, <2>5 DEF c
<1> QED BY <1>3, <1>4, <1>5

\* There is such a definition, on the subsets of at most n elements for any n.
LEMMA SumsExistIn ==
    ASSUME NEW S, IsFiniteSet(S), NEW n \in Nat
    PROVE  \E g : SumsIn(g, S, Subsets(S, n))
<1> DEFINE W == {i \in 0..n : \E g : SumsIn(g, S, Subsets(S, i))}
<1>1. 0 \in W
  <2> DEFINE g == [s \in Subsets(S, 0) |-> 0]
  <2>1. g = [s \in Subsets(S, 0) |-> IF s = {} THEN 0 ELSE (CHOOSE x \in s : TRUE) + g[s \ {CHOOSE x \in s : TRUE}]]
    BY SubsetsAre
  <2> HIDE DEF g
  <2>2. SumsIn(g, S, Subsets(S, 0))
    BY <2>1 DEF SumsIn
  <2> QED BY <2>2
<1>2. ASSUME NEW i \in 1..n, i - 1 \in W PROVE i \in W
  <2>1. PICK g : SumsIn(g, S, Subsets(S, i - 1))
    BY <1>2
  <2> DEFINE sums(h, s) == IF s = {} THEN 0 ELSE (CHOOSE x \in s : TRUE) + h[s \ {CHOOSE x \in s : TRUE}]
             h == [s \in Subsets(S, i) |-> sums(g, s)]
  <2>2. /\ Subsets(S, i - 1) \subseteq Subsets(S, i)
        /\ \A s \in Subsets(S, i) : s # {} => s \ {CHOOSE x \in s : TRUE} \in Subsets(S, i - 1)
    <3>1. i - 1 \in Nat /\ (i - 1) + 1 = i
      OBVIOUS
    <3> QED BY <3>1, SubsetsAre
  <2>3. \A s \in Subsets(S, i - 1) : h[s] = g[s]
    BY <2>1, <2>2, Zenon DEF SumsIn
  <2>4. \A s \in Subsets(S, i) : sums(g, s) = sums(h, s)
    <3> HIDE DEF h
    <3> QED BY <2>2, <2>3
  <2>5. h = [s \in Subsets(S, i) |-> sums(h, s)]
    <3>1. \A s \in Subsets(S, i) : h[s] = sums(h, s)
      <4> HIDE DEF sums
      <4>1. \A s \in Subsets(S, i) : h[s] = sums(g, s)
        OBVIOUS
      <4> HIDE DEF h
      <4> QED BY <2>4, <4>1
    <3>2. h = [s \in Subsets(S, i) |-> h[s]]
      OBVIOUS
    <3> HIDE DEF h, sums
    <3> QED BY <3>1, <3>2
  <2> HIDE DEF h
  <2>6. SumsIn(h, S, Subsets(S, i))
    BY <2>5, Zenon DEF SumsIn
  <2> QED BY <2>6
<1>3. n \in W
  <2> HIDE DEF W
  <2>1. \A i \in 0..n : i \in W
    BY Zenon, <1>1, <1>2, CountsUp
  <2> QED BY <2>1
<1> QED BY <1>3

\* A sum of finitely many integers is an integer.
LEMMA SumIsInt ==
    ASSUME NEW S, IsFiniteSet(S), S \subseteq Int
    PROVE  (CHOOSE g : SumsIn(g, S, SUBSET S))[S] \in Int
<1> DEFINE n == Cardinality(S)
           g == CHOOSE h : SumsIn(h, S, SUBSET S)
<1>1. n \in Nat
  BY FS_CardinalityType
<1>2. SUBSET S = Subsets(S, n)
  <2>1. \A s \in SUBSET S : Cardinality(s) <= n
    BY FS_Subset
  <2> QED BY <2>1 DEF Subsets
<1>3. SumsIn(g, S, SUBSET S)
  <2>1. \E h : SumsIn(h, S, SUBSET S)
    <3>1. \E h : SumsIn(h, S, Subsets(S, n))
      BY <1>1, SumsExistIn
    <3> QED BY Zenon, <1>2, <3>1
  <2> QED BY <2>1, Zenon
<1> HIDE DEF g, n
<1>4. \A s \in SUBSET S : g[s] = IF s = {} THEN 0 ELSE (CHOOSE x \in s : TRUE) + g[s \ {CHOOSE x \in s : TRUE}]
  BY <1>3, Zenon DEF SumsIn
<1>9. g[{}] = 0
  BY <1>4, Zenon
<1> DEFINE W == {i \in 0..n : \A s \in Subsets(S, i) : g[s] \in Int}
<1>5. 0 \in W
  <2>1. Subsets(S, 0) = {{}}
    BY SubsetsAre
  <2> QED BY <1>1, <1>9, <2>1
<1>6. ASSUME NEW i \in 1..n, i - 1 \in W PROVE i \in W
  <2> SUFFICES ASSUME NEW s \in Subsets(S, i) PROVE g[s] \in Int
    OBVIOUS
  <2>1. s \in SUBSET S
    BY DEF Subsets
  <2>2. CASE s = {}
    BY <1>9, <2>2
  <2>3. CASE s # {}
    <3> DEFINE c == CHOOSE x \in s : TRUE
    <3>1. c \in s /\ s \ {c} \in Subsets(S, i - 1)
      <4>1. i - 1 \in Nat /\ (i - 1) + 1 = i
        BY <1>1
      <4> QED BY <2>3, <4>1, SubsetsAre
    <3>2. g[s] = c + g[s \ {c}]
      BY <1>4, <2>1, <2>3, Zenon
    <3>3. g[s \ {c}] \in Int
      BY <1>6, <3>1
    <3> HIDE DEF c
    <3> QED BY <2>1, <3>1, <3>2, <3>3
  <2> QED BY <2>2, <2>3
<1>7. n \in W
  <2> HIDE DEF W
  <2>1. \A i \in 0..n : i \in W
    BY Zenon, <1>1, <1>5, <1>6, CountsUp
  <2> QED BY <1>1, <2>1
<1>8. g[S] \in Int
  BY <1>2, <1>7
<1> QED BY <1>8 DEF g

-----------------------------------------------------------------------------
(* The rolling grid of the terrain nodes, for any size and place.           *)

\* Division with a remainder.
LEMMA Quotients ==
    /\ \A x \in Nat, s \in Nat \ {0} : x \div s \in Nat /\ s * (x \div s) <= x /\ x < s * (x \div s) + s
    /\ \A x \in Int, s \in Nat \ {0} : x \div s \in Int /\ s * (x \div s) <= x /\ x < s * (x \div s) + s
OBVIOUS

Away(x) == IF x < 0 THEN -x ELSE x

\* TerrainGrid's Index, of a grid with half of its columns on each side.
IndexOf(d, size, half) ==
    LET n == d + size \div 2
    IN  half + IF n >= 0 THEN n \div size ELSE -((-n) \div size) - 1

\* A place is at most half a voxel from the middle of its column.
LEMMA IndexIs ==
    ASSUME NEW size \in Nat \ {0}, size % 2 = 0, NEW half \in Nat, NEW d \in Int
    PROVE  /\ IndexOf(d, size, half) \in Int
           /\ LET off == d - size * (IndexOf(d, size, half) - half)
              IN  off \in Int /\ -size <= 2 * off /\ 2 * off <= size
<1> DEFINE h == size \div 2
           n == d + h
           q == IF n >= 0 THEN n \div size ELSE -((-n) \div size) - 1
<1>1. h \in Nat /\ size = 2 * h
  OBVIOUS
<1>2. IndexOf(d, size, half) = half + q
  BY DEF IndexOf
<1> HIDE DEF h
<1>3. n \in Int
  BY <1>1
<1> HIDE DEF n
<1>4. q \in Int /\ n - size * q \in 0..size
  <2>1. CASE n >= 0
    <3> DEFINE k == n \div size
    <3>1. k \in Nat /\ size * k <= n /\ n < size * k + size
      BY <1>3, <2>1, Quotients
    <3>2. q = k
      BY <2>1
    <3> HIDE DEF k, q
    <3> QED BY <1>3, <3>1, <3>2
  <2>2. CASE n < 0
    <3> DEFINE k == (-n) \div size
    <3>1. k \in Nat /\ size * k <= -n /\ -n < size * k + size
      <4>1. -n \in Nat
        BY <1>3, <2>2
      <4> QED BY <4>1, Quotients
    <3>2. q = -k - 1
      BY <1>3, <2>2
    <3> HIDE DEF k, q
    <3>3. size * q = -(size * k) - size
      BY <3>1, <3>2
    <3>4. size * k \in Int
      BY <3>1
    <3> QED BY <1>3, <3>1, <3>2, <3>3, <3>4
  <2> QED BY <1>3, <2>1, <2>2
<1> HIDE DEF q
<1>5. half + q - half = q
  BY <1>4
<1>6. d - size * q = n - size * q - h
  <2>1. size * q \in Int
    BY <1>4
  <2> QED BY <1>1, <2>1 DEF n
<1>7. \A m \in 0..size : m - h \in Int /\ -size <= 2 * (m - h) /\ 2 * (m - h) <= size
  BY <1>1
<1>8. IndexOf(d, size, half) - half = q /\ half + q \in Int
  BY <1>2, <1>4, <1>5
<1> QED BY <1>2, <1>4, <1>6, <1>7, <1>8

\* TerrainGrid's Turns.
RollsBy(x, shift, size) ==
    LET near(k) == Away(x - size * (shift + k)) <= size
        bound == 1 + Away(x) + Away(shift)
    IN  CHOOSE k \in -bound .. bound : near(k) /\ \A j \in -bound .. bound : near(j) => Away(k) <= Away(j)

\* The turns bring the vehicle to within a voxel of the centre, and there are
\* none when it is.
LEMMA RollsAre ==
    ASSUME NEW size \in Nat \ {0}, NEW x \in Int, NEW shift \in Int
    PROVE  LET k == RollsBy(x, shift, size)
           IN  /\ k \in Int
               /\ Away(x - size * (shift + k)) <= size
               /\ Away(x - size * shift) <= size => k = 0
<1> DEFINE near(k) == Away(x - size * (shift + k)) <= size
           bound == 1 + Away(x) + Away(shift)
           R == -bound .. bound
           D == {Away(j) : j \in {k \in R : near(k)}}
<1>1. \A y \in Int : Away(y) \in Nat /\ -Away(y) <= y /\ y <= Away(y)
  BY DEF Away
<1>2. bound \in Nat /\ R \subseteq Int /\ 0 \in R
  <2>1. Away(x) \in Nat /\ Away(shift) \in Nat
    BY <1>1
  <2> QED BY <2>1
<1>3. \E k \in R : near(k)
  <2> DEFINE q == x \div size
  <2>1. q \in Int /\ size * q <= x /\ x < size * q + size
    BY Quotients
  <2>2. -Away(x) <= q /\ q <= Away(x)
    <3>1. CASE x >= 0
      <4>1. x \in Nat /\ Away(x) = x
        BY <3>1 DEF Away
      <4>2. q \in Nat /\ q <= x
        <5>1. \A a \in Int, s \in Nat \ {0} : s * a <= x /\ x < s * a + s => a >= 0 /\ a <= x
          BY <3>1
        <5> HIDE DEF q
        <5> QED BY <2>1, <5>1
      <4> HIDE DEF q
      <4> QED BY <4>1, <4>2
    <3>2. CASE x < 0
      <4>1. Away(x) = -x
        BY <3>2 DEF Away
      <4>2. q >= x /\ q <= 0
        <5>1. \A a \in Int, s \in Nat \ {0} : s * a <= x /\ x < s * a + s => a >= x /\ a <= 0
          BY <3>2
        <5> HIDE DEF q
        <5> QED BY <2>1, <5>1
      <4> HIDE DEF q
      <4> QED BY <2>1, <3>2, <4>1, <4>2
    <3> QED BY <3>1, <3>2
  <2> HIDE DEF q
  <2> DEFINE k == q - shift
  <2>3. k \in R
    <3>1. Away(x) \in Nat /\ Away(shift) \in Nat /\ -Away(shift) <= shift /\ shift <= Away(shift)
      BY <1>1
    <3> QED BY <2>1, <2>2, <3>1
  <2>4. near(k)
    <3>1. shift + k = q
      BY <2>1
    <3>2. size * q \in Int
      BY <2>1
    <3>3. x - size * q \in 0..size
      BY <2>1, <3>2
    <3>4. Away(x - size * q) <= size
      BY <3>3 DEF Away
    <3> HIDE DEF k
    <3> QED BY <3>1, <3>4
  <2> QED BY <2>3, <2>4
<1> HIDE DEF bound
<1>4. \E k \in R : near(k) /\ \A j \in R : near(j) => Away(k) <= Away(j)
  <2>1. D \subseteq Nat /\ D # {}
    <3> HIDE DEF R
    <3> QED BY <1>1, <1>2, <1>3
  <2>2. PICK a \in D : \A b \in D : a <= b
    <3> HIDE DEF D
    <3> QED BY Zenon, <2>1, NatLeast
  <2>3. PICK k \in R : near(k) /\ a = Away(k)
    OBVIOUS
  <2>4. \A j \in R : near(j) => Away(k) <= Away(j)
    BY <2>2, <2>3
  <2> QED BY <2>3, <2>4
<1> DEFINE k == RollsBy(x, shift, size)
<1>5. k \in R /\ near(k) /\ \A j \in R : near(j) => Away(k) <= Away(j)
  <2> DEFINE best(t) == near(t) /\ \A j \in R : near(j) => Away(t) <= Away(j)
  <2>1. k = CHOOSE t \in R : best(t)
    BY Zenon DEF RollsBy, bound
  <2>2. \E t \in R : best(t)
    BY <1>4
  <2> HIDE DEF best, R, k
  <2>3. k \in R /\ best(k)
    BY Zenon, <2>1, <2>2
  <2> QED BY <2>3 DEF best
<1> HIDE DEF k, R
<1>6. k \in Int
  BY <1>2, <1>5
<1>7. ASSUME Away(x - size * shift) <= size PROVE k = 0
  <2>1. near(0)
    <3>1. shift + 0 = shift
      OBVIOUS
    <3> QED BY <1>7, <3>1
  <2>2. Away(k) <= Away(0)
    BY Zenon, <1>2, <1>5, <2>1
  <2> QED BY <1>6, <2>2 DEF Away
<1> QED BY <1>5, <1>6, <1>7 DEF k

Place == Int \X Int \X Int

\* The entries of a terrain node are in columns near their places; a column that
\* was updated since the vehicle moved has no points that were too old then, and
\* the vehicle is in the middle; and once a scan is processed every column was
\* updated in time.
NearColumns(vox, shift, size, half) ==
    \A e \in vox, i \in 1..2 : 2 * Away(e.p[i] - size * (shift[i] + e.at[i] - half)) <= 3 * size
FreshSince(vox, u, since, decay, stay) ==
    \A e \in vox : u[e.at] > since => u[e.at] - e.t < decay \/ e.t >= u[e.at] \/ e.p \in stay
Centred(v, shift, size) == \A i \in 1..2 : Away(v[i] - size * shift[i]) <= size
\* A grid is [size, half, decay, thre, columns]; its state is
\* [v, stay, moved, now, crop, new, shift, vox, u].
IsGrid(g) ==
    /\ g.size \in Nat \ {0} /\ g.size % 2 = 0 /\ g.half \in Nat
    /\ g.decay \in Nat /\ g.thre \in Nat \ {0} /\ g.columns \in SUBSET (Int \X Int)
Entries(g) == [at : g.columns, p : Place, t : Int]
GridInv(g, s) ==
    /\ s.v \in Place /\ s.shift \in [1..2 -> Int] /\ s.now \in Int /\ s.moved \in Int
    /\ IsFiniteSet(s.crop) /\ s.crop \in SUBSET [p : Place, t : {s.now}]
    /\ IsFiniteSet(s.vox) /\ s.vox \in SUBSET Entries(g)
    /\ s.u \in [g.columns -> Int] /\ \A c \in g.columns : s.u[c] <= s.now
    /\ NearColumns(s.vox, s.shift, g.size, g.half)
    /\ FreshSince(s.vox, s.u, s.moved, g.decay, s.stay)
    /\ (\E c \in g.columns : s.u[c] > s.moved) => Centred(s.v, s.shift, g.size)
    /\ ~s.new => \A c \in g.columns : s.now - s.u[c] < g.thre

\* Odometry: what was updated since the vehicle stands was not after it moves.
GridMoves(s, t) ==
    /\ t.v \in Place
    /\ t.v = s.v => t.stay = s.stay
    /\ t.moved = IF t.v = s.v THEN s.moved ELSE s.now
    /\ t.now = s.now /\ t.crop = s.crop /\ t.new = s.new
    /\ t.shift = s.shift /\ t.vox = s.vox /\ t.u = s.u

LEMMA MovingKeeps ==
    ASSUME NEW g, NEW s, GridInv(g, s), NEW t, GridMoves(s, t)
    PROVE  GridInv(g, t)
<1>1. CASE t.v = s.v
  BY <1>1 DEF GridMoves, GridInv
<1>2. CASE t.v # s.v
  <2>1. \A c \in g.columns : ~(s.u[c] > s.now)
    BY DEF GridInv
  <2>2. \A e \in s.vox : e.at \in g.columns
    BY DEF GridInv, Entries
  <2>3. FreshSince(s.vox, s.u, s.now, g.decay, t.stay)
    BY <2>1, <2>2 DEF FreshSince
  <2>4. /\ t.moved = s.now /\ t.now = s.now /\ t.crop = s.crop /\ t.new = s.new
        /\ t.shift = s.shift /\ t.vox = s.vox /\ t.u = s.u /\ t.v \in Place
    BY <1>2 DEF GridMoves
  <2>5. FreshSince(t.vox, t.u, t.moved, g.decay, t.stay) /\ NearColumns(t.vox, t.shift, g.size, g.half)
    BY <2>3, <2>4 DEF GridInv
  <2>6. ~\E c \in g.columns : t.u[c] > t.moved
    BY <2>1, <2>4
  <2> QED BY <2>4, <2>5, <2>6 DEF GridInv
<1> QED BY <1>1, <1>2

\* A scan comes.
GridSees(s, t) ==
    /\ t.now \in Int /\ s.now <= t.now
    /\ IsFiniteSet(t.crop) /\ t.crop \in SUBSET [p : Place, t : {t.now}] /\ t.new = TRUE
    /\ t.v = s.v /\ t.stay = s.stay /\ t.moved = s.moved
    /\ t.shift = s.shift /\ t.vox = s.vox /\ t.u = s.u

LEMMA SeeingKeeps ==
    ASSUME NEW g, NEW s, GridInv(g, s), NEW t, GridSees(s, t)
    PROVE  GridInv(g, t)
<1>1. \A c \in g.columns : t.u[c] <= t.now
  BY DEF GridInv, GridSees
<1> QED BY <1>1 DEF GridInv, GridSees

\* A scan is processed: the columns roll by k, the scan is stacked, and what is due
\* is updated.
Rolled(e, f, k) == e.p = f.p /\ e.t = f.t /\ e.at = <<f.at[1] - k[1], f.at[2] - k[2]>>
StackedAt(e, v, size, half) ==
    \A i \in 1..2 : LET off == e.p[i] - v[i] - size * (e.at[i] - half)
                    IN  -size <= 2 * off /\ 2 * off <= size

\* A point that rolls with its column, or is stacked, is near the middle of it.
LEMMA RollsNear ==
    ASSUME NEW size \in Nat \ {0}, NEW half \in Nat, NEW columns \in SUBSET (Int \X Int),
           NEW v \in Place, NEW shift \in [1..2 -> Int], NEW k \in [1..2 -> Int],
           NEW vox \in SUBSET [at : columns, p : Place, t : Int], NearColumns(vox, shift, size, half),
           \A i \in 1..2 : Away(v[i] - size * (shift[i] + k[i])) <= size,
           NEW e \in [at : columns, p : Place, t : Int],
           (\E f \in vox : Rolled(e, f, k)) \/ StackedAt(e, v, size, half),
           NEW i \in 1..2
    PROVE  2 * Away(e.p[i] - size * (shift[i] + k[i] + e.at[i] - half)) <= 3 * size
<1>1. v[i] \in Int /\ e.p[i] \in Int /\ e.at[i] \in Int /\ shift[i] \in Int /\ k[i] \in Int
  BY DEF Place
<1>2. ASSUME NEW f \in vox, Rolled(e, f, k)
      PROVE  2 * Away(e.p[i] - size * (shift[i] + k[i] + e.at[i] - half)) <= 3 * size
  <2>1. e.at[i] = f.at[i] - k[i] /\ f.at[i] \in Int /\ e.p[i] = f.p[i]
    BY <1>2 DEF Rolled
  <2>2. shift[i] + k[i] + e.at[i] - half = shift[i] + f.at[i] - half
    BY <1>1, <2>1
  <2>3. 2 * Away(f.p[i] - size * (shift[i] + f.at[i] - half)) <= 3 * size
    BY DEF NearColumns
  <2> QED BY <2>1, <2>2, <2>3
<1>3. ASSUME StackedAt(e, v, size, half)
      PROVE  2 * Away(e.p[i] - size * (shift[i] + k[i] + e.at[i] - half)) <= 3 * size
  <2> DEFINE a == e.p[i] - v[i] - size * (e.at[i] - half)
             b == v[i] - size * (shift[i] + k[i])
  <2>1. a \in Int /\ -size <= 2 * a /\ 2 * a <= size
    BY <1>1, <1>3 DEF StackedAt
  <2>2. b \in Int /\ Away(b) <= size
    BY <1>1
  <2>3. e.p[i] - size * (shift[i] + k[i] + e.at[i] - half) = a + b
    <3> DEFINE y == shift[i] + k[i]
               z == e.at[i] - half
    <3>1. y \in Int /\ z \in Int /\ shift[i] + k[i] + e.at[i] - half = y + z
      BY <1>1
    <3> HIDE DEF y, z
    <3>2. size * (y + z) = size * y + size * z /\ size * y \in Int /\ size * z \in Int
      BY <3>1
    <3> QED BY <1>1, <3>1, <3>2 DEF y, z
  <2> HIDE DEF a, b
  <2>4. 2 * Away(a + b) <= 3 * size
    BY <2>1, <2>2 DEF Away
  <2> QED BY <2>3, <2>4
<1> QED BY <1>2, <1>3

\* What the turns, the stack and the update are for the grid to stay right.
TurnsFit(g, s, k) ==
    /\ k \in [1..2 -> Int]
    /\ \A i \in 1..2 : /\ Away(s.v[i] - g.size * (s.shift[i] + k[i])) <= g.size
                       /\ Away(s.v[i] - g.size * s.shift[i]) <= g.size => k[i] = 0
StackFits(g, s, k, stack) ==
    /\ stack \in SUBSET Entries(g)
    /\ \A e \in stack : \/ \E f \in s.vox : Rolled(e, f, k)
                        \/ e.t = s.now /\ StackedAt(e, s.v, g.size, g.half)
UpdateFits(g, s, stack, due, vox) ==
    /\ vox \in SUBSET Entries(g) /\ IsFiniteSet(vox)
    /\ \A e \in vox : \/ e \in stack /\ e.at \notin due
                      \/ \E f \in stack : /\ e.at = f.at /\ e.p = f.p /\ f.at \in due
                                          /\ s.now - e.t < g.decay \/ e.p \in s.stay
InTime(g, s, due) == \A c \in g.columns : c \notin due => s.now - s.u[c] < g.thre
GridTurned(g, s, k, due, t) ==
    /\ t.u = [c \in g.columns |-> IF c \in due THEN s.now ELSE s.u[c]]
    /\ t.shift = [i \in 1..2 |-> s.shift[i] + k[i]]
    /\ t.v = s.v /\ t.stay = s.stay /\ t.moved = s.moved /\ t.now = s.now /\ t.crop = s.crop

\* Then the grid stays right.
LEMMA TurningKeeps ==
    ASSUME NEW g, IsGrid(g), NEW s, GridInv(g, s),
           NEW k, TurnsFit(g, s, k), NEW stack, StackFits(g, s, k, stack),
           NEW due, InTime(g, s, due), NEW t, UpdateFits(g, s, stack, due, t.vox), GridTurned(g, s, k, due, t)
    PROVE  GridInv(g, t)
<1>1. /\ s.v \in Place /\ s.shift \in [1..2 -> Int] /\ s.now \in Int /\ s.moved \in Int
      /\ s.vox \in SUBSET Entries(g) /\ NearColumns(s.vox, s.shift, g.size, g.half)
      /\ s.u \in [g.columns -> Int] /\ \A c \in g.columns : s.u[c] <= s.now
  BY DEF GridInv
<1>2. t.shift \in [1..2 -> Int] /\ \A i \in 1..2 : t.shift[i] = s.shift[i] + k[i]
  BY <1>1 DEF GridTurned, TurnsFit
<1>3. t.u \in [g.columns -> Int] /\ \A c \in g.columns : t.u[c] <= t.now /\ t.now - t.u[c] < g.thre
  BY <1>1 DEF GridTurned, InTime, IsGrid
<1>4. NearColumns(t.vox, t.shift, g.size, g.half)
  <2> SUFFICES ASSUME NEW e \in t.vox, NEW i \in 1..2
               PROVE  2 * Away(e.p[i] - g.size * (t.shift[i] + e.at[i] - g.half)) <= 3 * g.size
    BY Zenon DEF NearColumns
  <2>1. PICK f \in stack : e.at = f.at /\ e.p = f.p
    BY DEF UpdateFits
  <2>2. f \in [at : g.columns, p : Place, t : Int] /\ s.vox \in SUBSET [at : g.columns, p : Place, t : Int]
    BY <1>1 DEF StackFits, Entries
  <2>3. (\E h \in s.vox : Rolled(f, h, k)) \/ StackedAt(f, s.v, g.size, g.half)
    BY DEF StackFits
  <2>4. /\ g.size \in Nat \ {0} /\ g.half \in Nat /\ g.columns \in SUBSET (Int \X Int)
        /\ k \in [1..2 -> Int] /\ \A j \in 1..2 : Away(s.v[j] - g.size * (s.shift[j] + k[j])) <= g.size
    BY DEF IsGrid, TurnsFit
  <2>5. 2 * Away(f.p[i] - g.size * (s.shift[i] + k[i] + f.at[i] - g.half)) <= 3 * g.size
    BY <1>1, <2>2, <2>3, <2>4, RollsNear
  <2> QED BY <1>2, <2>1, <2>5
<1>5. FreshSince(t.vox, t.u, s.moved, g.decay, s.stay)
  <2> SUFFICES ASSUME NEW e \in t.vox, t.u[e.at] > s.moved
               PROVE  t.u[e.at] - e.t < g.decay \/ e.t >= t.u[e.at] \/ e.p \in s.stay
    BY Zenon DEF FreshSince
  <2>1. e.at \in g.columns
    BY DEF UpdateFits, Entries
  <2>4. t.u = [c \in g.columns |-> IF c \in due THEN s.now ELSE s.u[c]]
    BY DEF GridTurned
  <2>2. CASE e \in stack /\ e.at \notin due
    <3>1. t.u[e.at] = s.u[e.at] /\ s.u[e.at] > s.moved
      BY <2>1, <2>2, <2>4
    <3>2. Centred(s.v, s.shift, g.size)
      BY <2>1, <3>1 DEF GridInv
    <3>3. \A i \in 1..2 : k[i] = 0
      BY <3>2 DEF Centred, TurnsFit
    <3>4. ASSUME NEW f \in s.vox, Rolled(e, f, k)
          PROVE  t.u[e.at] - e.t < g.decay \/ e.t >= t.u[e.at] \/ e.p \in s.stay
      <4>1. f.at \in Int \X Int
        BY <1>1 DEF Entries, IsGrid
      <4>2. f.at[1] - 0 = f.at[1] /\ f.at[2] - 0 = f.at[2] /\ f.at = <<f.at[1], f.at[2]>>
        BY <4>1
      <4>3. e.at = f.at /\ e.p = f.p /\ e.t = f.t
        BY <3>3, <3>4, <4>2 DEF Rolled
      <4>4. s.u[f.at] - f.t < g.decay \/ f.t >= s.u[f.at] \/ f.p \in s.stay
        BY <3>1, <4>3 DEF GridInv, FreshSince
      <4> QED BY <3>1, <4>3, <4>4
    <3>5. ASSUME e.t = s.now PROVE e.t >= t.u[e.at]
      BY <1>1, <2>1, <3>1, <3>5
    <3> QED BY <2>2, <3>4, <3>5 DEF StackFits
  <2>3. CASE e.at \in due /\ (s.now - e.t < g.decay \/ e.p \in s.stay)
    <3>1. t.u[e.at] = s.now
      BY <2>1, <2>3, <2>4
    <3> QED BY <2>3, <3>1
  <2> QED BY <2>2, <2>3 DEF UpdateFits
<1>6. Centred(s.v, t.shift, g.size)
  BY <1>2 DEF Centred, TurnsFit
<1>7. t.vox \in SUBSET Entries(g) /\ IsFiniteSet(t.vox)
  BY DEF UpdateFits
<1>8. s.crop \in SUBSET [p : Place, t : {s.now}] /\ IsFiniteSet(s.crop)
  BY DEF GridInv
<1> QED BY <1>1, <1>2, <1>3, <1>4, <1>5, <1>6, <1>7, <1>8 DEF GridInv, GridTurned

\* A point that is kept is not older than the decay time and an update, once the
\* vehicle has stood that long.
LEMMA GridServes ==
    ASSUME NEW g, IsGrid(g), NEW s, GridInv(g, s), ~s.new, s.now - s.moved >= g.thre, NEW e \in s.vox
    PROVE  s.now - e.t < g.decay + g.thre \/ e.p \in s.stay
<1>1. /\ s.now \in Int /\ s.moved \in Int /\ e.at \in g.columns /\ e.t \in Int /\ s.u[e.at] \in Int
      /\ g.decay \in Nat /\ g.thre \in Nat
  BY DEF GridInv, Entries, IsGrid
<1>2. s.now - s.u[e.at] < g.thre
  BY <1>1 DEF GridInv
<1>3. s.u[e.at] > s.moved
  BY <1>1, <1>2
<1>4. s.u[e.at] - e.t < g.decay \/ e.t >= s.u[e.at] \/ e.p \in s.stay
  BY <1>3 DEF GridInv, FreshSince
<1> QED BY <1>1, <1>2, <1>4

\* TerrainGrid's RollOver, Stacked and Downsized.
RollOf(vox, k, columns) ==
    {e \in {[f EXCEPT !.at = <<f.at[1] - k[1], f.at[2] - k[2]>>] : f \in vox} : e.at \in columns}
StackOf(crop, v, size, half, columns) ==
    {e \in {[at |-> <<IndexOf(s.p[1] - v[1], size, half), IndexOf(s.p[2] - v[2], size, half)>>,
             p |-> s.p, t |-> s.t] : s \in crop} : e.at \in columns}
SumOf(S) == (CHOOSE g : SumsIn(g, S, SUBSET S))[S]
TimesOf(vox, e) == {f.t : f \in {g \in vox : g.at = e.at /\ g.p = e.p}}
DownOf(vox) ==
    {[e EXCEPT !.t = SumOf(TimesOf(vox, e)) \div Cardinality(TimesOf(vox, e))] : e \in vox}

\* What rolls keeps its place and time.
LEMMA RollIs ==
    ASSUME NEW columns, columns \subseteq Int \X Int,
           NEW vox \in SUBSET [at : columns, p : Place, t : Int], IsFiniteSet(vox), NEW k
    PROVE  /\ IsFiniteSet(RollOf(vox, k, columns))
           /\ RollOf(vox, k, columns) \subseteq [at : columns, p : Place, t : Int]
           /\ \A e \in RollOf(vox, k, columns) : \E f \in vox : Rolled(e, f, k)
<1> DEFINE to == [f \in vox |-> [f EXCEPT !.at = <<f.at[1] - k[1], f.at[2] - k[2]>>]]
<1>1. RollOf(vox, k, columns) = {e \in {to[f] : f \in vox} : e.at \in columns}
  BY DEF RollOf
<1>2. \A f \in vox : to[f] = [at |-> <<f.at[1] - k[1], f.at[2] - k[2]>>, p |-> f.p, t |-> f.t]
  OBVIOUS
<1>3. \A f \in vox : to[f].p = f.p /\ to[f].t = f.t /\ to[f].at = <<f.at[1] - k[1], f.at[2] - k[2]>>
  BY <1>2
<1>4. \A f \in vox : f.p \in Place /\ f.t \in Int
  OBVIOUS
<1>5. ASSUME NEW f \in vox, to[f].at \in columns PROVE to[f] \in [at : columns, p : Place, t : Int]
  <2> DEFINE at == <<f.at[1] - k[1], f.at[2] - k[2]>>
  <2>1. to[f] = [at |-> at, p |-> f.p, t |-> f.t] /\ at \in columns
    BY <1>2, <1>3, <1>5
  <2> HIDE DEF to, at
  <2> QED BY <1>4, <2>1
<1> HIDE DEF to
<1>6. IsFiniteSet(RollOf(vox, k, columns))
  <2>1. RollOf(vox, k, columns) \subseteq {to[f] : f \in vox}
    BY <1>1
  <2> QED BY <2>1, ImageFinite
<1> QED BY <1>1, <1>3, <1>5, <1>6 DEF Rolled

\* What is stacked is of the scan and in the column of its place.
LEMMA StackIs ==
    ASSUME NEW size \in Nat \ {0}, size % 2 = 0, NEW half \in Nat, NEW columns,
           NEW v \in Place, NEW stamp \in Int, NEW crop \in SUBSET [p : Place, t : {stamp}], IsFiniteSet(crop)
    PROVE  /\ IsFiniteSet(StackOf(crop, v, size, half, columns))
           /\ StackOf(crop, v, size, half, columns) \subseteq [at : columns, p : Place, t : Int]
           /\ \A e \in StackOf(crop, v, size, half, columns) : e.t = stamp /\ StackedAt(e, v, size, half)
<1> DEFINE at(s) == <<IndexOf(s.p[1] - v[1], size, half), IndexOf(s.p[2] - v[2], size, half)>>
           to == [s \in crop |-> [at |-> at(s), p |-> s.p, t |-> s.t]]
<1>1. StackOf(crop, v, size, half, columns) = {e \in {to[s] : s \in crop} : e.at \in columns}
  BY DEF StackOf
<1>2. \A s \in crop : to[s].at = at(s) /\ to[s].p = s.p /\ to[s].t = stamp /\ s.p \in Place
  OBVIOUS
<1>3. \A s \in crop : to[s].at \in columns => to[s] \in [at : columns, p : Place, t : Int]
  OBVIOUS
<1>4. ASSUME NEW s \in crop PROVE StackedAt(to[s], v, size, half)
  <2>1. \A i \in 1..2 : s.p[i] \in Int /\ v[i] \in Int /\ s.p[i] - v[i] \in Int
    BY DEF Place
  <2>2. \A i \in 1..2 : at(s)[i] = IndexOf(s.p[i] - v[i], size, half)
    OBVIOUS
  <2>3. \A i \in 1..2 : LET off == s.p[i] - v[i] - size * (at(s)[i] - half)
                        IN  -size <= 2 * off /\ 2 * off <= size
    <3> HIDE DEF at
    <3> QED BY <2>1, <2>2, IndexIs
  <2> HIDE DEF at, to
  <2> QED BY <1>2, <2>3 DEF StackedAt
<1> HIDE DEF to
<1>5. IsFiniteSet(StackOf(crop, v, size, half, columns))
  <2>1. StackOf(crop, v, size, half, columns) \subseteq {to[s] : s \in crop}
    BY <1>1
  <2> QED BY <2>1, ImageFinite
<1> QED BY <1>1, <1>2, <1>3, <1>4, <1>5

\* The mean of the times of a place is a time.
LEMMA DownIs ==
    ASSUME NEW g, NEW vox, vox \subseteq Entries(g), IsFiniteSet(vox)
    PROVE  /\ IsFiniteSet(DownOf(vox)) /\ DownOf(vox) \subseteq Entries(g)
           /\ \A e \in DownOf(vox) : \E f \in vox : e.at = f.at /\ e.p = f.p
<1> DEFINE mean(e) == SumOf(TimesOf(vox, e)) \div Cardinality(TimesOf(vox, e))
           to == [e \in vox |-> [e EXCEPT !.t = mean(e)]]
<1>0. Entries(g) = [at : g.columns, p : Place, t : Int]
  BY DEF Entries
<1>1. ASSUME NEW e \in vox PROVE mean(e) \in Int
  <2> DEFINE S == TimesOf(vox, e)
  <2>1. S \subseteq Int /\ e.t \in S
    BY <1>0 DEF TimesOf
  <2>2. IsFiniteSet(S)
    <3> DEFINE timeOf == [f \in vox |-> f.t]
    <3>1. S \subseteq {timeOf[f] : f \in vox}
      BY DEF TimesOf
    <3> HIDE DEF S, timeOf
    <3> QED BY <3>1, ImageFinite
  <2> HIDE DEF S
  <2>3. SumOf(S) \in Int
    BY Zenon, <2>1, <2>2, SumIsInt DEF SumOf
  <2>4. Cardinality(S) \in Nat \ {0}
    BY <2>1, <2>2, FS_CardinalityType, FS_EmptySet
  <2>5. SumOf(S) \div Cardinality(S) \in Int
    BY <2>3, <2>4, Quotients
  <2> QED BY <2>5 DEF S
<1> HIDE DEF mean
<1>2. \A e \in vox : to[e] = [at |-> e.at, p |-> e.p, t |-> mean(e)]
  BY <1>0
<1>3. DownOf(vox) = {to[e] : e \in vox}
  BY DEF DownOf, mean
<1> HIDE DEF to
<1>4. IsFiniteSet(DownOf(vox))
  BY <1>3, ImageFinite
<1>5. \A e \in vox : to[e] \in Entries(g) /\ to[e].at = e.at /\ to[e].p = e.p
  <2> SUFFICES ASSUME NEW e \in vox
               PROVE  to[e] \in Entries(g) /\ to[e].at = e.at /\ to[e].p = e.p
    OBVIOUS
  <2>1. mean(e) \in Int /\ to[e] = [at |-> e.at, p |-> e.p, t |-> mean(e)]
    BY <1>1, <1>2
  <2>2. e.at \in g.columns /\ e.p \in Place
    BY <1>0
  <2> QED BY <1>0, <2>1, <2>2
<1> QED BY <1>3, <1>4, <1>5

\* The whole of a processed scan.
LEMMA GridProcesses ==
    ASSUME NEW g, IsGrid(g), NEW s, GridInv(g, s),
           NEW k, k = [i \in 1..2 |-> RollsBy(s.v[i], s.shift[i], g.size)],
           NEW stack,
           stack = RollOf(s.vox, k, g.columns) \cup StackOf(s.crop, s.v, g.size, g.half, g.columns),
           NEW due, InTime(g, s, due),
           NEW kept \in SUBSET DownOf({f \in stack : f.at \in due}),
           \A e \in kept : e.p \in Place => s.now - e.t < g.decay \/ e.p \in s.stay,
           NEW t, t.vox = {e \in stack : e.at \notin due} \cup kept, GridTurned(g, s, k, due, t)
    PROVE  GridInv(g, t)
<1>1. /\ s.v \in Place /\ s.shift \in [1..2 -> Int] /\ s.now \in Int
      /\ s.vox \in SUBSET [at : g.columns, p : Place, t : Int] /\ IsFiniteSet(s.vox)
      /\ IsFiniteSet(s.crop) /\ s.crop \in SUBSET [p : Place, t : {s.now}]
  BY DEF GridInv, Entries
<1>2. /\ g.size \in Nat \ {0} /\ g.size % 2 = 0 /\ g.half \in Nat /\ g.columns \subseteq Int \X Int
      /\ Entries(g) = [at : g.columns, p : Place, t : Int]
  BY DEF IsGrid, Entries
<1>3. TurnsFit(g, s, k)
  <2>1. \A i \in 1..2 : s.v[i] \in Int /\ s.shift[i] \in Int
    BY <1>1 DEF Place
  <2>2. \A i \in 1..2 : LET n == RollsBy(s.v[i], s.shift[i], g.size)
                        IN  /\ n \in Int /\ Away(s.v[i] - g.size * (s.shift[i] + n)) <= g.size
                            /\ Away(s.v[i] - g.size * s.shift[i]) <= g.size => n = 0
    BY <1>2, <2>1, RollsAre
  <2> QED BY <2>2 DEF TurnsFit
<1>4. /\ StackFits(g, s, k, stack) /\ IsFiniteSet(stack)
      /\ stack \in SUBSET [at : g.columns, p : Place, t : Int]
  <2> DEFINE R == RollOf(s.vox, k, g.columns)
             S == StackOf(s.crop, s.v, g.size, g.half, g.columns)
  <2>1. /\ IsFiniteSet(R) /\ R \subseteq [at : g.columns, p : Place, t : Int]
        /\ \A e \in R : \E f \in s.vox : Rolled(e, f, k)
    BY <1>1, <1>2, RollIs
  <2>2. /\ IsFiniteSet(S) /\ S \subseteq [at : g.columns, p : Place, t : Int]
        /\ \A e \in S : e.t = s.now /\ StackedAt(e, s.v, g.size, g.half)
    BY <1>1, <1>2, StackIs
  <2> HIDE DEF R, S
  <2>3. IsFiniteSet(R \cup S)
    BY <2>1, <2>2, FS_Union
  <2>4. stack = R \cup S
    BY DEF R, S
  <2> QED BY <1>2, <2>1, <2>2, <2>3, <2>4 DEF StackFits
<1> DEFINE D == DownOf({f \in stack : f.at \in due})
<1>5. /\ IsFiniteSet(D) /\ D \subseteq [at : g.columns, p : Place, t : Int]
      /\ \A e \in D : \E f \in stack : e.at = f.at /\ e.p = f.p /\ f.at \in due
  <2> DEFINE E == {f \in stack : f.at \in due}
  <2>1. IsFiniteSet(E) /\ E \subseteq Entries(g)
    BY <1>2, <1>4, FS_Subset
  <2>2. \A e \in E : e \in stack /\ e.at \in due
    OBVIOUS
  <2> HIDE DEF E
  <2>3. /\ IsFiniteSet(DownOf(E)) /\ DownOf(E) \subseteq Entries(g)
        /\ \A e \in DownOf(E) : \E f \in E : e.at = f.at /\ e.p = f.p
    BY <2>1, DownIs
  <2>4. D = DownOf(E)
    BY DEF E
  <2> HIDE DEF D
  <2> QED BY <1>2, <2>2, <2>3, <2>4
<1>6. kept \subseteq D
  OBVIOUS
<1> HIDE DEF D
<1> DEFINE A == {e \in stack : e.at \notin due}
<1>7. t.vox \subseteq [at : g.columns, p : Place, t : Int] /\ IsFiniteSet(t.vox)
  <2>1. IsFiniteSet(A) /\ A \subseteq stack
    BY <1>4, FS_Subset
  <2>2. IsFiniteSet(kept) /\ kept \subseteq [at : g.columns, p : Place, t : Int]
    BY <1>5, <1>6, FS_Subset
  <2>3. t.vox = A \cup kept
    OBVIOUS
  <2> HIDE DEF A
  <2>4. IsFiniteSet(A \cup kept)
    BY <2>1, <2>2, FS_Union
  <2> QED BY <1>4, <2>1, <2>2, <2>3, <2>4
<1>8. UpdateFits(g, s, stack, due, t.vox)
  <2> SUFFICES ASSUME NEW e \in t.vox
               PROVE  \/ e \in stack /\ e.at \notin due
                      \/ \E f \in stack : /\ e.at = f.at /\ e.p = f.p /\ f.at \in due
                                          /\ s.now - e.t < g.decay \/ e.p \in s.stay
    BY <1>2, <1>7 DEF UpdateFits
  <2>1. e \in A \/ e \in kept
    OBVIOUS
  <2>2. ASSUME e \in kept
        PROVE  \E f \in stack : /\ e.at = f.at /\ e.p = f.p /\ f.at \in due
                                /\ s.now - e.t < g.decay \/ e.p \in s.stay
    BY <1>5, <1>6, <2>2
  <2> QED BY <2>1, <2>2
<1> QED BY <1>3, <1>4, <1>8, TurningKeeps

-----------------------------------------------------------------------------
(* terrain_analysis: its points stay near their columns, and leave in time. *)

\* The grid and the state of terrain_analysis.
Terrain_Grid ==
    [size |-> Terrain_Size, half |-> Terrain_Half, decay |-> Terrain_Settings.decayTime,
     thre |-> Terrain_Settings.voxelTimeUpdateThre, columns |-> Terrain!Voxels!Columns]
Terrain_State ==
    [v |-> Terrain_vehicle,
     stay |-> {p \in Place : Terrain!Voxels!Dist(p, Terrain_vehicle) < Terrain_Settings.noDecayDis},
     moved |-> Terrain_moved_at, now |-> Terrain_laserCloudTime, crop |-> Terrain_laserCloudCrop,
     new |-> Terrain_newlaserCloud, shift |-> Terrain_terrainVoxelShift,
     vox |-> Terrain_terrainVoxelCloud, u |-> Terrain_terrainVoxelUpdateTime]
TerrainInv == GridInv(Terrain_Grid, Terrain_State)

LEMMA TerrainGridIs == IsGrid(Terrain_Grid)
<1>1. Terrain!Voxels!Columns \in SUBSET (Int \X Int)
  <2>1. 2 * Terrain_Half + 1 - 1 = 2 * Terrain_Half /\ 0 .. 2 * Terrain_Half \subseteq Int
    BY TerrainAssumption
  <2> QED BY <2>1 DEF Terrain!Voxels!Columns
<1> QED BY <1>1, TerrainAssumption DEF IsGrid, Terrain_Grid

\* Its operators are those above.
LEMMA TerrainTurns ==
    /\ \A x, shift : Terrain!Voxels!Turns(x, shift) = RollsBy(x, shift, Terrain_Size)
    /\ \A d : Terrain!Voxels!Index(d) = IndexOf(d, Terrain_Size, Terrain_Half)
<1>1. \A x : Terrain!Voxels!Abs(x) = Away(x)
  BY DEF Terrain!Voxels!Abs, Away
<1>2. ASSUME NEW x, NEW shift PROVE Terrain!Voxels!Turns(x, shift) = RollsBy(x, shift, Terrain_Size)
  BY DEF Terrain!Voxels!Turns, RollsBy, Terrain!Voxels!Abs, Away
<1>3. Terrain!Voxels!Half = Terrain_Half
  <2>1. (2 * Terrain_Half + 1) \div 2 = Terrain_Half
    BY TerrainAssumption
  <2> QED BY <2>1 DEF Terrain!Voxels!Half
<1>4. ASSUME NEW d PROVE Terrain!Voxels!Index(d) = IndexOf(d, Terrain_Size, Terrain_Half)
  BY <1>3 DEF Terrain!Voxels!Index, IndexOf
<1> QED BY <1>2, <1>4

LEMMA TerrainStacks ==
    /\ \A vox, k : Terrain!Voxels!RollOver(vox, k) = RollOf(vox, k, Terrain!Voxels!Columns)
    /\ \A crop, v : Terrain!Voxels!Stacked(crop, v) = StackOf(crop, v, Terrain_Size, Terrain_Half, Terrain!Voxels!Columns)
<1>1. ASSUME NEW vox, NEW k PROVE Terrain!Voxels!RollOver(vox, k) = RollOf(vox, k, Terrain!Voxels!Columns)
  BY DEF Terrain!Voxels!RollOver, RollOf
<1>2. ASSUME NEW crop, NEW v
      PROVE  Terrain!Voxels!Stacked(crop, v) = StackOf(crop, v, Terrain_Size, Terrain_Half, Terrain!Voxels!Columns)
  BY TerrainTurns DEF Terrain!Voxels!Stacked, Terrain!Voxels!Column, StackOf
<1> QED BY <1>1, <1>2

LEMMA TerrainMeans == \A vox : Terrain!Voxels!Downsized(vox) = DownOf(vox)
<1>1. ASSUME NEW S PROVE Terrain!Voxels!SumSet(S) = SumOf(S)
  BY DEF Terrain!Voxels!SumSet, Terrain!Voxels!FoldSet, Terrain!Voxels!MapThenFoldSet, SumOf, SumsIn
<1>2. ASSUME NEW S PROVE Terrain!Voxels!Cardinality(S) = Cardinality(S)
  BY DEF Terrain!Voxels!Cardinality, Cardinality
<1>3. ASSUME NEW vox PROVE Terrain!Voxels!Downsized(vox) = DownOf(vox)
  BY <1>1, <1>2 DEF Terrain!Voxels!Downsized, DownOf, TimesOf
<1> QED BY <1>3

\* Every step keeps its grid right.
LEMMA TerrainKept == (Terrain!Init => TerrainInv) /\ (TerrainInv /\ [Terrain!Next]_TerrainVars => TerrainInv')
<1>1. ASSUME Terrain!Init PROVE TerrainInv
  <2>1. /\ Terrain_vehicle = <<0, 0, 0>> /\ Terrain_moved_at = 0 /\ Terrain_laserCloudTime = 0
        /\ Terrain_laserCloudCrop = {} /\ Terrain_newlaserCloud = FALSE
        /\ Terrain_terrainVoxelShift = <<0, 0>> /\ Terrain_terrainVoxelCloud = {}
        /\ Terrain_terrainVoxelUpdateTime = [c \in Terrain!Voxels!Columns |-> 0]
    BY <1>1 DEF Terrain!Init
  <2>2. Terrain_Grid.columns = Terrain!Voxels!Columns /\ Terrain_Grid.thre \in Nat \ {0}
    BY TerrainAssumption DEF Terrain_Grid
  <2> DEFINE s == Terrain_State
             u == Terrain_terrainVoxelUpdateTime
  <2>3. /\ s.v = <<0, 0, 0>> /\ s.moved = 0 /\ s.now = 0 /\ s.crop = {} /\ s.new = FALSE
        /\ s.shift = <<0, 0>> /\ s.vox = {} /\ s.u = u
    BY <2>1 DEF Terrain_State
  <2>4. u \in [Terrain_Grid.columns -> Int] /\ \A c \in Terrain_Grid.columns : u[c] = 0
    BY <2>1, <2>2
  <2>5. <<0, 0, 0>> \in Place /\ <<0, 0>> \in [1..2 -> Int] /\ IsFiniteSet({})
    BY FS_EmptySet DEF Place
  <2> HIDE DEF s, u
  <2>6. GridInv(Terrain_Grid, s)
    BY <2>2, <2>3, <2>4, <2>5 DEF GridInv, NearColumns, FreshSince
  <2> QED BY <2>6 DEF TerrainInv, s
<1>2. ASSUME TerrainInv, Terrain!odometryHandler PROVE TerrainInv'
  <2>1. Terrain_vehicle' \in Place
    BY <1>2, TerrainAssumption DEF Terrain!odometryHandler, Place
  <2>2. GridMoves(Terrain_State, Terrain_State')
    BY <1>2, <2>1 DEF Terrain!odometryHandler, GridMoves, Terrain_State, Terrain!scan, Terrain!voxels
  <2> QED BY <1>2, <2>2, MovingKeeps DEF TerrainInv
<1>3. ASSUME TerrainInv, Terrain!laserCloudHandler PROVE TerrainInv'
  <2>1. Terrain_laserCloudTime \in Int
    BY <1>3 DEF TerrainInv, GridInv, Terrain_State
  <2>2. PICK seen \in Terrain_Scans :
          Terrain_laserCloudCrop' = {[p |-> p, t |-> Terrain_laserCloudTime'] : p \in
              {q \in seen : Terrain!InRange(q) /\ Terrain!Voxels!Dist(q, Terrain_vehicle) < Terrain_Size * (Terrain_Half + 1)}}
    BY <1>3 DEF Terrain!laserCloudHandler
  <2> DEFINE cropped == {q \in seen : Terrain!InRange(q) /\ Terrain!Voxels!Dist(q, Terrain_vehicle) < Terrain_Size * (Terrain_Half + 1)}
             point == [p \in cropped |-> [p |-> p, t |-> Terrain_laserCloudTime']]
  <2>3. cropped \subseteq seen /\ seen \subseteq Place /\ IsFiniteSet(seen)
    BY TerrainAssumption DEF Place
  <2>4. Terrain_laserCloudCrop' = {point[p] : p \in cropped}
    BY <2>2
  <2>5. \A p \in cropped : point[p] = [p |-> p, t |-> Terrain_laserCloudTime']
    OBVIOUS
  <2> HIDE DEF cropped, point
  <2>6. IsFiniteSet(cropped)
    BY <2>3, FS_Subset
  <2>7. IsFiniteSet(Terrain_laserCloudCrop')
    BY <2>4, <2>6, ImageFinite
  <2>8. Terrain_laserCloudCrop' \in SUBSET [p : Place, t : {Terrain_laserCloudTime'}]
    <3>1. ASSUME NEW p \in cropped PROVE point[p] \in [p : Place, t : {Terrain_laserCloudTime'}]
      <4> DEFINE stamp == Terrain_laserCloudTime'
      <4>1. p \in Place /\ point[p] = [p |-> p, t |-> stamp]
        BY <2>3, <2>5
      <4> HIDE DEF stamp
      <4>2. [p |-> p, t |-> stamp] \in [p : Place, t : {stamp}]
        BY <4>1
      <4> QED BY <4>1, <4>2 DEF stamp
    <3> QED BY <2>4, <3>1
  <2>9. Terrain_laserCloudTime' \in Int /\ Terrain_laserCloudTime <= Terrain_laserCloudTime'
    BY <1>3, <2>1 DEF Terrain!laserCloudHandler
  <2>10. GridSees(Terrain_State, Terrain_State')
    BY <1>3, <2>7, <2>8, <2>9 DEF Terrain!laserCloudHandler, GridSees, Terrain_State, Terrain!odometry, Terrain!voxels
  <2> QED BY <1>3, <2>10, SeeingKeeps DEF TerrainInv
<1>4. ASSUME TerrainInv, Terrain!ProcessScan PROVE TerrainInv'
  <2> DEFINE s == Terrain_State
             g == Terrain_Grid
             k == Terrain!ShiftBy
             stack == Terrain!StackedCloud
             due == {c \in Terrain!Voxels!Columns : Terrain!Due(c)}
             kept == {e \in Terrain!Voxels!Downsized({f \in stack : f.at \in due}) : Terrain!Kept(e)}
  <2>1. /\ g.size = Terrain_Size /\ g.half = Terrain_Half /\ g.decay = Terrain_Settings.decayTime
        /\ g.thre = Terrain_Settings.voxelTimeUpdateThre /\ g.columns = Terrain!Voxels!Columns
    BY DEF Terrain_Grid
  <2>2. /\ s.v = Terrain_vehicle /\ s.moved = Terrain_moved_at /\ s.now = Terrain_laserCloudTime
        /\ s.stay = {p \in Place : Terrain!Voxels!Dist(p, Terrain_vehicle) < Terrain_Settings.noDecayDis}
        /\ s.crop = Terrain_laserCloudCrop /\ s.new = Terrain_newlaserCloud /\ s.shift = Terrain_terrainVoxelShift
        /\ s.vox = Terrain_terrainVoxelCloud /\ s.u = Terrain_terrainVoxelUpdateTime
    BY DEF Terrain_State
  <2>3. IsGrid(g) /\ GridInv(g, s)
    BY <1>4, TerrainGridIs DEF TerrainInv
  <2>4. k = [i \in 1..2 |-> RollsBy(s.v[i], s.shift[i], g.size)]
    BY <2>1, <2>2, TerrainTurns DEF Terrain!ShiftBy
  <2>5. stack = RollOf(s.vox, k, g.columns) \cup StackOf(s.crop, s.v, g.size, g.half, g.columns)
    BY <2>1, <2>2, TerrainStacks DEF Terrain!StackedCloud
  <2>6. InTime(g, s, due)
    <3> SUFFICES ASSUME NEW c \in Terrain!Voxels!Columns, ~Terrain!Due(c)
                 PROVE  Terrain_laserCloudTime - Terrain_terrainVoxelUpdateTime[c] < Terrain_Settings.voxelTimeUpdateThre
      BY <2>1, <2>2 DEF InTime
    <3>1. Terrain_laserCloudTime \in Int /\ Terrain_terrainVoxelUpdateTime[c] \in Int
      BY <2>1, <2>2, <2>3 DEF GridInv
    <3> QED BY <3>1, TerrainAssumption DEF Terrain!Due
  <2>7. kept \subseteq DownOf({f \in stack : f.at \in due})
    BY TerrainMeans
  <2>8. \A e \in kept : s.now - e.t < g.decay \/ Terrain!Voxels!Dist(e.p, Terrain_vehicle) < Terrain_Settings.noDecayDis
    BY <2>1, <2>2 DEF Terrain!Kept
  <2>9. Terrain_terrainVoxelCloud' = {e \in stack : e.at \notin due} \cup kept
    BY <1>4 DEF Terrain!ProcessScan, Terrain!Updated
  <2>10. /\ Terrain_terrainVoxelUpdateTime' = [c \in Terrain!Voxels!Columns |-> IF c \in due THEN Terrain_laserCloudTime
                                                       ELSE Terrain_terrainVoxelUpdateTime[c]]
         /\ Terrain_terrainVoxelShift' = [i \in 1..2 |-> Terrain_terrainVoxelShift[i] + k[i]]
         /\ Terrain_vehicle' = Terrain_vehicle /\ Terrain_moved_at' = Terrain_moved_at
         /\ Terrain_laserCloudTime' = Terrain_laserCloudTime /\ Terrain_laserCloudCrop' = Terrain_laserCloudCrop
    BY <1>4 DEF Terrain!ProcessScan, Terrain!odometry
  <2> HIDE DEF s, g, k, stack, due, kept
  <2>11. \A e \in kept : e.p \in Place => s.now - e.t < g.decay \/ e.p \in s.stay
    BY <2>2, <2>8
  <2> DEFINE t == Terrain_State'
  <2>12. /\ t.v = s.v /\ t.moved = s.moved /\ t.now = s.now /\ t.stay = s.stay /\ t.crop = s.crop
         /\ t.shift = Terrain_terrainVoxelShift' /\ t.vox = Terrain_terrainVoxelCloud'
         /\ t.u = Terrain_terrainVoxelUpdateTime'
    BY <2>2, <2>10 DEF Terrain_State
  <2> HIDE DEF t
  <2>13. GridTurned(g, s, k, due, t)
    BY <2>1, <2>2, <2>10, <2>12 DEF GridTurned
  <2>14. t.vox = {e \in stack : e.at \notin due} \cup kept
    BY <2>9, <2>12
  <2>15. GridInv(g, t)
    BY <2>3, <2>4, <2>5, <2>6, <2>7, <2>11, <2>13, <2>14, GridProcesses
  <2> QED BY <2>15 DEF TerrainInv, g, t
<1>5. ASSUME TerrainInv, Terrain!joystickHandler PROVE TerrainInv'
  BY <1>5 DEF TerrainInv, Terrain_State, Terrain!joystickHandler, Terrain!scan, Terrain!voxels, Terrain!odometry
<1>6. ASSUME TerrainInv, Terrain!clearingHandler PROVE TerrainInv'
  BY <1>6 DEF TerrainInv, Terrain_State, Terrain!clearingHandler, Terrain!scan, Terrain!voxels, Terrain!odometry
<1>7. ASSUME TerrainInv, UNCHANGED TerrainVars PROVE TerrainInv'
  BY <1>7 DEF TerrainInv, Terrain_State, TerrainVars
<1> QED BY <1>1, <1>2, <1>3, <1>4, <1>5, <1>6, <1>7 DEF Terrain!Next

LEMMA TerrainHolds == TerrainInv => Terrain!NearTheirColumn /\ Terrain!StaleLeave
<1> SUFFICES ASSUME TerrainInv PROVE Terrain!NearTheirColumn /\ Terrain!StaleLeave
  OBVIOUS
<1>1. IsGrid(Terrain_Grid) /\ GridInv(Terrain_Grid, Terrain_State)
  BY TerrainGridIs DEF TerrainInv
<1>2. Terrain!NearTheirColumn
  BY <1>1 DEF GridInv, NearColumns, Terrain_Grid, Terrain_State, Terrain!NearTheirColumn, Terrain!Voxels!Abs, Away
<1>3. ASSUME ~Terrain_newlaserCloud, Terrain_laserCloudTime - Terrain_moved_at >= Terrain_Settings.voxelTimeUpdateThre,
             NEW e \in Terrain_terrainVoxelCloud
      PROVE  \/ Terrain_laserCloudTime - e.t < Terrain_Settings.decayTime + Terrain_Settings.voxelTimeUpdateThre
             \/ Terrain!Voxels!Dist(e.p, Terrain_vehicle) < Terrain_Settings.noDecayDis
  <2>1. LET g == Terrain_Grid
            s == Terrain_State
        IN  ~s.new /\ s.now - s.moved >= g.thre /\ e \in s.vox
    BY <1>3 DEF Terrain_Grid, Terrain_State
  <2>2. LET g == Terrain_Grid
            s == Terrain_State
        IN  s.now - e.t < g.decay + g.thre \/ e.p \in s.stay
    BY <1>1, <2>1, GridServes
  <2> QED BY <2>2 DEF Terrain_Grid, Terrain_State
<1> QED BY <1>2, <1>3 DEF Terrain!StaleLeave

-----------------------------------------------------------------------------
(* terrain_analysis_ext, alike.                                             *)

\* The grid and the state of terrain_analysis_ext.
Ext_Grid ==
    [size |-> Ext_Size, half |-> Ext_Half, decay |-> Ext_Settings.decayTime,
     thre |-> Ext_Settings.voxelTimeUpdateThre, columns |-> Ext!Voxels!Columns]
Ext_State ==
    [v |-> Ext_vehicle,
     stay |-> {p \in Place : Ext!Voxels!Dist(p, Ext_vehicle) < Ext_Settings.noDecayDis},
     moved |-> Ext_moved_at, now |-> Ext_laserCloudTime, crop |-> Ext_laserCloudCrop,
     new |-> Ext_newlaserCloud, shift |-> Ext_terrainVoxelShift,
     vox |-> Ext_terrainVoxelCloud, u |-> Ext_terrainVoxelUpdateTime]
ExtInv == GridInv(Ext_Grid, Ext_State)

LEMMA ExtGridIs == IsGrid(Ext_Grid)
<1>1. Ext!Voxels!Columns \in SUBSET (Int \X Int)
  <2>1. 2 * Ext_Half + 1 - 1 = 2 * Ext_Half /\ 0 .. 2 * Ext_Half \subseteq Int
    BY ExtAssumption
  <2> QED BY <2>1 DEF Ext!Voxels!Columns
<1> QED BY <1>1, ExtAssumption DEF IsGrid, Ext_Grid

\* Its operators are those above.
LEMMA ExtTurns ==
    /\ \A x, shift : Ext!Voxels!Turns(x, shift) = RollsBy(x, shift, Ext_Size)
    /\ \A d : Ext!Voxels!Index(d) = IndexOf(d, Ext_Size, Ext_Half)
<1>1. \A x : Ext!Voxels!Abs(x) = Away(x)
  BY DEF Ext!Voxels!Abs, Away
<1>2. ASSUME NEW x, NEW shift PROVE Ext!Voxels!Turns(x, shift) = RollsBy(x, shift, Ext_Size)
  BY DEF Ext!Voxels!Turns, RollsBy, Ext!Voxels!Abs, Away
<1>3. Ext!Voxels!Half = Ext_Half
  <2>1. (2 * Ext_Half + 1) \div 2 = Ext_Half
    BY ExtAssumption
  <2> QED BY <2>1 DEF Ext!Voxels!Half
<1>4. ASSUME NEW d PROVE Ext!Voxels!Index(d) = IndexOf(d, Ext_Size, Ext_Half)
  BY <1>3 DEF Ext!Voxels!Index, IndexOf
<1> QED BY <1>2, <1>4

LEMMA ExtStacks ==
    /\ \A vox, k : Ext!Voxels!RollOver(vox, k) = RollOf(vox, k, Ext!Voxels!Columns)
    /\ \A crop, v : Ext!Voxels!Stacked(crop, v) = StackOf(crop, v, Ext_Size, Ext_Half, Ext!Voxels!Columns)
<1>1. ASSUME NEW vox, NEW k PROVE Ext!Voxels!RollOver(vox, k) = RollOf(vox, k, Ext!Voxels!Columns)
  BY DEF Ext!Voxels!RollOver, RollOf
<1>2. ASSUME NEW crop, NEW v
      PROVE  Ext!Voxels!Stacked(crop, v) = StackOf(crop, v, Ext_Size, Ext_Half, Ext!Voxels!Columns)
  BY ExtTurns DEF Ext!Voxels!Stacked, Ext!Voxels!Column, StackOf
<1> QED BY <1>1, <1>2

LEMMA ExtMeans == \A vox : Ext!Voxels!Downsized(vox) = DownOf(vox)
<1>1. ASSUME NEW S PROVE Ext!Voxels!SumSet(S) = SumOf(S)
  BY DEF Ext!Voxels!SumSet, Ext!Voxels!FoldSet, Ext!Voxels!MapThenFoldSet, SumOf, SumsIn
<1>2. ASSUME NEW S PROVE Ext!Voxels!Cardinality(S) = Cardinality(S)
  BY DEF Ext!Voxels!Cardinality, Cardinality
<1>3. ASSUME NEW vox PROVE Ext!Voxels!Downsized(vox) = DownOf(vox)
  BY <1>1, <1>2 DEF Ext!Voxels!Downsized, DownOf, TimesOf
<1> QED BY <1>3

\* Every step keeps its grid right.
LEMMA ExtKept == (Ext!Init => ExtInv) /\ (ExtInv /\ [Ext!Next]_ExtVars => ExtInv')
<1>1. ASSUME Ext!Init PROVE ExtInv
  <2>1. /\ Ext_vehicle = <<0, 0, 0>> /\ Ext_moved_at = 0 /\ Ext_laserCloudTime = 0
        /\ Ext_laserCloudCrop = {} /\ Ext_newlaserCloud = FALSE
        /\ Ext_terrainVoxelShift = <<0, 0>> /\ Ext_terrainVoxelCloud = {}
        /\ Ext_terrainVoxelUpdateTime = [c \in Ext!Voxels!Columns |-> 0]
    BY <1>1 DEF Ext!Init
  <2>2. Ext_Grid.columns = Ext!Voxels!Columns /\ Ext_Grid.thre \in Nat \ {0}
    BY ExtAssumption DEF Ext_Grid
  <2> DEFINE s == Ext_State
             u == Ext_terrainVoxelUpdateTime
  <2>3. /\ s.v = <<0, 0, 0>> /\ s.moved = 0 /\ s.now = 0 /\ s.crop = {} /\ s.new = FALSE
        /\ s.shift = <<0, 0>> /\ s.vox = {} /\ s.u = u
    BY <2>1 DEF Ext_State
  <2>4. u \in [Ext_Grid.columns -> Int] /\ \A c \in Ext_Grid.columns : u[c] = 0
    BY <2>1, <2>2
  <2>5. <<0, 0, 0>> \in Place /\ <<0, 0>> \in [1..2 -> Int] /\ IsFiniteSet({})
    BY FS_EmptySet DEF Place
  <2> HIDE DEF s, u
  <2>6. GridInv(Ext_Grid, s)
    BY <2>2, <2>3, <2>4, <2>5 DEF GridInv, NearColumns, FreshSince
  <2> QED BY <2>6 DEF ExtInv, s
<1>2. ASSUME ExtInv, Ext!odometryHandler PROVE ExtInv'
  <2>1. Ext_vehicle' \in Place
    BY <1>2, ExtAssumption DEF Ext!odometryHandler, Place
  <2>2. GridMoves(Ext_State, Ext_State')
    BY <1>2, <2>1 DEF Ext!odometryHandler, GridMoves, Ext_State, Ext!scan, Ext!voxels
  <2> QED BY <1>2, <2>2, MovingKeeps DEF ExtInv
<1>3. ASSUME ExtInv, Ext!laserCloudHandler PROVE ExtInv'
  <2>1. Ext_laserCloudTime \in Int
    BY <1>3 DEF ExtInv, GridInv, Ext_State
  <2>2. PICK seen \in Ext_Scans :
          Ext_laserCloudCrop' = {[p |-> p, t |-> Ext_laserCloudTime'] : p \in
              {q \in seen : Ext!InRange(q) /\ Ext!Voxels!Dist(q, Ext_vehicle) < Ext_Size * (Ext_Half + 1)}}
    BY <1>3 DEF Ext!laserCloudHandler
  <2> DEFINE cropped == {q \in seen : Ext!InRange(q) /\ Ext!Voxels!Dist(q, Ext_vehicle) < Ext_Size * (Ext_Half + 1)}
             point == [p \in cropped |-> [p |-> p, t |-> Ext_laserCloudTime']]
  <2>3. cropped \subseteq seen /\ seen \subseteq Place /\ IsFiniteSet(seen)
    BY ExtAssumption DEF Place
  <2>4. Ext_laserCloudCrop' = {point[p] : p \in cropped}
    BY <2>2
  <2>5. \A p \in cropped : point[p] = [p |-> p, t |-> Ext_laserCloudTime']
    OBVIOUS
  <2> HIDE DEF cropped, point
  <2>6. IsFiniteSet(cropped)
    BY <2>3, FS_Subset
  <2>7. IsFiniteSet(Ext_laserCloudCrop')
    BY <2>4, <2>6, ImageFinite
  <2>8. Ext_laserCloudCrop' \in SUBSET [p : Place, t : {Ext_laserCloudTime'}]
    <3>1. ASSUME NEW p \in cropped PROVE point[p] \in [p : Place, t : {Ext_laserCloudTime'}]
      <4> DEFINE stamp == Ext_laserCloudTime'
      <4>1. p \in Place /\ point[p] = [p |-> p, t |-> stamp]
        BY <2>3, <2>5
      <4> HIDE DEF stamp
      <4>2. [p |-> p, t |-> stamp] \in [p : Place, t : {stamp}]
        BY <4>1
      <4> QED BY <4>1, <4>2 DEF stamp
    <3> QED BY <2>4, <3>1
  <2>9. Ext_laserCloudTime' \in Int /\ Ext_laserCloudTime <= Ext_laserCloudTime'
    BY <1>3, <2>1 DEF Ext!laserCloudHandler
  <2>10. GridSees(Ext_State, Ext_State')
    BY <1>3, <2>7, <2>8, <2>9 DEF Ext!laserCloudHandler, GridSees, Ext_State, Ext!odometry, Ext!voxels
  <2> QED BY <1>3, <2>10, SeeingKeeps DEF ExtInv
<1>4. ASSUME ExtInv, Ext!ProcessScan PROVE ExtInv'
  <2> DEFINE s == Ext_State
             g == Ext_Grid
             k == Ext!ShiftBy
             stack == Ext!StackedCloud
             due == {c \in Ext!Voxels!Columns : Ext!Due(c)}
             kept == {e \in Ext!Voxels!Downsized({f \in stack : f.at \in due}) : Ext!Kept(e)}
  <2>1. /\ g.size = Ext_Size /\ g.half = Ext_Half /\ g.decay = Ext_Settings.decayTime
        /\ g.thre = Ext_Settings.voxelTimeUpdateThre /\ g.columns = Ext!Voxels!Columns
    BY DEF Ext_Grid
  <2>2. /\ s.v = Ext_vehicle /\ s.moved = Ext_moved_at /\ s.now = Ext_laserCloudTime
        /\ s.stay = {p \in Place : Ext!Voxels!Dist(p, Ext_vehicle) < Ext_Settings.noDecayDis}
        /\ s.crop = Ext_laserCloudCrop /\ s.new = Ext_newlaserCloud /\ s.shift = Ext_terrainVoxelShift
        /\ s.vox = Ext_terrainVoxelCloud /\ s.u = Ext_terrainVoxelUpdateTime
    BY DEF Ext_State
  <2>3. IsGrid(g) /\ GridInv(g, s)
    BY <1>4, ExtGridIs DEF ExtInv
  <2>4. k = [i \in 1..2 |-> RollsBy(s.v[i], s.shift[i], g.size)]
    BY <2>1, <2>2, ExtTurns DEF Ext!ShiftBy
  <2>5. stack = RollOf(s.vox, k, g.columns) \cup StackOf(s.crop, s.v, g.size, g.half, g.columns)
    BY <2>1, <2>2, ExtStacks DEF Ext!StackedCloud
  <2>6. InTime(g, s, due)
    <3> SUFFICES ASSUME NEW c \in Ext!Voxels!Columns, ~Ext!Due(c)
                 PROVE  Ext_laserCloudTime - Ext_terrainVoxelUpdateTime[c] < Ext_Settings.voxelTimeUpdateThre
      BY <2>1, <2>2 DEF InTime
    <3>1. Ext_laserCloudTime \in Int /\ Ext_terrainVoxelUpdateTime[c] \in Int
      BY <2>1, <2>2, <2>3 DEF GridInv
    <3> QED BY <3>1, ExtAssumption DEF Ext!Due
  <2>7. kept \subseteq DownOf({f \in stack : f.at \in due})
    BY ExtMeans
  <2>8. \A e \in kept : s.now - e.t < g.decay \/ Ext!Voxels!Dist(e.p, Ext_vehicle) < Ext_Settings.noDecayDis
    BY <2>1, <2>2 DEF Ext!Kept
  <2>9. Ext_terrainVoxelCloud' = {e \in stack : e.at \notin due} \cup kept
    BY <1>4 DEF Ext!ProcessScan, Ext!Updated
  <2>10. /\ Ext_terrainVoxelUpdateTime' = [c \in Ext!Voxels!Columns |-> IF c \in due THEN Ext_laserCloudTime
                                                       ELSE Ext_terrainVoxelUpdateTime[c]]
         /\ Ext_terrainVoxelShift' = [i \in 1..2 |-> Ext_terrainVoxelShift[i] + k[i]]
         /\ Ext_vehicle' = Ext_vehicle /\ Ext_moved_at' = Ext_moved_at
         /\ Ext_laserCloudTime' = Ext_laserCloudTime /\ Ext_laserCloudCrop' = Ext_laserCloudCrop
    BY <1>4 DEF Ext!ProcessScan, Ext!odometry
  <2> HIDE DEF s, g, k, stack, due, kept
  <2>11. \A e \in kept : e.p \in Place => s.now - e.t < g.decay \/ e.p \in s.stay
    BY <2>2, <2>8
  <2> DEFINE t == Ext_State'
  <2>12. /\ t.v = s.v /\ t.moved = s.moved /\ t.now = s.now /\ t.stay = s.stay /\ t.crop = s.crop
         /\ t.shift = Ext_terrainVoxelShift' /\ t.vox = Ext_terrainVoxelCloud'
         /\ t.u = Ext_terrainVoxelUpdateTime'
    BY <2>2, <2>10 DEF Ext_State
  <2> HIDE DEF t
  <2>13. GridTurned(g, s, k, due, t)
    BY <2>1, <2>2, <2>10, <2>12 DEF GridTurned
  <2>14. t.vox = {e \in stack : e.at \notin due} \cup kept
    BY <2>9, <2>12
  <2>15. GridInv(g, t)
    BY <2>3, <2>4, <2>5, <2>6, <2>7, <2>11, <2>13, <2>14, GridProcesses
  <2> QED BY <2>15 DEF ExtInv, g, t
<1>5. ASSUME ExtInv, Ext!terrainCloudLocalHandler PROVE ExtInv'
  BY <1>5 DEF ExtInv, Ext_State, Ext!terrainCloudLocalHandler, Ext!scan, Ext!voxels, Ext!odometry
<1>6. ASSUME ExtInv, Ext!joystickHandler PROVE ExtInv'
  BY <1>6 DEF ExtInv, Ext_State, Ext!joystickHandler, Ext!scan, Ext!voxels, Ext!odometry
<1>7. ASSUME ExtInv, Ext!clearingHandler PROVE ExtInv'
  BY <1>7 DEF ExtInv, Ext_State, Ext!clearingHandler, Ext!scan, Ext!voxels, Ext!odometry
<1>8. ASSUME ExtInv, UNCHANGED ExtVars PROVE ExtInv'
  BY <1>8 DEF ExtInv, Ext_State, ExtVars
<1> QED BY <1>1, <1>2, <1>3, <1>4, <1>5, <1>6, <1>7, <1>8 DEF Ext!Next

LEMMA ExtHolds == ExtInv => Ext!NearTheirColumn /\ Ext!StaleLeave
<1> SUFFICES ASSUME ExtInv PROVE Ext!NearTheirColumn /\ Ext!StaleLeave
  OBVIOUS
<1>1. IsGrid(Ext_Grid) /\ GridInv(Ext_Grid, Ext_State)
  BY ExtGridIs DEF ExtInv
<1>2. Ext!NearTheirColumn
  BY <1>1 DEF GridInv, NearColumns, Ext_Grid, Ext_State, Ext!NearTheirColumn, Ext!Voxels!Abs, Away
<1>3. ASSUME ~Ext_newlaserCloud, Ext_laserCloudTime - Ext_moved_at >= Ext_Settings.voxelTimeUpdateThre,
             NEW e \in Ext_terrainVoxelCloud
      PROVE  \/ Ext_laserCloudTime - e.t < Ext_Settings.decayTime + Ext_Settings.voxelTimeUpdateThre
             \/ Ext!Voxels!Dist(e.p, Ext_vehicle) < Ext_Settings.noDecayDis
  <2>1. LET g == Ext_Grid
            s == Ext_State
        IN  ~s.new /\ s.now - s.moved >= g.thre /\ e \in s.vox
    BY <1>3 DEF Ext_Grid, Ext_State
  <2>2. LET g == Ext_Grid
            s == Ext_State
        IN  s.now - e.t < g.decay + g.thre \/ e.p \in s.stay
    BY <1>1, <2>1, GridServes
  <2> QED BY <2>2 DEF Ext_Grid, Ext_State
<1> QED BY <1>2, <1>3 DEF Ext!StaleLeave

\* When a request to clear is served every column is updated, and what is near is
\* not kept.
LEMMA TerrainClears == ASSUME [Terrain!Next]_TerrainVars PROVE Terrain!ClearingClears
<1>1. CASE Terrain!odometryHandler \/ Terrain!laserCloudHandler \/ Terrain!joystickHandler \/ Terrain!clearingHandler
  BY <1>1 DEF Terrain!odometryHandler, Terrain!laserCloudHandler, Terrain!joystickHandler,
              Terrain!clearingHandler, Terrain!clearing, Terrain!ClearingClears
<1>2. CASE Terrain!ProcessScan
  <2> SUFFICES ASSUME Terrain_clearingCloud, NEW e \in Terrain_terrainVoxelCloud'
               PROVE  ~(Terrain!Voxels!Dist(e.p, Terrain_vehicle) < Terrain_clearingDis)
    BY DEF Terrain!ClearingClears
  <2> DEFINE due == {c \in Terrain!Voxels!Columns : Terrain!Due(c)}
  <2>1. due = Terrain!Voxels!Columns
    BY DEF Terrain!Due
  <2>2. \A f \in Terrain!StackedCloud : f.at \in due
    BY <2>1 DEF Terrain!StackedCloud, Terrain!Voxels!RollOver, Terrain!Voxels!Stacked
  <2>3. Terrain_terrainVoxelCloud' = Terrain!Updated(Terrain!StackedCloud, due)
    BY <1>2 DEF Terrain!ProcessScan
  <2> HIDE DEF due
  <2>4. Terrain!Kept(e)
    BY <2>2, <2>3 DEF Terrain!Updated
  <2> QED BY <2>4 DEF Terrain!Kept
<1>3. CASE UNCHANGED TerrainVars
  BY <1>3 DEF TerrainVars, Terrain!ClearingClears
<1> QED BY <1>1, <1>2, <1>3 DEF Terrain!Next

\* However the vehicles go, a point of the terrain nodes stays within a voxel and a
\* half of the middle of its column, and once the vehicle stands, no point is kept
\* that is older than the decay time and an update (the loops of both nodes).
THEOREM TerrainIsSound == Spec => []TerrainSound
<1>1. Init => TerrainInv /\ ExtInv
  BY TerrainSteps, ExtSteps, TerrainKept, ExtKept
<1>2. TerrainInv /\ ExtInv /\ [Next]_vars => TerrainInv' /\ ExtInv'
  BY TerrainSteps, ExtSteps, TerrainKept, ExtKept
<1>3. TerrainInv /\ ExtInv => TerrainSound
  BY TerrainHolds, ExtHolds DEF TerrainSound
<1> QED BY <1>1, <1>2, <1>3, PTL DEF Spec
=============================================================================
