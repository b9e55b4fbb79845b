---------------------------- MODULE Calibration ----------------------------
(***************************************************************************)
(* The camera calibration of the odin driver and of the nodes beside it.   *)
(*                                                                         *)
(* The driver asks the device for calib.yaml when it attaches, unless the  *)
(* stream was only stopped, and reads it twice: into the renderer of       *)
(* coloured clouds before the stream starts, and into the publisher of     *)
(* images and poses after.  The depth node and the reprojection node wait  *)
(* for the file and read it once; the reprojection node then follows the   *)
(* extrinsics the device sends.                                            *)
(*                                                                         *)
(* What a file holds is the camera it was taken from.                      *)
(***************************************************************************)
EXTENDS Integers, FiniteSets

CONSTANTS Tcl_0,         \* of each camera, what its file says of its extrinsics
          Undistort,     \* g_sendrgb_undistort
          Polls,         \* how often the reprojection node waits (11 in the source)
          MaxAttaches    \* bound: connections

Cameras == DOMAIN Tcl_0
None == "none"
InitialStates == {"not_initialized", "stream_stopped"}

VARIABLES
    step, odinDevice, initial_state, attaches, \* of the device's callback
    calib_config,                                \* the file
    renderer,            \* g_renderer made, whose parameters, whose dist_table
    publisher,           \* whose lens, undistortion map and extrinsics, extrinsic_ok_
    depth,               \* the depth node: its phase, and whose parameters
    reprojector,         \* the reprojection node: the same, and its extrinsics
    wait_count,
    seen, inits          \* history: cameras, and what renderers were made from

callback == <<step, odinDevice, initial_state, attaches>>
nodes == <<depth, reprojector, wait_count>>
history == <<seen, inits>>
vars == <<callback, calib_config, renderer, publisher, nodes, history>>

\* An interrupted transfer leaves a file that cannot be parsed.
Holds(f) == IF f \in Cameras THEN Tcl_0[f] ELSE "unreadable"

Init ==
    /\ step = "idle" /\ odinDevice = None /\ initial_state = "not_initialized" /\ attaches = 0
    /\ calib_config = None
    /\ renderer = [made |-> FALSE, params |-> None, table |-> None]
    /\ publisher = [lens |-> None, map |-> None, ext |-> None, ok |-> FALSE]
    /\ depth = [phase |-> "gate", camera |-> None]
    /\ reprojector = [phase |-> "gate", camera |-> None, Tcl |-> None, Til |-> None]
    /\ wait_count = 0 /\ seen = {} /\ inits = {}

-----------------------------------------------------------------------------
(* lidar_device_callback.                                                   *)

Step(from, to) == step = from /\ step' = to

\* A device that is initialised already is not opened; its file is fetched as well.

\* Mutant: the file is fetched only when there is none.
NeedsFileOnce(state) == calib_config = None

NeedsFile(state) == state # "stream_stopped" \/ calib_config = None

Attach(d, state) ==
    /\ Step("idle", IF NeedsFile(state) THEN "fetch" ELSE "render")
    /\ attaches < MaxAttaches /\ attaches' = attaches + 1
    /\ odinDevice' = d /\ initial_state' = state
    /\ seen' = seen \cup {d}
    /\ UNCHANGED <<calib_config, renderer, publisher, nodes, inits>>

\* The library writes the file; the nodes can see it before it is whole.
BeginFile ==
    /\ Step("fetch", "write") /\ calib_config' = "partial"
    /\ UNCHANGED <<odinDevice, initial_state, attaches, renderer, publisher, nodes, history>>

EndFile ==
    /\ Step("write", "render") /\ calib_config' = odinDevice
    /\ UNCHANGED <<odinDevice, initial_state, attaches, renderer, publisher, nodes, history>>

\* The file cannot be fetched, or the stream cannot be started.
GiveUp ==
    /\ \E at \in {"fetch", "write", "stream"} : Step(at, "idle")
    /\ odinDevice' = None
    /\ UNCHANGED <<initial_state, attaches, calib_config, renderer, publisher, nodes, history>>

\* Mutant: the table is built with the renderer, before the file is read.
MadeWithTable ==
    [made |-> TRUE,
     params |-> IF Holds(calib_config) = "whole" THEN calib_config ELSE renderer.params,
     table |-> IF renderer.table = None THEN "zero" ELSE renderer.table]

\* init leaves the global parameters when the file or its extrinsics are no good;
\* the renderer is used all the same.
Made ==
    [renderer EXCEPT !.made = TRUE,
                     !.params = IF Holds(calib_config) = "whole" THEN calib_config ELSE @]

\* The file is also copied beside the configuration, where nothing reads it.  A
\* number that is missing is an exception nobody catches.
MakeRenderer ==
    /\ \/ /\ Holds(calib_config) # "incomplete" /\ Step("render", "stream")
          /\ renderer' = Made /\ inits' = inits \cup {<<Holds(calib_config), calib_config>>}
       \/ /\ Holds(calib_config) = "incomplete" /\ Step("render", "ended")
          /\ UNCHANGED <<renderer, inits>>
    /\ UNCHANGED <<odinDevice, initial_state, attaches, calib_config, publisher, nodes, seen>>

StartStream ==
    /\ Step("stream", "load")
    /\ UNCHANGED <<odinDevice, initial_state, attaches, calib_config, renderer, publisher, nodes, history>>

\* Mutant: the extrinsics count as known from the first time on.
loadedKeepingTrust(f) ==
    LET read == [publisher EXCEPT !.lens = f, !.map = IF Undistort THEN f ELSE @]
    IN  CASE Holds(f) = "unreadable" -> publisher
          [] Holds(f) = "missing" -> read
          [] Holds(f) = "short" -> [read EXCEPT !.ok = TRUE]
          [] Holds(f) = "whole" -> [read EXCEPT !.ext = f, !.ok = TRUE]

\* Mutant: the undistortion map is built once.
loadedMapOnce(f) ==
    LET read == [publisher EXCEPT !.lens = f, !.ok = FALSE,
                                  !.map = IF Undistort /\ @ = None THEN f ELSE @]
    IN  CASE Holds(f) = "unreadable" -> publisher
          [] Holds(f) = "missing" -> read
          [] Holds(f) = "short" -> [read EXCEPT !.ok = TRUE]
          [] Holds(f) = "whole" -> [read EXCEPT !.ext = f, !.ok = TRUE]

\* What loadCameraParams and buildUndistortMap leave: extrinsics of the wrong
\* length count as known, and are those of before.
loaded(f) ==
    LET read == [publisher EXCEPT !.lens = f, !.ok = FALSE, !.map = IF Undistort THEN f ELSE @]
    IN  CASE Holds(f) = "unreadable" -> publisher
          [] Holds(f) = "missing" -> read
          [] Holds(f) = "short" -> [read EXCEPT !.ok = TRUE]
          [] Holds(f) = "whole" -> [read EXCEPT !.ext = f, !.ok = TRUE]

loadCameraParams ==
    /\ Step("load", "ready") /\ publisher' = loaded(calib_config)
    /\ UNCHANGED <<odinDevice, initial_state, attaches, calib_config, renderer, nodes, history>>

Detach ==
    /\ Step("ready", "idle") /\ odinDevice' = None
    /\ UNCHANGED <<initial_state, attaches, calib_config, renderer, publisher, nodes, history>>

\* The first cloud rendered fixes the table of the lens for good; it is one of
\* zeros when no file could be read so far.
render ==
    /\ step \in {"load", "ready"} /\ renderer.made /\ renderer.table = None
    /\ renderer' = [renderer EXCEPT !.table = IF renderer.params = None THEN "zero" ELSE renderer.params]
    /\ UNCHANGED <<callback, calib_config, publisher, nodes, history>>

-----------------------------------------------------------------------------
(* pcd2depth_ros2 and its depth node: only with senddepth set, and for ever    *)
(* until there is a file.                                                      *)

GateDepth ==
    /\ depth.phase = "gate"
    /\ \E to \in {"wait", "stopped"} : depth' = [depth EXCEPT !.phase = to]
    /\ UNCHANGED <<callback, calib_config, renderer, publisher, reprojector, wait_count, history>>

loadCalibParameters ==
    /\ depth.phase = "wait" /\ calib_config # None
    /\ depth' = IF Holds(calib_config) = "unreadable" THEN [depth EXCEPT !.phase = "stopped"]
                ELSE [phase |-> "loaded", camera |-> calib_config]
    /\ UNCHANGED <<callback, calib_config, renderer, publisher, reprojector, wait_count, history>>

\* Mutant: the node does without extrinsics.
UsableWithout(f) == Holds(f) \in {"whole", "missing"}

\* All numbers are there, and sixteen of the extrinsics.
Usable(f) == Holds(f) = "whole"

StartDepth ==
    /\ depth.phase = "loaded"
    /\ depth' = [depth EXCEPT !.phase = IF Usable(depth.camera) THEN "running" ELSE "stopped"]
    /\ UNCHANGED <<callback, calib_config, renderer, publisher, reprojector, wait_count, history>>

-----------------------------------------------------------------------------
(* The reprojection node: with sendreprojection set, waiting so many times.    *)

GateReprojection ==
    /\ reprojector.phase = "gate"
    /\ \E to \in {"wait", "stopped"} : reprojector' = [reprojector EXCEPT !.phase = to]
    /\ UNCHANGED <<callback, calib_config, renderer, publisher, depth, wait_count, history>>

Poll ==
    /\ reprojector.phase = "wait" /\ calib_config = None
    /\ wait_count' = wait_count + 1
    /\ reprojector' = IF wait_count' >= Polls THEN [reprojector EXCEPT !.phase = "stopped"] ELSE reprojector
    /\ UNCHANGED <<callback, calib_config, renderer, publisher, depth, history>>

\* Til is a constant of the node until the device sends its own.
loadParameters ==
    /\ reprojector.phase = "wait" /\ calib_config # None
    /\ reprojector' =
          IF Holds(calib_config) = "whole"
          THEN [phase |-> "running", camera |-> calib_config, Tcl |-> calib_config, Til |-> "fixed"]
          ELSE [reprojector EXCEPT !.phase = "stopped"]
    /\ UNCHANGED <<callback, calib_config, renderer, publisher, depth, wait_count, history>>

\* Mutant: each extrinsic that is given is taken.
updateEach(T_CL, T_IL) ==
    [reprojector EXCEPT !.Tcl = IF T_CL = "identity" THEN @ ELSE T_CL,
                        !.Til = IF T_IL = "identity" THEN @ ELSE T_IL]

\* The extrinsics are taken when both are given: an identity is none.
updateExtrinsics(T_CL, T_IL) ==
    IF "identity" \in {T_CL, T_IL} THEN reprojector
    ELSE [reprojector EXCEPT !.Tcl = T_CL, !.Til = T_IL]

\* A cloud with points and the extrinsics that came with it, from a camera that is
\* or was attached.
syncCallback ==
    /\ reprojector.phase = "running"
    /\ \E d \in seen : \E T_CL, T_IL \in {"identity", d} :
          reprojector' = updateExtrinsics(T_CL, T_IL)
    /\ UNCHANGED <<callback, calib_config, renderer, publisher, depth, wait_count, history>>

Next ==
    \/ \E d \in Cameras, state \in InitialStates : Attach(d, state)
    \/ BeginFile \/ EndFile \/ GiveUp \/ MakeRenderer \/ StartStream \/ loadCameraParams \/ Detach
    \/ render \/ GateDepth \/ loadCalibParameters \/ StartDepth
    \/ GateReprojection \/ Poll \/ loadParameters \/ syncCallback

Spec == Init /\ [][Next]_vars

-----------------------------------------------------------------------------
TypeOK ==
    /\ step \in {"idle", "fetch", "write", "render", "stream", "load", "ready", "ended"}
    /\ odinDevice \in Cameras \cup {None} /\ initial_state \in InitialStates /\ attaches \in 0..MaxAttaches
    /\ calib_config \in Cameras \cup {None, "partial"}
    /\ renderer \in [made : BOOLEAN, params : Cameras \cup {None}, table : Cameras \cup {None, "zero"}]
    /\ publisher \in [lens : Cameras \cup {None}, map : Cameras \cup {None},
                      ext : Cameras \cup {None}, ok : BOOLEAN]
    /\ depth \in [phase : {"gate", "wait", "loaded", "running", "stopped"}, camera : Cameras \cup {None}]
    /\ reprojector \in [phase : {"gate", "wait", "running", "stopped"}, camera : Cameras \cup {None},
                        Tcl : Cameras \cup {None}, Til : Cameras \cup {None, "fixed"}]
    /\ wait_count \in 0..Polls /\ seen \subseteq Cameras

\* Once the driver is ready and the file is whole, the parameters that clouds, images
\* and poses are made with are of one camera: that of the file, and of the device
\* unless its stream was only stopped.  The table of the renderer is not among them.
OneCamera ==
    step = "ready" /\ Holds(calib_config) = "whole" =>
        /\ {renderer.params, publisher.lens, publisher.ext} = {calib_config} /\ publisher.ok
        /\ Undistort => publisher.map = calib_config
        /\ initial_state # "stream_stopped" => calib_config = odinDevice

\* Poses are turned to the camera only with extrinsics of its lens, but for a file
\* whose extrinsics are of the wrong length.
TrustedIsOwn == publisher.ok => publisher.ext = publisher.lens \/ Holds(publisher.lens) = "short"

\* As long as every file the renderer was made from was the whole one of one camera,
\* the table is that of its lens.  It is static: after a second camera the table of
\* the first is used with the parameters of the second.
TableIsOwn ==
    \A d \in Cameras : Holds(d) = "whole" /\ inits \subseteq {<<"whole", d>>} => renderer.table \in {None, d}

\* A node that runs has the whole file of a camera, and the two extrinsics of the
\* reprojection belong together.
NodesCalibrated ==
    /\ depth.phase = "running" => Holds(depth.camera) = "whole"
    /\ reprojector.phase = "running" =>
          /\ Holds(reprojector.camera) = "whole"
          /\ \/ reprojector.Til = reprojector.Tcl
             \/ reprojector.Til = "fixed" /\ reprojector.Tcl = reprojector.camera

CalibrationSound == OneCamera /\ TrustedIsOwn /\ TableIsOwn /\ NodesCalibrated
=============================================================================
