------------------------------ MODULE OdinStartup ------------------------------
(***************************************************************************)
(* The odin driver's main: its configuration file, the directories it makes, *)
(* the wait for a device with its look at the USB port, the loop and the     *)
(* way out.  The device's callback is here only what main sees of it; all    *)
(* of it is in OdinDevice.                                                   *)
(***************************************************************************)
EXTENDS Integers, Sequences

CONSTANT ConfigFiles   \* configuration files: the <<key, value>> of register_keys

\* A file that is not there, or has no register_keys.
Missing == <<>>

VARIABLES main, ret,                \* where main is, what it returned: -1, 0, 1, or 2 before
          file, parsed,             \* the file, and what YamlParser made of it
          settings,
          system,                   \* the SDK: down, up, or shut down
          root_dir_, map_root_dir_, \* of the recording and of the maps: names of
                                    \* directories, <<>> if empty
          usb,                      \* what is plugged in
          usbVersionChecked,
          odinDevice, connected, disconnected, ros_ok,
          calib_file_,              \* what the file it names holds; "" for no name
          camera_file,              \* cam_in_ex.txt in root_dir_
          command                   \* there is a command file

reading == <<file, parsed, settings>>
places == <<root_dir_, map_root_dir_>>
device == <<odinDevice, connected, disconnected, calib_file_>>
outside == <<usb, ros_ok>>
vars == <<main, ret, reading, system, places, usbVersionChecked, device, outside, camera_file,
          command>>

-----------------------------------------------------------------------------
(* The configuration.  Keys are in lower case, as the parser makes them;    *)
(* a value is of a kind: int, float, text, list (of numbers), mixed (a list  *)
(* with other things in it), empty.                                         *)

allowed_key_w_str_val == {"mapping_result_dest_dir"}
allowed_key_w_float_val == {"overlay_alpha"}
allowed_key_w_int_val == {"recorddata", "devstatuslog", "strict_usb3.0_check"}
Default == [k \in allowed_key_w_int_val |-> IF k = "strict_usb3.0_check" THEN 1 ELSE 0]
Custom == {"custom_map_mode", "custom_init_pos"}

\* The map a key belongs to, and the kinds its conversion accepts; a custom
\* number that is no int, and any list of numbers, become a float array.
Section(key) == CASE key \in Custom                  -> "custom_parameters_"
                  [] key \in allowed_key_w_str_val   -> "register_keys_str_val_"
                  [] key \in allowed_key_w_float_val -> "register_keys_float_val_"
                  [] key \in allowed_key_w_int_val   -> "register_keys_"
                  [] OTHER                           -> "unknown"
Accepts(section, kind) ==
    kind \in CASE section = "custom_parameters_"       -> {"int", "float", "list"}
               [] section = "register_keys_str_val_"   -> {"int", "float", "text"}
               [] section = "register_keys_float_val_" -> {"int", "float"}
               [] section = "register_keys_"           -> {"int"}
               [] OTHER                                -> {}
Stored(section, value) ==
    IF section = "custom_parameters_" /\ value.kind # "int" THEN [value EXCEPT !.kind = "floats"]
    ELSE value

Nothing == [s \in {"custom_parameters_", "register_keys_str_val_", "register_keys_float_val_",
                   "register_keys_"} |-> <<>>]

With(map, key, value) == [k \in {key} \cup DOMAIN map |-> IF k = key THEN value ELSE map[k]]

\* Mutant: an entry that cannot be converted takes the earlier one with it.
ReadKeyForgets(maps, entry) ==
    LET section == Section(entry[1])
    IN  IF Accepts(section, entry[2].kind)
        THEN [maps EXCEPT ![section] = With(@, entry[1], Stored(section, entry[2]))]
        ELSE IF section = "unknown" THEN maps
        ELSE [maps EXCEPT ![section] =
                 [k \in DOMAIN maps[section] \ {entry[1]} |-> maps[section][k]]]

\* An entry that cannot be converted is reported and passed over.
ReadKey(maps, entry) ==
    LET section == Section(entry[1])
    IN  IF Accepts(section, entry[2].kind)
        THEN [maps EXCEPT ![section] = With(@, entry[1], Stored(section, entry[2]))]
        ELSE maps

\* The entries in the order of the file.
loadConfig(f) ==
    LET maps[i \in 0 .. Len(f)] == IF i = 0 THEN Nothing ELSE ReadKey(maps[i - 1], f[i])
    IN  maps[Len(f)]

get_key_value(key) ==
    IF key \in DOMAIN parsed["register_keys_"] THEN parsed["register_keys_"][key].v
    ELSE Default[key]
get_key_str_value(key) ==
    IF key \in DOMAIN parsed["register_keys_str_val_"]
    THEN parsed["register_keys_str_val_"][key].v ELSE ""

\* Mutant: the type of the parameter is not looked at.
getCustomMapModeAny(maps) ==
    LET custom == maps["custom_parameters_"]
    IN  IF "custom_map_mode" \in DOMAIN custom THEN custom["custom_map_mode"].v ELSE 2

getCustomMapMode(maps) ==
    LET custom == maps["custom_parameters_"]
    IN  IF "custom_map_mode" \in DOMAIN custom /\ custom["custom_map_mode"].kind = "int"
        THEN custom["custom_map_mode"].v ELSE 2

-----------------------------------------------------------------------------
Init ==
    /\ main = "load" /\ ret = 2 /\ file \in ConfigFiles \cup {Missing} /\ parsed = Nothing
    /\ settings = <<>> /\ system = "down" /\ root_dir_ = <<>> /\ map_root_dir_ = <<>>
    /\ usb = "none" /\ usbVersionChecked = FALSE
    /\ odinDevice = FALSE /\ connected = FALSE /\ disconnected = FALSE /\ ros_ok = TRUE
    /\ calib_file_ = "" /\ camera_file = "none" /\ command = FALSE

Returns(code) == main' = "returned" /\ ret' = code
Goes(to) == main' = to /\ UNCHANGED ret

LoadConfig ==
    /\ main = "load"
    /\ IF file = Missing THEN Returns(-1) /\ UNCHANGED parsed
       ELSE Goes("settings") /\ parsed' = loadConfig(file)
    /\ UNCHANGED <<file, settings, system, places, usbVersionChecked, device, outside,
                   camera_file, command>>

\* Where the logger records: nowhere when its directory cannot be made.  It puts
\* a first cam_in_ex.txt there.
InitializeLogger(base, writable) ==
    IF settings'["recorddata"] # 0 /\ writable
    THEN root_dir_' = <<base, "recorddata">> /\ camera_file' = "placeholder"
    ELSE UNCHANGED <<root_dir_, camera_file>>

\* Mutant: maps have no directory unless the device status is logged too.
MapsWithLogs(base, set) ==
    IF set.map_mode = 1 /\ set.dest = "" /\ set["devstatuslog"] # 0 THEN <<base, "map">> ELSE <<>>

MapRoot(base, set) == IF set.map_mode = 1 /\ set.dest = "" THEN <<base, "map">> ELSE <<>>

\* The settings are read, and the directories made under the workspace or, where
\* COLCON_PREFIX_PATH does not give it, under the package's share directory.
\* Whatever throws on the way shuts the SDK down, which is not up yet.
ReadSettings(base, found, writable) ==
    /\ main = "settings"
    /\ settings' = [k \in allowed_key_w_int_val \cup {"dest", "map_mode"} |->
                       CASE k = "dest"     -> get_key_str_value("mapping_result_dest_dir")
                         [] k = "map_mode" -> getCustomMapMode(parsed)
                         [] OTHER          -> get_key_value(k)]
    /\ IF ~found
       THEN Returns(-1) /\ system' = "shut" /\ UNCHANGED <<places, camera_file>>
       ELSE /\ InitializeLogger(base, writable)
            /\ IF ~writable /\ (settings'["devstatuslog"] # 0 \/ MapRoot(base, settings') # <<>>)
               THEN Returns(-1) /\ system' = "shut" /\ UNCHANGED map_root_dir_
               ELSE /\ Goes("init") /\ UNCHANGED system
                    /\ map_root_dir_' = MapRoot(base, settings')
    /\ UNCHANGED <<file, parsed, usbVersionChecked, device, outside, command>>

SystemInit(works) ==
    /\ main = "init"
    /\ IF works THEN Goes("wait") /\ system' = "up" ELSE Returns(-1) /\ UNCHANGED system
    /\ UNCHANGED <<reading, places, usbVersionChecked, device, outside, camera_file, command>>

\* /sys/bus/usb/devices is a directory, read as if it were a file: a stream
\* library gives no lines of it, or the names in it.
isUsbDevicePresent(lines) == lines /\ usb # "none"

\* Once a second: the device may be there, or ROS be over.
WaitForDevice(lines) ==
    /\ main = "wait"
    /\ IF connected THEN Goes("loop") /\ UNCHANGED usbVersionChecked
       ELSE IF ~ros_ok THEN Returns(1) /\ UNCHANGED usbVersionChecked
       ELSE IF isUsbDevicePresent(lines) /\ ~usbVersionChecked
            THEN Goes("version") /\ usbVersionChecked' = TRUE
            ELSE UNCHANGED <<main, ret, usbVersionChecked>>
    /\ UNCHANGED <<reading, system, places, device, outside, camera_file, command>>

\* lsusb tells nothing of a device that left meanwhile: then the version is not
\* enough even when it is not checked.
isUsb3OrHigher == usb # "none" /\ (settings["strict_usb3.0_check"] = 0 \/ usb = "usb3")

CheckUsbVersion(popens) ==
    /\ main = "version"
    /\ IF popens /\ isUsb3OrHigher THEN Goes("wait") /\ UNCHANGED system
       ELSE /\ system' = "shut"
            /\ IF popens THEN Returns(1) ELSE Returns(-1)
    /\ UNCHANGED <<reading, places, usbVersionChecked, device, outside, camera_file, command>>

\* One round of the loop.
Loop ==
    /\ main = "loop"
    /\ IF ~ros_ok THEN Goes("leave") ELSE UNCHANGED <<main, ret>>
    /\ command' = (command /\ (~ros_ok \/ disconnected \/ ~connected))
    /\ UNCHANGED <<reading, system, places, usbVersionChecked, device, outside, camera_file>>

\* What convert_calib_to_cam_in_ex leaves: it has read all of the calibration
\* before it truncates the file, and fills in what is missing.
\* Mutant: the file is truncated first.
ConvertTruncates(calib, old) ==
    CASE calib = "" -> old [] calib = "unreadable" -> "empty" [] OTHER -> calib

convert_calib_to_cam_in_ex(calib, old) ==
    CASE calib = "" -> old [] calib = "unreadable" -> old [] OTHER -> calib

Leave ==
    /\ main = "leave" /\ Returns(0)
    /\ camera_file' = IF odinDevice THEN convert_calib_to_cam_in_ex(calib_file_, camera_file)
                      ELSE camera_file
    /\ UNCHANGED <<reading, system, places, usbVersionChecked, device, outside, command>>

-----------------------------------------------------------------------------
(* Around it.                                                               *)

Others == <<main, ret, reading, system, places, usbVersionChecked, camera_file>>

\* The device comes up with a calibration: whole, without Tcl_0, or unreadable.
Attach(calib) ==
    /\ system = "up" /\ isUsb3OrHigher /\ ~connected /\ main # "returned"
    /\ odinDevice' = TRUE /\ connected' = TRUE /\ disconnected' = FALSE /\ calib_file_' = calib
    /\ UNCHANGED <<Others, outside, command>>

\* On a port that is too slow the callback ends the process.
AttachRefused ==
    /\ system = "up" /\ usb # "none" /\ ~isUsb3OrHigher /\ ~connected /\ main # "returned"
    /\ Returns(1)
    /\ UNCHANGED <<reading, system, places, usbVersionChecked, device, outside, camera_file,
                   command>>

Detach ==
    /\ connected /\ usb = "none" /\ main # "returned"
    /\ connected' = FALSE /\ disconnected' = TRUE
    /\ UNCHANGED <<Others, odinDevice, calib_file_, outside, command>>

Plug(what) ==
    /\ usb # what /\ (usb = "none" \/ what = "none") /\ usb' = what /\ main # "returned"
    /\ UNCHANGED <<Others, device, ros_ok, command>>

Shutdown ==
    /\ ros_ok /\ ros_ok' = FALSE /\ main # "returned"
    /\ UNCHANGED <<Others, device, usb, command>>

WriteCommand ==
    /\ main = "loop" /\ ~command /\ command' = TRUE
    /\ UNCHANGED <<Others, device, outside>>

Next ==
    \/ LoadConfig
    \/ \E base \in {"workspace", "share"}, found \in BOOLEAN, writable \in BOOLEAN :
           ReadSettings(base, found, writable)
    \/ \E works \in BOOLEAN : SystemInit(works) \/ CheckUsbVersion(works) \/ WaitForDevice(works)
    \/ Loop \/ Leave
    \/ \E calib \in {"whole", "no_tcl", "unreadable"} : Attach(calib)
    \/ AttachRefused \/ Detach \/ \E what \in {"none", "usb2", "usb3"} : Plug(what)
    \/ Shutdown \/ WriteCommand

Spec == Init /\ [][Next]_vars

-----------------------------------------------------------------------------
TypeOK ==
    /\ main \in {"load", "settings", "init", "wait", "version", "loop", "leave", "returned"}
    /\ ret \in -1 .. 2 /\ system \in {"down", "up", "shut"}
    /\ usb \in {"none", "usb2", "usb3"} /\ usbVersionChecked \in BOOLEAN
    /\ {odinDevice, connected, disconnected, ros_ok, command} \subseteq BOOLEAN
    /\ calib_file_ \in {"", "whole", "no_tcl", "unreadable"}
    /\ camera_file \in {"none", "placeholder", "whole", "no_tcl"}

\* The last entry of a key with a value its conversion accepts decides, whatever
\* unusable entries stand around it; without one it is the default.
SettingsFollowFile ==
    settings # <<>> =>
        LET Usable(key) == {i \in DOMAIN file : file[i][1] = key
                                 /\ Accepts(Section(key), file[i][2].kind)}
            Latest(key) == file[CHOOSE i \in Usable(key) : \A j \in Usable(key) : j <= i][2]
        IN  /\ \A key \in allowed_key_w_int_val :
                   settings[key] = IF Usable(key) = {} THEN Default[key] ELSE Latest(key).v
            /\ settings.map_mode =
                   IF Usable("custom_map_mode") = {} \/ Latest("custom_map_mode").kind # "int" THEN 2
                   ELSE Latest("custom_map_mode").v

\* While the driver maps there is a directory for the map, made or given.
MapHasPlace ==
    main \in {"init", "wait", "version", "loop"} /\ settings.map_mode = 1
        => settings.dest # "" \/ map_root_dir_ # <<>>

\* A cam_in_ex.txt once written is never left without content, and after a run
\* that ended in order with its device it is that device's, if it can be read.
CameraFileWhole ==
    /\ camera_file # "empty"
    /\ ret = 0 /\ odinDevice /\ calib_file_ # "unreadable" => camera_file = calib_file_

StartupSound == SettingsFollowFile /\ MapHasPlace /\ CameraFileWhole
================================================================================
