--------------------------- MODULE PortAudioDevices ---------------------------
(***************************************************************************)
(* How the name of the audio device in the preferences becomes the index   *)
(* PortAudio is asked to open: src/audio/portaudioutil.c, its caller in    *)
(* src/audio/portaudiobackend.c and the choice the setup dialog makes for  *)
(* "default" (src/ui/prefdialog.c).  A name is a string that is compared   *)
(* and never looked into.                                                  *)
(***************************************************************************)
EXTENDS Integers, Sequences

CONSTANTS
  Devices,         \* the names PortAudio lists, "<api>: <device>"
  DefaultDevice,   \* what Pa_GetDefaultOutputDevice returns
  G_OS_WIN32       \* is the program built for Windows?

paNoDevice == -1

ASSUME DevicesAssumption ==
  /\ Devices \in Seq(STRING)
  /\ \A i \in 1 .. Len(Devices) : Devices[i] # "default"
  /\ DefaultDevice \in {paNoDevice} \cup 0 .. Len(Devices) - 1
  /\ G_OS_WIN32 \in BOOLEAN

(* get_portaudio_devices: PortAudio's names behind an entry of its own, or *)
(* NULL if Pa_Initialize fails.                                            *)
NameList == <<"default">> \o Devices
NULL == <<>>

(* g_list_position of g_list_find_custom: the first entry with the name. *)
Positions(name, list) == { i \in 0 .. Len(list) - 1 : list[i + 1] = name }
Position(name, list) ==
  IF Positions(name, list) = {} THEN -1
  ELSE CHOOSE i \in Positions(name, list) : \A j \in Positions(name, list) : i <= j

(* Mutant: the entry before PortAudio's names is not counted. *)
BugDeviceIndex(name, list) ==
  IF name = "default" THEN DefaultDevice
  ELSE IF list = NULL THEN paNoDevice ELSE Position(name, list)

(* get_portaudio_device_index.  An unknown name gives paNoDevice - 1.      *)
DeviceIndex(name, list) ==
  IF name = "default" THEN DefaultDevice
  ELSE IF list = NULL THEN paNoDevice
  ELSE (IF Position(name, list) = -1 THEN paNoDevice ELSE Position(name, list)) - 1

(* The device actual_portaudio_initialize opens: the one of the            *)
(* preferences, or the default if there is no such device.  PortAudio is   *)
(* initialized by then, so that the list is there.                         *)
OutputDevice(name) ==
  LET index == DeviceIndex(name, NameList)
  IN  IF index = paNoDevice THEN DeviceIndex("default", NameList) ELSE index

(* Pa_GetDeviceInfo knows the device. *)
Exists(index) == index \in 0 .. Len(Devices) - 1

(* portaudioutil.h:21, "Returns the device index for the given device      *)
(* name": the index is that of the first device with the name.             *)
IndexFound(name) ==
  LET index == DeviceIndex(name, NameList)
  IN  /\ Exists(index) /\ Devices[index + 1] = name
      /\ \A j \in 1 .. index : Devices[j] # name

(* preferences_change: instead of PortAudio's default, the first device of *)
(* the list, except on Windows.                                            *)
Preferred(name, list) ==
  IF ~G_OS_WIN32 /\ name = "default" /\ Len(list) > 1 THEN list[2] ELSE name
===============================================================================
