------------------------------ MODULE MCSubsystem ------------------------------
(***************************************************************************)
(* Subsystem for TLC.  PortAudio lists four devices, two of them with the  *)
(* same name; the preferences name the default, the last device of the     *)
(* list, or one that has been unplugged.                                   *)
(***************************************************************************)
EXTENDS Subsystem

MCDevices == <<"alsa: a", "alsa: b", "alsa: b", "alsa: c">>
MCDeviceNames == {"default", "alsa: b", "alsa: c", "alsa: gone"}
===============================================================================
