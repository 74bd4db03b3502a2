----------------------------- MODULE MCPreferences -----------------------------
(***************************************************************************)
(* Instances of Preferences for TLC: all fields; and one of each kind, the *)
(* three that are treated differently and one that is not read back.       *)
(***************************************************************************)
EXTENDS Preferences

MCAll == {"temperament", "lowpitch", "portmidi_input_device", "dynamic_compression",
          "damping", DEVICE, FONT}
MCKinds == {DEVICE, FONT, "lowpitch", "damping"}
===============================================================================
