------------------------------ MODULE Preferences ------------------------------
(***************************************************************************)
(* The preferences from one start of the program to the next: initprefs,   *)
(* parseConfig and writeXMLPrefs of src/core/prefops.c, the setup dialog   *)
(* of src/ui/prefdialog.c, and what the start of the audio and MIDI        *)
(* backends does to them (src/audio/fluid.c, portaudiobackend.c).  Both    *)
(* drivers are the defaults, portaudio and portmidi.  A value is a symbol: *)
(* what initprefs puts in, something else the player chooses, PortAudio's  *)
(* first device, the soundfont that is tried last.                         *)
(***************************************************************************)
EXTENDS Naturals

CONSTANTS
  Fields,      \* the preferences that are followed
  Listed,      \* does PortAudio list a device, next to the entry "default"?
  G_OS_WIN32,  \* is the program built for Windows?
  Trouble      \* what may go wrong: see Troubles

DEVICE == "portaudio_device"
FONT   == "fluidsynth_soundfont"

Values == {"default", "chosen", "first", "fallback"}
Troubles == {"font", "synth", "audio", "midi", "crash"}

ASSUME PreferencesAssumption ==
  /\ Fields \subseteq {"temperament", "lowpitch", "portmidi_input_device",
                       "dynamic_compression", "damping", DEVICE, FONT}
  /\ Trouble \subseteq Troubles
  /\ Listed \in BOOLEAN /\ G_OS_WIN32 \in BOOLEAN

VARIABLES
  pc,          \* how far the program is; "off" if it does not run
  setup,       \* HistoricHarpsichord.setup
  prefs,       \* HistoricHarpsichord.prefs
  file,        \* the preferences file
  accepted     \* history: what the player accepted last; Nothing if the
               \* program has removed the file since
vars == <<pc, setup, prefs, file, accepted>>

Record == [Fields -> Values]
Defaults == [f \in Fields |-> "default"]
Nothing == [f \in {} |-> "default"]

Absent == [is |-> "absent", holds |-> Nothing]
Torn   == [is |-> "torn",   holds |-> Nothing]
Whole(p) == [is |-> "whole", holds |-> p]

Init ==
  /\ pc = "off" /\ setup = FALSE
  /\ prefs = Defaults /\ file = Absent /\ accepted = Nothing

-------------------------------------------------------------------------------
(* A new process, with or without --setup. *)
Start ==
  /\ pc = "off"
  /\ pc' = "starting"
  /\ setup' \in BOOLEAN
  /\ prefs' = Defaults
  /\ UNCHANGED <<file, accepted>>

(* Mutant: parseConfig has no entry for lowpitch either. *)
BugParsed == {"temperament", "portmidi_input_device", DEVICE, FONT}

(* The fields that parseConfig reads, of those that writeXMLPrefs writes.   *)
Parsed == {"temperament", "lowpitch", "portmidi_input_device", DEVICE, FONT}

(* Mutant: what is there of a damaged file is read. *)
BugReads(p) ==
  IF file.is = "whole"
  THEN [f \in Fields |-> IF f \in Parsed THEN file.holds[f] ELSE p[f]]
  ELSE [p EXCEPT !["lowpitch"] = "chosen"]

(* readxmlprefs: a file that is not well-formed is not used at all. *)
Reads(p) ==
  IF file.is = "whole"
  THEN [f \in Fields |-> IF f \in Parsed THEN file.holds[f] ELSE p[f]]
  ELSE p

ReadPrefs ==
  /\ pc = "starting" /\ file # Absent
  /\ prefs' = Reads(prefs)
  /\ pc' = "loaded"
  /\ UNCHANGED <<setup, file, accepted>>

(* xmlSaveFormatFile opens the file, which empties it, and then writes it. *)
WriteBegins == file' = Torn
WriteEnds   == file' = Whole(prefs)

NoPrefs ==
  /\ pc = "starting" /\ file = Absent
  /\ setup' = TRUE
  /\ WriteBegins
  /\ pc' = "writing"
  /\ UNCHANGED <<prefs, accepted>>

Written ==
  /\ pc = "writing"
  /\ WriteEnds
  /\ pc' = "loaded"
  /\ UNCHANGED <<setup, prefs, accepted>>

(* Mutant: PortAudio's first device, whatever the preferences say. *)
BugPreferred(p) ==
  [f \in Fields |-> IF f = DEVICE THEN "first" ELSE p[f]]

(* preferences_change: PortAudio's first device instead of its default, if  *)
(* it has one, except on Windows                                            *)
Preferred(p) ==
  [f \in Fields |-> IF ~G_OS_WIN32 /\ Listed /\ f = DEVICE /\ p[f] = "default"
                   THEN "first" ELSE p[f]]

OpenDialog ==
  /\ pc = "loaded"
  /\ prefs' = Preferred(prefs)
  /\ pc' = IF setup THEN "dialog" ELSE "synth"
  /\ UNCHANGED <<setup, file, accepted>>

(* What the widgets can be set to. *)
Choices(f) ==
  {"default", prefs[f]} \cup IF f # DEVICE THEN {"chosen"}
                             ELSE IF Listed THEN {"chosen", "first"} ELSE {}

(* set_preferences, and the callbacks that change temperament and soundfont *)
(* while the dialog is open                                                 *)
Accept ==
  /\ pc = "dialog"
  /\ \E p \in Record : (\A f \in Fields : p[f] \in Choices(f)) /\ prefs' = p
  /\ WriteBegins
  /\ pc' = "saving"
  /\ UNCHANGED <<setup, accepted>>

Saved ==
  /\ pc = "saving"
  /\ WriteEnds
  /\ accepted' = prefs
  /\ pc' = "synth"
  /\ UNCHANGED <<setup, prefs>>

Cancel ==
  /\ pc = "dialog"
  /\ pc' = "off"
  /\ UNCHANGED <<setup, prefs, file, accepted>>

-------------------------------------------------------------------------------

(* fluidsynth_init: the soundfont of the installation instead of the user's *)
Fallback(p) == [f \in Fields |-> IF f = FONT THEN "fallback" ELSE p[f]]

FontLoads ==
  \/ UNCHANGED prefs
  \/ "font" \in Trouble /\ prefs' = Fallback(prefs)

SynthStarts ==
  /\ pc = "synth"
  /\ FontLoads
  /\ pc' = "audio"
  /\ UNCHANGED <<setup, file, accepted>>

(* fluidsynth_shutdown removes the file: the player has to start over. *)
Unlink == file' = Absent /\ accepted' = Nothing

(* The file goes if there is no synthesizer or no soundfont; without        *)
(* settings it stays.                                                       *)
SynthFails ==
  /\ pc = "synth" /\ "synth" \in Trouble
  /\ \/ UNCHANGED <<prefs, file, accepted>>
     \/ prefs' \in {prefs, Fallback(prefs)} /\ Unlink
  /\ pc' = "error"
  /\ UNCHANGED setup

AudioStarts ==
  /\ pc = "audio"
  /\ pc' \in {"midi"} \cup IF "audio" \in Trouble THEN {"error"} ELSE {}
  /\ UNCHANGED <<setup, prefs, file, accepted>>

MidiStarts ==
  /\ pc = "midi"
  /\ pc' = "playing"
  /\ UNCHANGED <<setup, prefs, file, accepted>>

(* Then portaudio_destroy calls fluidsynth_shutdown, unless Pa_CloseStream  *)
(* fails.                                                                   *)
MidiFails ==
  /\ pc = "midi" /\ "midi" \in Trouble
  /\ Unlink \/ UNCHANGED <<file, accepted>>
  /\ pc' = "error"
  /\ UNCHANGED <<setup, prefs>>

(* The player closes the window, the program's own or that of an error. *)
Exit ==
  /\ pc \in {"playing", "error"}
  /\ pc' = "off"
  /\ UNCHANGED <<setup, prefs, file, accepted>>

Crash ==
  /\ "crash" \in Trouble /\ pc # "off"
  /\ pc' = "off"
  /\ UNCHANGED <<setup, prefs, file, accepted>>

-------------------------------------------------------------------------------
Next ==
  \/ Start \/ ReadPrefs \/ NoPrefs \/ Written
  \/ OpenDialog \/ Accept \/ Saved \/ Cancel
  \/ SynthStarts \/ SynthFails \/ AudioStarts \/ MidiStarts \/ MidiFails
  \/ Exit \/ Crash

Spec == Init /\ [][Next]_vars

-------------------------------------------------------------------------------
TypeOK ==
  /\ pc \in {"off", "starting", "writing", "loaded", "dialog", "saving",
             "synth", "audio", "midi", "playing", "error"}
  /\ setup \in BOOLEAN
  /\ prefs \in Record
  /\ file \in {Absent, Torn} \cup { Whole(p) : p \in Record }
  /\ accepted \in Record \cup {Nothing}

(* A session starts with what the player accepted last, in however early a  *)
(* session, unless a crash has torn the file.                               *)
Reloaded(fields) ==
  pc = "loaded" /\ accepted # Nothing /\ file # Torn =>
    \A f \in Fields \cap fields : prefs[f] = accepted[f]

(* historicHarpsichord_types.h:52, "Preferences stored on exit and          *)
(* re-loaded on startup", of every preference that writeXMLPrefs writes.    *)
AllReloaded == Reloaded(Fields)

(* The same of the preferences that parseConfig has an entry for.           *)
ParsedReloaded == Reloaded({"temperament", "lowpitch", "portmidi_input_device", DEVICE, FONT})

(* What plays is what was accepted, but for a default that PortAudio cannot *)
(* open and a soundfont that cannot be loaded, whose substitutes find no    *)
(* way into the preferences of a later session; and but for damping and     *)
(* dynamic_compression, which are written (prefops.c:451) and not read:     *)
(* they play as accepted in the session of the setup dialog, and are the    *)
(* defaults, whatever was accepted, in every session without it.            *)
PlaysAccepted ==
  pc = "playing" /\ accepted # Nothing /\ file # Torn =>
    \A f \in Fields :
      IF f \in {"dynamic_compression", "damping"}
      THEN prefs[f] = IF setup THEN accepted[f] ELSE "default"
      ELSE \/ prefs[f] = accepted[f]
           \/ f = DEVICE /\ accepted[f] = "default" /\ prefs[f] = "first"
           \/ f = FONT /\ prefs[f] = "fallback"

(* Wherever the program is stopped, the next session starts with a set of   *)
(* preferences that was written as one, or with none of it.                 *)
WholeOrDefaults ==
  pc = "loaded" =>
    \/ prefs = Defaults
    \/ file.is = "whole" /\ \A f \in Fields :
         prefs[f] = IF f \in Parsed THEN file.holds[f] ELSE "default"
===============================================================================
