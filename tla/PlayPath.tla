------------------------------- MODULE PlayPath --------------------------------
(***************************************************************************)
(* From the keyboard to the synthesizer: what handle_midi_event makes of an *)
(* event (src/audio/midi.c), the tuning messages that set_tuning sends when *)
(* the temperament is chosen and when the synthesizer is started           *)
(* (temperament.c, fluid.c), and what fluidsynth_feed_midi makes of both   *)
(* on the audio thread.  The immediate queue between them is a FIFO of     *)
(* whole messages that refuses what does not fit (ImmediateQueue).         *)
(* Nobody reads it before the stream is open.  A keyboard sends on one     *)
(* channel.  Time goes by in beats of two seconds, and the clock may be    *)
(* set back.                                                               *)
(***************************************************************************)
EXTENDS Integers, Sequences, FiniteSets

CONSTANTS
  Keys,          \* the keys of the keyboard
  Velocities,    \* the velocities a key is pressed with
  Compressions,  \* the percentages the player may choose
  Temperaments,  \* the entries of the temperament combo box
  Channels,      \* the MIDI channels a keyboard may be set to
  OddBytes,      \* what a number outside of gchar is converted to
  Capacity,      \* bytes the immediate queue holds
  MaxChanges,    \* bound: changes of the temperament in the setup dialog
  MaxEvents      \* bound: events of the keyboard

ASSUME PlayPathAssumption ==
  /\ Keys \subseteq 0 .. 127 /\ Velocities \subseteq 1 .. 127
  /\ Compressions \subseteq 0 .. 100 /\ 100 \in Compressions
  /\ Channels \subseteq 0 .. 15 /\ 0 \in Channels
  /\ OddBytes \subseteq 0 .. 255 /\ Capacity \in Nat
  /\ MaxChanges \in Nat /\ MaxEvents \in Nat

VARIABLES
  pc,          \* main: in the setup "dialog", at the "reset" of the channels,
               \* at the second set_tuning ("tune"), or "playing"
  prefs,       \* HistoricHarpsichord.prefs, as far as the sound goes
  temperament, \* PR_temperament
  channel,     \* the channel of the keyboard
  age,         \* the time since times[key], in beats
  queue,       \* the immediate queue of the audio backend
  tuning,      \* synth: the tuning set last
  sounding,    \* synth: the velocity at which a key sounds, 0 if it does not
  held,        \* history: the velocity a key is held with, 0 if released
  lost,        \* history: the keys whose last event the queue refused
  stepped,     \* history: the clock has been set back
  changes,     \* changes of the temperament so far
  events       \* events of the keyboard so far

choice == <<prefs, temperament, channel>>
synth  == <<tuning, sounding>>
player == <<held, lost>>
clock  == <<age, stepped>>
vars == <<pc, choice, clock, queue, synth, player, changes, events>>

-------------------------------------------------------------------------------
(* Midi messages *)

(* Mutant: the offsets are moved the other way. *)
BugOffsets(low) == [c \in 0 .. 11 |-> IF low THEN (c + 11) % 12 ELSE c]

(* change_tuning: the place of the offset that pitch class c is tuned by.  *)
Offsets(low) == [c \in 0 .. 11 |-> IF low THEN (c + 1) % 12 ELSE c]

Tuning(t, low)   == [type |-> "tuning", of |-> t, at |-> Offsets(low)]
NoteOn(c, k, v)  == [type |-> "on", channel |-> c, key |-> k, velocity |-> v]
NoteOff(c, k)    == [type |-> "off", channel |-> c, key |-> k]
Ignored          == [type |-> "ignored"]

(* The bytes of the frame play_midi_event writes: a length byte and three  *)
(* bytes, or all of a tuning message up to MIDI_EOX.                       *)
NOTE_BYTES   == 4
TUNING_BYTES == 21
Bytes(m) == IF m.type = "tuning" THEN TUNING_BYTES ELSE NOTE_BYTES

Tunings == {i \in DOMAIN queue : queue[i].type = "tuning"}
Used == Len(queue) * NOTE_BYTES + Cardinality(Tunings) * (TUNING_BYTES - NOTE_BYTES)
Fits(m) == Used + Bytes(m) <= Capacity

(* play_midi_event: a message that does not fit is gone. *)
PlayMidiEvent(m) == queue' = IF Fits(m) THEN Append(queue, m) ELSE queue

(* Mutant: the message is made without a look at low pitch. *)
BugSetTuning(t) == PlayMidiEvent(Tuning(t, FALSE))

SetTuning(t) == PlayMidiEvent(Tuning(t, prefs.lowpitch))

-------------------------------------------------------------------------------
(* Starting *)

Low(p) == IF p.lowpitch THEN 1 ELSE 0
SynthKeys == {k - l : k \in Keys, l \in {0, 1}} \cap 0 .. 127
Untuned == [of |-> "equal", at |-> [c \in 0 .. 11 |-> c]]

(* The age of a key that was never pressed; its string is silent by then.  *)
LongAgo == 3
Ages == -1 .. LongAgo

(* initprefs has read the preferences and get_temperament_combo has found  *)
(* the temperament.  damping and dynamic_compression are not read back, so *)
(* that without the dialog they are the defaults.                          *)
Init ==
  /\ pc \in {"dialog", "reset"}
  /\ prefs \in [damping: {TRUE}, lowpitch: BOOLEAN, compression: {100}]
  /\ temperament \in Temperaments /\ channel \in Channels
  /\ age = [k \in Keys |-> LongAgo] /\ stepped = FALSE
  /\ queue = <<>>
  /\ tuning = Untuned
  /\ sounding = [c \in Channels |-> [k \in SynthKeys |-> 0]]
  /\ held = [k \in Keys |-> 0] /\ lost = {}
  /\ changes = 0 /\ events = 0

(* temperament_changed_callback, in the main loop of the dialog: low pitch *)
(* is still what it was before the dialog.                                 *)
TemperamentChanged ==
  /\ pc = "dialog" /\ changes < MaxChanges
  /\ \E t \in Temperaments \ {temperament} :
       /\ temperament' = t
       /\ SetTuning(t)
  /\ changes' = changes + 1
  /\ UNCHANGED <<pc, prefs, channel, clock, synth, player, events>>

(* set_preferences *)
Accept ==
  /\ pc = "dialog"
  /\ prefs' \in [damping: BOOLEAN, lowpitch: BOOLEAN, compression: Compressions]
  /\ pc' = "reset"
  /\ UNCHANGED <<temperament, channel, clock, queue, synth, player, changes, events>>

(* The set_tuning of reset_synth_channels and the one that follows         *)
(* fluidsynth_init; then the stream is opened.                             *)
ResetChannels ==
  /\ pc = "reset"
  /\ SetTuning(temperament)
  /\ pc' = "tune"
  /\ UNCHANGED <<choice, clock, synth, player, changes, events>>

TuneAgain ==
  /\ pc = "tune"
  /\ SetTuning(temperament)
  /\ pc' = "playing"
  /\ UNCHANGED <<choice, clock, synth, player, changes, events>>

-------------------------------------------------------------------------------
(* handle_midi_event, in the main loop *)

(* Mutant: the velocity itself is scaled, not what it lacks. *)
BugAdjusted(v, percent) == (v * percent) \div 100

(* adjust_midi_velocity *)
Adjusted(v, percent) == 127 - ((127 - v) * percent) \div 100

(* 60 / exp (seconds), as an integer: what add_after_touch plays at a      *)
(* release.  With the clock set back the number may exceed a gchar.        *)
Fade == <<60, 8, 1, 0>>
RingsAt(a) == IF a >= 0 THEN {Fade[a + 1]} ELSE OddBytes

(* times has no element for the last key: its age is whatever is found.    *)
TimedKeys == 0 .. 126
HeldFor(k) == IF k \in TimedKeys THEN {age[k]} ELSE Ages

KeyEvent(k, m) ==
  /\ PlayMidiEvent(m)
  /\ lost' = IF Fits(m) THEN lost \ {k} ELSE lost \cup {k}

KeyPressed ==
  /\ pc = "playing" /\ events < MaxEvents
  /\ \E k \in Keys, v \in Velocities :
       /\ KeyEvent(k, NoteOn(channel, k, Adjusted(v, 100 - prefs.compression)))
       /\ held' = [held EXCEPT ![k] = v]
       /\ age' = IF prefs.damping /\ k \in TimedKeys THEN [age EXCEPT ![k] = 0] ELSE age
  /\ events' = events + 1
  /\ UNCHANGED <<pc, choice, stepped, synth, changes>>

(* A note-off, or the note-on with velocity 0 that input_midi_event turns  *)
(* into one.  With damping it becomes a note-on, on channel 0.             *)
KeyReleased ==
  /\ pc = "playing" /\ events < MaxEvents
  /\ \E k \in Keys :
       /\ \/ prefs.damping
             /\ \E a \in HeldFor(k) : \E b \in RingsAt(a) : KeyEvent(k, NoteOn(0, k, b))
          \/ ~prefs.damping /\ KeyEvent(k, NoteOff(channel, k))
       /\ held' = [held EXCEPT ![k] = 0]
  /\ events' = events + 1
  /\ UNCHANGED <<pc, choice, clock, synth, changes>>

(* Pitch bend, controllers and the rest: with damping the first byte is 0, *)
(* without it a type fluidsynth_feed_midi does not know; the message takes *)
(* its place in the queue.                                                 *)
OtherEvent ==
  /\ pc = "playing" /\ events < MaxEvents
  /\ PlayMidiEvent(Ignored)
  /\ events' = events + 1
  /\ UNCHANGED <<pc, choice, clock, synth, player, changes>>

-------------------------------------------------------------------------------
(* The audio thread *)

(* fluid_synth_noteon and _noteoff refuse a key below 0; a note-on with    *)
(* velocity 0 is a note-off.                                               *)
Sound(c, k, v) ==
  sounding' = IF k \in SynthKeys THEN [sounding EXCEPT ![c][k] = v] ELSE sounding

(* Mutant: the key is released where it would sound without low pitch. *)
BugFeedOff(m) == Sound(m.channel, m.key, 0)

FeedOff(m) == Sound(m.channel, m.key - Low(prefs), 0)

(* Mutant: the velocity is not limited. *)
BugFeedOn(m) == Sound(m.channel, m.key - Low(prefs), m.velocity)

FeedOn(m) ==
  Sound(m.channel, m.key - Low(prefs), IF m.velocity > 127 THEN 127 ELSE m.velocity)

(* One round of the loop of stream_callback: fluidsynth_feed_midi. *)
FeedMidi ==
  /\ pc = "playing" /\ queue # <<>>
  /\ LET m == Head(queue)
     IN  \/ m.type = "on" /\ FeedOn(m) /\ UNCHANGED tuning
         \/ m.type = "off" /\ FeedOff(m) /\ UNCHANGED tuning
         \/ m.type = "tuning" /\ tuning' = [of |-> m.of, at |-> m.at] /\ UNCHANGED sounding
         \/ m.type = "ignored" /\ UNCHANGED synth
  /\ queue' = Tail(queue)
  /\ UNCHANGED <<pc, choice, clock, player, changes, events>>

-------------------------------------------------------------------------------
(* The wall clock, which get_time reads *)

Beat ==
  /\ pc = "playing"
  /\ age' = [k \in Keys |-> IF age[k] < LongAgo THEN age[k] + 1 ELSE LongAgo]
  /\ UNCHANGED <<pc, choice, stepped, queue, synth, player, changes, events>>

SetBack ==
  /\ pc = "playing" /\ ~stepped
  /\ \A k \in Keys : age[k] >= 0
  /\ age' = [k \in Keys |-> IF age[k] < LongAgo THEN age[k] - 1 ELSE LongAgo]
  /\ stepped' = TRUE
  /\ UNCHANGED <<pc, choice, queue, synth, player, changes, events>>

Starting == TemperamentChanged \/ Accept \/ ResetChannels \/ TuneAgain
Playing == KeyPressed \/ KeyReleased \/ OtherEvent \/ FeedMidi
Next == Starting \/ Playing \/ Beat \/ SetBack

(* The start does not stop on the way, and the callback is called again    *)
(* and again.  Nobody has to play.                                         *)
Fairness == WF_vars(ResetChannels) /\ WF_vars(TuneAgain) /\ WF_vars(FeedMidi)
Spec == Init /\ [][Next]_vars /\ Fairness

-------------------------------------------------------------------------------
(* Properties *)

Notes == [type: {"on"}, channel: Channels, key: Keys, velocity: 0 .. 255]
NotesOff == [type: {"off"}, channel: Channels, key: Keys]
Tones == [type: {"tuning"}, of: Temperaments, at: [0 .. 11 -> 0 .. 11]]
Messages == Notes \cup NotesOff \cup Tones \cup {Ignored}

(* Types; the synthesizer gets velocities it knows (0 to 127) whatever the *)
(* clock and the last key put into the byte.                               *)
TypeOK ==
  /\ pc \in {"dialog", "reset", "tune", "playing"}
  /\ prefs \in [damping: BOOLEAN, lowpitch: BOOLEAN, compression: Compressions]
  /\ temperament \in Temperaments /\ channel \in Channels
  /\ age \in [Keys -> Ages] /\ stepped \in BOOLEAN
  /\ queue \in Seq(Messages)
  /\ tuning \in [of: Temperaments \cup {"equal"}, at: [0 .. 11 -> 0 .. 11]]
  /\ sounding \in [Channels -> [SynthKeys -> 0 .. 127]]
  /\ held \in [Keys -> 0 .. 127] /\ lost \subseteq Keys
  /\ changes \in 0 .. MaxChanges /\ events \in 0 .. MaxEvents

(* Every key is tuned by the offset of its own name in the chosen          *)
(* temperament, wherever low pitch moves it.                               *)
InTune ==
  /\ tuning.of = temperament
  /\ \A k \in Keys : k >= Low(prefs) => tuning.at[(k - Low(prefs)) % 12] = k % 12

(* Once the messages of the start have been read the synthesizer plays     *)
(* what the player chose last (tooltip of get_temperament_combo, set_tuning *)
(* and change_tuning).                                                     *)
TunedAsChosen == (pc = "playing" /\ Tunings = {}) => InTune

(* The tuning does arrive. *)
TuningArrives == (pc = "playing") ~> InTune

(* What the player plays has reached the synthesizer; after_touch is only  *)
(* "good for one channel" (midi.c:64), the first.                          *)
Followed(k) ==
  /\ pc = "playing" /\ queue = <<>> /\ k \notin lost
  /\ k - Low(prefs) \in SynthKeys
  /\ prefs.damping => channel = 0

Heard(k) == sounding[channel][k - Low(prefs)]

(* A key that is held sounds, and compression never makes it softer than   *)
(* it was played (adjust_midi_velocity).                                   *)
HeldSounds == \A k \in Keys : Followed(k) /\ held[k] > 0 => Heard(k) >= held[k]

(* A released key is silent, or with damping no louder than 60, unless the *)
(* clock went back or the key is the last, which has no time.              *)
ReleasedFades ==
  \A k \in Keys : Followed(k) /\ held[k] = 0 =>
    \/ ~prefs.damping /\ Heard(k) = 0
    \/ prefs.damping /\ (Heard(k) <= 60 \/ stepped \/ k \notin TimedKeys)
===============================================================================
