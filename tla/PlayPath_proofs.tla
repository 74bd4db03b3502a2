---------------------------- MODULE PlayPath_proofs ----------------------------
(***************************************************************************)
(* Theorems about PlayPath, for every keyboard, every set of velocities,   *)
(* compressions and temperaments, and every queue.                         *)
(***************************************************************************)
EXTENDS PlayPath, FiniteSetTheorems, TLAPS

-------------------------------------------------------------------------------
(* The arithmetic of midi.c *)

(* A percentage of a number is between 0 and the number. *)
LEMMA PercentBounds ==
  ASSUME NEW n \in Nat, NEW p \in 0 .. 100
  PROVE  (n * p) \div 100 \in 0 .. n
<1>1. n * p \in Nat /\ n * p <= n * 100
  OBVIOUS
<1> DEFINE m == n * p
<1>2. m \in Nat /\ m <= n * 100 => m \div 100 \in 0 .. n
  <2> HIDE DEF m
  <2> QED
    OBVIOUS
<1> QED
  BY <1>1, <1>2

(* adjust_midi_velocity never makes a note softer, and keeps it a velocity. *)
LEMMA AdjustedBounds ==
  ASSUME NEW v \in 0 .. 127, NEW p \in 0 .. 100
  PROVE  Adjusted(v, p) \in v .. 127
<1>1. 127 - v \in Nat
  OBVIOUS
<1>2. ((127 - v) * p) \div 100 \in 0 .. 127 - v
  BY <1>1, PercentBounds
<1> QED
  BY <1>2 DEF Adjusted

(* Compression keeps the order of velocities: louder is not played softer. *)
THEOREM CompressionIsMonotone ==
  ASSUME NEW v \in 0 .. 127, NEW w \in v .. 127, NEW p \in 0 .. 100
  PROVE  Adjusted(v, p) <= Adjusted(w, p)
<1> DEFINE a == (127 - v) * p
           b == (127 - w) * p
<1>1. a \in Nat /\ b \in Nat /\ b <= a
  OBVIOUS
<1>2. a \in Nat /\ b \in Nat /\ b <= a => b \div 100 <= a \div 100
  <2> HIDE DEF a, b
  <2> QED
    OBVIOUS
<1>3. a \div 100 \in Int /\ b \div 100 \in Int
  <2> HIDE DEF a, b
  <2> QED
    BY <1>1
<1> QED
  BY <1>1, <1>2, <1>3 DEF Adjusted

(* The shift of change_tuning and the shift of fluidsynth_feed_midi agree:  *)
(* a key sounds with the offset of its own name, with and without low pitch. *)
LEMMA KeyKeepsItsOffset ==
  ASSUME NEW k \in 0 .. 127, NEW low \in BOOLEAN, NEW l \in {0, 1},
         l = (IF low THEN 1 ELSE 0), k >= l
  PROVE  /\ (k - l) % 12 \in 0 .. 11
         /\ Offsets(low)[(k - l) % 12] = k % 12
<1>1. (k - l) % 12 \in 0 .. 11
  OBVIOUS
<1>2. CASE low
  <2>1. (((k - 1) % 12) + 1) % 12 = k % 12
    BY <1>2
  <2> QED
    BY <1>1, <1>2, <2>1 DEF Offsets
<1>3. CASE ~low
  BY <1>1, <1>3 DEF Offsets
<1> QED
  BY <1>2, <1>3

-------------------------------------------------------------------------------
(* Types *)

LEMMA TypesInit == Init => TypeOK
<1> SUFFICES ASSUME Init PROVE TypeOK
  OBVIOUS
<1>1. tuning \in [of: Temperaments \cup {"equal"}, at: [0 .. 11 -> 0 .. 11]]
  BY DEF Init, Untuned
<1>2. sounding \in [Channels -> [SynthKeys -> 0 .. 127]]
  BY DEF Init
<1>3. LongAgo \in Ages
  BY DEF Ages, LongAgo
<1>5. age \in [Keys -> Ages] /\ stepped \in BOOLEAN
  BY <1>3 DEF Init
<1>6. prefs \in [damping: BOOLEAN, lowpitch: BOOLEAN, compression: Compressions]
  BY PlayPathAssumption DEF Init
<1>7. held \in [Keys -> 0 .. 127] /\ lost \subseteq Keys /\ changes \in 0 .. MaxChanges /\ events \in 0 .. MaxEvents
  BY PlayPathAssumption DEF Init
<1>4. queue \in Seq(Messages)
  BY DEF Init
<1> QED
  BY <1>1, <1>2, <1>4, <1>5, <1>6, <1>7 DEF Init, TypeOK

(* A message in the queue is of the kind its type says. *)
LEMMA Kinds ==
  ASSUME NEW m \in Messages
  PROVE  /\ m.type = "on" => m \in Notes
         /\ m.type = "off" => m \in NotesOff
         /\ m.type = "tuning" => m \in Tones
         /\ m.type \in {"on", "off", "tuning", "ignored"}
BY DEF Messages, Notes, NotesOff, Tones, Ignored

LEMMA TuningIsMessage ==
  ASSUME NEW t \in Temperaments, NEW low \in BOOLEAN
  PROVE  Tuning(t, low) \in Messages
<1>1. Offsets(low) \in [0 .. 11 -> 0 .. 11]
  BY DEF Offsets
<1> QED
  BY <1>1 DEF Tuning, Messages, Tones

LEMMA NoteIsMessage ==
  ASSUME NEW c \in Channels, NEW k \in Keys, NEW v \in 0 .. 255
  PROVE  NoteOn(c, k, v) \in Messages /\ NoteOff(c, k) \in Messages
BY DEF NoteOn, NoteOff, Messages, Notes, NotesOff

LEMMA SendTypes ==
  ASSUME queue \in Seq(Messages), NEW m \in Messages, PlayMidiEvent(m)
  PROVE  queue' \in Seq(Messages)
BY DEF PlayMidiEvent

LEMMA FadeTypes ==
  ASSUME NEW a \in Ages
  PROVE  RingsAt(a) \subseteq 0 .. 255
<1>1. CASE a >= 0
  <2>1. a + 1 \in 1 .. 4
    BY <1>1 DEF Ages, LongAgo
  <2>2. \A i \in 1 .. 4 : Fade[i] \in 0 .. 255
    BY DEF Fade
  <2> QED
    BY <1>1, <2>1, <2>2 DEF RingsAt
<1>2. CASE ~(a >= 0)
  BY <1>2, PlayPathAssumption DEF RingsAt
<1> QED
  BY <1>1, <1>2

LEMMA OddTypes == OddBytes \subseteq 0 .. 255 /\ 0 \in Channels
BY PlayPathAssumption

(* A key that is pressed is played no softer than it was pressed. *)
LEMMA PressedBounds ==
  ASSUME NEW v \in Velocities, NEW c \in Compressions
  PROVE  Adjusted(v, 100 - c) \in v .. 127
<1>1. v \in 0 .. 127 /\ c \in 0 .. 100
  BY PlayPathAssumption
<1> DEFINE p == 100 - c
<1>2. p \in 0 .. 100
  BY <1>1
<1> HIDE DEF p
<1>3. Adjusted(v, p) \in v .. 127
  BY <1>1, <1>2, AdjustedBounds, Zenon
<1> QED
  BY <1>3 DEF p

LEMMA VelocityTypes ==
  ASSUME NEW v \in Velocities, NEW c \in Compressions
  PROVE  Adjusted(v, 100 - c) \in 0 .. 255 /\ v \in 0 .. 127
<1>1. v \in 0 .. 127
  BY PlayPathAssumption
<1>2. Adjusted(v, 100 - c) \in v .. 127
  BY PressedBounds
<1> QED
  BY <1>1, <1>2

LEMMA Limited ==
  ASSUME NEW v \in 0 .. 255
  PROVE  (IF v > 127 THEN 127 ELSE v) \in 0 .. 127
OBVIOUS

LEMMA AgeTypes ==
  ASSUME NEW f \in [Keys -> Ages]
  PROVE  /\ [k \in Keys |-> IF f[k] < LongAgo THEN f[k] + 1 ELSE LongAgo] \in [Keys -> Ages]
         /\ (\A k \in Keys : f[k] >= 0) =>
              [k \in Keys |-> IF f[k] < LongAgo THEN f[k] - 1 ELSE LongAgo] \in [Keys -> Ages]
<1>2. \A k \in Keys : f[k] \in Ages
  OBVIOUS
<1> DEFINE older(a) == IF a < LongAgo THEN a + 1 ELSE LongAgo
           younger(a) == IF a < LongAgo THEN a - 1 ELSE LongAgo
<1>3. \A a \in Ages : older(a) \in Ages /\ (a >= 0 => younger(a) \in Ages)
  BY DEF Ages, LongAgo
<1> HIDE DEF older, younger
<1>4. [k \in Keys |-> older(f[k])] \in [Keys -> Ages]
  BY <1>2, <1>3
<1>5. ASSUME \A k \in Keys : f[k] >= 0 PROVE [k \in Keys |-> younger(f[k])] \in [Keys -> Ages]
  BY <1>2, <1>3, <1>5
<1> QED
  BY <1>4, <1>5 DEF older, younger

LEMMA OneMore ==
  ASSUME NEW max \in Nat, NEW n \in 0 .. max, n < max
  PROVE  n + 1 \in 0 .. max
OBVIOUS

LEMMA StartingTypes == TypeOK /\ Starting => TypeOK'
<1> SUFFICES ASSUME TypeOK, Starting PROVE TypeOK'
  OBVIOUS
<1> USE DEF TypeOK, clock, synth, player, choice
<1>1. CASE TemperamentChanged
  <2> USE <1>1 DEF TemperamentChanged
  <2>1. temperament' \in Temperaments /\ changes' \in 0 .. MaxChanges
    <3>1. MaxChanges \in Nat
      BY PlayPathAssumption
    <3> QED
      BY <3>1, OneMore
  <2>2. queue' \in Seq(Messages)
    BY TuningIsMessage, SendTypes DEF SetTuning
  <2> QED
    BY <2>1, <2>2
<1>2. CASE Accept
  BY <1>2 DEF Accept
<1>3. CASE ResetChannels \/ TuneAgain
  <2>1. PlayMidiEvent(Tuning(temperament, prefs.lowpitch))
    BY <1>3 DEF ResetChannels, TuneAgain, SetTuning
  <2>2. queue' \in Seq(Messages)
    BY <2>1, TuningIsMessage, SendTypes
  <2>3. CASE ResetChannels
    BY <2>2, <2>3 DEF ResetChannels
  <2>4. CASE TuneAgain
    BY <2>2, <2>4 DEF TuneAgain
  <2> QED
    BY <1>3, <2>3, <2>4
<1> QED
  BY <1>1, <1>2, <1>3 DEF Starting

LEMMA KeyTypes == TypeOK /\ (KeyPressed \/ KeyReleased \/ OtherEvent) => TypeOK'
<1> SUFFICES ASSUME TypeOK, KeyPressed \/ KeyReleased \/ OtherEvent PROVE TypeOK'
  OBVIOUS
<1> USE DEF TypeOK, clock, synth, player, choice
<1>0. MaxEvents \in Nat
  BY PlayPathAssumption
<1>1. CASE KeyPressed
  <2> PICK k \in Keys, v \in Velocities :
        /\ KeyEvent(k, NoteOn(channel, k, Adjusted(v, 100 - prefs.compression)))
        /\ held' = [held EXCEPT ![k] = v]
        /\ age' = IF prefs.damping /\ k \in TimedKeys THEN [age EXCEPT ![k] = 0] ELSE age
    BY <1>1 DEF KeyPressed
  <2>1. prefs.compression \in Compressions
    OBVIOUS
  <2>2. Adjusted(v, 100 - prefs.compression) \in 0 .. 255 /\ v \in 0 .. 127
    BY <2>1, VelocityTypes
  <2>3. NoteOn(channel, k, Adjusted(v, 100 - prefs.compression)) \in Messages
    BY <2>2, NoteIsMessage
  <2>4. queue' \in Seq(Messages) /\ lost' \subseteq Keys
    BY <2>3, SendTypes DEF KeyEvent
  <2>5. held' \in [Keys -> 0 .. 127]
    BY <2>2
  <2>6. 0 \in Ages
    BY DEF Ages, LongAgo
  <2>7. age' \in [Keys -> Ages]
    BY <2>6
  <2>8. /\ pc' = pc /\ choice' = choice /\ stepped' = stepped /\ synth' = synth
        /\ changes' = changes /\ events < MaxEvents /\ events' = events + 1
    BY <1>1 DEF KeyPressed
  <2>9. events' \in 0 .. MaxEvents
    BY <1>0, <2>8, OneMore
  <2> QED
    BY <2>4, <2>5, <2>7, <2>8, <2>9
<1>2. CASE KeyReleased
  <2> PICK k \in Keys :
        /\ \/ prefs.damping
              /\ \E a \in HeldFor(k) : \E b \in RingsAt(a) : KeyEvent(k, NoteOn(0, k, b))
           \/ ~prefs.damping /\ KeyEvent(k, NoteOff(channel, k))
        /\ held' = [held EXCEPT ![k] = 0]
    BY <1>2 DEF KeyReleased
  <2>1. HeldFor(k) \subseteq Ages
    BY DEF HeldFor
  <2>2. \E m \in Messages : KeyEvent(k, m)
    <3>1. CASE prefs.damping
      <4>1. PICK a \in HeldFor(k) : \E b \in RingsAt(a) : KeyEvent(k, NoteOn(0, k, b))
        BY <3>1
      <4>2. PICK b \in RingsAt(a) : KeyEvent(k, NoteOn(0, k, b))
        BY <4>1
      <4>3. b \in 0 .. 255 /\ 0 \in Channels
        <5>1. RingsAt(a) \subseteq 0 .. 255
          BY <2>1, FadeTypes
        <5> QED
          BY <5>1, OddTypes
      <4> QED
        BY <4>2, <4>3, NoteIsMessage
    <3>2. CASE ~prefs.damping
      BY <3>2, NoteIsMessage
    <3> QED
      BY <3>1, <3>2
  <2>3. queue' \in Seq(Messages) /\ lost' \subseteq Keys
    BY <2>2, SendTypes DEF KeyEvent
  <2>4. held' \in [Keys -> 0 .. 127]
    OBVIOUS
  <2> QED
    BY <1>0, <1>2, <2>3, <2>4, OneMore DEF KeyReleased
<1>3. CASE OtherEvent
  <2>1. queue' \in Seq(Messages)
    BY <1>3, SendTypes DEF OtherEvent, Messages
  <2> QED
    BY <1>0, <1>3, <2>1, OneMore DEF OtherEvent
<1> QED
  BY <1>1, <1>2, <1>3

LEMMA SoundTypes ==
  ASSUME sounding \in [Channels -> [SynthKeys -> 0 .. 127]],
         NEW c \in Channels, NEW k, NEW v \in 0 .. 127, Sound(c, k, v)
  PROVE  sounding' \in [Channels -> [SynthKeys -> 0 .. 127]]
BY DEF Sound

LEMMA FeedTypes == TypeOK /\ FeedMidi => TypeOK'
<1> SUFFICES ASSUME TypeOK, FeedMidi PROVE TypeOK'
  OBVIOUS
<1> USE DEF TypeOK
<1>1. Head(queue) \in Messages /\ queue' \in Seq(Messages)
  BY DEF FeedMidi
<1> DEFINE m == Head(queue)
<1>2. CASE m.type = "on"
  <2>1. FeedOn(m) /\ tuning' = tuning
    BY <1>1, <1>2 DEF FeedMidi
  <2>0. m \in Notes
    BY <1>1, <1>2, Kinds
  <2> HIDE DEF m
  <2>2. m.channel \in Channels /\ (IF m.velocity > 127 THEN 127 ELSE m.velocity) \in 0 .. 127
    <3>1. m.channel \in Channels /\ m.velocity \in 0 .. 255
      BY <2>0 DEF Notes
    <3>2. (IF m.velocity > 127 THEN 127 ELSE m.velocity) \in 0 .. 127
      <4> HIDE DEF TypeOK
      <4> QED
        BY <3>1, Limited
    <3> QED
      BY <3>1, <3>2
  <2>3. sounding' \in [Channels -> [SynthKeys -> 0 .. 127]]
    BY <2>1, <2>2, SoundTypes DEF FeedOn
  <2> QED
    BY <1>1, <2>1, <2>3 DEF FeedMidi, clock, player, choice
<1>3. CASE m.type = "off"
  <2>1. FeedOff(m) /\ tuning' = tuning
    BY <1>1, <1>3 DEF FeedMidi
  <2>2. m.channel \in Channels
    BY <1>1, <1>3, Kinds DEF NotesOff
  <2>3. sounding' \in [Channels -> [SynthKeys -> 0 .. 127]]
    <3> HIDE DEF TypeOK
    <3>1. Sound(m.channel, m.key - Low(prefs), 0)
      BY <2>1 DEF FeedOff
    <3>2. 0 \in 0 .. 127 /\ sounding \in [Channels -> [SynthKeys -> 0 .. 127]]
      BY DEF TypeOK
    <3> QED
      BY <2>2, <3>1, <3>2, SoundTypes
  <2> QED
    BY <1>1, <2>1, <2>3 DEF FeedMidi, clock, player, choice
<1>4. CASE m.type = "tuning"
  <2>1. tuning' = [of |-> m.of, at |-> m.at] /\ sounding' = sounding
    BY <1>1, <1>4 DEF FeedMidi
  <2>2. m \in Tones
    BY <1>1, <1>4, Kinds
  <2>3. tuning' \in [of: Temperaments \cup {"equal"}, at: [0 .. 11 -> 0 .. 11]]
    BY <2>1, <2>2 DEF Tones
  <2> QED
    BY <1>1, <2>1, <2>3 DEF FeedMidi, clock, player, choice
<1>5. CASE m.type = "ignored"
  BY <1>1, <1>5 DEF FeedMidi, clock, player, choice, synth
<1> QED
  BY <1>1, <1>2, <1>3, <1>4, <1>5, Kinds

LEMMA ClockTypes == TypeOK /\ (Beat \/ SetBack) => TypeOK'
<1> SUFFICES ASSUME TypeOK, Beat \/ SetBack PROVE TypeOK'
  OBVIOUS
<1>1. age \in [Keys -> Ages]
  BY DEF TypeOK
<1>2. CASE Beat
  <2>1. age' \in [Keys -> Ages]
    BY <1>1, <1>2, AgeTypes DEF Beat
  <2> QED
    BY <1>2, <2>1 DEF Beat, TypeOK, synth, player, choice
<1>3. CASE SetBack
  <2>1. age' \in [Keys -> Ages]
    BY <1>1, <1>3, AgeTypes DEF SetBack
  <2> QED
    BY <1>3, <2>1 DEF SetBack, TypeOK, synth, player, choice
<1> QED
  BY <1>2, <1>3

LEMMA TypesNext == TypeOK /\ [Next]_vars => TypeOK'
<1> SUFFICES ASSUME TypeOK, [Next]_vars PROVE TypeOK'
  OBVIOUS
<1>1. CASE UNCHANGED vars
  BY <1>1 DEF TypeOK, vars, choice, clock, synth, player
<1> QED
  BY <1>1, StartingTypes, KeyTypes, FeedTypes, ClockTypes DEF Next, Playing

(* Types; the synthesizer only gets velocities from 0 to 127. *)
THEOREM TypeCorrect == Spec => []TypeOK
BY TypesInit, TypesNext, PTL DEF Spec

-------------------------------------------------------------------------------
(* The tuning, if the queue has room for the messages of the start *)

Enough == (MaxChanges + 2) * TUNING_BYTES <= Capacity
Chosen == Tuning(temperament, prefs.lowpitch)
LastTuning(q, i) ==
  /\ i \in 1 .. Len(q) /\ q[i].type = "tuning"
  /\ \A j \in 1 .. Len(q) : j > i => q[j].type # "tuning"

(* Until the stream is open the queue has nothing but the messages of the  *)
(* start, one for every change and one for the reset.                      *)
FewAtStart ==
  /\ pc \in {"dialog", "reset"} => Len(queue) <= changes
  /\ pc = "tune" => Len(queue) <= MaxChanges + 1

(* What is to come last is what was chosen. *)
LastIsChosen ==
  pc = "playing" =>
    /\ \A i \in 1 .. Len(queue) : LastTuning(queue, i) => queue[i] = Chosen
    /\ Tunings = {} => tuning = [of |-> Chosen.of, at |-> Chosen.at]

IInv == TypeOK /\ FewAtStart /\ LastIsChosen

LEMMA RoomForOne ==
  ASSUME Enough, TypeOK, Len(queue) <= MaxChanges + 1
  PROVE  Fits(Chosen)
<1>1. Len(queue) \in Nat /\ Tunings \subseteq 1 .. Len(queue)
  BY DEF TypeOK, Tunings
<1>2. IsFiniteSet(1 .. Len(queue)) /\ Cardinality(1 .. Len(queue)) = Len(queue)
  <2>1. 1 \in Int /\ Len(queue) \in Int
    BY <1>1
  <2>2. IsFiniteSet(1 .. Len(queue))
    BY <2>1, FS_Interval
  <2>3. Cardinality(1 .. Len(queue)) = (IF 1 > Len(queue) THEN 0 ELSE Len(queue) - 1 + 1)
    BY <2>1, FS_Interval
  <2> QED
    BY <1>1, <2>2, <2>3
<1>3. Cardinality(Tunings) \in Nat /\ Cardinality(Tunings) <= Len(queue)
  BY <1>1, <1>2, FS_Subset, FS_CardinalityType
<1>4. Bytes(Chosen) = 21
  BY DEF Bytes, Chosen, Tuning, TUNING_BYTES
<1>5. MaxChanges \in Nat /\ Capacity \in Nat
  BY PlayPathAssumption
<1> QED
  BY <1>1, <1>3, <1>4, <1>5 DEF Fits, Used, Enough, TUNING_BYTES, NOTE_BYTES

LEMMA InitTuned == Init => IInv
<1> SUFFICES ASSUME Init PROVE IInv
  OBVIOUS
<1>1. Len(queue) = 0 /\ changes = 0 /\ pc # "tune" /\ pc # "playing"
  BY DEF Init
<1>2. TypeOK
  BY TypesInit
<1> QED
  BY <1>1, <1>2 DEF IInv, FewAtStart, LastIsChosen

(* Appending a message: the last tuning message is the new one, or the old. *)
LEMMA LastOfAppend ==
  ASSUME NEW q \in Seq(Messages), NEW m \in Messages,
         NEW i \in 1 .. Len(Append(q, m)), LastTuning(Append(q, m), i)
  PROVE  IF m.type = "tuning" THEN Append(q, m)[i] = m
                              ELSE LastTuning(q, i) /\ Append(q, m)[i] = q[i]
<1> DEFINE r == Append(q, m)
<1>1. /\ Len(q) \in Nat /\ Len(r) = Len(q) + 1
      /\ r[Len(q) + 1] = m /\ \A j \in 1 .. Len(q) : r[j] = q[j]
  OBVIOUS
<1> HIDE DEF r
<1>2. /\ i \in 1 .. Len(r) /\ r[i].type = "tuning"
      /\ \A j \in 1 .. Len(r) : j > i => r[j].type # "tuning"
  BY DEF LastTuning, r
<1>3. CASE m.type = "tuning"
  <2>1. i = Len(q) + 1
    BY <1>1, <1>2, <1>3
  <2> QED
    BY <1>1, <1>3, <2>1 DEF r
<1>4. CASE m.type # "tuning"
  <2>1. i \in 1 .. Len(q)
    BY <1>1, <1>2, <1>4
  <2>2. r[i] = q[i] /\ q[i].type = "tuning"
    BY <1>1, <1>2, <2>1
  <2>3. \A j \in 1 .. Len(q) : j > i => q[j].type # "tuning"
    BY <1>1, <1>2
  <2> QED
    BY <1>4, <2>1, <2>2, <2>3 DEF LastTuning, r
<1> QED
  BY <1>3, <1>4

(* Reading a message: the last tuning message of the rest was the last. *)
LEMMA LastOfTail ==
  ASSUME NEW q \in Seq(Messages), q # <<>>,
         NEW i \in 1 .. Len(Tail(q)), LastTuning(Tail(q), i)
  PROVE  i + 1 \in 1 .. Len(q) /\ LastTuning(q, i + 1) /\ Tail(q)[i] = q[i + 1]
<1> DEFINE r == Tail(q)
<1>1. /\ Len(q) \in Nat /\ Len(q) = Len(r) + 1 /\ Len(r) \in Nat
      /\ \A j \in 1 .. Len(r) : r[j] = q[j + 1]
  OBVIOUS
<1> HIDE DEF r
<1>2. /\ i \in 1 .. Len(r) /\ r[i].type = "tuning"
      /\ \A j \in 1 .. Len(r) : j > i => r[j].type # "tuning"
  BY DEF LastTuning, r
<1>3. i + 1 \in 1 .. Len(q) /\ q[i + 1].type = "tuning" /\ r[i] = q[i + 1]
  BY <1>1, <1>2
<1>4. ASSUME NEW j \in 1 .. Len(q), j > i + 1 PROVE q[j].type # "tuning"
  <2>1. j - 1 \in 1 .. Len(r) /\ j - 1 > i /\ (j - 1) + 1 = j
    BY <1>1, <1>2, <1>4
  <2>2. r[j - 1] = q[j]
    BY <1>1, <2>1
  <2> QED
    BY <1>2, <2>1, <2>2
<1> QED
  BY <1>3, <1>4 DEF LastTuning, r

LEMMA StartTuned ==
  ASSUME Enough, IInv, Starting
  PROVE  FewAtStart' /\ LastIsChosen'
<1>1. Len(queue) \in Nat /\ changes \in 0 .. MaxChanges /\ MaxChanges \in Nat
  BY PlayPathAssumption DEF IInv, TypeOK
<1>2. ASSUME NEW m, PlayMidiEvent(m) PROVE Len(queue') \in Nat /\ Len(queue') <= Len(queue) + 1
  BY <1>2 DEF PlayMidiEvent, IInv, TypeOK
<1>3. CASE TemperamentChanged
  <2>1. Len(queue') <= changes' /\ pc' = "dialog"
    BY <1>1, <1>2, <1>3 DEF TemperamentChanged, SetTuning, IInv, FewAtStart
  <2> QED
    BY <2>1 DEF FewAtStart, LastIsChosen
<1>4. CASE Accept
  BY <1>4 DEF Accept, IInv, FewAtStart, LastIsChosen
<1>5. CASE ResetChannels
  <2>1. Len(queue') <= MaxChanges + 1 /\ pc' = "tune"
    BY <1>1, <1>2, <1>5 DEF ResetChannels, SetTuning, IInv, FewAtStart
  <2> QED
    BY <2>1 DEF FewAtStart, LastIsChosen
<1>6. CASE TuneAgain
  <2>1. Len(queue) <= MaxChanges + 1
    BY <1>6 DEF TuneAgain, IInv, FewAtStart
  <2>2. queue' = Append(queue, Chosen) /\ pc' = "playing" /\ Chosen' = Chosen
    BY <1>6, <2>1, RoomForOne DEF TuneAgain, SetTuning, PlayMidiEvent, IInv, Chosen, choice
  <2>3. Chosen \in Messages /\ Chosen.type = "tuning" /\ queue \in Seq(Messages)
    BY TuningIsMessage DEF Chosen, Tuning, IInv, TypeOK
  <2>4. ASSUME NEW i \in 1 .. Len(queue'), LastTuning(queue', i) PROVE queue'[i] = Chosen
    BY <2>2, <2>3, <2>4, LastOfAppend
  <2>5. Len(queue) + 1 \in DOMAIN queue' /\ queue'[Len(queue) + 1].type = "tuning"
    BY <2>2, <2>3
  <2>6. Tunings' # {}
    BY <2>5 DEF Tunings
  <2> QED
    BY <2>2, <2>4, <2>6 DEF FewAtStart, LastIsChosen
<1> QED
  BY <1>3, <1>4, <1>5, <1>6 DEF Starting

(* A message of the keyboard changes nothing about the tuning. *)
LEMMA NoteKeepsTuning ==
  ASSUME IInv, pc = "playing", NEW m \in Messages, m.type # "tuning", PlayMidiEvent(m),
         UNCHANGED <<pc, choice, tuning>>
  PROVE  LastIsChosen'
<1>1. queue \in Seq(Messages) /\ Chosen' = Chosen
  BY DEF IInv, TypeOK, choice, Chosen
<1>2. CASE queue' = queue
  BY <1>1, <1>2 DEF IInv, LastIsChosen, LastTuning, Tunings
<1>3. CASE queue' = Append(queue, m)
  <2>1. ASSUME NEW i \in 1 .. Len(queue'), LastTuning(queue', i) PROVE queue'[i] = Chosen
    <3>1. LastTuning(queue, i) /\ queue'[i] = queue[i]
      BY <1>1, <1>3, <2>1, LastOfAppend
    <3> QED
      BY <3>1 DEF IInv, LastIsChosen, LastTuning
  <2>2. \A i \in DOMAIN queue : i \in DOMAIN queue' /\ queue'[i] = queue[i]
    BY <1>1, <1>3
  <2>3. Tunings' = {} => Tunings = {}
    BY <2>2 DEF Tunings
  <2> QED
    BY <1>1, <2>1, <2>3 DEF IInv, LastIsChosen
<1> QED
  BY <1>2, <1>3 DEF PlayMidiEvent

LEMMA PlayTuned ==
  ASSUME IInv, KeyPressed \/ KeyReleased \/ OtherEvent
  PROVE  FewAtStart' /\ LastIsChosen'
<1>1. pc = "playing" /\ UNCHANGED <<pc, choice, tuning>>
  BY DEF KeyPressed, KeyReleased, OtherEvent, synth
<1>2. \E m \in Messages : m.type # "tuning" /\ PlayMidiEvent(m)
  <2>1. CASE KeyPressed
    <3>1. PICK k \in Keys, v \in Velocities :
            PlayMidiEvent(NoteOn(channel, k, Adjusted(v, 100 - prefs.compression)))
      BY <2>1 DEF KeyPressed, KeyEvent
    <3>2. NoteOn(channel, k, Adjusted(v, 100 - prefs.compression)) \in Messages
      <4>1. prefs.compression \in Compressions /\ channel \in Channels
        BY DEF IInv, TypeOK
      <4>2. Adjusted(v, 100 - prefs.compression) \in 0 .. 255
        BY <4>1, VelocityTypes
      <4> QED
        BY <4>1, <4>2, NoteIsMessage
    <3> QED
      BY <3>1, <3>2 DEF NoteOn
  <2>2. CASE KeyReleased
    <3>1. PICK k \in Keys :
            \/ \E a \in HeldFor(k) : \E b \in RingsAt(a) : PlayMidiEvent(NoteOn(0, k, b))
            \/ PlayMidiEvent(NoteOff(channel, k))
      BY <2>2 DEF KeyReleased, KeyEvent
    <3>2. CASE PlayMidiEvent(NoteOff(channel, k))
      <4>1. channel \in Channels /\ 0 \in 0 .. 255
        BY DEF IInv, TypeOK
      <4>2. NoteOff(channel, k) \in Messages
        BY <4>1, NoteIsMessage
      <4> QED
        BY <3>2, <4>2 DEF NoteOff
    <3>3. CASE \E a \in HeldFor(k) : \E b \in RingsAt(a) : PlayMidiEvent(NoteOn(0, k, b))
      <4>1. PICK a \in HeldFor(k) : \E b \in RingsAt(a) : PlayMidiEvent(NoteOn(0, k, b))
        BY <3>3
      <4>2. PICK b \in RingsAt(a) : PlayMidiEvent(NoteOn(0, k, b))
        BY <4>1
      <4>3. a \in Ages
        BY DEF HeldFor, IInv, TypeOK
      <4>4. RingsAt(a) \subseteq 0 .. 255
        BY <4>3, FadeTypes
      <4>5. NoteOn(0, k, b) \in Messages
        BY <4>4, OddTypes, NoteIsMessage
      <4> QED
        BY <4>2, <4>5 DEF NoteOn
    <3> QED
      BY <3>1, <3>2, <3>3
  <2>3. CASE OtherEvent
    BY <2>3 DEF OtherEvent, Ignored, Messages
  <2> QED
    BY <2>1, <2>2, <2>3
<1>3. LastIsChosen'
  BY <1>1, <1>2, NoteKeepsTuning
<1> QED
  BY <1>1, <1>3 DEF FewAtStart

LEMMA FeedTuned ==
  ASSUME IInv, FeedMidi
  PROVE  FewAtStart' /\ LastIsChosen'
<1>1. /\ queue \in Seq(Messages) /\ queue # <<>> /\ queue' = Tail(queue)
      /\ pc = "playing" /\ pc' = "playing" /\ Chosen' = Chosen
  BY DEF FeedMidi, IInv, TypeOK, choice, Chosen
<1>2. ASSUME NEW i \in 1 .. Len(queue'), LastTuning(queue', i) PROVE queue'[i] = Chosen
  <2>1. i + 1 \in 1 .. Len(queue) /\ LastTuning(queue, i + 1) /\ queue'[i] = queue[i + 1]
    BY <1>1, <1>2, LastOfTail
  <2> QED
    BY <1>1, <2>1 DEF IInv, LastIsChosen
<1>3. ASSUME Tunings' = {} PROVE tuning' = [of |-> Chosen.of, at |-> Chosen.at]
  <2>1. \A j \in 1 .. Len(queue) : j > 1 => queue[j].type # "tuning"
    <3> SUFFICES ASSUME NEW j \in 1 .. Len(queue), j > 1 PROVE queue[j].type # "tuning"
      OBVIOUS
    <3>1. j - 1 \in DOMAIN queue' /\ queue'[j - 1] = queue[j]
      BY <1>1
    <3> QED
      BY <1>3, <3>1 DEF Tunings
  <2>2. Head(queue) = queue[1] /\ 1 \in 1 .. Len(queue) /\ Head(queue) \in Messages
    BY <1>1
  <2>3. CASE Head(queue).type = "tuning"
    <3>1. LastTuning(queue, 1)
      BY <2>1, <2>2, <2>3 DEF LastTuning
    <3>2. Head(queue) = Chosen
      BY <1>1, <2>2, <3>1 DEF IInv, LastIsChosen
    <3>3. tuning' = [of |-> Head(queue).of, at |-> Head(queue).at]
      BY <2>3 DEF FeedMidi
    <3> QED
      BY <3>2, <3>3
  <2>4. CASE Head(queue).type # "tuning"
    <3>1. DOMAIN queue = 1 .. Len(queue)
      BY <1>1
    <3>2. \A j \in DOMAIN queue : j = 1 \/ j > 1
      BY <1>1, <3>1
    <3>3. Tunings = {}
      BY <2>1, <2>2, <2>4, <3>1, <3>2 DEF Tunings
    <3>4. tuning' = tuning
      BY <2>4 DEF FeedMidi, synth
    <3> QED
      BY <1>1, <3>3, <3>4 DEF IInv, LastIsChosen
  <2> QED
    BY <2>3, <2>4
<1> QED
  BY <1>1, <1>2, <1>3 DEF FewAtStart, LastIsChosen

LEMMA NextTuned == ASSUME Enough PROVE IInv /\ [Next]_vars => IInv'
<1> SUFFICES ASSUME IInv, [Next]_vars PROVE IInv'
  OBVIOUS
<1>1. TypeOK'
  BY TypesNext DEF IInv
<1>2. ASSUME UNCHANGED <<pc, choice, queue, tuning, changes>> PROVE FewAtStart' /\ LastIsChosen'
  BY <1>2 DEF IInv, FewAtStart, LastIsChosen, LastTuning, Tunings, Chosen, choice
<1>3. CASE Beat
  BY <1>1, <1>2, <1>3 DEF Beat, synth, IInv
<1>4. CASE SetBack
  BY <1>1, <1>2, <1>4 DEF SetBack, synth, IInv
<1>5. CASE UNCHANGED vars
  BY <1>1, <1>2, <1>5 DEF vars, synth, IInv
<1> QED
  BY <1>1, <1>3, <1>4, <1>5, StartTuned, PlayTuned, FeedTuned DEF Next, Playing, IInv

LEMMA ChosenIsInTune ==
  ASSUME TypeOK, tuning = [of |-> Chosen.of, at |-> Chosen.at]
  PROVE  InTune
<1>1. tuning.of = temperament /\ tuning.at = Offsets(prefs.lowpitch)
  BY DEF Chosen, Tuning
<1>2. prefs.lowpitch \in BOOLEAN /\ Low(prefs) \in {0, 1}
      /\ Low(prefs) = (IF prefs.lowpitch THEN 1 ELSE 0)
  BY DEF TypeOK, Low
<1>3. ASSUME NEW k \in Keys, k >= Low(prefs) PROVE tuning.at[(k - Low(prefs)) % 12] = k % 12
  <2>1. k \in 0 .. 127
    BY PlayPathAssumption
  <2> QED
    BY <1>1, <1>2, <1>3, <2>1, KeyKeepsItsOffset
<1> QED
  BY <1>1, <1>3 DEF InTune

(* With room for the tuning messages of the start, the synthesizer plays   *)
(* what the player chose last: every key by the offset of its own name.    *)
THEOREM PlaysTheChoice ==
  ASSUME (MaxChanges + 2) * TUNING_BYTES <= Capacity
  PROVE  Spec => []TunedAsChosen
<1>1. Enough
  BY DEF Enough
<1>2. IInv => TunedAsChosen
  BY ChosenIsInTune DEF IInv, LastIsChosen, TunedAsChosen
<1>3. IInv /\ [Next]_vars => IInv'
  BY <1>1, NextTuned
<1> QED
  BY <1>2, <1>3, InitTuned, PTL DEF Spec

-------------------------------------------------------------------------------
(* The notes: what the player did last with a key is the last message for  *)
(* it in the queue, or, with none there, how it sounds.                    *)

NoteOf(m, k) == m.type \in {"on", "off"} /\ m.key = k
Silent(q, k) == \A i \in 1 .. Len(q) : ~NoteOf(q[i], k)
LastNote(q, k, i) ==
  /\ i \in 1 .. Len(q) /\ NoteOf(q[i], k)
  /\ \A j \in 1 .. Len(q) : j > i => ~NoteOf(q[j], k)

(* The velocity with which fluidsynth_feed_midi plays a message. *)
Limit(v) == IF v > 127 THEN 127 ELSE v
Loud(m) == IF m.type = "on" THEN Limit(m.velocity) ELSE 0

(* v is what the player can expect to hear of key k. *)
Faded(k, v) ==
  \/ ~prefs.damping /\ v = 0
  \/ prefs.damping /\ (v <= 60 \/ stepped \/ k \notin TimedKeys)
Right(k, v) == (held[k] > 0 => v >= held[k]) /\ (held[k] = 0 => Faded(k, v))

Heeded(k) == k \notin lost /\ k - Low(prefs) \in SynthKeys /\ (prefs.damping => channel = 0)
KeyInv(k) ==
  /\ \A i \in 1 .. Len(queue) : LastNote(queue, k, i) =>
       queue[i].channel = channel /\ Right(k, Loud(queue[i]))
  /\ Silent(queue, k) => Right(k, Heard(k))

(* Before the stream is open nobody has played. *)
Quiet ==
  /\ \A i \in 1 .. Len(queue) : queue[i].type = "tuning"
  /\ \A k \in Keys : held[k] = 0
  /\ \A c \in Channels, n \in SynthKeys : sounding[c][n] = 0
NothingYet == pc # "playing" => Quiet

InTime == stepped \/ \A k \in Keys : age[k] >= 0

NoteInv == TypeOK /\ NothingYet /\ InTime /\ \A k \in Keys : Heeded(k) => KeyInv(k)

(* Appending a message: the last note of a key is the new one, or the old. *)
LEMMA LastNoteOfAppend ==
  ASSUME NEW q \in Seq(Messages), NEW m \in Messages, NEW k
  PROVE  /\ \A i \in 1 .. Len(Append(q, m)) : LastNote(Append(q, m), k, i) =>
              IF NoteOf(m, k) THEN Append(q, m)[i] = m
                              ELSE LastNote(q, k, i) /\ Append(q, m)[i] = q[i]
         /\ Silent(Append(q, m), k) => Silent(q, k) /\ ~NoteOf(m, k)
<1> DEFINE r == Append(q, m)
<1>1. /\ Len(q) \in Nat /\ Len(r) = Len(q) + 1
      /\ r[Len(q) + 1] = m /\ \A j \in 1 .. Len(q) : r[j] = q[j]
  OBVIOUS
<1> HIDE DEF r
<1>2. ASSUME NEW i \in 1 .. Len(r), LastNote(r, k, i)
      PROVE  IF NoteOf(m, k) THEN r[i] = m ELSE LastNote(q, k, i) /\ r[i] = q[i]
  <2>1. /\ NoteOf(r[i], k)
        /\ \A j \in 1 .. Len(r) : j > i => ~NoteOf(r[j], k)
    BY <1>2 DEF LastNote
  <2>2. CASE NoteOf(m, k)
    <3>1. i = Len(q) + 1
      BY <1>1, <2>1, <2>2
    <3> QED
      BY <1>1, <2>2, <3>1
  <2>3. CASE ~NoteOf(m, k)
    <3>1. i \in 1 .. Len(q)
      BY <1>1, <2>1, <2>3
    <3>2. r[i] = q[i] /\ \A j \in 1 .. Len(q) : j > i => ~NoteOf(q[j], k)
      BY <1>1, <2>1, <3>1
    <3> QED
      BY <2>1, <2>3, <3>1, <3>2 DEF LastNote
  <2> QED
    BY <2>2, <2>3
<1>3. ASSUME Silent(r, k) PROVE Silent(q, k) /\ ~NoteOf(m, k)
  <2>1. \A j \in 1 .. Len(r) : ~NoteOf(r[j], k)
    BY <1>3 DEF Silent
  <2>2. \A j \in 1 .. Len(q) : ~NoteOf(q[j], k)
    BY <1>1, <2>1
  <2>3. ~NoteOf(m, k)
    BY <1>1, <2>1
  <2> QED
    BY <2>2, <2>3 DEF Silent
<1> QED
  BY <1>2, <1>3 DEF r

(* Reading a message: the last note of the rest was the last, and if there  *)
(* is none the message was the last, or there was none before.             *)
LEMMA LastNoteOfTail ==
  ASSUME NEW q \in Seq(Messages), q # <<>>, NEW k
  PROVE  /\ \A i \in 1 .. Len(Tail(q)) : LastNote(Tail(q), k, i) =>
              i + 1 \in 1 .. Len(q) /\ LastNote(q, k, i + 1) /\ Tail(q)[i] = q[i + 1]
         /\ Silent(Tail(q), k) =>
              IF NoteOf(Head(q), k) THEN LastNote(q, k, 1) ELSE Silent(q, k)
<1> DEFINE r == Tail(q)
<1>1. /\ Len(q) \in Nat /\ Len(q) = Len(r) + 1 /\ Len(r) \in Nat
      /\ \A j \in 1 .. Len(r) : r[j] = q[j + 1]
      /\ Head(q) = q[1]
  OBVIOUS
<1> HIDE DEF r
<1>2. \A j \in 1 .. Len(q) : j > 1 => j - 1 \in 1 .. Len(r) /\ q[j] = r[j - 1]
  BY <1>1
<1>3. ASSUME NEW i \in 1 .. Len(r), LastNote(r, k, i)
      PROVE  i + 1 \in 1 .. Len(q) /\ LastNote(q, k, i + 1) /\ r[i] = q[i + 1]
  <2>1. NoteOf(r[i], k) /\ \A j \in 1 .. Len(r) : j > i => ~NoteOf(r[j], k)
    BY <1>3 DEF LastNote
  <2>2. i + 1 \in 1 .. Len(q) /\ r[i] = q[i + 1]
    BY <1>1
  <2>3. ASSUME NEW j \in 1 .. Len(q), j > i + 1 PROVE ~NoteOf(q[j], k)
    <3>1. j - 1 \in 1 .. Len(r) /\ q[j] = r[j - 1] /\ j - 1 > i
      BY <1>1, <1>2, <2>3
    <3> QED
      BY <2>1, <3>1
  <2> QED
    BY <2>1, <2>2, <2>3 DEF LastNote
<1>4. ASSUME Silent(r, k)
      PROVE  IF NoteOf(Head(q), k) THEN LastNote(q, k, 1) ELSE Silent(q, k)
  <2>1. \A j \in 1 .. Len(q) : j > 1 => ~NoteOf(q[j], k)
    BY <1>2, <1>4 DEF Silent
  <2>2. 1 \in 1 .. Len(q) /\ \A j \in 1 .. Len(q) : j = 1 \/ j > 1
    BY <1>1
  <2> QED
    BY <1>1, <2>1, <2>2 DEF LastNote, Silent
<1> QED
  BY <1>3, <1>4 DEF r

(* While nobody has played, no key sounds and none is held. *)
LEMMA QuietKeys == TypeOK /\ Quiet => \A k \in Keys : Heeded(k) => KeyInv(k)
<1> SUFFICES ASSUME TypeOK, Quiet, NEW k \in Keys, Heeded(k) PROVE KeyInv(k)
  OBVIOUS
<1>1. channel \in Channels /\ prefs.damping \in BOOLEAN
  BY DEF TypeOK
<1>2. Heard(k) = 0
  BY <1>1 DEF Quiet, Heard, Heeded
<1>3. Right(k, Heard(k))
  BY <1>1, <1>2 DEF Quiet, Right, Faded
<1>4. \A i \in 1 .. Len(queue) : ~NoteOf(queue[i], k)
  BY DEF Quiet, NoteOf
<1> QED
  BY <1>3, <1>4 DEF KeyInv, LastNote

LEMMA InitNotes == Init => NoteInv
<1> SUFFICES ASSUME Init PROVE NoteInv
  OBVIOUS
<1>1. Len(queue) = 0
  BY DEF Init
<1>2. Quiet
  BY <1>1 DEF Init, Quiet
<1>3. InTime
  BY DEF Init, InTime, LongAgo
<1> QED
  BY <1>2, <1>3, TypesInit, QuietKeys DEF NoteInv, NothingYet

(* The messages of the start are tunings. *)
LEMMA StartNotes == NoteInv /\ TypeOK' /\ Starting => NoteInv'
<1> SUFFICES ASSUME NoteInv, TypeOK', Starting PROVE NoteInv'
  OBVIOUS
<1>1. pc # "playing" /\ UNCHANGED <<held, sounding, stepped, age>>
  BY DEF Starting, TemperamentChanged, Accept, ResetChannels, TuneAgain, clock, synth, player
<1>2. Quiet /\ queue \in Seq(Messages)
  BY <1>1 DEF NoteInv, NothingYet, TypeOK
<1>3. queue' = queue \/ \E t, low : queue' = Append(queue, Tuning(t, low))
  BY DEF Starting, TemperamentChanged, Accept, ResetChannels, TuneAgain, SetTuning, PlayMidiEvent
<1>4. \A i \in 1 .. Len(queue') : queue'[i].type = "tuning"
  <2>1. CASE queue' = queue
    BY <1>2, <2>1 DEF Quiet
  <2>2. ASSUME NEW t, NEW low, queue' = Append(queue, Tuning(t, low))
        PROVE  \A i \in 1 .. Len(queue') : queue'[i].type = "tuning"
    <3> DEFINE m == Tuning(t, low)
    <3>1. m.type = "tuning" /\ queue' = Append(queue, m)
      BY <2>2 DEF Tuning
    <3> HIDE DEF m
    <3> QED
      BY <1>2, <3>1 DEF Quiet
  <2> QED
    BY <1>3, <2>1, <2>2
<1>5. Quiet'
  BY <1>1, <1>2, <1>4 DEF Quiet
<1>6. TypeOK' /\ Quiet' => (\A k \in Keys : Heeded(k) => KeyInv(k))'
  BY QuietKeys, PTL
<1>7. InTime'
  BY <1>1 DEF NoteInv, InTime
<1> QED
  BY <1>5, <1>6, <1>7 DEF NoteInv, NothingYet

(* A message that says nothing of key k leaves what is to be heard of it. *)
LEMMA SentElse ==
  ASSUME TypeOK, NEW m \in Messages, NEW k \in Keys, PlayMidiEvent(m), ~NoteOf(m, k),
         UNCHANGED <<prefs, channel, stepped, sounding, held[k]>>, KeyInv(k)
  PROVE  KeyInv(k)'
<1>1. queue \in Seq(Messages)
  BY DEF TypeOK
<1>2. \A v : Right(k, v)' = Right(k, v)
  BY DEF Right, Faded
<1>3. Heard(k)' = Heard(k)
  BY DEF Heard
<1>4. /\ \A i \in 1 .. Len(queue') : LastNote(queue', k, i) =>
           i \in 1 .. Len(queue) /\ LastNote(queue, k, i) /\ queue'[i] = queue[i]
      /\ Silent(queue', k) => Silent(queue, k)
  <2>1. CASE queue' = queue
    BY <2>1
  <2>2. CASE queue' = Append(queue, m)
    BY <1>1, <2>2, LastNoteOfAppend DEF LastNote
  <2> QED
    BY <2>1, <2>2 DEF PlayMidiEvent
<1>5. ASSUME NEW i \in 1 .. Len(queue'), LastNote(queue', k, i)
      PROVE  queue'[i].channel = channel' /\ Right(k, Loud(queue[i]))'
  <2>1. i \in 1 .. Len(queue) /\ LastNote(queue, k, i) /\ queue'[i] = queue[i]
    BY <1>4, <1>5
  <2>2. queue[i].channel = channel /\ Right(k, Loud(queue[i]))
    BY <2>1 DEF KeyInv
  <2> QED
    BY <1>2, <2>1, <2>2 DEF Loud, Right, Faded
<1>6. ASSUME Silent(queue', k) PROVE Right(k, Heard(k))'
  BY <1>2, <1>3, <1>4, <1>6 DEF KeyInv, Right, Faded
<1> QED
  BY <1>5, <1>6 DEF KeyInv, Silent, LastNote

(* A message for key k that fits is what is to be heard of it. *)
LEMMA SentOwn ==
  ASSUME TypeOK, NEW m \in Messages, NEW k \in Keys, KeyEvent(k, m), NoteOf(m, k), Heeded(k)',
         m.channel = channel', Right(k, Loud(m))'
  PROVE  KeyInv(k)'
<1>1. queue \in Seq(Messages) /\ queue' = Append(queue, m)
  BY DEF TypeOK, KeyEvent, PlayMidiEvent, Heeded
<1>2. \A i \in 1 .. Len(queue') : LastNote(queue', k, i) => queue'[i] = m
  BY <1>1, LastNoteOfAppend
<1>3. ~Silent(queue', k)
  BY <1>1, LastNoteOfAppend
<1>4. ASSUME NEW i \in 1 .. Len(queue'), LastNote(queue', k, i)
      PROVE  queue'[i].channel = channel' /\ Right(k, Loud(queue[i]))'
  <2>1. queue'[i] = m
    BY <1>2, <1>4
  <2> QED
    BY <2>1 DEF Right, Faded, Loud
<1> QED
  BY <1>3, <1>4 DEF KeyInv, Silent, LastNote

(* An event of key k leaves the other keys as they were. *)
LEMMA OtherKeys ==
  ASSUME NoteInv, NEW m \in Messages, NEW k \in Keys, KeyEvent(k, m), m.key = k,
         UNCHANGED <<prefs, channel, stepped, sounding>>,
         NEW l \in Keys, l # k, held'[l] = held[l], Heeded(l)'
  PROVE  KeyInv(l)'
<1>1. Heeded(l) /\ ~NoteOf(m, l) /\ PlayMidiEvent(m)
  BY DEF Heeded, KeyEvent, NoteOf, Low
<1> QED
  BY <1>1, SentElse DEF NoteInv

LEMMA PressNotes == NoteInv /\ TypeOK' /\ KeyPressed => NoteInv'
<1> SUFFICES ASSUME NoteInv, TypeOK', KeyPressed PROVE NoteInv'
  OBVIOUS
<1> PICK k \in Keys, v \in Velocities :
      /\ KeyEvent(k, NoteOn(channel, k, Adjusted(v, 100 - prefs.compression)))
      /\ held' = [held EXCEPT ![k] = v]
      /\ age' = IF prefs.damping /\ k \in TimedKeys THEN [age EXCEPT ![k] = 0] ELSE age
  BY DEF KeyPressed
<1>1. /\ pc = "playing" /\ pc' = "playing"
      /\ UNCHANGED <<prefs, channel, stepped, sounding>>
  BY DEF KeyPressed, choice, synth
<1>2. /\ held \in [Keys -> 0 .. 127] /\ age \in [Keys -> Ages] /\ prefs.compression \in Compressions
      /\ channel \in Channels
  BY DEF NoteInv, TypeOK
<1>3. v \in 1 .. 127 /\ held'[k] = v /\ \A l \in Keys : l # k => held'[l] = held[l]
  <2>1. v \in 1 .. 127
    BY PlayPathAssumption
  <2> QED
    BY <1>2, <2>1
<1>4. \E w \in v .. 127 : KeyEvent(k, NoteOn(channel, k, w))
  <2>1. prefs.compression \in Compressions
    BY <1>2
  <2>2. Adjusted(v, 100 - prefs.compression) \in v .. 127
    BY <2>1, PressedBounds
  <2> QED
    BY <2>2
<1> PICK w \in v .. 127 : KeyEvent(k, NoteOn(channel, k, w))
  BY <1>4
<1>5. w \in 0 .. 255 /\ w \in 1 .. 127 /\ w >= v
  BY <1>3
<1>6. \E m \in Messages : /\ KeyEvent(k, m) /\ m.type = "on" /\ m.key = k
                          /\ m.channel = channel /\ m.velocity = w
  <2>1. NoteOn(channel, k, w) \in Messages
    BY <1>2, <1>5, NoteIsMessage
  <2> QED
    BY <2>1 DEF NoteOn
<1> PICK m \in Messages : /\ KeyEvent(k, m) /\ m.type = "on" /\ m.key = k
                          /\ m.channel = channel /\ m.velocity = w
  BY <1>6
<1>7. InTime'
  <2>1. ASSUME NEW l \in Keys, age[l] >= 0 PROVE age'[l] >= 0
    BY <1>2, <2>1
  <2> QED
    BY <1>1, <2>1 DEF NoteInv, InTime
<1>8. ASSUME Heeded(k)' PROVE KeyInv(k)'
  <2>1. Loud(m) = w
    BY <1>5, <1>6 DEF Loud, Limit
  <2>2. Right(k, Loud(m))'
    <3>1. held'[k] > 0 /\ held'[k] # 0 /\ Loud(m) >= held'[k]
      BY <1>3, <1>5, <2>1
    <3> QED
      BY <3>1 DEF Right
  <2>3. NoteOf(m, k)
    BY DEF NoteOf
  <2> QED
    BY <1>1, <1>8, <2>2, <2>3, SentOwn DEF NoteInv
<1>9. ASSUME NEW l \in Keys, l # k, Heeded(l)' PROVE KeyInv(l)'
  BY <1>1, <1>3, <1>9, OtherKeys
<1> QED
  BY <1>1, <1>7, <1>8, <1>9 DEF NoteInv, NothingYet

(* With damping, what add_after_touch plays at a release is 60 at most, or  *)
(* the key's time is in the future or unknown.                             *)
LEMMA FadeIsSoft ==
  ASSUME NEW a \in Ages, NEW b \in RingsAt(a), a >= 0
  PROVE  b \in 0 .. 60
<1>1. a + 1 \in 1 .. 4 /\ RingsAt(a) = {Fade[a + 1]}
  BY DEF Ages, LongAgo, RingsAt
<1>2. \A i \in 1 .. 4 : Fade[i] \in 0 .. 60
  BY DEF Fade
<1> QED
  BY <1>1, <1>2

LEMMA ReleaseNotes == NoteInv /\ TypeOK' /\ KeyReleased => NoteInv'
<1> SUFFICES ASSUME NoteInv, TypeOK', KeyReleased PROVE NoteInv'
  OBVIOUS
<1> PICK k \in Keys :
      /\ \/ prefs.damping
            /\ \E a \in HeldFor(k) : \E b \in RingsAt(a) : KeyEvent(k, NoteOn(0, k, b))
         \/ ~prefs.damping /\ KeyEvent(k, NoteOff(channel, k))
      /\ held' = [held EXCEPT ![k] = 0]
  BY DEF KeyReleased
<1>1. /\ pc = "playing" /\ pc' = "playing"
      /\ UNCHANGED <<prefs, channel, stepped, sounding, age>>
  BY DEF KeyReleased, choice, synth, clock
<1>2. /\ held \in [Keys -> 0 .. 127] /\ age \in [Keys -> Ages]
      /\ channel \in Channels /\ prefs.damping \in BOOLEAN
  BY DEF NoteInv, TypeOK
<1>3. held'[k] = 0 /\ \A l \in Keys : l # k => held'[l] = held[l]
  BY <1>2
<1>4. InTime'
  BY <1>1 DEF NoteInv, InTime
<1>5. \E m \in Messages :
        /\ KeyEvent(k, m) /\ m.key = k /\ m.type \in {"on", "off"}
        /\ (prefs.damping => channel = 0) => m.channel = channel
        /\ Faded(k, Loud(m))
  <2>1. CASE prefs.damping
    <3>1. PICK a \in HeldFor(k) : \E b \in RingsAt(a) : KeyEvent(k, NoteOn(0, k, b))
      BY <2>1
    <3>2. PICK b \in RingsAt(a) : KeyEvent(k, NoteOn(0, k, b))
      BY <3>1
    <3>3. a \in Ages /\ (k \in TimedKeys => a = age[k])
      BY <1>2 DEF HeldFor
    <3>4. b \in 0 .. 255 /\ 0 \in Channels
      <4>1. RingsAt(a) \subseteq 0 .. 255
        BY <3>3, FadeTypes
      <4> QED
        BY <4>1, OddTypes
    <3>5. b <= 60 \/ stepped \/ k \notin TimedKeys
      <4> SUFFICES ASSUME ~stepped, k \in TimedKeys PROVE b <= 60
        OBVIOUS
      <4>1. a >= 0
        BY <3>3 DEF NoteInv, InTime
      <4>2. b \in 0 .. 60
        BY <3>3, <4>1, FadeIsSoft
      <4> QED
        BY <4>2
    <3> DEFINE m == NoteOn(0, k, b)
    <3>6. m \in Messages /\ m.type = "on" /\ m.key = k /\ m.channel = 0 /\ m.velocity = b
      <4>1. m \in Messages
        BY <3>4, NoteIsMessage
      <4> QED
        BY <4>1 DEF NoteOn
    <3>7. KeyEvent(k, m)
      BY <3>2
    <3> HIDE DEF m
    <3>8. Loud(m) = Limit(b) /\ (b <= 60 => Limit(b) <= 60)
      BY <3>4, <3>6 DEF Loud, Limit
    <3>9. Faded(k, Loud(m))
      BY <2>1, <3>5, <3>8 DEF Faded
    <3> QED
      BY <2>1, <3>6, <3>7, <3>9
  <2>2. CASE ~prefs.damping
    <3> DEFINE m == NoteOff(channel, k)
    <3>1. m \in Messages /\ m.type = "off" /\ m.key = k /\ m.channel = channel
      <4>1. 0 \in 0 .. 255
        OBVIOUS
      <4>2. m \in Messages
        BY <1>2, <4>1, NoteIsMessage
      <4> QED
        BY <4>2 DEF NoteOff
    <3>2. KeyEvent(k, m)
      BY <2>2
    <3> HIDE DEF m
    <3>3. Faded(k, Loud(m))
      BY <2>2, <3>1 DEF Faded, Loud
    <3> QED
      BY <3>1, <3>2, <3>3
  <2> QED
    BY <2>1, <2>2
<1> PICK m \in Messages :
      /\ KeyEvent(k, m) /\ m.key = k /\ m.type \in {"on", "off"}
      /\ (prefs.damping => channel = 0) => m.channel = channel
      /\ Faded(k, Loud(m))
  BY <1>5
<1>6. ASSUME Heeded(k)' PROVE KeyInv(k)'
  <2>1. m.channel = channel' /\ NoteOf(m, k)
    BY <1>1, <1>6 DEF Heeded, NoteOf
  <2>2. Right(k, Loud(m))'
    BY <1>1, <1>3 DEF Right, Faded, Loud
  <2> QED
    BY <1>6, <2>1, <2>2, SentOwn DEF NoteInv
<1>7. ASSUME NEW l \in Keys, l # k, Heeded(l)' PROVE KeyInv(l)'
  BY <1>1, <1>3, <1>7, OtherKeys
<1> QED
  BY <1>1, <1>4, <1>6, <1>7 DEF NoteInv, NothingYet

LEMMA OtherNotes == NoteInv /\ TypeOK' /\ OtherEvent => NoteInv'
<1> SUFFICES ASSUME NoteInv, TypeOK', OtherEvent PROVE NoteInv'
  OBVIOUS
<1>1. /\ pc = "playing" /\ pc' = "playing" /\ PlayMidiEvent(Ignored)
      /\ UNCHANGED <<prefs, channel, stepped, sounding, age, held, lost>>
  BY DEF OtherEvent, choice, synth, clock, player
<1>2. Ignored \in Messages /\ \A k : ~NoteOf(Ignored, k)
  BY DEF Ignored, Messages, NoteOf
<1>3. ASSUME NEW k \in Keys, Heeded(k)' PROVE KeyInv(k)'
  <2>1. KeyInv(k) /\ TypeOK
    BY <1>1, <1>3 DEF NoteInv, Heeded, Low
  <2> QED
    BY <1>1, <1>2, <2>1, SentElse
<1> QED
  BY <1>1, <1>3 DEF NoteInv, NothingYet, InTime

(* A note sounds at its own key, on its own channel. *)
LEMMA SoundOne ==
  ASSUME TypeOK, NEW c \in Channels, NEW j \in Int, NEW v, Sound(c, j, v),
         UNCHANGED <<prefs, channel>>,
         NEW k \in Keys, k - Low(prefs) \in SynthKeys
  PROVE  Heard(k)' = IF c = channel /\ j = k - Low(prefs) THEN v ELSE Heard(k)
<1>1. sounding \in [Channels -> [SynthKeys -> 0 .. 127]] /\ channel \in Channels
  BY DEF TypeOK
<1> DEFINE n == k - Low(prefs)
<1>2. n \in SynthKeys /\ Heard(k) = sounding[channel][n] /\ Heard(k)' = sounding'[channel][n]
  BY DEF Heard, Low
<1> HIDE DEF n
<1>3. sounding'[channel][n] = IF c = channel /\ j = n THEN v ELSE sounding[channel][n]
  BY <1>1, <1>2 DEF Sound
<1> QED
  BY <1>2, <1>3 DEF n

(* fluidsynth_feed_midi: a note of another key leaves this one alone, and  *)
(* one of this key on its channel makes it as loud as it says.             *)
LEMMA FedNote ==
  ASSUME TypeOK, FeedMidi, NEW k \in Keys, k - Low(prefs) \in SynthKeys
  PROVE  /\ ~NoteOf(Head(queue), k) => Heard(k)' = Heard(k)
         /\ NoteOf(Head(queue), k) /\ Head(queue).channel = channel =>
              Heard(k)' = Loud(Head(queue))
<1>1. /\ Head(queue) \in Messages /\ UNCHANGED <<prefs, channel>>
      /\ Keys \subseteq 0 .. 127 /\ prefs.lowpitch \in BOOLEAN
  BY PlayPathAssumption DEF TypeOK, FeedMidi, choice
<1>2. Low(prefs) \in {0, 1}
  BY DEF Low
<1> DEFINE m == Head(queue)
<1>3. CASE m.type \in {"on", "off"}
  <2>1. m.channel \in Channels /\ m.key \in Keys
    BY <1>1, <1>3, Kinds DEF Notes, NotesOff
  <2>2. Sound(m.channel, m.key - Low(prefs), Loud(m))
    BY <1>3 DEF FeedMidi, FeedOn, FeedOff, Loud, Limit
  <2> HIDE DEF m
  <2>3. m.key - Low(prefs) \in Int /\ (m.key - Low(prefs) = k - Low(prefs) <=> m.key = k)
    <3>1. m.key \in 0 .. 127 /\ k \in 0 .. 127
      BY <1>1, <2>1
    <3> QED
      BY <1>2, <3>1
  <2>4. Heard(k)' = IF m.channel = channel /\ m.key - Low(prefs) = k - Low(prefs)
                    THEN Loud(m) ELSE Heard(k)
    BY <1>1, <2>1, <2>2, <2>3, SoundOne
  <2>5. NoteOf(m, k) <=> m.key = k
    BY <1>3 DEF NoteOf
  <2> QED
    BY <2>3, <2>4, <2>5 DEF m
<1>4. CASE m.type \in {"tuning", "ignored"}
  <2>1. sounding' = sounding /\ ~NoteOf(m, k)
    BY <1>4 DEF FeedMidi, synth, NoteOf
  <2> QED
    BY <1>1, <2>1 DEF Heard, Low
<1> QED
  BY <1>1, <1>3, <1>4, Kinds

LEMMA FeedNotes == NoteInv /\ TypeOK' /\ FeedMidi => NoteInv'
<1> SUFFICES ASSUME NoteInv, TypeOK', FeedMidi PROVE NoteInv'
  OBVIOUS
<1>1. /\ TypeOK /\ queue \in Seq(Messages) /\ queue # <<>> /\ queue' = Tail(queue)
      /\ pc' = "playing" /\ UNCHANGED <<prefs, channel, stepped, age, held, lost>>
  BY DEF FeedMidi, NoteInv, TypeOK, choice, clock, player
<1>2. ASSUME NEW k \in Keys, Heeded(k)' PROVE KeyInv(k)'
  <2>1. Heeded(k) /\ KeyInv(k) /\ k - Low(prefs) \in SynthKeys
    BY <1>1, <1>2 DEF NoteInv, Heeded, Low
  <2>2. /\ \A i \in 1 .. Len(queue') : LastNote(queue', k, i) =>
             i + 1 \in 1 .. Len(queue) /\ LastNote(queue, k, i + 1) /\ queue'[i] = queue[i + 1]
        /\ Silent(queue', k) =>
             IF NoteOf(Head(queue), k) THEN LastNote(queue, k, 1) ELSE Silent(queue, k)
    BY <1>1, LastNoteOfTail
  <2>3. ASSUME NEW i \in 1 .. Len(queue'), LastNote(queue', k, i)
        PROVE  queue'[i].channel = channel' /\ Right(k, Loud(queue[i]))'
    <3>1. i + 1 \in 1 .. Len(queue) /\ LastNote(queue, k, i + 1) /\ queue'[i] = queue[i + 1]
      BY <2>2, <2>3
    <3>2. queue[i + 1].channel = channel /\ Right(k, Loud(queue[i + 1]))
      BY <2>1, <3>1 DEF KeyInv
    <3> QED
      BY <1>1, <3>1, <3>2 DEF Right, Faded, Loud
  <2>4. ASSUME Silent(queue', k) PROVE Right(k, Heard(k))'
    <3>1. Right(k, Heard(k)')
      <4>1. CASE NoteOf(Head(queue), k)
        <5>1. LastNote(queue, k, 1) /\ 1 \in 1 .. Len(queue) /\ Head(queue) = queue[1]
          BY <1>1, <2>2, <2>4, <4>1 DEF LastNote
        <5>2. Head(queue).channel = channel /\ Right(k, Loud(Head(queue)))
          BY <2>1, <5>1 DEF KeyInv
        <5>3. Heard(k)' = Loud(Head(queue))
          BY <1>1, <2>1, <4>1, <5>2, FedNote
        <5> QED
          BY <5>2, <5>3
      <4>2. CASE ~NoteOf(Head(queue), k)
        <5>1. Right(k, Heard(k))
          BY <2>1, <2>2, <2>4, <4>2 DEF KeyInv
        <5>2. Heard(k)' = Heard(k)
          BY <1>1, <2>1, <4>2, FedNote
        <5> QED
          BY <5>1, <5>2
      <4> QED
        BY <4>1, <4>2
    <3> QED
      BY <1>1, <3>1 DEF Right, Faded
  <2> QED
    BY <2>3, <2>4 DEF KeyInv, Silent, LastNote
<1> QED
  BY <1>1, <1>2 DEF NoteInv, NothingYet, InTime

(* Time changes what a released key may do, never what it does. *)
LEMMA ClockNotes == NoteInv /\ TypeOK' /\ (Beat \/ SetBack \/ UNCHANGED vars) => NoteInv'
<1> SUFFICES ASSUME NoteInv, TypeOK', Beat \/ SetBack \/ UNCHANGED vars PROVE NoteInv'
  OBVIOUS
<1>1. /\ UNCHANGED <<pc, prefs, channel, queue, sounding, held, lost>>
      /\ stepped => stepped'
  BY DEF Beat, SetBack, vars, choice, synth, player, clock, NoteInv, TypeOK
<1>2. InTime'
  <2>1. age \in [Keys -> Ages]
    BY DEF NoteInv, TypeOK
  <2>2. CASE Beat
    <3>1. \A k \in Keys : age[k] >= 0 => age'[k] >= 0
      BY <2>1, <2>2 DEF Beat, Ages, LongAgo
    <3> QED
      BY <1>1, <2>2, <3>1 DEF Beat, NoteInv, InTime
  <2>3. CASE SetBack
    BY <2>3 DEF SetBack, InTime
  <2>4. CASE UNCHANGED vars
    BY <2>4 DEF vars, clock, NoteInv, InTime
  <2> QED
    BY <2>2, <2>3, <2>4
<1>3. ASSUME NEW k \in Keys, NEW v, Right(k, v) PROVE Right(k, v)'
  BY <1>1, <1>3 DEF Right, Faded
<1>4. ASSUME NEW k \in Keys, Heeded(k)' PROVE KeyInv(k)'
  <2>1. KeyInv(k) /\ Heard(k)' = Heard(k)
    BY <1>1, <1>4 DEF NoteInv, Heeded, Low, Heard
  <2>2. ASSUME NEW i \in 1 .. Len(queue'), LastNote(queue', k, i)
        PROVE  queue'[i].channel = channel' /\ Right(k, Loud(queue[i]))'
    <3>1. queue[i].channel = channel /\ Right(k, Loud(queue[i]))
      BY <1>1, <2>1, <2>2 DEF KeyInv
    <3> QED
      BY <1>1, <3>1 DEF Right, Faded, Loud
  <2>3. ASSUME Silent(queue', k) PROVE Right(k, Heard(k))'
    <3>1. Right(k, Heard(k))
      BY <1>1, <2>1, <2>3 DEF KeyInv
    <3> QED
      BY <1>1, <2>1, <3>1 DEF Right, Faded
  <2> QED
    BY <2>2, <2>3 DEF KeyInv, Silent, LastNote
<1>5. NothingYet'
  BY <1>1 DEF NoteInv, NothingYet, Quiet
<1> QED
  BY <1>2, <1>4, <1>5 DEF NoteInv

LEMMA NotesNext == NoteInv /\ [Next]_vars => NoteInv'
<1>1. NoteInv /\ [Next]_vars => TypeOK'
  BY TypesNext DEF NoteInv
<1> QED
  BY <1>1, StartNotes, PressNotes, ReleaseNotes, OtherNotes, FeedNotes, ClockNotes
     DEF Next, Playing

(* With the queue read, what is heard of a key is what the player did last. *)
LEMMA NotesHeard == NoteInv => HeldSounds /\ ReleasedFades
<1> SUFFICES ASSUME NoteInv, NEW k \in Keys, Followed(k)
             PROVE  /\ held[k] > 0 => Heard(k) >= held[k]
                    /\ held[k] = 0 => Faded(k, Heard(k))
  BY DEF HeldSounds, ReleasedFades, Faded
<1>1. Heeded(k) /\ queue = <<>>
  BY DEF Followed, Heeded
<1>2. Silent(queue, k)
  BY <1>1 DEF Silent
<1> QED
  BY <1>1, <1>2 DEF NoteInv, KeyInv, Right

(* For every keyboard and every queue: a key that is held sounds no softer *)
(* than it was played, once what it sent has been read and if its last     *)
(* event was not refused (handle_midi_event, fluidsynth_feed_midi).        *)
THEOREM HeldKeysSound == Spec => []HeldSounds
BY InitNotes, NotesNext, NotesHeard, PTL DEF Spec

(* And a released key is silent, or with damping no louder than the string *)
(* of add_after_touch, unless the clock went back or the key is the last.  *)
THEOREM ReleasedKeysFade == Spec => []ReleasedFades
BY InitNotes, NotesNext, NotesHeard, PTL DEF Spec
===============================================================================
