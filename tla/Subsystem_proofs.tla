--------------------------- MODULE Subsystem_proofs ---------------------------
(***************************************************************************)
(* The subsystem comes up whole or not at all, whatever fails on the way,  *)
(* and no thread uses a queue that has been freed, but for the two ways of *)
(* the code that NoUseAfterFree names: for every choice of drivers and     *)
(* devices, and every call of a library that may fail.                     *)
(***************************************************************************)
EXTENDS Subsystem, WellFoundedInduction, TLAPS

Early    == {"start", "audio", "dialog", "audio failed"}
Starting == Early \cup {"midi", "midi failed", "thread"}
Ending   == {"shutdown", "join", "free"}

(* Each slot holds a backend of its kind. *)
Kinds ==
  /\ backends[AUDIO] \in {"NULL", "dummy", "portaudio"}
  /\ backends[MIDI] \in {"NULL", "dummy", "portmidi"}

(* The queues live from their creation until it is their turn to be freed. *)
QueuesUp ==
  /\ mpc \in (Starting \ {"start"}) \cup {"running"} => \A b \in Backends : queues[b] = "live"
  /\ mpc \in Ending => queues[MIDI] = "live" /\ (closing = AUDIO => queues[AUDIO] = "live")
  /\ mpc \in Starting \cup {"running"} => closing = AUDIO

(* What has not been started yet. *)
NotYet ==
  /\ mpc \in Early => ~dummy[AUDIO] /\ stream \notin {"started", "stuck"}
  /\ mpc \in Early \cup {"midi"} => ~dummy[MIDI] /\ backends[MIDI] = "NULL" /\ ~initialized
  /\ mpc = "midi failed" => ~dummy[MIDI] /\ (initialized => ~input_stream)

(* What has been started. *)
AudioUp ==
  /\ mpc = "dialog" => backends[AUDIO] = "portaudio"
  /\ mpc \in {"midi", "midi failed", "thread", "running"} =>
       /\ backends[AUDIO] # "NULL"
       /\ dummy[AUDIO] <=> backends[AUDIO] = "dummy"
       /\ backends[AUDIO] = "portaudio" => pa /\ stream = "started"
MidiUp ==
  mpc \in {"thread", "running"} =>
    /\ backends[MIDI] # "NULL"
    /\ dummy[MIDI] <=> backends[MIDI] = "dummy"
    /\ backends[MIDI] = "portmidi" => timer /\ initialized /\ input_stream

(* The process thread is told to quit only by the last dummy. *)
Quitting ==
  /\ quit_thread => mpc \notin Starting \cup {"running"} /\ \A b \in Backends : ~dummy[b]
  /\ ppc = "done" => quit_thread

DummyInstalled ==
  /\ \A b \in Backends : dummy[b] => backends[b] = "dummy" /\ queues[b] = "live"
  /\ mpc \in {"join", "free"} => ~dummy[closing]

(* PortMidi is initialized until its backend is destroyed, and counted. *)
PortMidiUp ==
  /\ backends[MIDI] = "portmidi" /\ mpc \in {"thread", "running"} \cup Ending
       /\ ~(mpc = "free" /\ closing = MIDI) => initialized
  /\ initialized => pm.count > 0

IInv ==
  /\ TypeOK /\ Kinds /\ QueuesUp /\ NotYet /\ AudioUp /\ MidiUp
  /\ Quitting /\ DummyInstalled /\ PortMidiUp

(* A stream that runs belongs to a backend that is installed. *)
StreamOwned ==
  /\ stream = "started" =>
       /\ queues[AUDIO] = "live" /\ backends[AUDIO] = "portaudio" /\ closing = AUDIO
       /\ mpc \in {"midi", "midi failed", "thread", "running", "shutdown", "exited"}
  /\ cpc = "reading" => stream \in {"started", "stuck"}

(* So does an input that is open. *)
InputOwned ==
  /\ initialized /\ input_stream =>
       /\ queues[MIDI] = "live" /\ backends[MIDI] = "portmidi"
       /\ mpc \in {"thread", "running", "exited"} \cup Ending
       /\ mpc \in {"free", "join"} => closing = AUDIO
  /\ tpc = "writing" => initialized /\ input_stream

(* The audio backend goes first. *)
AudioFirst ==
  closing = MIDI => backends[AUDIO] = "NULL" /\ mpc \in Ending \cup {"down", "exited"}

(* The process thread reads for a dummy that is there or being joined, or  *)
(* is kept by the MIDI dummy; when that is gone, so is the thread.         *)
ThreadOwned ==
  /\ ppc = MIDI => queues[MIDI] = "live"
                    /\ (dummy[MIDI] \/ (mpc = "join" /\ closing = MIDI))
  /\ ppc = AUDIO => \/ /\ queues[AUDIO] = "live"
                       /\ dummy[AUDIO] \/ (mpc = "join" /\ closing = AUDIO)
                    \/ backends[MIDI] = "dummy"
  /\ mpc = "free" /\ closing = MIDI /\ backends[MIDI] = "dummy" => ppc = "none"

SafeInv == StreamOwned /\ InputOwned /\ AudioFirst /\ ThreadOwned

-------------------------------------------------------------------------------
(* From the name of a device to its index. *)

LEMMA Least ==
  ASSUME NEW T, T \subseteq Nat, T # {}
  PROVE  \E x \in T : \A y \in T : x <= y
<1>1. \E x \in T : \A y \in T : ~(<<y, x>> \in OpToRel(<, Nat))
  BY NatLessThanWellFounded, WFMin
<1>2. PICK x \in T : \A y \in T : ~(<<y, x>> \in OpToRel(<, Nat))
  BY <1>1
<1>3. ASSUME NEW y \in T PROVE x <= y
  <2>1. x \in Nat /\ y \in Nat
    OBVIOUS
  <2>2. ~(<<y, x>> \in OpToRel(<, Nat))
    BY <1>2
  <2>3. ~(y < x)
    BY <2>1, <2>2 DEF OpToRel
  <2> QED
    BY <2>1, <2>3
<1> QED
  BY <1>3

(* Behind the entry "default" there are the names of the devices. *)
LEMMA NamesBehindDefault ==
  /\ Len(NameList) = Len(Devices) + 1 /\ NameList[1] = "default"
  /\ \A j \in 1 .. Len(Devices) : NameList[j + 1] = Devices[j]
BY DevicesAssumption DEF NameList

(* The index of a device's name is that of the first device with the name. *)
LEMMA DeviceIsFound ==
  ASSUME NEW name, NEW j \in 1 .. Len(Devices), Devices[j] = name
  PROVE  IndexFound(name) /\ OutputDevice(name) = DeviceIndex(name, NameList)
<1>1. Len(Devices) \in Nat /\ name # "default"
  BY DevicesAssumption
<1>2. j \in Positions(name, NameList) /\ Positions(name, NameList) \subseteq Nat
  BY <1>1, NamesBehindDefault DEF Positions
<1>3. \E x \in Positions(name, NameList) : \A y \in Positions(name, NameList) : x <= y
  BY <1>2, Least
<1> DEFINE p == Position(name, NameList)
<1>4. p \in Positions(name, NameList) /\ \A y \in Positions(name, NameList) : p <= y
  BY <1>2, <1>3 DEF Position
<1>5. p \in 0 .. Len(Devices) /\ NameList[p + 1] = name
  BY <1>1, <1>4, NamesBehindDefault DEF Positions
<1>6. p \in 1 .. Len(Devices)
  BY <1>1, <1>5, NamesBehindDefault
<1>7. DeviceIndex(name, NameList) = p - 1
  BY <1>1, <1>6, NamesBehindDefault DEF DeviceIndex, NULL
<1>8. Exists(DeviceIndex(name, NameList)) /\ Devices[DeviceIndex(name, NameList) + 1] = name
  <2>1. NameList[p + 1] = Devices[p]
    BY <1>6, NamesBehindDefault
  <2> QED
    BY <1>1, <1>5, <1>6, <1>7, <2>1 DEF Exists
<1>9. ASSUME NEW k \in 1 .. DeviceIndex(name, NameList) PROVE Devices[k] # name
  <2>1. k \in 1 .. Len(Devices) /\ k < p
    BY <1>1, <1>6, <1>7
  <2>2. k \notin Positions(name, NameList)
    BY <1>4, <1>6, <2>1
  <2>3. NameList[k + 1] # name
    BY <1>1, <2>1, <2>2, NamesBehindDefault DEF Positions
  <2> QED
    BY <2>1, <2>3, NamesBehindDefault
<1> QED
  BY <1>6, <1>7, <1>8, <1>9 DEF IndexFound, OutputDevice, paNoDevice

-------------------------------------------------------------------------------
USE SubsystemAssumption DEF AUDIO, MIDI, Backends, Early, Starting, Ending

(* portmidiutil.c keeps its counter a counter. *)
PmCounter == [count : Nat, up : BOOLEAN, leaked : BOOLEAN]

LEMMA PmCalls ==
  ASSUME NEW p \in PmCounter, NEW err \in BOOLEAN
  PROVE  /\ PmInitialize(p, err) \in PmCounter /\ PmInitialize(p, err).count = p.count + 1
         /\ p.count > 0 => PmTerminate(p) \in PmCounter
         /\ PmQuery(p, err) \in PmCounter /\ PmQuery(p, err).count >= p.count
<1>1. PmInitialize(p, err) \in PmCounter /\ PmInitialize(p, err).count = p.count + 1
  <2>1. (IF p.count = 0 THEN ~err ELSE p.up) \in BOOLEAN /\ p.leaked \in BOOLEAN
    BY DEF PmCounter
  <2>2. p.count + 1 \in Nat
    BY DEF PmCounter
  <2> QED
    BY <2>1, <2>2 DEF PmCounter, PmInitialize
<1>2. ASSUME NEW q \in PmCounter, q.count > 0
      PROVE  PmTerminate(q) \in PmCounter /\ PmTerminate(q).count = q.count - 1
  <2>1. (q.count # 1 /\ q.up) \in BOOLEAN /\ q.leaked \in BOOLEAN /\ q.count - 1 \in Nat
    BY <1>2 DEF PmCounter
  <2> QED
    BY <2>1 DEF PmCounter, PmTerminate
<1> DEFINE q == PmInitialize(p, err)
           r == [count |-> q.count, up |-> q.up, leaked |-> TRUE]
<1>3. PmQuery(p, err) \in {r, PmTerminate(q)}
  BY DEF PmQuery
<1>4. p.count \in Nat /\ q \in PmCounter /\ q.count = p.count + 1
  BY <1>1 DEF PmCounter
<1> HIDE DEF q
<1>5. PmTerminate(q) \in PmCounter /\ PmTerminate(q).count = p.count
  BY <1>2, <1>4
<1>6. r \in PmCounter /\ r.count = p.count + 1
  BY <1>4 DEF PmCounter
<1> HIDE DEF r
<1>7. PmQuery(p, err) \in PmCounter /\ PmQuery(p, err).count >= p.count
  BY <1>3, <1>4, <1>5, <1>6
<1> QED
  BY <1>1, <1>2, <1>7

(* A name of a device is a string. *)
LEMMA PreferredIsString ==
  ASSUME NEW name \in DeviceNames, NEW list \in {NameList, NULL}
  PROVE  Preferred(name, list) \in STRING
<1>1. name \in STRING
  BY SubsystemAssumption
<1>2. Len(list) > 1 => list[2] \in STRING
  <2>1. CASE list = NULL
    BY <2>1 DEF NULL
  <2>2. CASE list = NameList
    <3>1. Len(Devices) \in Nat /\ Len(NameList) = Len(Devices) + 1
      BY DevicesAssumption, NamesBehindDefault
    <3>2. Len(NameList) > 1 => 1 \in 1 .. Len(Devices) /\ NameList[1 + 1] = Devices[1]
      BY <3>1, NamesBehindDefault
    <3>3. Len(NameList) > 1 => Devices[1] \in STRING
      BY <3>2, DevicesAssumption
    <3> QED
      BY <2>2, <3>2, <3>3
  <2> QED
    BY <2>1, <2>2
<1> QED
  BY <1>1, <1>2 DEF Preferred

LEMMA NewQueuesKeeps == IInv /\ NewQueues => IInv'
<1> SUFFICES ASSUME IInv, NewQueues PROVE IInv'
  OBVIOUS
<1> USE DEF NewQueues, mainVars, dummyVars, paVars, pmVars
<1>1. MainTypes' /\ DummyTypes'
  BY DEF IInv, TypeOK, MainTypes, DummyTypes
<1>2. PaTypes' /\ PmTypes'
  BY DEF IInv, TypeOK, PaTypes, PmTypes
<1>3. Kinds' /\ QueuesUp' /\ NotYet' /\ AudioUp' /\ MidiUp'
  BY DEF IInv, Kinds, QueuesUp, NotYet, AudioUp, MidiUp
<1>4. Quitting' /\ DummyInstalled' /\ PortMidiUp'
  BY DEF IInv, MidiUp, Quitting, DummyInstalled, PortMidiUp
<1> QED
  BY <1>1, <1>2, <1>3, <1>4 DEF IInv, TypeOK

LEMMA AudioIsDummyKeeps == IInv /\ AudioIsDummy => IInv'
<1> SUFFICES ASSUME IInv, AudioIsDummy PROVE IInv'
  OBVIOUS
<1> USE DEF AudioIsDummy, DummyInitialize, StartProcessThread, mainVars, dummyVars, paVars, pmVars
<1>1. MainTypes' /\ DummyTypes'
  BY DEF IInv, TypeOK, MainTypes, DummyTypes
<1>2. PaTypes' /\ PmTypes'
  BY DEF IInv, TypeOK, PaTypes, PmTypes
<1>3. Kinds' /\ QueuesUp' /\ NotYet' /\ AudioUp' /\ MidiUp'
  BY DEF IInv, TypeOK, MainTypes, DummyTypes, Kinds, QueuesUp, NotYet, AudioUp, MidiUp
<1>4. Quitting' /\ DummyInstalled' /\ PortMidiUp'
  BY DEF IInv, TypeOK, MainTypes, QueuesUp, MidiUp, Quitting, DummyInstalled, PortMidiUp
<1> QED
  BY <1>1, <1>2, <1>3, <1>4 DEF IInv, TypeOK

LEMMA AudioIsPortAudioKeeps == IInv /\ AudioIsPortAudio => IInv'
<1> SUFFICES ASSUME IInv, AudioIsPortAudio PROVE IInv'
  OBVIOUS
<1> USE DEF AudioIsPortAudio, mainVars, dummyVars, paVars, pmVars
<1>1. MainTypes' /\ DummyTypes'
  BY DEF IInv, TypeOK, MainTypes, DummyTypes
<1>2. PaTypes' /\ PmTypes'
  <2>1. PICK e1 \in BOOLEAN, e2 \in BOOLEAN : pm' = PmQuery(PmQuery(pm, e1), e2)
    OBVIOUS
  <2>2. pm \in PmCounter
    BY DEF IInv, TypeOK, PmTypes, PmCounter
  <2>3. PmQuery(pm, e1) \in PmCounter
    BY <2>2, PmCalls
  <2>4. pm' \in PmCounter
    BY <2>1, <2>3, PmCalls
  <2>5. PaTypes'
    BY DEF IInv, TypeOK, PaTypes
  <2> QED
    BY <2>4, <2>5 DEF IInv, TypeOK, PmTypes, PmCounter
<1>3. Kinds' /\ QueuesUp' /\ NotYet' /\ AudioUp' /\ MidiUp'
  BY DEF IInv, TypeOK, MainTypes, Kinds, QueuesUp, NotYet, AudioUp, MidiUp
<1>4. Quitting' /\ DummyInstalled' /\ PortMidiUp'
  BY DEF IInv, NotYet, MidiUp, Quitting, DummyInstalled, PortMidiUp
<1> QED
  BY <1>1, <1>2, <1>3, <1>4 DEF IInv, TypeOK

LEMMA PortAudioOpensKeeps == IInv /\ PortAudioOpens => IInv'
<1> SUFFICES ASSUME IInv, PortAudioOpens PROVE IInv'
  OBVIOUS
<1> USE DEF PortAudioOpens, Failures, mainVars, dummyVars, paVars, pmVars
<1>1. MainTypes' /\ DummyTypes'
  BY DEF IInv, TypeOK, MainTypes, DummyTypes
<1>2. PaTypes' /\ PmTypes'
  <2>1. PaTypes'
    <3>1. PICK name \in DeviceNames, list \in {NameList, NULL}, failed \in Failures :
            warned' = [call |-> failed, device |-> Preferred(name, list)]
      OBVIOUS
    <3>2. warned' \in [call : {"none"} \cup Failures, device : {"default"} \cup STRING]
      BY <3>1, PreferredIsString
    <3>3. pa' \in BOOLEAN /\ stream' \in {"none", "open", "started", "closed", "stuck"}
          /\ UNCHANGED <<ready, ready_idle, cpc>>
      OBVIOUS
    <3> QED
      BY ONLY <3>2, <3>3, IInv DEF IInv, TypeOK, PaTypes, Failures
  <2> QED
    BY <2>1 DEF IInv, TypeOK, PmTypes
<1>3. Kinds' /\ QueuesUp' /\ NotYet' /\ AudioUp' /\ MidiUp'
  <2>1. PICK failed \in Failures :
          /\ stream' = IF failed = "nothing" THEN "started"
                       ELSE IF failed = "Pa_StartStream" THEN "open" ELSE "none"
          /\ pa' = (failed \notin {"fluidsynth_init", "Pa_Initialize"})
          /\ mpc' = IF failed = "nothing" THEN "midi" ELSE "audio failed"
    OBVIOUS
  <2>2. mpc = "dialog" /\ UNCHANGED <<closing, queues, backends, dummy, initialized>>
    OBVIOUS
  <2>3. \/ mpc' = "midi" /\ stream' = "started" /\ pa'
        \/ mpc' = "audio failed" /\ stream' \notin {"started", "stuck"}
    BY <2>1
  <2> HIDE DEF PortAudioOpens, Failures
  <2>4. Kinds' /\ MidiUp'
    BY <2>2, <2>3 DEF IInv, Kinds, MidiUp
  <2>5. QueuesUp'
    BY <2>2, <2>3 DEF IInv, QueuesUp
  <2>6. NotYet'
    <3>1. ~dummy[AUDIO] /\ ~dummy[MIDI] /\ backends[MIDI] = "NULL" /\ ~initialized
      BY <2>2 DEF IInv, NotYet
    <3>2. dummy' = dummy /\ backends' = backends /\ initialized' = initialized
      BY <2>2
    <3>3. ~dummy'[AUDIO] /\ ~dummy'[MIDI] /\ backends'[MIDI] = "NULL" /\ ~initialized'
      BY <3>1, <3>2
    <3> QED
      BY <2>3, <3>3 DEF NotYet
  <2>7. AudioUp'
    <3>1. backends'[AUDIO] = "portaudio" /\ ~dummy'[AUDIO]
      BY <2>2 DEF IInv, AudioUp, NotYet
    <3> QED
      BY <2>3, <3>1 DEF AudioUp
  <2> QED
    BY <2>4, <2>5, <2>6, <2>7
<1>4. Quitting' /\ DummyInstalled' /\ PortMidiUp'
  BY DEF IInv, MidiUp, Quitting, DummyInstalled, PortMidiUp
<1> QED
  BY <1>1, <1>2, <1>3, <1>4 DEF IInv, TypeOK

LEMMA AudioFallsBackKeeps == IInv /\ AudioFallsBack => IInv'
<1> SUFFICES ASSUME IInv, AudioFallsBack PROVE IInv'
  OBVIOUS
<1> USE DEF AudioFallsBack, DummyInitialize, StartProcessThread, mainVars, dummyVars, paVars, pmVars
<1>1. MainTypes' /\ DummyTypes'
  BY DEF IInv, TypeOK, MainTypes, DummyTypes
<1>2. PaTypes' /\ PmTypes'
  <2>1. UNCHANGED <<paVars, pmVars>>
    OBVIOUS
  <2> QED
    BY ONLY <2>1, IInv DEF IInv, TypeOK, PaTypes, PmTypes, paVars, pmVars
<1>3. Kinds' /\ QueuesUp' /\ NotYet' /\ AudioUp' /\ MidiUp'
  BY DEF IInv, TypeOK, MainTypes, Kinds, QueuesUp, NotYet, AudioUp, MidiUp
<1>4. Quitting' /\ DummyInstalled' /\ PortMidiUp'
  BY DEF IInv, TypeOK, MainTypes, DummyTypes, QueuesUp, NotYet, MidiUp, Quitting,
     DummyInstalled, PortMidiUp
<1> QED
  BY <1>1, <1>2, <1>3, <1>4 DEF IInv, TypeOK

LEMMA MidiIsDummyKeeps == IInv /\ MidiIsDummy => IInv'
<1> SUFFICES ASSUME IInv, MidiIsDummy PROVE IInv'
  OBVIOUS
<1> USE DEF MidiIsDummy, DummyInitialize, StartProcessThread, mainVars, dummyVars, paVars, pmVars
<1>1. MainTypes' /\ DummyTypes'
  BY DEF IInv, TypeOK, MainTypes, DummyTypes
<1>2. PaTypes' /\ PmTypes'
  BY DEF IInv, TypeOK, PaTypes, PmTypes
<1>3. Kinds' /\ QueuesUp' /\ NotYet' /\ AudioUp' /\ MidiUp'
  BY DEF IInv, TypeOK, MainTypes, DummyTypes, Kinds, QueuesUp, NotYet, AudioUp, MidiUp
<1>4. Quitting' /\ DummyInstalled' /\ PortMidiUp'
  BY DEF IInv, TypeOK, MainTypes, QueuesUp, MidiUp, Quitting, DummyInstalled, PortMidiUp
<1> QED
  BY <1>1, <1>2, <1>3, <1>4 DEF IInv, TypeOK

(* What each of the outcomes of portmidi_initialize comes to. *)
InputClosed ==
  /\ mpc' = "midi failed"
  /\ \/ UNCHANGED <<timer, initialized>>
     \/ timer' = FALSE /\ initialized' = FALSE
  /\ UNCHANGED input_stream
InputIsOpen(open) ==
  /\ mpc' = IF open THEN "thread" ELSE "midi failed"
  /\ timer' = TRUE /\ initialized' = TRUE /\ input_stream' = open
  /\ pm'.count > 0

LEMMA PortMidiOutcome ==
  ASSUME pm \in PmCounter, MidiIsPortMidi
  PROVE  /\ pm' \in PmCounter
         /\ InputClosed \/ InputIsOpen(TRUE) \/ InputIsOpen(FALSE)
<1>1. CASE TimerFails
  BY <1>1 DEF TimerFails, InputClosed
<1>2. ASSUME NEW err \in PmErrors, InputFails(err)
      PROVE  InputClosed /\ pm' \in PmCounter
  <2> DEFINE p == PmInitialize(pm, err)
             q == IF PmFails(pm, err) THEN p ELSE PmQuery(p, FALSE)
  <2>1. InputClosed /\ pm' = PmTerminate(q)
    BY <1>2 DEF InputFails, PortMidiGone, InputClosed
  <2>2. q \in PmCounter /\ q.count > 0
    <3>1. p \in PmCounter /\ p.count = pm.count + 1 /\ pm.count \in Nat
      BY PmCalls DEF PmCounter
    <3>2. PmQuery(p, FALSE) \in PmCounter /\ PmQuery(p, FALSE).count >= p.count
      BY <3>1, PmCalls
    <3>3. p.count > 0 /\ PmQuery(p, FALSE).count > 0
      <4>1. PmQuery(p, FALSE).count \in Nat
        BY <3>2 DEF PmCounter
      <4>2. p.count \in Nat
        BY <3>1 DEF PmCounter
      <4> HIDE DEF p
      <4> DEFINE n == p.count
                 m == PmQuery(p, FALSE).count
                 k == pm.count
      <4>3. n = k + 1 /\ k \in Nat /\ m \in Nat /\ m >= n
        BY <3>1, <3>2, <4>1
      <4> HIDE DEF n, m, k
      <4>4. n > 0 /\ m > 0
        BY <4>3
      <4> QED
        BY <4>4 DEF n, m
    <3>4. q \in {p, PmQuery(p, FALSE)}
      OBVIOUS
    <3> HIDE DEF p, q
    <3> QED
      BY <3>1, <3>2, <3>3, <3>4
  <2> QED
    BY <2>1, <2>2, PmCalls
<1>3. ASSUME NEW err \in PmErrors, NEW open \in BOOLEAN, InputOpens(err, open)
      PROVE  InputIsOpen(open) /\ pm' \in PmCounter
  <2>1. pm' = PmInitialize(pm, err) /\ pm.count \in Nat
    BY <1>3 DEF InputOpens, PmCounter
  <2>2. pm' \in PmCounter /\ pm'.count = pm.count + 1
    BY <2>1, PmCalls
  <2>3. pm'.count > 0
    BY <2>1, <2>2
  <2> QED
    BY <1>3, <2>2, <2>3 DEF InputOpens, InputIsOpen
<1> QED
  BY <1>1, <1>2, <1>3 DEF MidiIsPortMidi, TimerFails, InputIsOpen

LEMMA MidiIsPortMidiKeeps == IInv /\ MidiIsPortMidi => IInv'
<1> SUFFICES ASSUME IInv, MidiIsPortMidi PROVE IInv'
  OBVIOUS
<1>1. /\ mpc = "midi" /\ backends' = [backends EXCEPT ![MIDI] = "portmidi"]
      /\ UNCHANGED <<closing, queues, dummyVars, paVars, tpc>>
  BY DEF MidiIsPortMidi
<1>2. /\ pm' \in PmCounter
      /\ InputClosed \/ InputIsOpen(TRUE) \/ InputIsOpen(FALSE)
  BY PortMidiOutcome DEF IInv, TypeOK, PmTypes, PmCounter
<1> USE DEF dummyVars, paVars
<1>0. initialized = FALSE
  BY <1>1 DEF IInv, NotYet, TypeOK, PmTypes
<1>3. /\ mpc' \in {"midi failed", "thread"}
      /\ mpc' = "midi failed" => (initialized' => ~input_stream')
      /\ mpc' = "thread" => timer' /\ initialized' /\ input_stream'
      /\ initialized' => pm'.count > 0
  <2>1. CASE InputClosed
    BY <1>0, <2>1 DEF InputClosed
  <2>2. CASE InputIsOpen(TRUE)
    BY <2>2 DEF InputIsOpen
  <2>3. CASE InputIsOpen(FALSE)
    BY <2>3 DEF InputIsOpen
  <2> QED
    BY <1>2, <2>1, <2>2, <2>3
<1>4. MainTypes' /\ DummyTypes' /\ PaTypes'
  <2>1. backends' \in [Backends -> {"NULL", "dummy", "portaudio", "portmidi"}]
    BY <1>1 DEF IInv, TypeOK, MainTypes
  <2>2. MainTypes'
    BY <1>1, <1>3, <2>1 DEF IInv, TypeOK, MainTypes
  <2>3. DummyTypes'
    BY <1>1 DEF IInv, TypeOK, DummyTypes
  <2>4. PaTypes'
    BY <1>1 DEF IInv, TypeOK, PaTypes
  <2> QED
    BY <2>2, <2>3, <2>4
<1>5. PmTypes'
  BY <1>1, <1>2 DEF IInv, TypeOK, PmTypes, PmCounter, InputClosed, InputIsOpen
<1>6. Kinds' /\ QueuesUp' /\ NotYet' /\ AudioUp' /\ MidiUp'
  BY <1>1, <1>3 DEF IInv, TypeOK, MainTypes, Kinds, QueuesUp, NotYet, AudioUp, MidiUp
<1>7. Quitting' /\ DummyInstalled'
  BY <1>1, <1>3 DEF IInv, TypeOK, MainTypes, Quitting, DummyInstalled, NotYet
<1>8. PortMidiUp'
  BY <1>1, <1>3 DEF PortMidiUp
<1> QED
  BY <1>4, <1>5, <1>6, <1>7, <1>8 DEF IInv, TypeOK

LEMMA MidiFallsBackKeeps == IInv /\ MidiFallsBack => IInv'
<1> SUFFICES ASSUME IInv, MidiFallsBack PROVE IInv'
  OBVIOUS
<1> USE DEF MidiFallsBack, DummyInitialize, StartProcessThread, mainVars, dummyVars, paVars, pmVars
<1>1. MainTypes' /\ DummyTypes'
  BY DEF IInv, TypeOK, MainTypes, DummyTypes
<1>2. PaTypes' /\ PmTypes'
  <2>1. UNCHANGED <<paVars, pmVars>>
    OBVIOUS
  <2> QED
    BY ONLY <2>1, IInv DEF IInv, TypeOK, PaTypes, PmTypes, paVars, pmVars
<1>3. Kinds' /\ QueuesUp' /\ NotYet' /\ AudioUp' /\ MidiUp'
  BY DEF IInv, TypeOK, MainTypes, Kinds, QueuesUp, NotYet, AudioUp, MidiUp
<1>4. Quitting' /\ DummyInstalled' /\ PortMidiUp'
  BY DEF IInv, TypeOK, MainTypes, DummyTypes, QueuesUp, NotYet, MidiUp, Quitting,
     DummyInstalled, PortMidiUp
<1> QED
  BY <1>1, <1>2, <1>3, <1>4 DEF IInv, TypeOK

LEMMA CreateQueueThreadKeeps == IInv /\ CreateQueueThread => IInv'
<1> SUFFICES ASSUME IInv, CreateQueueThread PROVE IInv'
  OBVIOUS
<1> USE DEF CreateQueueThread, mainVars, dummyVars, paVars, pmVars
<1>1. MainTypes' /\ DummyTypes'
  BY DEF IInv, TypeOK, MainTypes, DummyTypes
<1>2. PaTypes' /\ PmTypes'
  BY DEF IInv, TypeOK, PaTypes, PmTypes
<1>3. Kinds' /\ QueuesUp' /\ NotYet' /\ AudioUp' /\ MidiUp'
  BY DEF IInv, Kinds, QueuesUp, NotYet, AudioUp, MidiUp
<1>4. Quitting' /\ DummyInstalled' /\ PortMidiUp'
  BY DEF IInv, MidiUp, Quitting, DummyInstalled, PortMidiUp
<1> QED
  BY <1>1, <1>2, <1>3, <1>4 DEF IInv, TypeOK

LEMMA CancelSetupKeeps == IInv /\ CancelSetup => IInv'
<1> SUFFICES ASSUME IInv, CancelSetup PROVE IInv'
  OBVIOUS
<1> USE DEF CancelSetup, mainVars, dummyVars, paVars, pmVars
<1>1. MainTypes' /\ DummyTypes'
  BY DEF IInv, TypeOK, MainTypes, DummyTypes
<1>2. PaTypes' /\ PmTypes'
  BY DEF IInv, TypeOK, PaTypes, PmTypes
<1>3. Kinds' /\ QueuesUp' /\ NotYet' /\ AudioUp' /\ MidiUp'
  BY DEF IInv, Kinds, QueuesUp, NotYet, AudioUp, MidiUp
<1>4. Quitting' /\ DummyInstalled' /\ PortMidiUp'
  BY DEF IInv, MidiUp, Quitting, DummyInstalled, PortMidiUp
<1> QED
  BY <1>1, <1>2, <1>3, <1>4 DEF IInv, TypeOK

LEMMA DestroyDummyKeeps == IInv /\ DestroyDummy => IInv'
<1> SUFFICES ASSUME IInv, DestroyDummy PROVE IInv'
  OBVIOUS
<1> USE DEF DestroyDummy, StopProcessThread, mainVars, dummyVars, paVars, pmVars
<1>1. MainTypes' /\ DummyTypes'
  BY DEF IInv, TypeOK, MainTypes, DummyTypes
<1>2. PaTypes' /\ PmTypes'
  BY DEF IInv, TypeOK, PaTypes, PmTypes
<1>3. Kinds' /\ QueuesUp' /\ NotYet' /\ AudioUp' /\ MidiUp'
  BY DEF IInv, Kinds, QueuesUp, NotYet, AudioUp, MidiUp
<1>4. Quitting' /\ DummyInstalled' /\ PortMidiUp'
  BY DEF IInv, TypeOK, MainTypes, DummyTypes, MidiUp, Quitting, DummyInstalled, PortMidiUp
<1> QED
  BY <1>1, <1>2, <1>3, <1>4 DEF IInv, TypeOK

LEMMA JoinProcessThreadKeeps == IInv /\ JoinProcessThread => IInv'
<1> SUFFICES ASSUME IInv, JoinProcessThread PROVE IInv'
  OBVIOUS
<1> USE DEF JoinProcessThread, mainVars, dummyVars, paVars, pmVars
<1>1. MainTypes' /\ DummyTypes'
  BY DEF IInv, TypeOK, MainTypes, DummyTypes
<1>2. PaTypes' /\ PmTypes'
  BY DEF IInv, TypeOK, PaTypes, PmTypes
<1>3. Kinds' /\ QueuesUp' /\ NotYet' /\ AudioUp' /\ MidiUp'
  BY DEF IInv, Kinds, QueuesUp, NotYet, AudioUp, MidiUp
<1>4. Quitting' /\ DummyInstalled' /\ PortMidiUp'
  BY DEF IInv, MidiUp, Quitting, DummyInstalled, PortMidiUp
<1> QED
  BY <1>1, <1>2, <1>3, <1>4 DEF IInv, TypeOK

LEMMA DestroyPortAudioKeeps == IInv /\ DestroyPortAudio => IInv'
<1> SUFFICES ASSUME IInv, DestroyPortAudio PROVE IInv'
  OBVIOUS
<1> USE DEF DestroyPortAudio, StreamCloses, mainVars, dummyVars, paVars, pmVars
<1>1. MainTypes' /\ DummyTypes'
  BY DEF IInv, TypeOK, MainTypes, DummyTypes
<1>2. PaTypes' /\ PmTypes'
  BY DEF IInv, TypeOK, PaTypes, PmTypes
<1>3. Kinds' /\ QueuesUp' /\ NotYet' /\ AudioUp' /\ MidiUp'
  BY DEF IInv, Kinds, QueuesUp, NotYet, AudioUp, MidiUp
<1>4. Quitting' /\ DummyInstalled' /\ PortMidiUp'
  BY DEF IInv, TypeOK, MainTypes, MidiUp, Quitting, DummyInstalled, PortMidiUp
<1> QED
  BY <1>1, <1>2, <1>3, <1>4 DEF IInv, TypeOK

LEMMA DestroyPortMidiKeeps == IInv /\ DestroyPortMidi => IInv'
<1> SUFFICES ASSUME IInv, DestroyPortMidi PROVE IInv'
  OBVIOUS
<1> USE DEF DestroyPortMidi, PortMidiGone, mainVars, dummyVars, paVars, pmVars
<1>1. MainTypes' /\ DummyTypes'
  BY DEF IInv, TypeOK, MainTypes, DummyTypes
<1>2. PmTypes'
  <2>1. closing = MIDI /\ mpc = "shutdown" /\ backends[MIDI] = "portmidi"
    BY DEF IInv, Kinds, TypeOK, MainTypes
  <2>a. initialized
    BY <2>1 DEF IInv, PortMidiUp
  <2>b. pm.count > 0
    BY <2>a DEF IInv, PortMidiUp
  <2>2. pm' \in [count : Nat, up : BOOLEAN, leaked : BOOLEAN]
    BY <2>b, PmCalls DEF IInv, TypeOK, PmTypes, PmCounter
  <2> QED
    BY <2>2 DEF IInv, TypeOK, PmTypes
<1>3. PaTypes'
  BY DEF IInv, TypeOK, PaTypes
<1>4. Kinds' /\ QueuesUp' /\ NotYet' /\ AudioUp' /\ MidiUp'
  BY DEF IInv, Kinds, QueuesUp, NotYet, AudioUp, MidiUp
<1>5. Quitting' /\ DummyInstalled' /\ PortMidiUp'
  BY DEF IInv, TypeOK, MainTypes, Kinds, Quitting, DummyInstalled, PortMidiUp
<1> QED
  BY <1>1, <1>2, <1>3, <1>4, <1>5 DEF IInv, TypeOK

LEMMA FreeQueueKeeps == IInv /\ FreeQueue => IInv'
<1> SUFFICES ASSUME IInv, FreeQueue PROVE IInv'
  OBVIOUS
<1> USE DEF FreeQueue, Afterwards, mainVars, dummyVars, paVars, pmVars
<1>1. MainTypes' /\ DummyTypes'
  BY DEF IInv, TypeOK, MainTypes, DummyTypes
<1>2. PaTypes' /\ PmTypes'
  BY DEF IInv, TypeOK, PaTypes, PmTypes
<1>3. Kinds' /\ QueuesUp' /\ NotYet' /\ AudioUp' /\ MidiUp'
  BY DEF IInv, TypeOK, MainTypes, Kinds, QueuesUp, NotYet, AudioUp, MidiUp
<1>4. Quitting' /\ DummyInstalled' /\ PortMidiUp'
  BY DEF IInv, TypeOK, MainTypes, MidiUp, Quitting, DummyInstalled, PortMidiUp
<1> QED
  BY <1>1, <1>2, <1>3, <1>4 DEF IInv, TypeOK

LEMMA NothingToDestroyKeeps == IInv /\ NothingToDestroy => IInv'
<1> SUFFICES ASSUME IInv, NothingToDestroy PROVE IInv'
  OBVIOUS
<1> USE DEF NothingToDestroy, Afterwards, mainVars, dummyVars, paVars, pmVars
<1>1. MainTypes' /\ DummyTypes'
  BY DEF IInv, TypeOK, MainTypes, DummyTypes
<1>2. PaTypes' /\ PmTypes'
  BY DEF IInv, TypeOK, PaTypes, PmTypes
<1>3. Kinds' /\ QueuesUp' /\ NotYet' /\ AudioUp' /\ MidiUp'
  BY DEF IInv, Kinds, QueuesUp, NotYet, AudioUp, MidiUp
<1>4. Quitting' /\ DummyInstalled' /\ PortMidiUp'
  BY DEF IInv, MidiUp, Quitting, DummyInstalled, PortMidiUp
<1> QED
  BY <1>1, <1>2, <1>3, <1>4 DEF IInv, TypeOK

LEMMA ExitKeeps == IInv /\ Exit => IInv'
<1> SUFFICES ASSUME IInv, Exit PROVE IInv'
  OBVIOUS
<1> USE DEF Exit, mainVars, dummyVars, paVars, pmVars
<1>1. MainTypes' /\ DummyTypes'
  BY DEF IInv, TypeOK, MainTypes, DummyTypes
<1>2. PaTypes' /\ PmTypes'
  BY DEF IInv, TypeOK, PaTypes, PmTypes
<1>3. Kinds' /\ QueuesUp' /\ NotYet' /\ AudioUp' /\ MidiUp'
  BY DEF IInv, Kinds, QueuesUp, NotYet, AudioUp, MidiUp
<1>4. Quitting' /\ DummyInstalled' /\ PortMidiUp'
  BY DEF IInv, MidiUp, Quitting, DummyInstalled, PortMidiUp
<1> QED
  BY <1>1, <1>2, <1>3, <1>4 DEF IInv, TypeOK

LEMMA ReadyNowKeeps == IInv /\ ReadyNow => IInv'
<1> SUFFICES ASSUME IInv, ReadyNow PROVE IInv'
  OBVIOUS
<1> USE DEF ReadyNow, mainVars, dummyVars, paVars, pmVars
<1>1. MainTypes' /\ DummyTypes'
  BY DEF IInv, TypeOK, MainTypes, DummyTypes
<1>2. PaTypes' /\ PmTypes'
  BY DEF IInv, TypeOK, PaTypes, PmTypes
<1>3. Kinds' /\ QueuesUp' /\ NotYet' /\ AudioUp' /\ MidiUp'
  BY DEF IInv, Kinds, QueuesUp, NotYet, AudioUp, MidiUp
<1>4. Quitting' /\ DummyInstalled' /\ PortMidiUp'
  BY DEF IInv, MidiUp, Quitting, DummyInstalled, PortMidiUp
<1> QED
  BY <1>1, <1>2, <1>3, <1>4 DEF IInv, TypeOK

LEMMA ProcessWaitsKeeps == IInv /\ ProcessWaits => IInv'
<1> SUFFICES ASSUME IInv, ProcessWaits PROVE IInv'
  OBVIOUS
<1> USE DEF ProcessWaits, mainVars, dummyVars, paVars, pmVars
<1>1. MainTypes' /\ DummyTypes'
  BY DEF IInv, TypeOK, MainTypes, DummyTypes
<1>2. PaTypes' /\ PmTypes'
  BY DEF IInv, TypeOK, PaTypes, PmTypes
<1>3. Kinds' /\ QueuesUp' /\ NotYet' /\ AudioUp' /\ MidiUp'
  BY DEF IInv, Kinds, QueuesUp, NotYet, AudioUp, MidiUp
<1>4. Quitting' /\ DummyInstalled' /\ PortMidiUp'
  BY DEF IInv, MidiUp, Quitting, DummyInstalled, PortMidiUp
<1> QED
  BY <1>1, <1>2, <1>3, <1>4 DEF IInv, TypeOK

LEMMA ProcessWakesKeeps == IInv /\ ProcessWakes => IInv'
<1> SUFFICES ASSUME IInv, ProcessWakes PROVE IInv'
  OBVIOUS
<1> USE DEF ProcessWakes, mainVars, dummyVars, paVars, pmVars
<1>1. MainTypes' /\ DummyTypes'
  BY DEF IInv, TypeOK, MainTypes, DummyTypes
<1>2. PaTypes' /\ PmTypes'
  BY DEF IInv, TypeOK, PaTypes, PmTypes
<1>3. Kinds' /\ QueuesUp' /\ NotYet' /\ AudioUp' /\ MidiUp'
  BY DEF IInv, Kinds, QueuesUp, NotYet, AudioUp, MidiUp
<1>4. Quitting' /\ DummyInstalled' /\ PortMidiUp'
  BY DEF IInv, MidiUp, Quitting, DummyInstalled, PortMidiUp
<1> QED
  BY <1>1, <1>2, <1>3, <1>4 DEF IInv, TypeOK

LEMMA ProcessStepKeeps == IInv /\ ProcessStep => IInv'
<1> SUFFICES ASSUME IInv, ProcessStep PROVE IInv'
  OBVIOUS
<1> USE DEF ProcessStep, NextQueue, Reading, mainVars, dummyVars, paVars, pmVars
<1>1. MainTypes' /\ DummyTypes'
  BY DEF IInv, TypeOK, MainTypes, DummyTypes
<1>2. PaTypes' /\ PmTypes'
  BY DEF IInv, TypeOK, PaTypes, PmTypes
<1>3. Kinds' /\ QueuesUp' /\ NotYet' /\ AudioUp' /\ MidiUp'
  BY DEF IInv, Kinds, QueuesUp, NotYet, AudioUp, MidiUp
<1>4. Quitting' /\ DummyInstalled' /\ PortMidiUp'
  BY DEF IInv, MidiUp, Quitting, DummyInstalled, PortMidiUp
<1> QED
  BY <1>1, <1>2, <1>3, <1>4 DEF IInv, TypeOK

LEMMA CallbackBeginsKeeps == IInv /\ CallbackBegins => IInv'
<1> SUFFICES ASSUME IInv, CallbackBegins PROVE IInv'
  OBVIOUS
<1> USE DEF CallbackBegins, mainVars, dummyVars, paVars, pmVars
<1>1. MainTypes' /\ DummyTypes'
  BY DEF IInv, TypeOK, MainTypes, DummyTypes
<1>2. PaTypes' /\ PmTypes'
  BY DEF IInv, TypeOK, PaTypes, PmTypes
<1>3. Kinds' /\ QueuesUp' /\ NotYet' /\ AudioUp' /\ MidiUp'
  BY DEF IInv, Kinds, QueuesUp, NotYet, AudioUp, MidiUp
<1>4. Quitting' /\ DummyInstalled' /\ PortMidiUp'
  BY DEF IInv, MidiUp, Quitting, DummyInstalled, PortMidiUp
<1> QED
  BY <1>1, <1>2, <1>3, <1>4 DEF IInv, TypeOK

LEMMA CallbackEndsKeeps == IInv /\ CallbackEnds => IInv'
<1> SUFFICES ASSUME IInv, CallbackEnds PROVE IInv'
  OBVIOUS
<1> USE DEF CallbackEnds, mainVars, dummyVars, paVars, pmVars
<1>1. MainTypes' /\ DummyTypes'
  BY DEF IInv, TypeOK, MainTypes, DummyTypes
<1>2. PaTypes' /\ PmTypes'
  BY DEF IInv, TypeOK, PaTypes, PmTypes
<1>3. Kinds' /\ QueuesUp' /\ NotYet' /\ AudioUp' /\ MidiUp'
  BY DEF IInv, Kinds, QueuesUp, NotYet, AudioUp, MidiUp
<1>4. Quitting' /\ DummyInstalled' /\ PortMidiUp'
  BY DEF IInv, MidiUp, Quitting, DummyInstalled, PortMidiUp
<1> QED
  BY <1>1, <1>2, <1>3, <1>4 DEF IInv, TypeOK

LEMMA TimerBeginsKeeps == IInv /\ TimerBegins => IInv'
<1> SUFFICES ASSUME IInv, TimerBegins PROVE IInv'
  OBVIOUS
<1> USE DEF TimerBegins, mainVars, dummyVars, paVars, pmVars
<1>1. MainTypes' /\ DummyTypes'
  BY DEF IInv, TypeOK, MainTypes, DummyTypes
<1>2. PaTypes' /\ PmTypes'
  BY DEF IInv, TypeOK, PaTypes, PmTypes
<1>3. Kinds' /\ QueuesUp' /\ NotYet' /\ AudioUp' /\ MidiUp'
  BY DEF IInv, Kinds, QueuesUp, NotYet, AudioUp, MidiUp
<1>4. Quitting' /\ DummyInstalled' /\ PortMidiUp'
  BY DEF IInv, MidiUp, Quitting, DummyInstalled, PortMidiUp
<1> QED
  BY <1>1, <1>2, <1>3, <1>4 DEF IInv, TypeOK

LEMMA TimerEndsKeeps == IInv /\ TimerEnds => IInv'
<1> SUFFICES ASSUME IInv, TimerEnds PROVE IInv'
  OBVIOUS
<1> USE DEF TimerEnds, mainVars, dummyVars, paVars, pmVars
<1>1. MainTypes' /\ DummyTypes'
  BY DEF IInv, TypeOK, MainTypes, DummyTypes
<1>2. PaTypes' /\ PmTypes'
  BY DEF IInv, TypeOK, PaTypes, PmTypes
<1>3. Kinds' /\ QueuesUp' /\ NotYet' /\ AudioUp' /\ MidiUp'
  BY DEF IInv, Kinds, QueuesUp, NotYet, AudioUp, MidiUp
<1>4. Quitting' /\ DummyInstalled' /\ PortMidiUp'
  BY DEF IInv, MidiUp, Quitting, DummyInstalled, PortMidiUp
<1> QED
  BY <1>1, <1>2, <1>3, <1>4 DEF IInv, TypeOK

LEMMA InitIInv == Init => IInv
<1> SUFFICES ASSUME Init PROVE IInv
  OBVIOUS
<1> USE DEF Init
<1>1. MainTypes /\ DummyTypes
  BY DEF MainTypes, DummyTypes
<1>2. PaTypes /\ PmTypes
  <2>1. warned = [call |-> "none", device |-> "default"]
    OBVIOUS
  <2>2. [call |-> "none", device |-> "default"] \in
            [call : {"none"} \cup Failures, device : {"default"} \cup STRING]
    OBVIOUS
  <2>3. warned \in [call : {"none"} \cup Failures, device : {"default"} \cup STRING]
    BY ONLY <2>1, <2>2
  <2>4. pm \in [count : Nat, up : BOOLEAN, leaked : BOOLEAN]
    OBVIOUS
  <2> QED
    BY <2>3, <2>4 DEF PaTypes, PmTypes
<1>3. Kinds /\ QueuesUp /\ NotYet /\ AudioUp /\ MidiUp
  BY DEF Kinds, QueuesUp, NotYet, AudioUp, MidiUp
<1>4. Quitting /\ DummyInstalled /\ PortMidiUp
  BY DEF Quitting, DummyInstalled, PortMidiUp
<1> QED
  BY <1>1, <1>2, <1>3, <1>4 DEF IInv, TypeOK

LEMMA StutterKeeps == IInv /\ UNCHANGED vars => IInv'
<1> SUFFICES ASSUME IInv, UNCHANGED vars PROVE IInv'
  OBVIOUS
<1> USE DEF vars, mainVars, dummyVars, paVars, pmVars, IInv, TypeOK
<1>1. MainTypes' /\ DummyTypes'
  BY DEF MainTypes, DummyTypes
<1>2. PaTypes' /\ PmTypes'
  BY DEF PaTypes, PmTypes
<1>3. Kinds' /\ QueuesUp' /\ NotYet' /\ AudioUp' /\ MidiUp'
  BY DEF Kinds, QueuesUp, NotYet, AudioUp, MidiUp
<1>4. Quitting' /\ DummyInstalled' /\ PortMidiUp'
  BY DEF Quitting, DummyInstalled, PortMidiUp
<1> QED
  BY <1>1, <1>2, <1>3, <1>4

LEMMA NextKeeps == IInv /\ [Next]_vars => IInv'
BY NewQueuesKeeps, AudioIsDummyKeeps, AudioIsPortAudioKeeps, PortAudioOpensKeeps,
   AudioFallsBackKeeps, MidiIsDummyKeeps, MidiIsPortMidiKeeps, MidiFallsBackKeeps,
   CreateQueueThreadKeeps, CancelSetupKeeps, DestroyDummyKeeps, JoinProcessThreadKeeps,
   DestroyPortAudioKeeps, DestroyPortMidiKeeps, FreeQueueKeeps, NothingToDestroyKeeps,
   ExitKeeps, ReadyNowKeeps, ProcessWaitsKeeps, ProcessWakesKeeps, ProcessStepKeeps, CallbackBeginsKeeps,
   CallbackEndsKeeps, TimerBeginsKeeps, TimerEndsKeeps, StutterKeeps DEF Next, Initialize,
   ShutDown, Process, LibraryThreads

(* Inductive: the invariant of Subsystem.tla, whatever fails. *)
THEOREM Inductive == Spec => []IInv
BY InitIInv, NextKeeps, PTL DEF Spec

(* The type invariant; the counter of portmidiutil.c never goes below zero, *)
(* with every wrapper's failure allowed.                                    *)
THEOREM TypeCorrect == Spec => []TypeOK
BY Inductive, PTL DEF IInv

(* The process thread of dummybackend.c, started by whichever dummy backend *)
(* came first, is told to quit only when both are gone.                     *)
THEOREM DummyAlwaysServed == Spec => []DummyServed
<1>1. IInv => DummyServed
  BY DEF IInv, Quitting, DummyServed
<1> QED
  BY <1>1, Inductive, PTL

-------------------------------------------------------------------------------
(* PortMidi: a count for the backend, and one for a query that failed *)

PmState(p, up, leaked) ==
  /\ p \in PmCounter
  /\ p.count = (IF up THEN 1 ELSE 0) + (IF leaked THEN 1 ELSE 0)
  /\ p.up <=> up /\ ~leaked
  /\ p.leaked <=> leaked

(* A call changes the parts of the counter as follows. *)
LEMMA PmParts ==
  ASSUME NEW p, NEW e
  PROVE  /\ PmInitialize(p, e).count = p.count + 1
         /\ PmInitialize(p, e).up = IF p.count = 0 THEN ~e ELSE p.up
         /\ PmInitialize(p, e).leaked = p.leaked
         /\ PmTerminate(p).count = p.count - 1
         /\ PmTerminate(p).up = (p.count # 1 /\ p.up)
         /\ PmTerminate(p).leaked = p.leaked
BY Zenon DEF PmInitialize, PmTerminate

LEMMA PmInitialized ==
  ASSUME NEW p, NEW l \in BOOLEAN, NEW e \in BOOLEAN, PmState(p, FALSE, l), ~PmFails(p, e)
  PROVE  PmState(PmInitialize(p, e), TRUE, l)
<1> DEFINE q == PmInitialize(p, e)
<1>1. q \in PmCounter
  BY PmCalls DEF PmState
<1>2. q.count = p.count + 1 /\ q.up = (IF p.count = 0 THEN ~e ELSE p.up) /\ q.leaked = p.leaked
  BY PmParts
<1> HIDE DEF q
<1>3. ASSUME l PROVE PmState(q, TRUE, l)
  <2>1. p.count = 1 /\ ~p.up /\ p.leaked
    BY <1>3 DEF PmState
  <2>2. q.count = 2
    BY <1>2, <2>1
  <2>3. q.up = p.up
    BY <1>2, <2>1
  <2>4. ~q.up /\ q.leaked
    BY <1>2, <2>1, <2>3
  <2> QED
    BY <1>1, <1>3, <2>2, <2>4 DEF PmState
<1>4. ASSUME ~l PROVE PmState(q, TRUE, l)
  <2>1. p.count = 0 /\ ~p.leaked
    BY <1>4 DEF PmState
  <2>2. q.count = 1
    BY <1>2, <2>1
  <2>3. q.up = ~e /\ ~e
    BY <1>2, <2>1 DEF PmFails
  <2>4. q.up /\ ~q.leaked
    BY <1>2, <2>1, <2>3
  <2> QED
    BY <1>1, <1>4, <2>2, <2>4 DEF PmState
<1> QED
  BY <1>3, <1>4 DEF q

LEMMA PmTerminated ==
  ASSUME NEW p, NEW l \in BOOLEAN, PmState(p, TRUE, l)
  PROVE  PmState(PmTerminate(p), FALSE, l)
<1> DEFINE q == PmTerminate(p)
<1>1. q \in PmCounter
  <2>1. p.count > 0
    BY DEF PmState
  <2> QED
    BY <2>1, PmCalls DEF PmState
<1>2. q.count = p.count - 1 /\ q.up = (p.count # 1 /\ p.up) /\ q.leaked = p.leaked
  BY PmParts
<1> HIDE DEF q
<1>3. ASSUME l PROVE PmState(q, FALSE, l)
  <2>1. p.count = 2 /\ ~p.up /\ p.leaked
    BY <1>3 DEF PmState
  <2>2. q.count = 1
    BY <1>2, <2>1
  <2>3. ~q.up /\ q.leaked
    BY <1>2, <2>1
  <2> QED
    BY <1>1, <1>3, <2>2, <2>3 DEF PmState
<1>4. ASSUME ~l PROVE PmState(q, FALSE, l)
  <2>1. p.count = 1 /\ ~p.leaked
    BY <1>4 DEF PmState
  <2>2. q.count = 0
    BY <1>2, <2>1
  <2>3. ~q.up /\ ~q.leaked
    BY <1>2, <2>1
  <2> QED
    BY <1>1, <1>4, <2>2, <2>3 DEF PmState
<1> QED
  BY <1>3, <1>4 DEF q

(* A query of PortMidi leaves the counter as it was, unless it fails. *)
LEMMA PmQueried ==
  ASSUME NEW p, NEW l \in BOOLEAN, NEW e \in BOOLEAN, PmState(p, FALSE, l)
  PROVE  PmState(PmQuery(p, e), FALSE, l \/ e)
<1> DEFINE q == PmInitialize(p, e)
           r == [count |-> q.count, up |-> q.up, leaked |-> TRUE]
<1>1. PmFails(p, e) <=> ~l /\ e
  BY DEF PmFails, PmState
<1>2. ASSUME ~l, e PROVE PmState(PmQuery(p, e), FALSE, l \/ e)
  <2>1. PmQuery(p, e) = r
    BY <1>1, <1>2 DEF PmQuery
  <2>2. q.count = p.count + 1 /\ q.up = IF p.count = 0 THEN ~e ELSE p.up
    BY PmParts
  <2>3. p.count = 0
    BY <1>2 DEF PmState
  <2> HIDE DEF q
  <2>4. q.count = 1 /\ q.up = FALSE
    BY <1>2, <2>2, <2>3
  <2>5. r = [count |-> 1, up |-> FALSE, leaked |-> TRUE]
    BY <2>4
  <2>6. [count |-> 1, up |-> FALSE, leaked |-> TRUE] \in PmCounter
    BY DEF PmCounter
  <2> HIDE DEF r
  <2>7. r \in PmCounter
    BY <2>5, <2>6
  <2>8. r.count = 1
    BY <2>5
  <2>9. r.up = FALSE
    BY <2>5
  <2>10. r.leaked = TRUE
    BY <2>5
  <2>11. PmState(r, FALSE, TRUE)
    BY <2>7, <2>8, <2>9, <2>10 DEF PmState
  <2>12. (l \/ e) = TRUE
    BY <1>2
  <2> QED
    BY <2>1, <2>11, <2>12
<1>3. CASE ~(~l /\ e)
  <2>1. PmQuery(p, e) = PmTerminate(q)
    BY <1>1, <1>3 DEF PmQuery
  <2>2. PmState(q, TRUE, l)
    BY <1>1, <1>3, PmInitialized
  <2>3. PmState(PmTerminate(q), FALSE, l) /\ (l <=> l \/ e)
    BY <1>3, <2>2, PmTerminated
  <2> QED
    BY <2>1, <2>3 DEF PmState
<1> QED
  BY <1>2, <1>3

(* portmidi_initialize with the wrapper failing, and with it succeeding. *)
LEMMA PmGivenUp ==
  ASSUME NEW p, PmState(p, FALSE, FALSE)
  PROVE  PmState(PmTerminate(PmInitialize(p, TRUE)), FALSE, FALSE)
<1> DEFINE q == PmInitialize(p, TRUE)
           t == PmTerminate(q)
<1>1. p.count = 0 /\ ~p.leaked
  BY DEF PmState
<1>2. q.count = p.count + 1 /\ q.up = (IF p.count = 0 THEN ~TRUE ELSE p.up) /\ q.leaked = p.leaked
  BY PmParts
<1>3. q \in PmCounter
  BY PmCalls DEF PmState
<1> HIDE DEF q
<1>4. q.count = 1
  BY <1>1, <1>2
<1>5. ~q.up
  BY <1>1, <1>2
<1>6. ~q.leaked
  BY <1>1, <1>2
<1>7. t.count = q.count - 1 /\ t.up = (q.count # 1 /\ q.up) /\ t.leaked = q.leaked
  BY PmParts
<1>8. t \in PmCounter
  <2>1. q.count > 0
    BY <1>4
  <2> QED
    BY <1>3, <2>1, PmCalls
<1> HIDE DEF t
<1>9. t.count = 0
  BY <1>4, <1>7
<1>10. ~t.up
  BY <1>5, <1>7
<1>11. ~t.leaked
  BY <1>6, <1>7
<1>12. PmState(t, FALSE, FALSE)
  BY <1>8, <1>9, <1>10, <1>11 DEF PmState
<1> QED
  BY <1>12 DEF t, q

LEMMA PmUsed ==
  ASSUME NEW p, NEW l \in BOOLEAN, PmState(p, TRUE, l)
  PROVE  PmState(PmQuery(p, FALSE), TRUE, l)
<1> DEFINE q == PmInitialize(p, FALSE)
<1>1. p \in PmCounter /\ p.count # 0 /\ p.count \in Nat
  BY DEF PmState, PmCounter
<1>2. PmQuery(p, FALSE) = PmTerminate(q)
  BY DEF PmQuery, PmFails
<1>3. q \in PmCounter /\ q.count = p.count + 1 /\ q.up = p.up /\ q.leaked = p.leaked
  <2>1. (IF p.count = 0 THEN ~FALSE ELSE p.up) = p.up
    BY <1>1
  <2> QED
    BY <1>1, <2>1, PmParts, PmCalls
<1> HIDE DEF q
<1>4. q.count > 0 /\ q.count # 1
  BY <1>1, <1>3
<1>5. PmTerminate(q) \in PmCounter /\ PmTerminate(q).count = p.count
      /\ PmTerminate(q).up = (q.count # 1 /\ q.up) /\ PmTerminate(q).leaked = p.leaked
  <2>1. PmTerminate(q).count = q.count - 1 /\ PmTerminate(q).leaked = q.leaked
        /\ PmTerminate(q).up = (q.count # 1 /\ q.up)
    BY PmParts
  <2>2. PmTerminate(q) \in PmCounter
    BY <1>3, <1>4, PmCalls
  <2>3. q.count - 1 = p.count
    BY <1>1, <1>3
  <2> QED
    BY <1>3, <2>1, <2>2, <2>3
<1>6. (q.count # 1 /\ q.up) <=> p.up
  BY <1>3, <1>4
<1> QED
  BY <1>2, <1>5, <1>6 DEF PmState

LEMMA PmKept ==
  ASSUME IInv, PmBalanced, [Next]_vars
  PROVE  \E l \in BOOLEAN : PmState(pm', initialized', l)
<1> DEFINE k == pm.leaked
<1>0. pm \in PmCounter /\ initialized \in BOOLEAN /\ k \in BOOLEAN
  BY DEF IInv, TypeOK, PmTypes, PmCounter
<1>1. PmState(pm, initialized, k)
  BY <1>0 DEF PmBalanced, PmState
<1> HIDE DEF k
<1>2. CASE AudioIsPortAudio
  <2>1. initialized = FALSE /\ initialized' = FALSE
    BY <1>0, <1>2 DEF AudioIsPortAudio, IInv, NotYet
  <2>2. PICK e1 \in BOOLEAN, e2 \in BOOLEAN : pm' = PmQuery(PmQuery(pm, e1), e2)
    BY <1>2 DEF AudioIsPortAudio
  <2>3. PmState(pm, FALSE, k)
    BY <1>1, <2>1
  <2>4. (k \/ e1) \in BOOLEAN /\ ((k \/ e1) \/ e2) \in BOOLEAN
    OBVIOUS
  <2>5. PmState(PmQuery(pm, e1), FALSE, k \/ e1)
    BY <1>0, <2>3, PmQueried
  <2>6. PmState(PmQuery(PmQuery(pm, e1), e2), FALSE, (k \/ e1) \/ e2)
    BY <2>4, <2>5, PmQueried
  <2> QED
    BY <2>1, <2>2, <2>4, <2>6
<1>3. CASE MidiIsPortMidi
  <2>1. initialized = FALSE
    BY <1>0, <1>3 DEF MidiIsPortMidi, IInv, NotYet
  <2>2. PmState(pm, FALSE, k)
    BY <1>1, <2>1
  <2>3. CASE TimerFails
    BY <1>0, <2>1, <2>2, <2>3 DEF TimerFails
  <2>4. ASSUME NEW e \in BOOLEAN, InputFails(e)
        PROVE  PmState(pm', initialized', k)
    <3>1. initialized' = FALSE
          /\ pm' = PmTerminate(IF PmFails(pm, e) THEN PmInitialize(pm, e)
                                                ELSE PmQuery(PmInitialize(pm, e), FALSE))
      BY <2>4 DEF InputFails, PortMidiGone
    <3>2. CASE PmFails(pm, e)
      <4>1. e = TRUE /\ k = FALSE
        BY <1>0, <2>2, <3>2 DEF PmFails, PmState
      <4>2. PmState(PmTerminate(PmInitialize(pm, TRUE)), FALSE, FALSE)
        BY <2>2, <3>2, <4>1, PmGivenUp
      <4> QED
        BY <3>1, <3>2, <4>1, <4>2
    <3>3. CASE ~PmFails(pm, e)
      <4>1. PmState(PmInitialize(pm, e), TRUE, k)
        BY <1>0, <2>2, <3>3, PmInitialized
      <4>2. PmState(PmQuery(PmInitialize(pm, e), FALSE), TRUE, k)
        BY <1>0, <4>1, PmUsed
      <4> QED
        BY <1>0, <3>1, <3>3, <4>2, PmTerminated
    <3> QED
      BY <3>2, <3>3
  <2>5. ASSUME NEW e \in BOOLEAN, NEW open \in BOOLEAN, InputOpens(e, open)
        PROVE  PmState(pm', initialized', k)
    <3>1. ~PmFails(pm, e) /\ pm' = PmInitialize(pm, e) /\ initialized' = TRUE
      BY <2>5 DEF InputOpens
    <3> QED
      BY <1>0, <2>2, <3>1, PmInitialized
  <2>6. TimerFails \/ \E e \in BOOLEAN :
          InputFails(e) \/ \E open \in BOOLEAN : InputOpens(e, open)
    BY <1>3 DEF MidiIsPortMidi
  <2> QED
    BY <1>0, <2>3, <2>4, <2>5, <2>6
<1>4. CASE DestroyPortMidi
  <2>1. closing = MIDI /\ mpc = "shutdown" /\ backends[MIDI] = "portmidi"
    BY <1>4 DEF DestroyPortMidi, IInv, Kinds, TypeOK, MainTypes
  <2>2. PmState(pm, TRUE, k)
    <3>1. initialized = TRUE
      BY <1>0, <2>1 DEF IInv, PortMidiUp
    <3> QED
      BY <1>1, <3>1
  <2>3. pm' = PmTerminate(pm) /\ initialized' = FALSE
    BY <1>4 DEF DestroyPortMidi, PortMidiGone
  <2> QED
    BY <1>0, <2>2, <2>3, PmTerminated
<1>5. CASE UNCHANGED <<initialized, pm>>
  BY <1>0, <1>1, <1>5
<1> QED
  BY <1>2, <1>3, <1>4, <1>5
  DEF Next, Initialize, ShutDown, Process, LibraryThreads, vars, pmVars, dummyVars, paVars, mainVars,
      NewQueues, AudioIsDummy, PortAudioOpens, AudioFallsBack, MidiIsDummy, MidiFallsBack,
      CreateQueueThread, CancelSetup, DestroyDummy, JoinProcessThread, DestroyPortAudio,
      FreeQueue, NothingToDestroy, Exit, ReadyNow, ProcessWaits, ProcessWakes, ProcessStep,
      CallbackBegins, CallbackEnds, TimerBegins, TimerEnds

LEMMA PmCounts ==
  ASSUME IInv, PmBalanced, [Next]_vars
  PROVE  PmBalanced'
<1>1. PICK l \in BOOLEAN : PmState(pm', initialized', l)
  BY PmKept
<1> QED
  BY <1>1 DEF PmBalanced, PmState

(* PortMidi is initialized while its backend is and terminated once, and   *)
(* one count is left behind at most, whatever fails: Pm_Initialize, the    *)
(* timer or the input.                                                     *)
THEOREM PortMidiCounted == Spec => []PmBalanced
<1>1. Init => PmBalanced
  BY DEF Init, PmBalanced
<1>2. IInv /\ PmBalanced /\ [Next]_vars => PmBalanced'
  BY PmCounts
<1> QED
  BY <1>1, <1>2, Inductive, PTL DEF Spec

(* audio_initialize reports success only if both backends work; PortMidi   *)
(* itself is missing then if and only if a query of it has failed, which   *)
(* nothing but Pm_Initialize can bring about.                              *)
THEOREM SuccessAlwaysWhole == Spec => []SuccessIsWhole
<1>1. IInv /\ PmBalanced => SuccessIsWhole
  <2> SUFFICES ASSUME IInv, PmBalanced, mpc = "running" PROVE SuccessIsWhole
    BY DEF SuccessIsWhole
  <2>1. initialized => (pm.up <=> ~pm.leaked)
    BY DEF PmBalanced
  <2> QED
    BY <2>1 DEF IInv, QueuesUp, AudioUp, MidiUp, SuccessIsWhole
<1> QED
  BY <1>1, Inductive, PortMidiCounted, PTL

-------------------------------------------------------------------------------
(* The queues *)

LEMMA SafeKept ==
  ASSUME IInv, SafeInv, [Next]_vars
  PROVE  SafeInv'
<1> USE DEF mainVars, dummyVars, paVars, pmVars, SafeInv
<1>1. CASE NewQueues
  <2> USE <1>1 DEF NewQueues
  <2>1. StreamOwned'
    BY DEF StreamOwned
  <2>2. InputOwned'
    BY DEF InputOwned
  <2>3. AudioFirst'
    BY DEF AudioFirst
  <2>4. ThreadOwned'
    BY DEF ThreadOwned
  <2> QED
    BY <2>1, <2>2, <2>3, <2>4
<1>2. CASE AudioIsPortAudio
  <2> USE <1>2 DEF AudioIsPortAudio
  <2>1. StreamOwned'
    BY DEF StreamOwned
  <2>2. InputOwned'
    BY DEF InputOwned
  <2>3. AudioFirst'
    BY DEF AudioFirst
  <2>4. ThreadOwned'
    BY DEF ThreadOwned
  <2> QED
    BY <2>1, <2>2, <2>3, <2>4
<1>3. CASE PortAudioOpens
  <2> USE <1>3 DEF PortAudioOpens, Failures
  <2>1. StreamOwned'
    BY DEF StreamOwned, IInv, TypeOK, MainTypes, DummyTypes, PaTypes, PmTypes, Kinds,
       QueuesUp, NotYet, AudioUp, MidiUp, Quitting, DummyInstalled, PortMidiUp
  <2>2. InputOwned'
    BY DEF InputOwned
  <2>3. AudioFirst'
    BY DEF AudioFirst
  <2>4. ThreadOwned'
    BY DEF ThreadOwned
  <2> QED
    BY <2>1, <2>2, <2>3, <2>4
<1>4. CASE AudioFallsBack
  <2> USE <1>4 DEF AudioFallsBack, DummyInitialize, StartProcessThread
  <2>1. StreamOwned'
    BY DEF StreamOwned
  <2>2. InputOwned'
    BY DEF InputOwned
  <2>3. AudioFirst'
    BY DEF IInv, AudioFirst, TypeOK, MainTypes, NotYet
  <2>4. ThreadOwned'
    BY DEF IInv, ThreadOwned, TypeOK, MainTypes, DummyTypes
  <2> QED
    BY <2>1, <2>2, <2>3, <2>4
<1>5. CASE MidiIsDummy
  <2> USE <1>5 DEF MidiIsDummy, DummyInitialize, StartProcessThread
  <2>1. StreamOwned'
    BY DEF StreamOwned
  <2>2. InputOwned'
    BY DEF InputOwned
  <2>3. AudioFirst'
    BY DEF AudioFirst
  <2>4. ThreadOwned'
    BY DEF ThreadOwned
  <2> QED
    BY <2>1, <2>2, <2>3, <2>4
<1>6. CASE MidiIsPortMidi
  <2> USE <1>6 DEF MidiIsPortMidi, TimerFails, InputFails, InputOpens, PortMidiGone
  <2>1. StreamOwned'
    BY DEF IInv, StreamOwned, TypeOK, MainTypes
  <2>2. InputOwned'
    <3>1. /\ mpc = "midi" /\ initialized = FALSE /\ tpc = "idle" /\ tpc' = tpc
          /\ queues' = queues /\ backends' = [backends EXCEPT ![MIDI] = "portmidi"]
      BY DEF IInv, NotYet, TypeOK, PmTypes, InputOwned
    <3>2. queues'[MIDI] = "live" /\ backends'[MIDI] = "portmidi"
      BY <3>1 DEF IInv, QueuesUp, TypeOK, MainTypes
    <3>3. InputClosed \/ InputIsOpen(TRUE) \/ InputIsOpen(FALSE)
      BY PortMidiOutcome DEF IInv, TypeOK, PmTypes, PmCounter
    <3>4. CASE InputClosed
      BY <3>1, <3>4 DEF InputClosed, InputOwned
    <3>5. CASE InputIsOpen(TRUE)
      BY <3>1, <3>2, <3>5 DEF InputIsOpen, InputOwned
    <3>6. CASE InputIsOpen(FALSE)
      BY <3>1, <3>6 DEF InputIsOpen, InputOwned
    <3> QED
      BY <3>3, <3>4, <3>5, <3>6
  <2>3. AudioFirst'
    BY DEF IInv, AudioFirst, TypeOK, MainTypes
  <2>4. ThreadOwned'
    <3>1. /\ mpc = "midi" /\ mpc' \notin {"join", "free"}
          /\ backends[MIDI] = "NULL" /\ ~dummy[MIDI]
          /\ UNCHANGED <<closing, queues, dummy, ppc>>
      BY DEF IInv, NotYet
    <3> QED
      BY ONLY <3>1, ThreadOwned DEF ThreadOwned
  <2> QED
    BY <2>1, <2>2, <2>3, <2>4
<1>7. CASE MidiFallsBack
  <2> USE <1>7 DEF MidiFallsBack, DummyInitialize, StartProcessThread
  <2>1. StreamOwned'
    BY DEF IInv, StreamOwned, TypeOK, MainTypes
  <2>2. InputOwned'
    BY DEF InputOwned
  <2>3. AudioFirst'
    BY DEF IInv, AudioFirst, TypeOK, MainTypes
  <2>4. ThreadOwned'
    BY DEF IInv, ThreadOwned, TypeOK, MainTypes, DummyTypes
  <2> QED
    BY <2>1, <2>2, <2>3, <2>4
<1>8. CASE CreateQueueThread
  <2> USE <1>8 DEF CreateQueueThread
  <2>1. StreamOwned'
    BY DEF StreamOwned
  <2>2. InputOwned'
    BY DEF InputOwned
  <2>3. AudioFirst'
    BY DEF AudioFirst
  <2>4. ThreadOwned'
    BY DEF ThreadOwned
  <2> QED
    BY <2>1, <2>2, <2>3, <2>4
<1>9. CASE CancelSetup
  <2> USE <1>9 DEF CancelSetup
  <2>1. StreamOwned'
    BY DEF StreamOwned
  <2>2. InputOwned'
    BY DEF InputOwned
  <2>3. AudioFirst'
    BY DEF AudioFirst
  <2>4. ThreadOwned'
    BY DEF ThreadOwned
  <2> QED
    BY <2>1, <2>2, <2>3, <2>4
<1>10. CASE DestroyDummy
  <2>1. StreamOwned'
    BY <1>10 DEF DestroyDummy, StopProcessThread, StreamOwned
  <2>2. InputOwned'
    BY <1>10 DEF DestroyDummy, StopProcessThread, IInv, InputOwned, TypeOK, MainTypes
  <2>3. AudioFirst'
    BY <1>10 DEF DestroyDummy, StopProcessThread, AudioFirst
  <2>4. ThreadOwned'
    <3>1. /\ mpc = "shutdown" /\ backends[closing] = "dummy" /\ closing \in Backends
          /\ dummy' = [dummy EXCEPT ![closing] = FALSE] /\ dummy \in [Backends -> BOOLEAN]
          /\ UNCHANGED <<closing, queues, backends>>
      BY <1>10 DEF DestroyDummy, IInv, TypeOK, MainTypes, DummyTypes
    <3>2. ThreadOwned /\ queues[MIDI] = "live" /\ (closing = AUDIO => queues[AUDIO] = "live")
      BY <3>1 DEF IInv, QueuesUp
    <3>3. closing = MIDI => ~dummy[AUDIO]
      BY <3>1 DEF IInv, DummyInstalled, AudioFirst
    <3>4. dummy[MIDI] => backends[MIDI] = "dummy"
      BY DEF IInv, DummyInstalled
    <3>5. CASE ppc # "none" /\ \A b \in Backends : ~dummy'[b]
      <4>1. mpc' = "join" /\ ppc' = (IF ppc = "wait" THEN "quit?" ELSE ppc)
        BY <1>10, <3>5 DEF DestroyDummy, StopProcessThread
      <4>2. closing = MIDI \/ ~dummy[MIDI]
        BY <3>1, <3>5
      <4> QED
        BY <3>1, <3>2, <3>3, <3>4, <4>1, <4>2 DEF ThreadOwned
    <3>6. CASE ~(ppc # "none" /\ \A b \in Backends : ~dummy'[b])
      <4>1. mpc' = "free" /\ ppc' = ppc
        BY <1>10, <3>6 DEF DestroyDummy, StopProcessThread
      <4>2. ppc = "none" \/ (dummy[MIDI] /\ closing = AUDIO)
        BY <3>1, <3>3, <3>6
      <4>3. CASE ppc = "none"
        BY <3>1, <4>1, <4>3 DEF ThreadOwned
      <4>4. CASE dummy[MIDI] /\ closing = AUDIO
        <5>1. dummy'[MIDI] /\ backends[MIDI] = "dummy"
          BY <3>1, <3>4, <4>4
        <5> QED
          BY <3>1, <3>2, <4>1, <4>4, <5>1 DEF ThreadOwned
      <4> QED
        BY <4>2, <4>3, <4>4
    <3> QED
      BY <3>5, <3>6
  <2> QED
    BY <2>1, <2>2, <2>3, <2>4
<1>11. CASE JoinProcessThread
  <2> USE <1>11 DEF JoinProcessThread
  <2>1. StreamOwned'
    BY DEF StreamOwned
  <2>2. InputOwned'
    BY DEF InputOwned
  <2>3. AudioFirst'
    BY DEF AudioFirst
  <2>4. ThreadOwned'
    BY DEF ThreadOwned
  <2> QED
    BY <2>1, <2>2, <2>3, <2>4
<1>12. CASE DestroyPortAudio
  <2> USE <1>12 DEF DestroyPortAudio, StreamCloses
  <2>1. StreamOwned'
    BY DEF StreamOwned
  <2>2. InputOwned'
    BY DEF IInv, InputOwned, TypeOK, MainTypes
  <2>3. AudioFirst'
    BY DEF AudioFirst
  <2>4. ThreadOwned'
    BY DEF ThreadOwned
  <2> QED
    BY <2>1, <2>2, <2>3, <2>4
<1>13. CASE DestroyPortMidi
  <2> USE <1>13 DEF DestroyPortMidi, PortMidiGone
  <2>1. StreamOwned'
    BY DEF StreamOwned
  <2>2. InputOwned'
    BY DEF InputOwned
  <2>3. AudioFirst'
    BY DEF AudioFirst
  <2>4. ThreadOwned'
    BY DEF ThreadOwned
  <2> QED
    BY <2>1, <2>2, <2>3, <2>4
<1>14. CASE FreeQueue
  <2> USE <1>14 DEF FreeQueue, Afterwards
  <2>1. StreamOwned'
    BY DEF StreamOwned
  <2>2. InputOwned'
    BY DEF InputOwned
  <2>3. AudioFirst'
    BY DEF IInv, AudioFirst, TypeOK, MainTypes
  <2>4. ThreadOwned'
    BY DEF IInv, ThreadOwned, DummyInstalled
  <2> QED
    BY <2>1, <2>2, <2>3, <2>4
<1>15. CASE NothingToDestroy
  <2> USE <1>15 DEF NothingToDestroy, Afterwards
  <2>1. StreamOwned'
    BY DEF StreamOwned
  <2>2. InputOwned'
    BY DEF IInv, InputOwned, TypeOK, MainTypes
  <2>3. AudioFirst'
    BY DEF AudioFirst
  <2>4. ThreadOwned'
    BY DEF ThreadOwned
  <2> QED
    BY <2>1, <2>2, <2>3, <2>4
<1>16. CASE Exit
  <2> USE <1>16 DEF Exit
  <2>1. StreamOwned'
    BY DEF StreamOwned
  <2>2. InputOwned'
    BY DEF InputOwned
  <2>3. AudioFirst'
    BY DEF AudioFirst
  <2>4. ThreadOwned'
    BY DEF ThreadOwned
  <2> QED
    BY <2>1, <2>2, <2>3, <2>4
<1>17. CASE ReadyNow
  <2> USE <1>17 DEF ReadyNow
  <2>1. StreamOwned'
    BY DEF StreamOwned
  <2>2. InputOwned'
    BY DEF InputOwned
  <2>3. AudioFirst'
    BY DEF AudioFirst
  <2>4. ThreadOwned'
    BY DEF ThreadOwned
  <2> QED
    BY <2>1, <2>2, <2>3, <2>4
<1>18. CASE ProcessWaits \/ ProcessWakes
  <2> USE <1>18 DEF ProcessWaits, ProcessWakes
  <2>1. StreamOwned'
    BY DEF StreamOwned
  <2>2. InputOwned'
    BY DEF InputOwned
  <2>3. AudioFirst'
    BY DEF AudioFirst
  <2>4. ThreadOwned'
    BY DEF ThreadOwned
  <2> QED
    BY <2>1, <2>2, <2>3, <2>4
<1>19. CASE ProcessStep
  <2> USE <1>19 DEF ProcessStep, NextQueue, Reading
  <2>1. StreamOwned'
    BY DEF StreamOwned
  <2>2. InputOwned'
    BY DEF InputOwned
  <2>3. AudioFirst'
    BY DEF AudioFirst
  <2>4. ThreadOwned'
    BY DEF IInv, ThreadOwned, DummyInstalled
  <2> QED
    BY <2>1, <2>2, <2>3, <2>4
<1>20. CASE CallbackBegins
  <2> USE <1>20 DEF CallbackBegins
  <2>1. StreamOwned'
    BY DEF StreamOwned
  <2>2. InputOwned'
    BY DEF InputOwned
  <2>3. AudioFirst'
    BY DEF AudioFirst
  <2>4. ThreadOwned'
    BY DEF ThreadOwned
  <2> QED
    BY <2>1, <2>2, <2>3, <2>4
<1>21. CASE CallbackEnds
  <2> USE <1>21 DEF CallbackEnds
  <2>1. StreamOwned'
    BY DEF StreamOwned
  <2>2. InputOwned'
    BY DEF InputOwned
  <2>3. AudioFirst'
    BY DEF AudioFirst
  <2>4. ThreadOwned'
    BY DEF ThreadOwned
  <2> QED
    BY <2>1, <2>2, <2>3, <2>4
<1>22. CASE TimerBegins
  <2> USE <1>22 DEF TimerBegins
  <2>1. StreamOwned'
    BY DEF StreamOwned
  <2>2. InputOwned'
    BY DEF InputOwned
  <2>3. AudioFirst'
    BY DEF AudioFirst
  <2>4. ThreadOwned'
    BY DEF ThreadOwned
  <2> QED
    BY <2>1, <2>2, <2>3, <2>4
<1>23. CASE TimerEnds
  <2> USE <1>23 DEF TimerEnds
  <2>1. StreamOwned'
    BY DEF StreamOwned
  <2>2. InputOwned'
    BY DEF InputOwned
  <2>3. AudioFirst'
    BY DEF AudioFirst
  <2>4. ThreadOwned'
    BY DEF ThreadOwned
  <2> QED
    BY <2>1, <2>2, <2>3, <2>4
<1>24. CASE AudioIsDummy
  <2> USE <1>24 DEF AudioIsDummy, DummyInitialize, StartProcessThread
  <2>1. StreamOwned'
    BY DEF IInv, NotYet, StreamOwned
  <2>2. InputOwned'
    BY DEF InputOwned
  <2>3. AudioFirst'
    BY DEF AudioFirst
  <2>4. ThreadOwned'
    BY DEF IInv, NotYet, ThreadOwned, TypeOK, MainTypes, DummyTypes
  <2> QED
    BY <2>1, <2>2, <2>3, <2>4
<1>25. CASE UNCHANGED vars
  <2>1. StreamOwned' /\ InputOwned'
    BY <1>25 DEF vars, StreamOwned, InputOwned
  <2>2. AudioFirst' /\ ThreadOwned'
    BY <1>25 DEF vars, AudioFirst, ThreadOwned
  <2> QED
    BY <2>1, <2>2
<1> QED
  BY <1>1, <1>2, <1>3, <1>4, <1>5, <1>6, <1>7, <1>8, <1>9, <1>10, <1>11, <1>12, <1>13, <1>14,
     <1>15, <1>16, <1>17, <1>18, <1>19, <1>20, <1>21, <1>22, <1>23, <1>24, <1>25
  DEF Next, Initialize, ShutDown, Process, LibraryThreads

(* event_queue_free is never called while another thread uses the queue,   *)
(* nor is the queue used later, whichever backends are installed and        *)
(* whatever failed, but for the audio queue after a failing Pa_CloseStream  *)
(* or under two dummies.                                                    *)
THEOREM QueuesUsedAlive == Spec => []NoUseAfterFree
<1>1. Init => SafeInv
  BY DEF Init, SafeInv, StreamOwned, InputOwned, AudioFirst, ThreadOwned
<1>2. IInv /\ SafeInv /\ [Next]_vars => SafeInv'
  BY SafeKept
<1>3. IInv /\ SafeInv => NoUseAfterFree
  BY DEF SafeInv, StreamOwned, InputOwned, ThreadOwned, NoUseAfterFree
<1> QED
  BY <1>1, <1>2, <1>3, Inductive, PTL DEF Spec

(* Whatever PortAudio lists, names that occur twice included, whether the   *)
(* dialog got the list or not, and on Windows too: a device of the list is  *)
(* never missed.                                                            *)
THEOREM DevicesFound == Spec => []ListedDeviceOpens
<1>1. Init => ListedDeviceOpens
  BY DEF Init, ListedDeviceOpens
<1>2. ListedDeviceOpens /\ [Next]_vars => ListedDeviceOpens'
  <2> SUFFICES ASSUME ListedDeviceOpens, [Next]_vars,
                      warned'.call = "device", NEW i \in 1 .. Len(Devices)
               PROVE  Devices[i] # warned'.device
    BY DEF ListedDeviceOpens
  <2>2. CASE PortAudioOpens
    <3>1. PICK name \in DeviceNames, list \in {NameList, NULL}, failed \in Failures :
            /\ failed = "device" => ~Exists(OutputDevice(Preferred(name, list)))
            /\ warned' = [call |-> failed, device |-> Preferred(name, list)]
      BY <2>2 DEF PortAudioOpens
    <3> DEFINE device == Preferred(name, list)
    <3>2. failed = "device" /\ warned'.device = device
      BY <3>1
    <3>3. ~Exists(OutputDevice(device))
      BY <3>1, <3>2
    <3> HIDE DEF device
    <3>4. Devices[i] = device => Exists(OutputDevice(device))
      BY DeviceIsFound DEF IndexFound
    <3> QED
      BY <3>2, <3>3, <3>4
  <2>3. CASE [Next]_vars /\ ~PortAudioOpens
    <3>0. SUFFICES warned' = warned
      BY <3>0 DEF ListedDeviceOpens
    <3> USE DEF mainVars, dummyVars, paVars, pmVars
    <3>1. CASE Initialize
      BY <2>3, <3>1 DEF Initialize, NewQueues, AudioIsDummy, AudioIsPortAudio, AudioFallsBack,
         MidiIsDummy, MidiIsPortMidi, MidiFallsBack, CreateQueueThread
    <3>2. CASE CancelSetup \/ Exit \/ ReadyNow
      BY <3>2 DEF CancelSetup, Exit, ReadyNow
    <3>3. CASE ShutDown
      BY <3>3 DEF ShutDown, DestroyDummy, JoinProcessThread, DestroyPortAudio,
         DestroyPortMidi, FreeQueue, NothingToDestroy
    <3>4. CASE ProcessStep
      BY <3>4, Zenon DEF ProcessStep
    <3>5. CASE ProcessWaits \/ ProcessWakes
      BY <3>5, Zenon DEF ProcessWaits, ProcessWakes
    <3>6. CASE LibraryThreads
      BY <3>6 DEF LibraryThreads, CallbackBegins, CallbackEnds, TimerBegins, TimerEnds
    <3>7. CASE UNCHANGED vars
      BY <3>7 DEF vars
    <3> QED
      BY <2>3, <3>1, <3>2, <3>3, <3>4, <3>5, <3>6, <3>7 DEF Next, Process
  <2> QED
    BY <2>2, <2>3
<1> QED
  BY <1>1, <1>2, PTL DEF Spec
===============================================================================
