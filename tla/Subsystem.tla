------------------------------- MODULE Subsystem -------------------------------
(***************************************************************************)
(* How the audio/MIDI subsystem comes up and goes down: audio_initialize   *)
(* and audio_shutdown of src/audio/audiointerface.c with the backends they *)
(* drive (portaudiobackend.c, portmidibackend.c and portmidiutil.c,        *)
(* dummybackend.c), while other threads use the event queues:              *)
(*   - PortAudio calls stream_callback, which reads the audio queue;       *)
(*   - PortMidi's timer calls process_midi, which writes the MIDI queue;   *)
(*   - the process thread of the dummy backends reads both queues;         *)
(*   - GLib's main loop runs ready_now, in the setup dialog or later.      *)
(* Every library call may fail.  The queue thread is in QueueThread: it    *)
(* exists only if audio_initialize succeeds, after which nobody calls      *)
(* audio_shutdown.                                                         *)
(***************************************************************************)
EXTENDS PortAudioDevices

CONSTANTS
  AudioDrivers,    \* values of the preference audio_driver
  MidiDrivers,     \* values of the preference midi_driver
  DeviceNames,     \* values of the preference portaudio_device
  PmErrors,        \* may Pm_Initialize fail?
  CloseErrors      \* may Pa_CloseStream fail?

AUDIO == "AUDIO_BACKEND"
MIDI  == "MIDI_BACKEND"
Backends == {AUDIO, MIDI}

ASSUME SubsystemAssumption ==
  /\ AudioDrivers \subseteq {"portaudio", "dummy"}
  /\ MidiDrivers \subseteq {"portmidi", "dummy"}
  /\ DeviceNames \subseteq STRING
  /\ PmErrors \subseteq BOOLEAN /\ CloseErrors \subseteq BOOLEAN

VARIABLES
  mpc,             \* main thread
  closing,         \* the backend destroy() works on
  queues,          \* event_queues: "none", "live" or "freed" memory
  backends,        \* which backend is installed, "NULL" if none
  dummy,           \* dummy_audio and dummy_midi
  quit_thread,     \* dummybackend.c's flag
  ppc,             \* process thread: what it does; "none" if process_thread is NULL
  stream, pa,      \* the PortAudio stream ("stuck" if it could not be closed);
                   \* is PortAudio initialized?
  ready,           \* portaudiobackend.c's flag
  ready_idle,      \* ready_now waits in the main loop
  warned,          \* what portaudio_initialize warned about last, with its device
  cpc,             \* stream_callback
  timer,           \* PortMidi's timer runs
  initialized,     \* portmidibackend.c's flag
  input_stream,    \* the input stream is open
  pm,              \* init_count, whether PortMidi is initialized, and whether a
                   \* query that failed has left its count behind
  tpc              \* process_midi

mainVars  == <<mpc, closing, queues, backends>>
dummyVars == <<dummy, quit_thread, ppc>>
paVars    == <<stream, pa, ready, ready_idle, warned, cpc>>
pmVars    == <<timer, initialized, input_stream, pm, tpc>>
vars == <<mainVars, dummyVars, paVars, pmVars>>

Init ==
  /\ mpc = "start" /\ closing = AUDIO
  /\ queues = [b \in Backends |-> "none"]
  /\ backends = [b \in Backends |-> "NULL"]
  /\ dummy = [b \in Backends |-> FALSE]
  /\ quit_thread = FALSE /\ ppc = "none"
  /\ stream = "none" /\ pa = FALSE /\ cpc = "idle"
  /\ warned = [call |-> "none", device |-> "default"]
  /\ ready = FALSE /\ ready_idle = FALSE
  /\ timer = FALSE /\ initialized = FALSE /\ input_stream = FALSE
  /\ pm = [count |-> 0, up |-> FALSE, leaked |-> FALSE] /\ tpc = "idle"

-------------------------------------------------------------------------------
(* portmidiutil.c *)

(* Pm_InitializeWrapper: only the first call reaches the library, and only *)
(* that one can fail (err); the counter has been incremented even then.    *)
PmFails(p, err) == p.count = 0 /\ err
PmInitialize(p, err) ==
  [count |-> p.count + 1, up |-> IF p.count = 0 THEN ~err ELSE p.up, leaked |-> p.leaked]

(* Mutant: a counter decremented after the comparison. *)
BugPmTerminate(p) ==
  [count |-> p.count - 1, up |-> p.count # 0 /\ p.up, leaked |-> p.leaked]

(* Pm_TerminateWrapper *)
PmTerminate(p) ==
  [count |-> p.count - 1, up |-> p.count # 1 /\ p.up, leaked |-> p.leaked]

(* get_portmidi_devices and get_portmidi_device_id: nothing is undone when *)
(* the wrapper fails, and the count it took is never given back.           *)
PmQuery(p, err) ==
  LET q == PmInitialize(p, err)
  IN  IF PmFails(p, err) THEN [count |-> q.count, up |-> q.up, leaked |-> TRUE]
                         ELSE PmTerminate(q)

-------------------------------------------------------------------------------
(* dummybackend.c *)

Reading == ppc \in Backends

(* start_process_thread.  g_thread_try_new may return NULL. *)
StartProcessThread ==
  ppc' \in IF ppc = "none" THEN {"new", "none"} ELSE {ppc}

DummyInitialize(b) ==
  /\ backends' = [backends EXCEPT ![b] = "dummy"]
  /\ StartProcessThread
  /\ dummy' = [dummy EXCEPT ![b] = TRUE]
  /\ UNCHANGED <<closing, queues, quit_thread>>

(* The new thread gets to g_cond_wait_until; a signal sent before is lost. *)
ProcessWaits ==
  /\ ppc = "new"
  /\ ppc' = "wait"
  /\ UNCHANGED <<mainVars, dummy, quit_thread, paVars, pmVars>>

(* Mutant: without a timeout, only a signal ends the wait. *)
BugProcessWakes == FALSE /\ UNCHANGED vars

(* g_cond_wait_until ends with its timeout or a signal. *)
ProcessWakes ==
  /\ ppc = "wait"
  /\ ppc' = "quit?"
  /\ UNCHANGED <<mainVars, dummy, quit_thread, paVars, pmVars>>

(* The loop goes on to the first queue whose flag is set. *)
NextQueue(from) ==
  IF from = "quit?" /\ dummy[AUDIO] THEN AUDIO
  ELSE IF from # MIDI /\ dummy[MIDI] THEN MIDI ELSE "wait"

(* One of the two loops over read_event_from_queue lasts from here until   *)
(* the next step.                                                          *)
ProcessStep ==
  /\ ppc = "quit?" \/ Reading
  /\ ppc' = IF ppc = "quit?" /\ quit_thread THEN "done" ELSE NextQueue(ppc)
  /\ UNCHANGED <<mainVars, dummy, quit_thread, paVars, pmVars>>

Process == mpc # "exited" /\ (ProcessWaits \/ ProcessWakes \/ ProcessStep)

-------------------------------------------------------------------------------
(* The threads of PortAudio and PortMidi *)

(* stream_callback, from the test of ready to the end of its loop over     *)
(* read_event_from_queue.  Before ready it does nothing.                   *)
CallbackBegins ==
  /\ cpc = "idle" /\ stream \in {"started", "stuck"} /\ ready
  /\ cpc' = "reading"
  /\ UNCHANGED <<mainVars, dummyVars, stream, pa, ready, ready_idle, warned, pmVars>>

CallbackEnds ==
  /\ cpc = "reading"
  /\ cpc' = "idle"
  /\ UNCHANGED <<mainVars, dummyVars, stream, pa, ready, ready_idle, warned, pmVars>>

(* process_midi passes its tests and calls input_midi_event. *)
TimerBegins ==
  /\ tpc = "idle" /\ timer /\ initialized /\ input_stream
  /\ tpc' = "writing"
  /\ UNCHANGED <<mainVars, dummyVars, paVars, timer, initialized, input_stream, pm>>

TimerEnds ==
  /\ tpc = "writing"
  /\ tpc' = "idle"
  /\ UNCHANGED <<mainVars, dummyVars, paVars, timer, initialized, input_stream, pm>>

LibraryThreads ==
  mpc # "exited" /\ (CallbackBegins \/ CallbackEnds \/ TimerBegins \/ TimerEnds)

(* ready_now: whenever the main loop runs, also long after the backend it  *)
(* was meant for has gone.                                                 *)
ReadyNow ==
  /\ mpc \in {"dialog", "running", "down"} /\ ready_idle
  /\ ready' = TRUE /\ ready_idle' = FALSE
  /\ UNCHANGED <<mainVars, dummyVars, stream, pa, warned, cpc, pmVars>>

-------------------------------------------------------------------------------
(* audio_initialize *)

NewQueues ==
  /\ mpc = "start"
  /\ queues' = [b \in Backends |-> "live"]
  /\ mpc' = "audio"
  /\ UNCHANGED <<closing, backends, dummyVars, paVars, pmVars>>

AudioIsDummy ==
  /\ mpc = "audio" /\ "dummy" \in AudioDrivers
  /\ DummyInitialize(AUDIO)
  /\ mpc' = "midi"
  /\ UNCHANGED <<paVars, pmVars>>

(* portaudio_initialize up to the dialog of preferences_change, which has  *)
(* asked PortMidi for its inputs and its outputs.                          *)
AudioIsPortAudio ==
  /\ mpc = "audio" /\ "portaudio" \in AudioDrivers
  /\ backends' = [backends EXCEPT ![AUDIO] = "portaudio"]
  /\ ready_idle' = TRUE
  /\ \E e1, e2 \in PmErrors : pm' = PmQuery(PmQuery(pm, e1), e2)
  /\ mpc' = "dialog"
  /\ UNCHANGED <<closing, queues, dummyVars, stream, pa, ready, warned, cpc,
                 timer, initialized, input_stream, tpc>>

(* The player cancels the setup dialog. *)
CancelSetup ==
  /\ mpc = "dialog"
  /\ mpc' = "exited"
  /\ UNCHANGED <<closing, queues, backends, dummyVars, paVars, pmVars>>

(* The rest of actual_portaudio_initialize; failed is the call that fails. *)
Failures == {"fluidsynth_init", "Pa_Initialize", "device", "Pa_OpenStream",
             "Pa_StartStream", "nothing"}

PortAudioOpens ==
  /\ mpc = "dialog"
  /\ \E name \in DeviceNames, list \in {NameList, NULL}, failed \in Failures :
       /\ failed = "device" => ~Exists(OutputDevice(Preferred(name, list)))
       /\ failed \in {"Pa_OpenStream", "Pa_StartStream", "nothing"} =>
            Exists(OutputDevice(Preferred(name, list)))
       /\ warned' = [call |-> failed, device |-> Preferred(name, list)]
       /\ pa' = (failed \notin {"fluidsynth_init", "Pa_Initialize"})
       /\ stream' = IF failed = "nothing" THEN "started"
                    ELSE IF failed = "Pa_StartStream" THEN "open" ELSE "none"
       /\ mpc' = IF failed = "nothing" THEN "midi" ELSE "audio failed"
  /\ UNCHANGED <<closing, queues, backends, dummyVars, ready, ready_idle, cpc, pmVars>>

(* initialize_audio falls back to the dummy and reports failure all the    *)
(* same, so that initialize_midi is not called.                            *)
AudioFallsBack ==
  /\ mpc = "audio failed"
  /\ DummyInitialize(AUDIO)
  /\ mpc' = "shutdown"
  /\ UNCHANGED <<paVars, pmVars>>

MidiIsDummy ==
  /\ mpc = "midi" /\ "dummy" \in MidiDrivers
  /\ DummyInitialize(MIDI)
  /\ mpc' = "thread"
  /\ UNCHANGED <<paVars, pmVars>>

(* portmidi_destroy.  Pt_Stop waits for the timer thread. *)
PortMidiGone(p) == timer' = FALSE /\ initialized' = FALSE /\ pm' = PmTerminate(p)

(* portmidi_initialize.  The input device "none" leaves everything on but  *)
(* is reported as a failure.                                               *)
TimerFails ==
  /\ mpc' = "midi failed"
  /\ UNCHANGED <<timer, initialized, input_stream, pm>>

InputFails(err) ==
  LET p == PmInitialize(pm, err)
  IN  /\ PortMidiGone(IF PmFails(pm, err) THEN p ELSE PmQuery(p, FALSE))
      /\ mpc' = "midi failed"
      /\ UNCHANGED input_stream

(* Mutant: without an input device, initialization succeeds. *)
BugInputOpens(err, open) ==
  /\ ~PmFails(pm, err)
  /\ pm' = PmInitialize(pm, err)
  /\ timer' = TRUE /\ initialized' = TRUE /\ input_stream' = open
  /\ mpc' = "thread"

InputOpens(err, open) ==
  /\ ~PmFails(pm, err)
  /\ pm' = PmInitialize(pm, err)
  /\ timer' = TRUE /\ initialized' = TRUE /\ input_stream' = open
  /\ mpc' = IF open THEN "thread" ELSE "midi failed"

MidiIsPortMidi ==
  /\ mpc = "midi" /\ "portmidi" \in MidiDrivers
  /\ backends' = [backends EXCEPT ![MIDI] = "portmidi"]
  /\ \/ TimerFails
     \/ \E err \in PmErrors :
          InputFails(err) \/ (\E open \in BOOLEAN : InputOpens(err, open))
  /\ UNCHANGED <<closing, queues, dummyVars, paVars, tpc>>

MidiFallsBack ==
  /\ mpc = "midi failed"
  /\ DummyInitialize(MIDI)
  /\ mpc' = "shutdown"
  /\ UNCHANGED <<paVars, pmVars>>

CreateQueueThread ==
  /\ mpc = "thread"
  /\ mpc' \in {"running", "shutdown"}
  /\ UNCHANGED <<closing, queues, backends, dummyVars, paVars, pmVars>>

Initialize ==
  \/ NewQueues \/ AudioIsDummy \/ AudioIsPortAudio \/ PortAudioOpens
  \/ AudioFallsBack \/ MidiIsDummy \/ MidiIsPortMidi \/ MidiFallsBack
  \/ CreateQueueThread

-------------------------------------------------------------------------------
(* audio_shutdown: the audio backend first, then the MIDI backend *)

(* Mutant: the thread is stopped although the other dummy needs it. *)
BugStopProcessThread ==
  IF ppc # "none"
  THEN /\ quit_thread' = TRUE
       /\ ppc' = IF ppc = "wait" THEN "quit?" ELSE ppc
       /\ mpc' = "join"
  ELSE mpc' = "free" /\ UNCHANGED <<quit_thread, ppc>>

(* stop_process_thread up to g_thread_join.  The signal is heard only by a *)
(* thread that waits.                                                      *)
StopProcessThread ==
  IF ppc # "none" /\ \A b \in Backends : ~dummy'[b]
  THEN /\ quit_thread' = TRUE
       /\ ppc' = IF ppc = "wait" THEN "quit?" ELSE ppc
       /\ mpc' = "join"
  ELSE mpc' = "free" /\ UNCHANGED <<quit_thread, ppc>>

DestroyDummy ==
  /\ mpc = "shutdown" /\ backends[closing] = "dummy"
  /\ dummy' = [dummy EXCEPT ![closing] = FALSE]
  /\ StopProcessThread
  /\ UNCHANGED <<closing, queues, backends, paVars, pmVars>>

JoinProcessThread ==
  /\ mpc = "join" /\ ppc = "done"
  /\ ppc' = "none"
  /\ mpc' = "free"
  /\ UNCHANGED <<closing, queues, backends, dummy, quit_thread, paVars, pmVars>>

(* Mutant: the stream is closed while the callback runs. *)
BugStreamCloses == stream' = "closed" /\ pa' = FALSE

(* Pa_CloseStream returns when the callback has.  If it fails, PortAudio   *)
(* stays initialized and may go on calling.                                *)
StreamCloses == cpc = "idle" /\ stream' = "closed" /\ pa' = FALSE

DestroyPortAudio ==
  /\ mpc = "shutdown" /\ backends[closing] = "portaudio"
  /\ ready' = FALSE
  /\ \E err \in CloseErrors :
       IF err THEN stream' = "stuck" /\ UNCHANGED pa ELSE StreamCloses
  /\ mpc' = "free"
  /\ UNCHANGED <<closing, queues, backends, dummyVars, ready_idle, warned, cpc, pmVars>>

DestroyPortMidi ==
  /\ mpc = "shutdown" /\ backends[closing] = "portmidi"
  /\ tpc = "idle"
  /\ PortMidiGone(pm)
  /\ mpc' = "free"
  /\ UNCHANGED <<closing, queues, backends, dummyVars, paVars, input_stream, tpc>>

Afterwards ==
  IF closing = AUDIO THEN closing' = MIDI /\ mpc' = "shutdown"
                     ELSE mpc' = "down" /\ UNCHANGED closing

(* destroy, whatever the backend returned *)
FreeQueue ==
  /\ mpc = "free"
  /\ backends' = [backends EXCEPT ![closing] = "NULL"]
  /\ queues' = [queues EXCEPT ![closing] = "freed"]
  /\ Afterwards
  /\ UNCHANGED <<dummyVars, paVars, pmVars>>

(* No backend was installed: its queue stays. *)
NothingToDestroy ==
  /\ mpc = "shutdown" /\ backends[closing] = "NULL"
  /\ Afterwards
  /\ UNCHANGED <<queues, backends, dummyVars, paVars, pmVars>>

ShutDown ==
  \/ DestroyDummy \/ JoinProcessThread \/ DestroyPortAudio \/ DestroyPortMidi
  \/ FreeQueue \/ NothingToDestroy

(* The player closes the window of the program, or of its error message:   *)
(* exit() takes all threads with it.                                       *)
Exit ==
  /\ mpc \in {"running", "down"}
  /\ mpc' = "exited"
  /\ UNCHANGED <<closing, queues, backends, dummyVars, paVars, pmVars>>

-------------------------------------------------------------------------------
Next == Initialize \/ CancelSetup \/ ShutDown \/ Exit \/ ReadyNow \/ Process \/ LibraryThreads

(* Each thread goes on; waits end by their timeouts; a callback returns.   *)
Fairness ==
  /\ WF_vars(Initialize) /\ WF_vars(Process)
  /\ WF_vars(CallbackEnds) /\ WF_vars(TimerEnds)
  /\ SF_vars(ShutDown)

Spec == Init /\ [][Next]_vars /\ Fairness

-------------------------------------------------------------------------------
MainTypes ==
  /\ mpc \in {"start", "audio", "dialog", "audio failed", "midi", "midi failed", "thread",
              "running", "shutdown", "join", "free", "down", "exited"}
  /\ closing \in Backends
  /\ queues \in [Backends -> {"none", "live", "freed"}]
  /\ backends \in [Backends -> {"NULL", "dummy", "portaudio", "portmidi"}]
DummyTypes ==
  /\ dummy \in [Backends -> BOOLEAN] /\ quit_thread \in BOOLEAN
  /\ ppc \in Backends \cup {"none", "new", "wait", "quit?", "done"}
PaTypes ==
  /\ stream \in {"none", "open", "started", "closed", "stuck"} /\ pa \in BOOLEAN
  /\ ready \in BOOLEAN /\ ready_idle \in BOOLEAN
  /\ warned \in [call : {"none"} \cup Failures, device : {"default"} \cup STRING]
  /\ cpc \in {"idle", "reading"}
PmTypes ==
  /\ timer \in BOOLEAN /\ initialized \in BOOLEAN /\ input_stream \in BOOLEAN
  /\ pm \in [count : Nat, up : BOOLEAN, leaked : BOOLEAN]
  /\ tpc \in {"idle", "writing"}
TypeOK == MainTypes /\ DummyTypes /\ PaTypes /\ PmTypes

(* event_queue_free is called while other threads run: none of them is     *)
(* reading or writing the queue then, or later: not stream_callback, unless *)
(* PortAudio goes on calling it because Pa_CloseStream has failed           *)
(* (portaudiobackend.c:186); not the timer; and not the process thread,     *)
(* unless the second of two dummies keeps it in the queue of the first      *)
(* (dummybackend.c:107).                                                   *)
NoUseAfterFree ==
  mpc # "exited" =>
    /\ cpc = "reading" => queues[AUDIO] = "live" \/ stream = "stuck"
    /\ tpc = "writing" => queues[MIDI] = "live"
    /\ ppc = MIDI => queues[MIDI] = "live"
    /\ ppc = AUDIO => queues[AUDIO] = "live" \/ backends[MIDI] = "dummy"

(* A dummy backend that is installed is served: its thread, if it could be *)
(* created, has not been told to quit, whichever of the two backends       *)
(* started it and whichever went first.                                    *)
DummyServed ==
  (\E b \in Backends : dummy[b]) => ~quit_thread /\ ppc # "done"

(* audio_initialize reports success only if everything works: both queues, *)
(* both backends, an audio stream that runs, an open input with its timer, *)
(* and PortMidi.  Only a query of PortMidi that failed makes it report     *)
(* success without PortMidi: the wrapper then says pmNoError for ever      *)
(* (portmidiutil.c:31).                                                    *)
SuccessIsWhole ==
  mpc = "running" =>
    /\ \A b \in Backends : queues[b] = "live" /\ backends[b] # "NULL"
    /\ \A b \in Backends : dummy[b] <=> backends[b] = "dummy"
    /\ backends[AUDIO] = "portaudio" => pa /\ stream = "started"
    /\ backends[MIDI] = "portmidi" =>
         timer /\ initialized /\ input_stream /\ (pm.up <=> ~pm.leaked)

(* portmidiutil.c:21, "counting PortMidi initializations ourselves, and    *)
(* only calling Pm_Terminate() when the counter reaches zero": the library *)
(* is initialized for exactly as long as the backend counts on it, and     *)
(* whatever fails, at most one count is left behind; from then on the      *)
(* library is never initialized again.                                     *)
PmBalanced ==
  /\ pm.count = (IF initialized THEN 1 ELSE 0) + (IF pm.leaked THEN 1 ELSE 0)
  /\ pm.up <=> initialized /\ ~pm.leaked

(* The setup dialog offers PortAudio's own list, and the index of a name is *)
(* that of the device: the device that is missed is never one of the list. *)
ListedDeviceOpens ==
  warned.call = "device" => \A i \in 1 .. Len(Devices) : Devices[i] # warned.device

(* audio_shutdown ends, although stop_process_thread signals without the   *)
(* mutex and the signal may be lost.                                       *)
ShutDownEnds == (mpc = "shutdown") ~> (mpc \in {"down", "exited"})
===============================================================================
