------------------------------ MODULE QueueThread ------------------------------
(***************************************************************************)
(* The input path of src/audio/audiointerface.c and its three threads:     *)
(*   - the PortMidi timer thread calls input_midi_event: it writes the     *)
(*     event into the input queue and tries to signal the queue thread;    *)
(*   - the queue thread (queue_thread_func) waits on queue_cond, then      *)
(*     moves every event of the input queue to an idle source of GLib;     *)
(*   - the main thread creates the queue thread, runs the idle sources     *)
(*     (handle_midi_event_callback) and may shut everything down.          *)
(*                                                                         *)
(* The input queue is the FIFO of bytes RingBuffer implements.  An event   *)
(* is 16 bytes of a buffer of 4096, so no event is ever split, and the     *)
(* queue is a FIFO of whole events, of which Capacity fit (255 of 4095     *)
(* bytes).  Event n is the n-th event the keyboard sends.                  *)
(***************************************************************************)
EXTENDS Integers, Sequences

CONSTANTS
  Capacity,    \* events the input queue holds
  MaxEvents    \* bound: events the keyboard sends

ASSUME QueueAssumption ==
  Capacity \in Nat /\ MaxEvents \in Nat

VARIABLES
  input,        \* event_queues[MIDI_BACKEND]->input
  idle,         \* GLib's idle sources, in the order they will be dispatched
  arrived, handled,
  mutex,        \* the owner of queue_mutex
  signalled, quit_thread,
  qpc,          \* queue thread
  tpc,          \* timer thread
  mpc           \* main thread

threadVars == <<mutex, signalled, quit_thread>>
eventVars  == <<input, idle, arrived, handled>>
vars == <<eventVars, threadVars, qpc, tpc, mpc>>

Free == "free"

(* audio_initialize when initialize_midi has returned: the timer thread    *)
(* runs already, the queue thread does not exist yet.                      *)
Init ==
  /\ input = <<>> /\ idle = <<>> /\ arrived = 0 /\ handled = 0
  /\ mutex = Free /\ signalled = FALSE /\ quit_thread = FALSE
  /\ qpc = "none" /\ tpc = "poll" /\ mpc = "create"

-------------------------------------------------------------------------------
(* Timer thread: process_midi, input_midi_event, try_signal_queue *)

Arrive ==
  /\ tpc = "poll" /\ mpc # "down"
  /\ arrived < MaxEvents
  /\ arrived' = arrived + 1
  /\ tpc' = "try"
  /\ UNCHANGED <<idle, handled, threadVars, qpc, mpc>>

(* event_queue_write_input succeeds; its result is not looked at. *)
InputAccepted ==
  /\ Arrive
  /\ Len(input) < Capacity
  /\ input' = Append(input, arrived + 1)

InputRefused ==
  /\ Arrive
  /\ Len(input) = Capacity
  /\ UNCHANGED input

TryLock ==
  /\ tpc = "try"
  /\ IF mutex = Free THEN mutex' = "timer" /\ tpc' = "signal"
                     ELSE tpc' = "poll" /\ UNCHANGED mutex
  /\ UNCHANGED <<eventVars, signalled, quit_thread, qpc, mpc>>

(* Mutant: the signal goes unheard. *)
BugWoken == qpc

(* g_cond_signal: the queue thread, if it waits, will lock the mutex again. *)
Woken == IF qpc = "wait" THEN "relock" ELSE qpc

TrySignal ==
  /\ tpc = "signal"
  /\ signalled' = TRUE
  /\ qpc' = Woken
  /\ mutex' = Free
  /\ tpc' = "poll"
  /\ UNCHANGED <<eventVars, quit_thread, mpc>>

Timer == InputAccepted \/ InputRefused \/ TryLock \/ TrySignal

-------------------------------------------------------------------------------
(* Queue thread: queue_thread_func *)

FirstLock ==
  /\ qpc = "lock" /\ mutex = Free
  /\ mutex' = "queue"
  /\ qpc' = "check"
  /\ UNCHANGED <<eventVars, signalled, quit_thread, tpc, mpc>>

(* g_cond_wait_until releases the mutex in the same step. *)
Wait ==
  /\ qpc = "check" /\ ~signalled
  /\ mutex' = Free
  /\ qpc' = "wait"
  /\ UNCHANGED <<eventVars, signalled, quit_thread, tpc, mpc>>

(* The flag was set already: no wait, and no reset. *)
SkipWait ==
  /\ qpc = "check" /\ signalled
  /\ qpc' = "quit?"
  /\ UNCHANGED <<eventVars, threadVars, tpc, mpc>>

(* Mutant: a wait without a timeout. *)
BugTimeout == FALSE /\ UNCHANGED vars

(* QUEUE_TIMEOUT is over. *)
Timeout ==
  /\ qpc = "wait"
  /\ qpc' = "relock"
  /\ UNCHANGED <<eventVars, threadVars, tpc, mpc>>

(* Mutant: a signal found on waking up stays set. *)
BugRelock ==
  /\ qpc = "relock" /\ mutex = Free
  /\ mutex' = "queue"
  /\ qpc' = "quit?"
  /\ UNCHANGED <<eventVars, signalled, quit_thread, tpc, mpc>>

Relock ==
  /\ qpc = "relock" /\ mutex = Free
  /\ mutex' = "queue"
  /\ signalled' = FALSE
  /\ qpc' = "quit?"
  /\ UNCHANGED <<eventVars, quit_thread, tpc, mpc>>

(* Mutant: the thread ends with the mutex locked. *)
BugQuit ==
  /\ qpc = "quit?"
  /\ qpc' = IF quit_thread THEN "done" ELSE "drain"
  /\ UNCHANGED <<eventVars, threadVars, tpc, mpc>>

Quit ==
  /\ qpc = "quit?"
  /\ IF quit_thread THEN qpc' = "done" /\ mutex' = Free
                    ELSE qpc' = "drain" /\ UNCHANGED mutex
  /\ UNCHANGED <<eventVars, signalled, quit_thread, tpc, mpc>>

(* Mutant: an idle source of higher priority than those before it. *)
BugTake ==
  /\ qpc = "drain" /\ input # <<>>
  /\ idle' = <<Head(input)>> \o idle
  /\ input' = Tail(input)
  /\ UNCHANGED <<arrived, handled, threadVars, qpc, tpc, mpc>>

(* event_queue_read_input and g_idle_add_full *)
Take ==
  /\ qpc = "drain" /\ input # <<>>
  /\ idle' = Append(idle, Head(input))
  /\ input' = Tail(input)
  /\ UNCHANGED <<arrived, handled, threadVars, qpc, tpc, mpc>>

Drained ==
  /\ qpc = "drain" /\ input = <<>>
  /\ qpc' = "check"
  /\ UNCHANGED <<eventVars, threadVars, tpc, mpc>>

Queue == FirstLock \/ Wait \/ SkipWait \/ Timeout \/ Relock \/ Quit \/ Take \/ Drained

-------------------------------------------------------------------------------
(* Main thread: audio_initialize, the GTK main loop, audio_shutdown *)

CreateThread ==
  /\ mpc = "create"
  /\ qpc' = "lock"
  /\ mpc' = "loop"
  /\ UNCHANGED <<eventVars, threadVars, tpc>>

(* handle_midi_event_callback: the main context belongs to this thread, so *)
(* g_main_context_invoke calls do_handle_midi_event at once.               *)
Dispatch ==
  /\ mpc = "loop" /\ idle # <<>>
  /\ handled' = Head(idle)
  /\ idle' = Tail(idle)
  /\ UNCHANGED <<input, arrived, threadVars, qpc, tpc, mpc>>

ShutDown ==
  /\ mpc = "loop"
  /\ quit_thread' = TRUE
  /\ mpc' = "lock"
  /\ UNCHANGED <<eventVars, mutex, signalled, qpc, tpc>>

SignalLock ==
  /\ mpc = "lock" /\ mutex = Free
  /\ mutex' = "main"
  /\ mpc' = "signal"
  /\ UNCHANGED <<eventVars, signalled, quit_thread, qpc, tpc>>

SignalQueue ==
  /\ mpc = "signal"
  /\ signalled' = TRUE
  /\ qpc' = Woken
  /\ mutex' = Free
  /\ mpc' = "join"
  /\ UNCHANGED <<eventVars, quit_thread, tpc>>

Join ==
  /\ mpc = "join" /\ qpc = "done"
  /\ mpc' = "down"
  /\ UNCHANGED <<eventVars, threadVars, qpc, tpc>>

Main == CreateThread \/ Dispatch \/ ShutDown \/ SignalLock \/ SignalQueue \/ Join

Next == Timer \/ Queue \/ Main

(* Every thread goes on when it can; the timeout always comes.  Nothing    *)
(* makes main shut down or the player press a key.                         *)
Fairness ==
  /\ WF_vars(Queue)
  /\ WF_vars(TryLock \/ TrySignal)
  /\ WF_vars(CreateThread \/ Dispatch \/ SignalQueue \/ Join)
  /\ SF_vars(SignalLock)

Spec == Init /\ [][Next]_vars /\ Fairness

-------------------------------------------------------------------------------
TypeOK ==
  /\ input \in Seq(1 .. arrived) /\ Len(input) <= Capacity
  /\ idle \in Seq(1 .. arrived)
  /\ arrived \in 0 .. MaxEvents /\ handled \in 0 .. arrived
  /\ mutex \in {Free, "queue", "timer", "main"}
  /\ signalled \in BOOLEAN /\ quit_thread \in BOOLEAN
  /\ qpc \in {"none", "lock", "check", "wait", "relock", "quit?", "drain", "done"}
  /\ tpc \in {"poll", "try", "signal"}
  /\ mpc \in {"create", "loop", "lock", "signal", "join", "down"}

(* Whoever works on the flag and the condition owns the mutex, and nobody  *)
(* keeps it beyond that: not the thread that waits, nor one that has ended.*)
MutexOwned ==
  /\ mutex = "queue" <=> qpc \in {"check", "quit?", "drain"}
  /\ mutex = "timer" <=> tpc = "signal"
  /\ mutex = "main"  <=> mpc = "signal"

(* The thread never sleeps on a signal it was sent: whatever the order in  *)
(* which flag, condition and mutex are used, a thread that waits has seen  *)
(* every signal.                                                           *)
NoSleepOnSignal == qpc = "wait" => ~signalled

(* main never waits in audio_shutdown for a thread it has not told to      *)
(* stop, or one that cannot hear it: the thread it joins has quit or will  *)
(* see quit_thread the next time it looks.                                 *)
JoinIsSafe ==
  mpc \in {"signal", "join", "down"} =>
    quit_thread /\ qpc # "none" /\ (mpc = "join" => qpc # "wait")

(* Where the events are, from the oldest on. *)
Channel == idle \o input

(* The path is a bounded FIFO channel, whatever the threads do. *)
Promise == INSTANCE InputChannel WITH waiting <- Channel
ImplementsChannel == Promise!ChannelSpec

(* audiointerface.c:485, "processing of the event will be delayed until    *)
(* the queue thread wakes up on its own": an event whose signal found the  *)
(* mutex taken is delayed, never forgotten, unless main shuts down.        *)
Waiting(n) == \E i \in 1 .. Len(Channel) : Channel[i] = n
EveryEventHandled ==
  \A n \in 1 .. MaxEvents : Waiting(n) ~> (handled = n \/ mpc # "loop")

(* audio_shutdown always comes to its end. *)
ShutDownEnds == (mpc = "lock") ~> (mpc = "down")

(* audiointerface.c:53, QUEUE_TIMEOUT is the time "after which the queue   *)
(* thread wakes up, whether it has been signalled or not": from its first  *)
(* sleep on, the thread goes back to sleep whenever it has nothing to do.  *)
(* Before that it may not: a signal sent before its first look at the flag *)
(* stays set, since SkipWait resets nothing, and the thread then runs      *)
(* round its loop for ever with the mutex held.                            *)
SleepsAgain ==
  [](qpc = "wait" => [](qpc = "check" => <>(qpc \in {"wait", "done"})))
===============================================================================
