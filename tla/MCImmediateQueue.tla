--------------------------- MODULE MCImmediateQueue ---------------------------
(***************************************************************************)
(* ImmediateQueue for TLC: the small rings, and the ring and the messages  *)
(* of the program itself.                                                  *)
(***************************************************************************)
EXTENDS ImmediateQueue

NoStartup == <<>>

(* event_queue_new (.., IMMEDIATE_QUEUE_SIZE, ..) with 16-byte midi_event_t *)
ProgramSize == CreateSize(32 * 16)

(* set_tuning runs twice while the PortAudio backend starts; a tuning      *)
(* message is 21 bytes up to MIDI_EOX, which play_midi_event leaves out.   *)
TuningMessages == <<20, 20>>

ASSUME ProgramSizeIs512 == ProgramSize = 512
===============================================================================
