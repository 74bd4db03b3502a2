---------------------------- MODULE ImmediateQueue ----------------------------
(***************************************************************************)
(* The immediate output queue (src/audio/eventqueue.c): the GTK thread     *)
(* writes messages of different lengths with play_midi_event, the backend's*)
(* audio thread reads them back with read_event_from_queue until one call  *)
(* returns FALSE.  A message is a frame on a ring of bytes: one length     *)
(* byte and as many data bytes.                                            *)
(*                                                                         *)
(* The ring is the FIFO of bytes RingBuffer implements.  Its write pointer *)
(* is kept, because jack_ringbuffer_write publishes a frame that crosses   *)
(* the end of the buffer in two steps.  A byte is its place in its frame;  *)
(* what the data bytes say does not matter, except that a reader which has *)
(* lost the frames takes one for a length (Misread).                       *)
(***************************************************************************)
EXTENDS RingPtr, Sequences

CONSTANTS
  Startup,       \* lengths of the messages sent first (the tuning messages)
  Lengths,       \* lengths of the messages sent later
  Misread,       \* the lengths a data byte is taken for
  EmptyReturns,  \* what event_queue_read_output returns on an empty queue
  MaxMessages,   \* bound: messages sent
  MaxFed         \* bound: events fed to the synthesizer

ASSUME ImmediateAssumption ==
  /\ Startup \in Seq(1 .. Size - 1) /\ Lengths \subseteq 1 .. Size - 1
  /\ Misread \subseteq Nat /\ EmptyReturns \subseteq BOOLEAN
  /\ MaxMessages \in Nat /\ MaxFed \in Nat

VARIABLES
  ring,        \* the bytes published and not read
  write_ptr,   \* queue->immediate->write_ptr
  rest,        \* the second part of a split write, not yet published
  sent,        \* messages play_midi_event was called with
  accepted,    \* the messages for which it returned TRUE, in order
  split,       \* those whose write was published in two steps
  rpc,         \* the audio thread: "poll" the queue, read the "body", "render"
  length,      \* the length byte event_queue_read_output has read
  event,       \* event_data and event_length of the callback
  fed,         \* the events read off the queue for fluidsynth_feed_midi, in order
  replayed     \* the events an empty queue had it fed once more

writerVars == <<write_ptr, rest, sent, accepted, split>>
readerVars == <<rpc, length, event, fed, replayed>>
vars == <<ring, writerVars, readerVars>>

(* The frame of message m; byte 0 is its length byte.                      *)
Frame(m, len) == [i \in 1 .. len + 1 |-> [msg |-> m, pos |-> i - 1, len |-> len]]

(* Message 0 stands for an event that is no message: event_data before the *)
(* first read, or bytes of more than one frame, or too few.                *)
NoMessage == 0

Init ==
  /\ ring = <<>> /\ write_ptr = 0 /\ rest = <<>>
  /\ sent = 0 /\ accepted = <<>> /\ split = {}
  /\ rpc = "poll" /\ length = 0 /\ event = NoMessage /\ fed = <<>>
  /\ replayed = {}

-------------------------------------------------------------------------------
(* The length of the next message.  set_tuning, called while the backend   *)
(* starts, sends the Startup messages before any key can be pressed.       *)
NextLength == IF sent < Len(Startup) THEN {Startup[sent + 1]} ELSE Lengths

FreeBytes == Size - 1 - Len(ring)

(* play_midi_event looks for the end of a system exclusive message in its  *)
(* first 255 bytes; the end itself is not sent.                            *)
MaxData == 255

(* Mutant: the length byte is forgotten when the space is measured. *)
BugFits(len) == len < MaxData /\ FreeBytes >= len

(* event_queue_write_immediate refuses a frame that does not fit whole, and *)
(* a message without its end never gets there.                             *)
Fits(len) == len < MaxData /\ FreeBytes >= len + 1

Send(frame, first) ==
  /\ ring' = ring \o SubSeq(frame, 1, first)
  /\ rest' = SubSeq(frame, first + 1, Len(frame))
  /\ write_ptr' = Mask(write_ptr + first)
  /\ split' = IF first < Len(frame) THEN split \cup {sent + 1} ELSE split

(* Mutant: the length byte is published before the data. *)
BugPlayMidiEvent ==
  /\ rest = <<>> /\ sent < MaxMessages
  /\ \E len \in NextLength :
       /\ Fits(len)
       /\ LET frame == Frame(sent + 1, len)
          IN  /\ ring' = ring \o SubSeq(frame, 1, 1)
              /\ rest' = SubSeq(frame, 2, Len(frame))
              /\ write_ptr' = Mask(write_ptr + 1)
              /\ split' = split
  /\ sent' = sent + 1
  /\ accepted' = Append(accepted, sent + 1)
  /\ UNCHANGED readerVars

(* play_midi_event up to the first publication: jack_ringbuffer_write      *)
(* takes what fits, which is the whole frame, and cuts it at the end of    *)
(* the buffer.                                                             *)
PlayMidiEvent ==
  /\ rest = <<>> /\ sent < MaxMessages
  /\ \E len \in NextLength :
       /\ Fits(len)
       /\ LET n == AtMost(len + 1, FreeBytes)
          IN  Send(SubSeq(Frame(sent + 1, len), 1, n), FirstPart(write_ptr, n))
  /\ sent' = sent + 1
  /\ accepted' = Append(accepted, sent + 1)
  /\ UNCHANGED readerVars

(* The second publication of a split write. *)
PublishRest ==
  /\ rest # <<>>
  /\ ring' = ring \o rest
  /\ write_ptr' = Mask(write_ptr + Len(rest))
  /\ rest' = <<>>
  /\ UNCHANGED <<sent, accepted, split, readerVars>>

(* play_midi_event returns FALSE: the message is gone, and no caller looks. *)
Refuse ==
  /\ rest = <<>> /\ sent < MaxMessages
  /\ \E len \in NextLength : ~Fits(len)
  /\ sent' = sent + 1
  /\ UNCHANGED <<ring, write_ptr, rest, accepted, split, readerVars>>

-------------------------------------------------------------------------------
(* Mutant: the length byte is taken to count itself. *)
BugAsLength(b) == IF b.pos = 0 THEN {b.len + 1} ELSE Misread

(* What a byte says when it is read as a length. *)
AsLength(b) == IF b.pos = 0 THEN {b.len} ELSE Misread

(* event_queue_read_output finds bytes and reads the length byte. *)
ReadLength ==
  /\ rpc = "poll" /\ ring # <<>> /\ Len(fed) < MaxFed
  /\ length' \in AsLength(ring[1])
  /\ ring' = Tail(ring)
  /\ rpc' = "body"
  /\ UNCHANGED <<writerVars, event, fed, replayed>>

(* The message n bytes of the ring are, if they are one whole message. *)
MessageOf(n) ==
  IF /\ n > 0 /\ n = length
     /\ \A i \in 1 .. n : ring[i] = [msg |-> ring[1].msg, pos |-> i, len |-> length]
  THEN ring[1].msg ELSE NoMessage

(* It reads length bytes or what there is of them, and does not look at    *)
(* how many came.  The caller feeds length bytes of its buffer.            *)
ReadBody ==
  /\ rpc = "body"
  /\ LET n == AtMost(length, Len(ring))
     IN  /\ event' = MessageOf(n)
         /\ ring' = SubSeq(ring, n + 1, Len(ring))
  /\ fed' = Append(fed, event')
  /\ rpc' = "poll"
  /\ UNCHANGED <<writerVars, length, replayed>>

(* On an empty queue event_queue_read_output ends without a return: the    *)
(* caller sees whatever the return register holds.  If that is not zero it *)
(* feeds its buffer once more, whatever event is in it, and polls again.   *)
ReadEmpty ==
  /\ rpc = "poll" /\ ring = <<>>
  /\ \E returned \in EmptyReturns :
       /\ rpc' = IF returned THEN "poll" ELSE "render"
       /\ replayed' = replayed \cup (IF returned THEN {event} ELSE {})
  /\ UNCHANGED <<ring, writerVars, length, event, fed>>

(* The callback renders its buffer; the next one starts with new locals.   *)
Render ==
  /\ rpc = "render"
  /\ rpc' = "poll"
  /\ event' = NoMessage
  /\ UNCHANGED <<ring, writerVars, length, fed, replayed>>

-------------------------------------------------------------------------------
Callback == ReadLength \/ ReadBody \/ ReadEmpty \/ Render

Next == PlayMidiEvent \/ PublishRest \/ Refuse \/ Callback

(* PortAudio calls stream_callback again and again; a write that has begun *)
(* ends, since jack_ringbuffer_write does not block.                       *)
Spec == Init /\ [][Next]_vars /\ WF_vars(Callback) /\ WF_vars(PublishRest)

-------------------------------------------------------------------------------
(* What was written is whole: from any length byte on, the queue and the   *)
(* part still to be published hold every byte of that message.  A message  *)
(* that is refused leaves nothing behind.                                  *)
FramesWhole ==
  LET bytes  == ring \o rest
      starts == { i \in 1 .. Len(bytes) : bytes[i].pos = 0 }
  IN  \A i \in starts :
        /\ i + bytes[i].len <= Len(bytes)
        /\ \A j \in 1 .. bytes[i].len :
             bytes[i + j] = [bytes[i] EXCEPT !.pos = j]

(* eventqueue.h:111, "TRUE if an event was written to the output           *)
(* parameters": what the synthesizer is fed are the accepted messages,     *)
(* each whole, once, and in the order they were played.                    *)
FedAt(i) == i <= Len(accepted) /\ fed[i] = accepted[i]
WholeInOrder == replayed = {} /\ \A i \in 1 .. Len(fed) : FedAt(i)

(* The only way to lose the frames is a message that crosses the end of    *)
(* the buffer: until one was published in two steps, every event read off  *)
(* the queue is the message that was accepted in its place, whatever the   *)
(* empty queue answers between two messages.                               *)
DamageNeedsSplit ==
  \A i \in 1 .. Len(fed) :
    ~FedAt(i) => \E j \in 1 .. i : j <= Len(accepted) /\ accepted[j] \in split

(* Every message play_midi_event accepted is heard, although the thread    *)
(* that wrote it signals nobody: the next callback polls the queue, and a  *)
(* callback that replays an event on the empty queue still gets to it.     *)
(* Only where a message was cut in two is this not promised.               *)
EveryAcceptedPlayed ==
  \A m \in 1 .. MaxMessages :
    (\E i \in 1 .. Len(accepted) : accepted[i] = m)
      ~> (split # {} \/ \E i \in 1 .. Len(fed) : fed[i] = m)
===============================================================================
