------------------------------ MODULE RingBuffer ------------------------------
(***************************************************************************)
(* The JACK ring buffer (src/audio/ringbuffer.c) shared by one writing and *)
(* one reading thread.  A thread looks at the pointers once, when its call *)
(* begins; then it copies and publishes its pointer part by part, and the  *)
(* other thread may run between any two of these steps.                    *)
(*                                                                         *)
(* A byte is its position in the writer's stream: the buffer code never    *)
(* looks at a byte, so positions lose nothing and show every byte that is  *)
(* lost, repeated, reordered or overwritten.  tail and head count the      *)
(* bytes the two threads have published; the code does not keep them.      *)
(***************************************************************************)
EXTENDS RingPtr, Sequences

CONSTANT MaxBytes    \* bound: the length of the writer's stream

ASSUME MaxBytesAssumption == MaxBytes \in Nat

VARIABLES
  buf, write_ptr, read_ptr,  \* jack_ringbuffer_t
  tail, head,                \* bytes published by the writer, by the reader
  wpc, wn1, wn2,             \* the writer's call: its step, n1 and n2
  rpc, rn1, rn2, dest,       \* the reader's call: its step, n1, n2, dest
  out                        \* the bytes the reader's caller got last

ringVars   == <<buf, write_ptr, tail>>
writerVars == <<wpc, wn1, wn2>>
readerVars == <<read_ptr, head, rpc, rn1, rn2, dest, out>>
vars == <<ringVars, writerVars, readerVars>>

(* jack_ringbuffer_create, then the jack_ringbuffer_reset every caller     *)
(* makes before a second thread sees the buffer.  malloc leaves buf as it  *)
(* is: -1 is a byte of no stream.                                          *)
Init ==
  /\ buf = [i \in Slots |-> -1]
  /\ write_ptr = 0 /\ read_ptr = 0
  /\ tail = 0 /\ head = 0
  /\ wpc = "idle" /\ wn1 = 0 /\ wn2 = 0
  /\ rpc = "idle" /\ rn1 = 0 /\ rn2 = 0 /\ dest = <<>> /\ out = <<>>

(* The stream bytes laid down from position first on, n slots from ptr.    *)
Filled(ptr, n, first) ==
  [i \in Slots |-> IF i >= ptr /\ i < ptr + n THEN first + (i - ptr) ELSE buf[i]]

-------------------------------------------------------------------------------
(* jack_ringbuffer_write(rb, src, cnt) *)

WriteNothing ==
  /\ wpc = "idle" /\ WriteSpace(write_ptr, read_ptr) = 0
  /\ UNCHANGED vars

WriteBegin ==
  /\ wpc = "idle"
  /\ \E cnt \in 1 .. Size :
       LET n == AtMost(cnt, WriteSpace(write_ptr, read_ptr))
       IN  /\ n > 0
           /\ tail + n <= MaxBytes
           /\ wn1' = FirstPart(write_ptr, n)
           /\ wn2' = SecondPart(write_ptr, n)
  /\ wpc' = "copy"
  /\ UNCHANGED <<ringVars, readerVars>>

WriteCopy ==
  /\ wpc = "copy"
  /\ buf' = Filled(write_ptr, wn1, tail)
  /\ wpc' = "publish"
  /\ UNCHANGED <<write_ptr, tail, wn1, wn2, readerVars>>

(* Each part is published on its own: a reader can see the first part of a *)
(* split write without the second.                                         *)
WritePublish ==
  /\ wpc = "publish"
  /\ write_ptr' = Mask(write_ptr + wn1)
  /\ tail' = tail + wn1
  /\ wn1' = wn2 /\ wn2' = 0
  /\ wpc' = IF wn2 > 0 THEN "copy" ELSE "idle"
  /\ UNCHANGED <<buf, readerVars>>

-------------------------------------------------------------------------------
(* jack_ringbuffer_get_write_vector, the caller filling both places, and   *)
(* jack_ringbuffer_write_advance for as many bytes as the caller has.      *)

VectorBegin ==
  /\ wpc = "idle"
  /\ WriteSpace(write_ptr, read_ptr) > 0
  /\ tail < MaxBytes
  /\ wn1' = FirstPart(write_ptr, WriteSpace(write_ptr, read_ptr))
  /\ wn2' = SecondPart(write_ptr, WriteSpace(write_ptr, read_ptr))
  /\ wpc' = "fill"
  /\ UNCHANGED <<ringVars, readerVars>>

VectorFill ==
  /\ wpc = "fill"
  /\ buf' = [i \in Slots |-> IF i < wn2 THEN tail + wn1 + i
                             ELSE Filled(write_ptr, wn1, tail)[i]]
  /\ wpc' = "advance"
  /\ UNCHANGED <<write_ptr, tail, wn1, wn2, readerVars>>

WriteAdvance ==
  /\ wpc = "advance"
  /\ \E cnt \in 1 .. wn1 + wn2 :
       /\ tail + cnt <= MaxBytes
       /\ write_ptr' = Mask(write_ptr + cnt)
       /\ tail' = tail + cnt
  /\ wpc' = "idle" /\ wn1' = 0 /\ wn2' = 0
  /\ UNCHANGED <<buf, readerVars>>

-------------------------------------------------------------------------------
(* jack_ringbuffer_read(rb, dest, cnt) *)

ReadNothing ==
  /\ rpc = "idle" /\ ReadSpace(write_ptr, read_ptr) = 0
  /\ UNCHANGED vars

(* The prologue jack_ringbuffer_read and jack_ringbuffer_peek share; the   *)
(* read vector is the case cnt = ReadSpace.                                *)
Begin(step) ==
  /\ rpc = "idle"
  /\ \E cnt \in 1 .. Size :
       LET n == AtMost(cnt, ReadSpace(write_ptr, read_ptr))
       IN  /\ n > 0
           /\ rn1' = FirstPart(read_ptr, n)
           /\ rn2' = SecondPart(read_ptr, n)
  /\ rpc' = step
  /\ UNCHANGED <<ringVars, writerVars, read_ptr, head, dest, out>>

ReadBegin == Begin("copy")

ReadCopy ==
  /\ rpc = "copy"
  /\ dest' = [i \in 1 .. rn1 |-> buf[read_ptr + i - 1]]
  /\ rpc' = "publish"
  /\ UNCHANGED <<ringVars, writerVars, read_ptr, head, rn1, rn2, out>>

ReadPublish ==
  /\ rpc = "publish"
  /\ read_ptr' = Mask(read_ptr + rn1)
  /\ head' = head + rn1
  /\ out' = dest /\ dest' = <<>>
  /\ rn1' = rn2 /\ rn2' = 0
  /\ rpc' = IF rn2 > 0 THEN "copy" ELSE "idle"
  /\ UNCHANGED <<ringVars, writerVars>>

-------------------------------------------------------------------------------
(* jack_ringbuffer_peek, or jack_ringbuffer_get_read_vector and the        *)
(* caller's own copy; jack_ringbuffer_read_advance for what it consumed.   *)

PeekBegin == Begin("peek")

PeekCopy ==
  /\ rpc = "peek"
  /\ out' = [i \in 1 .. rn1 + rn2 |->
               IF i <= rn1 THEN buf[read_ptr + i - 1] ELSE buf[i - rn1 - 1]]
  /\ rpc' = "peeked"
  /\ UNCHANGED <<ringVars, writerVars, read_ptr, head, rn1, rn2, dest>>

ReadAdvance ==
  /\ rpc = "peeked"
  /\ \E cnt \in 0 .. rn1 + rn2 :
       /\ read_ptr' = Mask(read_ptr + cnt)
       /\ head' = head + cnt
  /\ rpc' = "idle" /\ rn1' = 0 /\ rn2' = 0
  /\ UNCHANGED <<ringVars, writerVars, dest, out>>

-------------------------------------------------------------------------------
Writer == WriteNothing \/ WriteBegin \/ WriteCopy \/ WritePublish
            \/ VectorBegin \/ VectorFill \/ WriteAdvance
Reader == ReadNothing \/ ReadBegin \/ ReadCopy \/ ReadPublish
            \/ PeekBegin \/ PeekCopy \/ ReadAdvance

Next == Writer \/ Reader

Spec == Init /\ [][Next]_vars

-------------------------------------------------------------------------------
TypeOK ==
  /\ buf \in [Slots -> Nat \cup {-1}]
  /\ write_ptr \in Slots /\ read_ptr \in Slots
  /\ tail \in Nat /\ head \in Nat
  /\ wpc \in {"idle", "copy", "publish", "fill", "advance"}
  /\ wn1 \in 0 .. Size /\ wn2 \in 0 .. Size
  /\ rpc \in {"idle", "copy", "publish", "peek", "peeked"}
  /\ rn1 \in 0 .. Size /\ rn2 \in 0 .. Size
  /\ dest \in Seq(Nat) /\ out \in Seq(Nat)

(* The bytes put and not yet taken are what the pointers say, and at least *)
(* one slot stays empty: write and read pointer, published by different    *)
(* threads at different times, never make a full buffer look empty.        *)
Occupied == tail - head
PointersCount ==
  /\ Occupied \in 0 .. Size - 1
  /\ ReadSpace(write_ptr, read_ptr) = Occupied
  /\ WriteSpace(write_ptr, read_ptr) = Size - 1 - Occupied

(* No unread byte is ever overwritten: from the read pointer on lie the    *)
(* bytes of the stream, in the writer's order, around the end of buf.      *)
InOrder == \A i \in 0 .. Occupied - 1 : buf[Mask(read_ptr + i)] = head + i

(* The slots a memcpy of either thread is running over. *)
Parts(ptr, n1, n2) == (ptr .. ptr + n1 - 1) \cup (0 .. n2 - 1)
WriterSlots == IF wpc = "copy" THEN Parts(write_ptr, wn1, 0)
               ELSE IF wpc = "fill" THEN Parts(write_ptr, wn1, wn2) ELSE {}
ReaderSlots == IF rpc = "copy" THEN Parts(read_ptr, rn1, 0)
               ELSE IF rpc = "peek" THEN Parts(read_ptr, rn1, rn2) ELSE {}

(* ringbuffer.h:37-40, "safely accessed by two threads simultaneously": no *)
(* memcpy of one thread overlaps one of the other, although each works on  *)
(* a pointer of the other that may be out of date.                         *)
NoDataRace == WriterSlots \cap ReaderSlots = {}

(* The space a thread measured when its call began is still there in every *)
(* later step: the other thread can only have made it grow.                *)
ClaimsHold ==
  /\ wpc # "idle" => /\ wn1 + wn2 <= Size - 1 - Occupied
                     /\ write_ptr + wn1 <= Size
                     /\ wn2 > 0 => write_ptr + wn1 = Size
  /\ rpc # "idle" => /\ rn1 + rn2 <= Occupied
                     /\ read_ptr + rn1 <= Size
                     /\ rn2 > 0 => read_ptr + rn1 = Size

(* The buffer is a bounded FIFO: every step of a thread is one of the      *)
(* channel's, and what the reader's caller gets is the channel's front.    *)
Fifo == INSTANCE ByteFifo WITH Capacity <- Size - 1
ImplementsFifo == Fifo!FifoSpec
===============================================================================
