------------------------------ MODULE ByteFifo -------------------------------
(***************************************************************************)
(* What ringbuffer.h promises a single reader and a single writer: a       *)
(* bounded first-in-first-out channel of bytes.  The bytes are the         *)
(* positions of the writer's stream (byte k of the stream is the number    *)
(* k), so that a lost, repeated, reordered or overwritten byte shows.      *)
(***************************************************************************)
EXTENDS Integers, Sequences

CONSTANT Capacity

VARIABLES
  tail,     \* bytes of the stream that have been put
  head,     \* bytes of the stream that have been taken
  out       \* the bytes the reader got last

fifoVars == <<tail, head, out>>

FifoInit == tail = 0 /\ head = 0 /\ out = <<>>

Front(n) == [i \in 1 .. n |-> head + i - 1]

Put == \E n \in 1 .. Capacity - (tail - head) :
         /\ tail' = tail + n
         /\ UNCHANGED <<head, out>>

Get == \E n \in 1 .. tail - head :
         /\ out' = Front(n)
         /\ head' = head + n
         /\ UNCHANGED tail

(* Looking at the front, which jack_ringbuffer_peek and the read vector    *)
(* allow, takes nothing.                                                   *)
Look == \E n \in 1 .. tail - head :
          /\ out' = Front(n)
          /\ UNCHANGED <<tail, head>>

(* Dropping bytes that were looked at: jack_ringbuffer_read_advance.       *)
Drop == \E n \in 1 .. Len(out) :
          /\ out = Front(Len(out))
          /\ head' = head + n
          /\ UNCHANGED <<tail, out>>

FifoNext == Put \/ Get \/ Look \/ Drop

FifoSpec == FifoInit /\ [][FifoNext]_fifoVars
==============================================================================
