----------------------------- MODULE InputChannel -----------------------------
(***************************************************************************)
(* What the input path promises the rest of the program: MIDI events reach *)
(* handle_midi_event one by one, in the order the keyboard sent them, none *)
(* of them twice; an event may be refused only while Capacity others are   *)
(* waiting.                                                                *)
(***************************************************************************)
EXTENDS Integers, Sequences

CONSTANT Capacity

VARIABLES
  arrived,   \* events the keyboard has sent; event n is the number n
  waiting,   \* events accepted and not handled
  handled    \* the event handled last

channelVars == <<arrived, waiting, handled>>

ChannelInit == arrived = 0 /\ waiting = <<>> /\ handled = 0

Accept ==
  /\ arrived' = arrived + 1
  /\ waiting' = Append(waiting, arrived + 1)
  /\ UNCHANGED handled

Refuse ==
  /\ Len(waiting) >= Capacity
  /\ arrived' = arrived + 1
  /\ UNCHANGED <<waiting, handled>>

Handle ==
  /\ waiting # <<>>
  /\ handled' = Head(waiting)
  /\ waiting' = Tail(waiting)
  /\ UNCHANGED arrived

ChannelNext == Accept \/ Refuse \/ Handle

ChannelSpec == ChannelInit /\ [][ChannelNext]_channelVars
===============================================================================
