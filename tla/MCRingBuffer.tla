---------------------------- MODULE MCRingBuffer ------------------------------
(***************************************************************************)
(* RingBuffer for TLC.  The instance checks Mask and CreateSize, too:      *)
(* against the bit mask itself, and against the size asked for.            *)
(***************************************************************************)
EXTENDS RingBuffer, Bitwise

CONSTANT Requested   \* the sz given to jack_ringbuffer_create

ASSUME SizeIsCreated == Size = CreateSize(Requested)

ASSUME MaskIsBitMask == \A x \in 0 .. 2 * Size - 1 : Mask(x) = x & (Size - 1)

ASSUME CreateSizeFits ==
  \A sz \in 0 .. 600 : LET n == CreateSize(sz)
                       IN  n >= sz /\ n >= 2 /\ (n > 2 => n \div 2 < sz)
===============================================================================
