------------------------------- MODULE RingPtr -------------------------------
(***************************************************************************)
(* Pointer arithmetic of the JACK ring buffer (src/audio/ringbuffer.c):    *)
(* the size jack_ringbuffer_create chooses, the space either side sees,    *)
(* and how a transfer of n bytes at a pointer is cut at the end of the     *)
(* buffer.  Pure operators only; RingBuffer and ImmediateQueue            *)
(* build their threads from them.                                          *)
(***************************************************************************)
EXTENDS Integers

CONSTANT Size        \* rb->size: the number of bytes of rb->buf

ASSUME SizeAssumption == Size \in Nat /\ Size >= 2

Slots == 0 .. Size - 1

(***************************************************************************)
(* x & rb->size_mask.  Every masked value in ringbuffer.c lies in          *)
(* 0 .. 2 * Size - 1, and Size is a power of two, so the mask takes Size   *)
(* off at most once.  MCRingBuffer checks this equation against Bitwise.   *)
(***************************************************************************)
Mask(x) == IF x < Size THEN x ELSE x - Size

(***************************************************************************)
(* The size of the buffer jack_ringbuffer_create(sz) allocates: the least  *)
(* 2^k, k >= 1, that is not below sz (an int shift: k stays below 31).     *)
(***************************************************************************)
CreateSize(sz) ==
  LET fits == { k \in 1 .. 30 : 2^k >= sz }
  IN  2^(CHOOSE k \in fits : \A j \in fits : k <= j)

(* Mutant: an empty buffer looks full, as without the mask. *)
BugReadSpace(w, r) == IF w > r THEN w - r ELSE w - r + Size

(***************************************************************************)
(* Bytes the reader finds, given the write pointer w and read pointer r.   *)
(***************************************************************************)
ReadSpace(w, r) == IF w > r THEN w - r ELSE Mask(w - r + Size)

(* Mutant: no slot is kept empty. *)
BugWriteSpace(w, r) == IF w < r THEN r - w ELSE Mask(r - w + Size)
                                                  + (IF w = r THEN Size ELSE 0)

(***************************************************************************)
(* Bytes the writer may put: one slot always stays empty, which is what    *)
(* tells a full buffer from an empty one.                                  *)
(***************************************************************************)
WriteSpace(w, r) ==
  IF w > r THEN Mask(r - w + Size) - 1
  ELSE IF w < r THEN (r - w) - 1
  ELSE Size - 1

(***************************************************************************)
(* A transfer of n bytes at ptr: n1 bytes up to the end of the buffer and  *)
(* n2 from its start.  cnt2 = ptr + n; a transfer that ends exactly at the *)
(* end of the buffer is not split.                                         *)
(***************************************************************************)
FirstPart(ptr, n)  == IF ptr + n > Size THEN Size - ptr ELSE n
SecondPart(ptr, n) == IF ptr + n > Size THEN Mask(ptr + n) ELSE 0

AtMost(cnt, space) == IF cnt > space THEN space ELSE cnt
==============================================================================
