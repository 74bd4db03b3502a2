--------------------------- MODULE RingBuffer_proofs ---------------------------
(***************************************************************************)
(* The ring buffer is safe for every size and every length of stream.      *)
(* The invariants the run RingBuffer checks are not inductive by           *)
(* themselves: what a thread has copied but not yet published must be      *)
(* remembered too (WriterHolds, ReaderHolds), and the pointers must be     *)
(* tied to the counters (PointerInv).                                      *)
(***************************************************************************)
EXTENDS RingBuffer, TLAPS

(* The write pointer is the read pointer moved on by the bytes waiting. *)
PointerInv ==
  /\ Occupied \in 0 .. Size - 1
  /\ write_ptr = Mask(read_ptr + Occupied)

(* Between two steps of a call its first part is never empty. *)
PartsInv ==
  /\ wpc = "idle" <=> wn1 = 0
  /\ wpc = "idle" => wn2 = 0
  /\ rpc = "idle" <=> rn1 = 0
  /\ rpc = "idle" => rn2 = 0

(* What the writer has copied but not published is the stream's next piece. *)
WriterHolds ==
  /\ wpc = "publish" => \A i \in 0 .. wn1 - 1 : buf[write_ptr + i] = tail + i
  /\ wpc = "advance" =>
       \A i \in 0 .. wn1 + wn2 - 1 : buf[Mask(write_ptr + i)] = tail + i

(* What the reader has copied but not published is the front of the channel. *)
ReaderHolds ==
  /\ rpc = "publish" => dest = [i \in 1 .. rn1 |-> head + i - 1]
  /\ rpc = "peeked"  => out = [i \in 1 .. rn1 + rn2 |-> head + i - 1]

IInv == /\ TypeOK /\ PointerInv /\ PartsInv /\ InOrder
        /\ ClaimsHold /\ WriterHolds /\ ReaderHolds

USE SizeAssumption, MaxBytesAssumption

-------------------------------------------------------------------------------
(* The pointers determine the space both sides measure. *)
LEMMA SpaceOfPointers ==
  ASSUME NEW r \in Slots, NEW n \in 0 .. Size - 1, NEW w, w = Mask(r + n)
  PROVE  /\ w \in Slots
         /\ ReadSpace(w, r) = n
         /\ WriteSpace(w, r) = Size - 1 - n
BY DEF Slots, Mask, ReadSpace, WriteSpace

(* A transfer that fits is cut into parts that fit. *)
LEMMA PartsOfTransfer ==
  ASSUME NEW p \in Slots, NEW n \in 1 .. Size - 1
  PROVE  /\ FirstPart(p, n) \in 1 .. Size /\ SecondPart(p, n) \in 0 .. Size
         /\ FirstPart(p, n) + SecondPart(p, n) = n
         /\ p + FirstPart(p, n) <= Size
         /\ SecondPart(p, n) > 0 => p + FirstPart(p, n) = Size
BY DEF Slots, Mask, FirstPart, SecondPart

(* Moving a pointer on twice is moving it on once. *)
LEMMA MaskTwice ==
  ASSUME NEW p \in Slots, NEW m \in Nat, NEW n \in Nat, m + n < Size
  PROVE  Mask(p + m) \in Slots /\ Mask(Mask(p + m) + n) = Mask(p + (m + n))
BY DEF Slots, Mask

(* Different distances from a pointer are different slots. *)
LEMMA DistinctSlots ==
  ASSUME NEW p \in Slots, NEW m \in 0 .. Size - 1, NEW n \in 0 .. Size - 1, m # n
  PROVE  Mask(p + m) # Mask(p + n)
BY DEF Slots, Mask

(* A slot that holds an unread byte is not one the writer has claimed. *)
LEMMA UnreadNotClaimed ==
  ASSUME NEW r \in Slots, NEW occ \in 0 .. Size - 1, NEW w, w = Mask(r + occ),
         NEW i \in 0 .. occ - 1, NEW n \in Nat, n <= Size - 1 - occ
  PROVE  /\ Mask(r + i) \in Slots
         /\ w + n <= Size => ~(Mask(r + i) >= w /\ Mask(r + i) < w + n)
BY DEF Slots, Mask

LEMMA InitIInv == Init => IInv
BY SMTT(30) DEF Init, IInv, TypeOK, PointerInv, PartsInv, InOrder, ClaimsHold,
   WriterHolds, ReaderHolds, Occupied, Slots, Mask

-------------------------------------------------------------------------------
LEMMA WriteBeginStep == IInv /\ WriteBegin => IInv'
<1> SUFFICES ASSUME IInv, WriteBegin PROVE IInv'
  OBVIOUS
<1>1. PICK cnt \in 1 .. Size :
        LET n == AtMost(cnt, WriteSpace(write_ptr, read_ptr))
        IN  /\ n > 0
            /\ wn1' = FirstPart(write_ptr, n)
            /\ wn2' = SecondPart(write_ptr, n)
  BY DEF WriteBegin
<1> DEFINE n == AtMost(cnt, WriteSpace(write_ptr, read_ptr))
<1>2. n \in 1 .. Size - 1 - Occupied
  BY <1>1, SpaceOfPointers DEF IInv, TypeOK, PointerInv, AtMost
<1>3. wn1' \in 1 .. Size /\ wn2' \in 0 .. Size /\ wn1' + wn2' = n
        /\ write_ptr + wn1' <= Size /\ (wn2' > 0 => write_ptr + wn1' = Size)
  BY <1>1, <1>2, PartsOfTransfer DEF IInv, TypeOK, PointerInv
<1>4. TypeOK'
  BY <1>3 DEF IInv, TypeOK, WriteBegin, ringVars, readerVars
<1>5. PointerInv' /\ InOrder'
  BY DEF IInv, PointerInv, InOrder, Occupied, WriteBegin, ringVars, readerVars
<1>6. PartsInv' /\ ClaimsHold'
  BY <1>2, <1>3 DEF IInv, TypeOK, PartsInv, ClaimsHold, Occupied, WriteBegin,
     ringVars, readerVars, Slots
<1>7. WriterHolds' /\ ReaderHolds'
  BY DEF IInv, WriterHolds, ReaderHolds, WriteBegin, ringVars, readerVars
<1> QED
  BY <1>4, <1>5, <1>6, <1>7 DEF IInv

LEMMA WriteCopyStep == IInv /\ WriteCopy => IInv'
<1> SUFFICES ASSUME IInv, WriteCopy PROVE IInv'
  OBVIOUS
<1> USE DEF IInv, WriteCopy, readerVars
<1>1. TypeOK'
  BY DEF TypeOK, Filled, Slots
<1>2. PointerInv' /\ PartsInv'
  BY DEF PointerInv, PartsInv, Occupied
<1>3. ClaimsHold'
  BY DEF ClaimsHold, Occupied
<1>4. ReaderHolds'
  BY DEF ReaderHolds
<1>5. ASSUME NEW i \in 0 .. Occupied - 1
      PROVE  buf'[Mask(read_ptr + i)] = buf[Mask(read_ptr + i)]
  <2>1. /\ Mask(read_ptr + i) \in Slots
        /\ ~(Mask(read_ptr + i) >= write_ptr /\ Mask(read_ptr + i) < write_ptr + wn1)
    BY UnreadNotClaimed DEF TypeOK, PointerInv, ClaimsHold
  <2> QED
    BY <2>1 DEF Filled
<1>6. InOrder'
  BY <1>5 DEF InOrder, Occupied
<1>7. WriterHolds'
  BY DEF TypeOK, ClaimsHold, WriterHolds, Filled, Slots
<1> QED
  BY <1>1, <1>2, <1>3, <1>4, <1>6, <1>7

LEMMA WritePublishStep == IInv /\ WritePublish => IInv'
<1> SUFFICES ASSUME IInv, WritePublish PROVE IInv'
  OBVIOUS
<1> USE DEF IInv, WritePublish, readerVars
<1>1. TypeOK'
  BY DEF TypeOK, ClaimsHold, Slots, Mask
<1>2. PointerInv'
  BY DEF TypeOK, PointerInv, ClaimsHold, Occupied, Slots, Mask
<1>3. PartsInv'
  BY DEF TypeOK, PartsInv
<1>4. ClaimsHold'
  BY DEF TypeOK, PartsInv, PointerInv, ClaimsHold, Occupied, Slots, Mask
<1>5. ReaderHolds' /\ WriterHolds'
  BY DEF ReaderHolds, WriterHolds
<1>6. ASSUME NEW i \in 0 .. Occupied + wn1 - 1
      PROVE  buf[Mask(read_ptr + i)] = head + i
  <2>1. CASE i < Occupied
    BY <2>1 DEF TypeOK, PointerInv, InOrder, Occupied
  <2>2. CASE i >= Occupied
    <3> DEFINE j == i - Occupied
    <3>1. j \in 0 .. wn1 - 1 /\ i = Occupied + j /\ i < Size
      BY <2>2 DEF TypeOK, PointerInv, ClaimsHold
    <3>2. Mask(read_ptr + i) = Mask(write_ptr + j)
      BY <3>1, MaskTwice DEF TypeOK, PointerInv
    <3>3. Mask(write_ptr + j) = write_ptr + j
      BY <3>1 DEF TypeOK, ClaimsHold, Mask, Slots
    <3>4. buf[write_ptr + j] = tail + j
      BY <3>1 DEF WriterHolds
    <3> QED
      BY <3>1, <3>2, <3>3, <3>4 DEF TypeOK, Occupied
  <2> QED
    BY <2>1, <2>2 DEF TypeOK, PointerInv, Occupied
<1>7. InOrder'
  BY <1>6 DEF TypeOK, InOrder, Occupied
<1> QED
  BY <1>1, <1>2, <1>3, <1>4, <1>5, <1>7

LEMMA VectorBeginStep == IInv /\ VectorBegin => IInv'
<1> SUFFICES ASSUME IInv, VectorBegin PROVE IInv'
  OBVIOUS
<1>1. WriteSpace(write_ptr, read_ptr) \in 1 .. Size - 1
        /\ WriteSpace(write_ptr, read_ptr) = Size - 1 - Occupied
  BY SpaceOfPointers DEF IInv, TypeOK, PointerInv, VectorBegin
<1>2. wn1' \in 1 .. Size /\ wn2' \in 0 .. Size /\ wn1' + wn2' = Size - 1 - Occupied
        /\ write_ptr + wn1' <= Size /\ (wn2' > 0 => write_ptr + wn1' = Size)
  BY <1>1, PartsOfTransfer DEF IInv, TypeOK, VectorBegin
<1> USE DEF IInv, VectorBegin, ringVars, readerVars
<1>3. TypeOK'
  BY <1>2 DEF TypeOK
<1>4. PointerInv' /\ InOrder'
  BY DEF PointerInv, InOrder, Occupied
<1>5. PartsInv' /\ ClaimsHold'
  BY <1>2 DEF TypeOK, PartsInv, ClaimsHold, Occupied, Slots
<1>6. WriterHolds' /\ ReaderHolds'
  BY DEF WriterHolds, ReaderHolds
<1> QED
  BY <1>3, <1>4, <1>5, <1>6

(* What a filled vector holds, counted from the write pointer. *)
LEMMA VectorFillLays ==
  ASSUME IInv, VectorFill
  PROVE  /\ \A i \in 0 .. Occupied - 1 :
              buf'[Mask(read_ptr + i)] = buf[Mask(read_ptr + i)]
         /\ \A i \in 0 .. wn1 + wn2 - 1 : buf'[Mask(write_ptr + i)] = tail + i
<1> USE DEF IInv, VectorFill
<1>1. \A s \in Slots :
        buf'[s] = IF s < wn2 THEN tail + wn1 + s
                  ELSE IF s >= write_ptr /\ s < write_ptr + wn1
                       THEN tail + (s - write_ptr) ELSE buf[s]
  BY DEF Filled
<1>2. /\ wn1 \in Nat /\ wn2 \in Nat /\ wn1 + wn2 <= Size - 1 - Occupied
      /\ write_ptr + wn1 <= Size /\ (wn2 > 0 => write_ptr + wn1 = Size)
      /\ Occupied \in 0 .. Size - 1 /\ write_ptr = Mask(read_ptr + Occupied)
      /\ read_ptr \in Slots /\ write_ptr \in Slots /\ tail \in Nat
  BY DEF TypeOK, PointerInv, ClaimsHold
<1>3. ASSUME NEW i \in 0 .. Occupied - 1
      PROVE  buf'[Mask(read_ptr + i)] = buf[Mask(read_ptr + i)]
  <2>1. /\ Mask(read_ptr + i) \in Slots
        /\ ~(Mask(read_ptr + i) >= write_ptr /\ Mask(read_ptr + i) < write_ptr + wn1)
    BY <1>2, UnreadNotClaimed
  <2>2. ~(Mask(read_ptr + i) < wn2)
    BY <1>2 DEF Slots, Mask
  <2> QED
    BY <1>1, <2>1, <2>2
<1>4. ASSUME NEW i \in 0 .. wn1 + wn2 - 1
      PROVE  buf'[Mask(write_ptr + i)] = tail + i
  <2>1. CASE i < wn1
    <3>1. Mask(write_ptr + i) = write_ptr + i /\ write_ptr + i \in Slots
            /\ ~(write_ptr + i < wn2)
      BY <1>2, <2>1 DEF Slots, Mask
    <3> DEFINE s == write_ptr + i
    <3>2. s >= write_ptr /\ s < write_ptr + wn1 /\ s - write_ptr = i
      BY <1>2, <2>1 DEF Slots
    <3> HIDE DEF s
    <3>3. buf'[s] = tail + (s - write_ptr)
      BY <1>1, <3>1, <3>2 DEF s
    <3> QED
      BY <3>1, <3>2, <3>3 DEF s
  <2>2. CASE i >= wn1
    <3>1. Mask(write_ptr + i) = i - wn1 /\ i - wn1 \in Slots /\ i - wn1 < wn2
      BY <1>2, <2>2 DEF Slots, Mask
    <3> QED
      BY <1>1, <1>2, <3>1
  <2> QED
    BY <1>2, <2>1, <2>2
<1> QED
  BY <1>3, <1>4

LEMMA VectorFillStep == IInv /\ VectorFill => IInv'
<1> SUFFICES ASSUME IInv, VectorFill PROVE IInv'
  OBVIOUS
<1> USE DEF IInv, VectorFill, readerVars
<1>1. TypeOK'
  BY DEF TypeOK, Filled, Slots
<1>2. PointerInv' /\ PartsInv'
  BY DEF PointerInv, PartsInv, Occupied
<1>3. ClaimsHold'
  BY DEF ClaimsHold, Occupied
<1>4. ReaderHolds'
  BY DEF ReaderHolds
<1>5. InOrder'
  BY VectorFillLays DEF InOrder, Occupied
<1>6. WriterHolds'
  BY VectorFillLays DEF WriterHolds
<1> QED
  BY <1>1, <1>2, <1>3, <1>4, <1>5, <1>6

LEMMA WriteAdvanceStep == IInv /\ WriteAdvance => IInv'
<1> SUFFICES ASSUME IInv, WriteAdvance PROVE IInv'
  OBVIOUS
<1>1. PICK cnt \in 1 .. wn1 + wn2 :
        write_ptr' = Mask(write_ptr + cnt) /\ tail' = tail + cnt
  BY DEF WriteAdvance
<1> USE DEF IInv, WriteAdvance, readerVars
<1>2. TypeOK'
  BY <1>1 DEF TypeOK, ClaimsHold, PointerInv, Occupied, Slots, Mask
<1>3. PointerInv' /\ PartsInv'
  BY <1>1 DEF TypeOK, PointerInv, PartsInv, ClaimsHold, Occupied, Slots, Mask
<1>4. ClaimsHold'
  BY <1>1 DEF TypeOK, PartsInv, PointerInv, ClaimsHold, Occupied
<1>5. ReaderHolds' /\ WriterHolds'
  BY DEF ReaderHolds, WriterHolds
<1>6. ASSUME NEW i \in 0 .. Occupied + cnt - 1
      PROVE  buf[Mask(read_ptr + i)] = head + i
  <2>1. CASE i < Occupied
    BY <2>1 DEF TypeOK, PointerInv, InOrder, Occupied
  <2>2. CASE i >= Occupied
    <3> DEFINE j == i - Occupied
    <3>1. j \in 0 .. wn1 + wn2 - 1 /\ i = Occupied + j /\ i < Size
      BY <2>2 DEF TypeOK, PointerInv, ClaimsHold
    <3>2. Mask(read_ptr + i) = Mask(write_ptr + j)
      BY <3>1, MaskTwice DEF TypeOK, PointerInv
    <3>3. buf[Mask(write_ptr + j)] = tail + j
      BY <3>1 DEF WriterHolds
    <3> QED
      BY <3>1, <3>2, <3>3 DEF TypeOK, Occupied
  <2> QED
    BY <2>1, <2>2 DEF TypeOK, PointerInv, Occupied
<1>7. InOrder'
  BY <1>1, <1>6 DEF TypeOK, InOrder, Occupied
<1> QED
  BY <1>2, <1>3, <1>4, <1>5, <1>7

-------------------------------------------------------------------------------
LEMMA BeginStep ==
  ASSUME IInv, NEW step \in {"copy", "peek"}, Begin(step)
  PROVE  IInv'
<1>1. PICK cnt \in 1 .. Size :
        LET n == AtMost(cnt, ReadSpace(write_ptr, read_ptr))
        IN  /\ n > 0
            /\ rn1' = FirstPart(read_ptr, n)
            /\ rn2' = SecondPart(read_ptr, n)
  BY DEF Begin
<1> DEFINE n == AtMost(cnt, ReadSpace(write_ptr, read_ptr))
<1>2. n \in 1 .. Occupied /\ n \in 1 .. Size - 1
  BY <1>1, SpaceOfPointers DEF IInv, TypeOK, PointerInv, AtMost
<1>3. rn1' \in 1 .. Size /\ rn2' \in 0 .. Size /\ rn1' + rn2' = n
        /\ read_ptr + rn1' <= Size /\ (rn2' > 0 => read_ptr + rn1' = Size)
  BY <1>1, <1>2, PartsOfTransfer DEF IInv, TypeOK
<1> USE DEF IInv, Begin, ringVars, writerVars
<1>4. TypeOK'
  BY <1>3 DEF TypeOK
<1>5. PointerInv' /\ InOrder'
  BY DEF PointerInv, InOrder, Occupied
<1>6. PartsInv'
  BY <1>3 DEF TypeOK, PartsInv
<1>7. ClaimsHold'
  BY <1>2, <1>3 DEF TypeOK, ClaimsHold, Occupied
<1>8. WriterHolds'
  BY DEF WriterHolds
<1>9. ReaderHolds'
  BY DEF ReaderHolds
<1> QED
  BY <1>4, <1>5, <1>6, <1>7, <1>8, <1>9

LEMMA FrontIsSequence ==
  ASSUME NEW n \in Nat, NEW h \in Nat
  PROVE  [i \in 1 .. n |-> h + i - 1] \in Seq(Nat)
<1>1. [i \in 1 .. n |-> h + i - 1] \in [1 .. n -> Nat]
  OBVIOUS
<1> QED
  BY <1>1

(* What lies behind n consumed bytes. *)
LEMMA InOrderBehind ==
  ASSUME IInv, NEW n \in 0 .. Occupied
  PROVE  \A i \in 0 .. Occupied - n - 1 :
           buf[Mask(Mask(read_ptr + n) + i)] = head + n + i
<1> SUFFICES ASSUME NEW i \in 0 .. Occupied - n - 1
             PROVE  buf[Mask(Mask(read_ptr + n) + i)] = head + n + i
  OBVIOUS
<1>1. Occupied \in 0 .. Size - 1 /\ read_ptr \in Slots /\ head \in Nat
  BY DEF IInv, TypeOK, PointerInv
<1>2. Mask(Mask(read_ptr + n) + i) = Mask(read_ptr + (n + i))
  BY <1>1, MaskTwice
<1>3. buf[Mask(read_ptr + (n + i))] = head + (n + i)
  BY <1>1 DEF IInv, InOrder
<1> QED
  BY <1>1, <1>2, <1>3

(* A copy takes the front of the channel: what InOrder says of the slots. *)
LEMMA ReadCopyTakesFront ==
  ASSUME IInv, ReadCopy
  PROVE  dest' = [i \in 1 .. rn1 |-> head + i - 1]
<1>1. ASSUME NEW i \in 1 .. rn1
      PROVE  buf[read_ptr + i - 1] = head + i - 1
  <2>1. i - 1 \in 0 .. Occupied - 1 /\ Mask(read_ptr + (i - 1)) = read_ptr + i - 1
    BY DEF IInv, TypeOK, PointerInv, ClaimsHold, ReadCopy, Slots, Mask
  <2>2. buf[Mask(read_ptr + (i - 1))] = head + (i - 1)
    BY <2>1 DEF IInv, InOrder
  <2> QED
    BY <2>1, <2>2 DEF IInv, TypeOK
<1> QED
  BY <1>1 DEF ReadCopy

LEMMA PeekCopyTakesFront ==
  ASSUME IInv, PeekCopy
  PROVE  out' = [i \in 1 .. rn1 + rn2 |-> head + i - 1]
<1>1. ASSUME NEW i \in 1 .. rn1 + rn2
      PROVE  (IF i <= rn1 THEN buf[read_ptr + i - 1] ELSE buf[i - rn1 - 1])
               = head + i - 1
  <2>1. i - 1 \in 0 .. Occupied - 1
          /\ Mask(read_ptr + (i - 1)) = IF i <= rn1 THEN read_ptr + i - 1
                                                    ELSE i - rn1 - 1
    BY DEF IInv, TypeOK, PointerInv, ClaimsHold, PeekCopy, Slots, Mask
  <2>2. buf[Mask(read_ptr + (i - 1))] = head + (i - 1)
    BY <2>1 DEF IInv, InOrder
  <2> QED
    BY <2>1, <2>2 DEF IInv, TypeOK
<1> QED
  BY <1>1 DEF PeekCopy

LEMMA ReadCopyStep == IInv /\ ReadCopy => IInv'
<1> SUFFICES ASSUME IInv, ReadCopy PROVE IInv'
  OBVIOUS
<1>1. dest' = [i \in 1 .. rn1 |-> head + i - 1]
  BY ReadCopyTakesFront
<1> USE DEF IInv, ReadCopy, ringVars, writerVars
<1>2. dest' \in Seq(Nat)
  <2>1. rn1 \in Nat
    BY DEF TypeOK
  <2> QED
    BY <1>1, <2>1, FrontIsSequence DEF TypeOK
<1>3. TypeOK'
  BY <1>2 DEF TypeOK
<1>4. PointerInv' /\ InOrder'
  BY DEF PointerInv, InOrder, Occupied
<1>5. PartsInv' /\ ClaimsHold'
  BY DEF PartsInv, ClaimsHold, Occupied
<1>6. WriterHolds' /\ ReaderHolds'
  BY <1>1 DEF WriterHolds, ReaderHolds
<1> QED
  BY <1>3, <1>4, <1>5, <1>6

LEMMA ReadPublishStep == IInv /\ ReadPublish => IInv'
<1> SUFFICES ASSUME IInv, ReadPublish PROVE IInv'
  OBVIOUS
<1> USE DEF IInv, ReadPublish, ringVars, writerVars
<1>1. TypeOK'
  BY DEF TypeOK, ClaimsHold, Slots, Mask
<1>2. PointerInv'
  BY DEF TypeOK, PointerInv, ClaimsHold, Occupied, Slots, Mask
<1>3. PartsInv'
  BY DEF TypeOK, PartsInv
<1>4. ClaimsHold'
  BY DEF TypeOK, PartsInv, PointerInv, ClaimsHold, Occupied, Slots, Mask
<1>5. ReaderHolds' /\ WriterHolds'
  BY DEF ReaderHolds, WriterHolds
<1>6. InOrder'
  <2>1. rn1 \in 0 .. Occupied /\ Occupied' = Occupied - rn1
    BY DEF TypeOK, ClaimsHold, Occupied
  <2> QED
    BY <2>1, InOrderBehind DEF InOrder
<1> QED
  BY <1>1, <1>2, <1>3, <1>4, <1>5, <1>6

LEMMA PeekCopyStep == IInv /\ PeekCopy => IInv'
<1> SUFFICES ASSUME IInv, PeekCopy PROVE IInv'
  OBVIOUS
<1>1. out' = [i \in 1 .. rn1 + rn2 |-> head + i - 1]
  BY PeekCopyTakesFront
<1> USE DEF IInv, PeekCopy, ringVars, writerVars
<1>2. out' \in Seq(Nat)
  <2>1. rn1 + rn2 \in Nat
    BY DEF TypeOK
  <2> QED
    BY <1>1, <2>1, FrontIsSequence DEF TypeOK
<1>3. TypeOK'
  BY <1>2 DEF TypeOK
<1>4. PointerInv' /\ InOrder'
  BY DEF PointerInv, InOrder, Occupied
<1>5. PartsInv' /\ ClaimsHold'
  BY DEF PartsInv, ClaimsHold, Occupied
<1>6. WriterHolds' /\ ReaderHolds'
  BY <1>1 DEF WriterHolds, ReaderHolds
<1> QED
  BY <1>3, <1>4, <1>5, <1>6

LEMMA ReadAdvanceStep == IInv /\ ReadAdvance => IInv'
<1> SUFFICES ASSUME IInv, ReadAdvance PROVE IInv'
  OBVIOUS
<1>1. PICK cnt \in 0 .. rn1 + rn2 :
        read_ptr' = Mask(read_ptr + cnt) /\ head' = head + cnt
  BY DEF ReadAdvance
<1> USE DEF IInv, ReadAdvance, ringVars, writerVars
<1>2. TypeOK'
  BY <1>1 DEF TypeOK, ClaimsHold, PointerInv, Occupied, Slots, Mask
<1>3. PointerInv' /\ PartsInv'
  BY <1>1 DEF TypeOK, PointerInv, PartsInv, ClaimsHold, Occupied, Slots, Mask
<1>4. ClaimsHold'
  BY <1>1 DEF TypeOK, PartsInv, PointerInv, ClaimsHold, Occupied
<1>5. ReaderHolds' /\ WriterHolds'
  BY DEF ReaderHolds, WriterHolds
<1>6. InOrder'
  <2>1. cnt \in 0 .. Occupied /\ Occupied' = Occupied - cnt
    BY <1>1 DEF TypeOK, ClaimsHold, Occupied
  <2> QED
    BY <1>1, <2>1, InOrderBehind DEF InOrder
<1> QED
  BY <1>2, <1>3, <1>4, <1>5, <1>6

LEMMA StutterStep == IInv /\ UNCHANGED vars => IInv'
<1> SUFFICES ASSUME IInv, UNCHANGED vars PROVE IInv'
  OBVIOUS
<1> USE DEF vars, ringVars, writerVars, readerVars
<1>1. TypeOK' /\ PointerInv' /\ PartsInv' /\ InOrder'
  BY DEF IInv, TypeOK, PointerInv, PartsInv, InOrder, Occupied
<1>2. ClaimsHold' /\ WriterHolds' /\ ReaderHolds'
  BY DEF IInv, ClaimsHold, WriterHolds, ReaderHolds, Occupied
<1> QED
  BY <1>1, <1>2 DEF IInv

(* The inductive invariant holds in every reachable state. *)
THEOREM Inductive == Spec => []IInv
<1>1. IInv /\ [Next]_vars => IInv'
  <2> SUFFICES ASSUME IInv, [Next]_vars PROVE IInv'
    OBVIOUS
  <2>1. CASE Writer
    BY <2>1, WriteBeginStep, WriteCopyStep, WritePublishStep, VectorBeginStep,
       VectorFillStep, WriteAdvanceStep, StutterStep DEF Writer, WriteNothing
  <2>2. CASE Reader
    BY <2>2, BeginStep, ReadCopyStep, ReadPublishStep, PeekCopyStep,
       ReadAdvanceStep, StutterStep DEF Reader, ReadNothing, ReadBegin, PeekBegin
  <2>3. CASE UNCHANGED vars
    BY <2>3, StutterStep
  <2> QED
    BY <2>1, <2>2, <2>3 DEF Next
<1> QED
  BY <1>1, InitIInv, PTL DEF Spec

(* Every variable keeps its type, for every size of buffer. *)
THEOREM TypeCorrect == Spec => []TypeOK
<1>1. IInv => TypeOK
  BY DEF IInv
<1> QED
  BY <1>1, Inductive, PTL

(* Write and read pointer always say how many bytes are waiting, and a     *)
(* full buffer is never taken for an empty one.                            *)
THEOREM PointersAlwaysCount == Spec => []PointersCount
<1>1. IInv => PointersCount
  BY SpaceOfPointers DEF IInv, TypeOK, PointerInv, PointersCount
<1> QED
  BY <1>1, Inductive, PTL

(* No unread byte is ever overwritten, whatever the interleaving. *)
THEOREM NothingOverwritten == Spec => []InOrder
<1>1. IInv => InOrder
  BY DEF IInv
<1> QED
  BY <1>1, Inductive, PTL

(* The space a call measured stays valid until the call is over. *)
THEOREM ClaimsAlwaysHold == Spec => []ClaimsHold
<1>1. IInv => ClaimsHold
  BY DEF IInv
<1> QED
  BY <1>1, Inductive, PTL

(* The two threads never copy from and to the same slot at the same time. *)
THEOREM DataRaceFree == Spec => []NoDataRace
<1>1. IInv => NoDataRace
  <2> SUFFICES ASSUME IInv, NEW s \in WriterSlots, s \in ReaderSlots PROVE FALSE
    BY DEF NoDataRace
  <2> USE DEF IInv
  <2>1. /\ wn1 \in Nat /\ wn2 \in Nat /\ rn1 \in Nat /\ rn2 \in Nat
        /\ read_ptr \in Slots /\ write_ptr \in Slots
        /\ Occupied \in 0 .. Size - 1 /\ write_ptr = Mask(read_ptr + Occupied)
    BY DEF TypeOK, PointerInv
  <2>2. wn1 + wn2 <= Size - 1 - Occupied /\ write_ptr + wn1 <= Size
          /\ (wn2 > 0 => write_ptr + wn1 = Size)
    BY DEF WriterSlots, ClaimsHold
  <2>3. rn1 + rn2 <= Occupied /\ read_ptr + rn1 <= Size
          /\ (rn2 > 0 => read_ptr + rn1 = Size)
    BY DEF ReaderSlots, ClaimsHold
  <2>4. s \in Parts(write_ptr, wn1, wn2)
    BY <2>1 DEF WriterSlots, Parts
  <2>5. s \in Parts(read_ptr, rn1, rn2)
    BY <2>1 DEF ReaderSlots, Parts
  <2> QED
    BY <2>1, <2>2, <2>3, <2>4, <2>5 DEF Parts, Slots, Mask
<1> QED
  BY <1>1, Inductive, PTL

-------------------------------------------------------------------------------
(* Every step of a thread is a step of the bounded FIFO or leaves it alone. *)
LEMMA StepImplementsFifo ==
  IInv /\ [Next]_vars => [Fifo!FifoNext]_<<tail, head, out>>
<1> SUFFICES ASSUME IInv, [Next]_vars
             PROVE  [Fifo!FifoNext]_<<tail, head, out>>
  OBVIOUS
<1> USE DEF IInv
<1>0. /\ wn1 \in Nat /\ wn2 \in Nat /\ rn1 \in Nat /\ rn2 \in Nat
      /\ tail \in Nat /\ head \in Nat /\ Occupied = tail - head
  BY DEF TypeOK, Occupied
<1>1. CASE WritePublish
  <2>1. wn1 \in 1 .. (Size - 1) - (tail - head)
    BY <1>0, <1>1 DEF WritePublish, PartsInv, ClaimsHold
  <2>2. tail' = tail + wn1 /\ UNCHANGED <<head, out>>
    BY <1>1 DEF WritePublish, readerVars
  <2> QED
    BY <2>1, <2>2 DEF Fifo!FifoNext, Fifo!Put
<1>2. CASE WriteAdvance
  <2>1. PICK cnt \in 1 .. wn1 + wn2 : tail' = tail + cnt
    BY <1>2 DEF WriteAdvance
  <2>2. cnt \in 1 .. (Size - 1) - (tail - head)
    BY <1>0, <1>2 DEF WriteAdvance, ClaimsHold
  <2>3. UNCHANGED <<head, out>>
    BY <1>2 DEF WriteAdvance, readerVars
  <2> QED
    BY <2>1, <2>2, <2>3 DEF Fifo!FifoNext, Fifo!Put
<1>3. CASE ReadPublish
  <2>1. rn1 \in 1 .. tail - head
    BY <1>0, <1>3 DEF ReadPublish, PartsInv, ClaimsHold
  <2>2. out' = [i \in 1 .. rn1 |-> head + i - 1]
    BY <1>3 DEF ReadPublish, ReaderHolds
  <2>3. head' = head + rn1 /\ UNCHANGED tail
    BY <1>3 DEF ReadPublish, ringVars
  <2> QED
    BY <2>1, <2>2, <2>3 DEF Fifo!FifoNext, Fifo!Get, Fifo!Front
<1>4. CASE PeekCopy
  <2>1. rn1 + rn2 \in 1 .. tail - head
    BY <1>0, <1>4 DEF PeekCopy, PartsInv, ClaimsHold
  <2>2. out' = [i \in 1 .. rn1 + rn2 |-> head + i - 1]
    BY <1>4, PeekCopyTakesFront
  <2>3. UNCHANGED <<tail, head>>
    BY <1>4 DEF PeekCopy, ringVars
  <2> QED
    BY <2>1, <2>2, <2>3 DEF Fifo!FifoNext, Fifo!Look, Fifo!Front
<1>5. CASE ReadAdvance
  <2>1. PICK cnt \in 0 .. rn1 + rn2 : head' = head + cnt
    BY <1>5 DEF ReadAdvance
  <2>2. UNCHANGED <<tail, out>>
    BY <1>5 DEF ReadAdvance, ringVars
  <2>3. out = [i \in 1 .. rn1 + rn2 |-> head + i - 1] /\ Len(out) = rn1 + rn2
    BY <1>0, <1>5 DEF ReadAdvance, ReaderHolds
  <2>4. CASE cnt = 0
    BY <1>0, <2>1, <2>2, <2>4
  <2>5. CASE cnt # 0
    BY <1>0, <2>1, <2>2, <2>3, <2>5 DEF Fifo!FifoNext, Fifo!Drop, Fifo!Front
  <2> QED
    BY <2>4, <2>5
<1>6. CASE WriteNothing \/ WriteBegin \/ WriteCopy \/ VectorBegin \/ VectorFill
  BY <1>6 DEF WriteNothing, WriteBegin, WriteCopy, VectorBegin, VectorFill, vars,
     ringVars, readerVars
<1>7. CASE ReadNothing \/ ReadBegin \/ ReadCopy \/ PeekBegin
  BY <1>7 DEF ReadNothing, ReadBegin, ReadCopy, PeekBegin, Begin, vars, ringVars,
     readerVars
<1>8. CASE UNCHANGED vars
  BY <1>8 DEF vars, ringVars, readerVars
<1> QED
  BY <1>1, <1>2, <1>3, <1>4, <1>5, <1>6, <1>7, <1>8 DEF Next, Writer, Reader

(* The ring buffer implements a FIFO channel of Size - 1 bytes. *)
THEOREM RingBufferIsFifo == Spec => ImplementsFifo
<1>1. Init => Fifo!FifoInit
  BY DEF Init, Fifo!FifoInit
<1> QED
  BY <1>1, StepImplementsFifo, Inductive, PTL
     DEF Spec, ImplementsFifo, Fifo!FifoSpec, Fifo!fifoVars
===============================================================================
