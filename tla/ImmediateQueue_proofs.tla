------------------------- MODULE ImmediateQueue_proofs -------------------------
(***************************************************************************)
(* The immediate queue, for every size of the ring, every set of message   *)
(* lengths and whatever a reader that has lost the frames takes for a      *)
(* length: frames stay whole, and an event is damaged only after a message *)
(* that was published in two steps.                                        *)
(***************************************************************************)
EXTENDS ImmediateQueue, TLAPS

Byte == [msg : Nat \ {0}, pos : Nat, len : Nat \ {0}]

(* What the reader will see: the bytes on the ring, and the rest of a      *)
(* split write behind them.                                                *)
Bytes == ring \o rest

Types ==
  /\ ring \in Seq(Byte) /\ rest \in Seq(Byte)
  /\ write_ptr \in Slots /\ Len(rest) < Size
  /\ sent \in Nat /\ accepted \in Seq(Nat) /\ split \subseteq 1 .. sent
  /\ rpc \in {"poll", "body", "render"}
  /\ length \in Nat /\ event \in Nat /\ fed \in Seq(Nat)

(* Messages are numbered as they are sent, so none occurs twice. *)
Increasing ==
  /\ \A i \in 1 .. Len(accepted) : accepted[i] <= sent
  /\ \A i, j \in 1 .. Len(accepted) : i < j => accepted[i] < accepted[j]

(* From any byte on the rest of its frame follows. *)
Whole(s) ==
  \A i \in 1 .. Len(s) :
    /\ s[i].pos <= s[i].len
    /\ \A j \in 0 .. s[i].len - s[i].pos :
         /\ i + j <= Len(s)
         /\ s[i + j] = [msg |-> s[i].msg, pos |-> s[i].pos + j, len |-> s[i].len]

(* Behind a frame there is that of the next message of a, or there is no    *)
(* next one.                                                               *)
Follows(s, a) ==
  \A i \in 1 .. Len(s) : s[i].pos = s[i].len =>
    /\ i < Len(s) => /\ s[i + 1].pos = 0
                     /\ \E k \in 1 .. Len(a) - 1 : a[k] = s[i].msg /\ a[k + 1] = s[i + 1].msg
    /\ i = Len(s) => Len(a) > 0 /\ s[i].msg = a[Len(a)]

RestIsSplit == \A i \in 1 .. Len(rest) : rest[i].msg \in split

(* While no message that was split has been fed, the reader is at the      *)
(* frame of the message it will feed next.                                 *)
Clean == \A i \in 1 .. Len(fed) : i <= Len(accepted) => accepted[i] \notin split
AtFrame(pos) == /\ Bytes # <<>> /\ Len(fed) < Len(accepted)
                /\ Bytes[1].pos = pos /\ Bytes[1].msg = accepted[Len(fed) + 1]
Sync == Clean =>
  /\ rpc = "body" => AtFrame(1) /\ Bytes[1].len = length
  /\ rpc # "body" => AtFrame(0) \/ (Bytes = <<>> /\ Len(fed) = Len(accepted))

IInv == Types /\ Increasing /\ Whole(Bytes) /\ Follows(Bytes, accepted) /\ RestIsSplit /\ Sync

-------------------------------------------------------------------------------
USE SizeAssumption, ImmediateAssumption

(* Two sequences of bytes, one behind the other. *)
LEMMA Joined ==
  ASSUME NEW s, s \in Seq(Byte), NEW t, t \in Seq(Byte)
  PROVE  /\ s \o t \in Seq(Byte) /\ Len(s \o t) = Len(s) + Len(t)
         /\ \A i \in 1 .. Len(s) : (s \o t)[i] = s[i]
         /\ \A i \in 1 .. Len(t) : (s \o t)[Len(s) + i] = t[i]
OBVIOUS

(* What is left of bytes when the first n of them have been read. *)
LEMMA Left ==
  ASSUME NEW s, s \in Seq(Byte), NEW n \in 0 .. Len(s)
  PROVE  /\ SubSeq(s, n + 1, Len(s)) \in Seq(Byte)
         /\ Len(SubSeq(s, n + 1, Len(s))) = Len(s) - n
         /\ \A i \in 1 .. Len(s) - n : SubSeq(s, n + 1, Len(s))[i] = s[i + n]
OBVIOUS

(* A frame is whole, and cutting it in two loses nothing. *)
LEMMA FrameIs ==
  ASSUME NEW m \in Nat \ {0}, NEW len \in Nat \ {0}
  PROVE  /\ Frame(m, len) \in Seq(Byte) /\ Len(Frame(m, len)) = len + 1
         /\ \A i \in 1 .. len + 1 : Frame(m, len)[i] = [msg |-> m, pos |-> i - 1, len |-> len]
BY DEF Frame, Byte

LEMMA CutInTwo ==
  ASSUME NEW s, s \in Seq(Byte), NEW n \in 0 .. Len(s)
  PROVE  /\ SubSeq(s, 1, n) \in Seq(Byte) /\ Len(SubSeq(s, 1, n)) = n
         /\ \A i \in 1 .. n : SubSeq(s, 1, n)[i] = s[i]
OBVIOUS

(* Whole frames stay whole when bytes are read from the front, or another   *)
(* frame is put behind them.                                               *)
LEMMA WholeWhenRead ==
  ASSUME NEW s, s \in Seq(Byte), NEW t, t \in Seq(Byte), NEW n \in 0 .. Len(s), Whole(s),
         Len(t) = Len(s) - n, \A i \in 1 .. Len(t) : t[i] = s[i + n]
  PROVE  Whole(t)
<1> SUFFICES ASSUME NEW i \in 1 .. Len(t)
             PROVE  /\ t[i].pos <= t[i].len
                    /\ \A j \in 0 .. t[i].len - t[i].pos :
                         /\ i + j <= Len(t)
                         /\ t[i + j] = [msg |-> t[i].msg, pos |-> t[i].pos + j, len |-> t[i].len]
  BY DEF Whole
<1>1. i + n \in 1 .. Len(s) /\ t[i] = s[i + n]
  OBVIOUS
<1>2. t[i].pos <= t[i].len
  BY <1>1 DEF Whole
<1>3. ASSUME NEW j \in 0 .. t[i].len - t[i].pos
      PROVE  i + j <= Len(t)
             /\ t[i + j] = [msg |-> t[i].msg, pos |-> t[i].pos + j, len |-> t[i].len]
  <2>1. t[i] \in Byte
    OBVIOUS
  <2>2. j \in Nat /\ j \in 0 .. s[i + n].len - s[i + n].pos
    BY <1>1, <2>1 DEF Byte
  <2>3. /\ (i + n) + j <= Len(s)
        /\ s[(i + n) + j] = [msg |-> s[i + n].msg, pos |-> s[i + n].pos + j, len |-> s[i + n].len]
    BY <1>1, <2>2 DEF Whole
  <2>4. i + j \in 1 .. Len(t) /\ (i + j) + n = (i + n) + j
    BY <2>2, <2>3
  <2>5. t[i + j] = s[(i + n) + j]
    BY <2>4
  <2> QED
    BY <1>1, <2>3, <2>4, <2>5
<1> QED
  BY <1>2, <1>3

LEMMA WholeWhenSent ==
  ASSUME NEW s, s \in Seq(Byte), Whole(s), NEW f, f \in Seq(Byte), Whole(f)
  PROVE  Whole(s \o f)
<1> DEFINE t == s \o f
<1>1. /\ t \in Seq(Byte) /\ Len(t) = Len(s) + Len(f)
      /\ \A i \in 1 .. Len(s) : t[i] = s[i]
      /\ \A i \in 1 .. Len(f) : t[Len(s) + i] = f[i]
  BY Joined
<1> HIDE DEF t
<1> SUFFICES ASSUME NEW i \in 1 .. Len(t)
             PROVE  /\ t[i].pos <= t[i].len
                    /\ \A j \in 0 .. t[i].len - t[i].pos :
                         /\ i + j <= Len(t)
                         /\ t[i + j] = [msg |-> t[i].msg, pos |-> t[i].pos + j, len |-> t[i].len]
  BY DEF Whole, t
<1>2. t[i] \in Byte /\ Len(s) \in Nat /\ Len(f) \in Nat
  BY <1>1
<1>3. CASE i <= Len(s)
  <2>1. i \in 1 .. Len(s) /\ t[i] = s[i]
    BY <1>1, <1>3
  <2>2. t[i].pos <= t[i].len
    BY <2>1 DEF Whole
  <2>3. ASSUME NEW j \in 0 .. t[i].len - t[i].pos
        PROVE  i + j <= Len(t)
               /\ t[i + j] = [msg |-> t[i].msg, pos |-> t[i].pos + j, len |-> t[i].len]
    <3>1. j \in Nat
      BY <1>2 DEF Byte
    <3>2. /\ i + j <= Len(s)
          /\ s[i + j] = [msg |-> s[i].msg, pos |-> s[i].pos + j, len |-> s[i].len]
      BY <2>1 DEF Whole
    <3> QED
      BY <1>1, <1>2, <2>1, <3>1, <3>2
  <2> QED
    BY <2>2, <2>3
<1>4. CASE i > Len(s)
  <2> DEFINE k == i - Len(s)
  <2>1. k \in 1 .. Len(f) /\ i = Len(s) + k
    BY <1>1, <1>2, <1>4
  <2> HIDE DEF k
  <2>2. t[i] = f[k]
    BY <1>1, <2>1
  <2>3. t[i].pos <= t[i].len
    BY <2>1, <2>2 DEF Whole
  <2>4. ASSUME NEW j \in 0 .. t[i].len - t[i].pos
        PROVE  i + j <= Len(t)
               /\ t[i + j] = [msg |-> t[i].msg, pos |-> t[i].pos + j, len |-> t[i].len]
    <3>1. j \in Nat
      BY <1>2 DEF Byte
    <3>2. /\ k + j <= Len(f)
          /\ f[k + j] = [msg |-> f[k].msg, pos |-> f[k].pos + j, len |-> f[k].len]
      BY <2>1, <2>2 DEF Whole
    <3>3. k + j \in 1 .. Len(f) /\ i + j = Len(s) + (k + j)
      BY <1>2, <2>1, <3>1, <3>2
    <3>4. t[i + j] = f[k + j]
      BY <1>1, <3>3
    <3> QED
      BY <1>1, <1>2, <2>1, <2>2, <3>2, <3>3, <3>4
  <2> QED
    BY <2>3, <2>4
<1> QED
  BY <1>2, <1>3, <1>4

LEMMA FrameIsWhole ==
  ASSUME NEW m \in Nat \ {0}, NEW len \in Nat \ {0}
  PROVE  Whole(Frame(m, len))
<1> DEFINE f == Frame(m, len)
<1>1. /\ Len(f) = len + 1
      /\ \A i \in 1 .. len + 1 : f[i] = [msg |-> m, pos |-> i - 1, len |-> len]
  BY FrameIs
<1> HIDE DEF f
<1>2. ASSUME NEW i \in 1 .. Len(f)
      PROVE  /\ f[i].pos = i - 1 /\ f[i].len = len /\ f[i].msg = m
             /\ \A j \in 0 .. f[i].len - f[i].pos :
                  /\ i + j <= Len(f)
                  /\ f[i + j] = [msg |-> f[i].msg, pos |-> f[i].pos + j, len |-> f[i].len]
  <2>1. f[i].pos = i - 1 /\ f[i].len = len /\ f[i].msg = m
    BY <1>1
  <2>2. ASSUME NEW j \in 0 .. f[i].len - f[i].pos
        PROVE  i + j \in 1 .. len + 1
    BY <1>1, <2>1
  <2>3. ASSUME NEW j \in 0 .. f[i].len - f[i].pos
        PROVE  f[i + j] = [msg |-> m, pos |-> (i + j) - 1, len |-> len]
    BY <1>1, <2>2
  <2>4. ASSUME NEW j \in 0 .. f[i].len - f[i].pos
        PROVE  (i + j) - 1 = (i - 1) + j
    BY <1>1, <2>1
  <2> QED
    BY <1>1, <2>1, <2>2, <2>3, <2>4
<1>3. Whole(f)
  <2> SUFFICES ASSUME NEW i \in 1 .. Len(f)
               PROVE  f[i].pos <= f[i].len
    BY <1>2 DEF Whole
  <2> QED
    BY <1>1, <1>2
<1> QED
  BY <1>3 DEF f

(* The last byte of whole frames is the last of its frame. *)
LEMMA LastByte ==
  ASSUME NEW s, s \in Seq(Byte), Whole(s), Len(s) > 0
  PROVE  s[Len(s)].pos = s[Len(s)].len
<1>1. Len(s) \in 1 .. Len(s) /\ s[Len(s)] \in Byte /\ Len(s) \in Nat
  OBVIOUS
<1>2. s[Len(s)].pos <= s[Len(s)].len
  BY <1>1 DEF Whole
<1>3. CASE s[Len(s)].pos < s[Len(s)].len
  <2>1. 1 \in 0 .. s[Len(s)].len - s[Len(s)].pos
    BY <1>1, <1>3 DEF Byte
  <2>2. Len(s) + 1 <= Len(s)
    BY <1>1, <2>1 DEF Whole
  <2> QED
    BY <1>1, <2>2
<1> QED
  BY <1>1, <1>2, <1>3 DEF Byte

LEMMA FollowsWhenRead ==
  ASSUME NEW s, s \in Seq(Byte), NEW t, t \in Seq(Byte), NEW n \in 0 .. Len(s), NEW a,
         Follows(s, a), Len(t) = Len(s) - n, \A i \in 1 .. Len(t) : t[i] = s[i + n]
  PROVE  Follows(t, a)
<1> SUFFICES ASSUME NEW i \in 1 .. Len(t), t[i].pos = t[i].len
             PROVE  /\ i < Len(t) => /\ t[i + 1].pos = 0
                                     /\ \E k \in 1 .. Len(a) - 1 : a[k] = t[i].msg /\ a[k + 1] = t[i + 1].msg
                    /\ i = Len(t) => Len(a) > 0 /\ t[i].msg = a[Len(a)]
  BY DEF Follows
<1>1. i + n \in 1 .. Len(s) /\ t[i] = s[i + n] /\ (i < Len(t) <=> i + n < Len(s))
      /\ (i = Len(t) <=> i + n = Len(s))
  OBVIOUS
<1>2. ASSUME i < Len(t) PROVE t[i + 1] = s[(i + n) + 1]
  <2>1. Len(t) \in Nat /\ i \in Nat /\ n \in Nat
    OBVIOUS
  <2>2. i + 1 \in 1 .. Len(t) /\ (i + 1) + n = (i + n) + 1
    BY <1>2, <2>1
  <2> QED
    BY <2>2
<1> QED
  BY <1>1, <1>2 DEF Follows

LEMMA FollowsWhenSent ==
  ASSUME NEW s, s \in Seq(Byte), Whole(s), NEW a, a \in Seq(Nat), Follows(s, a),
         NEW m \in Nat \ {0}, NEW len \in Nat \ {0}
  PROVE  Follows(s \o Frame(m, len), Append(a, m))
<1> DEFINE f == Frame(m, len)
           t == s \o f
           b == Append(a, m)
<1>1. /\ f \in Seq(Byte) /\ Len(f) = len + 1
      /\ \A i \in 1 .. len + 1 : f[i] = [msg |-> m, pos |-> i - 1, len |-> len]
  BY FrameIs
<1> HIDE DEF f
<1>2. /\ t \in Seq(Byte) /\ Len(t) = Len(s) + Len(f)
      /\ \A i \in 1 .. Len(s) : t[i] = s[i]
      /\ \A i \in 1 .. Len(f) : t[Len(s) + i] = f[i]
  <2>1. f \in Seq(Byte)
    BY <1>1
  <2> QED
    BY <2>1, Joined
<1>3. Len(b) = Len(a) + 1 /\ b[Len(a) + 1] = m /\ \A i \in 1 .. Len(a) : b[i] = a[i]
  OBVIOUS
<1> HIDE DEF t, b
<1>4. ASSUME NEW i \in 1 .. Len(t), t[i].pos = t[i].len
      PROVE  /\ i < Len(t) => /\ t[i + 1].pos = 0
                              /\ \E k \in 1 .. Len(b) - 1 : b[k] = t[i].msg /\ b[k + 1] = t[i + 1].msg
             /\ i = Len(t) => Len(b) > 0 /\ t[i].msg = b[Len(b)]
  <2>1. Len(s) \in Nat /\ Len(a) \in Nat
    OBVIOUS
  <2>2. CASE i < Len(s)
    <3>1. i \in 1 .. Len(s) /\ t[i] = s[i] /\ t[i + 1] = s[i + 1] /\ i # Len(t)
      <4>1. Len(t) \in Nat /\ i \in Nat /\ Len(t) = Len(s) + (len + 1)
        BY <1>1, <1>2
      <4>2. i \in 1 .. Len(s) /\ i + 1 \in 1 .. Len(s) /\ i # Len(t)
        BY <2>1, <2>2, <4>1
      <4> QED
        BY <1>2, <4>2
    <3>2. /\ s[i + 1].pos = 0
          /\ \E k \in 1 .. Len(a) - 1 : a[k] = s[i].msg /\ a[k + 1] = s[i + 1].msg
      BY <1>4, <2>2, <3>1 DEF Follows
    <3>3. PICK k \in 1 .. Len(a) - 1 : a[k] = s[i].msg /\ a[k + 1] = s[i + 1].msg
      BY <3>2
    <3>4. k \in 1 .. Len(b) - 1 /\ b[k] = a[k] /\ b[k + 1] = a[k + 1]
      BY <1>3, <2>1
    <3> QED
      BY <3>1, <3>2, <3>3, <3>4
  <2>3. CASE i = Len(s)
    <3>1. i \in 1 .. Len(s) /\ t[i] = s[i] /\ i # Len(t)
      BY <1>1, <1>2, <2>1, <2>3
    <3>2. Len(a) > 0 /\ s[i].msg = a[Len(a)]
      BY <1>4, <2>3, <3>1 DEF Follows
    <3>3. t[Len(s) + 1] = f[1] /\ f[1].pos = 0 /\ f[1].msg = m
      BY <1>1, <1>2
    <3>4. Len(a) \in 1 .. Len(b) - 1 /\ b[Len(a)] = t[i].msg /\ b[Len(a) + 1] = t[i + 1].msg
      BY <1>3, <2>1, <2>3, <3>1, <3>2, <3>3
    <3> QED
      BY <2>3, <3>1, <3>3, <3>4
  <2>4. CASE i > Len(s)
    <3> DEFINE k == i - Len(s)
    <3>1. k \in 1 .. len + 1 /\ i = Len(s) + k
      BY <1>1, <1>2, <2>1, <2>4
    <3> HIDE DEF k
    <3>2. t[i] = [msg |-> m, pos |-> k - 1, len |-> len]
      BY <1>1, <1>2, <3>1
    <3>3. i = Len(t)
      BY <1>1, <1>2, <1>4, <2>1, <3>1, <3>2
    <3> QED
      BY <1>3, <2>1, <3>2, <3>3
  <2> QED
    BY <1>2, <2>1, <2>2, <2>3, <2>4
<1> QED
  BY <1>4 DEF Follows, t, b, f

(* Sequences with the same bytes are the same. *)
LEMMA SameBytes ==
  ASSUME NEW s, s \in Seq(Byte), NEW t, t \in Seq(Byte), Len(s) = Len(t),
         \A i \in 1 .. Len(s) : s[i] = t[i]
  PROVE  s = t
OBVIOUS

-------------------------------------------------------------------------------
(* The writer. *)

LEMMA Start == Init => IInv /\ DamageNeedsSplit
<1> SUFFICES ASSUME Init PROVE IInv /\ DamageNeedsSplit
  OBVIOUS
<1> USE DEF Init
<1>1. Bytes = <<>>
  BY DEF Bytes
<1>2. Types /\ Increasing
  <2>1. 0 \in Slots
    BY DEF Slots
  <2> QED
    BY <2>1 DEF Types, Increasing, NoMessage
<1>5. RestIsSplit /\ DamageNeedsSplit
  BY DEF RestIsSplit, DamageNeedsSplit
<1>3. Whole(Bytes) /\ Follows(Bytes, accepted)
  BY <1>1 DEF Whole, Follows
<1>4. Sync
  BY <1>1 DEF Sync
<1> QED
  BY <1>2, <1>3, <1>4, <1>5 DEF IInv

(* What play_midi_event does to the stream of bytes. *)
LEMMA Played ==
  ASSUME IInv, PlayMidiEvent
  PROVE  \E len \in Nat \ {0} :
           /\ Bytes' = Bytes \o Frame(sent + 1, len)
           /\ ring' \in Seq(Byte) /\ rest' \in Seq(Byte) /\ Len(rest') < Size
           /\ write_ptr' \in Slots
           /\ split' = IF rest' = <<>> THEN split ELSE split \cup {sent + 1}
           /\ \A i \in 1 .. Len(rest') : rest'[i].msg = sent + 1
<1>1. PICK len \in NextLength :
        /\ Fits(len)
        /\ LET n == AtMost(len + 1, FreeBytes)
           IN  Send(SubSeq(Frame(sent + 1, len), 1, n), FirstPart(write_ptr, n))
  BY DEF PlayMidiEvent
<1>2. /\ ring \in Seq(Byte) /\ rest = <<>> /\ sent \in Nat /\ write_ptr \in Slots
      /\ Len(ring) \in Nat
  BY DEF IInv, Types, PlayMidiEvent
<1>3. len \in Nat \ {0}
  <2>1. CASE sent < Len(Startup)
    <3>1. sent + 1 \in 1 .. Len(Startup)
      BY <1>2, <2>1
    <3>2. Startup[sent + 1] \in 1 .. Size - 1
      BY <3>1
    <3> QED
      BY <2>1, <3>2 DEF NextLength
  <2>2. CASE ~(sent < Len(Startup))
    <3>1. len \in Lengths
      BY <2>2 DEF NextLength
    <3>2. Lengths \subseteq 1 .. Size - 1
      BY ImmediateAssumption
    <3>3. len \in 1 .. Size - 1
      BY <3>1, <3>2
    <3> QED
      BY <3>3
  <2> QED
    BY <2>1, <2>2
<1>4. FreeBytes \in Int /\ len + 1 <= FreeBytes /\ len + 1 < Size /\ AtMost(len + 1, FreeBytes) = len + 1
  BY <1>1, <1>2, <1>3 DEF Fits, FreeBytes, AtMost
<1> DEFINE f == Frame(sent + 1, len)
           first == FirstPart(write_ptr, len + 1)
<1>5. /\ f \in Seq(Byte) /\ Len(f) = len + 1
      /\ \A i \in 1 .. len + 1 : f[i] = [msg |-> sent + 1, pos |-> i - 1, len |-> len]
  <2>1. sent + 1 \in Nat \ {0}
    BY <1>2
  <2> QED
    BY <1>3, <2>1, FrameIs
<1>6. first \in 1 .. len + 1 /\ Mask(write_ptr + first) \in Slots
  BY <1>2, <1>3, <1>4 DEF FirstPart, Mask, Slots
<1>7. SubSeq(f, 1, len + 1) = f
  BY <1>3, <1>5, CutInTwo, SameBytes
<1>8. Send(f, first)
  BY <1>1, <1>4, <1>7
<1> HIDE DEF f, first
<1> DEFINE p == SubSeq(f, 1, first)
           q == SubSeq(f, first + 1, Len(f))
<1>9. /\ p \in Seq(Byte) /\ Len(p) = first /\ \A i \in 1 .. first : p[i] = f[i]
  BY <1>3, <1>5, <1>6, CutInTwo
<1>10. /\ q \in Seq(Byte) /\ Len(q) = len + 1 - first
       /\ \A i \in 1 .. len + 1 - first : q[i] = f[i + first]
  BY <1>3, <1>5, <1>6, Left
<1>11. /\ ring' = ring \o p /\ rest' = q /\ write_ptr' = Mask(write_ptr + first)
       /\ split' = IF first < Len(f) THEN split \cup {sent + 1} ELSE split
  BY <1>8 DEF Send
<1> HIDE DEF p, q
<1>12. /\ p \o q \in Seq(Byte) /\ Len(p \o q) = Len(p) + Len(q)
       /\ \A i \in 1 .. Len(p) : (p \o q)[i] = p[i]
       /\ \A i \in 1 .. Len(q) : (p \o q)[Len(p) + i] = q[i]
  <2>1. p \in Seq(Byte) /\ q \in Seq(Byte)
    BY <1>9, <1>10
  <2> QED
    BY <2>1, Joined
<1>13. p \o q = f
  <2>1. Len(p \o q) = Len(f)
    BY <1>3, <1>5, <1>6, <1>9, <1>10, <1>12
  <2>2. ASSUME NEW i \in 1 .. Len(p \o q) PROVE (p \o q)[i] = f[i]
    <3>1. CASE i <= first
      BY <1>6, <1>9, <1>12, <3>1
    <3>2. CASE i > first
      <4>1. i - first \in 1 .. Len(q) /\ i = Len(p) + (i - first)
        BY <1>3, <1>6, <1>9, <1>10, <1>12, <3>2
      <4>2. (p \o q)[i] = q[i - first]
        BY <1>12, <4>1
      <4>3. q[i - first] = f[(i - first) + first]
        BY <1>10, <4>1
      <4> QED
        BY <1>6, <4>2, <4>3
    <3> QED
      BY <1>6, <3>1, <3>2
  <2> QED
    BY <1>5, <1>12, <2>1, <2>2, SameBytes
<1>14. Bytes' = Bytes \o f
  <2>1. Bytes' = (ring \o p) \o q
    BY <1>11 DEF Bytes
  <2>2. (ring \o p) \o q = ring \o (p \o q)
    BY <1>2, <1>9, <1>10
  <2>3. Bytes = ring
    BY <1>2 DEF Bytes
  <2> QED
    BY <1>13, <2>1, <2>2, <2>3
<1>15. ring' \in Seq(Byte) /\ rest' \in Seq(Byte) /\ Len(rest') < Size /\ write_ptr' \in Slots
  <2>1. ring' \in Seq(Byte)
    BY <1>2, <1>9, <1>11
  <2>2. Len(rest') < Size
    BY <1>3, <1>4, <1>6, <1>10, <1>11
  <2> QED
    BY <1>6, <1>10, <1>11, <2>1, <2>2
<1>16. split' = IF rest' = <<>> THEN split ELSE split \cup {sent + 1}
  <2>1. rest' = <<>> <=> Len(q) = 0
    BY <1>10, <1>11
  <2> QED
    BY <1>3, <1>5, <1>6, <1>10, <1>11, <2>1
<1>17. ASSUME NEW i \in 1 .. Len(rest') PROVE rest'[i].msg = sent + 1
  <2>1. i \in 1 .. len + 1 - first /\ rest'[i] = f[i + first]
    BY <1>10, <1>11
  <2>2. i + first \in 1 .. len + 1
    BY <1>3, <1>6, <2>1
  <2> QED
    BY <1>5, <2>1, <2>2
<1> QED
  BY <1>3, <1>14, <1>15, <1>16, <1>17 DEF f

LEMMA PlayKeeps ==
  ASSUME IInv, PlayMidiEvent
  PROVE  IInv' /\ (DamageNeedsSplit => DamageNeedsSplit')
<1>1. PICK len \in Nat \ {0} :
        /\ Bytes' = Bytes \o Frame(sent + 1, len)
        /\ ring' \in Seq(Byte) /\ rest' \in Seq(Byte) /\ Len(rest') < Size
        /\ write_ptr' \in Slots
        /\ split' = IF rest' = <<>> THEN split ELSE split \cup {sent + 1}
        /\ \A i \in 1 .. Len(rest') : rest'[i].msg = sent + 1
  BY Played
<1>2. /\ sent' = sent + 1 /\ accepted' = Append(accepted, sent + 1)
      /\ UNCHANGED <<rpc, length, event, fed>>
  BY DEF PlayMidiEvent, readerVars
<1>3. /\ sent \in Nat /\ accepted \in Seq(Nat) /\ split \subseteq 1 .. sent
      /\ rpc \in {"poll", "body", "render"} /\ length \in Nat /\ event \in Nat /\ fed \in Seq(Nat)
      /\ ring \in Seq(Byte) /\ rest \in Seq(Byte)
  BY DEF IInv, Types
<1>4. /\ Len(accepted') = Len(accepted) + 1 /\ accepted'[Len(accepted) + 1] = sent + 1
      /\ \A i \in 1 .. Len(accepted) : accepted'[i] = accepted[i]
      /\ accepted' \in Seq(Nat) /\ Len(accepted) \in Nat
  BY <1>2, <1>3
<1>5. Bytes \in Seq(Byte) /\ sent + 1 \in Nat \ {0}
  <2>1. Bytes \in Seq(Byte)
    BY <1>3, Joined DEF Bytes
  <2> QED
    BY <1>3, <2>1
<1>6. split \subseteq split' /\ split' \subseteq 1 .. sent'
  BY <1>1, <1>2, <1>3
<1>7. Types'
  BY <1>1, <1>2, <1>3, <1>4, <1>6 DEF Types
<1>8. Increasing'
  <2>1. ASSUME NEW i \in 1 .. Len(accepted') PROVE accepted'[i] <= sent'
    BY <1>2, <1>3, <1>4 DEF IInv, Increasing
  <2>2. ASSUME NEW i \in 1 .. Len(accepted'), NEW j \in 1 .. Len(accepted'), i < j
        PROVE  accepted'[i] < accepted'[j]
    <3>1. i \in 1 .. Len(accepted)
      BY <1>4, <2>2
    <3>2. accepted'[i] = accepted[i] /\ accepted[i] <= sent /\ accepted[i] \in Nat
      <4>1. accepted[i] \in Nat
        BY <1>3, <3>1
      <4>2. accepted[i] <= sent
        BY <3>1 DEF IInv, Increasing
      <4> QED
        BY <1>4, <3>1, <4>1, <4>2
    <3>3. CASE j = Len(accepted) + 1
      BY <1>3, <1>4, <3>2, <3>3
    <3>4. CASE j # Len(accepted) + 1
      <4>1. j \in 1 .. Len(accepted)
        BY <1>4, <3>4
      <4> QED
        BY <1>4, <2>2, <3>1, <3>2, <4>1 DEF IInv, Increasing
    <3> QED
      BY <3>3, <3>4
  <2> QED
    BY <2>1, <2>2 DEF Increasing
<1>9. Whole(Bytes')
  <2>1. Frame(sent + 1, len) \in Seq(Byte) /\ Whole(Frame(sent + 1, len))
    BY <1>5, FrameIs, FrameIsWhole
  <2> QED
    BY <1>1, <1>5, <2>1, WholeWhenSent DEF IInv
<1>10. Follows(Bytes', accepted')
  BY <1>1, <1>2, <1>3, <1>5, FollowsWhenSent DEF IInv
<1>11. RestIsSplit'
  BY <1>1 DEF RestIsSplit
<1>12. Sync'
  <2> SUFFICES ASSUME Clean'
               PROVE  /\ rpc = "body" => AtFrame(1)' /\ Bytes'[1].len = length
                      /\ rpc # "body" => AtFrame(0)' \/ (Bytes' = <<>> /\ Len(fed) = Len(accepted'))
    BY <1>2 DEF Sync
  <2>1. Clean
    BY <1>2, <1>3, <1>4, <1>6 DEF Clean
  <2> DEFINE f == Frame(sent + 1, len)
  <2>2. f \in Seq(Byte) /\ Len(f) = len + 1 /\ f[1] = [msg |-> sent + 1, pos |-> 0, len |-> len]
    <3>1. 1 \in 1 .. len + 1
      OBVIOUS
    <3>2. /\ f \in Seq(Byte) /\ Len(f) = len + 1
          /\ \A i \in 1 .. len + 1 : f[i] = [msg |-> sent + 1, pos |-> i - 1, len |-> len]
      BY <1>5, FrameIs
    <3> HIDE DEF f
    <3>3. f[1] = [msg |-> sent + 1, pos |-> 1 - 1, len |-> len]
      BY <3>1, <3>2
    <3> QED
      BY <3>2, <3>3
  <2> HIDE DEF f
  <2>3. /\ Bytes' \in Seq(Byte) /\ Len(Bytes') = Len(Bytes) + Len(f)
        /\ \A i \in 1 .. Len(Bytes) : Bytes'[i] = Bytes[i]
        /\ \A i \in 1 .. Len(f) : Bytes'[Len(Bytes) + i] = f[i]
    <3>1. Bytes' = Bytes \o f
      BY <1>1 DEF f
    <3>2. f \in Seq(Byte)
      BY <2>2
    <3> QED
      BY <1>5, <3>1, <3>2, Joined
  <2>4. Bytes' # <<>>
    BY <1>5, <2>2, <2>3
  <2>5. ASSUME NEW pos, AtFrame(pos)
        PROVE  AtFrame(pos)' /\ Bytes'[1] = Bytes[1]
    <3>1. Bytes # <<>> /\ Len(fed) < Len(accepted) /\ Len(fed) \in Nat
      BY <1>3, <2>5 DEF AtFrame
    <3>2. 1 \in 1 .. Len(Bytes) /\ Len(fed) + 1 \in 1 .. Len(accepted)
      BY <1>4, <1>5, <3>1
    <3>3. Bytes'[1] = Bytes[1] /\ accepted'[Len(fed) + 1] = accepted[Len(fed) + 1]
      BY <1>4, <2>3, <3>2
    <3> QED
      BY <1>2, <1>4, <2>4, <2>5, <3>1, <3>3 DEF AtFrame
  <2>6. CASE rpc = "body"
    BY <2>1, <2>5, <2>6 DEF IInv, Sync
  <2>7. CASE rpc # "body" /\ AtFrame(0)
    BY <2>5, <2>7
  <2>8. CASE Bytes = <<>> /\ Len(fed) = Len(accepted)
    <3>1. Bytes'[1] = f[1]
      BY <2>2, <2>3, <2>8
    <3>2. AtFrame(0)'
      <4>1. Len(fed') = Len(accepted)
        BY <1>2, <2>8
      <4>2. Bytes'[1].pos = 0 /\ Bytes'[1].msg = sent + 1
        BY <2>2, <3>1
      <4> QED
        BY <1>4, <2>4, <4>1, <4>2 DEF AtFrame
    <3>3. rpc # "body"
      BY <2>1, <2>8 DEF IInv, Sync, AtFrame
    <3> QED
      BY <3>2, <3>3
  <2> QED
    BY <2>1, <2>6, <2>7, <2>8 DEF IInv, Sync
<1>13. DamageNeedsSplit => DamageNeedsSplit'
  <2> SUFFICES ASSUME DamageNeedsSplit, NEW i \in 1 .. Len(fed), ~FedAt(i)'
               PROVE  \E j \in 1 .. i : j <= Len(accepted') /\ accepted'[j] \in split'
    BY <1>2 DEF DamageNeedsSplit
  <2>1. ~FedAt(i)
    BY <1>2, <1>3, <1>4 DEF FedAt
  <2>2. PICK j \in 1 .. i : j <= Len(accepted) /\ accepted[j] \in split
    BY <2>1 DEF DamageNeedsSplit
  <2>3. Len(fed) \in Nat /\ j \in 1 .. Len(accepted)
    BY <1>3, <1>4, <2>2
  <2>4. j <= Len(accepted') /\ accepted'[j] = accepted[j]
    BY <1>4, <2>3
  <2> QED
    BY <1>6, <2>2, <2>4
<1> QED
  BY <1>7, <1>8, <1>9, <1>10, <1>11, <1>12, <1>13 DEF IInv

LEMMA PublishKeeps ==
  ASSUME IInv, PublishRest
  PROVE  IInv' /\ (DamageNeedsSplit => DamageNeedsSplit')
<1>1. /\ ring' = ring \o rest /\ rest' = <<>> /\ write_ptr' = Mask(write_ptr + Len(rest))
      /\ UNCHANGED <<sent, accepted, split, rpc, length, event, fed>>
  BY DEF PublishRest, readerVars
<1>2. ring \in Seq(Byte) /\ rest \in Seq(Byte) /\ Len(rest) < Size /\ write_ptr \in Slots
  BY DEF IInv, Types
<1>3. ring' \in Seq(Byte)
  BY <1>1, <1>2, Joined
<1>4. Bytes' = Bytes
  BY <1>1, <1>3 DEF Bytes
<1>5. Types'
  <2>1. write_ptr' \in Slots
    BY <1>1, <1>2 DEF Mask, Slots
  <2>2. rest' \in Seq(Byte) /\ Len(rest') < Size
    BY <1>1
  <2> QED
    BY <1>1, <1>3, <2>1, <2>2 DEF IInv, Types
<1>6. RestIsSplit'
  BY <1>1 DEF RestIsSplit
<1>7. Increasing' /\ Whole(Bytes') /\ Follows(Bytes', accepted') /\ Clean' = Clean
  BY <1>1, <1>4 DEF IInv, Increasing, Clean
<1>8. \A pos : AtFrame(pos)' <=> AtFrame(pos)
  BY <1>1, <1>4 DEF AtFrame
<1>9. Sync'
  BY <1>1, <1>4, <1>7, <1>8 DEF IInv, Sync
<1> QED
  BY <1>1, <1>5, <1>6, <1>7, <1>9 DEF IInv, DamageNeedsSplit, FedAt

LEMMA RefuseKeeps ==
  ASSUME IInv, Refuse \/ Render \/ UNCHANGED vars
  PROVE  IInv' /\ (DamageNeedsSplit => DamageNeedsSplit')
<1>1. /\ UNCHANGED <<ring, rest, write_ptr, accepted, split, length, fed>>
      /\ sent' \in {sent, sent + 1} /\ event' \in {event, 0}
      /\ rpc' = rpc \/ (rpc = "render" /\ rpc' = "poll")
  BY DEF Refuse, Render, vars, readerVars, writerVars, NoMessage
<1>2. sent \in Nat
  BY DEF IInv, Types
<1>3. Types'
  BY <1>1, <1>2 DEF IInv, Types
<1>4. Increasing'
  <2>1. ASSUME NEW i \in 1 .. Len(accepted) PROVE accepted[i] <= sent' /\ accepted[i] <= sent
    BY <1>1, <1>2 DEF IInv, Increasing, Types
  <2> QED
    BY <1>1, <2>1 DEF IInv, Increasing
<1>5. Bytes' = Bytes
  BY <1>1 DEF Bytes
<1>6. Whole(Bytes') /\ Follows(Bytes', accepted') /\ RestIsSplit' /\ Clean' = Clean
  BY <1>1, <1>5 DEF IInv, RestIsSplit, Clean
<1>7. \A pos : AtFrame(pos)' <=> AtFrame(pos)
  BY <1>1, <1>5 DEF AtFrame
<1>8. Sync'
  BY <1>1, <1>5, <1>6, <1>7 DEF IInv, Sync
<1> QED
  BY <1>1, <1>3, <1>4, <1>6, <1>8 DEF IInv, DamageNeedsSplit, FedAt

-------------------------------------------------------------------------------
(* The reader. *)

LEMMA ReadEmptyKeeps ==
  ASSUME IInv, ReadEmpty
  PROVE  IInv' /\ (DamageNeedsSplit => DamageNeedsSplit')
<1>1. /\ UNCHANGED <<ring, rest, write_ptr, sent, accepted, split, length, event, fed>>
      /\ rpc = "poll" /\ rpc' \in {"poll", "render"}
  BY DEF ReadEmpty, writerVars
<1>2. Types' /\ Increasing' /\ Bytes' = Bytes
  BY <1>1 DEF IInv, Types, Increasing, Bytes
<1>3. Whole(Bytes') /\ Follows(Bytes', accepted') /\ RestIsSplit' /\ Clean' = Clean
  BY <1>1, <1>2 DEF IInv, RestIsSplit, Clean
<1>4. \A pos : AtFrame(pos)' <=> AtFrame(pos)
  BY <1>1, <1>2 DEF AtFrame
<1>5. Sync'
  BY <1>1, <1>2, <1>3, <1>4 DEF IInv, Sync
<1> QED
  BY <1>1, <1>2, <1>3, <1>5 DEF IInv, DamageNeedsSplit, FedAt

(* Reading n bytes takes them from the front of the stream. *)
LEMMA ReadFront ==
  ASSUME IInv, NEW n \in 0 .. Len(ring), ring' = SubSeq(ring, n + 1, Len(ring)),
         UNCHANGED <<rest, accepted>>
  PROVE  /\ ring' \in Seq(Byte) /\ Bytes' \in Seq(Byte) /\ Bytes \in Seq(Byte)
         /\ n \in 0 .. Len(Bytes)
         /\ Len(Bytes') = Len(Bytes) - n /\ \A i \in 1 .. Len(Bytes') : Bytes'[i] = Bytes[i + n]
         /\ Whole(Bytes') /\ Follows(Bytes', accepted')
<1>1. ring \in Seq(Byte) /\ rest \in Seq(Byte)
  BY DEF IInv, Types
<1>2. /\ ring' \in Seq(Byte) /\ Len(ring') = Len(ring) - n
      /\ \A i \in 1 .. Len(ring) - n : ring'[i] = ring[i + n]
  BY <1>1, Left
<1>3. /\ Bytes \in Seq(Byte) /\ Len(Bytes) = Len(ring) + Len(rest)
      /\ \A i \in 1 .. Len(ring) : Bytes[i] = ring[i]
      /\ \A i \in 1 .. Len(rest) : Bytes[Len(ring) + i] = rest[i]
  BY <1>1, Joined DEF Bytes
<1>4. /\ Bytes' \in Seq(Byte) /\ Len(Bytes') = Len(ring') + Len(rest)
      /\ \A i \in 1 .. Len(ring') : Bytes'[i] = ring'[i]
      /\ \A i \in 1 .. Len(rest) : Bytes'[Len(ring') + i] = rest[i]
  <2>1. Bytes' = ring' \o rest
    BY DEF Bytes
  <2> DEFINE s == ring'
  <2>2. s \in Seq(Byte) /\ Bytes' = s \o rest
    BY <1>2, <2>1
  <2> HIDE DEF s
  <2>3. /\ s \o rest \in Seq(Byte) /\ Len(s \o rest) = Len(s) + Len(rest)
        /\ \A i \in 1 .. Len(s) : (s \o rest)[i] = s[i]
        /\ \A i \in 1 .. Len(rest) : (s \o rest)[Len(s) + i] = rest[i]
    BY <1>1, <2>2, Joined
  <2> QED
    BY <2>2, <2>3 DEF s
<1>5. Len(ring) \in Nat /\ Len(rest) \in Nat /\ Len(Bytes) \in Nat /\ Len(ring') \in Nat
  BY <1>1, <1>2, <1>3
<1>6. n \in 0 .. Len(Bytes) /\ Len(Bytes') = Len(Bytes) - n
  BY <1>2, <1>3, <1>4, <1>5
<1>7. ASSUME NEW i \in 1 .. Len(Bytes') PROVE Bytes'[i] = Bytes[i + n]
  <2>1. CASE i <= Len(ring')
    <3>1. i \in 1 .. Len(ring') /\ i + n \in 1 .. Len(ring)
      BY <1>2, <1>5, <2>1
    <3> QED
      BY <1>2, <1>3, <1>4, <3>1
  <2>2. CASE i > Len(ring')
    <3> DEFINE k == i - Len(ring')
    <3>1. k \in 1 .. Len(rest) /\ i = Len(ring') + k /\ i + n = Len(ring) + k
      <4>1. i \in Nat /\ n \in Nat /\ Len(Bytes') = Len(ring') + Len(rest)
        BY <1>4
      <4>2. Len(ring') + n = Len(ring)
        BY <1>2, <1>5
      <4>3. i <= Len(Bytes')
        OBVIOUS
      <4> HIDE DEF k
      <4>4. k = i - Len(ring')
        BY DEF k
      <4>5. i = Len(ring') + k /\ k > 0 /\ k \in Int
        BY <1>5, <2>2, <4>1, <4>4
      <4>6. k <= Len(rest)
        BY <1>5, <4>1, <4>3, <4>5
      <4>7. i + n = Len(ring) + k
        BY <1>5, <4>1, <4>2, <4>5
      <4> QED
        BY <1>5, <4>5, <4>6, <4>7
    <3> HIDE DEF k
    <3> QED
      BY <1>3, <1>4, <3>1
  <2> QED
    BY <1>5, <1>6, <2>1, <2>2
<1>8. Whole(Bytes')
  BY <1>3, <1>4, <1>6, <1>7, WholeWhenRead DEF IInv
<1>9. Follows(Bytes', accepted)
  <2>1. Follows(Bytes, accepted) /\ Bytes \in Seq(Byte) /\ Bytes' \in Seq(Byte)
    BY <1>3, <1>4 DEF IInv
  <2> QED
    BY <1>6, <1>7, <2>1, FollowsWhenRead
<1> QED
  BY <1>2, <1>3, <1>4, <1>6, <1>7, <1>8, <1>9

LEMMA ReadLengthKeeps ==
  ASSUME IInv, ReadLength
  PROVE  IInv' /\ (DamageNeedsSplit => DamageNeedsSplit')
<1>1. /\ UNCHANGED <<write_ptr, rest, sent, accepted, split, event, fed>>
      /\ rpc = "poll" /\ rpc' = "body" /\ ring # <<>>
      /\ length' \in AsLength(ring[1]) /\ ring' = Tail(ring)
  BY DEF ReadLength, writerVars
<1>2. ring \in Seq(Byte) /\ rest \in Seq(Byte) /\ Len(ring) \in Nat /\ Len(ring) > 0
  BY <1>1 DEF IInv, Types
<1>3. 1 \in 0 .. Len(ring) /\ ring' = SubSeq(ring, 1 + 1, Len(ring))
  BY <1>1, <1>2
<1>4. /\ ring' \in Seq(Byte) /\ Bytes' \in Seq(Byte) /\ Bytes \in Seq(Byte)
      /\ 1 \in 0 .. Len(Bytes)
      /\ Len(Bytes') = Len(Bytes) - 1 /\ \A i \in 1 .. Len(Bytes') : Bytes'[i] = Bytes[i + 1]
      /\ Whole(Bytes') /\ Follows(Bytes', accepted')
  BY <1>1, <1>3, ReadFront
<1>5. ring[1] \in Byte /\ ring[1] = Bytes[1]
  <2>1. 1 \in 1 .. Len(ring)
    BY <1>2
  <2>2. ring[1] \in Byte
    BY <1>2, <2>1
  <2>3. Bytes[1] = ring[1]
    BY <1>2, <2>1, Joined DEF Bytes
  <2> QED
    BY <2>2, <2>3
<1>6. length' \in Nat /\ (Bytes[1].pos = 0 => length' = Bytes[1].len)
  <2>1. CASE ring[1].pos = 0
    BY <1>1, <1>5, <2>1 DEF AsLength, Byte
  <2>2. CASE ring[1].pos # 0
    <3>1. length' \in Misread
      BY <1>1, <2>2 DEF AsLength
    <3> QED
      BY <1>5, <2>2, <3>1
  <2> QED
    BY <2>1, <2>2
<1>7. Types' /\ Increasing' /\ RestIsSplit' /\ Clean' = Clean
  BY <1>1, <1>4, <1>6 DEF IInv, Types, Increasing, RestIsSplit, Clean
<1>8. Sync'
  <2> SUFFICES ASSUME Clean PROVE AtFrame(1)' /\ Bytes'[1].len = length'
    BY <1>1, <1>7 DEF Sync
  <2>1. AtFrame(0)
    <3>1. Bytes # <<>>
      BY <1>4
    <3> QED
      BY <1>1, <3>1 DEF IInv, Sync
  <2>2. Bytes[1].pos = 0 /\ Bytes[1].msg = accepted[Len(fed) + 1] /\ Len(fed) < Len(accepted)
    BY <2>1 DEF AtFrame
  <2>3. 1 \in 1 .. Len(Bytes) /\ Bytes[1] \in Byte /\ 1 \in 0 .. Bytes[1].len - Bytes[1].pos
    BY <1>4, <1>5, <2>2 DEF Byte
  <2>4. /\ 1 + 1 <= Len(Bytes)
        /\ Bytes[1 + 1] = [msg |-> Bytes[1].msg, pos |-> Bytes[1].pos + 1, len |-> Bytes[1].len]
    BY <2>3 DEF IInv, Whole
  <2>5. 1 \in 1 .. Len(Bytes') /\ Bytes' # <<>> /\ Bytes'[1] = Bytes[1 + 1]
    BY <1>4, <2>4
  <2>6. Bytes'[1].pos = 1 /\ Bytes'[1].msg = Bytes[1].msg /\ Bytes'[1].len = Bytes[1].len
    BY <2>2, <2>4, <2>5
  <2> QED
    BY <1>1, <1>6, <2>2, <2>5, <2>6 DEF AtFrame
<1> QED
  BY <1>1, <1>4, <1>7, <1>8 DEF IInv, DamageNeedsSplit, FedAt

(* A message that was not split is read whole. *)
LEMMA BodyIsWhole ==
  ASSUME IInv, rpc = "body", Clean, accepted[Len(fed) + 1] \notin split
  PROVE  /\ length \in Nat \ {0} /\ length <= Len(ring)
         /\ MessageOf(length) = accepted[Len(fed) + 1]
         /\ Bytes[length].msg = accepted[Len(fed) + 1] /\ Bytes[length].pos = Bytes[length].len
<1> DEFINE m == accepted[Len(fed) + 1]
<1>1. /\ Bytes # <<>> /\ Bytes[1].pos = 1 /\ Bytes[1].msg = m /\ Bytes[1].len = length
  BY DEF IInv, Sync, AtFrame
<1> HIDE DEF m
<1>2. ring \in Seq(Byte) /\ rest \in Seq(Byte) /\ Len(ring) \in Nat
  BY DEF IInv, Types
<1>3. /\ Bytes \in Seq(Byte) /\ Len(Bytes) = Len(ring) + Len(rest)
      /\ \A i \in 1 .. Len(ring) : Bytes[i] = ring[i]
      /\ \A i \in 1 .. Len(rest) : Bytes[Len(ring) + i] = rest[i]
  BY <1>2, Joined DEF Bytes
<1>4. 1 \in 1 .. Len(Bytes) /\ length \in Nat \ {0}
  <2>1. 1 \in 1 .. Len(Bytes)
    BY <1>1, <1>3
  <2>2. Bytes[1] \in Byte
    BY <1>3, <2>1
  <2> QED
    BY <1>1, <2>1, <2>2 DEF Byte
<1>5. ASSUME NEW i \in 1 .. length
      PROVE  i \in 1 .. Len(Bytes) /\ Bytes[i] = [msg |-> m, pos |-> i, len |-> length]
  <2>1. i - 1 \in 0 .. Bytes[1].len - Bytes[1].pos
    BY <1>1, <1>4
  <2>2. /\ 1 + (i - 1) <= Len(Bytes)
        /\ Bytes[1 + (i - 1)] = [msg |-> Bytes[1].msg, pos |-> Bytes[1].pos + (i - 1), len |-> Bytes[1].len]
    BY <1>4, <2>1 DEF IInv, Whole
  <2>3. 1 + (i - 1) = i
    BY <1>4
  <2> QED
    BY <1>1, <1>3, <1>4, <2>2, <2>3
<1>6. ASSUME NEW i \in 1 .. length PROVE i <= Len(ring)
  <2> SUFFICES ASSUME i > Len(ring) PROVE FALSE
    BY <1>2, <1>4
  <2> DEFINE k == i - Len(ring)
  <2>1. i \in 1 .. Len(Bytes) /\ i \in Nat /\ Len(rest) \in Nat
    <3>1. i \in 1 .. Len(Bytes)
      BY <1>5
    <3>2. i \in Nat /\ Len(rest) \in Nat
      BY <1>2, <1>4
    <3> QED
      BY <3>1, <3>2
  <2>2. k \in 1 .. Len(rest) /\ i = Len(ring) + k
    BY <1>2, <1>3, <2>1
  <2> HIDE DEF k
  <2>3. Bytes[i] = rest[k] /\ rest[k].msg \in split
    BY <1>3, <2>2 DEF IInv, RestIsSplit
  <2>4. Bytes[i] = [msg |-> m, pos |-> i, len |-> length]
    BY <1>5
  <2> QED
    BY <2>3, <2>4 DEF m
<1>7. length <= Len(ring)
  BY <1>4, <1>6
<1>8. ASSUME NEW i \in 1 .. length
      PROVE  ring[i] = [msg |-> m, pos |-> i, len |-> length]
  <2>1. i \in 1 .. Len(ring)
    BY <1>2, <1>4, <1>6
  <2> QED
    BY <1>3, <1>5, <2>1
<1>9. ring[1].msg = m
  <2>1. 1 \in 1 .. length
    BY <1>4
  <2>2. ring[1] = [msg |-> m, pos |-> 1, len |-> length]
    BY <1>8, <2>1
  <2> QED
    BY <2>2
<1>10. MessageOf(length) = m
  <2>1. \A i \in 1 .. length : ring[i] = [msg |-> ring[1].msg, pos |-> i, len |-> length]
    BY ONLY <1>8, <1>9, Zenon
  <2>2. length > 0
    BY <1>4
  <2> QED
    BY ONLY <1>9, <2>1, <2>2, Zenon DEF MessageOf
<1>11. length \in 1 .. length
  BY <1>4
<1>12. Bytes[length].msg = m /\ Bytes[length].pos = length /\ Bytes[length].len = length
  <2>1. Bytes[length] = [msg |-> m, pos |-> length, len |-> length]
    BY <1>5, <1>11
  <2> QED
    BY <2>1
<1> QED
  BY <1>4, <1>7, <1>10, <1>12 DEF m

LEMMA ReadBodyKeeps ==
  ASSUME IInv, ReadBody
  PROVE  IInv' /\ (DamageNeedsSplit => DamageNeedsSplit')
<1> DEFINE n == AtMost(length, Len(ring))
<1>1. /\ UNCHANGED <<write_ptr, rest, sent, accepted, split, length>>
      /\ rpc = "body" /\ rpc' = "poll"
      /\ event' = MessageOf(n) /\ ring' = SubSeq(ring, n + 1, Len(ring))
      /\ fed' = Append(fed, event')
  BY DEF ReadBody, writerVars
<1>2. /\ ring \in Seq(Byte) /\ rest \in Seq(Byte) /\ Len(ring) \in Nat /\ length \in Nat
      /\ fed \in Seq(Nat) /\ accepted \in Seq(Nat) /\ Len(fed) \in Nat /\ Len(accepted) \in Nat
  BY DEF IInv, Types
<1>3. n \in 0 .. Len(ring)
  BY <1>2 DEF AtMost
<1>4. /\ ring' \in Seq(Byte) /\ Bytes' \in Seq(Byte) /\ Bytes \in Seq(Byte)
      /\ n \in 0 .. Len(Bytes)
      /\ Len(Bytes') = Len(Bytes) - n /\ \A i \in 1 .. Len(Bytes') : Bytes'[i] = Bytes[i + n]
      /\ Whole(Bytes') /\ Follows(Bytes', accepted')
  BY <1>1, <1>3, ReadFront
<1>5. event' \in Nat
  <2>1. MessageOf(n) = 0 \/ (n > 0 /\ MessageOf(n) = ring[1].msg)
    BY DEF MessageOf, NoMessage
  <2>2. n > 0 => ring[1] \in Byte
    BY <1>2, <1>3
  <2> QED
    BY <1>1, <2>1, <2>2 DEF Byte
<1>6. /\ Len(fed') = Len(fed) + 1 /\ fed'[Len(fed) + 1] = event' /\ fed' \in Seq(Nat)
      /\ \A i \in 1 .. Len(fed) : fed'[i] = fed[i]
  BY <1>1, <1>2, <1>5
<1>7. Types' /\ Increasing' /\ RestIsSplit'
  BY <1>1, <1>4, <1>5, <1>6 DEF IInv, Types, Increasing, RestIsSplit
<1> HIDE DEF n
<1>8. Sync' /\ (Clean' => Clean /\ event' = accepted[Len(fed) + 1] /\ Len(fed) < Len(accepted))
  <2> SUFFICES ASSUME Clean'
               PROVE  /\ AtFrame(0)' \/ (Bytes' = <<>> /\ Len(fed') = Len(accepted'))
                      /\ Clean /\ event' = accepted[Len(fed) + 1] /\ Len(fed) < Len(accepted)
    BY <1>1 DEF Sync
  <2>1. Clean
    BY <1>1, <1>2, <1>6 DEF Clean
  <2>2. Len(fed) < Len(accepted)
    BY <1>1, <2>1 DEF IInv, Sync, AtFrame
  <2>3. accepted[Len(fed) + 1] \notin split
    <3>1. Len(fed) + 1 \in 1 .. Len(fed') /\ Len(fed) + 1 <= Len(accepted')
      BY <1>1, <1>2, <1>6, <2>2
    <3> QED
      BY <1>1, <3>1 DEF Clean
  <2>4. /\ length \in Nat \ {0} /\ length <= Len(ring)
        /\ MessageOf(length) = accepted[Len(fed) + 1]
        /\ Bytes[length].msg = accepted[Len(fed) + 1] /\ Bytes[length].pos = Bytes[length].len
    BY <1>1, <2>1, <2>3, BodyIsWhole
  <2>5. n = length
    BY <1>2, <2>4 DEF n, AtMost
  <2>6. length \in 1 .. Len(Bytes) /\ Len(Bytes') = Len(Bytes) - length /\ Len(Bytes) \in Nat
    BY <1>4, <2>4, <2>5
  <2>7. CASE length < Len(Bytes)
    <3>1. Bytes[length + 1].pos = 0
          /\ \E k \in 1 .. Len(accepted) - 1 :
               accepted[k] = Bytes[length].msg /\ accepted[k + 1] = Bytes[length + 1].msg
      BY <2>4, <2>6, <2>7 DEF IInv, Follows
    <3>2. PICK k \in 1 .. Len(accepted) - 1 :
            accepted[k] = accepted[Len(fed) + 1] /\ accepted[k + 1] = Bytes[length + 1].msg
      BY <2>4, <3>1
    <3>3. k = Len(fed) + 1
      <4>1. k \in 1 .. Len(accepted) /\ Len(fed) + 1 \in 1 .. Len(accepted)
        BY <1>2, <2>2
      <4>2. accepted[k] \in Nat /\ accepted[Len(fed) + 1] \in Nat
        BY <1>2, <4>1
      <4>3. ~(k < Len(fed) + 1) /\ ~(Len(fed) + 1 < k)
        BY <3>2, <4>1, <4>2 DEF IInv, Increasing
      <4> QED
        BY <4>1, <4>3
    <3>4. 1 \in 1 .. Len(Bytes') /\ Bytes' # <<>> /\ Bytes'[1] = Bytes[length + 1]
      <4>1. 1 \in 1 .. Len(Bytes')
        BY <2>6, <2>7
      <4>2. Bytes'[1] = Bytes[1 + n]
        BY <1>4, <4>1
      <4> QED
        BY <1>4, <2>4, <2>5, <4>1, <4>2
    <3>5. Len(fed') < Len(accepted')
      BY <1>1, <1>2, <1>6, <3>2, <3>3
    <3>6. accepted'[Len(fed') + 1] = Bytes'[1].msg
      BY <1>1, <1>6, <3>2, <3>3, <3>4
    <3>7. AtFrame(0)'
      BY <3>1, <3>4, <3>5, <3>6 DEF AtFrame
    <3> QED
      BY <1>1, <2>1, <2>2, <2>4, <2>5, <3>7
  <2>8. CASE length = Len(Bytes)
    <3>1. Len(accepted) > 0 /\ Bytes[length].msg = accepted[Len(accepted)]
      BY <2>4, <2>6, <2>8 DEF IInv, Follows
    <3>2. Len(fed) + 1 = Len(accepted)
      <4>1. Len(accepted) \in 1 .. Len(accepted) /\ Len(fed) + 1 \in 1 .. Len(accepted)
        BY <1>2, <2>2
      <4>2. accepted[Len(accepted)] \in Nat
        BY <1>2, <4>1
      <4>3. ~(Len(fed) + 1 < Len(accepted))
        <5>1. Len(fed) + 1 < Len(accepted) => accepted[Len(fed) + 1] < accepted[Len(accepted)]
          BY <4>1 DEF IInv, Increasing
        <5>2. accepted[Len(fed) + 1] = accepted[Len(accepted)]
          BY <2>4, <3>1
        <5> QED
          BY <4>2, <5>1, <5>2
      <4> QED
        BY <1>2, <4>1, <4>3
    <3>3. Bytes' = <<>>
      BY <1>4, <2>6, <2>8
    <3> QED
      BY <1>1, <1>6, <2>1, <2>2, <2>4, <2>5, <3>2, <3>3
  <2> QED
    BY <2>6, <2>7, <2>8
<1>9. DamageNeedsSplit => DamageNeedsSplit'
  <2> SUFFICES ASSUME DamageNeedsSplit, NEW i \in 1 .. Len(fed'), ~FedAt(i)'
               PROVE  \E j \in 1 .. i : j <= Len(accepted) /\ accepted[j] \in split
    BY <1>1 DEF DamageNeedsSplit
  <2>1. CASE i <= Len(fed)
    <3>1. i \in 1 .. Len(fed) /\ fed'[i] = fed[i]
      BY <1>2, <1>6, <2>1
    <3>2. ~FedAt(i)
      BY <1>1, <3>1 DEF FedAt
    <3> QED
      BY <3>1, <3>2 DEF DamageNeedsSplit
  <2>2. CASE i > Len(fed)
    <3>1. i = Len(fed) + 1
      BY <1>2, <1>6, <2>2
    <3>2. ~Clean'
      BY <1>1, <1>2, <1>6, <1>8, <3>1 DEF FedAt
    <3>3. PICK j \in 1 .. Len(fed') : j <= Len(accepted') /\ accepted'[j] \in split'
      BY <3>2 DEF Clean
    <3> QED
      BY <1>1, <1>6, <3>1, <3>3
  <2> QED
    BY <1>2, <1>6, <2>1, <2>2
<1> QED
  BY <1>4, <1>7, <1>8, <1>9 DEF IInv

-------------------------------------------------------------------------------
LEMMA StepKeeps ==
  ASSUME IInv, DamageNeedsSplit, [Next]_vars
  PROVE  IInv' /\ DamageNeedsSplit'
<1>1. CASE PlayMidiEvent
  BY <1>1, PlayKeeps
<1>2. CASE PublishRest
  BY <1>2, PublishKeeps
<1>3. CASE Refuse \/ Render \/ UNCHANGED vars
  BY <1>3, RefuseKeeps
<1>4. CASE ReadLength
  BY <1>4, ReadLengthKeeps
<1>5. CASE ReadBody
  BY <1>5, ReadBodyKeeps
<1>6. CASE ReadEmpty
  BY <1>6, ReadEmptyKeeps
<1> QED
  BY <1>1, <1>2, <1>3, <1>4, <1>5, <1>6 DEF Next, Callback

LEMMA WholeFrames == IInv => FramesWhole
<1> SUFFICES ASSUME IInv, NEW i \in 1 .. Len(Bytes), Bytes[i].pos = 0
             PROVE  /\ i + Bytes[i].len <= Len(Bytes)
                    /\ \A j \in 1 .. Bytes[i].len : Bytes[i + j] = [Bytes[i] EXCEPT !.pos = j]
  BY DEF FramesWhole, Bytes
<1>1. Bytes \in Seq(Byte)
  <2>1. ring \in Seq(Byte) /\ rest \in Seq(Byte)
    BY DEF IInv, Types
  <2> QED
    BY <2>1, Joined DEF Bytes
<1>2. Bytes[i] \in Byte
  BY <1>1
<1>3. ASSUME NEW j \in 0 .. Bytes[i].len
      PROVE  /\ i + j <= Len(Bytes)
             /\ Bytes[i + j] = [msg |-> Bytes[i].msg, pos |-> j, len |-> Bytes[i].len]
  <2>1. j \in 0 .. Bytes[i].len - Bytes[i].pos /\ Bytes[i].pos + j = j
    BY <1>2 DEF Byte
  <2> QED
    BY <2>1 DEF IInv, Whole
<1>4. Bytes[i].len \in 0 .. Bytes[i].len /\ 1 .. Bytes[i].len \subseteq 0 .. Bytes[i].len
  BY <1>2 DEF Byte
<1>5. ASSUME NEW j \in 1 .. Bytes[i].len
      PROVE  [Bytes[i] EXCEPT !.pos = j] = [msg |-> Bytes[i].msg, pos |-> j, len |-> Bytes[i].len]
  BY <1>2 DEF Byte
<1> QED
  BY <1>3, <1>4, <1>5

(* However the ring is cut, a message that was accepted is on it whole, or  *)
(* partly on it and partly about to be (event_queue_write_immediate),       *)
(* whatever a read of the empty queue returns.                              *)
THEOREM FramesStayWhole == Spec => []FramesWhole
<1>1. Init => IInv /\ DamageNeedsSplit
  BY Start
<1>2. IInv /\ DamageNeedsSplit /\ [Next]_vars => IInv' /\ DamageNeedsSplit'
  BY StepKeeps
<1> QED
  BY <1>1, <1>2, WholeFrames, PTL DEF Spec

(* The events read off the queue are the messages accepted, in their order, *)
(* up to the first message that jack_ringbuffer_write published in two      *)
(* steps: for every ring and every set of messages that never crosses its   *)
(* end the queue loses and tears nothing, and nothing is read off it when   *)
(* it is empty, although event_queue_read_output then returns anything.     *)
THEOREM DamageOnlyBySplits == Spec => []DamageNeedsSplit
<1>1. Init => IInv /\ DamageNeedsSplit
  BY Start
<1>2. IInv /\ DamageNeedsSplit /\ [Next]_vars => IInv' /\ DamageNeedsSplit'
  BY StepKeeps
<1> QED
  BY <1>1, <1>2, PTL DEF Spec

================================================================================
