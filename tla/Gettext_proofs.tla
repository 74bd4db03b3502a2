---------------------------- MODULE Gettext_proofs ----------------------------
(***************************************************************************)
(* Theorems about the message lookup, for all files, environments, bindings *)
(* and calls.  In this order: the memory of converted strings, which the   *)
(* lookup drives as TransPool's specification says; the list of bindings;  *)
(* the searches in a catalog; the list of files, and the types; what is    *)
(* handed out is the message asked for; it is in the codeset bound; it is  *)
(* from the first file that has the message in one of the code's orders.   *)
(***************************************************************************)
EXTENDS Gettext, WellFoundedInduction, SequenceTheorems, TLAPS

(***************************************************************************)
(* Converted translations are never damaged, for every block size, every   *)
(* alignment and all lengths.  PoolIntact alone is not inductive: freemem  *)
(* and freemem_size must mark the unused end of a block (Unused), the      *)
(* strings of that block lie before it (Behind), and the block that        *)
(* realloc moves while a conversion is tried again must be one that holds  *)
(* none (Growing).                                                         *)
(***************************************************************************)

Multiple(n) == n % ALIGN = 0

PoolTypes == /\ blocks \in Seq(Nat)
             /\ freemem \in 0..Len(blocks)
             /\ offset \in Nat /\ freemem_size \in Nat
             /\ malloc_count \in Nat /\ outlen \in Nat
             /\ converting \in BOOLEAN
             /\ strings \in SUBSET Strings

(* What is free is the end of a block, and all sizes are aligned. *)
Unused == /\ \A i \in DOMAIN blocks : Multiple(blocks[i])
          /\ Multiple(freemem_size) /\ Multiple(offset)
          /\ freemem = 0 => freemem_size = 0
          /\ freemem # 0 => offset + freemem_size = blocks[freemem]

Behind == \A s \in strings : s.block = freemem => End(s) <= offset

Growing == converting /\ malloc_count > 0 =>
             /\ freemem = Len(blocks) /\ freemem # 0
             /\ \A s \in strings : s.block # freemem

PoolInv == PoolTypes /\ PoolIntact /\ Unused /\ Behind /\ Growing

-------------------------------------------------------------------------------
(* Arithmetic. *)

LEMMA MultipleOf ==
  ASSUME NEW n \in Nat, NEW q \in Int, n = ALIGN * q
  PROVE  Multiple(n)
<1> DEFINE r == n % ALIGN
           d == n \div ALIGN
<1>1. r \in Int /\ d \in Int /\ n = ALIGN * d + r /\ 0 <= r /\ r < ALIGN
  BY PoolAssumption
<1>2. r = ALIGN * (q - d)
  BY <1>1, PoolAssumption
<1>3. q - d >= 1 => ALIGN * (q - d) >= ALIGN
  BY <1>1, PoolAssumption
<1>4. q - d <= -1 => ALIGN * (q - d) <= -ALIGN
  BY <1>1, PoolAssumption
<1>5. r = 0
  BY <1>1, <1>2, <1>3, <1>4, PoolAssumption
<1> QED
  BY <1>5 DEF Multiple

LEMMA Quotient ==
  ASSUME NEW n \in Nat, Multiple(n)
  PROVE  n = ALIGN * (n \div ALIGN) /\ n \div ALIGN \in Int
BY PoolAssumption DEF Multiple

LEMMA MultipleDifference ==
  ASSUME NEW a \in Nat, NEW b \in Nat, Multiple(a), Multiple(b), b <= a
  PROVE  Multiple(a - b)
<1>1. a - b = ALIGN * (a \div ALIGN - b \div ALIGN) /\ a \div ALIGN - b \div ALIGN \in Int
  BY Quotient, PoolAssumption
<1> QED
  BY <1>1, MultipleOf

LEMMA MultipleProduct ==
  ASSUME NEW n \in Nat
  PROVE  Multiple(n * INITIAL_BLOCK_SIZE) /\ n * INITIAL_BLOCK_SIZE \in Nat
<1>1. INITIAL_BLOCK_SIZE = ALIGN * (INITIAL_BLOCK_SIZE \div ALIGN)
      /\ INITIAL_BLOCK_SIZE \div ALIGN \in Int
  BY Quotient, PoolAssumption DEF Multiple
<1>2. n * INITIAL_BLOCK_SIZE = ALIGN * (n * (INITIAL_BLOCK_SIZE \div ALIGN))
      /\ n * (INITIAL_BLOCK_SIZE \div ALIGN) \in Int
  BY <1>1, PoolAssumption
<1>3. n * INITIAL_BLOCK_SIZE \in Nat
  BY PoolAssumption
<1> QED
  BY <1>2, <1>3, MultipleOf

(* Pad leaves a multiple of the alignment. *)
LEMMA PadRounds ==
  ASSUME NEW left \in Nat
  PROVE  Pad(left) \in Nat /\ Pad(left) <= left /\ Multiple(left - Pad(left))
<1>1. /\ left % ALIGN \in Int /\ left \div ALIGN \in Int
      /\ left = ALIGN * (left \div ALIGN) + (left % ALIGN)
      /\ 0 <= left % ALIGN
  BY PoolAssumption
<1>2. left \div ALIGN >= 0
  BY PoolAssumption
<1>3. ALIGN * (left \div ALIGN) \in Nat
  BY <1>1, <1>2, PoolAssumption
<1> DEFINE m == ALIGN * (left \div ALIGN)
           r == left % ALIGN
<1>4. m \in Nat /\ r \in Int /\ left = m + r /\ 0 <= r
  BY <1>1, <1>3
<1>5. r \in Nat /\ r <= left /\ left - r = m
  <2> HIDE DEF m, r
  <2> QED  BY <1>4
<1>6. Pad(left) = r
  BY DEF Pad
<1>7. left - r \in Nat /\ Multiple(left - r)
  BY <1>1, <1>4, <1>5, MultipleOf
<1> HIDE DEF m, r
<1> QED
  BY <1>5, <1>6, <1>7

-------------------------------------------------------------------------------
(* The invariant. *)

LEMMA Start == PoolInit => PoolInv
<1> SUFFICES ASSUME PoolInit PROVE PoolInv
  OBVIOUS
<1>1. Multiple(0)
  BY MultipleOf, PoolAssumption
<1>2. /\ blocks = <<>> /\ strings = {} /\ converting = FALSE
      /\ freemem = 0 /\ offset = 0 /\ freemem_size = 0 /\ malloc_count = 0 /\ outlen = 0
  BY DEF PoolInit
<1>3. PoolTypes
  <2>1. blocks \in Seq(Nat) /\ Len(blocks) = 0
    BY <1>2
  <2>2. strings \in SUBSET Strings /\ converting \in BOOLEAN
    BY <1>2
  <2>3. freemem \in 0..Len(blocks)
    BY <1>2, <2>1
  <2>4. offset \in Nat /\ freemem_size \in Nat /\ malloc_count \in Nat /\ outlen \in Nat
    BY <1>2
  <2> QED
    BY <2>1, <2>2, <2>3, <2>4 DEF PoolTypes
<1>4. Unused
  BY <1>1, <1>2 DEF Unused
<1>5. Behind /\ Growing /\ PoolIntact
  BY <1>2 DEF Behind, Growing, PoolIntact
<1> QED
  BY <1>3, <1>4, <1>5 DEF PoolInv

(* The steps that touch neither blocks nor strings. *)
LEMMA BeginKeeps ==
  ASSUME PoolInv, NEW length \in Lengths, BeginConversion(length)
  PROVE  PoolInv'
BY PoolAssumption
   DEF PoolInv, BeginConversion, PoolTypes, Unused, Behind, Growing, PoolIntact, Allocated, End, Multiple

LEMMA GiveUpKeeps ==
  ASSUME PoolInv, CannotConvert \/ NoMemory
  PROVE  PoolInv'
<1>1. Multiple(0)
  BY MultipleOf, PoolAssumption
<1>2. CASE CannotConvert
  BY <1>2
     DEF PoolInv, CannotConvert, PoolTypes, Unused, Behind, Growing, PoolIntact, Allocated, End, Multiple
<1>3. CASE NoMemory
  <2>1. /\ UNCHANGED <<blocks, outlen, strings>> /\ converting' = FALSE
        /\ freemem' = 0 /\ freemem_size' = 0 /\ offset' = 0
        /\ malloc_count' = malloc_count + 1
    BY <1>3 DEF NoMemory
  <2>2. PoolTypes'
    <3>1. blocks \in Seq(Nat) /\ Len(blocks) \in Nat
      BY DEF PoolInv, PoolTypes
    <3>2. freemem' \in 0..Len(blocks')
      <4>1. 0 \in 0..Len(blocks)
        BY <3>1
      <4> QED
        BY <2>1, <4>1
    <3>3. converting' \in BOOLEAN
      BY <2>1
    <3>4. offset' \in Nat /\ freemem_size' \in Nat /\ malloc_count' \in Nat
      BY <2>1 DEF PoolInv, PoolTypes
    <3> QED
      BY <2>1, <3>1, <3>2, <3>3, <3>4 DEF PoolInv, PoolTypes
  <2>3. Unused'
    BY <1>1, <2>1 DEF PoolInv, Unused, Multiple
  <2>4. PoolIntact'
    BY <2>1 DEF PoolInv, PoolIntact, Allocated, End
  <2>5. Behind'
    <3>1. \A s \in strings : s.block # 0
      BY DEF PoolInv, PoolTypes, PoolIntact, Allocated
    <3> QED
      BY <2>1, <3>1 DEF Behind
  <2>6. Growing'
    BY <2>1 DEF Growing
  <2> QED
    BY <2>2, <2>3, <2>4, <2>5, <2>6 DEF PoolInv
<1> QED
  BY <1>2, <1>3

(* The string takes the beginning of what is free, and the rest stays aligned. *)
LEMMA StoreKeeps ==
  ASSUME PoolInv, Store
  PROVE  PoolInv'
<1> DEFINE left == freemem_size - (ALIGN + outlen)
<1>1. left \in Nat /\ freemem_size >= ALIGN
  BY PoolAssumption DEF PoolInv, Store, Fits, PoolTypes
<1>2. Pad(left) \in Nat /\ Pad(left) <= left /\ Multiple(left - Pad(left))
  BY <1>1, PadRounds
<1>3. /\ offset' = offset + ALIGN + outlen + Pad(left)
      /\ freemem_size' = left - Pad(left)
      /\ UNCHANGED <<blocks, freemem, malloc_count, outlen>>
      /\ strings' = strings \cup {ThisString} /\ converting' = FALSE
  BY DEF Store
<1>4. freemem \in DOMAIN blocks /\ freemem # 0 /\ blocks[freemem] \in Nat
  BY <1>1, PoolAssumption DEF PoolInv, Unused, PoolTypes
<1>5. offset + freemem_size = blocks[freemem]
  BY <1>4 DEF PoolInv, Unused
<1>6. /\ offset' \in Nat /\ freemem_size' \in Nat
      /\ offset' + freemem_size' = blocks[freemem]
      /\ offset + ALIGN + outlen <= offset'
      /\ offset' = blocks[freemem] - freemem_size'
      /\ offset' <= blocks[freemem] /\ freemem_size' <= blocks[freemem]
  <2> DEFINE p == Pad(left)
  <2>1. p \in Nat /\ p <= left /\ offset \in Nat /\ outlen \in Nat /\ freemem_size \in Nat
        /\ ALIGN \in Nat
    BY <1>2, PoolAssumption DEF PoolInv, PoolTypes
  <2>2. offset' = offset + ALIGN + outlen + p /\ freemem_size' = freemem_size - (ALIGN + outlen) - p
    BY <1>3
  <2> HIDE DEF p
  <2> QED
    BY <2>1, <2>2, <1>1, <1>4, <1>5
<1>7. Multiple(offset') /\ Multiple(freemem_size')
  <2>1. Multiple(freemem_size')
    BY <1>2, <1>3
  <2>2. Multiple(blocks[freemem])
    BY <1>4 DEF PoolInv, Unused
  <2> QED
    BY <2>1, <2>2, <1>4, <1>6, MultipleDifference
<1>8. /\ ThisString \in Strings
      /\ ThisString.block = freemem /\ ThisString.start = offset
      /\ End(ThisString) = offset + ALIGN + outlen
  BY <1>4, PoolAssumption DEF ThisString, Strings, End, PoolInv, PoolTypes
<1>9. PoolTypes'
  BY <1>3, <1>6, <1>8 DEF PoolInv, PoolTypes
<1>10. Unused'
  BY <1>3, <1>4, <1>6, <1>7 DEF PoolInv, Unused, Multiple
<1>11. Behind'
  <2> SUFFICES ASSUME NEW s \in strings', s.block = freemem PROVE End(s) <= offset'
    BY <1>3 DEF Behind, End
  <2>1. CASE s = ThisString
    BY <2>1, <1>6, <1>8
  <2>2. CASE s \in strings
    <3>1. End(s) <= offset /\ End(s) \in Nat
      BY <2>2 DEF PoolInv, Behind, PoolTypes, Strings, End
    <3>2. offset <= offset'
      BY <1>6, PoolAssumption DEF PoolInv, PoolTypes
    <3> QED
      BY <3>1, <3>2, <1>6 DEF PoolInv, PoolTypes
  <2> QED
    BY <2>1, <2>2, <1>3
<1>12. PoolIntact'
  <2>1. Allocated(ThisString)
    <3>1. offset % ALIGN = 0 /\ offset + ALIGN + outlen \in Nat
      BY PoolAssumption DEF PoolInv, Unused, Multiple, PoolTypes
    <3>2. offset + ALIGN + outlen <= blocks[freemem]
      BY <3>1, <1>4, <1>6
    <3> QED
      BY <3>1, <3>2, <1>4, <1>8 DEF Allocated
  <2>2. \A s \in strings : Allocated(s)
    BY DEF PoolInv, PoolIntact
  <2>3. \A s \in strings' : Allocated(s)'
    BY <2>1, <2>2, <1>3 DEF Allocated, End
  <2>4. \A s \in strings : s.block = freemem => End(s) <= ThisString.start
    BY <1>8 DEF PoolInv, Behind
  <2>5. \A s, t \in strings' : s # t /\ s.block = t.block => End(s) <= t.start \/ End(t) <= s.start
    BY <2>4, <1>3, <1>8 DEF PoolInv, PoolIntact
  <2> QED
    BY <2>3, <2>5 DEF PoolIntact, End
<1> QED
  BY <1>3, <1>9, <1>10, <1>11, <1>12 DEF PoolInv, Growing

(* A new block holds nothing, and nor does the one that grows. *)
LEMMA ResizeKeeps ==
  ASSUME PoolInv, Resize
  PROVE  PoolInv'
<1> DEFINE b == Len(blocks')
<1>1. /\ malloc_count' = malloc_count + 1 /\ malloc_count' \in Nat
      /\ freemem_size' = malloc_count' * INITIAL_BLOCK_SIZE
      /\ offset' = 0 /\ freemem' = b
      /\ UNCHANGED <<outlen, converting, strings>> /\ converting
  BY DEF Resize, PoolInv, PoolTypes
<1>2. freemem_size' \in Nat /\ Multiple(freemem_size') /\ Multiple(0)
  <2>1. Multiple(0)
    BY MultipleOf, PoolAssumption
  <2>2. Multiple(malloc_count' * INITIAL_BLOCK_SIZE) /\ malloc_count' * INITIAL_BLOCK_SIZE \in Nat
    BY <1>1, MultipleProduct
  <2> QED
    BY <1>1, <2>1, <2>2
<1>3. /\ blocks' \in Seq(Nat) /\ b \in DOMAIN blocks' /\ b # 0
      /\ blocks'[b] = freemem_size'
      /\ DOMAIN blocks \subseteq DOMAIN blocks'
      /\ \A i \in DOMAIN blocks' : i # b => i \in DOMAIN blocks /\ blocks'[i] = blocks[i]
      /\ \A s \in strings : s.block # b
  <2>1. blocks \in Seq(Nat) /\ \A s \in strings : s.block \in DOMAIN blocks
    BY DEF PoolInv, PoolTypes, PoolIntact, Allocated
  <2>2. CASE malloc_count = 0
    <3>1. blocks' = Append(blocks, freemem_size')
      BY <2>2 DEF Resize
    <3> QED
      BY <2>1, <3>1, <1>2
  <2>3. CASE malloc_count # 0
    <3>1. blocks' = [blocks EXCEPT ![Len(blocks)] = freemem_size']
      BY <2>3 DEF Resize
    <3>2. /\ Len(blocks) # 0
          /\ \A s \in strings : s.block # Len(blocks)
      BY <2>3, <1>1 DEF PoolInv, Growing, PoolTypes
    <3>3. Len(blocks) \in DOMAIN blocks /\ Len(blocks') = Len(blocks) /\ DOMAIN blocks' = DOMAIN blocks
      BY <2>1, <3>1, <3>2
    <3> QED
      BY <2>1, <3>1, <3>2, <3>3, <1>2
  <2> QED
    BY <2>2, <2>3
<1> HIDE DEF b
<1>4. PoolTypes'
  BY <1>1, <1>2, <1>3 DEF PoolInv, PoolTypes, b
<1>5. Unused'
  <2>1. \A i \in DOMAIN blocks' : Multiple(blocks'[i])
    BY <1>2, <1>3 DEF PoolInv, Unused
  <2> QED
    BY <2>1, <1>1, <1>2, <1>3 DEF Unused, Multiple
<1>6. Behind' /\ Growing'
  BY <1>1, <1>3 DEF Behind, Growing, b
<1>7. PoolIntact'
  BY <1>1, <1>3 DEF PoolInv, PoolIntact, Allocated, End
<1> QED
  BY <1>4, <1>5, <1>6, <1>7 DEF PoolInv

LEMMA Keeps == PoolInv /\ [PoolNext]_pool => PoolInv'
<1> SUFFICES ASSUME PoolInv, [PoolNext]_pool PROVE PoolInv'
  OBVIOUS
<1>1. CASE UNCHANGED pool
  BY <1>1 DEF pool, PoolInv, PoolTypes, Unused, Behind, Growing, PoolIntact, Allocated, End, Multiple
<1>2. CASE \E length \in Lengths : BeginConversion(length)
  BY <1>2, BeginKeeps
<1>3. CASE Store
  BY <1>3, StoreKeeps
<1>4. CASE CannotConvert \/ NoMemory
  BY <1>4, GiveUpKeeps
<1>5. CASE Resize
  BY <1>5, ResizeKeeps
<1> QED
  BY <1>1, <1>2, <1>3, <1>4, <1>5 DEF PoolNext

(* The free memory is always the aligned end of the last block that was taken, *)
(* whatever is converted and wherever memory runs out.                         *)
THEOREM PoolInductive == PoolSpec => []PoolInv
BY Start, Keeps, PTL DEF PoolSpec

(* Every converted string stays whole, allocated and aligned for ever: for any   *)
(* block size, alignment and lengths, no sequence of conversions, enlargements   *)
(* and failures writes over a translation that was handed out (_nl_find_msg).    *)
THEOREM StringsStayIntact == PoolSpec => []PoolIntact
<1>1. PoolInv => PoolIntact
  BY DEF PoolInv
<1> QED
  BY <1>1, PoolInductive, PTL

-------------------------------------------------------------------------------
(* The lookup and the memory. *)

\* While a call is being worked on its message is one that occurs.
KnownCall == pc # "idle" => call.msgid \in DOMAIN Hash

LEMMA InitKnown == Init => KnownCall /\ PoolInit
BY DEF Init, KnownCall

LEMMA DCIGETTEXTKnown ==
  ASSUME NEW arguments \in Calls, DCIGETTEXT(arguments)
  PROVE  KnownCall' /\ UNCHANGED pool
<1> DEFINE d == IF arguments.domainname = NULL THEN _nl_current_default_domain
                                              ELSE arguments.domainname
<1>1. call' = [arguments EXCEPT !.domainname = d] /\ UNCHANGED pool
  BY DEF DCIGETTEXT
<1>2. arguments.msgid \in DOMAIN Hash
      /\ arguments \in [domainname : Domains \cup {NULL}, msgid : DOMAIN Hash, n : {NULL} \cup Nat]
  BY CallsAssumption
<1>3. call'.msgid = arguments.msgid
  BY <1>1, <1>2
<1> QED
  BY <1>1, <1>2, <1>3 DEF KnownCall

LEMMA StepKnown ==
  ASSUME KnownCall, [Next]_vars
  PROVE  KnownCall' /\ [PoolNext]_pool
<1>1. CASE UNCHANGED vars
  BY <1>1 DEF vars, lookup, KnownCall
<1>2. ASSUME NEW d \in Domains, NEW dirname \in Dirnames, BINDTEXTDOMAIN(d, dirname)
      PROVE  KnownCall' /\ UNCHANGED pool
  <2>1. BindingUnchanged
    BY <1>2 DEF BINDTEXTDOMAIN, Rebind, Bind
  <2> QED
    BY <2>1 DEF BindingUnchanged, lookup, KnownCall
<1>3. ASSUME NEW d \in Domains, NEW codeset \in Codesets, BIND_TEXTDOMAIN_CODESET(d, codeset)
      PROVE  KnownCall' /\ UNCHANGED pool
  <2>1. BindingUnchanged
    BY <1>3 DEF BIND_TEXTDOMAIN_CODESET, Rebind, Bind
  <2> QED
    BY <2>1 DEF BindingUnchanged, lookup, KnownCall
<1>4. ASSUME NEW d \in Domains, TEXTDOMAIN(d)
      PROVE  KnownCall' /\ UNCHANGED pool
  BY <1>4 DEF TEXTDOMAIN, lookup, KnownCall
<1>5. CASE ChangeEnvironment
  BY <1>5 DEF ChangeEnvironment, lookup, KnownCall
<1>6. ASSUME NEW arguments \in Calls, DCIGETTEXT(arguments)
      PROVE  KnownCall' /\ UNCHANGED pool
  BY <1>6, DCIGETTEXTKnown
<1>7. CASE NextLocale
  <2>1. UNCHANGED <<pool, call>> /\ pc # "idle"
    BY <1>7 DEF NextLocale, Untranslated
  <2> QED
    BY <2>1 DEF KnownCall
<1>8. CASE FindDomain
  BY <1>8 DEF FindDomain, KnownCall
<1>9. CASE Load
  BY <1>9 DEF Load, KnownCall
<1>10. CASE EndLoop
  BY <1>10 DEF EndLoop, KnownCall
<1>11. CASE FindMsg
  <2>1. KnownCall' /\ pc = "translate"
    BY <1>11 DEF FindMsg, lookup, KnownCall
  <2>2. UNCHANGED pool \/ BeginConversion(OutLength[call.msgid])
    BY <1>11 DEF FindMsg
  <2>3. OutLength[call.msgid] \in Lengths
    BY <2>1, CallsAssumption DEF KnownCall
  <2> QED
    BY <2>1, <2>2, <2>3 DEF PoolNext
<1>12. CASE Convert
  <2>1. KnownCall'
    BY <1>12 DEF Convert, lookup, KnownCall
  <2>2. PoolNext
    BY <1>12 DEF Convert, PoolNext
  <2> QED
    BY <2>1, <2>2
<1>13. CASE Remember
  BY <1>13 DEF Remember, KnownCall
<1>14. CASE Return
  BY <1>14 DEF Return, KnownCall
<1> QED
  BY <1>1, <1>2, <1>3, <1>4, <1>5, <1>6, <1>7, <1>8, <1>9, <1>10, <1>11, <1>12, <1>13, <1>14
     DEF Next, Step

\* Every behaviour of the message lookup is one of the memory's specification: no call,
\* binding or change of the environment touches it but by TransPool's operations.
THEOREM LookupUsesPool == Spec => PoolSpec
<1>1. Init => KnownCall /\ PoolInit
  BY InitKnown
<1>2. KnownCall /\ [Next]_vars => KnownCall' /\ [PoolNext]_pool
  BY StepKnown
<1> QED
  BY <1>1, <1>2, PTL DEF Spec, PoolSpec

\* Through any sequence of calls, for any catalogs, locales and failures, a translation
\* that was handed out stays whole, allocated and aligned.
THEOREM TranslationsStayIntact == Spec => []PoolIntact
BY LookupUsesPool, StringsStayIntact, PTL

-------------------------------------------------------------------------------
(* Bindings.  What makes a search that ends early right is that the list   *)
(* is in the order of the domains, each of them once (InOrder).  A place   *)
(* for a new domain is the first that the search does not pass: that there *)
(* is one needs the well-ordering of the numbers.                          *)

Bindings == [domainname : Domains, dirname : Dirnames \cup {LOCALEDIR},
             codeset : Codesets \cup {NULL}, codeset_cntr : Nat]
Rank(i) == DomainRank[_nl_domain_bindings[i].domainname]
InOrder == /\ _nl_domain_bindings \in Seq(Bindings)
           /\ \A i, j \in DOMAIN _nl_domain_bindings : i < j => Rank(i) < Rank(j)

LEMMA Least ==
  ASSUME NEW T, T \subseteq Nat, T # {}
  PROVE  \E x \in T : \A y \in T : x <= y
<1>1. \E x \in T : \A y \in T : ~(<<y, x>> \in OpToRel(<, Nat))
  BY NatLessThanWellFounded, WFMin
<1>2. PICK x \in T : \A y \in T : ~(<<y, x>> \in OpToRel(<, Nat))
  BY <1>1
<1>3. ASSUME NEW y \in T PROVE x <= y
  <2>1. x \in Nat /\ y \in Nat
    OBVIOUS
  <2>2. ~(<<y, x>> \in OpToRel(<, Nat))
    BY <1>2
  <2>3. ~(y < x)
    BY <2>1, <2>2 DEF OpToRel
  <2> QED
    BY <2>1, <2>3
<1> QED
  BY <1>3

LEMMA Ranks ==
  ASSUME InOrder, NEW i \in DOMAIN _nl_domain_bindings
  PROVE  /\ _nl_domain_bindings[i] \in Bindings
         /\ _nl_domain_bindings[i].domainname \in Domains
         /\ Rank(i) \in Nat
         /\ i \in 1..Len(_nl_domain_bindings)
<1>1. _nl_domain_bindings \in Seq(Bindings) /\ i \in 1..Len(_nl_domain_bindings)
  BY DEF InOrder
<1>2. _nl_domain_bindings[i] \in Bindings
  BY <1>1
<1>3. _nl_domain_bindings[i].domainname \in Domains
  BY <1>2 DEF Bindings
<1> QED
  BY <1>1, <1>2, <1>3, BindingAssumption DEF Rank

(* The search for a domain that is bound stops exactly at its binding. *)
LEMMA BoundIsFound ==
  ASSUME InOrder, NEW i \in DOMAIN _nl_domain_bindings
  PROVE  /\ BindingPlace(_nl_domain_bindings[i].domainname) = i
         /\ Binding(_nl_domain_bindings[i].domainname) = _nl_domain_bindings[i]
<1> DEFINE d == _nl_domain_bindings[i].domainname
           n == Len(_nl_domain_bindings)
           P(k) == /\ k <= n => DomainRank[d] <= Rank(k)
                   /\ \A j \in 1..(k - 1) : DomainRank[d] > Rank(j)
<1>1. /\ n \in Nat /\ DOMAIN _nl_domain_bindings = 1..n /\ i \in 1..n
      /\ \A k \in 1..n : Rank(k) \in Nat
      /\ \A k, l \in 1..n : k < l => Rank(k) < Rank(l)
      /\ DomainRank[d] = Rank(i)
  BY Ranks DEF InOrder, Rank
<1>2. BindingPlace(d) = CHOOSE k \in 1..(n + 1) : P(k)
  BY DEF BindingPlace, Rank
<1> HIDE DEF d, n
<1>3. i \in 1..(n + 1) /\ P(i)
  BY <1>1
<1>4. ASSUME NEW k \in 1..(n + 1), P(k) PROVE k = i
  <2>1. CASE k < i
    BY <2>1, <1>1, <1>4
  <2>2. CASE k > i
    BY <2>2, <1>1, <1>4
  <2> QED
    BY <2>1, <2>2, <1>1
<1> HIDE DEF P
<1>5. BindingPlace(d) = i
  BY <1>2, <1>3, <1>4
<1> QED
  BY <1>5, <1>1 DEF Binding, d, n

(* A new binding goes where the order is kept. *)
LEMMA Place ==
  ASSUME InOrder, NEW d \in Domains, Binding(d) = NULL
  PROVE  /\ InsertPlace(d) \in 1..(Len(_nl_domain_bindings) + 1)
         /\ \A j \in DOMAIN _nl_domain_bindings :
              /\ j < InsertPlace(d) => Rank(j) < DomainRank[d]
              /\ j >= InsertPlace(d) => DomainRank[d] < Rank(j)
<1> DEFINE n == Len(_nl_domain_bindings)
           r == DomainRank[d]
           p == InsertPlace(d)
<1>1. /\ n \in Nat /\ DOMAIN _nl_domain_bindings = 1..n /\ r \in Nat
      /\ \A k \in 1..n : Rank(k) \in Nat
      /\ \A k, l \in 1..n : k < l => Rank(k) < Rank(l)
  BY Ranks, BindingAssumption DEF InOrder
<1>2. \A k \in 1..n : Rank(k) # r
  <2> SUFFICES ASSUME NEW k \in 1..n, Rank(k) = r PROVE FALSE
    OBVIOUS
  <2>1. _nl_domain_bindings[k].domainname = d
    BY <1>1, Ranks, BindingAssumption DEF Rank
  <2>2. _nl_domain_bindings[k] = NULL
    BY <2>1, <1>1, BoundIsFound
  <2> QED
    BY <2>2, <1>1, Ranks, BindingAssumption DEF Bindings
<1>3. CASE n = 0 \/ r < Rank(1)
  <2>1. p = 1
    BY <1>3, <1>1 DEF InsertPlace, Rank, InOrder
  <2> HIDE DEF n, r, p
  <2>2. \A j \in 1..n : r < Rank(j)
    BY <1>1, <1>3
  <2> QED
    BY <2>1, <2>2, <1>1 DEF n, r, p
<1>4. CASE ~(n = 0 \/ r < Rank(1))
  <2> DEFINE Q(k) == /\ k <= n => r <= Rank(k)
                     /\ \A j \in 2..(k - 1) : r > Rank(j)
             T == {k \in 2..(n + 1) : k <= n => r <= Rank(k)}
  <2>1. p = CHOOSE k \in 2..(n + 1) : Q(k)
    BY <1>4, <1>1 DEF InsertPlace, Rank, InOrder
  <2>2. T \subseteq Nat /\ n + 1 \in T
    BY <1>1, <1>4
  <2>3. PICK k \in T : \A l \in T : k <= l
    BY <2>2, Least
  <2> HIDE DEF n, r, p
  <2>4. k \in 2..(n + 1) /\ Q(k)
    BY <2>3, <1>1
  <2> HIDE DEF Q
  <2>5. p \in 2..(n + 1) /\ Q(p)
    BY <2>1, <2>4
  <2>6. Rank(1) < r
    BY <1>1, <1>2, <1>4
  <2>7. \A j \in 1..n : j < p => Rank(j) < r
    BY <2>5, <2>6, <1>1 DEF Q
  <2>8. \A j \in 1..n : j >= p => r < Rank(j)
    BY <2>5, <1>1, <1>2 DEF Q
  <2> QED
    BY <2>5, <2>7, <2>8, <1>1 DEF n, r, p
<1> QED
  BY <1>3, <1>4

LEMMA Insertion ==
  ASSUME NEW S, NEW s, NEW i, NEW e, s \in Seq(S), i \in 1..(Len(s) + 1), e \in S
  PROVE  /\ InsertAt(s, i, e) \in Seq(S)
         /\ DOMAIN InsertAt(s, i, e) = 1..(Len(s) + 1)
         /\ InsertAt(s, i, e)[i] = e
         /\ \A j \in 1..(i - 1) : InsertAt(s, i, e)[j] = s[j]
         /\ \A j \in (i + 1)..(Len(s) + 1) : InsertAt(s, i, e)[j] = s[j - 1]
<1> DEFINE a == SubSeq(s, 1, i - 1)
           c == SubSeq(s, i, Len(s))
           m == a \o <<e>>
<1>1. Len(s) \in Nat /\ i \in Nat /\ i >= 1 /\ i <= Len(s) + 1
  OBVIOUS
<1>2. a \in Seq(S) /\ Len(a) = i - 1 /\ \A j \in 1..(i - 1) : a[j] = s[j]
  BY <1>1
<1>3. c \in Seq(S) /\ Len(c) = Len(s) + 1 - i /\ \A j \in 1..(Len(s) + 1 - i) : c[j] = s[i + j - 1]
  BY <1>1
<1>4. /\ m \in Seq(S) /\ Len(m) = i /\ m[i] = e
      /\ \A j \in 1..(i - 1) : m[j] = s[j]
  <2> HIDE DEF a
  <2> QED
    BY <1>1, <1>2
<1>5. InsertAt(s, i, e) = m \o c
  BY DEF InsertAt
<1> HIDE DEF a, c, m
<1>6. /\ InsertAt(s, i, e) \in Seq(S) /\ Len(InsertAt(s, i, e)) = Len(s) + 1
      /\ \A j \in 1..i : InsertAt(s, i, e)[j] = m[j]
      /\ \A j \in (i + 1)..(Len(s) + 1) : InsertAt(s, i, e)[j] = c[j - i]
  BY <1>1, <1>3, <1>4, <1>5
<1>7. \A j \in (i + 1)..(Len(s) + 1) : c[j - i] = s[j - 1]
  <2> SUFFICES ASSUME NEW j \in (i + 1)..(Len(s) + 1) PROVE c[j - i] = s[j - 1]
    OBVIOUS
  <2>1. j - i \in 1..(Len(s) + 1 - i) /\ i + (j - i) - 1 = j - 1
    BY <1>1
  <2> QED
    BY <1>3, <2>1
<1> QED
  BY <1>1, <1>4, <1>6, <1>7

(* Both ways to bind keep the order. *)
LEMMA RebindKeeps ==
  ASSUME InOrder, NEW d \in Domains, NEW dirname \in Dirnames \cup {NULL},
         NEW codeset \in Codesets \cup {NULL}, Rebind(d, dirname, codeset)
  PROVE  InOrder'
<1> DEFINE i == BindingPlace(d)
           b == Binding(d)
           new == [b EXCEPT !.dirname = IF dirname = NULL THEN @ ELSE dirname,
                            !.codeset = IF codeset = NULL THEN @ ELSE codeset,
                            !.codeset_cntr = IF codeset \in {NULL, b.codeset} THEN @ ELSE @ + 1]
<1>1. CASE UNCHANGED _nl_domain_bindings
  BY <1>1 DEF InOrder, Rank
<1>2. CASE _nl_domain_bindings' = [_nl_domain_bindings EXCEPT ![i] = new]
  <2>1. b # NULL
    BY DEF Rebind
  <2>2. /\ i \in 1..(Len(_nl_domain_bindings) + 1) => i \in DOMAIN _nl_domain_bindings
        /\ i \in DOMAIN _nl_domain_bindings => b = _nl_domain_bindings[i]
    BY <2>1 DEF Binding, InOrder
  <2>3. CASE i \in DOMAIN _nl_domain_bindings
    <3>1. b \in Bindings /\ b = _nl_domain_bindings[i]
      BY <2>2, <2>3, Ranks
    <3>2. new \in Bindings /\ new.domainname = b.domainname
      <4> DEFINE x == IF dirname = NULL THEN b.dirname ELSE dirname
                 y == IF codeset = NULL THEN b.codeset ELSE codeset
                 z == IF codeset \in {NULL, b.codeset} THEN b.codeset_cntr ELSE b.codeset_cntr + 1
      <4>1. x \in Dirnames \cup {LOCALEDIR} /\ y \in Codesets \cup {NULL} /\ z \in Nat
        BY <3>1 DEF Bindings
      <4>2. new = [b EXCEPT !.dirname = x, !.codeset = y, !.codeset_cntr = z]
        OBVIOUS
      <4> HIDE DEF x, y, z, new, b
      <4> QED
        BY <3>1, <4>1, <4>2 DEF Bindings
    <3> HIDE DEF new, i, b
    <3>3. _nl_domain_bindings' \in Seq(Bindings) /\ DOMAIN _nl_domain_bindings' = DOMAIN _nl_domain_bindings
      BY <1>2, <2>3, <3>2 DEF InOrder
    <3>4. \A j \in DOMAIN _nl_domain_bindings :
            _nl_domain_bindings'[j].domainname = _nl_domain_bindings[j].domainname
      BY <1>2, <2>3, <3>1, <3>2 DEF InOrder
    <3> QED
      BY <3>3, <3>4 DEF InOrder, Rank
  <2>4. CASE i \notin DOMAIN _nl_domain_bindings
    <3>1. _nl_domain_bindings' = _nl_domain_bindings
      BY <1>2, <2>4 DEF InOrder
    <3> QED
      BY <3>1, <1>1
  <2> QED
    BY <2>3, <2>4
<1> QED
  BY <1>1, <1>2 DEF Rebind

LEMMA BindKeeps ==
  ASSUME InOrder, NEW d \in Domains, NEW dirname \in Dirnames \cup {NULL},
         NEW codeset \in Codesets \cup {NULL}, Bind(d, dirname, codeset)
  PROVE  InOrder'
<1> DEFINE p == InsertPlace(d)
           n == Len(_nl_domain_bindings)
           new == [domainname |-> d, dirname |-> IF dirname = NULL THEN LOCALEDIR ELSE dirname,
                   codeset |-> codeset, codeset_cntr |-> IF codeset = NULL THEN 0 ELSE 1]
<1>1. CASE UNCHANGED _nl_domain_bindings
  BY <1>1 DEF InOrder, Rank
<1>2. CASE _nl_domain_bindings' = InsertAt(_nl_domain_bindings, p, new)
  <2>1. Binding(d) = NULL
    BY DEF Bind
  <2>2. /\ p \in 1..(n + 1)
        /\ \A j \in DOMAIN _nl_domain_bindings :
             /\ j < p => Rank(j) < DomainRank[d]
             /\ j >= p => DomainRank[d] < Rank(j)
    BY <2>1, Place
  <2>3. new \in Bindings /\ new.domainname = d
    BY DEF Bindings
  <2>4. /\ _nl_domain_bindings \in Seq(Bindings) /\ n \in Nat
        /\ DOMAIN _nl_domain_bindings = 1..n
        /\ \A i, j \in 1..n : i < j => Rank(i) < Rank(j)
        /\ \A i \in 1..n : Rank(i) \in Nat
        /\ DomainRank[d] \in Nat
    BY Ranks, BindingAssumption DEF InOrder
  <2> HIDE DEF p, n, new
  <2>5. /\ _nl_domain_bindings' \in Seq(Bindings)
        /\ DOMAIN _nl_domain_bindings' = 1..(n + 1)
        /\ _nl_domain_bindings'[p] = new
        /\ \A j \in 1..(p - 1) : _nl_domain_bindings'[j] = _nl_domain_bindings[j]
        /\ \A j \in (p + 1)..(n + 1) : _nl_domain_bindings'[j] = _nl_domain_bindings[j - 1]
    <3>1. p \in 1..(Len(_nl_domain_bindings) + 1)
      BY <2>2 DEF n
    <3>2. _nl_domain_bindings \in Seq(Bindings) /\ new \in Bindings
      BY <2>3, <2>4
    <3> DEFINE t == InsertAt(_nl_domain_bindings, p, new)
               l == Len(_nl_domain_bindings)
    <3>3. t \in Seq(Bindings)
      BY <3>1, <3>2, Insertion
    <3>4. DOMAIN t = 1..(l + 1)
      BY <3>1, <3>2, Insertion
    <3>5. t[p] = new
      BY <3>1, <3>2, Insertion
    <3>6. \A j \in 1..(p - 1) : t[j] = _nl_domain_bindings[j]
      BY <3>1, <3>2, Insertion
    <3>7. \A j \in (p + 1)..(l + 1) : t[j] = _nl_domain_bindings[j - 1]
      BY <3>1, <3>2, Insertion
    <3>8. t = _nl_domain_bindings' /\ l = n
      BY <1>2 DEF n
    <3> HIDE DEF t, l
    <3> QED
      BY <3>3, <3>4, <3>5, <3>6, <3>7, <3>8
  <2> DEFINE R(j) == DomainRank[_nl_domain_bindings'[j].domainname]
  <2>6. /\ p \in Nat
        /\ R(p) = DomainRank[d]
        /\ \A j \in 1..(p - 1) : R(j) = Rank(j)
        /\ \A j \in (p + 1)..(n + 1) : R(j) = Rank(j - 1)
    BY <2>2, <2>3, <2>4, <2>5 DEF Rank
  <2> HIDE DEF R
  <2>7. ASSUME NEW i \in 1..(n + 1), NEW j \in 1..(n + 1), i < j
        PROVE  R(i) < R(j)
    <3>1. CASE j < p
      <4>1. R(j) = Rank(j) /\ j \in 1..n /\ R(i) = Rank(i) /\ i \in 1..n
        BY <3>1, <2>2, <2>4, <2>6, <2>7
      <4> QED
        BY <4>1, <2>4, <2>7
    <3>2. CASE j = p
      <4>1. R(j) = DomainRank[d] /\ R(i) = Rank(i) /\ i \in 1..n /\ i < p
        BY <3>2, <2>2, <2>4, <2>6, <2>7
      <4> QED
        BY <4>1, <2>2, <2>4
    <3>3. CASE j > p /\ i < p
      <4>1. R(j) = Rank(j - 1) /\ j - 1 \in 1..n /\ R(i) = Rank(i) /\ i \in 1..n /\ i < j - 1
        BY <3>3, <2>4, <2>6, <2>7
      <4> QED
        BY <4>1, <2>4
    <3>4. CASE j > p /\ i = p
      <4>1. R(j) = Rank(j - 1) /\ j - 1 \in 1..n /\ R(i) = DomainRank[d] /\ j - 1 >= p
        BY <3>4, <2>4, <2>6, <2>7
      <4> QED
        BY <4>1, <2>2, <2>4
    <3>5. CASE j > p /\ i > p
      <4>0. /\ j \in (p + 1)..(n + 1) /\ i \in (p + 1)..(n + 1)
            /\ i - 1 \in 1..n /\ j - 1 \in 1..n /\ i - 1 < j - 1
        <5>1. p \in Nat /\ n \in Nat /\ p >= 1
          BY <2>2, <2>4
        <5> QED
          BY <5>1, <3>5, <2>7
      <4>1. R(j) = Rank(j - 1) /\ j - 1 \in 1..n
        BY <4>0, <2>6
      <4>2. R(i) = Rank(i - 1) /\ i - 1 \in 1..n /\ i - 1 < j - 1
        BY <4>0, <2>6
      <4> QED
        BY <4>1, <4>2, <2>4
    <3> QED
      BY <3>1, <3>2, <3>3, <3>4, <3>5, <2>4, <2>6
  <2> QED
    BY <2>5, <2>7 DEF InOrder, Rank, R
<1> QED
  BY <1>1, <1>2 DEF Bind

LEMMA StepInOrder ==
  ASSUME InOrder, [Next]_vars
  PROVE  InOrder'
<1>1. ASSUME NEW d \in Domains, NEW dirname \in Dirnames, BINDTEXTDOMAIN(d, dirname)
      PROVE  InOrder'
  BY <1>1, RebindKeeps, BindKeeps DEF BINDTEXTDOMAIN
<1>2. ASSUME NEW d \in Domains, NEW codeset \in Codesets, BIND_TEXTDOMAIN_CODESET(d, codeset)
      PROVE  InOrder'
  BY <1>2, RebindKeeps, BindKeeps DEF BIND_TEXTDOMAIN_CODESET
<1>3. CASE UNCHANGED _nl_domain_bindings
  BY <1>3 DEF InOrder, Rank
<1>4. ASSUME NEW d \in Domains, TEXTDOMAIN(d) PROVE UNCHANGED _nl_domain_bindings
  BY <1>4 DEF TEXTDOMAIN
<1>5. ASSUME NEW arguments \in Calls, DCIGETTEXT(arguments) PROVE UNCHANGED _nl_domain_bindings
  BY <1>5 DEF DCIGETTEXT, bindings
<1>6. CASE ChangeEnvironment
  BY <1>6, <1>3 DEF ChangeEnvironment, bindings
<1>7. CASE Step
  BY <1>7, <1>3 DEF Step, NextLocale, FindDomain, Load, EndLoop, FindMsg, Convert, Remember, Return,
                    bindings
<1>8. CASE UNCHANGED vars
  BY <1>8, <1>3 DEF vars, bindings
<1> QED
  BY <1>1, <1>2, <1>3, <1>4, <1>5, <1>6, <1>7, <1>8 DEF Next

\* No binding is ever hidden from the search that ends at the first later domain, and no
\* domain is bound twice: for any domains and any order of calls (bindtextdom.c).
THEOREM NoBindingHidden == Spec => []NothingHidden
<1>1. Init => InOrder
  BY DEF Init, InOrder
<1>2. InOrder /\ [Next]_vars => InOrder'
  BY StepInOrder
<1>3. InOrder => NothingHidden
  BY BoundIsFound DEF NothingHidden
<1> QED
  BY <1>1, <1>2, <1>3, PTL DEF Spec

-------------------------------------------------------------------------------
(* The search for a message in a catalog (_nl_find_msg).                   *)

LEMMA Induction ==
  ASSUME NEW T, 0 \in T, \A k \in Nat : k \in T => k + 1 \in T, NEW n \in Nat
  PROVE  n \in T
<1> DEFINE U == {k \in Nat : k \notin T}
<1>1. SUFFICES ASSUME n \notin T PROVE FALSE
  OBVIOUS
<1>2. PICK x \in U : \A y \in U : x <= y
  BY <1>1, Least
<1>3. x # 0 /\ x - 1 \in Nat /\ x \in Nat /\ x \notin T
  BY <1>2
<1>4. x - 1 \in T
  BY <1>2, <1>3
<1> QED
  BY <1>3, <1>4

(* One step of the binary search, whose further steps G gives. *)
Halved(f, msgid, G, r) ==
    LET act == (r[1] + r[2]) \div 2
    IN  IF r[1] >= r[2] THEN NotFound
        ELSE IF MsgRank[msgid] < MsgRank[f.orig[act + 1]] THEN G[<<r[1], act>>]
        ELSE IF MsgRank[msgid] > MsgRank[f.orig[act + 1]] THEN G[<<act + 1, r[2]>>]
        ELSE act
Ranges(n) == (0..n) \X (0..n)
Searches(f, msgid, G) == G = [r \in Ranges(Len(f.orig)) |-> Halved(f, msgid, G, r)]

LEMMA Half ==
  ASSUME NEW b \in Nat, NEW t \in Nat, b < t
  PROVE  (b + t) \div 2 \in Nat /\ b <= (b + t) \div 2 /\ (b + t) \div 2 < t
OBVIOUS

\* What is left of a range after a step.
LEMMA Halves ==
  ASSUME NEW n \in Nat, NEW r \in Ranges(n), r[1] < r[2]
  PROVE  LET act == (r[1] + r[2]) \div 2
         IN  /\ act \in Nat /\ r[1] <= act /\ act < r[2] /\ r[2] <= n
             /\ <<r[1], act>> \in Ranges(n) /\ <<act + 1, r[2]>> \in Ranges(n)
<1>1. r[1] \in 0..n /\ r[2] \in 0..n
  BY DEF Ranges
<1> DEFINE act == (r[1] + r[2]) \div 2
<1>2. act \in Nat /\ r[1] <= act /\ act < r[2]
  BY <1>1, Half
<1> HIDE DEF act
<1>3. act \in 0..n /\ act + 1 \in 0..n
  BY <1>1, <1>2
<1> QED
  BY <1>1, <1>2, <1>3 DEF Ranges, act

LEMMA SearchExists ==
  ASSUME NEW f, NEW msgid, Len(f.orig) \in Nat
  PROVE  \E G : Searches(f, msgid, G)
<1> DEFINE n == Len(f.orig)
           H(G, r) == Halved(f, msgid, G, r)
           T == {w \in Nat : \E G : /\ G = [r \in Ranges(n) |-> G[r]]
                                    /\ \A r \in Ranges(n) : r[2] - r[1] <= w => G[r] = H(G, r)}
<1>1. 0 \in T
  <2> DEFINE G == [r \in Ranges(n) |-> NotFound]
  <2>1. \A r \in Ranges(n) : r[2] - r[1] <= 0 => G[r] = H(G, r)
    BY DEF Halved, Ranges
  <2>2. G = [r \in Ranges(n) |-> G[r]]
    OBVIOUS
  <2> HIDE DEF G, H
  <2> QED
    BY <2>1, <2>2
<1>2. ASSUME NEW w \in Nat, w \in T PROVE w + 1 \in T
  <2>1. PICK G : \A r \in Ranges(n) : r[2] - r[1] <= w => G[r] = H(G, r)
    BY <1>2
  <2> DEFINE K == [r \in Ranges(n) |-> IF r[2] - r[1] <= w THEN G[r] ELSE H(G, r)]
  <2>2. ASSUME NEW r \in Ranges(n), r[2] - r[1] <= w + 1
        PROVE  H(G, r) = H(K, r)
    <3>0. r[1] \in Nat /\ r[2] \in Nat
      BY DEF Ranges
    <3>1. CASE r[1] >= r[2]
      BY <3>1 DEF Halved
    <3>2. CASE r[1] < r[2]
      <4> DEFINE a == (r[1] + r[2]) \div 2
                 r1 == <<r[1], a>>
                 r2 == <<a + 1, r[2]>>
      <4>1. /\ a \in Nat /\ r[1] <= a /\ a < r[2] /\ r1 \in Ranges(n) /\ r2 \in Ranges(n)
            /\ r1[1] = r[1] /\ r1[2] = a /\ r2[1] = a + 1 /\ r2[2] = r[2]
        BY <3>2, Halves
      <4>2. Halved(f, msgid, G, r) = IF MsgRank[msgid] < MsgRank[f.orig[a + 1]] THEN G[r1]
                                     ELSE IF MsgRank[msgid] > MsgRank[f.orig[a + 1]] THEN G[r2] ELSE a
        BY <3>0, <3>2 DEF Halved
      <4>3. Halved(f, msgid, K, r) = IF MsgRank[msgid] < MsgRank[f.orig[a + 1]] THEN K[r1]
                                     ELSE IF MsgRank[msgid] > MsgRank[f.orig[a + 1]] THEN K[r2] ELSE a
        <5> HIDE DEF K
        <5> QED  BY <3>0, <3>2 DEF Halved
      <4> HIDE DEF a, r1, r2, H
      <4>4. r1[2] - r1[1] <= w /\ r2[2] - r2[1] <= w
        BY <4>1, <2>2, <3>0
      <4>5. K[r1] = G[r1] /\ K[r2] = G[r2]
        BY <4>1, <4>4
      <4> HIDE DEF K
      <4> QED
        BY <4>2, <4>3, <4>5 DEF H
    <3> QED
      BY <3>0, <3>1, <3>2
  <2> HIDE DEF H
  <2>3. \A r \in Ranges(n) : K[r] = IF r[2] - r[1] <= w THEN G[r] ELSE H(G, r)
    OBVIOUS
  <2>4. K = [r \in Ranges(n) |-> K[r]]
    OBVIOUS
  <2> HIDE DEF K
  <2>5. \A r \in Ranges(n) : r[2] - r[1] <= w + 1 => K[r] = H(K, r)
    BY <2>1, <2>2, <2>3
  <2> QED
    BY <2>4, <2>5
<1>3. n \in T
  <2> HIDE DEF T
  <2> QED
    BY <1>1, <1>2, Induction
<1>4. PICK G : /\ G = [r \in Ranges(n) |-> G[r]]
               /\ \A r \in Ranges(n) : r[2] - r[1] <= n => G[r] = H(G, r)
  BY <1>3
<1>5. G = [r \in Ranges(n) |-> H(G, r)]
  <2> HIDE DEF H
  <2>1. \A r \in Ranges(n) : r[2] - r[1] <= n
    BY DEF Ranges
  <2>2. \A r \in Ranges(n) : G[r] = H(G, r)
    BY <1>4, <2>1
  <2> QED
    BY <1>4, <2>2
<1> QED
  BY <1>5 DEF Searches

LEMMA BinarySearchIs ==
  ASSUME NEW f, NEW msgid, Len(f.orig) \in Nat
  PROVE  \E G : Searches(f, msgid, G) /\ BinarySearch(f, msgid) = G[<<0, Len(f.orig)>>]
<1> DEFINE S == CHOOSE G : Searches(f, msgid, G)
<1>1. Searches(f, msgid, S)
  BY SearchExists
<1>2. BinarySearch(f, msgid) = S[<<0, Len(f.orig)>>]
  BY DEF BinarySearch, Searches, Halved, Ranges
<1> QED
  BY <1>1, <1>2

(* The binary search finds the message it is asked for, or none. *)
LEMMA BinarySearchFinds ==
  ASSUME NEW f, NEW msgid \in DOMAIN Hash, f.orig \in Seq(DOMAIN Hash)
  PROVE  LET act == BinarySearch(f, msgid)
         IN  act = NotFound \/ (act \in 0..(Len(f.orig) - 1) /\ f.orig[act + 1] = msgid)
<1> DEFINE n == Len(f.orig)
<1>1. n \in Nat /\ \A i \in 1..n : f.orig[i] \in DOMAIN Hash
  OBVIOUS
<1>2. PICK G : Searches(f, msgid, G) /\ BinarySearch(f, msgid) = G[<<0, n>>]
  BY <1>1, BinarySearchIs
<1> DEFINE Right(a) == a = NotFound \/ (a \in 0..(n - 1) /\ f.orig[a + 1] = msgid)
           T == {w \in Nat : \A r \in Ranges(n) : r[2] - r[1] <= w => Right(G[r])}
<1> HIDE DEF n
<1>3. \A r \in Ranges(n) : G[r] = Halved(f, msgid, G, r)
  BY <1>2 DEF Searches, n
<1>4. 0 \in T
  <2> SUFFICES ASSUME NEW r \in Ranges(n), r[2] - r[1] <= 0 PROVE Right(G[r])
    OBVIOUS
  <2>1. r[1] >= r[2]
    BY DEF Ranges
  <2> QED
    BY <1>3, <2>1 DEF Halved
<1>5. ASSUME NEW w \in Nat, w \in T PROVE w + 1 \in T
  <2> SUFFICES ASSUME NEW r \in Ranges(n), r[2] - r[1] <= w + 1 PROVE Right(G[r])
    OBVIOUS
  <2>0. r[1] \in Nat /\ r[2] \in Nat
    BY DEF Ranges
  <2>1. CASE r[1] >= r[2]
    BY <1>3, <2>1 DEF Halved
  <2>2. CASE r[1] < r[2]
    <3> DEFINE a == (r[1] + r[2]) \div 2
               r1 == <<r[1], a>>
               r2 == <<a + 1, r[2]>>
    <3>1. /\ a \in Nat /\ r[1] <= a /\ a < r[2] /\ r[2] <= n
          /\ r1 \in Ranges(n) /\ r2 \in Ranges(n)
          /\ r1[1] = r[1] /\ r1[2] = a /\ r2[1] = a + 1 /\ r2[2] = r[2]
      BY <1>1, <2>2, Halves DEF n
    <3>2. G[r] = IF MsgRank[msgid] < MsgRank[f.orig[a + 1]] THEN G[r1]
                 ELSE IF MsgRank[msgid] > MsgRank[f.orig[a + 1]] THEN G[r2] ELSE a
      BY <1>3, <2>0, <2>2 DEF Halved
    <3> HIDE DEF a, r1, r2, Right
    <3>3. r1[2] - r1[1] <= w /\ r2[2] - r2[1] <= w
      BY <3>1, <2>0
    <3>4. Right(G[r1]) /\ Right(G[r2])
      BY <1>5, <3>1, <3>3
    <3>5. a + 1 \in 1..n /\ a \in 0..(n - 1)
      BY <1>1, <3>1, <2>0 DEF n
    <3> DEFINE x == f.orig[a + 1]
    <3>6. x \in DOMAIN Hash
      BY <1>1, <3>5 DEF n
    <3> HIDE DEF x
    <3>7. CASE MsgRank[msgid] < MsgRank[x]
      BY <3>2, <3>4, <3>7 DEF x
    <3>8. CASE MsgRank[msgid] > MsgRank[x]
      BY <3>2, <3>4, <3>8, <3>6, MessagesAssumption DEF x
    <3>9. CASE MsgRank[msgid] = MsgRank[x]
      <4>1. x = msgid
        BY <3>6, <3>9, MessagesAssumption
      <4>2. G[r] = a
        BY <3>2, <4>1, MessagesAssumption DEF x
      <4> QED
        BY <4>1, <4>2, <3>5 DEF Right, x
    <3> QED
      BY <3>6, <3>7, <3>8, <3>9, MessagesAssumption
  <2> QED
    BY <2>0, <2>1, <2>2
<1>6. n \in T
  <2> HIDE DEF T
  <2> QED
    BY <1>1, <1>4, <1>5, Induction DEF n
<1>7. <<0, n>> \in Ranges(n) /\ <<0, n>>[2] - <<0, n>>[1] <= n
  BY <1>1 DEF Ranges, n
<1>8. Right(G[<<0, n>>])
  BY <1>6, <1>7
<1> QED
  BY <1>2, <1>8 DEF n

LEMMA ProbeInside ==
  ASSUME NEW h \in Nat, NEW size \in Nat, size > 2, NEW k \in Nat
  PROVE  Probe(h, size, k) \in 0..(size - 1)
<1> DEFINE i == 1 + (h % (size - 2))
           x == h + k * i
<1>1. i \in Nat
  BY DEF Probe
<1> HIDE DEF i
<1>2. x \in Nat
  BY <1>1
<1>3. Probe(h, size, k) = x % size
  BY DEF Probe, i
<1> HIDE DEF x
<1> QED
  BY <1>2, <1>3

(* The hash search ends, where the table says the message is. *)
LEMMA HashSearchFinds ==
  ASSUME NEW f, NEW msgid \in DOMAIN Hash, WellFormed(f), HasHash(f)
  PROVE  LET act == HashSearch(f, msgid)
         IN  act = NotFound \/ (act + 1 \in DOMAIN Messages(f) /\ Messages(f)[act + 1] = msgid)
<1> DEFINE table == AugmentedHash(f)
           size == Len(f.hash_tab)
           M == Messages(f)
           At(k) == table[Probe(Hash[msgid], Len(table), k) + 1]
           Ends(k) == At(k) = 0 \/ M[At(k)] = msgid
<1>1. /\ table \in [1..size -> {0} \cup DOMAIN M]
      /\ size \in Nat /\ size > 2 /\ DOMAIN M \subseteq Nat
      /\ \E k \in 0..(Len(table) - 1) : Ends(k)
  <2>1. table \in [1..size -> {0} \cup DOMAIN M]
    BY DEF WellFormed
  <2>2. \E k \in 0..(Len(table) - 1) : Ends(k)
    BY DEF WellFormed
  <2>3. size \in Nat /\ size > 2 /\ DOMAIN M \subseteq Nat
    BY DEF WellFormed, HasHash
  <2> QED
    BY <2>1, <2>2, <2>3
<1>2. HashSearch(f, msgid) =
        At(CHOOSE k \in 0..(Len(table) - 1) : Ends(k) /\ \A j \in 0..(k - 1) : ~Ends(j)) - 1
  BY DEF HashSearch
<1>3. Hash[msgid] \in Nat
  BY MessagesAssumption
<1> HIDE DEF table, size, M
<1>4. Len(table) = size
  BY <1>1
<1>5. size - 1 \in Nat
  BY <1>1
<1>6. \E k \in 0..(size - 1) : Ends(k) /\ \A j \in 0..(k - 1) : ~Ends(j)
  <2> DEFINE T == {k \in 0..(size - 1) : Ends(k)}
  <2> HIDE DEF Ends
  <2>1. T \subseteq Nat /\ T # {}
    BY <1>1, <1>4
  <2>2. PICK x \in T : \A y \in T : x <= y
    BY <2>1, Least
  <2>3. \A j \in 0..(x - 1) : j \in 0..(size - 1) /\ ~(x <= j)
    BY <1>1
  <2> QED
    BY <2>2, <2>3
<1> DEFINE k == CHOOSE k \in 0..(size - 1) : Ends(k) /\ \A j \in 0..(k - 1) : ~Ends(j)
<1>7. k \in 0..(size - 1) /\ Ends(k)
  <2> HIDE DEF Ends
  <2> QED  BY <1>6
<1>8. HashSearch(f, msgid) = At(k) - 1
  BY <1>2, <1>4
<1> HIDE DEF k
<1>9. Probe(Hash[msgid], Len(table), k) + 1 \in 1..size
  <2>1. k \in Nat
    BY <1>1, <1>7
  <2>2. Probe(Hash[msgid], size, k) \in 0..(size - 1)
    BY <1>1, <1>3, <2>1, ProbeInside
  <2> QED
    BY <1>1, <1>4, <2>2
<1>10. At(k) \in {0} \cup DOMAIN M
  BY <1>1, <1>9
<1> DEFINE a == At(k)
<1>11. a = 0 \/ (a \in DOMAIN M /\ M[a] = msgid)
  BY <1>7, <1>10
<1> HIDE DEF a, Ends
<1>12. CASE a = 0
  BY <1>8, <1>12 DEF NotFound, a
<1>13. CASE a # 0
  BY <1>1, <1>8, <1>11, <1>13 DEF M, a
<1> QED
  BY <1>12, <1>13

(* A file without a hash table holds no more messages than were written to it. *)
LEMMA OnlyWritten ==
  ASSUME NEW f, IsCatalog(f), ~HasHash(f), f.orig \in Seq(DOMAIN Hash)
  PROVE  Messages(f) = f.orig
<1>1. InMemory(f) = <<>>
  BY DEF IsCatalog, InMemory
<1>2. DOMAIN InMemory(f) = {}
  BY <1>1
<1> DEFINE added == [i \in DOMAIN InMemory(f) |-> Expanded(f, InMemory(f)[i].orig)]
<1>3. added = <<>>
  BY <1>2
<1>4. Messages(f) = f.orig \o added
  BY DEF Messages
<1> HIDE DEF added
<1> QED
  BY <1>3, <1>4

(* What is found in a catalog is the message, and it has strings for a translation. *)
LEMMA IndexIsRight ==
  ASSUME NEW file \in DOMAIN Disk, Catalog[file] # Unknown, NEW msgid \in DOMAIN Hash,
         NEW act, act = Catalog[file].index[msgid], act # NotFound
  PROVE  /\ Catalog[file].messages[act + 1] = msgid
         /\ Catalog[file].variants[act + 1] \in Nat \ {0}
         /\ act \in Indices
<1> DEFINE f == Disk[file]
<1>1. IsCatalog(f) /\ WellFormed(f) /\ Catalog[file] = Loaded(f)
  BY TablesAssumption, FilesAssumption DEF Loaded
<1> HIDE DEF f
<1>2. /\ Catalog[file].messages = Messages(f) /\ Catalog[file].variants = Variants(f)
      /\ act = IndexOf(f, msgid)
  BY <1>1 DEF Loaded
<1>3. f.orig \in Seq(DOMAIN Hash) /\ Variants(f) \in [DOMAIN Messages(f) -> Nat \ {0}]
  BY <1>1 DEF WellFormed
<1>4. act + 1 \in DOMAIN Messages(f) /\ Messages(f)[act + 1] = msgid
  <2>1. CASE HasHash(f)
    BY <1>1, <1>2, <2>1, HashSearchFinds DEF IndexOf
  <2>2. CASE ~HasHash(f)
    <3>1. act = BinarySearch(f, msgid)
      BY <1>2, <2>2 DEF IndexOf
    <3>2. act \in 0..(Len(f.orig) - 1) /\ f.orig[act + 1] = msgid
      BY <1>3, <3>1, BinarySearchFinds
    <3>3. act + 1 \in DOMAIN f.orig
      BY <1>3, <3>2
    <3> QED
      BY <1>1, <1>3, <2>2, <3>2, <3>3, OnlyWritten
  <2> QED
    BY <2>1, <2>2
<1>5. act \in Indices
  BY DEF Indices
<1> QED
  BY <1>2, <1>3, <1>4, <1>5

-------------------------------------------------------------------------------
(* The list of the files, and where a call is in it.  TypeOK needs all of  *)
(* this: what an entry is made of, that the list is closed under the names *)
(* that an entry falls back on (IsList), that a file is loaded only if it  *)
(* has been decided on, and what the steps of a call leave to each other   *)
(* (Calling, Position).                                                    *)

Dirs == {NULL, LOCALEDIR} \cup Dirnames
        \cup {Token("/", "cwd/" \o b.text) : b \in Dirnames \cup {LOCALEDIR}}
Names == UNION {DOMAIN Families[name].entry : name \in DOMAIN Families}
Files == [dir : Dirs, name : Names, file : {MoFile(d) : d \in Domains}]
Entries == [decided : BOOLEAN, data : {NULL} \cup Data, successor : Seq(Names)]

\* An entry is loaded only from a catalog that is there, and only once.
ReadOnce(f, e) == e.data # NULL => /\ e.decided /\ f \in DOMAIN Disk /\ Catalog[f] # Unknown
                                   /\ e.data.conv = NULL => e.data.conv_tab = NULL
IsList(L) == /\ DOMAIN L \subseteq Files
             /\ L \in [DOMAIN L -> Entries]
             /\ \A f \in DOMAIN L : \A i \in DOMAIN L[f].successor :
                  [f EXCEPT !.name = L[f].successor[i]] \in DOMAIN L
             /\ \A f \in DOMAIN L : ReadOnce(f, L[f])
IsLoaded(f) == f \in DOMAIN _nl_loaded_domains /\ _nl_loaded_domains[f].data # NULL

Surroundings == /\ env \in Environments
                /\ _nl_current_default_domain \in Domains
                /\ _nl_msg_cat_cntr \in Nat /\ ops \in Nat /\ _nl_msg_cat_cntr <= ops /\ ops <= MaxOps
                /\ failures \in Nat
                /\ map \subseteq AliasLines /\ locale_alias_path \in Seq(ToSet(AliasPath))

InList == {"load", "search", "translate", "convert"}
Calling == /\ pc \in {"idle", "locale", "find", "found", "answered"} \cup InList
           /\ pc # "idle" => /\ call \in [domainname : Domains, msgid : DOMAIN Hash, n : {NULL} \cup Nat]
                             /\ \E c \in Calls : c.n = call.n
           /\ categoryvalue \in Seq(DOMAIN Families)
           /\ pc = "find" => single_locale \in DOMAIN Families

Position == /\ pc \in InList => /\ domain \in DOMAIN _nl_loaded_domains
                                /\ domain.file = MoFile(call.domainname)
                                /\ cnt \in 0..LastFile
            /\ pc \in {"translate", "convert"} => This.data # NULL /\ Act # NotFound
            /\ pc = "convert" => This.data.conv # NULL /\ This.data.conv_tab \in Tables

Known == /\ \A k \in DOMAIN root : /\ IsLoaded(root[k].domain)
                                   /\ root[k].counter \in Nat /\ root[k].counter <= _nl_msg_cat_cntr
         /\ pc = "found" => IsLoaded(retval.file)

ListInv == /\ InOrder /\ PoolInv /\ Surroundings /\ Calling
           /\ IsList(_nl_loaded_domains) /\ Position /\ Known

LEMMA EntryIs ==
  ASSUME NEW e, e \in Entries
  PROVE  /\ e.decided \in BOOLEAN /\ e.data \in {NULL} \cup Data /\ e.successor \in Seq(Names)
         /\ Len(e.successor) \in Nat /\ DOMAIN e.successor = 1..Len(e.successor)
<1>1. e.successor \in Seq(Names)
  BY DEF Entries
<1> QED
  BY <1>1 DEF Entries

(* A list keeps its shape when only what is known of the files changes. *)
LEMMA Reshaped ==
  ASSUME NEW L, IsList(L), NEW K, K \in [DOMAIN L -> Entries],
         \A f \in DOMAIN L : K[f].successor = L[f].successor /\ ReadOnce(f, K[f])
  PROVE  IsList(K)
<1>1. DOMAIN K = DOMAIN L
  OBVIOUS
<1>2. DOMAIN K \subseteq Files /\ K \in [DOMAIN K -> Entries]
  BY <1>1 DEF IsList
<1>3. ASSUME NEW f \in DOMAIN K, NEW i \in DOMAIN K[f].successor
      PROVE  [f EXCEPT !.name = K[f].successor[i]] \in DOMAIN K
  BY <1>1, <1>3 DEF IsList
<1>4. \A f \in DOMAIN K : ReadOnce(f, K[f])
  BY <1>1
<1> QED
  BY <1>2, <1>3, <1>4 DEF IsList

LEMMA EntriesOfFamily ==
  ASSUME NEW name \in DOMAIN Families, NEW dirname \in Dirs, NEW d \in Domains,
         NEW n \in DOMAIN Families[name].entry
  PROVE  LET family == Families[name]
             f == Filename(dirname, n, MoFile(d))
         IN  /\ f \in Files /\ f.name = n /\ f.file = MoFile(d)
             /\ f.dir = IF IS_ABSOLUTE_PATH(family.top) THEN NULL ELSE dirname
             /\ family.entry[n] \in Entries /\ family.entry[n].data = NULL
             /\ family.entry[n].successor \in Seq(DOMAIN family.entry)
<1> DEFINE entry == Families[name].entry
           top == Families[name].top
           f == Filename(dirname, n, MoFile(d))
<1>1. entry[n] \in [decided : BOOLEAN, data : {NULL}, successor : Seq(DOMAIN entry)]
  BY FamiliesAssumption
<1>2. IS_ABSOLUTE_PATH(n) = IS_ABSOLUTE_PATH(top)
  BY FamiliesAssumption
<1>3. DOMAIN entry \subseteq Names
  BY DEF Names
<1> HIDE DEF entry
<1>4. entry[n] \in Entries
  <2> DEFINE e == entry[n]
             s == e.successor
  <2>1. e = [decided |-> e.decided, data |-> e.data, successor |-> s]
        /\ e.decided \in BOOLEAN /\ e.data = NULL /\ s \in Seq(DOMAIN entry)
    BY <1>1
  <2> HIDE DEF s
  <2>2. s \in Seq(Names)
    BY <1>3, <2>1
  <2> QED
    BY <2>1, <2>2 DEF Entries
<1>5. f = [dir |-> IF IS_ABSOLUTE_PATH(n) THEN NULL ELSE dirname, name |-> n, file |-> MoFile(d)]
  BY DEF Filename
<1>6. n \in Names
  BY <1>3 DEF entry
<1>7. f \in Files
  BY <1>5, <1>6 DEF Files, Dirs
<1> QED
  BY <1>1, <1>2, <1>4, <1>5, <1>7 DEF entry

(* The list with a family of names is a list, and what was in it stays. *)
LEMMA FamilyAdded ==
  ASSUME NEW L, IsList(L), NEW name \in DOMAIN Families, NEW dirname \in Dirs, NEW d \in Domains
  PROVE  LET K == _nl_make_l10nflist(L, dirname, Families[name], MoFile(d))
         IN  /\ IsList(K)
             /\ Filename(dirname, Families[name].top, MoFile(d)) \in DOMAIN K
             /\ \A f \in DOMAIN L : f \in DOMAIN K /\ K[f] = L[f]
             /\ \A f \in DOMAIN K : f \in DOMAIN L \/ K[f].data = NULL
<1> DEFINE family == Families[name]
           entry == family.entry
           File(n) == Filename(dirname, n, MoFile(d))
           new == [f \in {File(n) : n \in DOMAIN entry} |-> entry[f.name]]
           K == _nl_make_l10nflist(L, dirname, family, MoFile(d))
<1>1. CASE File(family.top) \in DOMAIN L
  BY <1>1 DEF _nl_make_l10nflist
<1>2. CASE File(family.top) \notin DOMAIN L
  <2>1. K = Over(L, new)
    BY <1>2 DEF _nl_make_l10nflist
  <2>2. family.top \in DOMAIN entry
    BY FamiliesAssumption
  <2>3. \A n \in DOMAIN entry :
          /\ File(n) \in Files /\ File(n).name = n /\ File(n).file = MoFile(d)
          /\ File(n).dir = IF IS_ABSOLUTE_PATH(family.top) THEN NULL ELSE dirname
          /\ entry[n] \in Entries /\ entry[n].data = NULL
          /\ entry[n].successor \in Seq(DOMAIN entry)
    BY EntriesOfFamily
  <2> HIDE DEF entry, family, File, K
  <2>4. DOMAIN new = {File(n) : n \in DOMAIN entry} /\ \A n \in DOMAIN entry : new[File(n)] = entry[n]
    BY <2>3
  <2> HIDE DEF new
  <2>5. /\ DOMAIN K = DOMAIN L \cup DOMAIN new
        /\ \A f \in DOMAIN L : K[f] = L[f]
        /\ \A f \in DOMAIN K : f \notin DOMAIN L => f \in DOMAIN new /\ K[f] = new[f]
        /\ K = [f \in DOMAIN K |-> K[f]]
    BY <2>1 DEF Over
  <2>6. \A f \in DOMAIN K : f \notin DOMAIN L => \E n \in DOMAIN entry : f = File(n) /\ K[f] = entry[n]
    BY <2>4, <2>5
  <2>7. DOMAIN K \subseteq Files
    BY <2>3, <2>5, <2>6 DEF IsList
  <2>8. K \in [DOMAIN K -> Entries]
    BY <2>3, <2>5, <2>6 DEF IsList
  <2>9. ASSUME NEW f \in DOMAIN K, NEW i \in DOMAIN K[f].successor
        PROVE  [f EXCEPT !.name = K[f].successor[i]] \in DOMAIN K
    <3>1. CASE f \in DOMAIN L
      BY <2>5, <2>9, <3>1 DEF IsList
    <3>2. CASE f \notin DOMAIN L
      <4>1. PICK n \in DOMAIN entry : f = File(n) /\ K[f] = entry[n]
        BY <2>6, <3>2
      <4> DEFINE m == entry[n].successor[i]
      <4>2. m \in DOMAIN entry
        BY <2>3, <2>9, <4>1
      <4> HIDE DEF m
      <4>3. [f EXCEPT !.name = m] = File(m)
        BY <2>3, <4>1, <4>2 DEF Files
      <4>4. File(m) \in DOMAIN K
        BY <2>4, <2>5, <4>2
      <4> QED
        BY <4>1, <4>3, <4>4 DEF m
    <3> QED
      BY <3>1, <3>2
  <2>10. ASSUME NEW f \in DOMAIN K PROVE ReadOnce(f, K[f])
    <3>1. CASE f \in DOMAIN L
      BY <2>5, <3>1 DEF IsList
    <3>2. CASE f \notin DOMAIN L
      BY <2>3, <2>6, <3>2 DEF ReadOnce
    <3> QED
      BY <3>1, <3>2
  <2>11. File(family.top) \in DOMAIN K
    BY <2>2, <2>4, <2>5
  <2>12. \A f \in DOMAIN K : f \in DOMAIN L \/ K[f].data = NULL
    BY <2>3, <2>6
  <2> QED
    BY <2>5, <2>7, <2>8, <2>9, <2>10, <2>11, <2>12 DEF IsList, K, family, File
<1> QED
  BY <1>1, <1>2

-------------------------------------------------------------------------------
(* Where a call is. *)

LEMMA InTheList ==
  ASSUME IsList(_nl_loaded_domains), domain \in DOMAIN _nl_loaded_domains
  PROVE  /\ LastFile \in Nat
         /\ \A k \in 0..LastFile : /\ FileAt(k) \in DOMAIN _nl_loaded_domains
                                   /\ FileAt(k).file = domain.file
                                   /\ _nl_loaded_domains[FileAt(k)] \in Entries
<1> DEFINE e == _nl_loaded_domains[domain]
<1>1. e \in Entries /\ domain \in Files
  BY DEF IsList
<1>2. Len(e.successor) \in Nat /\ DOMAIN e.successor = 1..Len(e.successor)
  BY <1>1, EntryIs
<1>3. ASSUME NEW k \in 0..LastFile
      PROVE  FileAt(k) \in DOMAIN _nl_loaded_domains /\ FileAt(k).file = domain.file
  <2>1. CASE k = 0
    BY <2>1 DEF FileAt
  <2>2. CASE k # 0
    <3>1. k \in DOMAIN e.successor
      BY <1>2, <1>3, <2>2 DEF LastFile
    <3>2. FileAt(k) = [domain EXCEPT !.name = e.successor[k]]
      BY <2>2 DEF FileAt
    <3>3. [domain EXCEPT !.name = e.successor[k]].file = domain.file
      BY <1>1 DEF Files
    <3> QED
      BY <3>1, <3>2, <3>3 DEF IsList
  <2> QED
    BY <2>1, <2>2
<1> QED
  BY <1>2, <1>3 DEF LastFile, IsList

LEMMA SamePlace ==
  ASSUME domain' = domain,
         _nl_loaded_domains'[domain].successor = _nl_loaded_domains[domain].successor
  PROVE  LastFile' = LastFile /\ \A k : FileAt(k)' = FileAt(k)
BY DEF LastFile, FileAt

(* A search for a binding ends, with that of the domain or without any. *)
LEMMA BindingIs ==
  ASSUME InOrder, NEW d \in Domains
  PROVE  /\ Binding(d) = NULL \/ (Binding(d) \in Bindings /\ Binding(d).domainname = d)
         /\ Binding(d) # NULL => /\ BindingPlace(d) \in DOMAIN _nl_domain_bindings
                                 /\ Binding(d) = _nl_domain_bindings[BindingPlace(d)]
<1> DEFINE n == Len(_nl_domain_bindings)
           r == DomainRank[d]
           T == {k \in 1..(n + 1) : k <= n => r <= Rank(k)}
           P(k) == /\ k <= n => r <= Rank(k)
                   /\ \A j \in 1..(k - 1) : r > Rank(j)
<1>1. /\ n \in Nat /\ DOMAIN _nl_domain_bindings = 1..n /\ r \in Nat
      /\ \A k \in 1..n : Rank(k) \in Nat
  BY Ranks, BindingAssumption DEF InOrder
<1>2. BindingPlace(d) = CHOOSE k \in 1..(n + 1) : P(k)
  BY DEF BindingPlace, Rank
<1> HIDE DEF n, r
<1>3. T \subseteq Nat /\ n + 1 \in T
  BY <1>1
<1>4. PICK x \in T : \A y \in T : x <= y
  BY <1>3, Least
<1>5. ASSUME NEW j \in 1..(x - 1) PROVE r > Rank(j)
  <2>1. j \in 1..n /\ ~(x <= j)
    BY <1>1, <1>4
  <2> QED
    BY <1>1, <1>4, <2>1
<1>6. x \in 1..(n + 1) /\ P(x)
  BY <1>4, <1>5
<1>7. BindingPlace(d) \in 1..(n + 1)
  <2> HIDE DEF P
  <2> QED  BY <1>2, <1>6
<1>8. BindingPlace(d) <= n => BindingPlace(d) \in DOMAIN _nl_domain_bindings
  BY <1>1, <1>7
<1> DEFINE i == BindingPlace(d)
<1>9. CASE i <= n /\ _nl_domain_bindings[i].domainname = d
  <2>1. Binding(d) = _nl_domain_bindings[i]
    BY <1>9 DEF Binding, n
  <2>2. i \in DOMAIN _nl_domain_bindings
    BY <1>8, <1>9
  <2> QED
    BY <2>1, <2>2, <1>9, Ranks
<1>10. CASE ~(i <= n /\ _nl_domain_bindings[i].domainname = d)
  BY <1>10 DEF Binding, n
<1> QED
  BY <1>9, <1>10

LEMMA DirnameIs ==
  ASSUME InOrder, call.domainname \in Domains
  PROVE  Dirname \in Dirs
<1> DEFINE b == Binding(call.domainname)
<1>1. b = NULL \/ b \in Bindings
  BY BindingIs
<1>2. Dirname = DirOf(b)
  BY DEF Dirname
<1> HIDE DEF b
<1> QED
  BY <1>1, <1>2 DEF DirOf, Dirs, Bindings

LEMMA NewConverter ==
  ASSUME InOrder, NEW d \in Domains, NEW f
  PROVE  LET data == _nl_init_domain_conv(f, Binding(d))
         IN  /\ data \in Data /\ data.conv_tab = NULL
             /\ data.codeset_cntr = Counter(Binding(d))
<1> DEFINE b == Binding(d)
           to == IF b # NULL /\ b.codeset # NULL THEN b.codeset ELSE env.charset
           conv == IF f.charset # Unknown /\ [from |-> f.charset, to |-> to] \in Convertible THEN to ELSE NULL
<1>1. b = NULL \/ b \in Bindings
  BY BindingIs
<1>2. Counter(b) \in Nat
  <2> HIDE DEF b
  <2> QED
    BY <1>1 DEF Counter, Bindings
<1>3. conv \in {NULL} \cup {c.to : c \in Convertible}
  <2> HIDE DEF to
  <2>1. ASSUME [from |-> f.charset, to |-> to] \in Convertible PROVE to \in {c.to : c \in Convertible}
    <3> DEFINE c == [from |-> f.charset, to |-> to]
    <3>1. c.to = to /\ c \in Convertible
      BY <2>1
    <3> QED
      BY <3>1
  <2> QED
    BY <2>1
<1>4. _nl_init_domain_conv(f, b) = [codeset_cntr |-> Counter(b), conv |-> conv, conv_tab |-> NULL]
  BY DEF _nl_init_domain_conv
<1> HIDE DEF conv, b
<1> QED
  BY <1>2, <1>3, <1>4 DEF Data, b

-------------------------------------------------------------------------------
(* Every step keeps the list, one lemma for each. *)

\* All of ListInv that the lemmas of InOrder and PoolInv do not say.
Rest == Surroundings /\ Calling /\ IsList(_nl_loaded_domains) /\ Position /\ Known

LEMMA CountersGrow ==
  ASSUME Surroundings, UNCHANGED <<env, map, locale_alias_path>>,
         _nl_current_default_domain' \in Domains,
         ops' = ops \/ (ops < MaxOps /\ ops' = ops + 1),
         \/ _nl_msg_cat_cntr' = _nl_msg_cat_cntr
         \/ _nl_msg_cat_cntr' = _nl_msg_cat_cntr + 1 /\ ops' = ops + 1,
         failures' = failures \/ failures' = failures + 1
  PROVE  Surroundings' /\ _nl_msg_cat_cntr <= _nl_msg_cat_cntr'
BY BoundAssumption DEF Surroundings

\* A step outside of the calls.
LEMMA QuietStep ==
  ASSUME Rest, Surroundings', _nl_msg_cat_cntr <= _nl_msg_cat_cntr',
         UNCHANGED <<_nl_loaded_domains, root, pc, lookup, retval>>
  PROVE  Rest'
<1>1. Calling' /\ IsList(_nl_loaded_domains)'
  BY DEF Rest, Calling, lookup
<1>2. Position'
  BY DEF Rest, Position, lookup, LastFile, This, FileAt, Act
<1>3. Known'
  <2>1. \A f : IsLoaded(f)' <=> IsLoaded(f)
    BY DEF IsLoaded
  <2> QED
    BY <2>1 DEF Rest, Known, Surroundings
<1> QED
  BY <1>1, <1>2, <1>3 DEF Rest

LEMMA BindRest ==
  ASSUME Rest, NEW d \in Domains, NEW dirname, NEW codeset,
         Rebind(d, dirname, codeset) \/ Bind(d, dirname, codeset)
  PROVE  Rest'
<1>1. /\ BindingUnchanged /\ Operation
      /\ Flush \/ UNCHANGED _nl_msg_cat_cntr
      /\ UNCHANGED failures \/ Fails
  BY DEF Rebind, Bind
<1>2. Surroundings' /\ _nl_msg_cat_cntr <= _nl_msg_cat_cntr'
  BY <1>1, CountersGrow DEF Rest, Surroundings, BindingUnchanged, environment, aliases, Operation, Flush, Fails
<1> QED
  BY <1>1, <1>2, QuietStep DEF BindingUnchanged

LEMMA TEXTDOMAINRest ==
  ASSUME Rest, NEW d \in Domains, TEXTDOMAIN(d)
  PROVE  Rest'
<1>1. /\ Operation
      /\ _nl_current_default_domain' \in Domains
      /\ Flush \/ UNCHANGED _nl_msg_cat_cntr
      /\ UNCHANGED failures \/ Fails
  BY DEF TEXTDOMAIN, Rest, Surroundings
<1>2. UNCHANGED <<env, map, locale_alias_path, _nl_loaded_domains, root, pc, lookup, retval>>
  BY DEF TEXTDOMAIN, environment, aliases
<1>3. Surroundings' /\ _nl_msg_cat_cntr <= _nl_msg_cat_cntr'
  BY <1>1, <1>2, CountersGrow DEF Rest, Operation, Flush, Fails
<1> QED
  BY <1>2, <1>3, QuietStep

LEMMA ChangeEnvironmentRest ==
  ASSUME Rest, ChangeEnvironment
  PROVE  Rest'
<1>1. env' \in Environments
      /\ UNCHANGED <<ops, bindings, _nl_loaded_domains, aliases, root, pc, lookup, retval, history>>
  BY DEF ChangeEnvironment
<1>2. Surroundings' /\ _nl_msg_cat_cntr <= _nl_msg_cat_cntr'
  BY <1>1 DEF Rest, Surroundings, bindings, aliases, history
<1> QED
  BY <1>1, <1>2, QuietStep

LEMMA GuessedNames ==
  ASSUME env \in Environments
  PROVE  guess_category_value \in Seq(DOMAIN Families)
<1>1. env.locale \in DOMAIN Families /\ env.language \in Seq(DOMAIN Families)
  BY NamesAssumption
<1>2. <<env.locale>> \in Seq(DOMAIN Families)
  <2> DEFINE x == env.locale
  <2>1. x \in DOMAIN Families
    BY <1>1
  <2> HIDE DEF x
  <2> QED
    BY <2>1 DEF x
<1>3. guess_category_value \in {env.language, <<env.locale>>}
  BY DEF guess_category_value
<1> QED
  BY <1>1, <1>2, <1>3

LEMMA DCIGETTEXTRest ==
  ASSUME Rest, NEW arguments \in Calls, DCIGETTEXT(arguments)
  PROVE  Rest'
<1> DEFINE d == IF arguments.domainname = NULL THEN _nl_current_default_domain
                                               ELSE arguments.domainname
<1>1. /\ Operation
      /\ call' = [arguments EXCEPT !.domainname = d]
      /\ pc' \in {"answered", "locale"}
      /\ categoryvalue' = guess_category_value \/ UNCHANGED categoryvalue
      /\ UNCHANGED failures \/ Fails
      /\ UNCHANGED <<environment, bindings, _nl_loaded_domains, aliases, root>>
  BY DEF DCIGETTEXT, Untranslated
<1>2. Surroundings' /\ _nl_msg_cat_cntr <= _nl_msg_cat_cntr'
  BY <1>1, CountersGrow DEF Rest, Surroundings, environment, bindings, aliases, Operation, Fails
<1>3. arguments \in [domainname : Domains \cup {NULL}, msgid : DOMAIN Hash, n : {NULL} \cup Nat]
  BY CallsAssumption
<1>4. d \in Domains
  BY <1>3 DEF Rest, Surroundings
<1> HIDE DEF d
<1>5. call' \in [domainname : Domains, msgid : DOMAIN Hash, n : {NULL} \cup Nat] /\ call'.n = arguments.n
  BY <1>1, <1>3, <1>4
<1>6. categoryvalue' \in Seq(DOMAIN Families)
  BY <1>1, GuessedNames DEF Rest, Surroundings, Calling
<1>7. Calling'
  BY <1>1, <1>5, <1>6 DEF Calling
<1>8. Position'
  BY <1>1 DEF Position, InList
<1>9. Known'
  <2>1. \A f : IsLoaded(f)' <=> IsLoaded(f)
    BY <1>1 DEF IsLoaded
  <2> QED
    BY <1>1, <2>1 DEF Rest, Known, bindings
<1> QED
  BY <1>1, <1>2, <1>7, <1>8, <1>9 DEF Rest

\* A step of a call that leaves the list and what is known alone.
LEMMA Elsewhere ==
  ASSUME Rest, UNCHANGED <<environment, bindings, aliases, ops, root, _nl_loaded_domains>>,
         UNCHANGED failures \/ Fails
  PROVE  /\ Surroundings' /\ IsList(_nl_loaded_domains)'
         /\ \A f : IsLoaded(f)' <=> IsLoaded(f)
<1>1. Surroundings'
  BY CountersGrow DEF Rest, Surroundings, environment, bindings, aliases, Fails
<1>2. \A f : IsLoaded(f)' <=> IsLoaded(f)
  BY DEF IsLoaded
<1> QED
  BY <1>1, <1>2 DEF Rest

LEMMA NextLocaleRest ==
  ASSUME Rest, NextLocale
  PROVE  Rest'
<1> DEFINE name == IF categoryvalue = <<>> THEN <<Token("", "C")>> ELSE Head(categoryvalue)
<1>1. /\ UNCHANGED <<environment, bindings, aliases, ops, root, _nl_loaded_domains, call, failures>>
      /\ categoryvalue' = (IF categoryvalue = <<>> THEN <<>> ELSE Tail(categoryvalue))
      /\ single_locale' = name
      /\ pc = "locale" /\ pc' \in {"locale", "answered", "find"}
      /\ pc' = "find" => ~IsC(name)
  BY DEF NextLocale, Untranslated, history
<1>2. categoryvalue \in Seq(DOMAIN Families)
  BY DEF Rest, Calling
<1>3. categoryvalue' \in Seq(DOMAIN Families)
  <2>1. CASE categoryvalue = <<>>
    <3>1. categoryvalue' = categoryvalue
      BY <1>1, <2>1
    <3> QED
      BY <3>1, <1>2
  <2>2. CASE categoryvalue # <<>>
    <3>1. categoryvalue' = Tail(categoryvalue)
      BY <1>1, <2>2
    <3> QED
      BY <3>1, <1>2, <2>2
  <2> QED
    BY <2>1, <2>2
<1>4. pc' = "find" => single_locale' \in DOMAIN Families
  <2>1. pc' = "find" => categoryvalue # <<>>
    BY <1>1 DEF IsC
  <2> QED
    BY <1>1, <1>2, <2>1
<1>5. Calling'
  BY <1>1, <1>3, <1>4 DEF Rest, Calling
<1>6. Position'
  BY <1>1 DEF Position, InList
<1>7. Known'
  BY <1>1, Elsewhere DEF Rest, Known, bindings
<1> QED
  BY <1>1, <1>5, <1>6, <1>7, Elsewhere DEF Rest

\* Alias files are read as far as it takes to find the name, or all of them.
ReadTo(k, path) == map \cup UNION {ToSet(KeptLines(path[i])) : i \in 1..k}
IsAlias(a, k, path, name) ==
    /\ a.map = ReadTo(k, path) /\ a.path = SubSeq(path, k + 1, Len(path))
    /\ \/ \E line \in ReadTo(k, path) : line[1] = name /\ a.value = line[2]
       \/ k = Len(path) /\ a.value = NULL /\ \A line \in ReadTo(k, path) : line[1] # name

LEMMA AliasRead ==
  ASSUME Surroundings, NEW name, NEW a, a = _nl_expand_alias(map, locale_alias_path, name)
  PROVE  \E k \in 0..Len(locale_alias_path) : IsAlias(a, k, locale_alias_path, name)
<1> DEFINE path == locale_alias_path
           After(k) == map \cup UNION {ToSet(KeptLines(path[i])) : i \in 1..k}
           HasAlias(k) == \E line \in After(k) : line[1] = name
           Helps(k) == HasAlias(k) /\ \A j \in 0..(k - 1) : ~HasAlias(j)
           k == IF \E i \in 0..Len(path) : HasAlias(i)
                  THEN CHOOSE i \in 0..Len(path) : Helps(i)
                  ELSE Len(path)
           value == IF HasAlias(k) THEN (CHOOSE line \in After(k) : line[1] = name)[2] ELSE NULL
<1>1. a = [map |-> After(k), path |-> SubSeq(path, k + 1, Len(path)), value |-> value]
  BY DEF _nl_expand_alias
<1>2. Len(path) \in Nat
  BY DEF Surroundings
<1>3. k \in 0..Len(path) /\ (HasAlias(k) \/ k = Len(path))
  <2>1. CASE \E i \in 0..Len(path) : HasAlias(i)
    <3> DEFINE T == {i \in 0..Len(path) : HasAlias(i)}
    <3> HIDE DEF HasAlias
    <3>1. T \subseteq Nat /\ T # {}
      BY <2>1
    <3>2. PICK x \in T : \A y \in T : x <= y
      BY <3>1, Least
    <3>3. \A j \in 0..(x - 1) : j \in 0..Len(path) /\ ~(x <= j)
      BY <1>2
    <3>4. x \in 0..Len(path) /\ Helps(x)
      BY <3>2, <3>3
    <3>5. \A i : Helps(i) => HasAlias(i)
      OBVIOUS
    <3> HIDE DEF Helps
    <3> QED
      BY <2>1, <3>4, <3>5
  <2>2. CASE ~\E i \in 0..Len(path) : HasAlias(i)
    <3> HIDE DEF HasAlias
    <3> QED
      BY <1>2, <2>2
  <2> QED
    BY <2>1, <2>2
<1> HIDE DEF k
<1> DEFINE Helped(j) == \E line \in After(j) : line[1] = name /\ a.value = line[2]
           None(j) == j = Len(path) /\ a.value = NULL /\ \A line \in After(j) : line[1] # name
<1>4. ASSUME HasAlias(k) PROVE Helped(k)
  <2> DEFINE line == CHOOSE line \in After(k) : line[1] = name
  <2>1. line \in After(k) /\ line[1] = name
    <3> HIDE DEF After
    <3> QED  BY <1>4
  <2>2. a.value = line[2]
    BY <1>1, <1>4
  <2> HIDE DEF After, line
  <2> QED
    BY <2>1, <2>2
<1>5. ASSUME ~HasAlias(k) PROVE None(k)
  <2> HIDE DEF After
  <2> QED
    BY <1>1, <1>3, <1>5
<1>6. a.map = After(k) /\ a.path = SubSeq(path, k + 1, Len(path))
  <2> DEFINE after == After(k)
             rest == SubSeq(path, k + 1, Len(path))
  <2>1. a = [map |-> after, path |-> rest, value |-> value]
    BY <1>1
  <2> HIDE DEF after, value, rest
  <2>2. a.map = after /\ a.path = rest
    BY <2>1
  <2> QED
    BY <2>2 DEF after, rest
<1>7. Helped(k) \/ None(k)
  <2> HIDE DEF After, Helped, None, HasAlias
  <2> QED
    BY <1>4, <1>5
<1> QED
  BY <1>3, <1>6, <1>7 DEF IsAlias, ReadTo

\* The names that are looked for have entries.
LEMMA ExpandedNames ==
  ASSUME Surroundings, NEW name \in DOMAIN Families, NEW a,
         a = _nl_expand_alias(map, locale_alias_path, name)
  PROVE  /\ a.map \subseteq AliasLines /\ a.path \in Seq(ToSet(AliasPath))
         /\ (IF a.value = NULL THEN name ELSE a.value) \in DOMAIN Families
<1> DEFINE path == locale_alias_path
           After(k) == ReadTo(k, path)
<1>1. PICK k \in 0..Len(path) :
        /\ a.map = After(k) /\ a.path = SubSeq(path, k + 1, Len(path))
        /\ a.value = NULL \/ \E line \in After(k) : a.value = line[2]
  BY AliasRead DEF IsAlias
<1>2. /\ map \subseteq AliasLines /\ path \in Seq(ToSet(AliasPath)) /\ Len(path) \in Nat
      /\ \A i \in 1..Len(path) : path[i] \in ToSet(AliasPath)
  BY DEF Surroundings
<1>3. After(k) \subseteq AliasLines
  <2>1. \A i \in 1..k : path[i] \in ToSet(AliasPath)
    BY <1>2
  <2>2. \A i \in 1..k : ToSet(KeptLines(path[i])) \subseteq AliasLines
    BY <2>1 DEF AliasLines
  <2> QED
    BY <1>2, <2>2 DEF ReadTo
<1> HIDE DEF After
<1>4. SubSeq(path, k + 1, Len(path)) \in Seq(ToSet(AliasPath))
  <2>1. k + 1 \in Nat /\ k + 1 >= 1
    BY <1>2
  <2> QED
    BY <1>2, <2>1
<1>5. \A line \in AliasLines : line[2] \in DOMAIN Families
  BY NamesAssumption
<1> QED
  BY <1>1, <1>3, <1>4, <1>5

\* What is known of a file after a step: what was known, or nothing, or that it is loaded
\* now, with the converter of the binding.
Remains(f) == /\ f \in DOMAIN _nl_loaded_domains
              /\ _nl_loaded_domains'[f].data = _nl_loaded_domains[f].data
IsRead(f) == /\ f.file = MoFile(call.domainname) /\ call.domainname \in Domains
             /\ _nl_loaded_domains'[f].data = _nl_init_domain_conv(Catalog[f], Binding(call.domainname))
FilesRead == \A f \in DOMAIN _nl_loaded_domains' :
                Remains(f) \/ _nl_loaded_domains'[f].data = NULL \/ IsRead(f)

LEMMA FindDomainRest ==
  ASSUME InOrder, Rest, FindDomain
  PROVE  Rest' /\ FilesRead
<1>1. /\ pc = "find" /\ cnt' = 0
      /\ UNCHANGED <<environment, bindings, root, call, categoryvalue, single_locale, retval, ops>>
      /\ UNCHANGED failures \/ Fails
      /\ pc' \in {"load", "locale"}
  BY DEF FindDomain
<1>2. /\ single_locale \in DOMAIN Families /\ call.domainname \in Domains
      /\ IsList(_nl_loaded_domains) /\ Surroundings
  BY <1>1 DEF Rest, Calling
<1>3. Dirname \in Dirs
  BY <1>2, DirnameIs
<1>4. xdomainname = MoFile(call.domainname)
  BY DEF xdomainname, MoFile
\* What FindDomain makes of the list and of the aliases.
<1> DEFINE Listed == pc' = "load" => domain' \in DOMAIN _nl_loaded_domains' /\ domain'.file = MoFile(call.domainname)
           Grown == /\ IsList(_nl_loaded_domains)'
                    /\ \A f \in DOMAIN _nl_loaded_domains :
                         f \in DOMAIN _nl_loaded_domains' /\ _nl_loaded_domains'[f] = _nl_loaded_domains[f]
                    /\ \A f \in DOMAIN _nl_loaded_domains' :
                         f \in DOMAIN _nl_loaded_domains \/ _nl_loaded_domains'[f].data = NULL
           Aliases == map' \subseteq AliasLines /\ locale_alias_path' \in Seq(ToSet(AliasPath))
<1>5. Listed /\ Grown /\ Aliases
  <2> DEFINE this == Filename(Dirname, single_locale, xdomainname)
  <2>1. CASE this \in DOMAIN _nl_loaded_domains
    <3>1. /\ domain' = this
          /\ UNCHANGED <<_nl_loaded_domains, aliases>>
      BY <2>1 DEF FindDomain
    <3>2. this.file = MoFile(call.domainname)
      BY <1>4 DEF Filename
    <3> HIDE DEF this
    <3> QED
      BY <1>2, <2>1, <3>1, <3>2 DEF aliases, Surroundings
  <2>2. CASE this \notin DOMAIN _nl_loaded_domains
    <3>1. PICK a : /\ a = _nl_expand_alias(map, locale_alias_path, single_locale)
                   /\ map' = a.map /\ locale_alias_path' = a.path
                   /\ \/ LET family == Families[IF a.value = NULL THEN single_locale ELSE a.value]
                         IN  /\ _nl_loaded_domains' =
                                  _nl_make_l10nflist(_nl_loaded_domains, Dirname, family, xdomainname)
                             /\ domain' = Filename(Dirname, family.top, xdomainname)
                      \/ pc' = "locale" /\ UNCHANGED _nl_loaded_domains
      BY <2>2 DEF FindDomain
    <3> DEFINE name == IF a.value = NULL THEN single_locale ELSE a.value
    <3>2. name \in DOMAIN Families /\ Aliases
      BY <1>2, <3>1, ExpandedNames
    <3> HIDE DEF name
    <3>3. CASE /\ _nl_loaded_domains' =
                    _nl_make_l10nflist(_nl_loaded_domains, Dirname, Families[name], xdomainname)
               /\ domain' = Filename(Dirname, Families[name].top, xdomainname)
      <4>1. Grown /\ domain' \in DOMAIN _nl_loaded_domains'
        BY <1>2, <1>3, <1>4, <3>2, <3>3, FamilyAdded
      <4>2. domain'.file = MoFile(call.domainname)
        BY <1>4, <3>3 DEF Filename
      <4> QED
        BY <3>2, <4>1, <4>2
    <3>4. CASE pc' = "locale" /\ UNCHANGED _nl_loaded_domains
      BY <1>2, <3>2, <3>4
    <3> QED
      BY <3>1, <3>3, <3>4 DEF name
  <2> QED
    BY <2>1, <2>2
<1>6. Surroundings'
  BY <1>1, <1>2, <1>5 DEF Surroundings, environment, bindings, Fails
<1>7. Calling'
  BY <1>1 DEF Rest, Calling, InList
<1>8. Position'
  <2>1. CASE pc' = "locale"
    BY <2>1 DEF Position, InList
  <2>2. CASE pc' = "load"
    <3>1. (domain \in DOMAIN _nl_loaded_domains)' /\ IsList(_nl_loaded_domains)'
          /\ domain'.file = MoFile(call'.domainname)
      BY <1>1, <1>5, <2>2
    <3>2. LastFile' \in Nat
      <4>1. _nl_loaded_domains'[domain'] \in Entries
        BY <3>1 DEF IsList
      <4> QED
        BY <4>1, EntryIs DEF LastFile
    <3> QED
      BY <1>1, <2>2, <3>1, <3>2 DEF Position
  <2> QED
    BY <1>1, <2>1, <2>2
<1>9. Known'
  <2>1. \A f : IsLoaded(f) => IsLoaded(f)'
    BY <1>5 DEF IsLoaded
  <2> QED
    BY <1>1, <2>1 DEF Rest, Known, bindings
<1>10. FilesRead
  BY <1>5 DEF FilesRead, Remains
<1> QED
  BY <1>5, <1>6, <1>7, <1>8, <1>9, <1>10 DEF Rest

(* Deciding on the files that are passed shows nothing but that. *)
LEMMA PassedShape ==
  ASSUME IsList(_nl_loaded_domains), NEW stop
  PROVE  LET L == _nl_loaded_domains
             K == Passed(stop)
         IN  /\ K \in [DOMAIN L -> Entries]
             /\ \A f \in DOMAIN L : /\ K[f].successor = L[f].successor /\ K[f].data = L[f].data
                                    /\ ReadOnce(f, K[f])
<1> DEFINE L == _nl_loaded_domains
           K == Passed(stop)
           New(f) == IF ~L[f].decided /\ \E k \in cnt..(stop - 1) : f = FileAt(k)
                       THEN Decided(L[f], NULL) ELSE L[f]
<1>1. K = [f \in DOMAIN L |-> New(f)]
  BY DEF Passed
<1>2. ASSUME NEW f \in DOMAIN L
      PROVE  /\ New(f) \in Entries /\ New(f).successor = L[f].successor /\ New(f).data = L[f].data
             /\ ReadOnce(f, New(f))
  <2> DEFINE e == L[f]
  <2>1. e \in Entries /\ ReadOnce(f, e)
    BY <1>2 DEF IsList
  <2> HIDE DEF e
  <2>2. CASE New(f) = e
    BY <2>1, <2>2 DEF e
  <2>3. CASE ~e.decided /\ New(f) = Decided(e, NULL)
    <3>1. e.data = NULL
      BY <2>1, <2>3 DEF ReadOnce
    <3>2. /\ Decided(e, NULL) \in Entries
          /\ Decided(e, NULL).successor = e.successor /\ Decided(e, NULL).data = NULL
      BY <2>1 DEF Decided, Entries
    <3> QED
      BY <2>3, <3>1, <3>2 DEF ReadOnce, e
  <2> QED
    BY <2>2, <2>3 DEF e
<1> HIDE DEF New
<1> QED
  BY <1>1, <1>2

\* What a step at a file of the list may leave: the call stays where it is or goes on.
LEMMA InPlace ==
  ASSUME Rest, pc \in InList, pc' \in InList,
         NEW K, K = _nl_loaded_domains', K \in [DOMAIN _nl_loaded_domains -> Entries],
         \A f \in DOMAIN _nl_loaded_domains : /\ K[f].successor = _nl_loaded_domains[f].successor
                                              /\ _nl_loaded_domains[f].data # NULL => K[f].data # NULL
                                              /\ ReadOnce(f, K[f]),
         UNCHANGED <<environment, bindings, aliases, ops, root, call, categoryvalue, single_locale,
                     domain>>,
         UNCHANGED failures \/ Fails
  PROVE  /\ Surroundings' /\ Calling' /\ IsList(K) /\ Known'
         /\ domain \in DOMAIN K /\ domain.file = MoFile(call.domainname)
         /\ LastFile' = LastFile /\ LastFile \in Nat
         /\ \A k : FileAt(k)' = FileAt(k)
         /\ \A k \in 0..LastFile : FileAt(k) \in DOMAIN _nl_loaded_domains
<1> DEFINE L == _nl_loaded_domains
<1>1. IsList(L) /\ domain \in DOMAIN L /\ domain.file = MoFile(call.domainname)
  BY DEF Rest, Position
<1>2. DOMAIN K = DOMAIN L /\ IsList(K)
  BY <1>1, Reshaped
<1>3. Surroundings'
  BY CountersGrow DEF Rest, Surroundings, environment, bindings, aliases, Fails
<1>4. Calling'
  BY DEF Rest, Calling, InList
<1>5. LastFile' = LastFile /\ \A k : FileAt(k)' = FileAt(k)
  BY <1>1, SamePlace
<1>6. LastFile \in Nat /\ \A k \in 0..LastFile : FileAt(k) \in DOMAIN L
  BY <1>1, InTheList
<1>7. \A f : IsLoaded(f) => IsLoaded(f)'
  BY <1>2 DEF IsLoaded
<1>8. Known'
  BY <1>7 DEF Rest, Known, bindings, InList
<1> QED
  BY <1>1, <1>2, <1>3, <1>4, <1>5, <1>6, <1>8

LEMMA LoadRest ==
  ASSUME InOrder, Rest, Load
  PROVE  Rest' /\ FilesRead
<1>1. PICK stop \in cnt..LastFile :
        /\ Unread(FileAt(stop))
        /\ cnt' = stop
        /\ LET f == FileAt(stop)
               With(data) == _nl_loaded_domains' = [Passed(stop) EXCEPT ![f] = Decided(@, data)]
           IN  \/ With(_nl_init_domain_conv(Catalog[f], Binding(call.domainname))) /\ UNCHANGED failures
               \/ Fails /\ With(NULL)
  BY DEF Load, history
<1>2. /\ pc \in {"load", "search"} /\ pc' = pc
      /\ UNCHANGED <<environment, bindings, aliases, ops, root, call, categoryvalue, single_locale,
                     domain, retval>>
  BY DEF Load
<1> DEFINE L == _nl_loaded_domains
           f == FileAt(stop)
           P == Passed(stop)
<1>3. /\ IsList(L) /\ cnt \in 0..LastFile /\ LastFile \in Nat /\ f \in DOMAIN L
      /\ call.domainname \in Domains /\ stop \in 0..LastFile
  <2>1. IsList(L) /\ cnt \in 0..LastFile /\ domain \in DOMAIN L /\ call.domainname \in Domains
    BY <1>2 DEF Rest, Position, Calling, InList
  <2>2. LastFile \in Nat
    BY <2>1, InTheList
  <2>3. stop \in 0..LastFile
    BY <1>1, <2>1, <2>2
  <2> QED
    BY <2>1, <2>2, <2>3, InTheList
<1>4. /\ P \in [DOMAIN L -> Entries]
      /\ \A g \in DOMAIN L : P[g].successor = L[g].successor /\ P[g].data = L[g].data /\ ReadOnce(g, P[g])
  BY <1>3, PassedShape
<1>5. ~L[f].decided /\ f \in DOMAIN Disk /\ Catalog[f] # Unknown
  BY <1>1 DEF Unread
<1>6. PICK data : /\ L' = [P EXCEPT ![f] = Decided(@, data)]
                  /\ UNCHANGED failures \/ Fails
                  /\ data = NULL \/ (data \in Data /\ data.conv_tab = NULL)
                  /\ data \in {NULL, _nl_init_domain_conv(Catalog[f], Binding(call.domainname))}
  <2>1. CASE /\ L' = [P EXCEPT ![f] = Decided(@, _nl_init_domain_conv(Catalog[f], Binding(call.domainname)))]
             /\ UNCHANGED failures
    BY <1>3, <2>1, NewConverter
  <2>2. CASE Fails /\ L' = [P EXCEPT ![f] = Decided(@, NULL)]
    BY <2>2
  <2> QED
    BY <1>1, <2>1, <2>2
<1> HIDE DEF P, f
<1> DEFINE K == L'
<1>7. /\ Decided(P[f], data) \in Entries /\ Decided(P[f], data).successor = P[f].successor
      /\ ReadOnce(f, Decided(P[f], data))
  <2> DEFINE e == P[f]
  <2>1. e \in Entries
    BY <1>3, <1>4
  <2> HIDE DEF e
  <2>2. /\ Decided(e, data).decided = TRUE /\ Decided(e, data).data = data
        /\ Decided(e, data).successor = e.successor /\ Decided(e, data) \in Entries
    BY <1>6, <2>1 DEF Decided, Entries
  <2> QED
    BY <1>5, <1>6, <2>2 DEF ReadOnce, e
<1>8. K \in [DOMAIN L -> Entries]
  BY <1>3, <1>4, <1>6, <1>7
<1>9. ASSUME NEW g \in DOMAIN L
      PROVE  /\ K[g].successor = L[g].successor /\ ReadOnce(g, K[g])
             /\ L[g].data # NULL => K[g].data # NULL
  <2>1. CASE g = f
    <3>1. L[f].data = NULL
      BY <1>3, <1>5 DEF IsList, ReadOnce
    <3>2. K[g] = Decided(P[f], data)
      BY <1>3, <1>4, <1>6, <2>1
    <3> QED
      BY <1>3, <1>4, <1>7, <2>1, <3>1, <3>2
  <2>2. CASE g # f
    <3>1. K[g] = P[g]
      BY <1>4, <1>6, <2>2
    <3> QED
      BY <1>4, <3>1
  <2> QED
    BY <2>1, <2>2
<1> HIDE DEF K
<1>10. /\ Surroundings' /\ Calling' /\ IsList(K) /\ Known'
       /\ domain \in DOMAIN K /\ domain.file = MoFile(call.domainname) /\ LastFile' = LastFile
  <2>1. pc \in InList /\ pc' \in InList
    BY <1>2 DEF InList
  <2> QED
    BY <1>2, <1>6, <1>8, <1>9, <2>1, InPlace DEF K
<1>11. Position'
  BY <1>1, <1>2, <1>3, <1>10 DEF Position, K
<1>12. FilesRead
  <2>1. f.file = MoFile(call.domainname)
    <3>1. domain \in DOMAIN L /\ domain.file = MoFile(call.domainname)
      BY <1>2 DEF Rest, Position, InList
    <3> QED
      BY <1>3, <3>1, InTheList DEF f
  <2>2. DOMAIN K = DOMAIN L
    BY <1>8
  <2> SUFFICES ASSUME NEW g \in DOMAIN L PROVE Remains(g) \/ K[g].data = NULL \/ IsRead(g)
    BY <2>2 DEF FilesRead, K
  <2>3. CASE g = f
    <3>1. K[g].data = data
      BY <1>3, <1>4, <1>6, <2>3 DEF K, Decided, Entries
    <3> QED
      BY <1>3, <1>6, <2>1, <2>3, <3>1 DEF IsRead, K
  <2>4. CASE g # f
    <3>1. K[g] = P[g]
      BY <1>4, <1>6, <2>4 DEF K
    <3> QED
      BY <1>4, <3>1 DEF Remains, K
  <2> QED
    BY <2>3, <2>4
<1> QED
  BY <1>10, <1>11, <1>12 DEF Rest, K

LEMMA EndLoopRest ==
  ASSUME Rest, EndLoop
  PROVE  Rest' /\ FilesRead
<1>1. PICK stop \in cnt..(LastFile + 1) :
        /\ Stop(stop)
        /\ stop <= LastFile => ~Unread(FileAt(stop))
        /\ _nl_loaded_domains' = Passed(stop)
        /\ \/ pc = "load" /\ pc' = "search" /\ cnt' = 0
           \/ pc = "search" /\ stop <= LastFile /\ pc' = "translate" /\ cnt' = stop
           \/ pc = "search" /\ stop > LastFile /\ pc' = "locale" /\ cnt' = 0
  BY DEF EndLoop
<1>2. UNCHANGED <<environment, bindings, aliases, root, call, categoryvalue, single_locale, domain,
                  retval, ops, failures>>
  BY DEF EndLoop, history
<1> DEFINE L == _nl_loaded_domains
           K == Passed(stop)
<1>3. /\ IsList(L) /\ cnt \in 0..LastFile /\ domain \in DOMAIN L
      /\ domain.file = MoFile(call.domainname)
  BY <1>1 DEF Rest, Position, InList
<1>4. LastFile \in Nat /\ \A k \in 0..LastFile : FileAt(k) \in DOMAIN L
  BY <1>3, InTheList
<1>5. /\ K \in [DOMAIN L -> Entries]
      /\ \A f \in DOMAIN L : K[f].successor = L[f].successor /\ K[f].data = L[f].data /\ ReadOnce(f, K[f])
  BY <1>3, PassedShape
<1> HIDE DEF K
<1>6. IsList(K) /\ DOMAIN K = DOMAIN L
  BY <1>3, <1>5, Reshaped
<1>7. Surroundings'
  BY <1>2, CountersGrow DEF Rest, Surroundings, environment, bindings, aliases
<1>8. Calling'
  BY <1>1, <1>2 DEF Rest, Calling, InList
<1>9. LastFile' = LastFile /\ \A k : FileAt(k)' = FileAt(k)
  BY <1>1, <1>2, <1>3, <1>5, SamePlace DEF K
<1>10. Known'
  <2>1. \A f : IsLoaded(f) => IsLoaded(f)'
    BY <1>1, <1>5, <1>6 DEF IsLoaded, K
  <2> QED
    BY <1>1, <1>2, <2>1 DEF Rest, Known, bindings
<1>11. Position'
  <2>1. CASE pc' = "locale"
    BY <2>1 DEF Position, InList
  <2>2. CASE pc' = "search"
    BY <1>1, <1>2, <1>3, <1>4, <1>6, <1>9, <2>2 DEF Position, K
  <2>3. CASE pc = "search" /\ stop <= LastFile /\ pc' = "translate" /\ cnt' = stop
    <3>1. stop \in 0..LastFile
      BY <1>1, <1>3, <1>4, <2>3
    <3> DEFINE f == FileAt(stop)
    <3>2. Wanted(f)
      BY <1>1, <2>3 DEF Stop, Stops
    <3>3. L[f].data # NULL /\ Catalog[f].index[call.msgid] # NotFound /\ f \in DOMAIN L
      BY <1>4, <2>3, <3>1, <3>2 DEF Wanted
    <3>4. FileAt(stop)' = f
      BY <1>9
    <3>5. This' = K[f] /\ Act' = Catalog[f].index[call.msgid]
      BY <1>1, <1>2, <1>9, <2>3 DEF This, Act, K
    <3> HIDE DEF f
    <3>6. This'.data # NULL /\ Act' # NotFound
      BY <1>5, <3>3, <3>5
    <3> QED
      BY <1>1, <1>2, <1>3, <1>6, <1>9, <2>3, <3>1, <3>6 DEF Position, K
  <2> QED
    BY <1>1, <2>1, <2>2, <2>3
<1>12. FilesRead
  BY <1>1, <1>5, <1>6 DEF FilesRead, Remains, K
<1> QED
  BY <1>1, <1>6, <1>7, <1>8, <1>10, <1>11, <1>12 DEF Rest, K

\* What the step of a translation finds at its file.
LEMMA AtFile ==
  ASSUME Rest, pc \in {"translate", "convert"}
  PROVE  LET f == FileAt(cnt)
             L == _nl_loaded_domains
         IN  /\ IsList(L) /\ cnt \in 0..LastFile /\ f \in DOMAIN L /\ This = L[f]
             /\ L[f] \in Entries /\ L[f].data \in Data /\ L[f].data # NULL /\ ReadOnce(f, L[f])
             /\ f \in DOMAIN Disk /\ Catalog[f] # Unknown /\ f.file = MoFile(call.domainname)
             /\ call.domainname \in Domains /\ call.msgid \in DOMAIN Hash
             /\ Act = Catalog[f].index[call.msgid] /\ Act # NotFound /\ Act \in Indices
<1> DEFINE f == FileAt(cnt)
           L == _nl_loaded_domains
<1>1. /\ IsList(L) /\ cnt \in 0..LastFile /\ domain \in DOMAIN L /\ This.data # NULL /\ Act # NotFound
      /\ domain.file = MoFile(call.domainname)
      /\ call.domainname \in Domains /\ call.msgid \in DOMAIN Hash
  BY DEF Rest, Position, Calling, InList
<1>2. f \in DOMAIN L /\ f.file = domain.file /\ L[f] \in Entries
  BY <1>1, InTheList
<1>3. This = L[f] /\ Act = Catalog[f].index[call.msgid]
  BY DEF This, Act
<1> HIDE DEF f
<1>4. L[f].data \in Data /\ ReadOnce(f, L[f])
  BY <1>1, <1>2, <1>3 DEF IsList, Entries
<1>5. f \in DOMAIN Disk /\ Catalog[f] # Unknown
  BY <1>1, <1>3, <1>4 DEF ReadOnce
<1>6. Act \in Indices
  BY <1>1, <1>3, <1>5 DEF Indices
<1> QED
  BY <1>1, <1>2, <1>3, <1>4, <1>5, <1>6 DEF f

\* The converter that is used, old or new.
LEMMA CurrentIs ==
  ASSUME InOrder, Rest, pc = "translate"
  PROVE  LET data == Current(This.data, Binding(call.domainname))
         IN  /\ data \in Data /\ data.codeset_cntr = Counter(Binding(call.domainname))
             /\ data.conv = NULL => data.conv_tab = NULL
             /\ data = This.data \/ (data = _nl_init_domain_conv(Catalog[FileAt(cnt)], Binding(call.domainname))
                                     /\ data.conv_tab = NULL)
<1> DEFINE old == This.data
           b == Binding(call.domainname)
           new == _nl_init_domain_conv(Catalog[FileAt(cnt)], b)
<1>1. old \in Data /\ (old.conv = NULL => old.conv_tab = NULL) /\ call.domainname \in Domains
  BY AtFile DEF ReadOnce
<1>2. new \in Data /\ new.conv_tab = NULL /\ new.codeset_cntr = Counter(b)
  BY <1>1, NewConverter
<1>3. Current(old, b) = IF old.codeset_cntr = Counter(b) THEN old ELSE new
  BY DEF Current
<1> HIDE DEF old, new, b
<1> QED
  BY <1>1, <1>2, <1>3 DEF old, new, b

\* What is known of the file of a translation is written anew.
LEMMA SetDataRest ==
  ASSUME Rest, pc \in {"translate", "convert"}, NEW data \in Data,
         data.conv = NULL => data.conv_tab = NULL, SetData(data),
         pc' \in {"convert", "found"},
         pc' = "convert" => data.conv # NULL /\ data.conv_tab \in Tables,
         UNCHANGED <<environment, bindings, aliases, root, lookup, ops>>,
         UNCHANGED failures \/ Fails,
         pc' = "found" => retval'.file = FileAt(cnt)
  PROVE  /\ Rest' /\ FileAt(cnt)' = FileAt(cnt) /\ DOMAIN _nl_loaded_domains' = DOMAIN _nl_loaded_domains
         /\ _nl_loaded_domains'[FileAt(cnt)].data = data
         /\ \A g \in DOMAIN _nl_loaded_domains : g # FileAt(cnt) =>
              _nl_loaded_domains'[g] = _nl_loaded_domains[g]
<1> DEFINE f == FileAt(cnt)
           L == _nl_loaded_domains
           K == L'
<1>1. /\ IsList(L) /\ cnt \in 0..LastFile /\ f \in DOMAIN L /\ This = L[f]
      /\ L[f] \in Entries /\ L[f].data # NULL /\ ReadOnce(f, L[f])
      /\ Act = Catalog[f].index[call.msgid] /\ Act # NotFound
  BY AtFile
<1>2. K = [L EXCEPT ![f].data = data]
  BY DEF SetData
<1>3. data # NULL
  BY PointersAssumption
<1>4. domain \in DOMAIN L /\ domain.file = MoFile(call.domainname)
  BY DEF Rest, Position, InList
<1> HIDE DEF f
<1>5. /\ K[f] = [L[f] EXCEPT !.data = data] /\ DOMAIN K = DOMAIN L
      /\ \A g \in DOMAIN L : g # f => K[g] = L[g]
      /\ K = [g \in DOMAIN L |-> K[g]]
  BY <1>1, <1>2 DEF IsList
<1>6. /\ K[f] \in Entries /\ K[f].data = data /\ K[f].successor = L[f].successor
      /\ K[f].decided = L[f].decided
  <2> DEFINE e == L[f]
  <2> HIDE DEF e
  <2>1. e \in Entries /\ K[f] = [e EXCEPT !.data = data]
    BY <1>1, <1>5 DEF e
  <2> QED
    BY <2>1 DEF Entries, e
<1>7. ReadOnce(f, K[f])
  BY <1>1, <1>6 DEF ReadOnce
<1> HIDE DEF K
<1>8. K \in [DOMAIN L -> Entries]
  BY <1>1, <1>5, <1>6 DEF IsList
<1>9. \A g \in DOMAIN L : /\ K[g].successor = L[g].successor /\ ReadOnce(g, K[g])
                          /\ L[g].data # NULL => K[g].data # NULL
  BY <1>1, <1>3, <1>5, <1>6, <1>7 DEF IsList
<1>10. IsList(K)
  BY <1>1, <1>8, <1>9, Reshaped
<1>11. LastFile' = LastFile /\ \A k : FileAt(k)' = FileAt(k)
  BY <1>4, <1>9, SamePlace DEF K, lookup
<1>12. Surroundings' /\ Calling'
  <2>1. Surroundings'
    BY CountersGrow DEF Rest, Surroundings, environment, bindings, aliases, Fails
  <2> QED
    BY <2>1 DEF Rest, Calling, InList, lookup
<1>13. FileAt(cnt)' = f /\ UNCHANGED <<call, cnt, domain>>
  BY <1>11 DEF f, lookup
<1>14. Position'
  <2>1. This' = K[f] /\ Act' = Act
    BY <1>1, <1>13 DEF This, Act, K
  <2> QED
    BY <1>1, <1>3, <1>4, <1>5, <1>6, <1>11, <1>13, <2>1 DEF Position, K
<1>15. Known'
  <2>1. \A g : IsLoaded(g) => IsLoaded(g)'
    BY <1>5, <1>9 DEF IsLoaded, K
  <2>2. pc' = "found" => IsLoaded(retval.file)'
    BY <1>1, <1>3, <1>5, <1>6 DEF IsLoaded, K, f
  <2> QED
    BY <2>1, <2>2 DEF Rest, Known, bindings
<1> QED
  BY <1>5, <1>6, <1>10, <1>12, <1>13, <1>14, <1>15 DEF Rest, K, f

LEMMA EmptyTable == <<>> \in Tables
<1>1. <<>> \in [{} -> Strings] /\ {} \in SUBSET Indices
  OBVIOUS
<1> QED
  BY <1>1 DEF Tables

LEMMA TableIs ==
  ASSUME NEW t \in Tables
  PROVE  /\ t # NULL /\ t # NoTable /\ DOMAIN t \subseteq Indices
         /\ t = [i \in DOMAIN t |-> t[i]] /\ \A i \in DOMAIN t : t[i] \in Strings
<1>1. PICK places \in SUBSET Indices : t \in [places -> Strings]
  BY DEF Tables
<1>2. {NULL, NoTable} \cap [places -> Strings] = {}
  BY PointersAssumption
<1> QED
  BY <1>1, <1>2

\* FindMsg, case by case: data is what is known of the file with its current converter,
\* tab the table of its converted strings afterwards.
FindMsgDoes(data, tab) ==
    LET charset == Catalog[FileAt(cnt)].charset
    IN  \/ /\ data.conv = NULL \/ data.conv_tab = NoTable
           /\ tab = data.conv_tab /\ Found(charset, NULL) /\ UNCHANGED <<pool, failures>>
        \/ /\ data.conv # NULL /\ Fails
           /\ tab = NoTable /\ Found(charset, NULL) /\ UNCHANGED pool
        \/ /\ data.conv # NULL /\ data.conv_tab \in Tables /\ Act \in DOMAIN data.conv_tab
           /\ tab = data.conv_tab /\ Found(data.conv, data.conv_tab[Act]) /\ UNCHANGED <<pool, failures>>
        \/ /\ data.conv # NULL /\ tab \in Tables /\ tab \in {<<>>, data.conv_tab}
           /\ BeginConversion(OutLength[call.msgid]) /\ pc' = "convert" /\ UNCHANGED <<retval, failures>>

LEMMA FindMsgCases ==
  ASSUME InOrder, Rest, FindMsg
  PROVE  /\ pc = "translate"
         /\ UNCHANGED <<environment, bindings, aliases, root, lookup, answer, ops>>
         /\ LET data == Current(This.data, Binding(call.domainname))
            IN  \E tab : /\ tab \in {NULL, NoTable} \cup Tables /\ (data.conv = NULL => tab = NULL)
                         /\ SetData([data EXCEPT !.conv_tab = tab])
                         /\ FindMsgDoes(data, tab)
<1> DEFINE data == Current(This.data, Binding(call.domainname))
           Update(tab) == SetData([data EXCEPT !.conv_tab = tab])
<1>1. /\ pc = "translate"
      /\ UNCHANGED <<environment, bindings, aliases, root, lookup, answer, ops>>
  BY DEF FindMsg
<1>2. data \in Data /\ (data.conv = NULL => data.conv_tab = NULL)
  BY <1>1, CurrentIs
<1>3. data.conv_tab \in {NULL, NoTable} \cup Tables
  BY <1>2 DEF Data
<1>4. \/ /\ data.conv = NULL \/ data.conv_tab = NoTable
         /\ Update(data.conv_tab) /\ Found(Catalog[FileAt(cnt)].charset, NULL)
         /\ UNCHANGED <<pool, failures>>
      \/ /\ data.conv # NULL /\ data.conv_tab = NULL /\ Fails
         /\ Update(NoTable) /\ Found(Catalog[FileAt(cnt)].charset, NULL)
         /\ UNCHANGED pool
      \/ /\ data.conv # NULL /\ data.conv_tab \notin {NULL, NoTable}
         /\ Act \in DOMAIN data.conv_tab
         /\ Update(data.conv_tab) /\ Found(data.conv, data.conv_tab[Act])
         /\ UNCHANGED <<pool, failures>>
      \/ /\ data.conv # NULL /\ data.conv_tab # NoTable
         /\ Update(IF data.conv_tab = NULL THEN <<>> ELSE data.conv_tab)
         /\ BeginConversion(OutLength[call.msgid])
         /\ pc' = "convert" /\ UNCHANGED <<retval, failures>>
  BY DEF FindMsg
<1> HIDE DEF data
<1> DEFINE Goal(tab) == /\ tab \in {NULL, NoTable} \cup Tables /\ (data.conv = NULL => tab = NULL)
                        /\ Update(tab) /\ FindMsgDoes(data, tab)
<1>5. CASE /\ data.conv = NULL \/ data.conv_tab = NoTable
           /\ Update(data.conv_tab) /\ Found(Catalog[FileAt(cnt)].charset, NULL)
           /\ UNCHANGED <<pool, failures>>
  <2>1. Goal(data.conv_tab)
    BY <1>2, <1>3, <1>5 DEF FindMsgDoes
  <2> QED  BY <1>1, <2>1 DEF data
<1>6. CASE /\ data.conv # NULL /\ data.conv_tab = NULL /\ Fails
           /\ Update(NoTable) /\ Found(Catalog[FileAt(cnt)].charset, NULL)
           /\ UNCHANGED pool
  <2>1. Goal(NoTable)
    BY <1>6 DEF FindMsgDoes
  <2> QED  BY <1>1, <2>1 DEF data
<1>7. CASE /\ data.conv # NULL /\ data.conv_tab \notin {NULL, NoTable}
           /\ Act \in DOMAIN data.conv_tab
           /\ Update(data.conv_tab) /\ Found(data.conv, data.conv_tab[Act])
           /\ UNCHANGED <<pool, failures>>
  <2>1. Goal(data.conv_tab)
    BY <1>3, <1>7 DEF FindMsgDoes
  <2> QED  BY <1>1, <2>1 DEF data
<1>8. CASE /\ data.conv # NULL /\ data.conv_tab # NoTable
           /\ Update(IF data.conv_tab = NULL THEN <<>> ELSE data.conv_tab)
           /\ BeginConversion(OutLength[call.msgid])
           /\ pc' = "convert" /\ UNCHANGED <<retval, failures>>
  <2> DEFINE tab == IF data.conv_tab = NULL THEN <<>> ELSE data.conv_tab
  <2>1. tab \in Tables /\ tab \in {<<>>, data.conv_tab}
    BY <1>3, <1>8, EmptyTable
  <2> HIDE DEF tab
  <2>2. Goal(tab)
    BY <1>8, <2>1 DEF FindMsgDoes, tab
  <2> QED  BY <1>1, <2>2 DEF data
<1> QED
  BY <1>4, <1>5, <1>6, <1>7, <1>8

LEMMA WithTable ==
  ASSUME NEW data \in Data, NEW tab \in {NULL, NoTable} \cup Tables
  PROVE  LET new == [data EXCEPT !.conv_tab = tab]
         IN  /\ new \in Data /\ new.conv_tab = tab /\ new.conv = data.conv
             /\ new.codeset_cntr = data.codeset_cntr
BY DEF Data

LEMMA FindMsgRest ==
  ASSUME InOrder, Rest, FindMsg
  PROVE  Rest'
<1> DEFINE data == Current(This.data, Binding(call.domainname))
<1>1. PICK tab : /\ tab \in {NULL, NoTable} \cup Tables /\ (data.conv = NULL => tab = NULL)
                 /\ SetData([data EXCEPT !.conv_tab = tab])
                 /\ FindMsgDoes(data, tab)
  BY FindMsgCases
<1>2. pc = "translate" /\ UNCHANGED <<environment, bindings, aliases, root, lookup, ops>>
  BY FindMsgCases
<1>3. data \in Data
  BY <1>2, CurrentIs
<1>4. tab \in {NULL, NoTable} \cup Tables /\ (data.conv = NULL => tab = NULL)
  BY <1>1
<1>5. SetData([data EXCEPT !.conv_tab = tab])
  BY <1>1
<1> HIDE DEF data
<1>6. FindMsgDoes(data, tab)
  BY <1>1
<1>7. /\ UNCHANGED failures \/ Fails
      /\ pc' \in {"convert", "found"}
      /\ pc' = "convert" => data.conv # NULL /\ tab \in Tables
      /\ pc' = "found" => retval'.file = FileAt(cnt)
  BY <1>6 DEF FindMsgDoes, Found
<1> DEFINE new == [data EXCEPT !.conv_tab = tab]
<1>8. new \in Data /\ new.conv_tab = tab /\ new.conv = data.conv
  BY <1>3, <1>4 DEF Data
<1>9. SetData(new)
  BY <1>5
<1> HIDE DEF new
<1>10. /\ new.conv = NULL => new.conv_tab = NULL
       /\ pc' = "convert" => new.conv # NULL /\ new.conv_tab \in Tables
       /\ pc \in {"translate", "convert"}
  BY <1>2, <1>4, <1>7, <1>8
<1>11. UNCHANGED <<environment, bindings, aliases, root, lookup, ops>>
  BY <1>2
<1> QED
  BY <1>7, <1>8, <1>9, <1>10, <1>11, SetDataRest

\* What conversion stores is put into the table.
LEMMA TableGrows ==
  ASSUME NEW t \in Tables, NEW i \in Indices, NEW s \in Strings
  PROVE  LET new == Over([act \in {i} |-> s], t)
         IN  /\ new \in Tables /\ DOMAIN new = DOMAIN t \cup {i}
             /\ new[i] = s /\ \A j \in DOMAIN t : j # i => new[j] = t[j]
<1> DEFINE new == Over([act \in {i} |-> s], t)
<1>1. DOMAIN t \subseteq Indices /\ \A j \in DOMAIN t : t[j] \in Strings
  BY TableIs
<1>2. /\ new = [j \in DOMAIN t \cup {i} |-> IF j \in {i} THEN s ELSE t[j]]
  BY DEF Over
<1>3. new \in [DOMAIN t \cup {i} -> Strings]
  BY <1>1, <1>2
<1> HIDE DEF new
<1>4. new \in Tables
  BY <1>1, <1>3 DEF Tables
<1> QED
  BY <1>2, <1>4 DEF new

LEMMA ThisStringIs == PoolInv => ThisString \in Strings
BY PoolAssumption DEF PoolInv, PoolTypes, ThisString, Strings

LEMMA ConvertRest ==
  ASSUME PoolInv, Rest, Convert
  PROVE  Rest'
<1>1. pc = "convert" /\ UNCHANGED <<environment, bindings, aliases, root, lookup, ops>>
  BY DEF Convert
<1> DEFINE data == This.data
           f == FileAt(cnt)
           L == _nl_loaded_domains
<1>2. /\ f \in DOMAIN L /\ This = L[f] /\ data \in Data /\ Act \in Indices
      /\ data.conv # NULL /\ data.conv_tab \in Tables /\ data # NULL
  BY <1>1, AtFile DEF Rest, Position
<1> HIDE DEF data
<1>3. CASE /\ SetData([data EXCEPT !.conv_tab = Over([act \in {Act} |-> ThisString], @)])
           /\ Found(data.conv, ThisString) /\ UNCHANGED failures
  <2> DEFINE tab == Over([act \in {Act} |-> ThisString], data.conv_tab)
             new == [data EXCEPT !.conv_tab = tab]
  <2>1. tab \in Tables
    <3> DEFINE t == data.conv_tab
               s == ThisString
               i == Act
    <3>1. t \in Tables /\ s \in Strings /\ i \in Indices
      BY <1>2, ThisStringIs
    <3> HIDE DEF t, s, i
    <3>2. Over([act \in {i} |-> s], t) \in Tables
      BY <3>1, TableGrows
    <3> QED
      BY <3>2 DEF t, s, i
  <2>2. SetData(new)
    BY <1>3
  <2> HIDE DEF tab
  <2>3. new \in Data /\ new.conv_tab = tab /\ new.conv = data.conv
    BY <1>2, <2>1, WithTable
  <2> HIDE DEF new
  <2>4. pc' = "found" /\ retval'.file = FileAt(cnt)
    BY <1>3 DEF Found
  <2> QED
    BY <1>1, <1>2, <1>3, <2>1, <2>2, <2>3, <2>4, SetDataRest
<1>4. CASE Fails /\ Found(Catalog[f].charset, NULL) /\ UNCHANGED L
  <2>1. pc' = "found" /\ retval'.file = f
    BY <1>4 DEF Found
  <2>2. Surroundings' /\ IsList(L)' /\ \A g : IsLoaded(g)' <=> IsLoaded(g)
    BY <1>1, <1>4, Elsewhere
  <2>3. Calling'
    BY <1>1, <2>1 DEF Rest, Calling, lookup
  <2>4. Position'
    BY <2>1 DEF Position, InList
  <2>5. IsLoaded(f)
    BY <1>2 DEF IsLoaded, data
  <2>6. Known'
    BY <1>1, <2>1, <2>2, <2>5 DEF Rest, Known, bindings
  <2> QED
    BY <2>2, <2>3, <2>4, <2>6 DEF Rest
<1>5. CASE UNCHANGED <<L, retval, pc, failures>>
  BY <1>1, <1>5, QuietStep DEF Rest, Surroundings, environment, bindings, aliases
<1> QED
  BY <1>3, <1>4, <1>5 DEF Convert, data

LEMMA RememberRest ==
  ASSUME Rest, Remember
  PROVE  Rest'
<1>1. /\ pc = "found" /\ pc' = "answered"
      /\ UNCHANGED <<environment, bindings, _nl_loaded_domains, aliases, categoryvalue, ops, call,
                     single_locale>>
      /\ UNCHANGED failures \/ Fails
  BY DEF Remember
<1> DEFINE key == Key(call)
           new == [counter |-> _nl_msg_cat_cntr, domain |-> retval.file, act |-> retval.act,
                   codeset |-> retval.codeset, place |-> retval.place]
<1>2. root' = Over([k \in {key} |-> new], root) \/ UNCHANGED root
  BY DEF Remember
<1>3. \A k \in DOMAIN root' : (k = key /\ root'[k] = new) \/ (k \in DOMAIN root /\ root'[k] = root[k])
  <2> HIDE DEF key, new
  <2> QED  BY <1>2 DEF Over
<1>4. new.domain = retval.file /\ new.counter = _nl_msg_cat_cntr
  OBVIOUS
<1> HIDE DEF key, new
<1>5. Surroundings' /\ \A f : IsLoaded(f)' <=> IsLoaded(f)
  <2>1. Surroundings'
    BY <1>1, CountersGrow DEF Rest, Surroundings, environment, bindings, aliases, Fails
  <2> QED
    BY <1>1, <2>1 DEF IsLoaded
<1>6. Known'
  BY <1>1, <1>3, <1>4, <1>5 DEF Rest, Known, Surroundings, bindings
<1>7. Calling'
  BY <1>1 DEF Rest, Calling
<1>8. Position'
  BY <1>1 DEF Position, InList
<1> QED
  BY <1>1, <1>5, <1>6, <1>7, <1>8 DEF Rest

LEMMA ReturnRest ==
  ASSUME Rest, Return
  PROVE  Rest'
<1>1. /\ pc' = "idle" /\ categoryvalue' = <<>>
      /\ UNCHANGED <<environment, bindings, _nl_loaded_domains, aliases, ops, root, failures>>
  BY DEF Return, history
<1>2. Surroundings' /\ IsList(_nl_loaded_domains)' /\ \A f : IsLoaded(f)' <=> IsLoaded(f)
  BY <1>1, Elsewhere
<1>3. Calling' /\ Position'
  BY <1>1 DEF Calling, Position, InList
<1>4. Known'
  BY <1>1, <1>2 DEF Rest, Known, bindings
<1> QED
  BY <1>2, <1>3, <1>4 DEF Rest

LEMMA StepRest ==
  ASSUME InOrder, PoolInv, Rest, [Next]_vars
  PROVE  Rest'
<1>1. CASE UNCHANGED vars
  <2>1. /\ UNCHANGED <<environment, bindings, aliases, ops, root, _nl_loaded_domains, failures>>
        /\ UNCHANGED <<pc, lookup, retval>>
    BY <1>1 DEF vars, history
  <2>2. Surroundings' /\ _nl_msg_cat_cntr <= _nl_msg_cat_cntr'
    BY <2>1 DEF Rest, Surroundings, environment, bindings, aliases
  <2> QED
    BY <2>1, <2>2, QuietStep
<1>2. ASSUME NEW d \in Domains, NEW dirname \in Dirnames, BINDTEXTDOMAIN(d, dirname) PROVE Rest'
  BY <1>2, BindRest DEF BINDTEXTDOMAIN
<1>3. ASSUME NEW d \in Domains, NEW codeset \in Codesets, BIND_TEXTDOMAIN_CODESET(d, codeset) PROVE Rest'
  BY <1>3, BindRest DEF BIND_TEXTDOMAIN_CODESET
<1>4. ASSUME NEW d \in Domains, TEXTDOMAIN(d) PROVE Rest'
  BY <1>4, TEXTDOMAINRest
<1>5. ASSUME NEW arguments \in Calls, DCIGETTEXT(arguments) PROVE Rest'
  BY <1>5, DCIGETTEXTRest
<1>6. CASE Step
  BY <1>6, NextLocaleRest, FindDomainRest, LoadRest, EndLoopRest, FindMsgRest, ConvertRest,
     RememberRest, ReturnRest DEF Step
<1> QED
  BY <1>1, <1>2, <1>3, <1>4, <1>5, <1>6, ChangeEnvironmentRest DEF Next

LEMMA StepListInv == ListInv /\ [Next]_vars => ListInv'
<1> SUFFICES ASSUME ListInv, [Next]_vars PROVE ListInv'
  OBVIOUS
<1>1. InOrder /\ PoolInv /\ Rest
  BY DEF ListInv, Rest
<1>2. KnownCall
  BY <1>1 DEF Rest, Calling, KnownCall
<1>3. PoolInv'
  BY <1>1, <1>2, StepKnown, Keeps
<1> QED
  BY <1>1, <1>3, StepInOrder, StepRest DEF ListInv, Rest

LEMMA InitListInv == Init => ListInv
<1> SUFFICES ASSUME Init PROVE ListInv
  OBVIOUS
<1>1. InOrder /\ PoolInv
  BY Start DEF Init, InOrder
<1>2. Surroundings
  BY DomainsAssumption, BoundAssumption, NamesAssumption DEF Init, Surroundings
<1>3. Calling /\ Position
  BY DEF Init, Calling, Position, InList
<1>4. IsList(_nl_loaded_domains) /\ Known
  BY DEF Init, IsList, Known
<1> QED
  BY <1>1, <1>2, <1>3, <1>4 DEF ListInv

\* The list of files is what _nl_make_l10nflist made it, closed and each file loaded once,
\* and a call is at a place of it: for all catalogs, families of names and calls.
THEOREM ListIsKept == Spec => []ListInv
<1> QED
  BY InitListInv, StepListInv, PTL DEF Spec

\* The types of the lookup: every entry falls back on entries, a loaded one is a file, and
\* the known translations are of files that are loaded.
THEOREM TypesHold == Spec => []TypeOK
<1>1. ListInv => TypeOK
  <2> SUFFICES ASSUME ListInv PROVE TypeOK
    OBVIOUS
  <2> DEFINE L == _nl_loaded_domains
  <2>1. /\ pc \in {"idle", "locale", "find", "load", "search", "translate", "convert", "found", "answered"}
        /\ _nl_current_default_domain \in Domains /\ _nl_msg_cat_cntr \in 0..MaxOps
    BY BoundAssumption DEF ListInv, Calling, InList, Surroundings
  <2>2. ASSUME NEW f \in DOMAIN L
        PROVE  /\ \A name \in ToSet(L[f].successor) : [f EXCEPT !.name = name] \in DOMAIN L
               /\ L[f].data # NULL => /\ f \in DOMAIN Disk
                                      /\ L[f].data.conv = NULL => L[f].data.conv_tab = NULL
    BY DEF ListInv, IsList, ReadOnce, ToSet
  <2>3. \A k \in DOMAIN root : L[root[k].domain].data # NULL /\ root[k].counter <= _nl_msg_cat_cntr
    BY DEF ListInv, Known, IsLoaded
  <2>4. pc \in {"load", "search", "translate", "convert"} => cnt \in 0..LastFile
    BY DEF ListInv, Position, InList
  <2> QED
    BY <2>1, <2>2, <2>3, <2>4 DEF TypeOK
<1> QED
  BY <1>1, ListIsKept, PTL

-------------------------------------------------------------------------------
(* What is handed out exists.  The table of a file's converted strings     *)
(* holds, for each message it has, a copy of its translation, known by its *)
(* length; what is found, and what is remembered, is the message that was  *)
(* asked for, with such a copy or in the file itself.  The strings S that  *)
(* were put into blocks are a parameter: they only become more.            *)

IsCopy(S, s, msgid) == s \in S /\ s.length = ALIGN + OutLength[msgid]
HoldsCopies(S, f, data) ==
    data.conv_tab \in Tables => \A act \in DOMAIN data.conv_tab :
                                   IsCopy(S, data.conv_tab[act], Catalog[f].messages[act + 1])
IsTranslation(S, file, act, msgid, place) ==
    /\ file \in DOMAIN Disk /\ Catalog[file] # Unknown
    /\ act = Catalog[file].index[msgid] /\ act # NotFound
    /\ place # NULL => IsCopy(S, place, msgid)
\* The variant of a translation is one of its strings.
IsVariant(file, act, variant) == variant < Catalog[file].variants[act + 1]

TablesHold == \A f \in DOMAIN _nl_loaded_domains :
                 _nl_loaded_domains[f].data # NULL => HoldsCopies(strings, f, _nl_loaded_domains[f].data)
RootHolds == \A k \in DOMAIN root :
                /\ k.msgid \in DOMAIN Hash
                /\ IsTranslation(strings, root[k].domain, root[k].act, k.msgid, root[k].place)
CallHolds == /\ pc = "convert" => converting /\ outlen = OutLength[call.msgid]
             /\ pc = "found" => IsTranslation(strings, retval.file, retval.act, call.msgid, retval.place)
             /\ pc = "answered" /\ answer.file # NULL =>
                  /\ IsTranslation(strings, answer.file, answer.act, call.msgid, answer.place)
                  /\ IsVariant(answer.file, answer.act, answer.variant)
Copies == TablesHold /\ RootHolds /\ CallHolds

LEMMA CopiesStay ==
  ASSUME NEW S, NEW T, S \subseteq T
  PROVE  /\ \A f, data : HoldsCopies(S, f, data) => HoldsCopies(T, f, data)
         /\ \A file, act, msgid, place :
              IsTranslation(S, file, act, msgid, place) => IsTranslation(T, file, act, msgid, place)
BY DEF HoldsCopies, IsTranslation, IsCopy

\* The table of a file with a new converter is not there yet.
LEMMA NoCopies ==
  ASSUME NEW S, NEW f, NEW data, data.conv_tab = NULL
  PROVE  HoldsCopies(S, f, data)
BY TableIs DEF HoldsCopies

LEMMA RootStays ==
  ASSUME RootHolds, strings \subseteq strings', root' = root
  PROVE  RootHolds'
BY CopiesStay DEF RootHolds

LEMMA TablesStay ==
  ASSUME InOrder, TablesHold, FilesRead, strings \subseteq strings'
  PROVE  TablesHold'
<1> DEFINE L == _nl_loaded_domains
<1> SUFFICES ASSUME NEW f \in DOMAIN L', L'[f].data # NULL PROVE HoldsCopies(strings', f, L'[f].data)
  BY DEF TablesHold
<1>1. CASE Remains(f)
  BY <1>1, CopiesStay DEF TablesHold, Remains
<1>2. CASE IsRead(f)
  <2>1. L'[f].data.conv_tab = NULL
    BY <1>2, NewConverter DEF IsRead
  <2> QED
    BY <2>1, NoCopies
<1> QED
  BY <1>1, <1>2 DEF FilesRead

\* A step that leaves the list and the strings alone.
LEMMA SameTables ==
  ASSUME TablesHold, UNCHANGED <<_nl_loaded_domains, strings>>
  PROVE  TablesHold'
BY DEF TablesHold

(* The number of the string is one of the translation's, whatever the header says. *)
LEMMA VariantExists ==
  ASSUME NEW file \in DOMAIN Disk, Catalog[file] # Unknown, NEW msgid \in DOMAIN Hash,
         NEW act, act = Catalog[file].index[msgid], act # NotFound,
         NEW c \in Calls, c.n # NULL
  PROVE  IsVariant(file, act, plural_lookup(Catalog[file], act, c.n))
<1> DEFINE catalog == Catalog[file]
           n == c.n
           eval == IF catalog.germanic THEN IF n = 1 THEN 0 ELSE 1 ELSE catalog.plural[n]
           index == IF eval >= catalog.nplurals THEN 0 ELSE eval
<1>1. catalog.variants[act + 1] \in Nat \ {0}
  BY IndexIsRight
<1>2. eval \in Nat
  BY FilesAssumption
<1>3. index \in Nat
  <2> HIDE DEF eval
  <2> QED  BY <1>2
<1>4. plural_lookup(catalog, act, n) = IF index >= catalog.variants[act + 1] THEN 0 ELSE index
  BY DEF plural_lookup
<1> HIDE DEF index
<1> QED
  BY <1>1, <1>3, <1>4 DEF IsVariant

\* An answer with a translation is one of its strings.
LEMMA AnswerHolds ==
  ASSUME NEW file, NEW act, NEW codeset, NEW place, NEW msgid \in DOMAIN Hash,
         \E c \in Calls : c.n = call'.n,
         IsTranslation(strings', file, act, msgid, place),
         Answer(file, act, codeset, place)
  PROVE  answer'.file # NULL =>
            /\ IsTranslation(strings', answer'.file, answer'.act, msgid, answer'.place)
            /\ IsVariant(answer'.file, answer'.act, answer'.variant)
<1> DEFINE n == call'.n
           variant == IF n = NULL THEN 0
                      ELSE IF file # NULL THEN plural_lookup(Catalog[file], act, n)
                      ELSE IF n = 1 THEN 0 ELSE 1
<1>1. answer' = [file |-> file, act |-> act, variant |-> variant, codeset |-> codeset, place |-> place]
  BY DEF Answer
<1> HIDE DEF n, variant
<1>2. answer'.file = file /\ answer'.act = act /\ answer'.place = place /\ answer'.variant = variant
  BY <1>1
<1>3. /\ file \in DOMAIN Disk /\ Catalog[file] # Unknown
      /\ act = Catalog[file].index[msgid] /\ act # NotFound
  BY DEF IsTranslation
<1>4. IsVariant(file, act, 0)
  <2>1. Catalog[file].variants[act + 1] \in Nat \ {0}
    BY <1>3, IndexIsRight
  <2> QED
    BY <2>1 DEF IsVariant
<1>5. n # NULL => IsVariant(file, act, plural_lookup(Catalog[file], act, n))
  BY <1>3, VariantExists DEF n
<1>6. file # NULL => IsVariant(file, act, variant)
  BY <1>4, <1>5 DEF variant
<1> QED
  BY <1>2, <1>6

\* A step outside of the calls.
LEMMA QuietCopies ==
  ASSUME Copies, UNCHANGED <<_nl_loaded_domains, root, pc, call, retval, answer, pool>>
  PROVE  Copies'
<1>1. UNCHANGED <<strings, converting, outlen>>
  BY DEF pool
<1> QED
  BY <1>1 DEF Copies, TablesHold, RootHolds, CallHolds

LEMMA DCIGETTEXTCopies ==
  ASSUME Rest, Copies, NEW arguments \in Calls, DCIGETTEXT(arguments)
  PROVE  Copies'
<1> DEFINE d == IF arguments.domainname = NULL THEN _nl_current_default_domain
                                               ELSE arguments.domainname
           c == [arguments EXCEPT !.domainname = d]
           k == root[Key(c)]
<1>1. /\ call' = c
      /\ UNCHANGED <<_nl_loaded_domains, root, strings>>
      /\ \/ /\ Key(c) \in DOMAIN root
            /\ Answer(k.domain, k.act, k.codeset, k.place) /\ pc' = "answered"
         \/ pc' = "locale"
         \/ Untranslated
  BY DEF DCIGETTEXT, pool
<1>2. /\ c.msgid \in DOMAIN Hash /\ c.n = arguments.n /\ Key(c).msgid = c.msgid
  <2>1. arguments \in [domainname : Domains \cup {NULL}, msgid : DOMAIN Hash, n : {NULL} \cup Nat]
    BY CallsAssumption
  <2> HIDE DEF d
  <2> QED
    BY <2>1 DEF Key
<1>3. TablesHold' /\ RootHolds'
  BY <1>1, SameTables, RootStays DEF Copies
<1> HIDE DEF c, k
<1>4. CallHolds'
  <2>1. CASE /\ Key(c) \in DOMAIN root
             /\ Answer(k.domain, k.act, k.codeset, k.place) /\ pc' = "answered"
    <3>1. IsTranslation(strings, k.domain, k.act, c.msgid, k.place)
      BY <1>2, <2>1 DEF Copies, RootHolds, k
    <3>2. IsTranslation(strings', k.domain, k.act, c.msgid, k.place) /\ \E b \in Calls : b.n = call'.n
      BY <1>1, <1>2, <3>1
    <3>3. answer'.file # NULL =>
             /\ IsTranslation(strings', answer'.file, answer'.act, c.msgid, answer'.place)
             /\ IsVariant(answer'.file, answer'.act, answer'.variant)
      BY <1>2, <2>1, <3>2, AnswerHolds
    <3> QED
      BY <1>1, <2>1, <3>3 DEF CallHolds
  <2>2. CASE pc' = "locale"
    BY <2>2 DEF CallHolds
  <2>3. CASE Untranslated
    BY <2>3 DEF CallHolds, Untranslated, Answer
  <2> QED
    BY <1>1, <2>1, <2>2, <2>3
<1> QED
  BY <1>3, <1>4 DEF Copies

LEMMA NextLocaleCopies ==
  ASSUME Copies, NextLocale
  PROVE  Copies'
<1>1. /\ UNCHANGED <<_nl_loaded_domains, root, strings>>
      /\ pc' \in {"find", "locale"} \/ Untranslated
  BY DEF NextLocale, pool
<1>2. CallHolds'
  BY <1>1 DEF CallHolds, Untranslated, Answer
<1> QED
  BY <1>1, <1>2, SameTables, RootStays DEF Copies

LEMMA FilesCopies ==
  ASSUME InOrder, Rest, Copies, FindDomain \/ Load \/ EndLoop
  PROVE  Copies'
<1>1. FilesRead
  BY FindDomainRest, LoadRest, EndLoopRest
<1>2. /\ UNCHANGED <<root, strings>>
      /\ pc' \in {"load", "search", "translate", "locale"}
  BY DEF FindDomain, Load, EndLoop, pool
<1>3. CallHolds'
  BY <1>2 DEF CallHolds
<1> QED
  BY <1>1, <1>2, <1>3, TablesStay, RootStays DEF Copies

\* What is known of a file is written anew, that of the others is not.
Rewritten(f, data) == /\ f \in DOMAIN _nl_loaded_domains
                      /\ DOMAIN _nl_loaded_domains' = DOMAIN _nl_loaded_domains
                      /\ _nl_loaded_domains'[f].data = data
                      /\ \A g \in DOMAIN _nl_loaded_domains : g # f => Remains(g)

LEMMA SetDataIs ==
  ASSUME Rest, pc \in {"translate", "convert"}, NEW data, SetData(data)
  PROVE  /\ Rewritten(FileAt(cnt), data)
         /\ \A g \in DOMAIN _nl_loaded_domains :
              _nl_loaded_domains'[g].successor = _nl_loaded_domains[g].successor
<1> DEFINE f == FileAt(cnt)
           L == _nl_loaded_domains
<1>1. IsList(L) /\ f \in DOMAIN L /\ L[f] \in Entries
  BY AtFile
<1>2. L' = [L EXCEPT ![f].data = data]
  BY DEF SetData
<1> HIDE DEF f
<1>3. L \in [DOMAIN L -> Entries]
  BY <1>1 DEF IsList
<1>4. L'[f] = [L[f] EXCEPT !.data = data] /\ DOMAIN L' = DOMAIN L /\ \A g \in DOMAIN L : g # f => L'[g] = L[g]
  BY <1>1, <1>2, <1>3
<1>5. L'[f].data = data /\ L'[f].successor = L[f].successor
  <2> DEFINE e == L[f]
  <2>1. e \in Entries /\ L'[f] = [e EXCEPT !.data = data]
    BY <1>1, <1>4
  <2> HIDE DEF e
  <2> QED
    BY <2>1 DEF Entries, e
<1>6. \A g \in DOMAIN L : L'[g].successor = L[g].successor
  BY <1>4, <1>5
<1> QED
  BY <1>1, <1>4, <1>5, <1>6 DEF Rewritten, Remains, f

LEMMA TablesRewritten ==
  ASSUME TablesHold, strings \subseteq strings', NEW f, NEW data,
         Rewritten(f, data), data # NULL => HoldsCopies(strings', f, data)
  PROVE  TablesHold'
<1> DEFINE L == _nl_loaded_domains
<1> SUFFICES ASSUME NEW g \in DOMAIN L', L'[g].data # NULL PROVE HoldsCopies(strings', g, L'[g].data)
  BY DEF TablesHold
<1>1. CASE g = f
  BY <1>1 DEF Rewritten
<1>2. CASE g # f
  BY <1>2, CopiesStay DEF Rewritten, Remains, TablesHold
<1> QED
  BY <1>1, <1>2

LEMMA FindMsgCopies ==
  ASSUME InOrder, Rest, Copies, FindMsg
  PROVE  Copies'
<1> DEFINE data == Current(This.data, Binding(call.domainname))
           f == FileAt(cnt)
<1>1. pc = "translate" /\ UNCHANGED <<root, call, cnt, domain>>
  BY FindMsgCases DEF lookup
<1>2. PICK tab : /\ tab \in {NULL, NoTable} \cup Tables
                 /\ SetData([data EXCEPT !.conv_tab = tab])
                 /\ FindMsgDoes(data, tab)
  BY FindMsgCases
<1>3. data \in Data /\ (data = This.data \/ data.conv_tab = NULL)
  BY <1>1, CurrentIs
<1>4. /\ f \in DOMAIN _nl_loaded_domains /\ This = _nl_loaded_domains[f]
      /\ f \in DOMAIN Disk /\ Catalog[f] # Unknown /\ This.data # NULL
      /\ call.msgid \in DOMAIN Hash /\ Act = Catalog[f].index[call.msgid] /\ Act # NotFound
  BY <1>1, AtFile
<1>5. FindMsgDoes(data, tab)
  BY <1>2
<1>6. SetData([data EXCEPT !.conv_tab = tab])
  BY <1>2
<1> DEFINE new == [data EXCEPT !.conv_tab = tab]
<1>7. new.conv_tab = tab
  BY <1>3 DEF Data
<1>8. HoldsCopies(strings, f, data)
  <2>1. CASE data = This.data
    BY <1>4, <2>1 DEF Copies, TablesHold
  <2>2. CASE data.conv_tab = NULL
    BY <2>2, NoCopies
  <2> QED
    BY <1>3, <2>1, <2>2
<1>9. Rewritten(f, new)
  BY <1>1, <1>6, SetDataIs
<1>10. UNCHANGED strings /\ \/ pc' = "convert" /\ converting' /\ outlen' = OutLength[call.msgid]
                            \/ pc' = "found"
  <2> HIDE DEF data
  <2> QED
    BY <1>5 DEF FindMsgDoes, Found, BeginConversion, pool
<1>11. tab \in {<<>>, NULL, NoTable, data.conv_tab}
  <2> HIDE DEF data
  <2> QED
    BY <1>2, <1>5 DEF FindMsgDoes
<1> HIDE DEF data
<1>12. HoldsCopies(strings', f, new)
  <2> HIDE DEF new
  <2>1. CASE tab = data.conv_tab
    BY <1>7, <1>8, <1>10, <2>1 DEF HoldsCopies
  <2>2. CASE tab \in {NULL, NoTable}
    BY <1>7, <2>2, TableIs DEF HoldsCopies
  <2>3. CASE tab = <<>>
    BY <1>7, <2>3 DEF HoldsCopies
  <2> QED
    BY <1>11, <2>1, <2>2, <2>3
<1> HIDE DEF new
<1>13. pc' = "found" => IsTranslation(strings', retval'.file, retval'.act, call'.msgid, retval'.place)
  <2>1. SUFFICES ASSUME pc' = "found"
        PROVE  IsTranslation(strings', retval'.file, retval'.act, call.msgid, retval'.place)
    BY <1>1
  <2>2. \/ Found(Catalog[f].charset, NULL)
        \/ data.conv_tab \in Tables /\ Act \in DOMAIN data.conv_tab /\ Found(data.conv, data.conv_tab[Act])
    BY <1>5, <2>1 DEF FindMsgDoes
  <2>3. CASE Found(Catalog[f].charset, NULL)
    BY <1>4, <2>3 DEF Found, IsTranslation
  <2>4. CASE data.conv_tab \in Tables /\ Act \in DOMAIN data.conv_tab /\ Found(data.conv, data.conv_tab[Act])
    <3> DEFINE s == data.conv_tab[Act]
    <3>1. Catalog[f].messages[Act + 1] = call.msgid
      BY <1>4, IndexIsRight
    <3>2. IsCopy(strings, s, call.msgid)
      BY <1>8, <2>4, <3>1 DEF HoldsCopies
    <3>3. /\ retval'.file = f /\ retval'.act = Act /\ retval'.place = s
      BY <2>4 DEF Found
    <3> HIDE DEF s
    <3> QED
      BY <1>4, <1>10, <3>2, <3>3 DEF IsTranslation
  <2> QED
    BY <2>2, <2>3, <2>4
<1>14. CallHolds'
  BY <1>1, <1>10, <1>13 DEF CallHolds
<1>15. TablesHold'
  BY <1>9, <1>10, <1>12, TablesRewritten DEF Copies
<1> QED
  BY <1>1, <1>10, <1>14, <1>15, RootStays DEF Copies

LEMMA ConvertCopies ==
  ASSUME PoolInv, Rest, Copies, Convert
  PROVE  Copies'
<1> DEFINE f == FileAt(cnt)
           data == This.data
<1>1. pc = "convert" /\ UNCHANGED <<root, call, cnt, domain>>
  BY DEF Convert, lookup
<1>2. /\ f \in DOMAIN _nl_loaded_domains /\ This = _nl_loaded_domains[f]
      /\ f \in DOMAIN Disk /\ Catalog[f] # Unknown /\ data # NULL /\ data \in Data
      /\ call.msgid \in DOMAIN Hash /\ Act = Catalog[f].index[call.msgid] /\ Act # NotFound
      /\ Act \in Indices
  BY <1>1, AtFile
<1>3. data.conv_tab \in Tables /\ outlen = OutLength[call.msgid] /\ HoldsCopies(strings, f, data)
  BY <1>1, <1>2 DEF Rest, Position, Copies, CallHolds, TablesHold
<1>4. Catalog[f].messages[Act + 1] = call.msgid
  BY <1>2, IndexIsRight
<1>5. CASE /\ Store
           /\ SetData([data EXCEPT !.conv_tab = Over([act \in {Act} |-> ThisString], @)])
           /\ Found(data.conv, ThisString)
  <2> DEFINE t == data.conv_tab
             s == ThisString
             i == Act
             tab == Over([act \in {i} |-> s], t)
             new == [data EXCEPT !.conv_tab = tab]
  <2>1. t \in Tables /\ s \in Strings /\ i \in Indices
    BY <1>2, <1>3, ThisStringIs
  <2>2. /\ strings' = strings \cup {s} /\ IsCopy(strings', s, call.msgid)
    BY <1>3, <1>5 DEF Store, ThisString, IsCopy
  <2>3. SetData(new)
    BY <1>5
  <2>4. new.conv_tab = tab
    BY <1>2 DEF Data
  <2>5. Rewritten(f, new)
    <3> HIDE DEF new
    <3> QED
      BY <1>1, <2>3, SetDataIs
  <2> HIDE DEF new
  <2>6. /\ retval'.file = f /\ retval'.act = i /\ retval'.place = s /\ pc' = "found"
    BY <1>5 DEF Found
  <2>7. HoldsCopies(strings, f, data) /\ Catalog[f].messages[i + 1] = call.msgid
    BY <1>3, <1>4
  <2> HIDE DEF t, s, i
  <2>8. /\ tab \in Tables /\ DOMAIN tab = DOMAIN t \cup {i}
        /\ tab[i] = s /\ \A j \in DOMAIN t : j # i => tab[j] = t[j]
    BY <2>1, TableGrows
  <2> HIDE DEF tab, data, f
  <2>9. \A j \in DOMAIN t : IsCopy(strings', t[j], Catalog[f].messages[j + 1])
    BY <2>1, <2>2, <2>7 DEF HoldsCopies, IsCopy, t
  <2>10. HoldsCopies(strings', f, new)
    BY <2>2, <2>4, <2>7, <2>8, <2>9 DEF HoldsCopies
  <2>11. TablesHold'
    BY <2>2, <2>5, <2>10, TablesRewritten DEF Copies
  <2>12. CallHolds'
    BY <1>1, <1>2, <2>2, <2>6 DEF CallHolds, IsTranslation, i
  <2> QED
    BY <1>1, <2>2, <2>11, <2>12, RootStays DEF Copies
<1>6. CASE /\ CannotConvert \/ NoMemory
           /\ Found(Catalog[f].charset, NULL) /\ UNCHANGED _nl_loaded_domains
  <2>1. UNCHANGED strings
    BY <1>6 DEF CannotConvert, NoMemory
  <2>2. CallHolds'
    BY <1>1, <1>2, <1>6 DEF CallHolds, Found, IsTranslation
  <2> QED
    BY <1>1, <1>6, <2>1, <2>2, SameTables, RootStays DEF Copies
<1>7. CASE Resize /\ UNCHANGED <<_nl_loaded_domains, retval, pc>>
  <2>1. UNCHANGED <<strings, outlen, converting>>
    BY <1>7 DEF Resize
  <2>2. CallHolds'
    BY <1>1, <1>7, <2>1 DEF Copies, CallHolds
  <2> QED
    BY <1>1, <1>7, <2>1, <2>2, SameTables, RootStays DEF Copies
<1> QED
  BY <1>5, <1>6, <1>7 DEF Convert

LEMMA RememberCopies ==
  ASSUME Rest, Copies, Remember
  PROVE  Copies'
<1> DEFINE key == Key(call)
           new == [counter |-> _nl_msg_cat_cntr, domain |-> retval.file, act |-> retval.act,
                   codeset |-> retval.codeset, place |-> retval.place]
<1>1. /\ pc = "found" /\ pc' = "answered" /\ call' = call
      /\ UNCHANGED <<_nl_loaded_domains, strings>>
      /\ root' = Over([k \in {key} |-> new], root) \/ UNCHANGED root
      /\ Answer(retval.file, retval.act, retval.codeset, retval.place)
  BY DEF Remember, pool
<1>2. /\ IsTranslation(strings, retval.file, retval.act, call.msgid, retval.place)
      /\ call.msgid \in DOMAIN Hash /\ \E c \in Calls : c.n = call.n
  BY <1>1 DEF Copies, CallHolds, Rest, Calling
<1>3. /\ key.msgid = call.msgid /\ new.domain = retval.file /\ new.act = retval.act
      /\ new.place = retval.place
  BY DEF Key
<1> HIDE DEF key, new
<1>4. \A k \in DOMAIN root' : (k = key /\ root'[k] = new) \/ (k \in DOMAIN root /\ root'[k] = root[k])
  BY <1>1 DEF Over
<1>5. RootHolds'
  BY <1>1, <1>2, <1>3, <1>4 DEF Copies, RootHolds
<1>6. answer'.file # NULL =>
        /\ IsTranslation(strings', answer'.file, answer'.act, call.msgid, answer'.place)
        /\ IsVariant(answer'.file, answer'.act, answer'.variant)
  <2>1. /\ IsTranslation(strings', retval.file, retval.act, call.msgid, retval.place)
        /\ \E c \in Calls : c.n = call'.n
    BY <1>1, <1>2
  <2> QED
    BY <1>1, <1>2, <2>1, AnswerHolds
<1>7. CallHolds'
  BY <1>1, <1>6 DEF CallHolds
<1> QED
  BY <1>1, <1>5, <1>7, SameTables DEF Copies

LEMMA ReturnCopies ==
  ASSUME Copies, Return
  PROVE  Copies'
<1>1. UNCHANGED <<_nl_loaded_domains, root, strings>> /\ pc' = "idle"
  BY DEF Return, pool
<1>2. CallHolds'
  BY <1>1 DEF CallHolds
<1> QED
  BY <1>1, <1>2, SameTables, RootStays DEF Copies

LEMMA StepCopies ==
  ASSUME ListInv, Copies, [Next]_vars
  PROVE  Copies'
<1>1. InOrder /\ PoolInv /\ Rest
  BY DEF ListInv, Rest
<1>2. CASE UNCHANGED vars
  BY <1>2, QuietCopies DEF vars, lookup
<1>3. ASSUME NEW d \in Domains, NEW dirname, NEW codeset, Rebind(d, dirname, codeset) \/ Bind(d, dirname, codeset)
      PROVE  Copies'
  <2>1. BindingUnchanged
    BY <1>3 DEF Rebind, Bind
  <2> QED
    BY <2>1, QuietCopies DEF BindingUnchanged, lookup
<1>4. ASSUME NEW d \in Domains, TEXTDOMAIN(d) PROVE Copies'
  BY <1>4, QuietCopies DEF TEXTDOMAIN, lookup
<1>5. CASE ChangeEnvironment
  BY <1>5, QuietCopies DEF ChangeEnvironment, lookup
<1>6. ASSUME NEW arguments \in Calls, DCIGETTEXT(arguments) PROVE Copies'
  BY <1>1, <1>6, DCIGETTEXTCopies
<1>7. CASE Step
  BY <1>1, <1>7, NextLocaleCopies, FilesCopies, FindMsgCopies, ConvertCopies, RememberCopies,
     ReturnCopies DEF Step
<1> QED
  BY <1>2, <1>3, <1>4, <1>5, <1>6, <1>7 DEF Next, BINDTEXTDOMAIN, BIND_TEXTDOMAIN_CODESET

\* What is handed out is the message that was asked for, in a variant that it has, and a
\* converted translation stays where it was put: for any catalogs as msgfmt writes them,
\* any bindings and any order of calls (_nl_find_msg, plural_lookup, dcigettext.c).
THEOREM TranslationsExist == Spec => []AnswerExists
<1>1. Init => Copies
  BY DEF Init, Copies, TablesHold, RootHolds, CallHolds
<1>2. ListInv /\ Copies /\ [Next]_vars => Copies'
  BY StepCopies
<1>3. ListInv /\ Copies => AnswerExists
  <2> SUFFICES ASSUME ListInv, Copies, pc = "answered", answer.file # NULL
      PROVE  /\ Catalog[answer.file].messages[answer.act + 1] = call.msgid
             /\ answer.variant < Catalog[answer.file].variants[answer.act + 1]
             /\ answer.place # NULL => /\ answer.place \in strings
                                       /\ answer.place.length = ALIGN + OutLength[call.msgid]
    BY DEF AnswerExists
  <2>1. /\ IsTranslation(strings, answer.file, answer.act, call.msgid, answer.place)
        /\ IsVariant(answer.file, answer.act, answer.variant)
        /\ call.msgid \in DOMAIN Hash
    BY DEF Copies, CallHolds, ListInv, Calling
  <2>2. Catalog[answer.file].messages[answer.act + 1] = call.msgid
    BY <2>1, IndexIsRight DEF IsTranslation
  <2> QED
    BY <2>1, <2>2 DEF IsTranslation, IsVariant, IsCopy
<1> QED
  BY <1>1, <1>2, <1>3, ListIsKept, PTL DEF Spec

-------------------------------------------------------------------------------
(* The codeset of what is handed out.  A converter carries the counter of  *)
(* the binding it was made for, a translation that is remembered the       *)
(* counter of all changes: where the counters are those of now, the        *)
(* codeset is the one that is bound now.                                   *)

Bound(b) == b # NULL /\ b.codeset # NULL
Converts(f, b) == [from |-> Catalog[f].charset, to |-> b.codeset] \in Convertible
Suits(conv, f, b) == Bound(b) => conv = IF Converts(f, b) THEN b.codeset ELSE NULL
InCodeset(codeset, f, b) ==
    Bound(b) => codeset = IF Converts(f, b) THEN b.codeset ELSE Catalog[f].charset
\* What is known of a file against the binding of its domain.
Fresh(f, data, b) == /\ data.codeset_cntr <= Counter(b)
                     /\ data.codeset_cntr = Counter(b) => Suits(data.conv, f, b)
\* A binding, and what becomes of it.
Newer(b, c) == /\ Counter(b) <= Counter(c)
               /\ Counter(b) = Counter(c) /\ Bound(c) => Bound(b) /\ c.codeset = b.codeset

ConvertersFresh ==
    \A f \in DOMAIN _nl_loaded_domains :
       LET data == _nl_loaded_domains[f].data
       IN  data # NULL => /\ \A d \in Domains : f.file = MoFile(d) => Fresh(f, data, Binding(d))
                          /\ data.conv_tab = NoTable => failures # 0
RootFresh == \A k \in DOMAIN root :
                /\ k.domainname \in Domains
                /\ failures = 0 /\ root[k].counter = _nl_msg_cat_cntr =>
                     InCodeset(root[k].codeset, root[k].domain, Binding(k.domainname))
CallFresh ==
    /\ pc = "convert" => This.data.codeset_cntr = Counter(Binding(call.domainname))
    /\ pc = "found" /\ failures = 0 =>
         InCodeset(retval.codeset, retval.file, Binding(call.domainname))
    /\ pc = "answered" /\ answer.file # NULL /\ failures = 0 =>
         InCodeset(answer.codeset, answer.file, Binding(call.domainname))
CodesetInv == ConvertersFresh /\ RootFresh /\ CallFresh

\* The search finds the binding that there is, or there is none.
SearchIsRight ==
    /\ \A d \in Domains :
         \/ \E i \in DOMAIN _nl_domain_bindings :
              _nl_domain_bindings[i].domainname = d /\ Binding(d) = _nl_domain_bindings[i]
         \/ /\ Binding(d) = NULL
            /\ \A i \in DOMAIN _nl_domain_bindings : _nl_domain_bindings[i].domainname # d
    /\ \A i \in DOMAIN _nl_domain_bindings :
         /\ _nl_domain_bindings[i] \in Bindings
         /\ Binding(_nl_domain_bindings[i].domainname) = _nl_domain_bindings[i]
         /\ BindingPlace(_nl_domain_bindings[i].domainname) = i

LEMMA SearchRight == InOrder => SearchIsRight
<1> SUFFICES ASSUME InOrder PROVE SearchIsRight
  OBVIOUS
<1>1. ASSUME NEW d \in Domains
      PROVE  \/ \E i \in DOMAIN _nl_domain_bindings :
                  _nl_domain_bindings[i].domainname = d /\ Binding(d) = _nl_domain_bindings[i]
             \/ /\ Binding(d) = NULL
                /\ \A i \in DOMAIN _nl_domain_bindings : _nl_domain_bindings[i].domainname # d
  <2>1. CASE \E i \in DOMAIN _nl_domain_bindings : _nl_domain_bindings[i].domainname = d
    BY <2>1, BoundIsFound
  <2>2. CASE \A i \in DOMAIN _nl_domain_bindings : _nl_domain_bindings[i].domainname # d
    BY <2>2, BindingIs
  <2> QED
    BY <2>1, <2>2
<1> QED
  BY <1>1, BoundIsFound, Ranks DEF SearchIsRight

LEMMA SearchRightNext == InOrder' => SearchIsRight'
BY SearchRight, PTL

LEMMA NewerThanItself ==
  ASSUME NEW b, b = NULL \/ b \in Bindings
  PROVE  Newer(b, b)
BY DEF Newer, Counter, Bindings

LEMMA SameIsNewer ==
  ASSUME InOrder, UNCHANGED _nl_domain_bindings, NEW d \in Domains
  PROVE  Binding(d)' = Binding(d) /\ Newer(Binding(d), Binding(d)')
<1>1. Binding(d)' = Binding(d)
  BY DEF Binding, BindingPlace
<1>2. Newer(Binding(d), Binding(d))
  BY BindingIs, NewerThanItself
<1> QED
  BY <1>1, <1>2

LEMMA RebindNewer ==
  ASSUME InOrder, NEW d \in Domains, NEW dirname \in Dirnames \cup {NULL},
         NEW codeset \in Codesets \cup {NULL}, Rebind(d, dirname, codeset), NEW e \in Domains
  PROVE  Newer(Binding(e), Binding(e)')
<1> DEFINE nb == _nl_domain_bindings
           p == BindingPlace(d)
           b == Binding(d)
           x == IF dirname = NULL THEN b.dirname ELSE dirname
           y == IF codeset = NULL THEN b.codeset ELSE codeset
           z == IF codeset \in {NULL, b.codeset} THEN b.codeset_cntr ELSE b.codeset_cntr + 1
           new == [b EXCEPT !.dirname = x, !.codeset = y, !.codeset_cntr = z]
           old == Binding(e)
           next == Binding(e)'
<1>1. b # NULL /\ (nb' = [nb EXCEPT ![p] = new] \/ UNCHANGED nb)
  BY DEF Rebind
<1>2. p \in DOMAIN nb /\ b = nb[p] /\ b \in Bindings /\ b.domainname = d
  BY <1>1, BindingIs
<1>3. SearchIsRight /\ SearchIsRight'
  BY RebindKeeps, SearchRight, SearchRightNext
<1>4. nb \in Seq(Bindings)
  BY DEF InOrder
<1>5. \/ \E i \in DOMAIN nb : nb[i].domainname = e /\ old = nb[i]
      \/ old = NULL /\ (\A j \in DOMAIN nb : nb[j].domainname # e)
  BY <1>3 DEF SearchIsRight
<1>6. \/ \E i \in DOMAIN nb' : nb'[i].domainname = e /\ next = nb'[i]
      \/ next = NULL /\ (\A j \in DOMAIN nb' : nb'[j].domainname # e)
  BY <1>3 DEF SearchIsRight
<1>7. CASE UNCHANGED nb
  BY <1>7, SameIsNewer
<1>8. CASE nb' = [nb EXCEPT ![p] = new]
  <2>1. new.domainname = d /\ new.codeset = y /\ new.codeset_cntr = z
    <3> HIDE DEF x, y, z, b
    <3> QED  BY <1>2 DEF Bindings
  <2> HIDE DEF new, p, b, x, y, z
  <2>3. DOMAIN nb' = DOMAIN nb /\ nb'[p] = new /\ \A j \in DOMAIN nb : j # p => nb'[j] = nb[j]
    BY <1>2, <1>4, <1>8
  <2>4. ASSUME NEW i \in DOMAIN nb, NEW j \in DOMAIN nb, nb[i].domainname = nb[j].domainname PROVE i = j
    BY <1>3, <2>4 DEF SearchIsRight
  <2>5. ASSUME NEW i \in DOMAIN nb', NEW j \in DOMAIN nb', nb'[i].domainname = nb'[j].domainname PROVE i = j
    BY <1>3, <2>5 DEF SearchIsRight
  <2>2. Newer(b, new)
    <3>1. new \in Bindings
      BY <1>2, <1>3, <2>3 DEF SearchIsRight
    <3>2. /\ b # NULL /\ new # NULL
          /\ b.codeset_cntr \in Nat /\ Counter(b) = b.codeset_cntr /\ Counter(new) = z
      BY <1>1, <1>2, <2>1, <3>1, BindingAssumption DEF Bindings, Counter
    <3>3. \/ z = b.codeset_cntr /\ y = b.codeset
          \/ z = b.codeset_cntr + 1
      BY DEF y, z
    <3> QED
      BY <2>1, <3>2, <3>3 DEF Newer, Bound
  <2>6. CASE e = d
    <3>1. old = b
      BY <2>6 DEF b
    <3>2. next = new
      BY <1>2, <1>6, <2>1, <2>3, <2>5, <2>6
    <3> QED
      BY <2>2, <3>1, <3>2
  <2>7. CASE e # d
    <3>1. next = old
      BY <1>2, <1>5, <1>6, <2>1, <2>3, <2>5, <2>7
    <3> QED
      BY <3>1, BindingIs, NewerThanItself
  <2> QED
    BY <2>6, <2>7
<1> QED
  BY <1>1, <1>7, <1>8

LEMMA BindNewer ==
  ASSUME InOrder, NEW d \in Domains, NEW dirname \in Dirnames \cup {NULL},
         NEW codeset \in Codesets \cup {NULL}, Bind(d, dirname, codeset), NEW e \in Domains
  PROVE  Newer(Binding(e), Binding(e)')
<1> DEFINE nb == _nl_domain_bindings
           p == InsertPlace(d)
           n == Len(nb)
           x == IF dirname = NULL THEN LOCALEDIR ELSE dirname
           z == IF codeset = NULL THEN 0 ELSE 1
           new == [domainname |-> d, dirname |-> x, codeset |-> codeset, codeset_cntr |-> z]
           old == Binding(e)
           next == Binding(e)'
<1>1. Binding(d) = NULL /\ (nb' = InsertAt(nb, p, new) \/ UNCHANGED nb)
  BY DEF Bind
<1>2. SearchIsRight /\ SearchIsRight'
  BY BindKeeps, SearchRight, SearchRightNext
<1>3. /\ new.domainname = d /\ new.codeset = codeset /\ new.codeset_cntr = z /\ new \in Bindings
  BY DEF Bindings
<1>4. nb \in Seq(Bindings) /\ n \in Nat /\ DOMAIN nb = 1..n /\ p \in 1..(n + 1)
  BY <1>1, Place DEF InOrder
<1>5. \/ \E i \in DOMAIN nb : nb[i].domainname = e /\ old = nb[i]
      \/ old = NULL /\ (\A j \in DOMAIN nb : nb[j].domainname # e)
  BY <1>2 DEF SearchIsRight
<1>6. \/ \E i \in DOMAIN nb' : nb'[i].domainname = e /\ next = nb'[i]
      \/ next = NULL /\ (\A j \in DOMAIN nb' : nb'[j].domainname # e)
  BY <1>2 DEF SearchIsRight
<1>7. CASE UNCHANGED nb
  BY <1>7, SameIsNewer
<1>8. CASE nb' = InsertAt(nb, p, new)
  <2> DEFINE t == InsertAt(nb, p, new)
  <2> HIDE DEF new, p
  <2>1. DOMAIN t = 1..(n + 1)
    BY <1>3, <1>4, Insertion
  <2>2. t[p] = new
    BY <1>3, <1>4, Insertion
  <2>3. \A j \in 1..(p - 1) : t[j] = nb[j]
    BY <1>3, <1>4, Insertion
  <2>4. \A j \in (p + 1)..(n + 1) : t[j] = nb[j - 1]
    BY <1>3, <1>4, Insertion
  <2> HIDE DEF t, n
  <2>5. \A i \in DOMAIN t : i = p \/ \E j \in DOMAIN nb : t[i] = nb[j]
    <3> SUFFICES ASSUME NEW i \in DOMAIN t, i # p PROVE \E j \in DOMAIN nb : t[i] = nb[j]
      OBVIOUS
    <3>1. CASE i < p
      <4>1. i \in DOMAIN nb /\ i \in 1..(p - 1)
        BY <1>4, <2>1, <3>1
      <4> QED
        BY <2>3, <4>1
    <3>2. CASE i > p
      <4>1. i - 1 \in DOMAIN nb /\ i \in (p + 1)..(n + 1)
        BY <1>4, <2>1, <3>2
      <4> QED
        BY <2>4, <4>1
    <3> QED
      BY <1>4, <2>1, <3>1, <3>2
  <2>6. \A j \in DOMAIN nb : \E i \in DOMAIN t : i # p /\ t[i] = nb[j]
    <3> SUFFICES ASSUME NEW j \in DOMAIN nb PROVE \E i \in DOMAIN t : i # p /\ t[i] = nb[j]
      OBVIOUS
    <3>1. CASE j < p
      <4>1. j \in DOMAIN t /\ j \in 1..(p - 1) /\ j # p
        BY <1>4, <2>1, <3>1
      <4> QED
        BY <2>3, <4>1
    <3>2. CASE j >= p
      <4>1. j + 1 \in DOMAIN t /\ j + 1 \in (p + 1)..(n + 1) /\ j + 1 # p /\ (j + 1) - 1 = j
        BY <1>4, <2>1, <3>2
      <4> QED
        BY <2>4, <4>1
    <3> QED
      BY <1>4, <3>1, <3>2
  <2>7. nb' = t /\ p \in DOMAIN t
    BY <1>4, <1>8, <2>1 DEF t
  <2>8. \A j \in DOMAIN nb : nb[j].domainname # d
    <3> SUFFICES ASSUME NEW j \in DOMAIN nb, nb[j].domainname = d PROVE FALSE
      OBVIOUS
    <3>1. nb[j] = NULL /\ nb[j] \in Bindings
      BY <1>1, <1>2 DEF SearchIsRight
    <3> QED
      BY <3>1, BindingAssumption DEF Bindings
  <2>9. CASE e = d
    <3>1. old = NULL
      BY <1>1, <2>9
    <3>2. next = new
      BY <1>3, <1>6, <2>2, <2>5, <2>7, <2>8, <2>9
    <3>3. new # NULL
      BY <1>3, BindingAssumption DEF Bindings
    <3>4. z \in {0, 1} /\ (z = 0 => codeset = NULL)
      OBVIOUS
    <3> HIDE DEF z
    <3>5. Newer(NULL, new)
      BY <1>3, <3>3, <3>4 DEF Newer, Counter, Bound
    <3> QED
      BY <3>1, <3>2, <3>5
  <2>10. CASE e # d
    <3>1. next = old
      <4>1. CASE old = NULL /\ (\A j \in DOMAIN nb : nb[j].domainname # e)
        BY <1>3, <1>6, <2>2, <2>5, <2>7, <2>10, <4>1
      <4>2. CASE \E i \in DOMAIN nb : nb[i].domainname = e /\ old = nb[i]
        <5>1. PICK i \in DOMAIN nb : nb[i].domainname = e /\ old = nb[i]
          BY <4>2
        <5>2. PICK j \in DOMAIN t : t[j] = nb[i]
          BY <2>6
        <5>3. PICK m \in DOMAIN t : t[m].domainname = e /\ next = t[m]
          BY <1>6, <2>7, <5>1, <5>2
        <5>4. m = j
          BY <1>2, <2>7, <5>1, <5>2, <5>3 DEF SearchIsRight
        <5> QED
          BY <5>1, <5>2, <5>3, <5>4
      <4> QED
        BY <1>5, <4>1, <4>2
    <3> QED
      BY <3>1, BindingIs, NewerThanItself
  <2> QED
    BY <2>9, <2>10
<1> QED
  BY <1>1, <1>7, <1>8

LEMMA FreshStays ==
  ASSUME NEW f, NEW data \in Data, NEW b, NEW c, Fresh(f, data, b), Newer(b, c),
         Counter(b) \in Nat, Counter(c) \in Nat
  PROVE  Fresh(f, data, c)
<1>1. data.codeset_cntr \in Nat
  BY DEF Data
<1> QED
  BY <1>1 DEF Fresh, Newer, Suits, Converts

CountersAreNumbers == \A d \in Domains : Counter(Binding(d)) \in Nat

LEMMA CounterIs == InOrder => CountersAreNumbers
<1> SUFFICES ASSUME InOrder, NEW d \in Domains PROVE Counter(Binding(d)) \in Nat
  BY DEF CountersAreNumbers
<1> DEFINE b == Binding(d)
<1>1. b = NULL \/ b \in Bindings
  BY BindingIs
<1> HIDE DEF b
<1>2. Counter(b) \in Nat
  BY <1>1 DEF Counter, Bindings
<1> QED
  BY <1>2 DEF b

LEMMA CounterIsNext == InOrder' => CountersAreNumbers'
BY CounterIs, PTL

\* A domain has files of its own.
LEMMA OwnFile ==
  ASSUME NEW c \in Domains, NEW d \in Domains, MoFile(c) = MoFile(d)
  PROVE  c = d
<1>1. MoFile(c)[2].text = c \o ".mo" /\ MoFile(d)[2].text = d \o ".mo"
  BY DEF MoFile, Token
<1> QED
  BY <1>1, DomainsAssumption

\* A new converter suits the binding it is made for.
LEMMA NewIsFresh ==
  ASSUME NEW f, NEW b, Counter(b) \in Nat
  PROVE  LET data == _nl_init_domain_conv(Catalog[f], b)
         IN  Fresh(f, data, b) /\ data.codeset_cntr = Counter(b) /\ data.conv_tab = NULL
<1> DEFINE from == Catalog[f].charset
           to == IF b # NULL /\ b.codeset # NULL THEN b.codeset ELSE env.charset
           conv == IF from # Unknown /\ [from |-> from, to |-> to] \in Convertible THEN to ELSE NULL
           data == _nl_init_domain_conv(Catalog[f], b)
<1>1. data = [codeset_cntr |-> Counter(b), conv |-> conv, conv_tab |-> NULL]
  BY DEF _nl_init_domain_conv
<1>2. Suits(conv, f, b)
  <2>1. [from |-> from, to |-> to] \in Convertible => from # Unknown
    <3> DEFINE c == [from |-> from, to |-> to]
    <3>1. c \in Convertible => c.from # Unknown
      BY ConvertersAssumption
    <3> HIDE DEF from, to
    <3> QED
      BY <3>1
  <2>2. Bound(b) => to = b.codeset
    BY DEF Bound
  <2> HIDE DEF to
  <2> QED
    BY <2>1, <2>2 DEF Suits, Converts
<1> HIDE DEF conv, data
<1> QED
  BY <1>1, <1>2 DEF Fresh, data

\* Steps that leave the list alone, whatever becomes of the bindings.
LEMMA ConvertersStay ==
  ASSUME Rest, ConvertersFresh, InOrder, InOrder', UNCHANGED _nl_loaded_domains,
         UNCHANGED failures \/ Fails,
         \A d \in Domains : Newer(Binding(d), Binding(d)')
  PROVE  ConvertersFresh'
<1> DEFINE L == _nl_loaded_domains
<1>1. CountersAreNumbers /\ CountersAreNumbers'
  BY CounterIs, CounterIsNext
<1> SUFFICES ASSUME NEW f \in DOMAIN L, L[f].data # NULL
    PROVE  /\ \A d \in Domains : f.file = MoFile(d) => Fresh(f, L[f].data, Binding(d)')
           /\ L[f].data.conv_tab = NoTable => failures' # 0
  BY DEF ConvertersFresh
<1> DEFINE data == L[f].data
<1>2. data \in Data
  BY DEF Rest, IsList, Entries
<1>3. \A d \in Domains : f.file = MoFile(d) => Fresh(f, data, Binding(d))
  BY DEF ConvertersFresh
<1>4. data.conv_tab = NoTable => failures # 0
  BY DEF ConvertersFresh
<1>5. failures \in Nat
  BY DEF Rest, Surroundings
<1> HIDE DEF data
<1>6. ASSUME NEW d \in Domains, f.file = MoFile(d) PROVE Fresh(f, data, Binding(d)')
  <2> DEFINE b == Binding(d)
             c == Binding(d)'
  <2>1. Fresh(f, data, b) /\ Newer(b, c) /\ Counter(b) \in Nat /\ Counter(c) \in Nat
    BY <1>1, <1>3, <1>6 DEF CountersAreNumbers
  <2> HIDE DEF b, c
  <2>2. Fresh(f, data, c)
    BY <1>2, <2>1, FreshStays
  <2> QED
    BY <2>2 DEF c
<1> QED
  BY <1>4, <1>5, <1>6 DEF Fails, data

LEMMA ConvertersRead ==
  ASSUME Rest, ConvertersFresh, InOrder, FilesRead, UNCHANGED _nl_domain_bindings,
         UNCHANGED failures \/ Fails
  PROVE  ConvertersFresh'
<1> DEFINE L == _nl_loaded_domains
<1>1. \A d \in Domains : Binding(d)' = Binding(d)
  BY SameIsNewer
<1>2. failures \in Nat
  BY DEF Rest, Surroundings
<1> SUFFICES ASSUME NEW f \in DOMAIN L', L'[f].data # NULL
    PROVE  /\ \A d \in Domains : f.file = MoFile(d) => Fresh(f, L'[f].data, Binding(d))
           /\ L'[f].data.conv_tab = NoTable => failures' # 0
  BY <1>1 DEF ConvertersFresh
<1>3. CASE Remains(f)
  BY <1>2, <1>3 DEF ConvertersFresh, Remains, Fails
<1>4. CASE IsRead(f)
  <2> DEFINE b == Binding(call.domainname)
  <2>1. /\ call.domainname \in Domains /\ f.file = MoFile(call.domainname)
        /\ L'[f].data = _nl_init_domain_conv(Catalog[f], b)
    BY <1>4 DEF IsRead
  <2>2. Counter(b) \in Nat
    BY <2>1, CounterIs DEF CountersAreNumbers
  <2>3. Fresh(f, L'[f].data, b) /\ L'[f].data.conv_tab = NULL
    BY <2>1, <2>2, NewIsFresh
  <2>4. \A d \in Domains : f.file = MoFile(d) => d = call.domainname
    BY <2>1, OwnFile
  <2> QED
    BY <2>3, <2>4, PointersAssumption
<1> QED
  BY <1>3, <1>4 DEF FilesRead

LEMMA ConvertersRewritten ==
  ASSUME Rest, ConvertersFresh, InOrder, UNCHANGED _nl_domain_bindings,
         UNCHANGED failures \/ Fails, NEW f, NEW data, Rewritten(f, data),
         f.file = MoFile(call.domainname), call.domainname \in Domains,
         Fresh(f, data, Binding(call.domainname)),
         data.conv_tab = NoTable => failures' # 0
  PROVE  ConvertersFresh'
<1> DEFINE L == _nl_loaded_domains
<1>1. \A d \in Domains : Binding(d)' = Binding(d)
  BY SameIsNewer
<1>2. failures \in Nat
  BY DEF Rest, Surroundings
<1> SUFFICES ASSUME NEW g \in DOMAIN L', L'[g].data # NULL
    PROVE  /\ \A d \in Domains : g.file = MoFile(d) => Fresh(g, L'[g].data, Binding(d))
           /\ L'[g].data.conv_tab = NoTable => failures' # 0
  BY <1>1 DEF ConvertersFresh
<1>3. CASE g = f
  <2>1. L'[g].data = data
    BY <1>3 DEF Rewritten
  <2>2. \A d \in Domains : f.file = MoFile(d) => d = call.domainname
    BY OwnFile
  <2> QED
    BY <1>3, <2>1, <2>2
<1>4. CASE g # f
  <2>1. g \in DOMAIN L /\ L'[g].data = L[g].data
    BY <1>4 DEF Rewritten, Remains
  <2> QED
    BY <1>2, <2>1 DEF ConvertersFresh, Fails
<1> QED
  BY <1>3, <1>4

LEMMA RootStaysFresh ==
  ASSUME InOrder, Rest, RootFresh, UNCHANGED root, UNCHANGED failures \/ Fails,
         UNCHANGED <<_nl_domain_bindings, _nl_msg_cat_cntr>> \/ _nl_msg_cat_cntr' = _nl_msg_cat_cntr + 1
  PROVE  RootFresh'
<1>1. failures \in Nat /\ _nl_msg_cat_cntr \in Nat
      /\ \A k \in DOMAIN root : root[k].counter \in Nat /\ root[k].counter <= _nl_msg_cat_cntr
  BY DEF Rest, Surroundings, Known
<1>2. failures' = 0 => failures = 0
  BY <1>1 DEF Fails
<1>3. CASE UNCHANGED <<_nl_domain_bindings, _nl_msg_cat_cntr>>
  <2>1. \A d \in Domains : Binding(d)' = Binding(d)
    BY <1>3, SameIsNewer
  <2> QED
    BY <1>2, <1>3, <2>1 DEF RootFresh
<1>4. CASE _nl_msg_cat_cntr' = _nl_msg_cat_cntr + 1
  BY <1>1, <1>4 DEF RootFresh
<1> QED
  BY <1>3, <1>4

LEMMA BindCodeset ==
  ASSUME InOrder, Rest, CodesetInv, NEW d \in Domains, NEW dirname \in Dirnames \cup {NULL},
         NEW codeset \in Codesets \cup {NULL}, Rebind(d, dirname, codeset) \/ Bind(d, dirname, codeset)
  PROVE  CodesetInv'
<1>1. /\ BindingUnchanged /\ pc = "idle"
      /\ Flush \/ UNCHANGED <<_nl_domain_bindings, _nl_msg_cat_cntr>>
      /\ UNCHANGED failures \/ Fails
  BY DEF Rebind, Bind, Operation
<1>2. InOrder' /\ \A e \in Domains : Newer(Binding(e), Binding(e)')
  BY RebindKeeps, BindKeeps, RebindNewer, BindNewer
<1>3. UNCHANGED <<_nl_loaded_domains, root, pc>>
  BY <1>1 DEF BindingUnchanged
<1>4. ConvertersFresh'
  BY <1>1, <1>2, <1>3, ConvertersStay DEF CodesetInv
<1>5. RootFresh'
  BY <1>1, <1>3, RootStaysFresh DEF CodesetInv, Flush
<1>6. CallFresh'
  BY <1>1, <1>3 DEF CallFresh
<1> QED
  BY <1>4, <1>5, <1>6 DEF CodesetInv

\* A step that leaves the bindings, the list and what is remembered alone.
LEMMA QuietCodeset ==
  ASSUME InOrder, Rest, CodesetInv, UNCHANGED <<_nl_domain_bindings, _nl_loaded_domains, root>>,
         UNCHANGED failures \/ Fails,
         UNCHANGED _nl_msg_cat_cntr \/ _nl_msg_cat_cntr' = _nl_msg_cat_cntr + 1
  PROVE  ConvertersFresh' /\ RootFresh'
<1>1. \A e \in Domains : Newer(Binding(e), Binding(e)')
  BY SameIsNewer
<1>2. InOrder'
  BY DEF InOrder, Rank
<1>3. ConvertersFresh'
  BY <1>1, <1>2, ConvertersStay DEF CodesetInv
<1>4. RootFresh'
  BY RootStaysFresh DEF CodesetInv
<1> QED
  BY <1>3, <1>4

LEMMA OutsideCodeset ==
  ASSUME InOrder, Rest, CodesetInv, ChangeEnvironment \/ \E d \in Domains : TEXTDOMAIN(d)
  PROVE  CodesetInv'
<1>1. /\ UNCHANGED <<_nl_domain_bindings, _nl_loaded_domains, root>> /\ pc' = "idle"
      /\ UNCHANGED failures \/ Fails
      /\ UNCHANGED _nl_msg_cat_cntr \/ _nl_msg_cat_cntr' = _nl_msg_cat_cntr + 1
  BY DEF ChangeEnvironment, TEXTDOMAIN, Operation, Flush, bindings, history
<1>2. CallFresh'
  BY <1>1 DEF CallFresh
<1> QED
  BY <1>1, <1>2, QuietCodeset DEF CodesetInv

LEMMA DCIGETTEXTCodeset ==
  ASSUME InOrder, Rest, CodesetInv, NEW arguments \in Calls, DCIGETTEXT(arguments)
  PROVE  CodesetInv'
<1> DEFINE d == IF arguments.domainname = NULL THEN _nl_current_default_domain
                                               ELSE arguments.domainname
           c == [arguments EXCEPT !.domainname = d]
           k == root[Key(c)]
<1>1. /\ call' = c
      /\ UNCHANGED <<_nl_domain_bindings, _nl_msg_cat_cntr, _nl_loaded_domains, root>>
      /\ UNCHANGED failures \/ Fails
      /\ \/ /\ Key(c) \in DOMAIN root /\ k.counter = _nl_msg_cat_cntr /\ UNCHANGED failures
            /\ Answer(k.domain, k.act, k.codeset, k.place) /\ pc' = "answered"
         \/ pc' = "locale"
         \/ Untranslated
  BY DEF DCIGETTEXT, bindings
<1>2. c.domainname = d /\ d \in Domains /\ Key(c).domainname = d
  <2>1. arguments \in [domainname : Domains \cup {NULL}, msgid : DOMAIN Hash, n : {NULL} \cup Nat]
    BY CallsAssumption
  <2>2. d \in Domains
    BY <2>1 DEF Rest, Surroundings
  <2> HIDE DEF d
  <2> QED
    BY <2>1, <2>2 DEF Key
<1>3. ConvertersFresh' /\ RootFresh'
  BY <1>1, QuietCodeset
<1> HIDE DEF c, k
<1>4. CallFresh'
  <2>1. CASE /\ Key(c) \in DOMAIN root /\ k.counter = _nl_msg_cat_cntr /\ UNCHANGED failures
             /\ Answer(k.domain, k.act, k.codeset, k.place) /\ pc' = "answered"
    <3>1. failures = 0 => InCodeset(k.codeset, k.domain, Binding(d))
      BY <1>2, <2>1 DEF CodesetInv, RootFresh, k
    <3>2. answer'.file = k.domain /\ answer'.codeset = k.codeset
      BY <2>1 DEF Answer
    <3> HIDE DEF d
    <3>3. Binding(call.domainname)' = Binding(d)
      BY <1>1, <1>2 DEF Binding, BindingPlace
    <3> QED
      BY <2>1, <3>1, <3>2, <3>3 DEF CallFresh
  <2>2. CASE pc' = "locale"
    BY <2>2 DEF CallFresh
  <2>3. CASE Untranslated
    BY <2>3 DEF CallFresh, Untranslated, Answer
  <2> QED
    BY <1>1, <2>1, <2>2, <2>3
<1> QED
  BY <1>3, <1>4 DEF CodesetInv

LEMMA NextLocaleCodeset ==
  ASSUME InOrder, Rest, CodesetInv, NextLocale
  PROVE  CodesetInv'
<1>1. /\ UNCHANGED <<_nl_domain_bindings, _nl_msg_cat_cntr, _nl_loaded_domains, root, failures>>
      /\ pc' \in {"find", "locale"} \/ Untranslated
  BY DEF NextLocale, bindings, history
<1>2. CallFresh'
  BY <1>1 DEF CallFresh, Untranslated, Answer
<1> QED
  BY <1>1, <1>2, QuietCodeset DEF CodesetInv

LEMMA FilesCodeset ==
  ASSUME InOrder, Rest, CodesetInv, FindDomain \/ Load \/ EndLoop
  PROVE  CodesetInv'
<1>1. FilesRead
  BY FindDomainRest, LoadRest, EndLoopRest
<1>2. /\ UNCHANGED <<_nl_domain_bindings, _nl_msg_cat_cntr, root>>
      /\ UNCHANGED failures \/ Fails
      /\ pc' \in {"load", "search", "translate", "locale"}
  BY DEF FindDomain, Load, EndLoop, bindings, history
<1>3. CallFresh'
  BY <1>2 DEF CallFresh
<1>4. ConvertersFresh'
  BY <1>1, <1>2, ConvertersRead DEF CodesetInv
<1> QED
  BY <1>2, <1>3, <1>4, RootStaysFresh DEF CodesetInv

\* What is found with a converter that suits the binding is in its codeset, converted or not.
LEMMA FoundInCodeset ==
  ASSUME NEW f, NEW b, NEW conv, Suits(conv, f, b)
  PROVE  /\ conv # NULL => InCodeset(conv, f, b)
         /\ conv = NULL => InCodeset(Catalog[f].charset, f, b)
BY DEF Suits, InCodeset, Bound

LEMMA FindMsgCodeset ==
  ASSUME InOrder, Rest, CodesetInv, FindMsg
  PROVE  CodesetInv'
<1> DEFINE b == Binding(call.domainname)
           data == Current(This.data, b)
           f == FileAt(cnt)
<1>1. /\ pc = "translate" /\ UNCHANGED <<root, call, cnt, domain>>
      /\ UNCHANGED <<_nl_domain_bindings, _nl_msg_cat_cntr>>
  BY FindMsgCases DEF lookup, bindings
<1>2. PICK tab : /\ tab \in {NULL, NoTable} \cup Tables
                 /\ SetData([data EXCEPT !.conv_tab = tab])
                 /\ FindMsgDoes(data, tab)
  BY FindMsgCases
<1>3. /\ f \in DOMAIN _nl_loaded_domains /\ This = _nl_loaded_domains[f]
      /\ This.data \in Data /\ This.data # NULL
      /\ f.file = MoFile(call.domainname) /\ call.domainname \in Domains
  BY <1>1, AtFile
<1>4. Counter(b) \in Nat
  BY <1>3, CounterIs DEF CountersAreNumbers
<1>5. /\ data \in Data /\ data.codeset_cntr = Counter(b) /\ Fresh(f, data, b)
      /\ data.conv_tab = NoTable => failures # 0
  <2>1. CASE This.data.codeset_cntr = Counter(b)
    <3>1. data = This.data
      BY <2>1 DEF Current
    <3>2. Fresh(f, This.data, b) /\ (This.data.conv_tab = NoTable => failures # 0)
      BY <1>3 DEF CodesetInv, ConvertersFresh
    <3> QED
      BY <1>3, <2>1, <3>1, <3>2
  <2>2. CASE This.data.codeset_cntr # Counter(b)
    <3>1. data = _nl_init_domain_conv(Catalog[f], b)
      BY <2>2 DEF Current
    <3>2. Fresh(f, data, b) /\ data.codeset_cntr = Counter(b) /\ data.conv_tab = NULL
      BY <1>4, <3>1, NewIsFresh
    <3> QED
      BY <1>1, <3>2, CurrentIs, PointersAssumption
  <2> QED
    BY <2>1, <2>2
<1>6. FindMsgDoes(data, tab)
  BY <1>2
<1>7. SetData([data EXCEPT !.conv_tab = tab])
  BY <1>2
<1> DEFINE new == [data EXCEPT !.conv_tab = tab]
<1>8. /\ Rewritten(f, new)
      /\ \A g \in DOMAIN _nl_loaded_domains :
           _nl_loaded_domains'[g].successor = _nl_loaded_domains[g].successor
  BY <1>1, <1>7, SetDataIs
<1> HIDE DEF data
<1>9. new.conv_tab = tab /\ new.conv = data.conv /\ new.codeset_cntr = data.codeset_cntr
  BY <1>5 DEF Data
<1> HIDE DEF new
<1>10. failures \in Nat
  BY DEF Rest, Surroundings
<1>11. /\ UNCHANGED failures \/ Fails
       /\ tab = NoTable => failures' # 0
  <2>1. UNCHANGED failures \/ Fails
    BY <1>6 DEF FindMsgDoes
  <2>2. tab = NoTable => data.conv_tab = NoTable \/ Fails
    <3>1. <<>> # NoTable /\ NoTable \notin Tables
      BY TableIs, EmptyTable
    <3> QED
      BY <1>6, <3>1 DEF FindMsgDoes
  <2> QED
    BY <1>5, <1>10, <2>1, <2>2 DEF Fails
<1>12. Fresh(f, new, b)
  BY <1>5, <1>9 DEF Fresh
<1>13. ConvertersFresh'
  <2> HIDE DEF f
  <2> QED
    BY <1>1, <1>3, <1>8, <1>9, <1>11, <1>12, ConvertersRewritten DEF CodesetInv
<1>14. Suits(data.conv, f, b)
  BY <1>5 DEF Fresh
<1>15. pc' = "found" /\ failures' = 0 => InCodeset(retval'.codeset, retval'.file, b)
  <2> SUFFICES ASSUME pc' = "found", failures' = 0 PROVE InCodeset(retval'.codeset, retval'.file, b)
    OBVIOUS
  <2>1. ~Fails /\ failures = 0
    BY <1>10, <1>11 DEF Fails
  <2>2. \/ data.conv = NULL /\ Found(Catalog[f].charset, NULL)
        \/ data.conv # NULL /\ Found(data.conv, data.conv_tab[Act])
    BY <1>5, <1>6, <2>1 DEF FindMsgDoes
  <2>3. \/ data.conv = NULL /\ retval'.codeset = Catalog[f].charset /\ retval'.file = f
        \/ data.conv # NULL /\ retval'.codeset = data.conv /\ retval'.file = f
    BY <2>2 DEF Found
  <2> QED
    BY <1>14, <2>3, FoundInCodeset
<1>16. pc' \in {"found", "convert"}
  BY <1>6 DEF FindMsgDoes, Found
<1>17. Binding(call.domainname)' = b
  BY <1>1 DEF Binding, BindingPlace
<1>18. This'.data = new
  <2>1. FileAt(cnt)' = f
    <3>1. domain \in DOMAIN _nl_loaded_domains
      BY <1>1 DEF Rest, Position, InList
    <3>2. \A k : FileAt(k)' = FileAt(k)
      BY <1>1, <1>8, <3>1, SamePlace
    <3> QED
      BY <1>1, <3>2
  <2> QED
    BY <1>8, <2>1 DEF This, Rewritten
<1>19. CallFresh'
  BY <1>5, <1>9, <1>15, <1>16, <1>17, <1>18 DEF CallFresh
<1> QED
  BY <1>1, <1>11, <1>13, <1>19, RootStaysFresh DEF CodesetInv

LEMMA ConvertCodeset ==
  ASSUME InOrder, PoolInv, Rest, CodesetInv, Convert
  PROVE  CodesetInv'
<1> DEFINE b == Binding(call.domainname)
           data == This.data
           f == FileAt(cnt)
<1>1. /\ pc = "convert" /\ UNCHANGED <<root, call, cnt, domain>>
      /\ UNCHANGED <<_nl_domain_bindings, _nl_msg_cat_cntr>>
  BY DEF Convert, lookup, bindings
<1>2. /\ f \in DOMAIN _nl_loaded_domains /\ This = _nl_loaded_domains[f]
      /\ data \in Data /\ data # NULL
      /\ f.file = MoFile(call.domainname) /\ call.domainname \in Domains
  BY <1>1, AtFile
<1>3. /\ data.conv # NULL /\ data.conv_tab \in Tables /\ data.codeset_cntr = Counter(b)
      /\ Fresh(f, data, b)
  BY <1>1, <1>2 DEF Rest, Position, CodesetInv, CallFresh, ConvertersFresh
<1>4. Suits(data.conv, f, b) /\ failures \in Nat
  BY <1>3 DEF Fresh, Rest, Surroundings
<1>5. Binding(call.domainname)' = b
  BY <1>1 DEF Binding, BindingPlace
<1>6. CASE /\ SetData([data EXCEPT !.conv_tab = Over([act \in {Act} |-> ThisString], @)])
           /\ Found(data.conv, ThisString) /\ UNCHANGED failures
  <2> DEFINE tab == Over([act \in {Act} |-> ThisString], data.conv_tab)
             new == [data EXCEPT !.conv_tab = tab]
  <2>1. SetData(new)
    BY <1>6
  <2>2. tab # NoTable
    <3> DEFINE t == data.conv_tab
               s == ThisString
               i == Act
    <3>1. t \in Tables /\ s \in Strings /\ i \in Indices
      BY <1>1, <1>3, ThisStringIs, AtFile
    <3> HIDE DEF t, s, i
    <3>2. Over([act \in {i} |-> s], t) \in Tables
      BY <3>1, TableGrows
    <3>3. Over([act \in {i} |-> s], t) # NoTable
      BY <3>2, TableIs
    <3> QED
      BY <3>3 DEF t, s, i
  <2> HIDE DEF tab
  <2>3. new.conv_tab = tab /\ new.conv = data.conv /\ new.codeset_cntr = data.codeset_cntr
    BY <1>2 DEF Data
  <2> HIDE DEF new
  <2>4. Rewritten(f, new)
    BY <1>1, <2>1, SetDataIs
  <2>5. Fresh(f, new, b)
    BY <1>3, <2>3 DEF Fresh
  <2>6. pc' = "found" /\ retval'.codeset = data.conv /\ retval'.file = f
    BY <1>6 DEF Found
  <2> HIDE DEF f, data
  <2>7. ConvertersFresh'
    BY <1>1, <1>2, <1>6, <2>2, <2>3, <2>4, <2>5, ConvertersRewritten DEF CodesetInv
  <2>8. CallFresh'
    BY <1>3, <1>4, <1>5, <2>6, FoundInCodeset DEF CallFresh
  <2> QED
    BY <1>1, <1>6, <2>7, <2>8, RootStaysFresh DEF CodesetInv
<1>7. CASE Fails /\ Found(Catalog[f].charset, NULL) /\ UNCHANGED _nl_loaded_domains
  <2>1. pc' = "found" /\ failures' # 0
    BY <1>4, <1>7 DEF Found, Fails
  <2>2. CallFresh'
    BY <2>1 DEF CallFresh
  <2> QED
    BY <1>1, <1>7, <2>2, QuietCodeset DEF CodesetInv
<1>8. CASE UNCHANGED <<_nl_loaded_domains, retval, pc, failures>>
  <2>1. CallFresh'
    <3>1. This' = This
      BY <1>1, <1>8 DEF This, FileAt
    <3> QED
      BY <1>1, <1>3, <1>5, <1>8, <3>1 DEF CallFresh
  <2> QED
    BY <1>1, <1>8, <2>1, QuietCodeset DEF CodesetInv
<1> QED
  BY <1>6, <1>7, <1>8 DEF Convert

LEMMA RememberCodeset ==
  ASSUME InOrder, Rest, CodesetInv, Remember
  PROVE  CodesetInv'
<1> DEFINE key == Key(call)
           new == [counter |-> _nl_msg_cat_cntr, domain |-> retval.file, act |-> retval.act,
                   codeset |-> retval.codeset, place |-> retval.place]
<1>1. /\ pc = "found" /\ pc' = "answered" /\ call' = call
      /\ UNCHANGED <<_nl_loaded_domains, _nl_domain_bindings, _nl_msg_cat_cntr>>
      /\ UNCHANGED failures \/ Fails
      /\ root' = Over([k \in {key} |-> new], root) \/ UNCHANGED root
      /\ Answer(retval.file, retval.act, retval.codeset, retval.place)
  BY DEF Remember, bindings
<1>2. /\ failures = 0 => InCodeset(retval.codeset, retval.file, Binding(call.domainname))
      /\ call.domainname \in Domains /\ failures \in Nat
  BY <1>1 DEF CodesetInv, CallFresh, Rest, Calling, Surroundings
<1>3. key.domainname = call.domainname /\ new.domain = retval.file /\ new.codeset = retval.codeset
  BY DEF Key
<1> HIDE DEF key, new
<1>4. \A k \in DOMAIN root' : (k = key /\ root'[k] = new) \/ (k \in DOMAIN root /\ root'[k] = root[k])
  BY <1>1 DEF Over
<1>5. \A d \in Domains : Binding(d)' = Binding(d) /\ Newer(Binding(d), Binding(d)')
  BY <1>1, SameIsNewer
<1>6. failures' = 0 => failures = 0
  BY <1>1, <1>2 DEF Fails
<1>7. RootFresh'
  BY <1>1, <1>2, <1>3, <1>4, <1>5, <1>6 DEF CodesetInv, RootFresh
<1>8. ConvertersFresh'
  <2>1. InOrder'
    BY <1>1 DEF InOrder, Rank
  <2> QED
    BY <1>1, <1>5, <2>1, ConvertersStay DEF CodesetInv
<1>9. answer'.file = retval.file /\ answer'.codeset = retval.codeset
  BY <1>1 DEF Answer
<1>10. Binding(call.domainname)' = Binding(call.domainname)
  BY <1>1 DEF Binding, BindingPlace
<1>11. CallFresh'
  BY <1>1, <1>2, <1>6, <1>9, <1>10 DEF CallFresh
<1> QED
  BY <1>7, <1>8, <1>11 DEF CodesetInv

LEMMA ReturnCodeset ==
  ASSUME InOrder, Rest, CodesetInv, Return
  PROVE  CodesetInv'
<1>1. /\ UNCHANGED <<_nl_domain_bindings, _nl_msg_cat_cntr, _nl_loaded_domains, root, failures>>
      /\ pc' = "idle"
  BY DEF Return, bindings, history
<1>2. CallFresh'
  BY <1>1 DEF CallFresh
<1> QED
  BY <1>1, <1>2, QuietCodeset DEF CodesetInv

LEMMA StepCodeset ==
  ASSUME ListInv, CodesetInv, [Next]_vars
  PROVE  CodesetInv'
<1>1. InOrder /\ PoolInv /\ Rest
  BY DEF ListInv, Rest
<1>2. CASE UNCHANGED vars
  <2>1. /\ UNCHANGED <<_nl_domain_bindings, _nl_msg_cat_cntr, _nl_loaded_domains, root, failures>>
        /\ UNCHANGED <<pc, call, cnt, domain, retval, answer>>
    BY <1>2 DEF vars, bindings, history, lookup
  <2>2. CallFresh'
    BY <2>1 DEF CodesetInv, CallFresh, Binding, BindingPlace, This, FileAt
  <2> QED
    BY <1>1, <2>1, <2>2, QuietCodeset DEF CodesetInv
<1>3. ASSUME NEW d \in Domains, NEW dirname \in Dirnames, BINDTEXTDOMAIN(d, dirname)
      PROVE  CodesetInv'
  BY <1>1, <1>3, BindCodeset DEF BINDTEXTDOMAIN
<1>4. ASSUME NEW d \in Domains, NEW codeset \in Codesets, BIND_TEXTDOMAIN_CODESET(d, codeset)
      PROVE  CodesetInv'
  BY <1>1, <1>4, BindCodeset DEF BIND_TEXTDOMAIN_CODESET
<1>5. ASSUME NEW arguments \in Calls, DCIGETTEXT(arguments) PROVE CodesetInv'
  BY <1>1, <1>5, DCIGETTEXTCodeset
<1>6. CASE Step
  BY <1>1, <1>6, NextLocaleCodeset, FilesCodeset, FindMsgCodeset, ConvertCodeset, RememberCodeset,
     ReturnCodeset DEF Step
<1> QED
  BY <1>1, <1>2, <1>3, <1>4, <1>5, <1>6, OutsideCodeset DEF Next

\* What is handed out is in the codeset that is bound, if there is a converter, else in that
\* of the catalog; no converter, converted string or remembered translation of before the
\* binding shows: for any catalogs, converters, bindings and order of calls, as long as
\* nothing has failed (codeset_cntr and _nl_msg_cat_cntr, dcigettext.c).
THEOREM TranslationsInCodeset == Spec => []AnswerInCodeset
<1>1. Init => CodesetInv
  BY DEF Init, CodesetInv, ConvertersFresh, RootFresh, CallFresh
<1>2. ListInv /\ CodesetInv /\ [Next]_vars => CodesetInv'
  BY StepCodeset
<1>3. CodesetInv => AnswerInCodeset
  BY DEF CodesetInv, CallFresh, AnswerInCodeset, InCodeset, Bound, Converts
<1> QED
  BY <1>1, <1>2, <1>3, ListIsKept, PTL DEF Spec

-------------------------------------------------------------------------------
(* The best file is found.  Every entry is that of a family that was asked *)
(* for, and all of the family is there (MadeBy); an entry that is decided  *)
(* on and not loaded has no catalog.  So what a call goes through is one   *)
(* of the orders of its locale, and nothing that it has passed has the     *)
(* message.  The files that could not be read are a parameter: they only   *)
(* become more.                                                            *)

NoFile(name) == \E n \in DOMAIN Families :
                   name \in DOMAIN Families[n].entry /\ Families[n].entry[name].decided
HasNoCatalog(unread, f) == \/ f \notin DOMAIN Disk \/ Catalog[f] = Unknown
                           \/ f \in unread \/ NoFile(f.name)
HasNone(unread, msgid, f) == HasNoCatalog(unread, f) \/ Catalog[f].index[msgid] = NotFound

MadeBy(L, f, family) == LET entry == Families[family].entry
                        IN  /\ f.name \in DOMAIN entry /\ L[f].successor = entry[f.name].successor
                            /\ \A name \in DOMAIN entry : [f EXCEPT !.name = name] \in DOMAIN L
IsMade(L, unread) == \A f \in DOMAIN L :
                        /\ \E family \in Made : MadeBy(L, f, family)
                        /\ L[f].decided /\ L[f].data = NULL => HasNoCatalog(unread, f)
\* No alias gets lost on the way from the files to the map.
AliasesKept ==
    AliasLines \subseteq map \cup UNION {ToSet(KeptLines(locale_alias_path[i])) :
                                           i \in DOMAIN locale_alias_path}

IsBest(s, msgid, file) ==
    \E i \in DOMAIN s.names : InVain(s, msgid, i) /\ IsFirst(s, msgid, i, file)
RootBest == ~stale => \A k \in DOMAIN root : root[k].counter = _nl_msg_cat_cntr =>
                         IsBest(Sought(k.domainname), k.msgid, root[k].domain)

\* The locale whose turn it is, what is left of the list, and what was passed.
Turn(s, msgid) ==
    \E i \in DOMAIN s.names : /\ InVain(s, msgid, i)
                              /\ single_locale = s.names[i]
                              /\ categoryvalue = SubSeq(s.names, i + 1, Len(s.names))
                              /\ ~Passes(s, single_locale) /\ ~IsC(single_locale)
OrderOf(L, f) == <<f.name>> \o L[f].successor
CallBest ==
    LET s == Sought(call.domainname)
    IN  pc # "idle" /\ ~stale =>
          /\ pc = "locale" => \E i \in 1..(Len(s.names) + 1) :
                                 /\ InVain(s, call.msgid, i)
                                 /\ categoryvalue = SubSeq(s.names, i, Len(s.names))
          /\ pc \in {"find"} \cup InList => Turn(s, call.msgid)
          /\ pc \in InList => /\ domain = FileFor(s, domain.name)
                              /\ OrderOf(_nl_loaded_domains, domain) \in Orders(single_locale)
          /\ pc \in InList \ {"load"} => \A k \in 0..(cnt - 1) : HasNone(failed, call.msgid, FileAt(k))
          /\ pc = "found" => IsBest(s, call.msgid, retval.file)
          /\ AnswerIsBest
BestInv == IsMade(_nl_loaded_domains, failed) /\ AliasesKept /\ RootBest /\ CallBest

(* More files that could not be read: what was passed for good is still passed. *)
LEMMA LacksIs ==
  ASSUME NEW s, NEW msgid, NEW name
  PROVE  /\ FileFor(s, name).name = name
         /\ Lacks(s, msgid, name) <=> HasNone(s.failed, msgid, FileFor(s, name))
<1>1. FileFor(s, name).name = name
  BY DEF FileFor, Filename
<1> DEFINE f == FileFor(s, name)
<1>2. Lacks(s, msgid, name) <=> (f \notin DOMAIN Disk \/ Catalog[f] = Unknown \/ f \in s.failed
                                 \/ Catalog[f].index[msgid] = NotFound \/ NoFile(name))
  BY DEF Lacks, NoFile
<1> HIDE DEF f
<1> QED
  BY <1>1, <1>2 DEF HasNone, HasNoCatalog, f

LEMMA LacksStays ==
  ASSUME NEW s, NEW t, t.names = s.names, t.secure = s.secure, t.dirname = s.dirname,
         t.file = s.file, s.failed \subseteq t.failed, NEW msgid
  PROVE  /\ \A name : Lacks(s, msgid, name) => Lacks(t, msgid, name)
         /\ \A name : FileFor(t, name) = FileFor(s, name) /\ Passes(t, name) = Passes(s, name)
<1>1. \A name : FileFor(t, name) = FileFor(s, name) /\ Passes(t, name) = Passes(s, name)
  BY DEF FileFor, Passes
<1>2. \A f : HasNone(s.failed, msgid, f) => HasNone(t.failed, msgid, f)
  BY DEF HasNone, HasNoCatalog
<1> QED
  BY <1>1, <1>2, LacksIs

LEMMA BestStays ==
  ASSUME NEW s, NEW t, t.names = s.names, t.secure = s.secure, t.dirname = s.dirname,
         t.file = s.file, s.failed \subseteq t.failed, NEW msgid
  PROVE  /\ \A i : InVain(s, msgid, i) => InVain(t, msgid, i)
         /\ \A i : ListEnds(s, i) => ListEnds(t, i)
         /\ \A file : IsBest(s, msgid, file) => IsBest(t, msgid, file)
<1>1. /\ \A name : Lacks(s, msgid, name) => Lacks(t, msgid, name)
      /\ \A name : FileFor(t, name) = FileFor(s, name) /\ Passes(t, name) = Passes(s, name)
  BY LacksStays
<1>2. \A i : InVain(s, msgid, i) => InVain(t, msgid, i)
  BY <1>1 DEF InVain
<1>3. \A i : ListEnds(s, i) => ListEnds(t, i)
  BY <1>1 DEF ListEnds
<1>4. \A i, file : IsFirst(s, msgid, i, file) => IsFirst(t, msgid, i, file)
  BY <1>1 DEF IsFirst
<1>5. \A file : IsBest(s, msgid, file) => IsBest(t, msgid, file)
  BY <1>2, <1>4 DEF IsBest
<1> QED
  BY <1>2, <1>3, <1>5

(* What a call goes by stays, as long as the environment and the bindings do. *)
LEMMA SoughtStays ==
  ASSUME UNCHANGED <<env, enable_secure, _nl_domain_bindings>>, failed \subseteq failed', NEW d
  PROVE  LET s == Sought(d)
             t == Sought(d)'
         IN  /\ t.names = s.names /\ t.secure = s.secure /\ t.dirname = s.dirname
             /\ t.file = s.file /\ s.failed \subseteq t.failed
             /\ s.failed = failed /\ t.failed = failed'
             /\ \A msgid : /\ \A i : InVain(s, msgid, i) => InVain(t, msgid, i)
                           /\ \A i : ListEnds(s, i) => ListEnds(t, i)
                           /\ \A file : IsBest(s, msgid, file) => IsBest(t, msgid, file)
                           /\ \A name : FileFor(t, name) = FileFor(s, name) /\ Passes(t, name) = Passes(s, name)
<1>1. Binding(d)' = Binding(d)
  BY DEF Binding, BindingPlace
<1>2. guess_category_value' = guess_category_value
  BY DEF guess_category_value
<1> DEFINE s == Sought(d)
           t == Sought(d)'
<1>3. /\ t.names = s.names /\ t.secure = s.secure /\ t.dirname = s.dirname /\ t.file = s.file
      /\ s.failed = failed /\ t.failed = failed'
  BY <1>1, <1>2 DEF Sought
<1> HIDE DEF s, t
<1> QED
  BY <1>3, BestStays, LacksStays DEF s, t

-------------------------------------------------------------------------------
(* The names that a locale stands for. *)

LEMMA AliasMeant ==
  ASSUME Surroundings, AliasesKept, NEW name \in DOMAIN Families, NEW a,
         a = _nl_expand_alias(map, locale_alias_path, name)
  PROVE  /\ (IF a.value = NULL THEN name ELSE a.value) \in Meant(name)
         /\ AliasLines \subseteq a.map \cup UNION {ToSet(KeptLines(a.path[i])) : i \in DOMAIN a.path}
<1> DEFINE path == locale_alias_path
           n == Len(path)
           lines == {line \in AliasLines : line[1] = name}
           After(k) == ReadTo(k, path)
           Kept(i) == ToSet(KeptLines(path[i]))
<1>1. PICK k \in 0..n : IsAlias(a, k, path, name)
  BY AliasRead
<1>2. /\ n \in Nat /\ path = [i \in 1..n |-> path[i]] /\ path \in Seq(ToSet(AliasPath))
      /\ AliasLines \subseteq map \cup UNION {Kept(i) : i \in 1..n}
  BY DEF Surroundings, AliasesKept
<1>3. After(k) = a.map /\ a.path = SubSeq(path, k + 1, n)
  BY <1>1 DEF IsAlias
<1>4. AliasLines \subseteq After(k) \cup UNION {Kept(i) : i \in (k + 1)..n}
  <2>1. 1..n = 1..k \cup (k + 1)..n
    BY <1>1, <1>2
  <2>2. ReadTo(k, path) = map \cup UNION {Kept(i) : i \in 1..k}
    BY DEF ReadTo
  <2> HIDE DEF Kept
  <2> QED
    BY <1>2, <2>1, <2>2
<1>5. \A i \in (k + 1)..n : \E j \in DOMAIN a.path : a.path[j] = path[i]
  <2>1. /\ DOMAIN SubSeq(path, k + 1, n) = 1..(n - k)
        /\ \A j \in 1..(n - k) : SubSeq(path, k + 1, n)[j] = path[j + k]
    BY <1>1, <1>2
  <2> SUFFICES ASSUME NEW i \in (k + 1)..n PROVE \E j \in DOMAIN a.path : a.path[j] = path[i]
    OBVIOUS
  <2>2. i - k \in 1..(n - k) /\ (i - k) + k = i
    BY <1>1, <1>2
  <2> QED
    BY <1>3, <2>1, <2>2
<1>6. AliasLines \subseteq a.map \cup UNION {ToSet(KeptLines(a.path[i])) : i \in DOMAIN a.path}
  <2> SUFFICES ASSUME NEW line \in AliasLines, line \notin After(k)
               PROVE  \E j \in DOMAIN a.path : line \in ToSet(KeptLines(a.path[j]))
    BY <1>3
  <2>1. PICK i \in (k + 1)..n : line \in ToSet(KeptLines(path[i]))
    BY <1>4
  <2> QED
    BY <1>5, <2>1
<1>7. ReadTo(k, path) \subseteq AliasLines
  <2>1. \A i \in 1..k : path[i] \in ToSet(AliasPath)
    BY <1>1, <1>2
  <2>2. \A i \in 1..k : ToSet(KeptLines(path[i])) \subseteq AliasLines
    BY <2>1 DEF AliasLines
  <2>3. map \subseteq AliasLines
    BY DEF Surroundings
  <2> QED
    BY <2>2, <2>3 DEF ReadTo
<1>8. CASE \E line \in After(k) : line[1] = name /\ a.value = line[2]
  <2>1. PICK line \in After(k) : line[1] = name /\ a.value = line[2]
    BY <1>8
  <2>2. line \in AliasLines
    BY <1>7, <2>1
  <2>3. a.value # NULL
    BY <2>1, <2>2, NamesAssumption, PointersAssumption
  <2>4. Meant(name) = {l[2] : l \in lines} /\ line \in lines
    BY <2>1, <2>2 DEF Meant
  <2> QED
    BY <1>6, <2>1, <2>3, <2>4
<1>9. CASE k = n /\ a.value = NULL /\ \A line \in After(k) : line[1] # name
  <2>1. AliasLines \subseteq After(n)
    BY <1>2, <1>9 DEF ReadTo
  <2>2. lines = {}
    BY <1>9, <2>1
  <2>3. Meant(name) = {name}
    BY <2>2 DEF Meant
  <2> QED
    BY <1>6, <1>9, <2>3
<1> QED
  BY <1>1, <1>8, <1>9 DEF IsAlias

LEMMA MeantIsMade ==
  ASSUME NEW name \in DOMAIN Families
  PROVE  Meant(name) \subseteq Made /\ Meant(name) \subseteq DOMAIN Families
<1>1. Meant(name) \subseteq Made
  BY DEF Made
<1>2. \A line \in AliasLines : line[2] \in DOMAIN Families
  BY NamesAssumption
<1> QED
  BY <1>1, <1>2 DEF Meant

LEMMA MadeAreFamilies == Made \subseteq DOMAIN Families
BY MeantIsMade DEF Made

-------------------------------------------------------------------------------
(* The entries of the list. *)

LEMMA NamesOfFamily ==
  ASSUME NEW L, IsList(L), NEW f \in DOMAIN L, NEW family \in Made, MadeBy(L, f, family),
         NEW s, f = FileFor(s, f.name)
  PROVE  /\ \A name \in DOMAIN Families[family].entry : [f EXCEPT !.name = name] = FileFor(s, name)
         /\ L[f].successor \in Seq(DOMAIN Families[family].entry)
         /\ family \in DOMAIN Families
<1> DEFINE entry == Families[family].entry
<1>1. family \in DOMAIN Families
  BY MadeAreFamilies
<1>2. f.name \in DOMAIN entry /\ L[f].successor = entry[f.name].successor
  BY DEF MadeBy
<1>3. /\ entry \in [DOMAIN entry -> [decided : BOOLEAN, data : {NULL}, successor : Seq(DOMAIN entry)]]
      /\ \A n \in DOMAIN entry : IS_ABSOLUTE_PATH(n) = IS_ABSOLUTE_PATH(Families[family].top)
  BY <1>1, FamiliesAssumption
<1>4. f \in Files
  BY DEF IsList
<1>5. L[f].successor \in Seq(DOMAIN entry)
  <2> HIDE DEF entry
  <2> QED
    BY <1>2, <1>3
<1>6. ASSUME NEW name \in DOMAIN entry PROVE [f EXCEPT !.name = name] = FileFor(s, name)
  <2>1. IS_ABSOLUTE_PATH(name) = IS_ABSOLUTE_PATH(f.name)
    BY <1>2, <1>3
  <2>2. \A n : FileFor(s, n) = [dir |-> IF IS_ABSOLUTE_PATH(n) THEN NULL ELSE s.dirname, name |-> n, file |-> s.file]
    BY DEF FileFor, Filename
  <2>3. FileFor(s, name) = [dir |-> f.dir, name |-> name, file |-> f.file]
    <3>1. /\ FileFor(s, f.name).dir = IF IS_ABSOLUTE_PATH(f.name) THEN NULL ELSE s.dirname
          /\ FileFor(s, f.name).file = s.file
      BY <2>2
    <3> QED
      BY <2>1, <2>2, <3>1
  <2>4. f = [dir |-> f.dir, name |-> f.name, file |-> f.file]
    BY <1>4 DEF Files
  <2> QED
    BY <2>3, <2>4
<1> QED
  BY <1>1, <1>5, <1>6

\* A family that is asked for: all of it is in the list, and the call finds an order of
\* its locale, be its entries new or old.
LEMMA FamilyMade ==
  ASSUME NEW L, IsList(L), NEW unread, IsMade(L, unread), NEW name \in DOMAIN Families,
         NEW s, s.dirname \in Dirs, NEW d \in Domains, s.file = MoFile(d),
         FileFor(s, name) \notin DOMAIN L, NEW family \in Meant(name)
  PROVE  LET K == _nl_make_l10nflist(L, s.dirname, Families[family], s.file)
             top == FileFor(s, Families[family].top)
         IN  /\ IsMade(K, unread) /\ top.name = Families[family].top
             /\ OrderOf(K, top) \in Orders(name)
<1> DEFINE entry == Families[family].entry
           top == Families[family].top
           File(n) == FileFor(s, n)
           new == [f \in {File(n) : n \in DOMAIN entry} |-> entry[f.name]]
           K == _nl_make_l10nflist(L, s.dirname, Families[family], s.file)
<1>1. family \in Made /\ family \in DOMAIN Families
  BY MeantIsMade
<1>2. top \in DOMAIN entry
  BY <1>1, FamiliesAssumption
<1>3. \A n \in DOMAIN entry :
        /\ File(n) \in Files /\ File(n).name = n /\ File(n).file = s.file
        /\ File(n).dir = IF IS_ABSOLUTE_PATH(top) THEN NULL ELSE s.dirname
        /\ entry[n] \in Entries /\ entry[n].data = NULL
  BY <1>1, EntriesOfFamily DEF FileFor
<1>4. K = IF File(top) \in DOMAIN L THEN L ELSE Over(L, new)
  BY DEF _nl_make_l10nflist, FileFor
<1>5. Order(top, family) = <<top>> \o entry[top].successor /\ Order(top, family) \in Orders(name)
  BY DEF Order, Orders
<1> HIDE DEF entry, File, K
<1>6. CASE File(top) \in DOMAIN L
  <2>1. PICK g \in Made : MadeBy(L, File(top), g)
    BY <1>6 DEF IsMade
  <2>2. /\ File(top).name = top /\ top \in DOMAIN Families[g].entry
        /\ L[File(top)].successor = Families[g].entry[top].successor
    BY <1>2, <1>3, <2>1 DEF MadeBy
  <2>3. name \notin DOMAIN Families[g].entry
    <3>1. \A n \in DOMAIN Families[g].entry : [File(top) EXCEPT !.name = n] = FileFor(s, n)
      BY <1>6, <2>1, <2>2, NamesOfFamily DEF File
    <3> QED
      BY <2>1, <3>1 DEF MadeBy
  <2>4. Order(top, g) \in Orders(name)
    <3> DEFINE Has(n) == name \in DOMAIN Families[n].entry
               tops == {Families[n].top : n \in Meant(name)}
               pairs == {p \in tops \X Made : /\ ~Has(p[2]) /\ p[1] \in DOMAIN Families[p[2]].entry}
    <3>1. <<top, g>> \in pairs
      BY <2>1, <2>2, <2>3
    <3>2. {Order(p[1], p[2]) : p \in pairs} \subseteq Orders(name)
      BY DEF Orders
    <3> HIDE DEF pairs
    <3> QED
      BY <3>1, <3>2
  <2>5. OrderOf(L, File(top)) = Order(top, g)
    BY <2>2 DEF OrderOf, Order
  <2> QED
    BY <1>4, <1>6, <2>2, <2>4, <2>5 DEF File, K
<1>7. CASE File(top) \notin DOMAIN L
  <2>1. DOMAIN new = {File(n) : n \in DOMAIN entry} /\ \A n \in DOMAIN entry : new[File(n)] = entry[n]
    BY <1>3
  <2> HIDE DEF new
  <2>2. /\ DOMAIN K = DOMAIN L \cup DOMAIN new
        /\ \A f \in DOMAIN L : K[f] = L[f]
        /\ \A f \in DOMAIN new : f \notin DOMAIN L => K[f] = new[f]
    BY <1>4, <1>7 DEF Over
  <2>3. ASSUME NEW f \in DOMAIN L
        PROVE  /\ \E g \in Made : MadeBy(K, f, g)
               /\ K[f].decided /\ K[f].data = NULL => HasNoCatalog(unread, f)
    BY <2>2 DEF IsMade, MadeBy
  <2>4. ASSUME NEW f \in DOMAIN new, f \notin DOMAIN L
        PROVE  /\ MadeBy(K, f, family)
               /\ K[f].decided /\ K[f].data = NULL => HasNoCatalog(unread, f)
    <3>1. PICK n \in DOMAIN entry : f = File(n)
      BY <2>1, <2>4
    <3>2. K[f] = entry[n] /\ f.name = n /\ f \in Files
      BY <1>3, <2>1, <2>2, <2>4, <3>1
    <3>3. ASSUME NEW m \in DOMAIN entry PROVE [f EXCEPT !.name = m] \in DOMAIN K
      <4>1. [f EXCEPT !.name = m] = File(m)
        BY <1>3, <3>1, <3>2 DEF Files
      <4> QED
        BY <2>1, <2>2, <4>1
    <3>4. MadeBy(K, f, family)
      BY <3>2, <3>3 DEF MadeBy, entry
    <3>5. K[f].decided => NoFile(f.name)
      BY <1>1, <3>2 DEF NoFile, entry
    <3> QED
      BY <3>4, <3>5 DEF HasNoCatalog
  <2>5. IsMade(K, unread)
    BY <1>1, <2>2, <2>3, <2>4 DEF IsMade
  <2>6. OrderOf(K, File(top)) = Order(top, family) /\ File(top).name = top
    <3>1. K[File(top)] = entry[top]
      BY <1>2, <1>7, <2>1, <2>2
    <3> QED
      BY <1>2, <1>3, <1>5, <3>1 DEF OrderOf
  <2> QED
    BY <1>5, <2>5, <2>6 DEF File, K
<1> QED
  BY <1>6, <1>7

\* A name that has an entry.
LEMMA EntryMade ==
  ASSUME NEW L, NEW unread, IsMade(L, unread), NEW s, NEW name, FileFor(s, name) \in DOMAIN L
  PROVE  OrderOf(L, FileFor(s, name)) \in Orders(name)
<1> DEFINE f == FileFor(s, name)
<1>1. f.name = name
  BY LacksIs
<1>2. PICK g \in Made : MadeBy(L, f, g)
  BY DEF IsMade
<1>3. name \in DOMAIN Families[g].entry /\ L[f].successor = Families[g].entry[name].successor
  BY <1>1, <1>2 DEF MadeBy
<1>4. Order(name, g) \in Orders(name)
  BY <1>3 DEF Orders
<1>5. OrderOf(L, f) = Order(name, g)
  BY <1>1, <1>3 DEF OrderOf, Order
<1> QED
  BY <1>4, <1>5

\* Only what is known of the files changes.
LEMMA MadeStays ==
  ASSUME NEW L, NEW K, NEW unread, NEW more, IsMade(L, unread), unread \subseteq more,
         DOMAIN K = DOMAIN L, \A f \in DOMAIN L : K[f].successor = L[f].successor,
         \A f \in DOMAIN L : K[f].decided /\ K[f].data = NULL =>
                                (L[f].decided /\ L[f].data = NULL) \/ HasNoCatalog(more, f)
  PROVE  IsMade(K, more)
<1>1. \A f : HasNoCatalog(unread, f) => HasNoCatalog(more, f)
  BY DEF HasNoCatalog
<1>2. \A f \in DOMAIN L : \A g : MadeBy(L, f, g) => MadeBy(K, f, g)
  BY DEF MadeBy
<1> QED
  BY <1>1, <1>2 DEF IsMade

-------------------------------------------------------------------------------
(* What the steps do to it. *)

LEMMA RootBestStays ==
  ASSUME Rest, RootBest, UNCHANGED <<root, _nl_msg_cat_cntr, env, enable_secure, _nl_domain_bindings>>,
         failed \subseteq failed', stale => stale'
  PROVE  RootBest'
<1> SUFFICES ASSUME ~stale, NEW k \in DOMAIN root, root[k].counter = _nl_msg_cat_cntr
             PROVE  IsBest(Sought(k.domainname)', k.msgid, root[k].domain)
  BY DEF RootBest
<1>1. IsBest(Sought(k.domainname), k.msgid, root[k].domain)
  BY DEF RootBest
<1> QED
  BY <1>1, SoughtStays

LEMMA OutsideBest ==
  ASSUME Rest, BestInv,
         \/ ChangeEnvironment
         \/ \E d \in Domains : \/ TEXTDOMAIN(d)
                               \/ \E dirname, codeset : Rebind(d, dirname, codeset) \/ Bind(d, dirname, codeset)
  PROVE  BestInv'
<1> DEFINE Flushed == /\ pc' = "idle" /\ UNCHANGED <<_nl_loaded_domains, aliases, root, failed>>
                      /\ \/ stale'
                         \/ ~stale' /\ _nl_msg_cat_cntr' = _nl_msg_cat_cntr + 1
                         \/ UNCHANGED <<stale, _nl_msg_cat_cntr, env, enable_secure, _nl_domain_bindings>>
<1>1. Flushed
  <2>1. CASE ChangeEnvironment
    BY <2>1 DEF ChangeEnvironment, history
  <2>2. ASSUME NEW d \in Domains, TEXTDOMAIN(d)
        PROVE  Flushed
    BY <2>2 DEF TEXTDOMAIN, Operation, Flushes, Flush, environment
  <2>3. ASSUME NEW d \in Domains, NEW dirname, NEW codeset,
               Rebind(d, dirname, codeset) \/ Bind(d, dirname, codeset)
        PROVE  Flushed
    BY <2>3 DEF Rebind, Bind, Operation, Flush, BindingUnchanged, environment
  <2> HIDE DEF Flushed
  <2> QED
    BY <2>1, <2>2, <2>3
<1>2. IsMade(_nl_loaded_domains, failed)' /\ AliasesKept'
  BY <1>1 DEF BestInv, AliasesKept, aliases
<1>3. CallBest'
  BY <1>1 DEF CallBest
<1>4. RootBest'
  <2>1. CASE stale'
    BY <2>1 DEF RootBest
  <2>2. CASE _nl_msg_cat_cntr' = _nl_msg_cat_cntr + 1
    <3>1. \A k \in DOMAIN root : root[k].counter \in Nat /\ root[k].counter <= _nl_msg_cat_cntr
      BY DEF Rest, Known
    <3>2. _nl_msg_cat_cntr \in Nat
      BY DEF Rest, Surroundings
    <3>3. \A k \in DOMAIN root : root[k].counter # _nl_msg_cat_cntr'
      BY <2>2, <3>1, <3>2
    <3> QED
      BY <1>1, <3>3 DEF RootBest
  <2>3. CASE UNCHANGED <<stale, _nl_msg_cat_cntr, env, enable_secure, _nl_domain_bindings>>
    BY <1>1, <2>3, RootBestStays DEF BestInv
  <2> QED
    BY <1>1, <2>1, <2>2, <2>3
<1> QED
  BY <1>2, <1>3, <1>4 DEF BestInv

LEMMA DCIGETTEXTBest ==
  ASSUME Rest, Copies, BestInv, NEW arguments \in Calls, DCIGETTEXT(arguments)
  PROVE  BestInv'
<1> DEFINE d == IF arguments.domainname = NULL THEN _nl_current_default_domain
                                               ELSE arguments.domainname
           c == [arguments EXCEPT !.domainname = d]
           k == root[Key(c)]
           s == Sought(d)
           known == Key(c) \in DOMAIN root /\ root[Key(c)].counter = _nl_msg_cat_cntr
<1>1. /\ UNCHANGED <<env, enable_secure, _nl_domain_bindings, _nl_msg_cat_cntr, _nl_loaded_domains,
                     aliases, root, failed>>
      /\ call' = c
      /\ \/ /\ known /\ UNCHANGED stale
            /\ answer'.file = k.domain /\ answer'.act = k.act /\ pc' = "answered"
         \/ categoryvalue' = guess_category_value /\ pc' = "locale" /\ UNCHANGED stale
         \/ stale'
  BY DEF DCIGETTEXT, Answer, environment, bindings
<1>2. IsMade(_nl_loaded_domains, failed)' /\ AliasesKept'
  BY <1>1 DEF BestInv, AliasesKept, aliases
<1>3. RootBest'
  <2>1. CASE stale'
    BY <2>1 DEF RootBest
  <2>2. CASE ~stale'
    BY <1>1, <2>2, RootBestStays DEF BestInv
  <2> QED
    BY <2>1, <2>2
<1>4. call'.domainname = d /\ call'.msgid = c.msgid
  <2>1. arguments \in [domainname : Domains \cup {NULL}, msgid : DOMAIN Hash, n : {NULL} \cup Nat]
    BY CallsAssumption
  <2> QED
    BY <1>1, <2>1
<1> HIDE DEF d, c, known
<1>5. Sought(call.domainname)' = s
  <2>1. guess_category_value' = guess_category_value
    BY <1>1 DEF guess_category_value
  <2>2. BindingPlace(call.domainname)' = BindingPlace(d)
    BY <1>1, <1>4 DEF BindingPlace
  <2>3. Binding(call.domainname)' = Binding(d)
    BY <1>1, <1>4, <2>2 DEF Binding
  <2>4. MoFile(call.domainname)' = MoFile(d)
    BY <1>4
  <2> QED
    BY <1>1, <2>1, <2>3, <2>4 DEF Sought
<1>6. CallBest'
  <2>1. CASE stale'
    BY <2>1 DEF CallBest
  <2>2. CASE /\ known /\ UNCHANGED stale
             /\ answer'.file = k.domain /\ answer'.act = k.act /\ pc' = "answered"
    <3>1. Key(c).domainname = d /\ Key(c).msgid = c.msgid
      BY DEF Key, c
    <3>2. ~stale => IsBest(s, c.msgid, k.domain)
      BY <2>2, <3>1 DEF known, BestInv, RootBest
    <3>3. k.act # NotFound
      BY <2>2 DEF known, Copies, RootHolds, IsTranslation
    <3> QED
      BY <1>4, <1>5, <2>2, <3>2, <3>3 DEF CallBest, AnswerIsBest, InList, IsBest
  <2>3. CASE categoryvalue' = guess_category_value /\ pc' = "locale" /\ UNCHANGED stale
    <3>1. s.names = guess_category_value /\ guess_category_value \in Seq(DOMAIN Families)
      BY GuessedNames DEF Sought, Rest, Surroundings
    <3> DEFINE names == s.names
    <3> HIDE DEF s
    <3>2. names = SubSeq(names, 1, Len(names)) /\ 1 \in 1..(Len(names) + 1)
      BY <3>1
    <3>3. InVain(s, c.msgid, 1)
      BY DEF InVain
    <3> QED
      BY <1>4, <1>5, <2>3, <3>1, <3>2, <3>3 DEF CallBest, AnswerIsBest, InList
  <2> QED
    BY <1>1, <2>1, <2>2, <2>3
<1> QED
  BY <1>2, <1>3, <1>6 DEF BestInv

LEMMA SoughtSame ==
  ASSUME UNCHANGED <<env, enable_secure, _nl_domain_bindings, call, failed>>
  PROVE  Sought(call.domainname)' = Sought(call.domainname)
<1>1. guess_category_value' = guess_category_value
  BY DEF guess_category_value
<1>2. Binding(call.domainname)' = Binding(call.domainname)
  BY DEF Binding, BindingPlace
<1> QED
  BY <1>1, <1>2 DEF Sought

LEMMA RestOfList ==
  ASSUME NEW S, NEW names \in Seq(S), NEW i \in 1..(Len(names) + 1), NEW c, c = SubSeq(names, i, Len(names))
  PROVE  /\ c = <<>> => i = Len(names) + 1
         /\ c # <<>> => /\ i \in DOMAIN names /\ Head(c) = names[i]
                        /\ Tail(c) = SubSeq(names, i + 1, Len(names))
<1> DEFINE n == Len(names)
<1>1. n \in Nat /\ DOMAIN names = 1..n
  OBVIOUS
<1>2. CASE i = n + 1
  <2>1. c = <<>>
    BY <1>1, <1>2
  <2> QED
    BY <1>2, <2>1
<1>3. CASE i # n + 1
  <2>1. i \in 1..n
    BY <1>1, <1>3
  <2>2. Len(c) = n - i + 1 /\ n \in i..n
    BY <1>1, <2>1
  <2>3. c # <<>>
    <3> SUFFICES ASSUME c = <<>> PROVE FALSE
      OBVIOUS
    <3>1. Len(c) = 0
      OBVIOUS
    <3> QED
      BY <1>1, <2>1, <2>2, <3>1
  <2> QED
    BY <1>1, <2>1, <2>2, <2>3, HeadTailOfSubSeq
<1> QED
  BY <1>2, <1>3

\* One more locale that is passed, or whose files all lack the message.
LEMMA OneMore ==
  ASSUME NEW s, NEW msgid, NEW i \in Nat, InVain(s, msgid, i),
         \/ Passes(s, s.names[i])
         \/ /\ ~IsC(s.names[i])
            /\ \E order \in Orders(s.names[i]) : \A k \in DOMAIN order : Lacks(s, msgid, order[k])
  PROVE  InVain(s, msgid, i + 1)
<1> DEFINE Vain(j) == \/ Passes(s, s.names[j])
                      \/ /\ ~IsC(s.names[j])
                         /\ \E order \in Orders(s.names[j]) :
                              \A k \in DOMAIN order : Lacks(s, msgid, order[k])
<1>1. \A m : InVain(s, msgid, m) <=> \A j \in 1..(m - 1) : Vain(j)
  BY DEF InVain
<1>2. Vain(i)
  OBVIOUS
<1>3. 1..(i + 1 - 1) \subseteq 1..(i - 1) \cup {i}
  OBVIOUS
<1> HIDE DEF Vain
<1> QED
  BY <1>1, <1>2, <1>3

LEMMA NextLocaleBest ==
  ASSUME Rest, BestInv, NextLocale
  PROVE  BestInv'
<1> DEFINE name == IF categoryvalue = <<>> THEN <<Token("", "C")>> ELSE Head(categoryvalue)
           rest == IF categoryvalue = <<>> THEN <<>> ELSE Tail(categoryvalue)
           s == Sought(call.domainname)
           n == Len(s.names)
           msgid == call.msgid
<1>1. /\ UNCHANGED <<env, enable_secure, _nl_domain_bindings, _nl_msg_cat_cntr, _nl_loaded_domains,
                     aliases, root, failed, call, stale>>
      /\ pc = "locale" /\ single_locale' = name /\ categoryvalue' = rest
      /\ \/ /\ enable_secure /\ IS_PATH_WITH_DIR(name) /\ pc' = pc
         \/ /\ ~(enable_secure /\ IS_PATH_WITH_DIR(name)) /\ IsC(name)
            /\ Untranslated
         \/ /\ ~(enable_secure /\ IS_PATH_WITH_DIR(name)) /\ ~IsC(name) /\ pc' = "find"
  BY DEF NextLocale, environment, bindings, history
<1>2. IsMade(_nl_loaded_domains, failed)' /\ AliasesKept' /\ RootBest'
  BY <1>1, RootBestStays DEF BestInv, AliasesKept, aliases
<1>3. Sought(call.domainname)' = s /\ s' = s /\ s.secure = enable_secure
  BY <1>1, SoughtSame DEF Sought
<1>4. s.names \in Seq(DOMAIN Families)
  BY GuessedNames DEF Sought, Rest, Surroundings
<1>5. /\ categoryvalue = <<>> => IsC(name)
      /\ Untranslated => pc' = "answered" /\ answer'.act = NotFound
  <2>1. Untranslated => pc' = "answered" /\ answer'.act = NotFound
    BY DEF Untranslated, Answer
  <2> QED
    BY <2>1 DEF IsC
<1>6. ASSUME ~stale
      PROVE  CallBest'
  <2>1. PICK i \in 1..(n + 1) : InVain(s, msgid, i) /\ categoryvalue = SubSeq(s.names, i, n)
    BY <1>1, <1>6 DEF BestInv, CallBest
  <2> HIDE DEF s
  <2>2. CASE categoryvalue = <<>>
    <3>1. i = n + 1
      BY <1>4, <2>1, <2>2, RestOfList
    <3>2. categoryvalue' = categoryvalue
      BY <1>1, <2>2
    <3>3. ListEnds(s, i)
      BY <1>4, <3>1 DEF ListEnds
    <3>4. /\ pc' \in {"locale", "answered"}
          /\ pc' = "answered" => answer'.act = NotFound
      BY <1>1, <1>5, <2>2
    <3> HIDE DEF name, rest
    <3> QED
      BY <1>1, <1>3, <1>6, <2>1, <3>2, <3>3, <3>4 DEF CallBest, AnswerIsBest, InList
  <2>3. CASE categoryvalue # <<>>
    <3>1. i \in DOMAIN s.names /\ name = s.names[i] /\ rest = SubSeq(s.names, i + 1, n)
      BY <1>4, <2>1, <2>3, RestOfList
    <3> HIDE DEF name, rest
    <3>2. i \in 1..n /\ n \in Nat /\ i + 1 \in 1..(n + 1)
      BY <1>4, <3>1
    <3>3. Passes(s, name) <=> enable_secure /\ IS_PATH_WITH_DIR(name)
      BY <1>3 DEF Passes
    <3>4. CASE Passes(s, name) /\ pc' = pc
      <4>1. InVain(s, msgid, i + 1)
        <5>1. Passes(s, s.names[i])
          BY <3>1, <3>4
        <5> QED
          BY <2>1, <3>2, <5>1, OneMore
      <4> QED
        BY <1>1, <1>3, <3>1, <3>2, <3>4, <4>1 DEF CallBest, AnswerIsBest, InList
    <3>5. CASE ~Passes(s, name) /\ IsC(name) /\ pc' = "answered" /\ answer'.act = NotFound
      <4>1. ListEnds(s, i)
        BY <3>1, <3>5 DEF ListEnds
      <4> QED
        BY <1>1, <1>3, <2>1, <3>5, <4>1 DEF CallBest, AnswerIsBest, InList
    <3>6. CASE ~Passes(s, name) /\ ~IsC(name) /\ pc' = "find"
      <4>1. Turn(s, msgid)'
        BY <1>1, <1>3, <2>1, <3>1, <3>6 DEF Turn
      <4> QED
        BY <1>1, <1>3, <3>6, <4>1 DEF CallBest, AnswerIsBest, InList
    <3> QED
      BY <1>1, <1>5, <3>3, <3>4, <3>5, <3>6
  <2> QED
    BY <2>2, <2>3
<1>7. CallBest'
  BY <1>1, <1>6 DEF CallBest
<1> QED
  BY <1>2, <1>7 DEF BestInv

LEMMA FindDomainBest ==
  ASSUME InOrder, Rest, BestInv, FindDomain
  PROVE  BestInv'
<1> DEFINE s == Sought(call.domainname)
           L == _nl_loaded_domains
           K == L'
           this == FileFor(s, single_locale)
<1>1. /\ UNCHANGED <<env, enable_secure, _nl_domain_bindings, _nl_msg_cat_cntr, root, failed, call,
                     single_locale, categoryvalue>>
      /\ pc = "find" /\ pc' \in {"load", "locale"}
      /\ stale => stale'
  BY DEF FindDomain, environment, bindings
<1>2. /\ single_locale \in DOMAIN Families /\ call.domainname \in Domains
      /\ IsList(L) /\ Surroundings
  BY <1>1 DEF Rest, Calling
<1>3. /\ s.dirname = Dirname /\ s.file = xdomainname /\ s.file = MoFile(call.domainname)
      /\ s.dirname \in Dirs /\ s.failed = failed
      /\ \A name : FileFor(s, name) = Filename(Dirname, name, xdomainname)
  BY <1>2, DirnameIs DEF Sought, Dirname, xdomainname, FileFor
<1>4. Sought(call.domainname)' = s /\ s' = s
  BY <1>1, SoughtSame
<1>5. RootBest'
  BY <1>1, RootBestStays DEF BestInv
<1>6. IsMade(L, failed) /\ AliasesKept
  BY DEF BestInv
\* What it comes to.
<1> DEFINE Goes == /\ pc' = "load" /\ domain' = FileFor(s, domain'.name)
                   /\ OrderOf(K, domain') \in Orders(single_locale)
<1>7. IsMade(K, failed) /\ AliasesKept' /\ (stale' \/ Goes)
  <2>1. CASE this \in DOMAIN L
    <3>1. domain' = this /\ UNCHANGED <<_nl_loaded_domains, aliases>> /\ pc' = "load"
      BY <1>3, <2>1 DEF FindDomain
    <3>2. IsMade(K, failed) /\ AliasesKept'
      BY <1>6, <3>1 DEF AliasesKept, aliases
    <3>3. this.name = single_locale /\ OrderOf(L, this) \in Orders(single_locale)
      BY <1>6, <2>1, EntryMade, LacksIs
    <3> HIDE DEF this
    <3> QED
      BY <3>1, <3>2, <3>3 DEF this
  <2>2. CASE this \notin DOMAIN L
    <3>1. PICK a : /\ a = _nl_expand_alias(map, locale_alias_path, single_locale)
                   /\ map' = a.map /\ locale_alias_path' = a.path
                   /\ \/ /\ pc' = "load"
                         /\ LET family == Families[IF a.value = NULL THEN single_locale ELSE a.value]
                            IN  /\ K = _nl_make_l10nflist(L, Dirname, family, xdomainname)
                                /\ domain' = Filename(Dirname, family.top, xdomainname)
                      \/ stale' /\ UNCHANGED _nl_loaded_domains
      BY <1>3, <2>2 DEF FindDomain
    <3> DEFINE name == IF a.value = NULL THEN single_locale ELSE a.value
    <3>2. name \in Meant(single_locale) /\ AliasesKept'
      BY <1>2, <1>6, <3>1, AliasMeant DEF AliasesKept
    <3> HIDE DEF name
    <3>3. CASE /\ pc' = "load"
               /\ K = _nl_make_l10nflist(L, s.dirname, Families[name], s.file)
               /\ domain' = FileFor(s, Families[name].top)
      <4> HIDE DEF s
      <4>1. /\ IsMade(K, failed) /\ domain'.name = Families[name].top
            /\ OrderOf(K, domain') \in Orders(single_locale)
        BY <1>2, <1>3, <1>6, <2>2, <3>2, <3>3, FamilyMade
      <4> QED
        BY <3>2, <3>3, <4>1
    <3>4. CASE stale' /\ UNCHANGED _nl_loaded_domains
      BY <1>6, <3>2, <3>4
    <3> QED
      BY <1>3, <3>1, <3>3, <3>4 DEF name
  <2> QED
    BY <2>1, <2>2
<1>8. CallBest'
  <2> SUFFICES ASSUME ~stale' PROVE CallBest'
    BY DEF CallBest
  <2>1. Turn(s, call.msgid)
    BY <1>1 DEF BestInv, CallBest
  <2>2. Turn(s, call.msgid)'
    <3> HIDE DEF s
    <3> QED
      BY <1>1, <1>4, <2>1 DEF Turn
  <2> HIDE DEF s
  <2> QED
    BY <1>1, <1>4, <1>7, <2>2 DEF CallBest, AnswerIsBest, InList
<1> QED
  BY <1>1, <1>5, <1>7, <1>8 DEF BestInv

\* The files of the list are those of the order that the call goes through.
LEMMA FilesOfOrder ==
  ASSUME IsList(_nl_loaded_domains), domain \in DOMAIN _nl_loaded_domains, NEW unread,
         IsMade(_nl_loaded_domains, unread), NEW s, domain = FileFor(s, domain.name)
  PROVE  /\ LastFile \in Nat
         /\ DOMAIN OrderOf(_nl_loaded_domains, domain) = 1..(LastFile + 1)
         /\ \A k \in 0..LastFile :
              FileAt(k) = FileFor(s, OrderOf(_nl_loaded_domains, domain)[k + 1])
<1> DEFINE L == _nl_loaded_domains
           successor == L[domain].successor
           order == OrderOf(L, domain)
<1>1. PICK family \in Made : MadeBy(L, domain, family)
  BY DEF IsMade
<1>2. /\ \A name \in DOMAIN Families[family].entry : [domain EXCEPT !.name = name] = FileFor(s, name)
      /\ successor \in Seq(DOMAIN Families[family].entry)
  BY <1>1, NamesOfFamily
<1>3. LastFile = Len(successor)
  BY DEF LastFile
<1>4. order = <<domain.name>> \o successor
  BY DEF OrderOf
<1>5. /\ FileAt(0) = domain
      /\ \A k \in 1..LastFile : FileAt(k) = [domain EXCEPT !.name = successor[k]]
  BY DEF FileAt
<1> HIDE DEF successor, order
<1>6. /\ LastFile \in Nat /\ DOMAIN order = 1..(LastFile + 1) /\ order[1] = domain.name
      /\ \A k \in 1..LastFile : order[k + 1] = successor[k] /\ k \in DOMAIN successor
  <2>1. Len(<<domain.name>>) = 1 /\ <<domain.name>>[1] = domain.name
    OBVIOUS
  <2> QED
    BY <1>2, <1>3, <1>4, <2>1
<1>7. \A k \in 1..LastFile : successor[k] \in DOMAIN Families[family].entry
  BY <1>2, <1>6
<1>8. ASSUME NEW k \in 0..LastFile PROVE FileAt(k) = FileFor(s, order[k + 1])
  <2>1. CASE k = 0
    BY <1>5, <1>6, <2>1
  <2>2. CASE k # 0
    <3>1. k \in 1..LastFile
      BY <1>6, <2>2
    <3> QED
      BY <1>2, <1>5, <1>6, <1>7, <3>1
  <2> QED
    BY <2>1, <2>2
<1> QED
  BY <1>6, <1>8 DEF order

\* What a loop passes has no catalog, or none with the message.
LEMMA PassedMade ==
  ASSUME IsList(_nl_loaded_domains), domain \in DOMAIN _nl_loaded_domains,
         IsMade(_nl_loaded_domains, failed), cnt \in 0..LastFile,
         NEW stop \in cnt..(LastFile + 1), Stop(stop)
  PROVE  /\ IsMade(Passed(stop), failed)
         /\ pc = "search" => \A k \in cnt..(stop - 1) : HasNone(failed, call.msgid, FileAt(k))
<1> DEFINE L == _nl_loaded_domains
           K == Passed(stop)
<1>1. LastFile \in Nat /\ \A k \in 0..LastFile : FileAt(k) \in DOMAIN L
  BY InTheList
<1>2. ASSUME NEW k \in cnt..(stop - 1)
      PROVE  /\ ~L[FileAt(k)].decided => HasNoCatalog(failed, FileAt(k))
             /\ pc = "search" => HasNone(failed, call.msgid, FileAt(k))
  <2> DEFINE f == FileAt(k)
  <2>1. ~Stops(k)
    BY DEF Stop
  <2>2. ~Wanted(f) /\ ~Unread(f)
    BY <2>1 DEF Stops
  <2>3. f \in DOMAIN L
    BY <1>1
  <2> HIDE DEF f
  <2>4. ~L[f].decided => HasNoCatalog(failed, f)
    BY <2>2 DEF Unread, HasNoCatalog
  <2>5. L[f].decided /\ L[f].data = NULL => HasNoCatalog(failed, f)
    BY <2>3 DEF IsMade
  <2>6. pc = "search" /\ L[f].data # NULL => Catalog[f].index[call.msgid] = NotFound
    BY <2>2 DEF Wanted
  <2>7. L[f].data = NULL \/ L[f].decided
    BY <2>3 DEF IsList, ReadOnce
  <2> QED
    BY <2>4, <2>5, <2>6, <2>7 DEF HasNone, f
<1>3. /\ DOMAIN K = DOMAIN L
      /\ \A f \in DOMAIN L : K[f].successor = L[f].successor /\ K[f].data = L[f].data
  BY PassedShape
<1>4. \A f \in DOMAIN L : K[f] = L[f] \/ (~L[f].decided /\ \E k \in cnt..(stop - 1) : f = FileAt(k))
  BY DEF Passed
<1> HIDE DEF K
<1>5. \A f \in DOMAIN L : K[f].decided /\ K[f].data = NULL =>
                             (L[f].decided /\ L[f].data = NULL) \/ HasNoCatalog(failed, f)
  BY <1>2, <1>4
<1>6. IsMade(K, failed)
  BY <1>3, <1>5, MadeStays
<1> QED
  BY <1>2, <1>6 DEF K

\* A step at a file of the list.
LEMMA InPlaceBest ==
  ASSUME Rest, BestInv, pc \in InList, pc' \in InList,
         UNCHANGED <<env, enable_secure, _nl_domain_bindings, _nl_msg_cat_cntr, aliases, root, call,
                     categoryvalue, single_locale, domain, stale>>,
         failed \subseteq failed',
         NEW K, K = _nl_loaded_domains', IsMade(K, failed'),
         K[domain].successor = _nl_loaded_domains[domain].successor,
         pc' # "load" /\ ~stale => \A k \in 0..(cnt' - 1) : HasNone(failed', call.msgid, FileAt(k))
  PROVE  BestInv'
<1> DEFINE L == _nl_loaded_domains
           d == call.domainname
           s == Sought(d)
           t == Sought(d)'
           msgid == call.msgid
<1>1. /\ t.names = s.names /\ t.secure = s.secure
      /\ \A i : InVain(s, msgid, i) => InVain(t, msgid, i)
      /\ \A name : FileFor(t, name) = FileFor(s, name) /\ Passes(t, name) = Passes(s, name)
  BY SoughtStays
<1>2. t = Sought(call.domainname)'
  OBVIOUS
<1> HIDE DEF s, t, d
<1>3. RootBest' /\ AliasesKept'
  BY RootBestStays DEF BestInv, AliasesKept, aliases
<1>4. /\ OrderOf(K, domain) = OrderOf(L, domain) /\ \A k : FileAt(k)' = FileAt(k)
  BY SamePlace DEF OrderOf
<1>5. ASSUME ~stale PROVE CallBest'
  <2>1. /\ Turn(s, msgid) /\ domain = FileFor(s, domain.name)
        /\ OrderOf(L, domain) \in Orders(single_locale)
    BY <1>5 DEF BestInv, CallBest, InList, s, d
  <2>2. PICK i \in DOMAIN s.names : /\ InVain(s, msgid, i) /\ single_locale = s.names[i]
                                    /\ categoryvalue = SubSeq(s.names, i + 1, Len(s.names))
                                    /\ ~Passes(s, single_locale) /\ ~IsC(single_locale)
    BY <2>1 DEF Turn
  <2>3. /\ i \in DOMAIN t.names /\ InVain(t, msgid, i) /\ single_locale' = t.names[i]
        /\ categoryvalue' = SubSeq(t.names, i + 1, Len(t.names))
        /\ ~Passes(t, single_locale') /\ ~IsC(single_locale')
    BY <1>1, <2>2
  <2>4. Turn(Sought(call.domainname), call.msgid)'
    BY <1>2, <2>3 DEF Turn
  <2>5. domain' = FileFor(t, domain'.name) /\ OrderOf(K, domain') \in Orders(single_locale')
    BY <1>1, <1>4, <2>1
  <2> QED
    BY <1>2, <1>4, <2>4, <2>5 DEF CallBest, AnswerIsBest, InList
<1>6. CallBest'
  BY <1>5 DEF CallBest
<1> QED
  BY <1>3, <1>6 DEF BestInv

LEMMA LoadBest ==
  ASSUME InOrder, Rest, BestInv, Load
  PROVE  BestInv'
<1> DEFINE L == _nl_loaded_domains
           K == L'
<1>1. PICK stop \in cnt..LastFile :
        /\ Stop(stop) /\ cnt' = stop
        /\ LET f == FileAt(stop)
               With(data) == K = [Passed(stop) EXCEPT ![f] = Decided(@, data)]
           IN  \/ With(_nl_init_domain_conv(Catalog[f], Binding(call.domainname))) /\ UNCHANGED failed
               \/ With(NULL) /\ failed' = failed \cup {f}
  BY DEF Load, history
<1>2. /\ pc \in {"load", "search"} /\ pc' = pc
      /\ UNCHANGED <<env, enable_secure, _nl_domain_bindings, _nl_msg_cat_cntr, aliases, root, call,
                     categoryvalue, single_locale, domain, stale>>
  BY DEF Load, environment, bindings
<1> DEFINE f == FileAt(stop)
           P == Passed(stop)
<1>3. /\ IsList(L) /\ IsMade(L, failed) /\ cnt \in 0..LastFile /\ domain \in DOMAIN L
      /\ call.domainname \in Domains
  BY <1>2 DEF Rest, Position, Calling, InList, BestInv
<1>4. LastFile \in Nat /\ stop \in cnt..(LastFile + 1)
  BY <1>1, <1>3, InTheList
<1>5. /\ IsMade(P, failed)
      /\ pc = "search" => \A k \in cnt..(stop - 1) : HasNone(failed, call.msgid, FileAt(k))
  BY <1>1, <1>3, <1>4, PassedMade
<1>6. /\ P \in [DOMAIN L -> Entries]
      /\ \A g \in DOMAIN L : P[g].successor = L[g].successor
  BY <1>3, PassedShape
<1>7. PICK data : /\ K = [P EXCEPT ![f] = Decided(@, data)]
                  /\ failed \subseteq failed'
                  /\ data = NULL => f \in failed'
  <2>1. CASE /\ K = [P EXCEPT ![f] = Decided(@, _nl_init_domain_conv(Catalog[f], Binding(call.domainname)))]
             /\ UNCHANGED failed
    <3> DEFINE new == _nl_init_domain_conv(Catalog[f], Binding(call.domainname))
    <3>1. new \in Data
      BY <1>3, NewConverter
    <3>2. new # NULL
      BY <3>1, PointersAssumption
    <3> QED
      BY <2>1, <3>2
  <2>2. CASE K = [P EXCEPT ![f] = Decided(@, NULL)] /\ failed' = failed \cup {f}
    BY <2>2
  <2> QED
    BY <1>1, <2>1, <2>2
<1> HIDE DEF P, f
<1>8. /\ DOMAIN K = DOMAIN P /\ DOMAIN P = DOMAIN L
      /\ \A g \in DOMAIN P : \/ K[g] = P[g]
                             \/ g = f /\ K[g].successor = P[g].successor /\ K[g].data = data
  <2>1. \A e \in Entries : Decided(e, data).data = data /\ Decided(e, data).successor = e.successor
    BY DEF Decided, Entries
  <2> QED
    BY <1>6, <1>7, <2>1
<1> HIDE DEF K
<1>9. IsMade(K, failed')
  <2>1. ASSUME NEW g \in DOMAIN P
        PROVE  /\ K[g].successor = P[g].successor
               /\ K[g].decided /\ K[g].data = NULL =>
                    (P[g].decided /\ P[g].data = NULL) \/ HasNoCatalog(failed', g)
    BY <1>7, <1>8 DEF HasNoCatalog
  <2> QED
    BY <1>5, <1>7, <1>8, <2>1, MadeStays
<1>10. pc' # "load" /\ ~stale => \A k \in 0..(cnt' - 1) : HasNone(failed', call.msgid, FileAt(k))
  <2> SUFFICES ASSUME pc = "search", ~stale, NEW k \in 0..(stop - 1)
               PROVE  HasNone(failed', call.msgid, FileAt(k))
    BY <1>1, <1>2
  <2>1. \/ k \in 0..(cnt - 1) \/ k \in cnt..(stop - 1)
    BY <1>1, <1>3, <1>4
  <2>2. HasNone(failed, call.msgid, FileAt(k))
    BY <1>5, <2>1 DEF BestInv, CallBest, InList
  <2> QED
    BY <1>7, <2>2 DEF HasNone, HasNoCatalog
<1>11. pc \in InList /\ pc' \in InList
  BY <1>2 DEF InList
<1>12. K[domain].successor = L[domain].successor
  BY <1>3, <1>6, <1>8
<1> QED
  BY <1>2, <1>7, <1>9, <1>10, <1>11, <1>12, InPlaceBest DEF K

LEMMA EndLoopBest ==
  ASSUME Rest, BestInv, EndLoop
  PROVE  BestInv'
<1> DEFINE L == _nl_loaded_domains
           K == L'
           s == Sought(call.domainname)
           msgid == call.msgid
<1>1. PICK stop \in cnt..(LastFile + 1) :
        /\ Stop(stop) /\ K = Passed(stop)
        /\ \/ pc = "load" /\ pc' = "search" /\ cnt' = 0
           \/ pc = "search" /\ stop <= LastFile /\ pc' = "translate" /\ cnt' = stop
           \/ pc = "search" /\ stop > LastFile /\ pc' = "locale" /\ cnt' = 0
  BY DEF EndLoop
<1>2. UNCHANGED <<env, enable_secure, _nl_domain_bindings, _nl_msg_cat_cntr, aliases, root, call,
                  categoryvalue, single_locale, domain, stale, failed>>
  BY DEF EndLoop, environment, bindings, history
<1>3. /\ IsList(L) /\ IsMade(L, failed) /\ cnt \in 0..LastFile /\ domain \in DOMAIN L
  BY <1>1 DEF Rest, Position, InList, BestInv
<1>4. LastFile \in Nat
  BY <1>3, InTheList
<1>5. /\ IsMade(K, failed)
      /\ pc = "search" => \A k \in cnt..(stop - 1) : HasNone(failed, msgid, FileAt(k))
  BY <1>1, <1>3, PassedMade
<1>6. K[domain].successor = L[domain].successor
  BY <1>1, <1>3, PassedShape
<1> HIDE DEF K
<1>7. ASSUME pc = "search", ~stale, NEW k \in 0..(stop - 1) PROVE HasNone(failed, msgid, FileAt(k))
  <2>1. \/ k \in 0..(cnt - 1) \/ k \in cnt..(stop - 1)
    BY <1>1, <1>3, <1>4
  <2> QED
    BY <1>5, <1>7, <2>1 DEF BestInv, CallBest, InList
<1>8. CASE pc' = "search" /\ cnt' = 0
  <2>1. pc \in InList /\ pc' \in InList /\ 0..(cnt' - 1) = {}
    BY <1>1, <1>8 DEF InList
  <2> QED
    BY <1>2, <1>5, <1>6, <2>1, InPlaceBest DEF K
<1>9. CASE pc = "search" /\ pc' = "translate" /\ cnt' = stop
  <2>1. pc \in InList /\ pc' \in InList
    BY <1>9 DEF InList
  <2>2. ~stale => \A k \in 0..(cnt' - 1) : HasNone(failed', call.msgid, FileAt(k))
    BY <1>2, <1>7, <1>9
  <2> QED
    BY <1>2, <1>5, <1>6, <2>1, <2>2, InPlaceBest DEF K
<1>10. CASE pc = "search" /\ stop > LastFile /\ pc' = "locale"
  <2>1. Sought(call.domainname)' = s /\ s' = s /\ s.failed = failed
    BY <1>2, SoughtSame DEF Sought
  <2>2. RootBest' /\ AliasesKept'
    BY <1>2, RootBestStays DEF BestInv, AliasesKept, aliases
  <2>3. ASSUME ~stale PROVE CallBest'
    <3>1. /\ Turn(s, msgid) /\ domain = FileFor(s, domain.name)
          /\ OrderOf(L, domain) \in Orders(single_locale)
      BY <1>10, <2>3 DEF BestInv, CallBest, InList
    <3>2. s.names \in Seq(DOMAIN Families)
      BY GuessedNames DEF Sought, Rest, Surroundings
    <3> HIDE DEF s
    <3>3. PICK i \in DOMAIN s.names : /\ InVain(s, msgid, i) /\ single_locale = s.names[i]
                                      /\ categoryvalue = SubSeq(s.names, i + 1, Len(s.names))
                                      /\ ~Passes(s, single_locale) /\ ~IsC(single_locale)
      BY <3>1 DEF Turn
    <3> DEFINE order == OrderOf(L, domain)
    <3>4. \A k \in DOMAIN order : Lacks(s, msgid, order[k])
      <4>1. /\ DOMAIN order = 1..(LastFile + 1)
            /\ \A k \in 0..LastFile : FileAt(k) = FileFor(s, order[k + 1])
        BY <1>3, <3>1, FilesOfOrder
      <4> HIDE DEF order
      <4> SUFFICES ASSUME NEW k \in 1..(LastFile + 1) PROVE Lacks(s, msgid, order[k])
        BY <4>1
      <4>2. k - 1 \in 0..LastFile /\ k - 1 \in 0..(stop - 1) /\ (k - 1) + 1 = k
        BY <1>1, <1>4, <1>10
      <4>3. HasNone(failed, msgid, FileFor(s, order[k]))
        BY <1>7, <1>10, <2>3, <4>1, <4>2
      <4> QED
        BY <2>1, <4>3, LacksIs
    <3>5. i \in Nat /\ i + 1 \in 1..(Len(s.names) + 1)
      BY <3>2
    <3>6. InVain(s, msgid, i + 1)
      <4> HIDE DEF order
      <4> QED
        BY <3>1, <3>3, <3>4, <3>5, OneMore DEF order
    <3> QED
      BY <1>2, <1>10, <2>1, <3>3, <3>5, <3>6 DEF CallBest, AnswerIsBest, InList
  <2>4. CallBest'
    BY <1>2, <2>3 DEF CallBest
  <2> QED
    BY <1>2, <1>5, <2>2, <2>4 DEF BestInv, K
<1> QED
  BY <1>1, <1>8, <1>9, <1>10

\* The file at which a search ends is the first of the order that has the message.
LEMMA FirstIsBest ==
  ASSUME Rest, BestInv, ~stale, pc \in {"translate", "convert"}
  PROVE  IsBest(Sought(call.domainname), call.msgid, FileAt(cnt))
<1> DEFINE L == _nl_loaded_domains
           s == Sought(call.domainname)
           msgid == call.msgid
           order == OrderOf(L, domain)
<1>1. /\ IsList(L) /\ IsMade(L, failed) /\ cnt \in 0..LastFile /\ domain \in DOMAIN L
  BY DEF Rest, Position, InList, BestInv
<1>2. /\ Turn(s, msgid) /\ domain = FileFor(s, domain.name) /\ order \in Orders(single_locale)
      /\ \A k \in 0..(cnt - 1) : HasNone(failed, msgid, FileAt(k))
  BY DEF BestInv, CallBest, InList
<1>3. s.failed = failed
  BY DEF Sought
<1> HIDE DEF s
<1>4. PICK i \in DOMAIN s.names : /\ InVain(s, msgid, i) /\ single_locale = s.names[i]
                                  /\ ~Passes(s, single_locale) /\ ~IsC(single_locale)
  BY <1>2 DEF Turn
<1>5. /\ LastFile \in Nat /\ DOMAIN order = 1..(LastFile + 1)
      /\ \A k \in 0..LastFile : FileAt(k) = FileFor(s, order[k + 1])
  BY <1>1, <1>2, FilesOfOrder
<1> HIDE DEF order
<1>6. cnt + 1 \in DOMAIN order /\ FileAt(cnt) = FileFor(s, order[cnt + 1])
  BY <1>1, <1>5
<1>7. ASSUME NEW j \in 1..cnt PROVE Lacks(s, msgid, order[j])
  <2>1. j - 1 \in 0..(cnt - 1) /\ j - 1 \in 0..LastFile /\ (j - 1) + 1 = j
    BY <1>1, <1>5
  <2>2. HasNone(s.failed, msgid, FileFor(s, order[j]))
    BY <1>2, <1>3, <1>5, <2>1
  <2> QED
    BY <2>2, LacksIs
<1>8. (cnt + 1) - 1 = cnt
  BY <1>1
<1>9. \E k \in DOMAIN order : /\ FileAt(cnt) = FileFor(s, order[k])
                              /\ \A j \in 1..(k - 1) : Lacks(s, msgid, order[j])
  BY <1>6, <1>7, <1>8
<1>10. IsFirst(s, msgid, i, FileAt(cnt))
  BY <1>2, <1>4, <1>9 DEF IsFirst
<1> QED
  BY <1>4, <1>10 DEF IsBest, s

LEMMA TranslateBest ==
  ASSUME InOrder, PoolInv, Rest, Rest', BestInv, FindMsg \/ Convert
  PROVE  BestInv'
<1> DEFINE L == _nl_loaded_domains
           K == L'
           f == FileAt(cnt)
           s == Sought(call.domainname)
<1>1. /\ UNCHANGED <<env, enable_secure, _nl_domain_bindings, _nl_msg_cat_cntr, aliases, root, call,
                     categoryvalue, single_locale, domain, cnt, stale, failed>>
      /\ pc \in {"translate", "convert"}
  BY DEF FindMsg, Convert, environment, bindings, lookup
<1>2. /\ (\E data : SetData(data)) \/ UNCHANGED _nl_loaded_domains
      /\ \/ pc' = "convert"
         \/ pc' = "found" /\ retval'.file = f
  <2>1. CASE FindMsg
    <3> DEFINE data == Current(This.data, Binding(call.domainname))
    <3>1. PICK tab : SetData([data EXCEPT !.conv_tab = tab]) /\ FindMsgDoes(data, tab)
      BY <2>1, FindMsgCases
    <3> HIDE DEF data
    <3> QED
      BY <3>1 DEF FindMsgDoes, Found
  <2>2. CASE Convert
    BY <1>1, <2>2 DEF Convert, Found
  <2> QED
    BY <2>1, <2>2
<1>3. /\ IsList(L) /\ f \in DOMAIN L /\ IsMade(L, failed) /\ L[f].data # NULL /\ domain \in DOMAIN L
  BY <1>1, AtFile DEF BestInv, Rest, Position, InList
<1>4. /\ DOMAIN K = DOMAIN L /\ \A g \in DOMAIN L : K[g].successor = L[g].successor
      /\ \A g \in DOMAIN L : g # f => K[g] = L[g]
  <2>1. CASE \E data : SetData(data)
    <3>1. PICK data : SetData(data)
      BY <2>1
    <3>2. \A g \in DOMAIN L : K[g].successor = L[g].successor
      BY <1>1, <3>1, SetDataIs
    <3>3. L \in [DOMAIN L -> Entries]
      BY <1>3 DEF IsList
    <3>4. K = [L EXCEPT ![f].data = data]
      BY <3>1 DEF SetData
    <3> HIDE DEF f
    <3>5. DOMAIN K = DOMAIN L /\ \A g \in DOMAIN L : g # f => K[g] = L[g]
      BY <3>3, <3>4
    <3> QED
      BY <3>2, <3>5
  <2> QED
    BY <1>2, <2>1
<1>5. \A k : FileAt(k)' = FileAt(k)
  BY <1>1, <1>3, <1>4, SamePlace
<1>6. K[f].data # NULL
  <2>1. CASE pc' = "convert"
    <3>1. FileAt(cnt)' = f
      BY <1>1, <1>5
    <3> QED
      BY <2>1, <3>1 DEF Rest, Position, This
  <2>2. CASE pc' = "found" /\ retval'.file = f
    BY <2>2 DEF Rest, Known, IsLoaded
  <2> QED
    BY <1>2, <2>1, <2>2
<1> HIDE DEF K
<1>7. IsMade(K, failed)
  <2> HIDE DEF f
  <2>1. \A g \in DOMAIN L : K[g].decided /\ K[g].data = NULL => L[g].decided /\ L[g].data = NULL
    BY <1>4, <1>6
  <2> QED
    BY <1>3, <1>4, <2>1, MadeStays
<1>8. CASE pc' = "convert"
  <2>1. pc \in InList /\ pc' \in InList /\ pc \in InList \ {"load"}
    BY <1>1, <1>8 DEF InList
  <2>2. ~stale => \A k \in 0..(cnt' - 1) : HasNone(failed', call.msgid, FileAt(k))
    BY <1>1, <2>1 DEF BestInv, CallBest
  <2> QED
    BY <1>1, <1>3, <1>4, <1>7, <2>1, <2>2, InPlaceBest DEF K
<1>9. CASE pc' = "found" /\ retval'.file = f
  <2>1. Sought(call.domainname)' = s
    BY <1>1, SoughtSame
  <2>2. RootBest' /\ AliasesKept'
    BY <1>1, RootBestStays DEF BestInv, AliasesKept, aliases
  <2>3. ASSUME ~stale PROVE CallBest'
    <3>1. IsBest(s, call.msgid, f)
      BY <1>1, <2>3, FirstIsBest
    <3> HIDE DEF s, f
    <3> QED
      BY <1>1, <1>9, <2>1, <3>1 DEF CallBest, AnswerIsBest, InList
  <2>4. CallBest'
    BY <1>1, <2>3 DEF CallBest
  <2> QED
    BY <1>1, <1>7, <2>2, <2>4 DEF BestInv, K
<1> QED
  BY <1>2, <1>8, <1>9

LEMMA RememberBest ==
  ASSUME Rest, Copies, BestInv, Remember
  PROVE  BestInv'
<1> DEFINE key == Key(call)
           new == [counter |-> _nl_msg_cat_cntr, domain |-> retval.file, act |-> retval.act,
                   codeset |-> retval.codeset, place |-> retval.place]
           s == Sought(call.domainname)
<1>1. /\ UNCHANGED <<env, enable_secure, _nl_domain_bindings, _nl_msg_cat_cntr, _nl_loaded_domains,
                     aliases, call, stale, failed>>
      /\ pc = "found" /\ pc' = "answered"
      /\ root' = Over([k \in {key} |-> new], root) \/ UNCHANGED root
      /\ Answer(retval.file, retval.act, retval.codeset, retval.place)
  BY DEF Remember, environment, bindings
<1>2. answer'.file = retval.file /\ answer'.act = retval.act
  BY <1>1 DEF Answer
<1>3. retval.act # NotFound
  BY <1>1 DEF Copies, CallHolds, IsTranslation
<1>4. ~stale => IsBest(s, call.msgid, retval.file)
  BY <1>1 DEF BestInv, CallBest
<1>5. Sought(call.domainname)' = s
  BY <1>1, SoughtSame
<1>6. /\ key.msgid = call.msgid /\ key.domainname = call.domainname /\ new.domain = retval.file
  BY DEF Key
<1> HIDE DEF key, new, s
<1>7. \A k \in DOMAIN root' : (k = key /\ root'[k] = new) \/ (k \in DOMAIN root /\ root'[k] = root[k])
  BY <1>1 DEF Over
<1>8. ASSUME ~stale, NEW k \in DOMAIN root', root'[k].counter = _nl_msg_cat_cntr
      PROVE  IsBest(Sought(k.domainname)', k.msgid, root'[k].domain)
  <2>1. CASE k = key /\ root'[k] = new
    <3>1. Sought(k.domainname)' = s
      <4>1. Binding(k.domainname)' = Binding(k.domainname) /\ k.domainname = call.domainname
        BY <1>1, <1>6, <2>1 DEF Binding, BindingPlace
      <4>2. guess_category_value' = guess_category_value
        BY <1>1 DEF guess_category_value
      <4> QED
        BY <1>1, <4>1, <4>2 DEF Sought, s
    <3> QED
      BY <1>4, <1>6, <1>8, <2>1, <3>1
  <2>2. CASE k \in DOMAIN root /\ root'[k] = root[k]
    <3>1. IsBest(Sought(k.domainname), k.msgid, root[k].domain)
      BY <1>8, <2>2 DEF BestInv, RootBest
    <3> QED
      BY <1>1, <2>2, <3>1, SoughtStays
  <2> QED
    BY <1>7, <2>1, <2>2
<1>9. RootBest'
  BY <1>1, <1>8 DEF RootBest
<1>10. CallBest'
  BY <1>1, <1>2, <1>3, <1>4, <1>5 DEF CallBest, AnswerIsBest, InList, IsBest
<1> QED
  BY <1>1, <1>9, <1>10 DEF BestInv, AliasesKept, aliases

LEMMA ReturnBest ==
  ASSUME Rest, BestInv, Return
  PROVE  BestInv'
<1>1. /\ UNCHANGED <<env, enable_secure, _nl_domain_bindings, _nl_msg_cat_cntr, _nl_loaded_domains,
                     aliases, root, stale, failed>>
      /\ pc' = "idle"
  BY DEF Return, environment, bindings, history
<1>2. CallBest'
  BY <1>1 DEF CallBest
<1> QED
  BY <1>1, <1>2, RootBestStays DEF BestInv, AliasesKept, aliases

LEMMA StepBest ==
  ASSUME ListInv, ListInv', Copies, BestInv, [Next]_vars
  PROVE  BestInv'
<1>1. InOrder /\ PoolInv /\ Rest /\ Rest'
  BY DEF ListInv, Rest
<1>2. CASE UNCHANGED vars
  <2>1. /\ UNCHANGED <<env, enable_secure, _nl_domain_bindings, _nl_msg_cat_cntr, _nl_loaded_domains,
                       aliases, root, stale, failed, call>>
        /\ UNCHANGED <<pc, cnt, domain, retval, answer, categoryvalue, single_locale>>
    BY <1>2 DEF vars, environment, bindings, history, lookup
  <2>2. Sought(call.domainname)' = Sought(call.domainname)
    BY <2>1, SoughtSame
  <2>3. CallBest'
    BY <2>1, <2>2 DEF BestInv, CallBest, AnswerIsBest, Turn, FileAt
  <2> QED
    BY <1>1, <2>1, <2>3, RootBestStays DEF BestInv, AliasesKept, aliases
<1>3. ASSUME NEW d \in Domains, NEW dirname \in Dirnames, BINDTEXTDOMAIN(d, dirname)
      PROVE  BestInv'
  BY <1>1, <1>3, OutsideBest DEF BINDTEXTDOMAIN
<1>4. ASSUME NEW d \in Domains, NEW codeset \in Codesets, BIND_TEXTDOMAIN_CODESET(d, codeset)
      PROVE  BestInv'
  BY <1>1, <1>4, OutsideBest DEF BIND_TEXTDOMAIN_CODESET
<1>5. ASSUME NEW d \in Domains, TEXTDOMAIN(d) PROVE BestInv'
  BY <1>1, <1>5, OutsideBest
<1>6. CASE ChangeEnvironment
  BY <1>1, <1>6, OutsideBest
<1>7. ASSUME NEW arguments \in Calls, DCIGETTEXT(arguments) PROVE BestInv'
  BY <1>1, <1>7, DCIGETTEXTBest
<1>8. CASE Step
  BY <1>1, <1>8, NextLocaleBest, FindDomainBest, LoadBest, EndLoopBest, TranslateBest, RememberBest,
     ReturnBest DEF Step
<1> QED
  BY <1>2, <1>3, <1>4, <1>5, <1>6, <1>7, <1>8 DEF Next

\* A call finds the first catalog with the message in one of the code's orders of names,
\* or no catalog of such an order has it: for any catalogs, families of names, aliases,
\* bindings and order of calls and failures.  The remembered translations never show, and
\* neither do files of another name or of a directory or domain bound earlier.  What the
\* list of files does lose is in Orders, and of the aliases only those that were kept
\* count; a file that could not be loaded once counts as lacking the message; and nothing
\* is said from a change of the environment, or a call that was given up, to the next
\* change of a binding (_nl_find_domain, finddomain.c, and the search of DCIGETTEXT,
\* dcigettext.c).
THEOREM TranslationsAreBest == Spec => []AnswerIsBest
<1>1. Init => BestInv
  <2> SUFFICES ASSUME Init PROVE BestInv
    OBVIOUS
  <2>1. /\ _nl_loaded_domains = <<>> /\ root = <<>> /\ pc = "idle" /\ locale_alias_path = AliasPath
    BY DEF Init
  <2>2. DOMAIN _nl_loaded_domains = {} /\ DOMAIN root = {}
    BY <2>1
  <2>3. AliasesKept
    <3>1. AliasPath \in Seq(ToSet(AliasPath))
      BY NamesAssumption
    <3>2. ToSet(AliasPath) = {AliasPath[i] : i \in DOMAIN AliasPath}
      BY DEF ToSet
    <3> QED
      BY <2>1, <3>2 DEF AliasesKept, AliasLines
  <2> QED
    BY <2>1, <2>2, <2>3 DEF BestInv, IsMade, RootBest, CallBest
<1>2. Init => Copies
  BY DEF Init, Copies, TablesHold, RootHolds, CallHolds
<1>3. ListInv /\ Copies /\ [Next]_vars => Copies'
  BY StepCopies
<1>4. ListInv /\ ListInv' /\ Copies /\ BestInv /\ [Next]_vars => BestInv'
  BY StepBest
<1>5. BestInv => AnswerIsBest
  <2> SUFFICES ASSUME BestInv, pc = "answered", ~stale PROVE AnswerIsBest
    BY DEF AnswerIsBest
  <2> QED
    BY DEF BestInv, CallBest
<1> QED
  BY <1>1, <1>2, <1>3, <1>4, <1>5, ListIsKept, PTL DEF Spec
=====
