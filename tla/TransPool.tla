------------------------------ MODULE TransPool ------------------------------
(***************************************************************************)
(* The memory that holds converted translations: freemem and freemem_size  *)
(* in _nl_find_msg (intl/dcigettext.c).  Strings are put one after another *)
(* into blocks, each behind its length; they are handed to the program and *)
(* never freed.                                                            *)
(*                                                                         *)
(* One conversion is a loop: try, and while the room is too small take a   *)
(* new block, or make the new block larger.  A block is identified by its  *)
(* number; a block that realloc moves holds nothing yet.                   *)
(***************************************************************************)
EXTENDS Integers, Sequences

CONSTANTS INITIAL_BLOCK_SIZE,
          ALIGN,               \* sizeof and alignof size_t
          Lengths              \* of converted strings

ASSUME PoolAssumption == /\ ALIGN \in Nat \ {0}
                         /\ INITIAL_BLOCK_SIZE \in Nat \ {0}
                         /\ INITIAL_BLOCK_SIZE % ALIGN = 0
                         /\ Lengths \subseteq Nat

VARIABLES blocks,        \* the size of each block
          freemem,       \* 0, or the number of the block it points into
          offset,        \* and where
          freemem_size,
          malloc_count,
          outlen,        \* the length of the string, if one is being converted
          converting,
          strings        \* history: the strings that were put into blocks
pool == <<blocks, freemem, offset, freemem_size, malloc_count, outlen, converting, strings>>

Strings == [block : Nat, start : Nat, length : Nat]

PoolInit == /\ blocks = <<>>
            /\ freemem = 0 /\ offset = 0 /\ freemem_size = 0
            /\ malloc_count = 0 /\ outlen = 0 /\ converting = FALSE
            /\ strings = {}

BeginConversion(length) ==
    /\ ~converting /\ converting' = TRUE
    /\ outlen' = length
    /\ malloc_count' = 0
    /\ UNCHANGED <<blocks, freemem, offset, freemem_size, strings>>

BugFits == outlen <= freemem_size
Fits == freemem_size >= ALIGN /\ outlen <= freemem_size - ALIGN

\* The string of this conversion, if it is put where freemem points.
ThisString == [block |-> freemem, start |-> offset, length |-> ALIGN + outlen]
\* What is skipped to keep freemem aligned.
Pad(size) == size % ALIGN

Store == /\ converting /\ Fits
         /\ strings' = strings \cup {ThisString}
         /\ LET left == freemem_size - (ALIGN + outlen)
            IN  /\ offset' = offset + ALIGN + outlen + Pad(left)
                /\ freemem_size' = left - Pad(left)
         /\ converting' = FALSE
         /\ UNCHANGED <<blocks, freemem, malloc_count, outlen>>

\* iconv fails, and not for lack of room.
CannotConvert == /\ converting /\ freemem_size >= ALIGN
                 /\ converting' = FALSE
                 /\ UNCHANGED <<blocks, freemem, offset, freemem_size, malloc_count, outlen, strings>>

Resize == /\ converting /\ ~Fits
          /\ malloc_count' = malloc_count + 1
          /\ freemem_size' = malloc_count' * INITIAL_BLOCK_SIZE
          /\ offset' = 0
          /\ IF malloc_count = 0
               THEN blocks' = Append(blocks, freemem_size')
               ELSE blocks' = [blocks EXCEPT ![Len(blocks)] = freemem_size']
          /\ freemem' = Len(blocks')
          /\ UNCHANGED <<outlen, converting, strings>>

NoMemory == /\ converting /\ ~Fits
            /\ malloc_count' = malloc_count + 1
            /\ freemem' = 0 /\ freemem_size' = 0 /\ offset' = 0
            /\ converting' = FALSE
            /\ UNCHANGED <<blocks, outlen, strings>>

PoolNext == \/ \E length \in Lengths : BeginConversion(length)
            \/ Store \/ CannotConvert \/ Resize \/ NoMemory

PoolSpec == PoolInit /\ [][PoolNext]_pool

-----------------------------------------------------------------------------
(* What a translation that was handed out relies on: no later string is    *)
(* written over it, nor over the length before it; both lie in memory that *)
(* was allocated; and the length, read as a size_t, is aligned.            *)

End(s) == s.start + s.length
Allocated(s) == s.block \in DOMAIN blocks /\ End(s) <= blocks[s.block] /\ s.start % ALIGN = 0
PoolIntact ==
    /\ \A s \in strings : Allocated(s)
    /\ \A s, t \in strings : s # t /\ s.block = t.block => End(s) <= t.start \/ End(t) <= s.start
=============================================================================
