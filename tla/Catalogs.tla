------------------------------ MODULE Catalogs ------------------------------
(***************************************************************************)
(* What a message catalog, a .mo file, says: which files intl/loadmsgcat.c *)
(* accepts, the system dependent strings it builds and the hash table it   *)
(* adds them to, and the lookup of _nl_find_msg in dcigettext.c.           *)
(*                                                                         *)
(* A message is a sequence of pieces.  A file is a record:                 *)
(*   magic     "native", "swapped" or something else                       *)
(*   major, minor   of the revision                                        *)
(*   orig      the messages, sorted; the place of a message is its index   *)
(*   variants  how many strings the translation of each consists of        *)
(*   hash_tab  0 or 1 + an index; <<>> if there is none                    *)
(*   segments  the names of the system dependent segments; <<>> where a    *)
(*             name is not terminated                                      *)
(*   sysdep    [orig, trans]: each a sequence of [text, ref], where ref is *)
(*             an index into segments or SEGMENTS_END                      *)
(*   charset   of the header, Unknown if it names none                        *)
(*   nplurals, plural   of the header: a number, and the value for each n  *)
(* Indices are those of C, from 0.                                         *)
(***************************************************************************)
EXTENDS Integers, Sequences, SequencesExt

CONSTANTS Unknown,
          Hash,          \* hash_string of the messages that occur
          MsgRank,       \* strcmp on them
          LongBits,      \* of long, which is as long as a pointer or uintmax_t
          FlagI          \* has printf the flag I, as in glibc since 2.2?

\* strcmp tells messages apart.
ASSUME MessagesAssumption ==
    /\ Hash \in [DOMAIN Hash -> Nat] /\ MsgRank \in [DOMAIN Hash -> Nat]
    /\ \A m, n \in DOMAIN Hash : MsgRank[m] = MsgRank[n] => m = n
    /\ FlagI \in BOOLEAN

SEGMENTS_END == -1
HEADER == <<"">>

-----------------------------------------------------------------------------
(* get_sysdep_segment_value: PRI, conversion, width. *)

Conversions == {"d", "i", "o", "u", "x", "X"}
Sizes == {"8", "16", "32", "64"}
Long == IF LongBits = 64 THEN "l" ELSE "ll"
\* The fallbacks where <inttypes.h> has no macros.
PRI(conversion, bits) == IF bits = "64" THEN <<Long, conversion>> ELSE <<conversion>>
PRILEAST(conversion, bits) == PRI(conversion, bits)
PRIFAST(conversion, bits) == PRI(conversion, bits)
PRIMAX(conversion) == <<Long, conversion>>
PRIPTR(conversion) == <<"l", conversion>>

get_sysdep_segment_value(name) ==
    LET IsPRI(kinds, size) == /\ Len(name) = 3 + size /\ name[1] = "PRI"
                              /\ name[2] \in Conversions /\ name[3] \in kinds
                              /\ size = 1 => name[4] \in Sizes
    IN  CASE IsPRI({""}, 1) -> PRI(name[2], name[4])
          [] IsPRI({"LEAST"}, 1) -> PRILEAST(name[2], name[4])
          [] IsPRI({"FAST"}, 1) -> PRIFAST(name[2], name[4])
          [] IsPRI({"MAX"}, 0) -> PRIMAX(name[2])
          [] IsPRI({"PTR"}, 0) -> PRIPTR(name[2])
          [] name = <<"I">> -> IF FlagI THEN <<"I">> ELSE <<>>
          [] OTHER -> Unknown

-----------------------------------------------------------------------------
(* _nl_load_domain: what is a message catalog. *)

Value(f, ref) == get_sysdep_segment_value(f.segments[ref + 1])

\* The segments of a string are looked at up to the end, to a reference out of
\* range, or to a segment this system does not know.
Verdict(f, string) ==
    LET Stops(ref) == ref = SEGMENTS_END \/ ref >= Len(f.segments) \/ Value(f, ref) = Unknown
        at == CHOOSE i \in DOMAIN string : /\ Stops(string[i].ref)
                                           /\ \A j \in 1..(i - 1) : ~Stops(string[j].ref)
    IN  IF string[at].ref = SEGMENTS_END THEN "valid"
        ELSE IF string[at].ref >= Len(f.segments) THEN "invalid" ELSE "dropped"
PairVerdict(f, pair) == IF Verdict(f, pair.orig) # "valid" THEN Verdict(f, pair.orig)
                                                          ELSE Verdict(f, pair.trans)

HasHash(f) == Len(f.hash_tab) > 2
IsCatalog(f) ==
    /\ f.magic \in {"native", "swapped"}
    /\ f.major \in {0, 1}
    /\ f.minor # 0 => /\ HasHash(f)
                      /\ f.sysdep # <<>> => <<>> \notin ToSet(f.segments)
                      /\ \A i \in DOMAIN f.sysdep : PairVerdict(f, f.sysdep[i]) # "invalid"

\* The string in memory: the static texts and between them what the segments mean.
Expanded(f, string) ==
    FoldLeft(LAMBDA text, p : text \o p.text \o (IF p.ref = SEGMENTS_END THEN <<>> ELSE Value(f, p.ref)),
             <<>>, string)
InMemory(f) == IF f.minor = 0 THEN <<>>
               ELSE SelectSeq(f.sysdep, LAMBDA pair : PairVerdict(f, pair) = "valid")
Messages(f) == f.orig \o [i \in DOMAIN InMemory(f) |-> Expanded(f, InMemory(f)[i].orig)]
Variants(f) == f.variants \o [i \in DOMAIN InMemory(f) |-> 1]

\* The place of the k-th probe: idx and incr, with the wrap-around.
Probe(hash_val, size, k) == (hash_val + k * (1 + (hash_val % (size - 2)))) % size

\* The system dependent strings are added where their probes meet an empty place.
AugmentedHash(f) ==
    LET size == Len(f.hash_tab)
        Add(table, i) ==
            LET At(k) == Probe(Hash[Messages(f)[i]], size, k) + 1
                k == CHOOSE k \in 0..(size - 1) : /\ table[At(k)] = 0
                                                  /\ \A j \in 0..(k - 1) : table[At(j)] # 0
            IN  [table EXCEPT ![At(k)] = i]
    IN  FoldLeft(Add, f.hash_tab, [i \in DOMAIN InMemory(f) |-> Len(f.orig) + i])

-----------------------------------------------------------------------------
(* _nl_find_msg: the index of a message, or NotFound. *)

NotFound == -1

HashSearch(f, msgid) ==
    LET table == AugmentedHash(f)
        At(k) == table[Probe(Hash[msgid], Len(table), k) + 1]
        Ends(k) == At(k) = 0 \/ Messages(f)[At(k)] = msgid
        k == CHOOSE k \in 0..(Len(table) - 1) : Ends(k) /\ \A j \in 0..(k - 1) : ~Ends(j)
    IN  At(k) - 1

BinarySearch(f, msgid) ==
    LET nstrings == Len(f.orig)
        Search[r \in (0..nstrings) \X (0..nstrings)] ==
            LET bottom == r[1]
                top == r[2]
                act == (bottom + top) \div 2
            IN  IF bottom >= top THEN NotFound
                ELSE IF MsgRank[msgid] < MsgRank[f.orig[act + 1]] THEN Search[<<bottom, act>>]
                ELSE IF MsgRank[msgid] > MsgRank[f.orig[act + 1]] THEN Search[<<act + 1, top>>]
                ELSE act
    IN  Search[<<0, nstrings>>]

IndexOf(f, msgid) == IF HasHash(f) THEN HashSearch(f, msgid) ELSE BinarySearch(f, msgid)

\* What msgfmt makes sure of and the lookup relies on without looking: a message has
\* strings for a translation, the hash table says where messages are, and the
\* probes for a message meet it or an empty place.
WellFormed(f) ==
    LET table == AugmentedHash(f)
        At(msgid, k) == table[Probe(Hash[msgid], Len(table), k) + 1]
    IN  /\ f.orig \in Seq(DOMAIN Hash) /\ Messages(f) \in Seq(DOMAIN Hash)
        /\ f.hash_tab \in Seq(Nat)
        /\ Variants(f) \in [DOMAIN Messages(f) -> Nat \ {0}]
        /\ HasHash(f) =>
             /\ table \in [1..Len(f.hash_tab) -> {0} \cup DOMAIN Messages(f)]
             /\ \A msgid \in DOMAIN Hash : \E k \in 0..(Len(table) - 1) :
                   At(msgid, k) = 0 \/ Messages(f)[At(msgid, k)] = msgid

-----------------------------------------------------------------------------
(* A catalog in memory: what _nl_load_domain makes of the file.  Without a *)
(* header the charset is unknown and the plural rule Germanic. *)

Loaded(f) ==
    LET header == IndexOf(f, HEADER) # NotFound
        germanic == ~header \/ f.plural = Unknown
    IN  IF ~IsCatalog(f) THEN Unknown
        ELSE [messages |-> Messages(f), variants |-> Variants(f),
              index |-> [msgid \in DOMAIN Hash |-> IndexOf(f, msgid)],
              charset |-> IF header THEN f.charset ELSE Unknown,
              germanic |-> germanic,
              nplurals |-> IF germanic THEN 2 ELSE f.nplurals,
              plural |-> f.plural]

\* The number of the string among the variants of a translation.
BugPlural_lookup(catalog, act, n) ==
    LET eval == IF catalog.germanic THEN IF n = 1 THEN 0 ELSE 1 ELSE catalog.plural[n]
    IN  IF eval >= catalog.nplurals THEN 0 ELSE eval
plural_lookup(catalog, act, n) ==
    LET eval == IF catalog.germanic THEN IF n = 1 THEN 0 ELSE 1 ELSE catalog.plural[n]
        index == IF eval >= catalog.nplurals THEN 0 ELSE eval
    IN  IF index >= catalog.variants[act + 1] THEN 0 ELSE index
=============================================================================
