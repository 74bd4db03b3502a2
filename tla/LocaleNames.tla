----------------------------- MODULE LocaleNames -----------------------------
(***************************************************************************)
(* From a locale's name to the catalogs that may serve it: aliases         *)
(* (intl/localealias.c), the parts of a name (explodename.c), and the list *)
(* of the files that were looked for (l10nflist.c).                        *)
(*                                                                         *)
(* A name is a sequence of tokens, each with the character before it: the  *)
(* C string "de_DE.UTF-8" is "" de, "_" DE, "." UTF-8.  A file is a        *)
(* directory, a locale's name and the rest, which is <category>/<domain>.mo. *)
(* A directory is one string here: _nl_find_domain never passes a list, so *)
(* dirlist_count is 1.                                                     *)
(***************************************************************************)
EXTENDS Integers, Sequences, SequencesExt, TLC

CONSTANTS NULL,
          NormOf       \* _nl_normalize_codeset on the codesets that occur

Token(sep, text) == [sep |-> sep, text |-> text]

-----------------------------------------------------------------------------
(* explodename.c *)

CEN == {"CEN_REVISION", "CEN_SPONSOR", "CEN_SPECIAL", "CEN_AUDIENCE"}
XPG == {"XPG_NORM_CODESET", "XPG_CODESET", "XPG_MODIFIER"}
\* The bits of a mask, from the lowest.
Bits == <<"CEN_REVISION", "CEN_SPONSOR", "CEN_SPECIAL", "XPG_NORM_CODESET", "XPG_CODESET",
          "TERRITORY", "CEN_AUDIENCE", "XPG_MODIFIER">>

_nl_find_language(name) ==
    IF \E i \in DOMAIN name : name[i].sep \in {"_", "@", "+", ","}
      THEN CHOOSE i \in DOMAIN name : /\ name[i].sep \in {"_", "@", "+", ","}
                                      /\ \A j \in 1..(i - 1) : name[j].sep \notin {"_", "@", "+", ","}
      ELSE Len(name) + 1

SepAt(name, i) == IF i > Len(name) THEN "" ELSE name[i].sep
\* A part that starts at i ends before the next of these characters.
Until(name, i, seps) ==
    CHOOSE j \in (i + 1)..(Len(name) + 1) :
        /\ SepAt(name, j) \in seps \cup {""}
        /\ \A k \in (i + 1)..(j - 1) : SepAt(name, k) \notin seps
\* From each place on: past the part that starts there, if it starts with sep.
Past(name, sep, seps) ==
    [i \in 1..(Len(name) + 1) |-> IF SepAt(name, i) = sep THEN Until(name, i, seps) ELSE i]

\* Where each of the first four parts ends and the next begins.
XPGEnds(name) ==
    LET end == Len(name) + 1
        l == IF _nl_find_language(name) = 1 THEN end ELSE _nl_find_language(name)
        t == Past(name, "_", {".", "@", "+", ",", "_"})[l]
        c == IF t > l THEN Past(name, ".", {"@"})[t] ELSE t
        m == IF SepAt(name, c) = "@" THEN end
             ELSE IF c = t THEN Past(name, "+", {"+", ",", "_"})[c] ELSE c
    IN  [language |-> l, territory |-> t, codeset |-> c, modifier |-> m]

\* The parts; those of CEN syntax follow the first four.
PartsOf(name, ends) ==
    LET Part(i, j) == SubSeq(name, i, j - 1)
        IsEmpty(i, j) == j = i + 1 /\ name[i].text = ""
        l == ends.language
        t == ends.territory
        c == ends.codeset
        m == ends.modifier
        xpg == c > t \/ SepAt(name, c) = "@"
        s == IF xpg THEN m ELSE Past(name, "+", {",", "_"})[m]
        p == IF xpg THEN m ELSE Past(name, ",", {"_"})[s]
        r == IF xpg THEN m ELSE Past(name, "_", {})[p]
        norm == IF c > t /\ ~IsEmpty(t, c) THEN NormOf[Part(t, c)] ELSE Part(t, c)
        \* The codeset is compared up to the end of the name, its modifier included.
        differs == norm # Part(t, c) \/ c <= Len(name)
        Has(bit, test) == IF test THEN {bit} ELSE {}
    IN  [mask |-> Has("TERRITORY", t > l /\ ~(xpg /\ IsEmpty(l, t)))
             \cup Has("XPG_CODESET", c > t /\ ~IsEmpty(t, c))
             \cup Has("XPG_NORM_CODESET", c > t /\ ~IsEmpty(t, c) /\ differs)
             \cup Has("XPG_MODIFIER", m > c /\ ~(xpg /\ IsEmpty(c, m)))
             \cup Has("CEN_AUDIENCE", m > c)
             \cup Has("CEN_SPECIAL", s > m)
             \cup Has("CEN_SPONSOR", p > s)
             \cup Has("CEN_REVISION", r > p),
         language |-> Part(1, l), territory |-> Part(l, t), codeset |-> Part(t, c),
         normalized_codeset |-> norm, modifier |-> Part(c, m), special |-> Part(m, s),
         sponsor |-> Part(s, p), revision |-> Part(p, r)]
_nl_explode_name(name) == PartsOf(name, XPGEnds(name))

-----------------------------------------------------------------------------
(* l10nflist.c *)

IS_ABSOLUTE_PATH(name) == name # <<>> /\ name[1].sep = "/"
IS_PATH_WITH_DIR(name) == \E i \in DOMAIN name : name[i].sep = "/"

Filename(dirname, name, filename) ==
    [dir |-> IF IS_ABSOLUTE_PATH(name) THEN NULL ELSE dirname, name |-> name, file |-> filename]

\* The name made of the parts that are in the mask.
Named(e, mask) ==
    LET With(sep, part) == <<Token(sep, part[1].text)>> \o Tail(part)
        If(bits, tokens) == IF mask \cap bits # {} THEN tokens ELSE <<>>
    IN  e.language
        \o If({"TERRITORY"}, e.territory)
        \o If({"XPG_CODESET"}, e.codeset)
        \o If({"XPG_NORM_CODESET"}, e.normalized_codeset)
        \o If({"XPG_MODIFIER", "CEN_AUDIENCE"},
              With(IF "CEN_AUDIENCE" \in mask THEN "+" ELSE "@", e.modifier))
        \o If({"CEN_SPECIAL"}, e.special)
        \o If({"CEN_SPONSOR", "CEN_REVISION"},
              IF "CEN_SPONSOR" \in mask THEN e.sponsor ELSE <<Token(",", "")>>)
        \o If({"CEN_REVISION"}, e.revision)

\* The masks an entry falls back on, counted down.  The bits of the other syntax
\* exclude each other, and so do the two codesets.
Dominated(mask) ==
    LET bits == SelectSeq(Bits, LAMBDA b : b \in mask)
        Count(n) == {bits[k] : k \in {i \in DOMAIN bits : (n \div 2^(i - 1)) % 2 = 1}}
        size == 2^Len(bits)
    IN  SelectSeq([i \in 1..(size - 1) |-> Count(size - 1 - i)],
                  LAMBDA m : /\ m \cap CEN = {} \/ m \cap XPG = {}
                             /\ ~({"XPG_CODESET", "XPG_NORM_CODESET"} \subseteq m))

\* The names a name falls back on and for each those that it falls back on itself.  A
\* name that is made of two masks has the entry of the first.
Family(e) ==
    LET Names(masks) == FoldLeft(LAMBDA names, m : Append(names, Named(e, m)), <<>>, masks)
        New(m) == [decided |-> {"XPG_CODESET", "XPG_NORM_CODESET"} \subseteq m,
                   data |-> NULL,
                   successor |-> Names(Dominated(m))]
    IN  [top |-> Named(e, e.mask),
         entry |-> FoldLeft(LAMBDA entries, m : entries @@ (Named(e, m) :> New(m)),
                            <<>>, <<e.mask>> \o Dominated(e.mask))]

\* What f says, and what g says where f says nothing.
Over(f, g) == [x \in DOMAIN f \cup DOMAIN g |-> IF x \in DOMAIN f THEN f[x] ELSE g[x]]

\* An entry for every name of the family, unless there is one; an entry keeps the
\* successors it was made with.  Allocation does not fail here.
Bug_nl_make_l10nflist(list, dirname, family, filename) ==
    list @@ (Filename(dirname, family.top, filename) :> family.entry[family.top])
_nl_make_l10nflist(list, dirname, family, filename) ==
    IF Filename(dirname, family.top, filename) \in DOMAIN list THEN list
    ELSE Over(list, [f \in {Filename(dirname, name, filename) : name \in DOMAIN family.entry} |->
                       family.entry[f.name]])

-----------------------------------------------------------------------------
(* localealias.c.  A line of an alias file has none, one or two words; a   *)
(* comment has none. *)

\* The first word's end is overwritten by NUL.  So the search for the line's end,
\* which is to skip the rest of an overlong line, fails, and reads the next line.
KeptLines(file) ==
    FoldLeft(LAMBDA read, line :
               IF read.skip THEN [read EXCEPT !.skip = FALSE]
               ELSE [skip |-> Len(line) > 0,
                     kept |-> IF Len(line) = 2 THEN Append(read.kept, line) ELSE read.kept],
             [skip |-> FALSE, kept |-> <<>>], file).kept

\* Alias files are read one by one, until one of them helps.
_nl_expand_alias(map, path, name) ==
    LET After(k) == map \cup UNION {ToSet(KeptLines(path[i])) : i \in 1..k}
        Known(k) == \E line \in After(k) : line[1] = name
        k == IF \E i \in 0..Len(path) : Known(i)
               THEN CHOOSE i \in 0..Len(path) : Known(i) /\ \A j \in 0..(i - 1) : ~Known(j)
               ELSE Len(path)
    IN  [map |-> After(k),
         path |-> SubSeq(path, k + 1, Len(path)),
         value |-> IF Known(k) THEN (CHOOSE line \in After(k) : line[1] = name)[2] ELSE NULL]
=============================================================================
