------------------------------ MODULE MCGettext ------------------------------
(***************************************************************************)
(* Gettext with a handful of catalogs, and what its Orders are compared    *)
(* with: the order of preference that the comment of _nl_find_domain       *)
(* promises, said without masks, lists and caches.                         *)
(***************************************************************************)
EXTENDS Gettext, FiniteSets, FiniteSetsExt

-----------------------------------------------------------------------------
(* Names. *)

L(lang, terr, cs, mod) == [lang |-> lang, terr |-> terr, cs |-> cs, mod |-> mod]
Optional(sep, text) == IF text = "" THEN <<>> ELSE <<Token(sep, text)>>
Name(l) == l.lang \o Optional("_", l.terr) \o Optional(".", l.cs) \o Optional("@", l.mod)
Plain(text) == <<Token("", text)>>

DE == Plain("de")
\* There is no codeset without a territory.
Locales == {L(DE, "DE", cs, mod) : cs \in {"", "UTF-8", "utf8", "88591"}, mod \in {"", "euro"}}
           \cup {L(DE, "", "", mod) : mod \in {"", "euro"}}
           \cup {L(Plain("fr"), "", "", ""), L(<<Token("", "x"), Token("/", "de")>>, "", "", "")}
Normalized(cs) == CASE cs = "UTF-8" -> "utf8" [] cs = "88591" -> "iso88591" [] OTHER -> cs
MCNormOf == [codeset \in {<<Token(".", cs)>> : cs \in {"UTF-8", "utf8", "88591"}} |->
               <<Token(".", Normalized(codeset[1].text))>>]

\* The second line of this file is behind an alias, so it is not read.
MCAliasPath == << << <<>>, <<Plain("german"), Name(L(DE, "DE", "UTF-8", ""))>>,
                     <<Plain("french"), Plain("fr")>> >> >>

\* The names a locale's catalog may have, the most wanted first: dropped first are the
\* codeset as it is written, then normalized, the territory, and at last the modifier.
Preferred(l) ==
    LET Weight(m) == (IF m.mod = l.mod THEN 8 ELSE 0) + (IF m.terr = l.terr THEN 4 ELSE 0)
                       + (IF m.cs = l.cs THEN 2 ELSE IF m.cs # "" THEN 1 ELSE 0)
        names == {L(l.lang, terr, cs, mod) : terr \in {"", l.terr}, mod \in {"", l.mod},
                                             cs \in {"", l.cs, Normalized(l.cs)}}
    IN  [i \in 1..Cardinality(names) |->
           CHOOSE m \in names : Cardinality({n \in names : Weight(n) > Weight(m)}) = i - 1]

-----------------------------------------------------------------------------
(* Catalogs. *)

M1 == <<"Stop">>
M2 == <<"%d stops">>
M3 == <<"size %", "l", "u">>
MCMessages == {HEADER, M1, M2, M3}
MessageOrder == <<HEADER, M2, M1, M3>>
MCMsgRank == [m \in MCMessages |-> CHOOSE i \in DOMAIN MessageOrder : MessageOrder[i] = m]
\* The hash values collide: with 5 places every probe starts at the same.
MCHash == [m \in MCMessages |-> CASE m = HEADER -> 0 [] m = M1 -> 5 [] m = M2 -> 10 [] OTHER -> 25]

Text(text) == <<[text |-> text, ref |-> SEGMENTS_END]>>
Sized(ref) == <<[text |-> <<"size %">>, ref |-> ref], [text |-> <<>>, ref |-> SEGMENTS_END]>>
Plainest == [magic |-> "native", major |-> 0, minor |-> 0,
            orig |-> <<HEADER, M2, M1>>, variants |-> <<1, 2, 1>>, hash_tab |-> <<>>,
            segments |-> <<>>, sysdep |-> <<>>, charset |-> "UTF-8",
            nplurals |-> 2, plural |-> [n \in 0..3 |-> IF n = 1 THEN 0 ELSE 1]]
InGerman == [Plainest EXCEPT !.magic = "swapped", !.charset = "88591",
                            !.nplurals = 3, !.plural = [n \in 0..3 |-> n]]
InGermany == [Plainest EXCEPT !.minor = 1, !.orig = <<HEADER, M1>>, !.variants = <<1, 1>>,
                             !.hash_tab = <<1, 0, 0, 2, 0>>,
                             !.segments = << <<"PRI", "u", "MAX">>, <<"Unheard of">> >>,
                             !.sysdep = << [orig |-> Sized(1), trans |-> Sized(1)],
                                           [orig |-> Sized(0), trans |-> Sized(0)] >>]
InUTF8 == [Plainest EXCEPT !.orig = <<HEADER, M2>>, !.variants = <<1, 3>>, !.nplurals = 3,
                          !.plural = [n \in 0..3 |-> n], !.hash_tab = <<1, 0, 2, 0, 0>>]
NoHeader == [Plainest EXCEPT !.orig = <<M1>>, !.variants = <<1>>]
NoCatalog == [Plainest EXCEPT !.magic = "no"]

\* msgfmt fills the hash table the way it is read.
Hashed(f) ==
    AugmentedHash([f EXCEPT !.minor = 1, !.segments = <<>>, !.orig = <<>>,
                            !.hash_tab = [i \in DOMAIN f.hash_tab |-> 0],
                            !.sysdep = [i \in DOMAIN f.orig |->
                                          [orig |-> Text(f.orig[i]), trans |-> Text(<<>>)]]])
\* The hash tables above are those that msgfmt writes.
ASSUME TablesAreHashed ==
    \A f \in {InGermany, InUTF8} : \A i \in DOMAIN f.hash_tab : f.hash_tab[i] = Hashed(f)[i]

File(dir, name, domainname) ==
    [dir |-> Token("/", dir), name |-> name,
     file |-> <<Token("/", "LC_MESSAGES"), Token("/", domainname)>>]
DiskTable == File("loc", DE, "hh.mo") :> InGerman
          @@ File("loc", Name(L(DE, "DE", "", "")), "hh.mo") :> InGermany
          @@ File("loc", Name(L(DE, "DE", "utf8", "")), "hh.mo") :> InUTF8
          @@ File("loc", Name(L(DE, "", "", "euro")), "hh.mo") :> NoHeader
          @@ File("loc", Plain("fr"), "hh.mo") :> NoCatalog
          @@ File("loc", <<Token("", "x"), Token("/", "de")>>, "hh.mo") :> Plainest
          @@ File("cwd/po", DE, "hh.mo") :> NoHeader
          @@ File("loc", DE, "messages.mo") :> Plainest

\* What each should be in memory, whether it has a hash table or not; TablesAssumption
\* says that this is what loadmsgcat.c makes of it.
Holds(messages, f, germanic) ==
    [messages |-> messages, variants |-> [i \in DOMAIN messages |-> IF i > Len(f.orig) THEN 1 ELSE f.variants[i]],
     index |-> [m \in MCMessages |-> IF m \in ToSet(messages)
                                       THEN CHOOSE i \in 0..2 : messages[i + 1] = m ELSE NotFound],
     charset |-> IF germanic THEN Unknown ELSE f.charset, germanic |-> germanic,
     nplurals |-> f.nplurals, plural |-> f.plural]
CatalogsOf(disk) ==
    [file \in DOMAIN disk |->
       LET f == disk[file]
       IN  CASE f = NoCatalog -> Unknown
             [] f = NoHeader -> Holds(<<M1>>, f, TRUE)
             [] f = InGermany -> Holds(<<HEADER, M1, M3>>, f, FALSE)
             [] OTHER -> Holds(f.orig, f, FALSE)]
\* TLC computes a definition of this module once, but not a constant's value.
MCDisk == DiskTable
CatalogTable == CatalogsOf(DiskTable)
MCCatalog == CatalogTable

\* The same without a catalog for plain German, and with one for French.
OrderDiskTable ==
    [file \in DOMAIN DiskTable \ {File("loc", DE, "hh.mo")} |->
       IF file = File("loc", Plain("fr"), "hh.mo") THEN Plainest ELSE DiskTable[file]]
MCOrderDisk == OrderDiskTable
OrderCatalogTable == CatalogsOf(OrderDiskTable)
MCOrderCatalog == OrderCatalogTable

-----------------------------------------------------------------------------
(* The program. *)

MCLOCALEDIR == Token("/", "loc")
MCDirnames == {Token("", "po")}
MCDomains == {"hh", "messages"}
MCDomainRank == [hh |-> 1, messages |-> 2]
MCCodesets == {"88591", "KOI8"}
MCConvertible == {[from |-> from, to |-> to] : from, to \in {"UTF-8", "88591"}}
MCOutLength == [m \in MCMessages |-> CASE m = M1 -> 5 [] m = M2 -> 9 [] OTHER -> 2]
MCLengths == {5, 9, 2}
MCEnvironments ==
    {[locale |-> Plain("german"), language |-> <<>>, charset |-> "88591"],
     [locale |-> DE, language |-> <<Plain("fr"), <<Token("", "x"), Token("/", "de")>>,
                                    Name(L(DE, "DE", "UTF-8", ""))>>, charset |-> "UTF-8"],
     [locale |-> Plain("C"), language |-> <<DE>>, charset |-> "88591"]}
\* A player who reads German and else French.
MCOrderEnvironments ==
    {[locale |-> DE, language |-> <<Name(L(DE, "DE", "UTF-8", "")), Plain("french")>>,
      charset |-> "UTF-8"]}
MCCalls == {[domainname |-> NULL, msgid |-> M1, n |-> NULL],
            [domainname |-> "hh", msgid |-> M2, n |-> 2],
            [domainname |-> "hh", msgid |-> M3, n |-> NULL]}
FamilyTable ==
    LET Names == UNION {{en.locale} \cup ToSet(en.language) :
                          en \in MCEnvironments \cup MCOrderEnvironments}
                 \cup {line[2] : line \in UNION {ToSet(KeptLines(file)) : file \in ToSet(MCAliasPath)}}
                 \cup {Name(l) : l \in Locales}
        Ends == {<<name, XPGEnds(name)>> : name \in Names}
        Parts == {<<p[1], PartsOf(p[1], p[2])>> : p \in Ends}
    IN  FoldSet(LAMBDA p, f : (p[1] :> Family(p[2])) @@ f, <<>>, Parts)
MCFamilies == FamilyTable

-----------------------------------------------------------------------------
(* The order of preference. *)

\* explodename.c and l10nflist.c try the files in that order (besides those with '+' for
\* '@'), the first time: so says the comment in finddomain.c, line 65, against the one in
\* l10nflist.c, line 329.  When a name is looked for again, the names with the normalized
\* codeset are not tried (finddomain.c, line 88).  The one alias is expanded.
ASSUME PreferredOrder ==
    \A l \in Locales :
       LET Dots(name) == {i \in DOMAIN name : name[i].sep = "."}
           IsFile(name) == Cardinality(Dots(name)) < 2 /\ \A i \in DOMAIN name : name[i].sep # "+"
           Once(order) == FoldLeft(LAMBDA names, n : IF n \in ToSet(names) THEN names ELSE Append(names, n),
                                   <<>>, order)
           Tried(name) == {Once(SelectSeq(order, IsFile)) : order \in Orders(name)}
           all == [i \in DOMAIN Preferred(l) |-> Name(Preferred(l)[i])]
           kept == SelectSeq(all, LAMBDA name : \A i \in Dots(name) : name[i].text = l.cs)
       IN  /\ Tried(Name(l)) = {all, kept}
           /\ l = L(DE, "DE", "UTF-8", "") => Tried(Plain("german")) = {all}

\* What a name stands for by a line of an alias file, wherever the line is.
StandsFor(name) ==
    LET lines == {line \in UNION {ToSet(file) : file \in ToSet(AliasPath)} :
                    Len(line) = 2 /\ line[1] = name}
    IN  IF lines = {} THEN name ELSE (CHOOSE line \in lines : TRUE)[2]
PreferredNames(name) ==
    LET locales == {l \in Locales : Name(l) = StandsFor(name)}
    IN  IF locales = {} THEN <<StandsFor(name)>>
        ELSE LET l == CHOOSE l \in locales : TRUE
             IN  [i \in DOMAIN Preferred(l) |-> Name(Preferred(l)[i])]

\* finddomain.c, line 65, "If the full specified locale is not found, the less specific one
\* are looked for.  The various parts will be stripped off according to the following
\* order"; and an alias means what its line says, every line counting (localealias.c, line
\* 346, "Possibly not the whole line fits into the buffer.  Ignore the rest of the line").
\* So the answer is that of the first catalog with the message, in this order, however
\* often a name is looked for.  (For lists without "C" and without paths.)
AnswerIsPreferred ==
    pc = "answered" /\ ~stale /\ failures = 0 =>
      LET names == FlattenSeq([i \in DOMAIN guess_category_value |->
                                 PreferredNames(guess_category_value[i])])
          files == [i \in DOMAIN names |-> FileFor(Sought(call.domainname), names[i])]
          having == {i \in DOMAIN files : /\ files[i] \in DOMAIN Disk /\ Catalog[files[i]] # Unknown
                                         /\ Catalog[files[i]].index[call.msgid] # NotFound}
      IN  answer.file = IF having = {} THEN NULL ELSE files[Min(having)]
=============================================================================
