------------------------------- MODULE Gettext -------------------------------
(***************************************************************************)
(* The message lookup of intl/: DCIGETTEXT and _nl_find_msg                *)
(* (dcigettext.c), _nl_find_domain (finddomain.c), _nl_load_domain and the *)
(* converters (loadmsgcat.c), set_binding_values (bindtextdom.c) and       *)
(* TEXTDOMAIN (textdomain.c), on top of LocaleNames, Catalogs and          *)
(* TransPool.                                                              *)
(*                                                                         *)
(* One thread calls; outside glibc the locks of this code are no-ops.  A   *)
(* call is taken apart where a file is loaded and where memory is asked    *)
(* for.  Calls that only query a binding change nothing and are left out.  *)
(***************************************************************************)
EXTENDS LocaleNames, Catalogs, TransPool, TLC

CONSTANTS Disk,             \* the files on the disk: a function of their names
          Catalog,          \* what they hold in memory
          AliasPath,        \* the alias files on LOCALE_ALIAS_PATH
          Families,         \* the names that come up, taken apart
          Environments,     \* [locale, language, charset]; no element of a list is empty
          Domains, DomainRank,
          Dirnames,         \* what bindtextdomain is called with, tokens
          LOCALEDIR,
          Codesets,
          Convertible,      \* [from, to] that iconv_open supports
          OutLength,        \* length of a converted translation
          Calls,            \* [domainname, msgid, n]; n is NULL in a call without plural
          Category,
          NoTable,          \* (char **) -1, for a conv_tab
          SecureModes,      \* values of ENABLE_SECURE
          MaxOps,           \* bound on the calls of the program
          MaxChanges,       \* bound on the changes of the environment
          MaxFailures       \* bound on what fails

ASSUME BoundAssumption == MaxOps \in Nat /\ MaxChanges \in Nat /\ MaxFailures \in Nat
\* A domain has a file of its own.
ASSUME DomainsAssumption == /\ "messages" \in Domains
                            /\ \A c, d \in Domains : c \o ".mo" = d \o ".mo" => c = d
\* Calls are for messages that occur, whose converted length is known.
ASSUME CallsAssumption ==
    /\ Calls \subseteq [domainname : Domains \cup {NULL}, msgid : DOMAIN Hash, n : {NULL} \cup Nat]
    /\ OutLength \in [DOMAIN Hash -> Lengths]
\* strcmp tells domains apart; NULL is no record.
ASSUME BindingAssumption ==
    /\ DomainRank \in [Domains -> Nat]
    /\ \A c, d \in Domains : DomainRank[c] = DomainRank[d] => c = d
    /\ NULL \notin [domainname : Domains, dirname : Dirnames \cup {LOCALEDIR},
                    codeset : Codesets \cup {NULL}, codeset_cntr : Nat]
\* Two tables, so that nothing is computed twice.
ASSUME TablesAssumption ==
    /\ \A name \in DOMAIN Families : Families[name] = Family(_nl_explode_name(name))
    /\ DOMAIN Catalog = DOMAIN Disk /\ \A file \in DOMAIN Disk : Catalog[file] = Loaded(Disk[file])

\* Files are as msgfmt writes them, and the plural rule has a value for each number.
ASSUME FilesAssumption ==
    \A file \in DOMAIN Disk : Catalog[file] # Unknown =>
        /\ WellFormed(Disk[file])
        /\ \A c \in Calls : c.n # NULL /\ ~Catalog[file].germanic => Catalog[file].plural[c.n] \in Nat
ASSUME ConvertersAssumption == \A c \in Convertible : c.from # Unknown
\* The lines of the alias files that are kept: not every one (localealias.c, line 348).
\* Every name that comes up is in the table.
AliasLines == UNION {ToSet(KeptLines(file)) : file \in ToSet(AliasPath)}
ASSUME NamesAssumption ==
    /\ \A e \in Environments : e.locale \in DOMAIN Families /\ e.language \in Seq(DOMAIN Families)
    /\ AliasPath \in Seq(ToSet(AliasPath))
    /\ \A line \in AliasLines : line[2] \in DOMAIN Families
\* A family has an entry for every name that one of it falls back on, none of them loaded.
ASSUME FamiliesAssumption ==
    \A name \in DOMAIN Families :
       LET top == Families[name].top
           entry == Families[name].entry
       IN  /\ top \in DOMAIN entry
           /\ entry \in [DOMAIN entry -> [decided : BOOLEAN, data : {NULL}, successor : Seq(DOMAIN entry)]]
           /\ \A n \in DOMAIN entry : IS_ABSOLUTE_PATH(n) = IS_ABSOLUTE_PATH(top)

\* struct loaded_domain, and its conv_tab: a table of the strings that are converted.
Indices == {Catalog[file].index[msgid] :
              file \in {file \in DOMAIN Disk : Catalog[file] # Unknown}, msgid \in DOMAIN Hash}
           \ {NotFound}
Tables == UNION {[places -> Strings] : places \in SUBSET Indices}
Data == [codeset_cntr : Nat, conv : {NULL} \cup {c.to : c \in Convertible},
         conv_tab : {NULL, NoTable} \cup Tables]
\* A pointer to something is not NULL, and -1 is no pointer.
ASSUME PointersAssumption ==
    /\ NULL \notin Data /\ NoTable # NULL /\ NULL \notin DOMAIN Families
    /\ \A places \in SUBSET Indices : {NULL, NoTable} \cap [places -> Strings] = {}

VARIABLES env, enable_secure,
          _nl_domain_bindings, _nl_current_default_domain, _nl_msg_cat_cntr,
          _nl_loaded_domains, map, locale_alias_path,
          root,             \* the known translations
          pc, call,         \* where a call is, and its arguments
          categoryvalue, single_locale, domain, cnt,
          retval,           \* what _nl_find_msg found
          answer,
          ops, changes, failures,
          failed, stale     \* history: files that could not be loaded once; whether
                            \* known translations may be those of another environment
bindings == <<_nl_domain_bindings, _nl_current_default_domain, _nl_msg_cat_cntr>>
aliases == <<map, locale_alias_path>>
lookup == <<call, categoryvalue, single_locale, domain, cnt>>
history == <<failures, failed>>
environment == <<env, enable_secure, changes>>
vars == <<pc, lookup, retval, answer, ops, environment, bindings, root, history, stale,
          pool, aliases, _nl_loaded_domains>>

Init == /\ env \in Environments /\ enable_secure \in SecureModes
        /\ _nl_domain_bindings = <<>>
        /\ _nl_current_default_domain = "messages"
        /\ _nl_msg_cat_cntr = 0
        /\ _nl_loaded_domains = <<>>
        /\ map = {} /\ locale_alias_path = AliasPath
        /\ root = <<>>
        /\ pc = "idle" /\ call = NULL
        /\ categoryvalue = <<>> /\ single_locale = NULL /\ domain = NULL /\ cnt = 0
        /\ retval = NULL /\ answer = NULL
        /\ ops = 0 /\ changes = 0 /\ failures = 0 /\ failed = {} /\ stale = FALSE
        /\ PoolInit

Operation == pc = "idle" /\ ops < MaxOps /\ ops' = ops + 1
Fails == failures < MaxFailures /\ failures' = failures + 1

-----------------------------------------------------------------------------
(* Bindings: a list in the order of the domains' names. *)

\* The search ends at the first binding that does not come before the domain.
BindingPlace(d) ==
    CHOOSE i \in 1..(Len(_nl_domain_bindings) + 1) :
        /\ i <= Len(_nl_domain_bindings) =>
             DomainRank[d] <= DomainRank[_nl_domain_bindings[i].domainname]
        /\ \A j \in 1..(i - 1) : DomainRank[d] > DomainRank[_nl_domain_bindings[j].domainname]
Binding(d) ==
    LET i == BindingPlace(d)
    IN  IF i <= Len(_nl_domain_bindings) /\ _nl_domain_bindings[i].domainname = d
          THEN _nl_domain_bindings[i] ELSE NULL

\* A new binding goes to the head, or behind those that come before it.
BugInsertPlace(d) == 1
InsertPlace(d) ==
    IF \/ _nl_domain_bindings = <<>>
       \/ DomainRank[d] < DomainRank[_nl_domain_bindings[1].domainname]
      THEN 1
      ELSE CHOOSE i \in 2..(Len(_nl_domain_bindings) + 1) :
             /\ i <= Len(_nl_domain_bindings) =>
                  DomainRank[d] <= DomainRank[_nl_domain_bindings[i].domainname]
             /\ \A j \in 2..(i - 1) : DomainRank[d] > DomainRank[_nl_domain_bindings[j].domainname]

Flush == _nl_msg_cat_cntr' = _nl_msg_cat_cntr + 1 /\ stale' = FALSE

\* What a set_binding_values leaves alone, whatever it does.
BindingUnchanged == UNCHANGED <<environment, _nl_current_default_domain, _nl_loaded_domains,
                                aliases, root, pc, lookup, retval, answer, failed, pool>>

\* A directory or a codeset (the other is NULL) for a domain that has a binding.
Rebind(d, dirname, codeset) ==
    /\ Operation /\ Binding(d) # NULL
    /\ LET b == Binding(d)
           new == [b EXCEPT !.dirname = IF dirname = NULL THEN @ ELSE dirname,
                            !.codeset = IF codeset = NULL THEN @ ELSE codeset,
                            !.codeset_cntr = IF codeset \in {NULL, b.codeset} THEN @ ELSE @ + 1]
       IN  \/ /\ new # b
              /\ _nl_domain_bindings' = [_nl_domain_bindings EXCEPT ![BindingPlace(d)] = new]
              /\ Flush /\ UNCHANGED failures
           \/ /\ new = b
              /\ UNCHANGED <<_nl_domain_bindings, _nl_msg_cat_cntr, stale, failures>>
           \/ /\ new # b /\ dirname # LOCALEDIR /\ Fails    \* strdup
              /\ UNCHANGED <<_nl_domain_bindings, _nl_msg_cat_cntr, stale>>
    /\ BindingUnchanged

\* The same for a domain that has none.
Bind(d, dirname, codeset) ==
    /\ Operation /\ Binding(d) = NULL
    /\ \/ /\ _nl_domain_bindings' =
               InsertAt(_nl_domain_bindings, InsertPlace(d),
                        [domainname |-> d, dirname |-> IF dirname = NULL THEN LOCALEDIR ELSE dirname,
                         codeset |-> codeset, codeset_cntr |-> IF codeset = NULL THEN 0 ELSE 1])
          /\ Flush /\ UNCHANGED failures
       \/ Fails /\ UNCHANGED <<_nl_domain_bindings, _nl_msg_cat_cntr, stale>>
    /\ BindingUnchanged

BINDTEXTDOMAIN(d, dirname) == Rebind(d, dirname, NULL) \/ Bind(d, dirname, NULL)
BIND_TEXTDOMAIN_CODESET(d, codeset) == Rebind(d, NULL, codeset) \/ Bind(d, NULL, codeset)

\* Setting the domain that is set already tells that the environment has changed.
BugFlushes(d) == d # _nl_current_default_domain
Flushes(d) == TRUE
TEXTDOMAIN(d) ==
    /\ Operation
    /\ \/ /\ _nl_current_default_domain' = d
          /\ IF Flushes(d) THEN Flush ELSE _nl_msg_cat_cntr' = _nl_msg_cat_cntr /\ stale' = FALSE
          /\ UNCHANGED failures
       \/ /\ d \notin {"messages", _nl_current_default_domain} /\ Fails    \* strdup
          /\ UNCHANGED <<_nl_current_default_domain, _nl_msg_cat_cntr, stale>>
    /\ UNCHANGED <<environment, _nl_domain_bindings, _nl_loaded_domains, aliases, root, pc,
                   lookup, retval, answer, failed, pool>>

\* setlocale or setenv: nobody tells this code.
ChangeEnvironment ==
    /\ pc = "idle" /\ changes < MaxChanges /\ changes' = changes + 1
    /\ env' \in Environments \ {env}
    /\ stale' = TRUE
    /\ UNCHANGED <<ops, enable_secure, bindings, _nl_loaded_domains, aliases, root, pc, lookup, retval,
                   answer, history, pool>>

-----------------------------------------------------------------------------
(* The start of a call. *)

Key(c) == [msgid |-> c.msgid, domainname |-> c.domainname, category |-> Category]
IsC(name) == name \in {<<Token("", "C")>>, <<Token("", "POSIX")>>}

\* LANGUAGE counts unless the locale is "C".
guess_category_value ==
    IF env.language # <<>> /\ env.locale # <<Token("", "C")>> THEN env.language ELSE <<env.locale>>

\* The directory is made absolute with the working directory's name.
DirOf(b) == IF b = NULL THEN LOCALEDIR
            ELSE IF IS_ABSOLUTE_PATH(<<b.dirname>>) THEN b.dirname
            ELSE Token("/", "cwd/" \o b.dirname.text)
\* <category>/<domain>.mo
MoFile(d) == <<Token("/", Category), Token("/", d \o ".mo")>>
xdomainname == MoFile(call.domainname)

\* Without a translation the Germanic plural rule holds.
Answer(file, act, codeset, place) ==
    LET n == call'.n
        variant == IF n = NULL THEN 0
                   ELSE IF file # NULL THEN plural_lookup(Catalog[file], act, n)
                   ELSE IF n = 1 THEN 0 ELSE 1
    IN  answer' = [file |-> file, act |-> act, variant |-> variant,
                   codeset |-> codeset, place |-> place]
Untranslated == Answer(NULL, NotFound, NULL, NULL) /\ pc' = "answered"

DCIGETTEXT(arguments) ==
    /\ Operation
    /\ LET d == IF arguments.domainname = NULL THEN _nl_current_default_domain
                                               ELSE arguments.domainname
           c == [arguments EXCEPT !.domainname = d]
           known == Key(c) \in DOMAIN root /\ root[Key(c)].counter = _nl_msg_cat_cntr
       IN  /\ call' = c
           /\ \/ /\ known
                 /\ LET k == root[Key(c)] IN Answer(k.domain, k.act, k.codeset, k.place)
                 /\ pc' = "answered"
                 /\ UNCHANGED <<categoryvalue, failures, stale>>
              \/ /\ ~known
                 /\ categoryvalue' = guess_category_value
                 /\ pc' = "locale"
                 /\ UNCHANGED <<answer, failures, stale>>
              \/ /\ ~known /\ Binding(d) # NULL /\ ~IS_ABSOLUTE_PATH(<<Binding(d).dirname>>)
                 /\ Fails /\ stale' = TRUE                  \* getcwd
                 /\ Untranslated
                 /\ UNCHANGED categoryvalue
    /\ UNCHANGED <<environment, bindings, _nl_loaded_domains, aliases, root, single_locale,
                   domain, cnt, retval, failed, pool>>

\* The next element of the list; "C" behind the last one.
NextLocale ==
    /\ pc = "locale"
    /\ LET name == IF categoryvalue = <<>> THEN <<Token("", "C")>> ELSE Head(categoryvalue)
       IN  /\ categoryvalue' = IF categoryvalue = <<>> THEN <<>> ELSE Tail(categoryvalue)
           /\ single_locale' = name
           /\ \/ /\ enable_secure /\ IS_PATH_WITH_DIR(name)
                 /\ UNCHANGED <<call, answer, pc>>
              \/ /\ ~(enable_secure /\ IS_PATH_WITH_DIR(name)) /\ IsC(name)
                 /\ UNCHANGED call /\ Untranslated
              \/ /\ ~(enable_secure /\ IS_PATH_WITH_DIR(name)) /\ ~IsC(name)
                 /\ pc' = "find" /\ UNCHANGED <<call, answer>>
    /\ UNCHANGED <<environment, bindings, _nl_loaded_domains, aliases, root, domain, cnt,
                   retval, ops, history, stale, pool>>

-----------------------------------------------------------------------------
(* _nl_find_domain *)

Dirname == DirOf(Binding(call.domainname))

\* The name as it is may be in the list; else it is taken for an alias, and taken
\* apart.
FindDomain ==
    /\ pc = "find"
    /\ cnt' = 0
    /\ \/ /\ Filename(Dirname, single_locale, xdomainname) \in DOMAIN _nl_loaded_domains
          /\ domain' = Filename(Dirname, single_locale, xdomainname)
          /\ pc' = "load"
          /\ UNCHANGED <<_nl_loaded_domains, aliases, failures, stale>>
       \/ /\ Filename(Dirname, single_locale, xdomainname) \notin DOMAIN _nl_loaded_domains
          /\ \E a \in {_nl_expand_alias(map, locale_alias_path, single_locale)} :
               /\ map' = a.map /\ locale_alias_path' = a.path
               /\ \/ \E family \in {Families[IF a.value = NULL THEN single_locale ELSE a.value]} :
                       /\ _nl_loaded_domains' =
                            _nl_make_l10nflist(_nl_loaded_domains, Dirname, family, xdomainname)
                       /\ domain' = Filename(Dirname, family.top, xdomainname)
                       /\ pc' = "load"
                       /\ UNCHANGED <<failures, stale>>
                  \/ /\ Fails /\ stale' = TRUE            \* strdup or malloc
                     /\ pc' = "locale" /\ UNCHANGED <<_nl_loaded_domains, domain>>
    /\ UNCHANGED <<environment, bindings, root, call, categoryvalue, single_locale, retval,
                   answer, ops, failed, pool>>

\* The entry itself, then its successors.
LastFile == Len(_nl_loaded_domains[domain].successor)
FileAt(k) == IF k = 0 THEN domain
                ELSE [domain EXCEPT !.name = _nl_loaded_domains[domain].successor[k]]
This == _nl_loaded_domains[FileAt(cnt)]
SetData(data) == _nl_loaded_domains' = [_nl_loaded_domains EXCEPT ![FileAt(cnt)].data = data]

\* The loops over them ask for a file that is loaded, then for one that has the message.
Wanted(f) == /\ _nl_loaded_domains[f].data # NULL
             /\ pc = "search" => Catalog[f].index[call.msgid] # NotFound
\* A file that has not been looked for, and is there, is read on the way.
Unread(f) == /\ ~_nl_loaded_domains[f].decided
             /\ f \in DOMAIN Disk /\ Catalog[f] # Unknown
\* Where the loop stops next: behind the last, if nothing is found.
Stops(k) == k <= LastFile => Wanted(FileAt(k)) \/ Unread(FileAt(k))
Stop(k) == Stops(k) /\ \A i \in cnt..(k - 1) : ~Stops(i)
\* What was not there on the way is not looked for again.
BugDecided(e, data) == [e EXCEPT !.data = data]
Decided(e, data) == [e EXCEPT !.decided = TRUE, !.data = data]
Passed(stop) ==
    [f \in DOMAIN _nl_loaded_domains |->
       LET e == _nl_loaded_domains[f]
       IN  IF ~e.decided /\ \E k \in cnt..(stop - 1) : f = FileAt(k) THEN Decided(e, NULL) ELSE e]

\* _nl_init_domain_conv: the output codeset is the binding's, or the environment's.
Counter(b) == IF b = NULL THEN 0 ELSE b.codeset_cntr
_nl_init_domain_conv(f, b) ==
    LET from == f.charset
        to == IF b # NULL /\ b.codeset # NULL THEN b.codeset ELSE env.charset
    IN  [codeset_cntr |-> Counter(b),
         conv |-> IF from # Unknown /\ [from |-> from, to |-> to] \in Convertible THEN to ELSE NULL,
         conv_tab |-> NULL]

\* _nl_load_domain; decided is set first, so a failure is not tried again.
Load ==
    /\ pc \in {"load", "search"}
    /\ \E stop \in cnt..LastFile :
         /\ Stop(stop) /\ Unread(FileAt(stop))
         /\ cnt' = stop
         /\ LET f == FileAt(stop)
                With(data) == _nl_loaded_domains' = [Passed(stop) EXCEPT ![f] = Decided(@, data)]
            IN  \/ /\ With(_nl_init_domain_conv(Catalog[f], Binding(call.domainname)))
                   /\ UNCHANGED history
                \/ /\ Fails                     \* open, fstat, malloc, read
                   /\ With(NULL) /\ failed' = failed \cup {f}
    /\ UNCHANGED <<environment, bindings, aliases, root, pc, call, categoryvalue,
                   single_locale, domain, retval, answer, ops, stale, pool>>

\* _nl_find_domain ends with the first entry that is loaded, or without any; then
\* _nl_find_msg is asked of the entry and of its successors.
EndLoop ==
    /\ pc \in {"load", "search"}
    /\ \E stop \in cnt..(LastFile + 1) :
         /\ Stop(stop)
         /\ stop <= LastFile => ~Unread(FileAt(stop))
         /\ _nl_loaded_domains' = Passed(stop)
         /\ \/ pc = "load" /\ pc' = "search" /\ cnt' = 0
            \/ pc = "search" /\ stop <= LastFile /\ pc' = "translate" /\ cnt' = stop
            \/ pc = "search" /\ stop > LastFile /\ pc' = "locale" /\ cnt' = 0
    /\ UNCHANGED <<environment, bindings, aliases, root, call, categoryvalue,
                   single_locale, domain, retval, answer, ops, history, stale, pool>>

-----------------------------------------------------------------------------
(* _nl_find_msg. *)

Act == Catalog[FileAt(cnt)].index[call.msgid]

\* The converter is renewed if the codeset has been bound anew since.
BugCurrent(data, b) == data
Current(data, b) == IF data.codeset_cntr = Counter(b) THEN data
                    ELSE _nl_init_domain_conv(Catalog[FileAt(cnt)], b)

Found(codeset, place) ==
    /\ retval' = [file |-> FileAt(cnt), act |-> Act, codeset |-> codeset, place |-> place]
    /\ pc' = "found"

\* The message is there; its translation may have to be converted, once.
FindMsg ==
    /\ pc = "translate"
    /\ LET f == Catalog[FileAt(cnt)]
           data == Current(This.data, Binding(call.domainname))
           Update(conv_tab) == SetData([data EXCEPT !.conv_tab = conv_tab])
       IN  \/ /\ data.conv = NULL \/ data.conv_tab = NoTable
              /\ Update(data.conv_tab) /\ Found(f.charset, NULL)
              /\ UNCHANGED <<pool, failures>>
           \/ /\ data.conv # NULL /\ data.conv_tab = NULL /\ Fails     \* calloc
              /\ Update(NoTable) /\ Found(f.charset, NULL)
              /\ UNCHANGED pool
           \/ /\ data.conv # NULL /\ data.conv_tab \notin {NULL, NoTable}
              /\ Act \in DOMAIN data.conv_tab
              /\ Update(data.conv_tab) /\ Found(data.conv, data.conv_tab[Act])
              /\ UNCHANGED <<pool, failures>>
           \/ /\ data.conv # NULL /\ data.conv_tab # NoTable
              /\ data.conv_tab # NULL => Act \notin DOMAIN data.conv_tab
              /\ Update(IF data.conv_tab = NULL THEN <<>> ELSE data.conv_tab)
              /\ BeginConversion(OutLength[call.msgid])
              /\ pc' = "convert" /\ UNCHANGED <<retval, failures>>
    /\ UNCHANGED <<environment, bindings, aliases, root, lookup, answer, ops, failed, stale>>

Convert ==
    /\ pc = "convert"
    /\ \/ /\ Store
          /\ SetData([This.data EXCEPT !.conv_tab = Over([act \in {Act} |-> ThisString], @)])
          /\ Found(This.data.conv, ThisString)
          /\ UNCHANGED failures
       \/ /\ CannotConvert \/ NoMemory
          /\ Fails
          /\ Found(Catalog[FileAt(cnt)].charset, NULL)
          /\ UNCHANGED _nl_loaded_domains
       \/ /\ Resize
          /\ UNCHANGED <<_nl_loaded_domains, retval, pc, failures>>
    /\ UNCHANGED <<environment, bindings, aliases, root, lookup, answer, ops, failed, stale>>

-----------------------------------------------------------------------------
(* The end of a call: the translation is remembered, if there is memory or *)
(* an entry for it already, and the plural variant is picked. *)

Remember ==
    /\ pc = "found"
    /\ LET key == Key(call)
           new == [counter |-> _nl_msg_cat_cntr, domain |-> retval.file, act |-> retval.act,
                   codeset |-> retval.codeset, place |-> retval.place]
       IN  \/ root' = Over([k \in {key} |-> new], root) /\ UNCHANGED failures
           \/ key \notin DOMAIN root /\ Fails /\ UNCHANGED root
    /\ UNCHANGED call
    /\ Answer(retval.file, retval.act, retval.codeset, retval.place)
    /\ pc' = "answered" /\ retval' = NULL
    /\ UNCHANGED <<environment, bindings, _nl_loaded_domains, aliases, categoryvalue,
                   single_locale, domain, cnt, ops, failed, stale, pool>>

Return ==
    /\ pc = "answered"
    /\ pc' = "idle" /\ answer' = NULL
    /\ call' = NULL /\ categoryvalue' = <<>> /\ single_locale' = NULL /\ domain' = NULL /\ cnt' = 0
    /\ UNCHANGED <<environment, bindings, _nl_loaded_domains, aliases, root, retval, ops,
                   history, stale, pool>>

Step == \/ NextLocale \/ FindDomain \/ Load \/ EndLoop
        \/ FindMsg \/ Convert \/ Remember \/ Return

Next == \/ \E d \in Domains : \/ \E dirname \in Dirnames : BINDTEXTDOMAIN(d, dirname)
                              \/ \E codeset \in Codesets : BIND_TEXTDOMAIN_CODESET(d, codeset)
                              \/ TEXTDOMAIN(d)
        \/ ChangeEnvironment
        \/ \E arguments \in Calls : DCIGETTEXT(arguments)
        \/ Step

\* Once called, the function runs until it returns.
Spec == Init /\ [][Next]_vars /\ WF_vars(Step)

-----------------------------------------------------------------------------
(* Properties. *)

\* A file of the list, what is known of it, and what is known of a message.
TypeOK ==
    /\ pc \in {"idle", "locale", "find", "load", "search", "translate", "convert", "found", "answered"}
    /\ _nl_current_default_domain \in Domains /\ _nl_msg_cat_cntr \in 0..MaxOps
    /\ \A f \in DOMAIN _nl_loaded_domains :
         LET e == _nl_loaded_domains[f]
         IN  /\ \A name \in ToSet(e.successor) : [f EXCEPT !.name = name] \in DOMAIN _nl_loaded_domains
             /\ e.data # NULL => /\ f \in DOMAIN Disk
                                 /\ e.data.conv = NULL => e.data.conv_tab = NULL
    /\ \A k \in DOMAIN root : /\ _nl_loaded_domains[root[k].domain].data # NULL
                              /\ root[k].counter <= _nl_msg_cat_cntr
    /\ pc \in {"load", "search", "translate", "convert"} => cnt \in 0..LastFile

\* The list of bindings is searched only up to the first that comes later in the order of
\* the domains.  No binding is hidden by that or bound twice, whatever order they are
\* made in (bindtextdom.c).
NothingHidden ==
    \A i \in DOMAIN _nl_domain_bindings :
       Binding(_nl_domain_bindings[i].domainname) = _nl_domain_bindings[i]

\* What a locale's name stands for by the lines of the alias files that were kept, and the
\* names that a file for it may have, the most wanted first.  There is more than one such
\* order, since the code goes by the entries it has.  The first time it is that of the
\* name's family; then a name that has an entry is not taken apart again, so that the names
\* with the normalized codeset are missing (finddomain.c, line 88); and an entry keeps what
\* it was made with, be it in another family that has not this name (l10nflist.c, line
\* 289).  That the comments of the code promise more than these orders is the matter of
\* AnswerIsPreferred, in MCGettext.
Meant(name) ==
    LET values == {line[2] : line \in {line \in AliasLines : line[1] = name}}
    IN  IF values = {} THEN {name} ELSE values
Made == UNION {Meant(name) : name \in DOMAIN Families}
Order(first, family) == <<first>> \o Families[family].entry[first].successor
Orders(name) ==
    LET Has(family) == name \in DOMAIN Families[family].entry
        tops == {Families[family].top : family \in Meant(name)}
    IN  {Order(Families[family].top, family) : family \in Meant(name)}
        \cup {Order(name, family) : family \in {family \in Made : Has(family)}}
        \cup {Order(p[1], p[2]) : p \in {p \in tops \X Made : /\ ~Has(p[2])
                                                         /\ p[1] \in DOMAIN Families[p[2]].entry}}

\* What a call for a domain goes by, and where it finds nothing.
Sought(d) == [names |-> guess_category_value, secure |-> enable_secure, failed |-> failed,
              dirname |-> DirOf(Binding(d)), file |-> MoFile(d)]
FileFor(s, name) == Filename(s.dirname, name, s.file)
Passes(s, name) == s.secure /\ IS_PATH_WITH_DIR(name)
Lacks(s, msgid, name) ==
    \/ FileFor(s, name) \notin DOMAIN Disk \/ Catalog[FileFor(s, name)] = Unknown
    \/ FileFor(s, name) \in s.failed
    \/ Catalog[FileFor(s, name)].index[msgid] = NotFound
    \/ \E n \in DOMAIN Families :      \* it is no name of a file
          name \in DOMAIN Families[n].entry /\ Families[n].entry[name].decided

\* Nothing is found for the locales before the i-th; the first file of the i-th that
\* does not lack the message; the list ends without a translation.
InVain(s, msgid, i) ==
    \A j \in 1..(i - 1) :
       \/ Passes(s, s.names[j])
       \/ /\ ~IsC(s.names[j])
          /\ \E order \in Orders(s.names[j]) : \A k \in DOMAIN order : Lacks(s, msgid, order[k])
IsFirst(s, msgid, i, file) ==
    /\ ~Passes(s, s.names[i]) /\ ~IsC(s.names[i])
    /\ \E order \in Orders(s.names[i]) : \E k \in DOMAIN order :
          /\ file = FileFor(s, order[k])
          /\ \A j \in 1..(k - 1) : Lacks(s, msgid, order[j])
ListEnds(s, i) == i <= Len(s.names) => ~Passes(s, s.names[i]) /\ IsC(s.names[i])

\* A call finds the first catalog that has the message, in one of the code's own orders
\* of names (Orders; they allow for what the list of files and the alias files lose): in
\* the directory bound last, by the environment's locale and LANGUAGE list, for the default
\* domain set last, whatever was remembered of earlier calls.  Excepted are a file that
\* could not be loaded once, which counts as one that lacks the message from then on
\* (loadmsgcat.c, line 925), and the time between a change of the environment, or a call
\* that was given up for want of memory or of the working directory, and the program's next
\* change of a binding, or textdomain.
AnswerIsBest ==
    pc = "answered" /\ ~stale =>
      LET s == Sought(call.domainname)
      IN  IF answer.act = NotFound
            THEN \E i \in 1..(Len(s.names) + 1) : InVain(s, call.msgid, i) /\ ListEnds(s, i)
            ELSE \E i \in DOMAIN s.names : /\ InVain(s, call.msgid, i)
                                           /\ IsFirst(s, call.msgid, i, answer.file)

\* The answer is in the codeset the program has bound the domain to, if there is a
\* converter, else in that of the catalog: converters, converted strings and known
\* translations of before the binding do not show (codeset_cntr, _nl_msg_cat_cntr).
AnswerInCodeset ==
    LET b == Binding(call.domainname)
        from == Catalog[answer.file].charset
    IN  pc = "answered" /\ answer.file # NULL /\ failures = 0 /\ b # NULL /\ b.codeset # NULL =>
            answer.codeset = IF [from |-> from, to |-> b.codeset] \in Convertible
                               THEN b.codeset ELSE from

\* What is handed out is the translation of this message, and a variant of it that
\* exists, even if the header's rule and the translation disagree (plural_lookup).  A
\* converted one is where it was put, although its file may have another converter now.
AnswerExists ==
    pc = "answered" /\ answer.file # NULL =>
      /\ Catalog[answer.file].messages[answer.act + 1] = call.msgid
      /\ answer.variant < Catalog[answer.file].variants[answer.act + 1]
      /\ answer.place # NULL => /\ answer.place \in strings
                                /\ answer.place.length = ALIGN + OutLength[call.msgid]

\* Every call returns, with a translation or without: neither the list of languages nor
\* that of the files, nor the growing of the memory goes on for ever.
CallsEnd == pc # "idle" ~> pc = "idle"
=============================================================================
