------------------------------ MODULE MCPlural ------------------------------
(***************************************************************************)
(* Small instances of PluralParser.  Expression gives the meaning of a     *)
(* sentence by its main operator, a second account of what PluralGrammar   *)
(* builds from the rules.                                                  *)
(***************************************************************************)
EXTENDS PluralParser, TLC

Lexeme == {<<"n">>, <<"1">>, <<"?">>, <<":">>, <<"|", "|">>, <<"&", "&">>, <<"=", "=">>,
           <<"<">>, <<"-">>, <<"%">>, <<"!">>, <<"(">>, <<")">>, <<"=">>}
MCTexts == {[lexemes |-> Lexeme, length |-> 5],
            [lexemes |-> {<<"n">>, <<"?">>, <<":">>}, length |-> 9],
            [lexemes |-> {<<"n">>, <<"-">>, <<"(">>, <<")">>}, length |-> 7],
            [lexemes |-> {<<"7">>, <<"|", "|">>, <<">", "=">>, <<"!", "=">>}, length |-> 7]}

-----------------------------------------------------------------------------
(* The grammar. *)

\* How many brackets are open before place i.
Depth(s, i) == FoldLeft(LAMBDA d, t : IF t.token = "(" THEN d + 1
                                     ELSE IF t.token = ")" THEN d - 1 ELSE d,
                        0, SubSeq(s, 1, i - 1))
Outside(s, tokens) == {i \in DOMAIN s : s[i].token \in tokens /\ Depth(s, i) = 0}
\* The ':' of the '?' at place i.
Colon(s, i) ==
    CHOOSE j \in Outside(s, {":"}) :
        /\ j > i
        /\ \A k \in Outside(s, {":"}) : k \in (i + 1)..(j - 1) =>
             Cardinality({m \in Outside(s, {"?"}) : m \in i..k})
               > Cardinality({m \in Outside(s, {":"}) : m \in i..k})
        /\ Cardinality({m \in Outside(s, {"?"}) : m \in i..j})
             = Cardinality({m \in Outside(s, {":"}) : m \in i..j})

RECURSIVE Expression(_)
Expression(s) ==
    LET levels == {l \in DOMAIN Levels : Outside(s, {Levels[l]}) # {}}
        weakest == CHOOSE l \in levels : \A m \in levels : l <= m
        Part(a, b) == Expression(SubSeq(s, a, b))
    IN  IF levels = {}
          THEN CASE s[1].token = "n" -> Node("var", 0, <<>>)
                 [] s[1].token = "NUMBER" -> Node("num", s[1].value.num, <<>>)
                 [] s[1].token = "!" -> Node("lnot", 0, <<Part(2, Len(s))>>)
                 [] s[1].token = "(" -> Part(2, Len(s) - 1)
          ELSE LET places == Outside(s, {Levels[weakest]})
                   first == CHOOSE i \in places : \A j \in places : i <= j
                   last == CHOOSE i \in places : \A j \in places : i >= j
               IN  CASE weakest = 1 ->
                          LET c == Colon(s, first)
                          IN Node("qmop", 0, <<Part(1, first - 1), Part(first + 1, c - 1),
                                               Part(c + 1, Len(s))>>)
                     [] OTHER ->
                          Node(CASE weakest = 2 -> "lor" [] weakest = 3 -> "land"
                                 [] OTHER -> s[last].value.op,
                               0, <<Part(1, last - 1), Part(last + 1, Len(s))>>)

\* A token of a text.
A(t) == [token |-> t, value |-> Value(IF t \in {"EQUOP2", "ADDOP2"} THEN t ELSE "", 0)]
TextsOf(tokens, length) == [1..length -> {A(t) : t \in tokens}]
IsSentence(s) == Reads(Append(s, A("EOF"))).want = "nothing"

\* The rules give a sentence one meaning, that of its main operator, and every other
\* text none; so what is read up to an end is a sentence.
ASSUME Unambiguous ==
    /\ \A s \in TextsOf({"n", "?", ":", "|", "EQUOP2", "!", "(", ")"}, 3) :
         ~IsSentence(s) => Meanings(s) = {}
    /\ \A s \in TextsOf({"n", "?", ":", "|", "&", "EQUOP2", "ADDOP2", "!", "(", ")"}, 5)
          \cup TextsOf({"n", "?", ":", "|"}, 7) \cup TextsOf({"n", "?", ":"}, 9) :
         IsSentence(s) => Meanings(s) = {Expression(s)}

-----------------------------------------------------------------------------
(* The lexer: of the words a text begins with, after blanks, the longest.  *)

Words == {[text |-> <<c>>, token |-> c] : c \in {"!", "n", "?", ":", "(", ")"}}
   \cup {[text |-> <<c, c>>, token |-> c] : c \in {"|", "&"}}
   \cup {[text |-> <<"=", "=">>, token |-> "EQUOP2"], [text |-> <<"!", "=">>, token |-> "EQUOP2"]}
   \cup {[text |-> <<c, "=">>, token |-> "CMPOP2"] : c \in {"<", ">"}}
   \cup {[text |-> <<c>>, token |-> "CMPOP2"] : c \in {"<", ">"}}
   \cup {[text |-> <<c>>, token |-> "ADDOP2"] : c \in {"+", "-"}}
   \cup {[text |-> <<c>>, token |-> "MULOP2"] : c \in {"*", "/", "%"}}
   \cup {[text |-> d, token |-> "NUMBER"] : d \in UNION {[1..k -> {"1", "7"}] : k \in 1..4}}
Alphabet == {" ", "n", "1", "7", "=", "!", "&", "<", "-", ";", "x"}

\* Every text of up to four characters is read as its longest first word; the end
\* and ';' are read again and again, and anything else is an error of one character.
ASSUME LongestWord ==
    \A exp \in UNION {[1..k -> Alphabet] : k \in 0..4} :
      LET blanks == {k \in 0..Len(exp) : \A i \in 1..k : exp[i] = " "}
          s == SubSeq(exp, 1 + CHOOSE k \in blanks : \A j \in blanks : j <= k, Len(exp))
          first == {w \in Words : IsPrefix(w.text, s)}
          longest == CHOOSE w \in first : \A v \in first : Len(v.text) <= Len(w.text)
          l == yylex(exp)
          Rest(n) == SubSeq(s, n + 1, Len(s))
      IN  IF s = <<>> \/ s[1] = ";" THEN l.token = "EOF" /\ l.rest = s
          ELSE IF first = {} THEN l.token = "error" /\ l.rest = Rest(1)
          ELSE /\ l.token = longest.token
               /\ l.rest = Rest(Len(longest.text))
               /\ l.token = "NUMBER" =>
                    l.value.num = FoldLeft(LAMBDA n, c : n * 10 + (IF c = "1" THEN 1 ELSE 7),
                                           0, longest.text) % (2 ^ Width)
=============================================================================
