---------------------------- MODULE PluralGrammar ----------------------------
(***************************************************************************)
(* The language of plural expressions as intl/plural.y gives it, without   *)
(* the tables that Bison made of it in intl/plural.c: the trees, the rules *)
(* with the precedence of the operators, and how far a text can be the     *)
(* beginning of a sentence.  A token is a record of token and value.       *)
(***************************************************************************)
EXTENDS Integers, Sequences, SequencesExt

(* The union yystype.  An expression has a size, the nodes it consists of; *)
(* a number or an operator that the lexer returns has none.                *)

Value(op, num) == [op |-> op, num |-> num, args |-> <<>>, size |-> 0]
NULL == Value("NULL", 0)
Sizes(values) ==
    LET sum[i \in 0..Len(values)] == IF i = 0 THEN 0 ELSE sum[i - 1] + values[i].size
    IN  sum[Len(values)]
Node(op, num, args) == [op |-> op, num |-> num, args |-> args, size |-> 1 + Sizes(args)]

\* The operators from the weakest to the strongest; all but '?' group to the left.
Levels == <<"?", "|", "&", "EQUOP2", "CMPOP2", "ADDOP2", "MULOP2">>
Operators == {Levels[l] : l \in DOMAIN Levels}

-----------------------------------------------------------------------------
(* The rules.  A phrase is an exp of some tokens of s, with the level of   *)
(* the rule at its root, which tells where it may stand without brackets:  *)
(* 8 is '!', 9 what needs no brackets anywhere.                            *)

Phrase(i, j, level, tree) == [from |-> i, to |-> j, level |-> level, tree |-> tree]
\* The phrases of D from i to j that an operand of at least this level may be.
Between(D, i, j, level) == {p \in D : p.from = i /\ p.to = j /\ p.level >= level}

Atoms(s, i, j) ==
    IF i # j THEN {}
    ELSE IF s[i].token = "n" THEN {Phrase(i, j, 9, Node("var", 0, <<>>))}
    ELSE IF s[i].token = "NUMBER" THEN {Phrase(i, j, 9, Node("num", s[i].value.num, <<>>))}
    ELSE {}
Brackets(s, D, i, j) ==
    IF s[i].token = "(" /\ s[j].token = ")"
      THEN {Phrase(i, j, 9, p.tree) : p \in Between(D, i + 1, j - 1, 1)} ELSE {}
Negations(s, D, i, j) ==
    IF s[i].token = "!"
      THEN {Phrase(i, j, 8, Node("lnot", 0, <<p.tree>>)) : p \in Between(D, i + 1, j, 8)} ELSE {}
Conditionals(s, D, i, j) ==
    UNION {{Phrase(i, j, 1, Node("qmop", 0, <<p.tree, q.tree, r.tree>>)) :
              p \in Between(D, i, c[1] - 1, 2), q \in Between(D, c[1] + 1, c[2] - 1, 1),
              r \in Between(D, c[2] + 1, j, 1)} :
           c \in {c \in (i..j) \X (i..j) : s[c[1]].token = "?" /\ s[c[2]].token = ":"}}
OpOf(t) == IF t.token = "|" THEN "lor" ELSE IF t.token = "&" THEN "land" ELSE t.value.op
Binaries(s, D, i, j, level) ==
    UNION {{Phrase(i, j, level, Node(OpOf(s[m]), 0, <<p.tree, q.tree>>)) :
              p \in Between(D, i, m - 1, level), q \in Between(D, m + 1, j, level + 1)} :
           m \in {m \in i..j : s[m].token = Levels[level]}}
Made(s, D, i, j) ==
    Atoms(s, i, j) \cup Brackets(s, D, i, j) \cup Negations(s, D, i, j)
      \cup Conditionals(s, D, i, j) \cup UNION {Binaries(s, D, i, j, l) : l \in 2..7}

\* The phrases of up to n tokens, for every n.
Phrases(s) ==
    LET upto[n \in 0..Len(s)] ==
          IF n = 0 THEN {}
          ELSE upto[n - 1] \cup UNION {Made(s, upto[n - 1], i, i + n - 1) : i \in 1..(Len(s) + 1 - n)}
    IN  upto
\* The expressions that the whole of s is.
Meanings(s) == {p.tree : p \in Between(Phrases(s)[Len(s)], 1, Len(s), 1)}

-----------------------------------------------------------------------------
(* What may follow: an operand, an operator, or nothing; and what is open. *)

Reading(want, open) == [want |-> want, open |-> open]
Bad == Reading("bad", <<>>)
ReadOperand(open, t) ==
    IF t \in {"n", "NUMBER"} THEN Reading("operator", open)
    ELSE IF t = "!" THEN Reading("operand", open)
    ELSE IF t = "(" THEN Reading("operand", Append(open, "("))
    ELSE Bad
Closes(open, bracket) == open # <<>> /\ Last(open) = bracket
ReadOperator(open, t) ==
    IF t = "?" THEN Reading("operand", Append(open, "?"))
    ELSE IF t \in Operators THEN Reading("operand", open)
    ELSE IF t = ":" /\ Closes(open, "?") THEN Reading("operand", Front(open))
    ELSE IF t = ")" /\ Closes(open, "(") THEN Reading("operator", Front(open))
    ELSE IF t = "EOF" /\ open = <<>> THEN Reading("nothing", <<>>)
    ELSE Bad
ReadNext(r, t) == IF r.want = "operand" THEN ReadOperand(r.open, t)
                  ELSE IF r.want = "operator" THEN ReadOperator(r.open, t)
                  ELSE Bad
Reads(s) ==
    LET r[i \in 0..Len(s)] == IF i = 0 THEN Reading("operand", <<>>)
                                       ELSE ReadNext(r[i - 1], s[i].token)
    IN  r[Len(s)]
=============================================================================
