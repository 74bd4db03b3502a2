---------------------------- MODULE PluralParser ----------------------------
(***************************************************************************)
(* The parser of plural expressions, intl/plural.c: yyparse of Bison 1.35  *)
(* with its tables, its stacks and its error handling, the lexer yylex,    *)
(* and new_exp, which builds the expression and frees it again when memory *)
(* is short.                                                               *)
(*                                                                         *)
(* The text is chosen as it is read: each call of yylex meets some lexeme  *)
(* followed by a blank.  Error tokens are never shifted (NoErrorRule), so  *)
(* yyerrstatus decides nothing and is left out.                            *)
(***************************************************************************)
EXTENDS PluralGrammar

CONSTANTS Texts,        \* what is read: sets of [lexemes, length]
          Width,        \* bits of an unsigned long
          YYINITDEPTH, YYMAXDEPTH,
          MaxFailures   \* bound on the failures of malloc

ASSUME DepthAssumption == /\ YYINITDEPTH \in Nat /\ YYINITDEPTH > 1
                          /\ YYMAXDEPTH \in Nat /\ YYMAXDEPTH >= YYINITDEPTH

-----------------------------------------------------------------------------
(* malloc is called only for arguments that are all there; without it the  *)
(* arguments are freed. *)
Complete(args) == \A i \in DOMAIN args : args[i] # NULL
NewExp(op, num, args, got) ==
    IF Complete(args) /\ got THEN Node(op, num, args) ELSE NULL
\* Only the first argument is freed.
BugFREE_EXPRESSION(args) == IF args = <<>> THEN 0 ELSE args[1].size
FREE_EXPRESSION(args) == Sizes(args)

-----------------------------------------------------------------------------
(* yylex: a character is a string of length one. *)

Digits == <<"0", "1", "2", "3", "4", "5", "6", "7", "8", "9">>
DigitOf(c) == (CHOOSE i \in DOMAIN Digits : Digits[i] = c) - 1
\* How far from the start the text consists of such characters.
Span(exp, chars) ==
    CHOOSE k \in 0..Len(exp) : /\ \A i \in 1..k : exp[i] \in chars
                               /\ k < Len(exp) => exp[k + 1] \notin chars
\* An unsigned long wraps around.
NumberOf(digits) ==
    FoldLeft(LAMBDA n, c : (n * 10 + DigitOf(c)) % (2 ^ Width), 0, digits)

Token(s, t, v, n) == [token |-> t, value |-> v, rest |-> SubSeq(s, n + 1, Len(s))]
Number(s) == LET k == Span(s, ToSet(Digits))
             IN  Token(s, "NUMBER", Value("", NumberOf(SubSeq(s, 1, k))), k)
\* The token that s begins with.
FirstToken(s) ==
    LET c == s[1]
        next(d) == Len(s) > 1 /\ s[2] = d
        Op(t, op, n) == Token(s, t, Value(op, 0), n)
        Plain(t, n) == Token(s, t, NULL, n)
    IN  CASE s = <<>> -> Plain("EOF", 0)
          [] c \in ToSet(Digits) -> Number(s)
          [] c = "=" -> IF next("=") THEN Op("EQUOP2", "equal", 2) ELSE Plain("error", 1)
          [] c = "!" -> IF next("=") THEN Op("EQUOP2", "not_equal", 2) ELSE Plain("!", 1)
          [] c \in {"&", "|"} -> IF next(c) THEN Plain(c, 2) ELSE Plain("error", 1)
          [] c = "<" -> IF next("=") THEN Op("CMPOP2", "less_or_equal", 2)
                                     ELSE Op("CMPOP2", "less_than", 1)
          [] c = ">" -> IF next("=") THEN Op("CMPOP2", "greater_or_equal", 2)
                                     ELSE Op("CMPOP2", "greater_than", 1)
          [] c = "*" -> Op("MULOP2", "mult", 1)
          [] c = "/" -> Op("MULOP2", "divide", 1)
          [] c = "%" -> Op("MULOP2", "module", 1)
          [] c = "+" -> Op("ADDOP2", "plus", 1)
          [] c = "-" -> Op("ADDOP2", "minus", 1)
          [] c \in {"n", "?", ":", "(", ")"} -> Plain(c, 1)
          [] c \in {";", "\n"} -> Plain("EOF", 0)
          [] OTHER -> Plain("error", 1)
yylex(exp) == FirstToken(SubSeq(exp, 1 + Span(exp, {" ", "\t"}), Len(exp)))

-----------------------------------------------------------------------------
(* Bison's tables, from index 0. *)

YYFINAL == 27
YYFLAG == -32768
YYNTBASE == 16
YYLAST == 53
YYEMPTY == "YYEMPTY"
YYTERROR == 1

yytname == <<"EOF", "error", "undefined", "?", "|", "&", "EQUOP2", "CMPOP2", "ADDOP2",
             "MULOP2", "!", "NUMBER", ":", "n", "(", ")">>
YYTRANSLATE(token) == (CHOOSE i \in DOMAIN yytname : yytname[i] = token) - 1

At(table, i) == table[i + 1]

yyr1 == <<0, 16, 17, 17, 17, 17, 17, 17, 17, 17, 17, 17, 17>>
yyr2 == <<0, 1, 5, 3, 3, 3, 3, 3, 3, 2, 1, 1, 3>>
yydefact == <<0, 0, 11, 10, 0, 1, 9, 0, 0, 0, 0, 0, 0, 0, 0, 12, 0, 3, 4, 5, 6, 7, 8,
              0, 2, 0, 0, 0>>
yydefgoto == <<25, 5>>
\* ADDOP2 groups to the right.
BugYypact == <<-9, -9, YYFLAG, YYFLAG, -9, 34, YYFLAG, 11, -9, -9, -9, -9, -9, -9, -9,
               YYFLAG, 24, 39, 43, 16, 26, 26, YYFLAG, -9, 34, 21, 53, YYFLAG>>
yypact == <<-9, -9, YYFLAG, YYFLAG, -9, 34, YYFLAG, 11, -9, -9, -9, -9, -9, -9, -9,
            YYFLAG, 24, 39, 43, 16, 26, -3, YYFLAG, -9, 34, 21, 53, YYFLAG>>
yypgoto == <<YYFLAG, -1>>
yytable == <<6, 1, 2, 7, 3, 4, 14, 16, 17, 18, 19, 20, 21, 22, 8, 9, 10, 11, 12, 13, 14,
             26, 24, 12, 13, 14, 15, 8, 9, 10, 11, 12, 13, 14, 13, 14, 23, 8, 9, 10, 11,
             12, 13, 14, 10, 11, 12, 13, 14, 11, 12, 13, 14, 27>>
yycheck == <<1, 10, 11, 4, 13, 14, 9, 8, 9, 10, 11, 12, 13, 14, 3, 4, 5, 6, 7, 8, 9,
             0, 23, 7, 8, 9, 15, 3, 4, 5, 6, 7, 8, 9, 8, 9, 12, 3, 4, 5, 6,
             7, 8, 9, 5, 6, 7, 8, 9, 6, 7, 8, 9, 0>>

\* What the tables say of a state and an internal token: n > 0 shifts and goes to
\* state n, n < 0 reduces by rule -n, 0 is an error.
Lookup(state, token) ==
    LET n == At(yypact, state) + token
    IN  IF n \in 0..YYLAST /\ At(yycheck, n) = token THEN At(yytable, n)
                                                    ELSE -At(yydefact, state)
Goto(rule, state) ==
    LET nt == At(yyr1, rule) - YYNTBASE
        n == At(yypgoto, nt) + state
    IN  IF n \in 0..YYLAST /\ At(yycheck, n) = state THEN At(yytable, n)
                                                    ELSE At(yydefgoto, nt)

\* No state has a use for the error token, so that yyerrhandle always pops.
ASSUME NoErrorRule ==
    \A s \in 0..(YYFINAL - 1) : LET n == At(yypact, s) + YYTERROR
                                IN n \in 0..YYLAST => At(yycheck, n) # YYTERROR

-----------------------------------------------------------------------------
VARIABLES label,        \* the place in yyparse
          text,         \* the member of Texts that is read
          seen,         \* history: the tokens that yylex returned
          yyss, yyvs,   \* the stacks; the wasted element of yyvs is left out
          yystate, yystacksize, yychar, yylval, yyresult,
          res,          \* args->res
          live,         \* nodes allocated and not freed
          failures      \* mallocs that failed
stacks == <<yyss, yyvs, yystate, yystacksize>>
memory == <<live, failures>>
vars == <<label, text, seen, stacks, yychar, yylval, yyresult, res, memory>>

Init == /\ label = "yysetstate"
        /\ text \in Texts
        /\ seen = <<>>
        /\ yyss = <<>> /\ yyvs = <<>> /\ yystate = 0 /\ yystacksize = YYINITDEPTH
        /\ yychar = YYEMPTY /\ yylval = NULL
        /\ yyresult = -1
        /\ res = NULL
        /\ live = 0 /\ failures = 0

Return(result) == label' = "yyreturn" /\ yyresult' = result

\* Nothing is done until there is no place for the state at hand.
BugFull(height) == height > yystacksize
Full(height) == height >= yystacksize

(* yysetstate: push the state, make room for the next. *)
PushState ==
    /\ label = "yysetstate"
    /\ yyss' = Append(yyss, yystate)
    /\ LET full == Full(Len(yyss'))
           more == IF 2 * yystacksize > YYMAXDEPTH THEN YYMAXDEPTH ELSE 2 * yystacksize
       IN  \/ /\ ~full
              /\ label' = "yybackup"
              /\ UNCHANGED <<yystacksize, yyresult>>
           \/ /\ full /\ yystacksize >= YYMAXDEPTH
              /\ Return(2)
              /\ UNCHANGED yystacksize
           \/ /\ full /\ yystacksize < YYMAXDEPTH
              /\ yystacksize' = more
              /\ label' = "yybackup"
              /\ UNCHANGED yyresult
    /\ UNCHANGED <<text, seen, yyvs, yystate, yychar, yylval, res, memory>>

(* yybackup: some states need no token; the others read one, if none waits. *)
NeedsToken == At(yypact, yystate) # YYFLAG
Decision == IF NeedsToken THEN Lookup(yystate, YYTRANSLATE(yychar))
                          ELSE -At(yydefact, yystate)
Decides == label = "yybackup" /\ (NeedsToken => yychar # YYEMPTY)

ReadToken ==
    /\ label = "yybackup" /\ NeedsToken /\ yychar = YYEMPTY
    /\ \E lexeme \in {<<>>} \cup (IF Len(seen) < text.length THEN text.lexemes ELSE {}) :
         LET l == yylex(lexeme)
         IN  /\ yychar' = l.token
             /\ yylval' = IF l.value = NULL THEN yylval ELSE l.value
             /\ seen' = Append(seen, [token |-> l.token, value |-> l.value])
    /\ UNCHANGED <<label, text, stacks, yyresult, res, memory>>

Shift == /\ Decides
         /\ Decision > 0 /\ Decision # YYFINAL
         /\ yychar' = IF yychar = "EOF" THEN "EOF" ELSE YYEMPTY
         /\ yyvs' = Append(yyvs, yylval)
         /\ yystate' = Decision
         /\ label' = "yysetstate"
         /\ UNCHANGED <<text, seen, yyss, yystacksize, yylval, yyresult, res, memory>>

Accept == /\ Decides
          /\ Decision = YYFINAL
          /\ Return(0)
          /\ UNCHANGED <<text, seen, stacks, yychar, yylval, res, memory>>

(* yyreduce: the last yylen values make one, and the state follows. *)
Rhs(rule) == SubSeq(yyvs, Len(yyvs) - At(yyr2, rule) + 1, Len(yyvs))
Becomes(rule, yyval) ==
    LET n == At(yyr2, rule)
    IN  /\ yyvs' = Append(SubSeq(yyvs, 1, Len(yyvs) - n), yyval)
        /\ yyss' = SubSeq(yyss, 1, Len(yyss) - n)
        /\ yystate' = Goto(rule, Last(yyss'))
        /\ label' = "yysetstate"
        /\ UNCHANGED <<yystacksize, yyresult>>

\* start: exp
ReduceStart ==
    /\ Decides /\ Decision = -1
    /\ LET exp == Last(yyvs)
       IN  IF exp = NULL
             THEN Return(1) /\ UNCHANGED <<res, stacks>>
             ELSE res' = exp /\ Becomes(1, exp)
    /\ UNCHANGED <<text, seen, yychar, yylval, memory>>

\* exp: '(' exp ')'
ReduceParentheses ==
    /\ Decides /\ Decision = -12
    /\ Becomes(12, Rhs(12)[2])
    /\ UNCHANGED <<text, seen, yychar, yylval, res, memory>>

\* The operator and the arguments of the rules that build an expression.
Semantic(rule, rhs) ==
    CASE rule = 2 -> [op |-> "qmop", num |-> 0, args |-> <<rhs[1], rhs[3], rhs[5]>>]
      [] rule = 3 -> [op |-> "lor", num |-> 0, args |-> <<rhs[1], rhs[3]>>]
      [] rule = 4 -> [op |-> "land", num |-> 0, args |-> <<rhs[1], rhs[3]>>]
      [] rule \in 5..8 -> [op |-> rhs[2].op, num |-> 0, args |-> <<rhs[1], rhs[3]>>]
      [] rule = 9 -> [op |-> "lnot", num |-> 0, args |-> <<rhs[2]>>]
      [] rule = 10 -> [op |-> "var", num |-> 0, args |-> <<>>]
      [] rule = 11 -> [op |-> "num", num |-> rhs[1].num, args |-> <<>>]

ReduceExp ==
    /\ Decides /\ -Decision \in 2..11
    /\ LET rule == -Decision
           s == Semantic(rule, Rhs(rule))
       IN  \E got \in BOOLEAN :
             LET yyval == NewExp(s.op, s.num, s.args, got)
             IN  /\ ~got => Complete(s.args) /\ failures < MaxFailures
                 /\ failures' = IF got THEN failures ELSE failures + 1
                 /\ live' = IF yyval # NULL THEN live + 1 ELSE live - FREE_EXPRESSION(s.args)
                 /\ Becomes(rule, yyval)
    /\ UNCHANGED <<text, seen, yychar, yylval, res>>

(* yyerrlab: from here on the stack is popped to its bottom, and what its  *)
(* values point to is forgotten. *)
SyntaxError == /\ Decides
               /\ Decision = 0
               /\ label' = "yyerrhandle"
               /\ UNCHANGED <<text, seen, stacks, yychar, yylval, yyresult, res, memory>>

\* The bottom is not noticed.
BugPopError == /\ label = "yyerrhandle"
               /\ Len(yyss) > 1
               /\ yyvs' = Front(yyvs)
               /\ yyss' = Front(yyss)
               /\ yystate' = Last(yyss')
               /\ UNCHANGED <<label, text, seen, yystacksize, yychar, yylval, yyresult, res, memory>>
PopError == /\ label = "yyerrhandle"
            /\ IF Len(yyss) = 1
                 THEN Return(1) /\ UNCHANGED stacks
                 ELSE /\ yyvs' = Front(yyvs)
                      /\ yyss' = Front(yyss)
                      /\ yystate' = Last(yyss')
                      /\ UNCHANGED <<label, yyresult, yystacksize>>
            /\ UNCHANGED <<text, seen, yychar, yylval, res, memory>>

Next == \/ PushState \/ ReadToken \/ Shift \/ Accept
        \/ ReduceStart \/ ReduceParentheses \/ ReduceExp
        \/ SyntaxError \/ PopError

\* A loop of one thread, which runs until it returns.
Spec == Init /\ [][Next]_vars /\ WF_vars(Next)
-----------------------------------------------------------------------------
(* Properties. *)

\* A text is accepted only as what the grammar says it means: every operator has
\* the operands its level and its side give it, however the stacks were moved.  A text
\* is refused at the first token with which no sentence can begin, and for no other
\* reason, unless memory or the stack's limit ran out.
ParsesTheGrammar ==
    /\ yyresult = 0 => Reads(seen).want = "nothing" /\ res \in Meanings(Front(seen))
    /\ yyresult = 1 /\ failures = 0 => /\ Reads(seen).want = "bad"
                                       /\ Reads(Front(seen)).want # "bad"

\* Both stacks stay level and below the size they have at the time; a text is
\* too deep only if the stack has grown to its limit.
StacksFit ==
    /\ label = "yybackup" => Len(yyss) < yystacksize /\ Len(yyvs) + 1 = Len(yyss)
    /\ Len(yyss) <= yystacksize /\ Len(yyvs) < yystacksize
    /\ yystacksize <= YYMAXDEPTH
    /\ yyresult = 2 => Len(yyss) = YYMAXDEPTH

\* Every node that is allocated is part of a value on the stack, until a syntax
\* error; so what the caller gets is all there is, and nothing remains of a text
\* whose expression could not be built.
NodesOwned ==
    /\ (label # "yyerrhandle" /\ ~(yyresult = 1 /\ Reads(seen).want = "bad"))
         => live = Sizes(yyvs)
    /\ yyresult = 0 => live = res.size
    /\ yyresult = 1 /\ Reads(seen).want = "nothing" => live = 0

\* Every parse ends.
ParseEnds == <>(label = "yyreturn")
=============================================================================
