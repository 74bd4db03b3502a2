------------------------ MODULE PluralParser_proofs ------------------------
(***************************************************************************)
(* Theorems about the parser of plural expressions, for every set of       *)
(* texts, every width of numbers and every limit of the stacks.            *)
(***************************************************************************)
EXTENDS PluralParser, WellFoundedInduction, TLAPS

-----------------------------------------------------------------------------
(* Induction, as a fact about sets of numbers. *)

LEMMA Least ==
  ASSUME NEW T, T \subseteq Nat, T # {}
  PROVE  \E x \in T : \A y \in T : x <= y
<1>1. \E x \in T : \A y \in T : ~(<<y, x>> \in OpToRel(<, Nat))
  BY NatLessThanWellFounded, WFMin
<1>2. PICK x \in T : \A y \in T : ~(<<y, x>> \in OpToRel(<, Nat))
  BY <1>1
<1>3. ASSUME NEW y \in T PROVE x <= y
  <2>1. x \in Nat /\ y \in Nat
    OBVIOUS
  <2>2. ~(<<y, x>> \in OpToRel(<, Nat))
    BY <1>2
  <2>3. ~(y < x)
    BY <2>1, <2>2 DEF OpToRel
  <2> QED
    BY <2>1, <2>3
<1> QED
  BY <1>3

LEMMA Induction ==
  ASSUME NEW T, 0 \in T, \A n \in Nat : n \in T => n + 1 \in T
  PROVE  \A n \in Nat : n \in T
<1> DEFINE U == {n \in Nat : n \notin T}
<1> SUFFICES ASSUME U # {} PROVE FALSE
  OBVIOUS
<1>1. U \subseteq Nat
  OBVIOUS
<1>2. PICK x \in U : \A y \in U : x <= y
  BY <1>1, Least
<1>3. x \in Nat /\ x \notin T /\ x # 0
  OBVIOUS
<1>4. x - 1 \in Nat /\ x - 1 \notin U
  BY <1>2, <1>3
<1>5. x - 1 \in T /\ (x - 1) + 1 = x
  BY <1>3, <1>4
<1> QED
  BY <1>3, <1>4, <1>5

-----------------------------------------------------------------------------
(* Sequences of any elements. *)

IsSeq(s) == \E S : s \in Seq(S)

LEMMA SeqFacts ==
  ASSUME NEW s, IsSeq(s)
  PROVE  Len(s) \in Nat /\ DOMAIN s = 1..Len(s) /\ (Len(s) = 0 <=> s = <<>>)
BY DEF IsSeq

LEMMA SeqEmpty == IsSeq(<<>>) /\ Len(<<>>) = 0
<1>1. <<>> \in Seq({})
  OBVIOUS
<1> QED
  BY <1>1 DEF IsSeq

LEMMA SeqAppend ==
  ASSUME NEW s, NEW e, IsSeq(s)
  PROVE  /\ IsSeq(Append(s, e)) /\ Len(Append(s, e)) = Len(s) + 1
         /\ \A i \in 1..Len(s) : Append(s, e)[i] = s[i]
         /\ Append(s, e)[Len(s) + 1] = e
         /\ Append(s, e) # <<>>
         /\ Last(Append(s, e)) = e /\ Front(Append(s, e)) = s
<1>1. PICK S : s \in Seq(S)
  BY DEF IsSeq
<1> DEFINE R == S \cup {e}
           t == Append(s, e)
<1>2. s \in Seq(R) /\ e \in R
  BY <1>1
<1>3. t \in Seq(R) /\ Len(t) = Len(s) + 1 /\ Len(s) \in Nat
  BY <1>2
<1>4. \A i \in 1..Len(s) : t[i] = s[i]
  BY <1>2
<1>5. t[Len(s) + 1] = e
  BY <1>2
<1>6. Last(t) = e
  BY <1>3, <1>5 DEF Last
<1>7. Front(t) = s
  <2>1. Front(t) = SubSeq(t, 1, Len(s))
    BY <1>3 DEF Front
  <2>2. SubSeq(t, 1, Len(s)) \in Seq(R) /\ Len(SubSeq(t, 1, Len(s))) = Len(s)
    BY <1>3
  <2>3. \A i \in 1..Len(s) : SubSeq(t, 1, Len(s))[i] = s[i]
    BY <1>3, <1>4
  <2> QED
    BY <2>1, <2>2, <2>3, <1>2
<1> QED
  BY <1>3, <1>4, <1>5, <1>6, <1>7 DEF IsSeq

LEMMA SeqLast ==
  ASSUME NEW s, NEW e, IsSeq(s)
  PROVE  Append(s, e) # <<>> /\ Last(Append(s, e)) = e /\ Front(Append(s, e)) = s
BY SeqAppend

LEMMA SeqOne ==
  ASSUME NEW s, IsSeq(s), Len(s) = 0, NEW e
  PROVE  IsSeq(Append(s, e)) /\ Len(Append(s, e)) = 1 /\ Append(s, e)[1] = e
<1>1. \A n : n = 0 => n + 1 = 1
  OBVIOUS
<1>2. Len(s) + 1 = 1
  BY <1>1
<1>3. /\ IsSeq(Append(s, e)) /\ Len(Append(s, e)) = Len(s) + 1
      /\ Append(s, e)[Len(s) + 1] = e
  BY SeqAppend
<1> QED
  BY <1>2, <1>3

LEMMA SeqTwo ==
  ASSUME NEW s, IsSeq(s), Len(s) = 1, NEW e
  PROVE  /\ IsSeq(Append(s, e)) /\ Len(Append(s, e)) = 2
         /\ Append(s, e)[1] = s[1] /\ Append(s, e)[2] = e
<1>1. \A n : n = 1 => n + 1 = 2 /\ 1 \in 1..n
  OBVIOUS
<1>2. Len(s) + 1 = 2 /\ 1 \in 1..Len(s)
  BY <1>1
<1>3. /\ IsSeq(Append(s, e)) /\ Len(Append(s, e)) = Len(s) + 1
      /\ \A i \in 1..Len(s) : Append(s, e)[i] = s[i]
      /\ Append(s, e)[Len(s) + 1] = e
  BY SeqAppend
<1> QED
  BY <1>2, <1>3

LEMMA SeqPrefix ==
  ASSUME NEW s, IsSeq(s), NEW k \in 0..Len(s)
  PROVE  /\ IsSeq(SubSeq(s, 1, k)) /\ Len(SubSeq(s, 1, k)) = k
         /\ \A i \in 1..k : SubSeq(s, 1, k)[i] = s[i]
<1>1. PICK S : s \in Seq(S)
  BY DEF IsSeq
<1>2. SubSeq(s, 1, k) \in Seq(S) /\ Len(SubSeq(s, 1, k)) = k
  BY <1>1
<1>3. \A i \in 1..k : SubSeq(s, 1, k)[i] = s[i]
  BY <1>1
<1> QED
  BY <1>2, <1>3 DEF IsSeq

LEMMA SameSeq ==
  ASSUME NEW s, NEW t, IsSeq(s), IsSeq(t), Len(s) = Len(t),
         \A i \in 1..Len(s) : s[i] = t[i]
  PROVE  s = t
<1>1. s = [i \in 1..Len(s) |-> s[i]]
  BY DEF IsSeq
<1>2. t = [i \in 1..Len(t) |-> t[i]]
  BY DEF IsSeq
<1> QED
  BY <1>1, <1>2

(* A sequence is its prefix and its last element. *)
LEMMA SeqCut ==
  ASSUME NEW s, IsSeq(s), NEW k \in 1..Len(s)
  PROVE  SubSeq(s, 1, k) = Append(SubSeq(s, 1, k - 1), s[k])
<1> DEFINE p == SubSeq(s, 1, k - 1)
<1>0. k - 1 \in 0..Len(s) /\ k \in 0..Len(s) /\ Len(s) \in Nat
  BY SeqFacts
<1>1. IsSeq(p) /\ Len(p) = k - 1 /\ \A i \in 1..(k - 1) : p[i] = s[i]
  BY <1>0, SeqPrefix
<1> HIDE DEF p
<1>2. /\ IsSeq(Append(p, s[k])) /\ Len(Append(p, s[k])) = k
      /\ \A i \in 1..(k - 1) : Append(p, s[k])[i] = s[i]
      /\ Append(p, s[k])[k] = s[k]
  BY <1>0, <1>1, SeqAppend
<1>3. /\ IsSeq(SubSeq(s, 1, k)) /\ Len(SubSeq(s, 1, k)) = k
      /\ \A i \in 1..k : SubSeq(s, 1, k)[i] = s[i]
  BY <1>0, SeqPrefix
<1>4. \A i \in 1..k : Append(p, s[k])[i] = s[i]
  BY <1>0, <1>2
<1> QED
  BY <1>2, <1>3, <1>4, SameSeq DEF p

LEMMA SeqWhole ==
  ASSUME NEW s, IsSeq(s)
  PROVE  SubSeq(s, 1, Len(s)) = s
<1>1. Len(s) \in 0..Len(s)
  BY SeqFacts
<1>2. /\ IsSeq(SubSeq(s, 1, Len(s))) /\ Len(SubSeq(s, 1, Len(s))) = Len(s)
      /\ \A i \in 1..Len(s) : SubSeq(s, 1, Len(s))[i] = s[i]
  BY <1>1, SeqPrefix
<1> QED
  BY <1>2, SameSeq

-----------------------------------------------------------------------------
(* Sizes of values. *)

SizesTo(v, n, f) ==
    f = [i \in 0..n |-> IF i = 0 THEN 0 ELSE f[i - 1] + v[i].size]

LEMMA SizesExist ==
  ASSUME NEW v, NEW n \in Nat
  PROVE  \E f : SizesTo(v, n, f)
<1> DEFINE T == {k \in Nat : \E f : SizesTo(v, k, f)}
<1>1. 0 \in T
  <2> DEFINE g == [i \in 0..0 |-> 0]
  <2>1. SizesTo(v, 0, g)
    BY DEF SizesTo
  <2> QED
    BY <2>1
<1>2. ASSUME NEW k \in Nat, k \in T PROVE k + 1 \in T
  <2>1. PICK f : SizesTo(v, k, f)
    BY <1>2
  <2> DEFINE g == [i \in 0..(k + 1) |-> IF i = k + 1 THEN f[k] + v[k + 1].size ELSE f[i]]
  <2>2. SizesTo(v, k + 1, g)
    <3>1. \A i \in 0..k : g[i] = f[i]
      OBVIOUS
    <3>2. g = [i \in 0..(k + 1) |-> IF i = 0 THEN 0 ELSE g[i - 1] + v[i].size]
      BY <2>1, <3>1 DEF SizesTo
    <3> QED
      BY <3>2 DEF SizesTo
  <2> QED
    BY <2>2
<1>3. n \in T
  <2> HIDE DEF T
  <2> QED
    BY <1>1, <1>2, Induction
<1> QED
  BY <1>3

LEMMA SizesSteps ==
  ASSUME NEW v, IsSeq(v)
  PROVE  \E f : SizesTo(v, Len(v), f) /\ Sizes(v) = f[Len(v)]
<1>1. \E f : SizesTo(v, Len(v), f)
  BY SizesExist, SeqFacts
<1> DEFINE sum == CHOOSE f : f = [i \in 0..Len(v) |-> IF i = 0 THEN 0 ELSE f[i - 1] + v[i].size]
<1>2. SizesTo(v, Len(v), sum)
  BY <1>1 DEF SizesTo
<1>3. Sizes(v) = sum[Len(v)]
  BY DEF Sizes
<1> HIDE DEF sum
<1> QED
  BY <1>2, <1>3

LEMMA SizesEmpty == Sizes(<<>>) = 0
<1>1. PICK f : SizesTo(<<>>, 0, f) /\ Sizes(<<>>) = f[0]
  BY SizesSteps, SeqEmpty
<1> QED
  BY <1>1 DEF SizesTo

LEMMA SizesAppend ==
  ASSUME NEW v, IsSeq(v), NEW e
  PROVE  Sizes(Append(v, e)) = Sizes(v) + e.size
<1> DEFINE w == Append(v, e)
           n == Len(v)
<1>1. /\ n \in Nat /\ IsSeq(w) /\ Len(w) = n + 1 /\ w[n + 1] = e
      /\ \A i \in 1..n : w[i] = v[i]
  BY SeqAppend, SeqFacts
<1>2. PICK f : SizesTo(v, n, f) /\ Sizes(v) = f[n]
  BY SizesSteps
<1> HIDE DEF w, n
<1>3. PICK g : SizesTo(w, n + 1, g) /\ Sizes(w) = g[n + 1]
  BY <1>1, SizesSteps
<1> DEFINE T == {i \in Nat : i <= n => g[i] = f[i]}
<1>4. 0 \in T
  BY <1>1, <1>2, <1>3 DEF SizesTo
<1>5. ASSUME NEW i \in Nat, i \in T PROVE i + 1 \in T
  <2>1. CASE i + 1 <= n
    <3>1. g[i + 1] = g[i] + w[i + 1].size /\ f[i + 1] = f[i] + v[i + 1].size
      BY <1>1, <1>2, <1>3, <2>1 DEF SizesTo
    <3>2. g[i] = f[i] /\ w[i + 1] = v[i + 1]
      BY <1>1, <1>5, <2>1
    <3> QED
      BY <3>1, <3>2
  <2> QED
    BY <2>1, <1>1
<1>6. n \in T
  <2> HIDE DEF T
  <2> QED
    BY <1>1, <1>4, <1>5, Induction
<1>7. g[n + 1] = g[n] + w[n + 1].size
  BY <1>1, <1>3 DEF SizesTo
<1>8. g[n + 1] = f[n] + e.size
  BY <1>1, <1>6, <1>7
<1> QED
  BY <1>2, <1>3, <1>8 DEF w

LEMMA SizesCut ==
  ASSUME NEW v, IsSeq(v), NEW k \in 1..Len(v)
  PROVE  Sizes(SubSeq(v, 1, k)) = Sizes(SubSeq(v, 1, k - 1)) + v[k].size
<1>1. IsSeq(SubSeq(v, 1, k - 1))
  BY SeqFacts, SeqPrefix
<1> QED
  BY <1>1, SeqCut, SizesAppend

LEMMA SizesNat ==
  ASSUME NEW v, IsSeq(v), \A i \in 1..Len(v) : v[i].size \in Nat
  PROVE  Sizes(v) \in Nat
<1> DEFINE n == Len(v)
<1>1. PICK f : SizesTo(v, n, f) /\ Sizes(v) = f[n]
  BY SizesSteps
<1>2. n \in Nat
  BY SeqFacts
<1> DEFINE T == {i \in Nat : i <= n => f[i] \in Nat}
<1>3. 0 \in T
  BY <1>1, <1>2 DEF SizesTo
<1>4. ASSUME NEW i \in Nat, i \in T PROVE i + 1 \in T
  <2>1. CASE i + 1 <= n
    <3>1. f[i + 1] = f[i] + v[i + 1].size
      BY <1>1, <1>2, <2>1 DEF SizesTo
    <3> QED
      BY <1>2, <1>4, <2>1, <3>1
  <2> QED
    BY <2>1, <1>2
<1>5. n \in T
  <2> HIDE DEF T
  <2> QED
    BY <1>2, <1>3, <1>4, Induction
<1> QED
  BY <1>1, <1>5

-----------------------------------------------------------------------------
(* What is read. *)

ReadsTo(s, n, f) ==
    f = [i \in 0..n |-> IF i = 0 THEN Reading("operand", <<>>)
                                 ELSE ReadNext(f[i - 1], s[i].token)]

LEMMA ReadsExist ==
  ASSUME NEW s, NEW n \in Nat
  PROVE  \E f : ReadsTo(s, n, f)
<1> DEFINE T == {k \in Nat : \E f : ReadsTo(s, k, f)}
<1>1. 0 \in T
  <2> DEFINE g == [i \in 0..0 |-> Reading("operand", <<>>)]
  <2>1. ReadsTo(s, 0, g)
    BY DEF ReadsTo
  <2> QED
    BY <2>1
<1>2. ASSUME NEW k \in Nat, k \in T PROVE k + 1 \in T
  <2>1. PICK f : ReadsTo(s, k, f)
    BY <1>2
  <2> DEFINE g == [i \in 0..(k + 1) |->
                     IF i = k + 1 THEN ReadNext(f[k], s[k + 1].token) ELSE f[i]]
  <2>2. ReadsTo(s, k + 1, g)
    <3>1. \A i \in 0..k : g[i] = f[i]
      OBVIOUS
    <3>2. g = [i \in 0..(k + 1) |-> IF i = 0 THEN Reading("operand", <<>>)
                                             ELSE ReadNext(g[i - 1], s[i].token)]
      BY <2>1, <3>1 DEF ReadsTo
    <3> QED
      BY <3>2 DEF ReadsTo
  <2> QED
    BY <2>2
<1>3. n \in T
  <2> HIDE DEF T
  <2> QED
    BY <1>1, <1>2, Induction
<1> QED
  BY <1>3

LEMMA ReadsSteps ==
  ASSUME NEW s, IsSeq(s)
  PROVE  \E f : ReadsTo(s, Len(s), f) /\ Reads(s) = f[Len(s)]
<1>1. \E f : ReadsTo(s, Len(s), f)
  BY ReadsExist, SeqFacts
<1> DEFINE r == CHOOSE f : f = [i \in 0..Len(s) |->
                                  IF i = 0 THEN Reading("operand", <<>>)
                                           ELSE ReadNext(f[i - 1], s[i].token)]
<1>2. ReadsTo(s, Len(s), r)
  BY <1>1 DEF ReadsTo
<1>3. Reads(s) = r[Len(s)]
  BY DEF Reads
<1> HIDE DEF r
<1> QED
  BY <1>2, <1>3

LEMMA ReadsEmpty == Reads(<<>>) = Reading("operand", <<>>)
<1>1. PICK f : ReadsTo(<<>>, 0, f) /\ Reads(<<>>) = f[0]
  BY ReadsSteps, SeqEmpty
<1> QED
  BY <1>1 DEF ReadsTo

LEMMA ReadsAppend ==
  ASSUME NEW s, IsSeq(s), NEW t
  PROVE  Reads(Append(s, t)) = ReadNext(Reads(s), t.token)
<1> DEFINE w == Append(s, t)
           n == Len(s)
<1>1. /\ n \in Nat /\ IsSeq(w) /\ Len(w) = n + 1 /\ w[n + 1] = t
      /\ \A i \in 1..n : w[i] = s[i]
  BY SeqAppend, SeqFacts
<1>2. PICK f : ReadsTo(s, n, f) /\ Reads(s) = f[n]
  BY ReadsSteps
<1> HIDE DEF w, n
<1>3. PICK g : ReadsTo(w, n + 1, g) /\ Reads(w) = g[n + 1]
  BY <1>1, ReadsSteps
<1> DEFINE T == {i \in Nat : i <= n => g[i] = f[i]}
<1>4. 0 \in T
  BY <1>1, <1>2, <1>3 DEF ReadsTo
<1>5. ASSUME NEW i \in Nat, i \in T PROVE i + 1 \in T
  <2>1. CASE i + 1 <= n
    <3>1. /\ g[i + 1] = ReadNext(g[i], w[i + 1].token)
          /\ f[i + 1] = ReadNext(f[i], s[i + 1].token)
      BY <1>1, <1>2, <1>3, <2>1 DEF ReadsTo
    <3>2. g[i] = f[i] /\ w[i + 1] = s[i + 1]
      BY <1>1, <1>5, <2>1
    <3> QED
      BY <3>1, <3>2
  <2> QED
    BY <2>1, <1>1
<1>6. n \in T
  <2> HIDE DEF T
  <2> QED
    BY <1>1, <1>4, <1>5, Induction
<1>7. g[n + 1] = ReadNext(g[n], w[n + 1].token)
  BY <1>1, <1>3 DEF ReadsTo
<1>8. g[n + 1] = ReadNext(f[n], t.token)
  BY <1>1, <1>6, <1>7
<1> QED
  BY <1>2, <1>3, <1>8 DEF w

-----------------------------------------------------------------------------
(* The automaton that the tables encode.  Symbol(q) is the token, or exp or *)
(* start, by which state q is entered; Takes(q) are the tokens it shifts.   *)

TokenNames == {"EOF", "error", "undefined", "?", "|", "&", "EQUOP2", "CMPOP2", "ADDOP2",
               "MULOP2", "!", "NUMBER", ":", "n", "(", ")"}
States == 0..26
OperandStates == {0, 1, 4} \cup (8..14) \cup {23}
TokenStates == (1..4) \cup (8..15) \cup {23, 26}
NoTokenStates == {2, 3, 6, 15, 22}
Strong(n) == IF n = 2 THEN {"&", "EQUOP2", "CMPOP2", "ADDOP2", "MULOP2"}
             ELSE IF n = 3 THEN {"EQUOP2", "CMPOP2", "ADDOP2", "MULOP2"}
             ELSE IF n = 4 THEN {"CMPOP2", "ADDOP2", "MULOP2"}
             ELSE IF n = 5 THEN {"ADDOP2", "MULOP2"}
             ELSE IF n = 6 THEN {"MULOP2"}
             ELSE {}
Takes(q) == IF q \in OperandStates THEN {"!", "NUMBER", "n", "("}
            ELSE IF q \in {5, 24} THEN Operators
            ELSE IF q = 7 THEN Operators \cup {")"}
            ELSE IF q = 16 THEN Operators \cup {":"}
            ELSE IF q \in 17..21 THEN Strong(q - 15)
            ELSE IF q \in {25, 26} THEN {"EOF"}
            ELSE {}
Target(t) == IF t = "!" THEN 1 ELSE IF t = "NUMBER" THEN 2 ELSE IF t = "n" THEN 3
             ELSE IF t = "(" THEN 4 ELSE IF t = "?" THEN 8 ELSE IF t = "|" THEN 9
             ELSE IF t = "&" THEN 10 ELSE IF t = "EQUOP2" THEN 11
             ELSE IF t = "CMPOP2" THEN 12 ELSE IF t = "ADDOP2" THEN 13
             ELSE IF t = "MULOP2" THEN 14 ELSE IF t = ")" THEN 15
             ELSE IF t = ":" THEN 23 ELSE 26
AfterExp(q) == IF q = 0 THEN 5 ELSE IF q = 1 THEN 6 ELSE IF q = 4 THEN 7
               ELSE IF q = 23 THEN 24 ELSE q + 8
Rule(q) == IF q = 2 THEN 11 ELSE IF q = 3 THEN 10 ELSE IF q = 5 THEN 1
           ELSE IF q = 6 THEN 9 ELSE IF q = 15 THEN 12 ELSE IF q \in 17..22 THEN q - 14
           ELSE IF q = 24 THEN 2 ELSE 0
Length(rule) == IF rule = 1 THEN 1 ELSE IF rule = 2 THEN 5 ELSE IF rule = 9 THEN 2
                ELSE IF rule \in {10, 11} THEN 1 ELSE 3

LEMMA OperatorNames == Operators = {"?", "|", "&", "EQUOP2", "CMPOP2", "ADDOP2", "MULOP2"}
BY DEF Operators, Levels

LEMMA Translations ==
  /\ YYTRANSLATE("EOF") = 0 /\ YYTRANSLATE("error") = 1 /\ YYTRANSLATE("undefined") = 2
  /\ YYTRANSLATE("?") = 3 /\ YYTRANSLATE("|") = 4 /\ YYTRANSLATE("&") = 5
  /\ YYTRANSLATE("EQUOP2") = 6 /\ YYTRANSLATE("CMPOP2") = 7 /\ YYTRANSLATE("ADDOP2") = 8
  /\ YYTRANSLATE("MULOP2") = 9 /\ YYTRANSLATE("!") = 10 /\ YYTRANSLATE("NUMBER") = 11
  /\ YYTRANSLATE(":") = 12 /\ YYTRANSLATE("n") = 13 /\ YYTRANSLATE("(") = 14
  /\ YYTRANSLATE(")") = 15
BY DEF YYTRANSLATE, yytname

LEMMA Defaults == \A q \in States : At(yydefact, q) = Rule(q)
BY DEF At, yydefact, Rule, States

LEMMA Lengths == \A rule \in 1..12 : At(yyr2, rule) = Length(rule) /\ Length(rule) \in 1..5
BY DEF At, yyr2, Length

LEMMA Waits == \A q \in States : At(yypact, q) = YYFLAG <=> q \in NoTokenStates
BY DEF At, yypact, YYFLAG, States, NoTokenStates

(* The tables of actions, row by row. *)
LEMMA Shifts ==
  ASSUME NEW q \in States \ NoTokenStates, NEW t \in TokenNames
  PROVE  Lookup(q, YYTRANSLATE(t)) =
           IF t \in Takes(q) THEN (IF q = 26 THEN YYFINAL ELSE Target(t)) ELSE -Rule(q)
<1>1. CASE q \in OperandStates
  BY <1>1, Translations DEF Lookup, Takes, Target, Rule, At, yypact, yycheck, yytable,
       yydefact, YYLAST, YYFINAL, OperandStates, TokenNames
<1>2. CASE q \in {5, 24}
  BY <1>2, Translations, OperatorNames DEF Lookup, Takes, Target, Rule, At, yypact, yycheck,
       yytable, yydefact, YYLAST, YYFINAL, OperandStates, TokenNames
<1>3. CASE q = 7
  BY <1>3, Translations, OperatorNames DEF Lookup, Takes, Target, Rule, At, yypact, yycheck,
       yytable, yydefact, YYLAST, YYFINAL, OperandStates, TokenNames
<1>4. CASE q = 16
  BY <1>4, Translations, OperatorNames DEF Lookup, Takes, Target, Rule, At, yypact, yycheck,
       yytable, yydefact, YYLAST, YYFINAL, OperandStates, TokenNames
<1>5. CASE q = 17
  BY <1>5, Translations DEF Lookup, Takes, Strong, Target, Rule, At, yypact, yycheck, yytable,
       yydefact, YYLAST, YYFINAL, OperandStates, TokenNames
<1>6. CASE q = 18
  BY <1>6, Translations DEF Lookup, Takes, Strong, Target, Rule, At, yypact, yycheck, yytable,
       yydefact, YYLAST, YYFINAL, OperandStates, TokenNames
<1>7. CASE q = 19
  BY <1>7, Translations DEF Lookup, Takes, Strong, Target, Rule, At, yypact, yycheck, yytable,
       yydefact, YYLAST, YYFINAL, OperandStates, TokenNames
<1>8. CASE q = 20
  BY <1>8, Translations DEF Lookup, Takes, Strong, Target, Rule, At, yypact, yycheck, yytable,
       yydefact, YYLAST, YYFINAL, OperandStates, TokenNames
<1>9. CASE q = 21
  BY <1>9, Translations DEF Lookup, Takes, Strong, Target, Rule, At, yypact, yycheck, yytable,
       yydefact, YYLAST, YYFINAL, OperandStates, TokenNames
<1>10. CASE q = 25
  BY <1>10, Translations DEF Lookup, Takes, Target, Rule, At, yypact, yycheck, yytable,
       yydefact, YYLAST, YYFINAL, OperandStates, TokenNames
<1>11. CASE q = 26
  BY <1>11, Translations DEF Lookup, Takes, Target, Rule, At, yypact, yycheck, yytable,
       yydefact, YYLAST, YYFINAL, OperandStates, TokenNames
<1> QED
  BY <1>1, <1>2, <1>3, <1>4, <1>5, <1>6, <1>7, <1>8, <1>9, <1>10, <1>11
     DEF States, NoTokenStates, OperandStates

(* The table of what follows a reduction. *)
LEMMA Gotos ==
  /\ Goto(1, 0) = 25
  /\ \A rule \in 2..12, q \in OperandStates : Goto(rule, q) = AfterExp(q)
<1>1. At(yyr1, 1) = 16 /\ \A rule \in 2..12 : At(yyr1, rule) = 17
  BY DEF At, yyr1
<1>2. Goto(1, 0) = 25
  BY <1>1 DEF Goto, At, yypgoto, yydefgoto, YYNTBASE, YYLAST, YYFLAG
<1>3. At(yypgoto, 1) = -1 /\ At(yydefgoto, 1) = 5
  BY DEF At, yypgoto, yydefgoto
<1>4. \A q \in OperandStates :
        (IF q - 1 \in 0..YYLAST /\ At(yycheck, q - 1) = q THEN At(yytable, q - 1) ELSE 5)
          = AfterExp(q)
  BY DEF At, yycheck, yytable, YYLAST, OperandStates, AfterExp
<1>5. ASSUME NEW rule \in 2..12, NEW q \in OperandStates PROVE Goto(rule, q) = AfterExp(q)
  <2>1. At(yyr1, rule) - YYNTBASE = 1 /\ At(yypgoto, 1) + q = q - 1
    BY <1>1, <1>3 DEF YYNTBASE, OperandStates
  <2>2. Goto(rule, q) = IF q - 1 \in 0..YYLAST /\ At(yycheck, q - 1) = q
                          THEN At(yytable, q - 1) ELSE 5
    BY <2>1, <1>3 DEF Goto
  <2> QED
    BY <2>2, <1>4
<1> QED
  BY <1>2, <1>5

-----------------------------------------------------------------------------
(* The states on the stack are a path through the automaton. *)

Symbol(q) == IF q = 1 THEN "!" ELSE IF q = 2 THEN "NUMBER" ELSE IF q = 3 THEN "n"
             ELSE IF q = 4 THEN "(" ELSE IF q = 8 THEN "?" ELSE IF q = 9 THEN "|"
             ELSE IF q = 10 THEN "&" ELSE IF q = 11 THEN "EQUOP2"
             ELSE IF q = 12 THEN "CMPOP2" ELSE IF q = 13 THEN "ADDOP2"
             ELSE IF q = 14 THEN "MULOP2" ELSE IF q = 15 THEN ")"
             ELSE IF q = 23 THEN ":" ELSE IF q = 26 THEN "EOF" ELSE "exp"
Edge(p, q) == \/ p # 26 /\ q \in TokenStates /\ Symbol(q) \in Takes(p)
              \/ p \in OperandStates /\ q = AfterExp(p)
              \/ p = 0 /\ q = 25
IsPath(P) == /\ IsSeq(P) /\ Len(P) >= 1
             /\ P[1] = 0
             /\ \A i \in 1..Len(P) : P[i] \in States
             /\ \A i \in 1..(Len(P) - 1) : Edge(P[i], P[i + 1])

(* Where a state can come from. *)
LEMMA Before ==
  ASSUME NEW p \in States, NEW q \in States, Edge(p, q)
  PROVE  /\ q # 0
         /\ q \in (1..4) => p \in OperandStates
         /\ q = 5 => p = 0
         /\ q = 6 => p = 1
         /\ q = 7 => p = 4
         /\ q = 8 => p \in {5, 7, 16, 24}
         /\ q \in 9..14 => p \in ({5, 7, 16, 24} \cup (17..(q + 7)))
         /\ q = 15 => p = 7
         /\ q = 16 => p = 8
         /\ q \in 17..22 => p = q - 8
         /\ q = 23 => p = 16
         /\ q = 24 => p = 23
         /\ q = 25 => p = 0
         /\ q = 26 => p = 25
<1>1. CASE p # 26 /\ q \in TokenStates /\ Symbol(q) \in Takes(p)
  <2>1. CASE p \in OperandStates
    BY <1>1, <2>1 DEF TokenStates, Symbol, Takes, OperandStates
  <2>2. CASE p \in {5, 7, 16, 24}
    BY <1>1, <2>2, OperatorNames DEF TokenStates, Symbol, Takes, OperandStates
  <2>3. CASE p \in 17..21
    BY <1>1, <2>3 DEF TokenStates, Symbol, Takes, Strong, OperandStates
  <2>4. CASE p = 25
    BY <1>1, <2>4 DEF TokenStates, Symbol, Takes, OperandStates
  <2>5. CASE p \in NoTokenStates
    BY <1>1, <2>5 DEF Takes, OperandStates, NoTokenStates
  <2> QED
    BY <1>1, <2>1, <2>2, <2>3, <2>4, <2>5 DEF States, OperandStates, NoTokenStates
<1>2. CASE p \in OperandStates /\ q = AfterExp(p)
  BY <1>2 DEF OperandStates, AfterExp
<1>3. CASE p = 0 /\ q = 25
  BY <1>3
<1> QED
  BY <1>1, <1>2, <1>3 DEF Edge

LEMMA PathPush ==
  ASSUME NEW P, IsPath(P), NEW q \in States, Edge(P[Len(P)], q)
  PROVE  IsPath(Append(P, q))
<1> DEFINE Q == Append(P, q)
           n == Len(P)
<1>1. /\ IsSeq(Q) /\ Len(Q) = n + 1 /\ n \in Nat /\ n >= 1
      /\ \A i \in 1..n : Q[i] = P[i]
      /\ Q[n + 1] = q
  BY SeqAppend, SeqFacts DEF IsPath
<1>2. /\ P[1] = 0 /\ Edge(P[n], q)
      /\ \A i \in 1..n : P[i] \in States
      /\ \A i \in 1..(n - 1) : Edge(P[i], P[i + 1])
  BY DEF IsPath
<1> HIDE DEF Q, n
<1>3. ASSUME NEW i \in 1..n PROVE Edge(Q[i], Q[i + 1])
  <2>1. CASE i = n
    BY <1>1, <1>2, <2>1
  <2>2. CASE i < n
    <3>1. i \in 1..(n - 1) /\ i + 1 \in 1..n
      BY <1>1, <2>2
    <3> QED
      BY <1>1, <1>2, <3>1
  <2> QED
    BY <1>1, <2>1, <2>2
<1>4. \A i \in 1..(n + 1) : Q[i] \in States
  BY <1>1, <1>2
<1>5. Q[1] = 0
  BY <1>1, <1>2
<1>6. IsPath(Q)
  BY <1>1, <1>3, <1>4, <1>5 DEF IsPath
<1> QED
  BY <1>6 DEF Q

LEMMA PathCut ==
  ASSUME NEW P, IsPath(P), NEW k \in 1..Len(P)
  PROVE  IsPath(SubSeq(P, 1, k))
<1> DEFINE Q == SubSeq(P, 1, k)
           n == Len(P)
<1>1. n \in Nat /\ k \in 0..Len(P)
  BY SeqFacts DEF IsPath
<1>2. IsSeq(Q) /\ Len(Q) = k /\ \A i \in 1..k : Q[i] = P[i]
  BY <1>1, SeqPrefix DEF IsPath
<1>3. /\ P[1] = 0
      /\ \A i \in 1..n : P[i] \in States
      /\ \A i \in 1..(n - 1) : Edge(P[i], P[i + 1])
  BY DEF IsPath
<1> HIDE DEF Q
<1>4. k \in 1..n
  OBVIOUS
<1> HIDE DEF n
<1>5. \A i \in 1..(k - 1) : Edge(Q[i], Q[i + 1])
  <2> SUFFICES ASSUME NEW i \in 1..(k - 1) PROVE Edge(Q[i], Q[i + 1])
    OBVIOUS
  <2>1. i \in 1..(n - 1) /\ i \in 1..k /\ i + 1 \in 1..k
    BY <1>1, <1>4
  <2> QED
    BY <1>2, <1>3, <2>1
<1>6. \A i \in 1..k : Q[i] \in States
  BY <1>1, <1>2, <1>3, <1>4
<1>7. Q[1] = 0
  BY <1>1, <1>2, <1>3, <1>4
<1>8. IsPath(Q)
  BY <1>1, <1>2, <1>4, <1>5, <1>6, <1>7 DEF IsPath
<1> QED
  BY <1>8 DEF Q

(* Only the bottom is state 0. *)
LEMMA PathBottom ==
  ASSUME NEW P, IsPath(P), NEW i \in 1..Len(P)
  PROVE  /\ P[i] = 0 => i = 1
         /\ P[i] # 0 => i - 1 \in 1..Len(P) /\ P[i - 1] \in States /\ Edge(P[i - 1], P[i])
<1> DEFINE n == Len(P)
<1>1. /\ n \in Nat /\ P[1] = 0
      /\ \A j \in 1..n : P[j] \in States
      /\ \A j \in 1..(n - 1) : Edge(P[j], P[j + 1])
  BY SeqFacts DEF IsPath
<1>2. i \in 1..n
  OBVIOUS
<1> HIDE DEF n
<1>3. ASSUME i # 1 PROVE i - 1 \in 1..n /\ P[i - 1] \in States /\ Edge(P[i - 1], P[i]) /\ P[i] # 0
  <2>1. i - 1 \in 1..n /\ i - 1 \in 1..(n - 1) /\ (i - 1) + 1 = i
    BY <1>1, <1>2, <1>3
  <2>2. Edge(P[i - 1], P[i]) /\ P[i - 1] \in States /\ P[i] \in States
    BY <1>1, <1>2, <2>1
  <2> QED
    BY <2>1, <2>2, Before
<1> QED
  BY <1>1, <1>3 DEF n

(* The right-hand side of a rule, and the state below it. *)
ExpStates == {5, 7, 16, 24} \cup (17..22)

LEMMA RuleStates ==
    /\ \A i \in 16..22 : i \notin TokenStates
    /\ 24 \notin TokenStates /\ 8 \in TokenStates /\ 23 \in TokenStates
BY DEF TokenStates

LEMMA NotTokens == \A q \in ExpStates : q # 0 /\ q \notin TokenStates /\ q # 25
BY DEF ExpStates, TokenStates

OnStack(P, b, r) ==
    /\ r = 2 => /\ P[b + 1] = AfterExp(P[b]) /\ P[b + 1] \in {5, 7, 16, 24}
                /\ P[b + 2] = 8 /\ P[b + 3] = 16 /\ P[b + 4] = 23 /\ P[b + 5] = 24
    /\ r \in 3..8 => /\ P[b + 1] = AfterExp(P[b])
                     /\ P[b + 1] \in ({5, 7, 16, 24} \cup (17..(r + 13)))
                     /\ P[b + 2] = r + 6 /\ P[b + 3] = r + 14
    /\ r = 9 => P[b + 1] = 1 /\ P[b + 2] = 6
    /\ r = 10 => P[b + 1] = 3
    /\ r = 11 => P[b + 1] = 2
    /\ r = 12 => P[b + 1] = 4 /\ P[b + 2] = 7 /\ P[b + 3] = 15

LEMMA Handle ==
  ASSUME NEW P, IsPath(P), NEW k, k = Len(P), NEW r \in 2..12, Rule(P[k]) = r,
         NEW b, b = k - Length(r)
  PROVE  b \in 1..k /\ P[b] \in OperandStates /\ OnStack(P, b, r)
<1>1. /\ k \in Nat /\ k \in 1..k /\ b = k - Length(r)
      /\ \A i \in 1..k : P[i] \in States
      /\ \A i \in 1..k : P[i] # 0 => i - 1 \in 1..k /\ Edge(P[i - 1], P[i])
  <2>1. k \in Nat /\ k >= 1 /\ \A i \in 1..k : P[i] \in States
    BY SeqFacts DEF IsPath
  <2> QED
    BY <2>1, PathBottom
<1> DEFINE q == P[k]
<1>2. q \in States /\ Rule(q) = r
  BY <1>1
<1> HIDE DEF q
(* The edge into the state at a place above the bottom. *)
<1>3. ASSUME NEW i \in 1..k, P[i] # 0
      PROVE  /\ i - 1 \in 1..k /\ P[i - 1] \in States
             /\ P[i] \in (1..4) => P[i - 1] \in OperandStates
             /\ P[i] = 6 => P[i - 1] = 1
             /\ P[i] = 7 => P[i - 1] = 4
             /\ P[i] = 8 => P[i - 1] \in {5, 7, 16, 24}
             /\ P[i] \in 9..14 => P[i - 1] \in ({5, 7, 16, 24} \cup (17..(P[i] + 7)))
             /\ P[i] = 15 => P[i - 1] = 7
             /\ P[i] = 16 => P[i - 1] = 8
             /\ P[i] \in 17..22 => P[i - 1] = P[i] - 8
             /\ P[i] = 23 => P[i - 1] = 16
             /\ P[i] = 24 => P[i - 1] = 23
  <2>1. i - 1 \in 1..k /\ P[i - 1] \in States /\ P[i] \in States /\ Edge(P[i - 1], P[i])
    BY <1>1, <1>3
  <2> DEFINE x == P[i - 1]
             y == P[i]
  <2>2. x \in States /\ y \in States /\ Edge(x, y)
    BY <2>1
  <2> HIDE DEF x, y
  <2>3. /\ y \in (1..4) => x \in OperandStates
        /\ y = 6 => x = 1
        /\ y = 7 => x = 4
        /\ y = 8 => x \in {5, 7, 16, 24}
        /\ y \in 9..14 => x \in ({5, 7, 16, 24} \cup (17..(y + 7)))
    BY <2>2, Before
  <2>4. /\ y = 15 => x = 7
        /\ y = 16 => x = 8
        /\ y \in 17..22 => x = y - 8
        /\ y = 23 => x = 16
        /\ y = 24 => x = 23
    BY <2>2, Before
  <2> QED
    BY <2>1, <2>3, <2>4 DEF x, y
(* Below an expression that an operator follows is the state it was made in. *)
<1>4. ASSUME NEW i \in 1..k, P[i] \in ExpStates
      PROVE  i - 1 \in 1..k /\ P[i - 1] \in OperandStates /\ P[i] = AfterExp(P[i - 1])
  <2>1. P[i] # 0 /\ P[i] \notin TokenStates /\ P[i] # 25
    BY <1>4, NotTokens
  <2>2. i - 1 \in 1..k /\ Edge(P[i - 1], P[i])
    BY <1>1, <2>1
  <2> QED
    BY <2>1, <2>2 DEF Edge
<1> DEFINE k1 == k - 1
           k2 == k - 2
           k3 == k - 3
           k4 == k - 4
           k5 == k - 5
<1>n. /\ k1 = k - 1 /\ k2 = k1 - 1 /\ k3 = k2 - 1 /\ k4 = k3 - 1 /\ k5 = k4 - 1
      /\ k5 + 1 = k4 /\ k5 + 2 = k3 /\ k5 + 3 = k2 /\ k5 + 4 = k1 /\ k5 + 5 = k
      /\ k3 + 1 = k2 /\ k3 + 2 = k1 /\ k3 + 3 = k
      /\ k2 + 1 = k1 /\ k2 + 2 = k /\ k1 + 1 = k
  BY <1>1
<1> HIDE DEF k1, k2, k3, k4, k5
<1>5. CASE r = 2
  <2>1. b = k5 /\ P[k] = 24
    BY <1>1, <1>2, <1>5 DEF Length, Rule, States, q, k5
  <2>2. k1 \in 1..k /\ P[k1] = 23
    BY <1>1, <1>3, <1>n, <2>1
  <2>3. k2 \in 1..k /\ P[k2] = 16
    BY <1>3, <1>n, <2>2
  <2>4. k3 \in 1..k /\ P[k3] = 8
    BY <1>3, <1>n, <2>3
  <2>5. k4 \in 1..k /\ P[k4] \in {5, 7, 16, 24}
    <3>1. P[k3] # 0
      BY <2>4
    <3>2. k3 - 1 \in 1..k /\ P[k3 - 1] \in {5, 7, 16, 24}
      BY <1>3, <2>4, <3>1
    <3> QED
      BY <1>n, <3>2
  <2>6. k5 \in 1..k /\ P[k5] \in OperandStates /\ P[k4] = AfterExp(P[k5])
    <3>1. P[k4] \in ExpStates
      BY <2>5 DEF ExpStates
    <3> QED
      BY <1>4, <1>n, <2>5, <3>1
  <2>7. b + 1 = k4 /\ b + 2 = k3 /\ b + 3 = k2 /\ b + 4 = k1 /\ b + 5 = k
    BY <1>n, <2>1
  <2>8. /\ P[b + 1] = AfterExp(P[b]) /\ P[b + 1] \in {5, 7, 16, 24}
        /\ P[b + 2] = 8 /\ P[b + 3] = 16 /\ P[b + 4] = 23 /\ P[b + 5] = 24
    BY <2>1, <2>2, <2>3, <2>4, <2>5, <2>6, <2>7
  <2>9. OnStack(P, b, r)
    BY <1>5, <2>8 DEF OnStack
  <2> QED
    BY <2>1, <2>6, <2>9
<1>6. CASE r \in 3..8
  <2>1. b = k3 /\ P[k] = r + 14 /\ r + 14 \in 17..22
    <3>1. q = r + 14 /\ q \in 17..22
      BY <1>2, <1>6 DEF Rule, States
    <3>2. Length(r) = 3
      BY <1>6 DEF Length
    <3> QED
      BY <1>1, <3>1, <3>2 DEF q, k3
  <2>2. k1 \in 1..k /\ P[k1] = r + 6
    <3>1. P[k] # 0 /\ (r + 14) - 8 = r + 6
      BY <2>1
    <3>2. k - 1 \in 1..k /\ P[k - 1] = P[k] - 8
      BY <1>1, <1>3, <2>1, <3>1
    <3> QED
      BY <1>n, <2>1, <3>1, <3>2
  <2>3. k2 \in 1..k /\ P[k2] \in ({5, 7, 16, 24} \cup (17..(r + 13)))
    <3>1. P[k1] \in 9..14 /\ P[k1] # 0 /\ P[k1] + 7 = r + 13
      BY <1>6, <2>2
    <3> QED
      BY <1>3, <1>n, <2>2, <3>1
  <2>4. k3 \in 1..k /\ P[k3] \in OperandStates /\ P[k2] = AfterExp(P[k3])
    <3>1. 17..(r + 13) \subseteq 17..22
      BY <1>6
    <3>2. P[k2] \in ExpStates
      BY <2>3, <3>1 DEF ExpStates
    <3> QED
      BY <1>4, <1>n, <2>3, <3>2
  <2>7. b + 1 = k2 /\ b + 2 = k1 /\ b + 3 = k
    BY <1>n, <2>1
  <2>8. /\ P[b + 1] = AfterExp(P[b])
        /\ P[b + 1] \in ({5, 7, 16, 24} \cup (17..(r + 13)))
        /\ P[b + 2] = r + 6 /\ P[b + 3] = r + 14
    BY <2>1, <2>2, <2>3, <2>4, <2>7
  <2> QED
    BY <1>6, <2>1, <2>4, <2>8 DEF OnStack
<1>7. CASE r = 9
  <2>1. b = k2 /\ P[k] = 6
    BY <1>1, <1>2, <1>7 DEF Length, Rule, States, q, k2
  <2>2. k1 \in 1..k /\ P[k1] = 1
    BY <1>1, <1>3, <1>n, <2>1
  <2>3. k2 \in 1..k /\ P[k2] \in OperandStates
    BY <1>3, <1>n, <2>2
  <2>4. P[b + 1] = 1 /\ P[b + 2] = 6
    BY <1>n, <2>1, <2>2
  <2>5. OnStack(P, b, r)
    BY <1>7, <2>4 DEF OnStack
  <2> QED
    BY <2>1, <2>3, <2>5
<1>8. CASE r \in {10, 11}
  <2>1. b = k1 /\ P[k] = (IF r = 10 THEN 3 ELSE 2)
    <3>1. q = (IF r = 10 THEN 3 ELSE 2)
      BY <1>2, <1>8 DEF Rule, States
    <3>2. Length(r) = 1
      BY <1>8 DEF Length
    <3> QED
      BY <1>1, <3>1, <3>2 DEF q, k1
  <2>2. k1 \in 1..k /\ P[k1] \in OperandStates
    BY <1>1, <1>3, <1>n, <2>1
  <2>3. P[b + 1] = (IF r = 10 THEN 3 ELSE 2)
    BY <1>n, <2>1
  <2>4. OnStack(P, b, r)
    BY <1>8, <2>3 DEF OnStack
  <2> QED
    BY <2>1, <2>2, <2>4
<1>9. CASE r = 12
  <2>1. b = k3 /\ P[k] = 15
    BY <1>1, <1>2, <1>9 DEF Length, Rule, States, q, k3
  <2>2. k1 \in 1..k /\ P[k1] = 7
    BY <1>1, <1>3, <1>n, <2>1
  <2>3. k2 \in 1..k /\ P[k2] = 4
    BY <1>3, <1>n, <2>2
  <2>4. k3 \in 1..k /\ P[k3] \in OperandStates
    BY <1>3, <1>n, <2>3
  <2>7. b + 1 = k2 /\ b + 2 = k1 /\ b + 3 = k
    BY <1>n, <2>1
  <2>8. P[b + 1] = 4 /\ P[b + 2] = 7 /\ P[b + 3] = 15
    BY <2>1, <2>2, <2>3, <2>7
  <2> QED
    BY <1>9, <2>1, <2>4, <2>8 DEF OnStack
<1> QED
  BY <1>5, <1>6, <1>7, <1>8, <1>9

-----------------------------------------------------------------------------
(* The stacks: the states, and the one about to be pushed, are a path; every *)
(* state but the first has its value.                                        *)

Path == IF label = "yysetstate" THEN Append(yyss, yystate) ELSE yyss
Working == label \in {"yysetstate", "yybackup"}

StacksInv ==
    /\ label \in {"yysetstate", "yybackup", "yyerrhandle", "yyreturn"}
    /\ IsSeq(yyss) /\ IsSeq(yyvs) /\ IsSeq(seen)
    /\ IsPath(Path)
    /\ yystate = Path[Len(Path)]
    /\ Len(yyvs) + 1 = Len(Path)
    /\ yystacksize \in Nat /\ 1 < yystacksize /\ yystacksize <= YYMAXDEPTH
    /\ Len(yyss) <= yystacksize
    /\ Working => Len(yyss) < yystacksize
    /\ yychar \in TokenNames \cup {YYEMPTY}
    /\ yyresult \in -1..2 /\ (label = "yyreturn" <=> yyresult # -1)
    /\ yyresult = 2 => Len(yyss) = YYMAXDEPTH

LEMMA StackFacts ==
  ASSUME StacksInv
  PROVE  /\ Len(yyss) \in Nat /\ Len(yyvs) \in Nat /\ Len(Path) \in Nat /\ Len(Path) >= 1
         /\ yystate \in States
         /\ label = "yysetstate" => Path = Append(yyss, yystate) /\ Len(Path) = Len(yyss) + 1
         /\ label # "yysetstate" => Path = yyss /\ IsPath(yyss) /\ yystate = yyss[Len(yyss)]
<1>1. Len(yyss) \in Nat /\ Len(yyvs) \in Nat
  BY SeqFacts DEF StacksInv
<1>2. /\ Len(Path) >= 1 /\ Len(Path) = Len(yyvs) + 1
      /\ \A i \in 1..Len(Path) : Path[i] \in States
      /\ yystate = Path[Len(Path)]
  BY DEF StacksInv, IsPath
<1>3. yystate \in States
  BY <1>1, <1>2
<1>4. Len(Append(yyss, yystate)) = Len(yyss) + 1
  BY SeqAppend DEF StacksInv
<1>5. label = "yysetstate" => Path = Append(yyss, yystate)
  BY DEF Path
<1>6. label # "yysetstate" => Path = yyss
  BY DEF Path
<1>7. label # "yysetstate" => IsPath(yyss) /\ yystate = yyss[Len(yyss)]
  BY <1>6 DEF StacksInv
<1> QED
  BY <1>1, <1>2, <1>3, <1>4, <1>5, <1>6, <1>7

(* What the tables decide. *)
LEMMA Decisions ==
  ASSUME StacksInv, Decides
  PROVE  /\ yystate \in States
         /\ yychar \in Takes(yystate) => yychar \in TokenNames
         /\ yystate \notin NoTokenStates => yychar \in TokenNames
         /\ Decision = IF yychar \in Takes(yystate)
                         THEN (IF yystate = 26 THEN YYFINAL ELSE Target(yychar))
                         ELSE -Rule(yystate)
<1>1. yystate \in States
  BY StackFacts
<1>2. NeedsToken <=> yystate \notin NoTokenStates
  BY <1>1, Waits DEF NeedsToken
<1>3. CASE NeedsToken
  <2>1. yychar \in TokenNames
    BY <1>3 DEF Decides, StacksInv
  <2>2. yystate \in States \ NoTokenStates
    BY <1>1, <1>2, <1>3
  <2>3. Decision = Lookup(yystate, YYTRANSLATE(yychar))
    BY <1>3 DEF Decision
  <2> QED
    BY <1>1, <2>1, <2>2, <2>3, Shifts
<1>4. CASE ~NeedsToken
  <2>1. yystate \in NoTokenStates
    BY <1>2, <1>4
  <2>2. Takes(yystate) = {}
    BY <2>1 DEF Takes, NoTokenStates, OperandStates
  <2>3. Decision = -Rule(yystate)
    BY <1>1, <1>4, Defaults DEF Decision
  <2> QED
    BY <1>1, <2>1, <2>2, <2>3
<1> QED
  BY <1>3, <1>4

LEMMA Rules == \A q \in States : Rule(q) \in 0..12
BY DEF States, Rule

LEMMA Taken ==
  ASSUME NEW q \in States \ {26}, NEW t \in Takes(q)
  PROVE  /\ Target(t) \in TokenStates /\ Target(t) \in States
         /\ Symbol(Target(t)) = t /\ Edge(q, Target(t))
         /\ Target(t) > 0 /\ Target(t) # YYFINAL
<1>1. t \in TokenNames \ {"error", "undefined"}
  BY OperatorNames DEF Takes, Strong, TokenNames
<1>2. /\ Target(t) \in TokenStates /\ Target(t) \in States /\ Symbol(Target(t)) = t
      /\ Target(t) > 0 /\ Target(t) # YYFINAL
  BY <1>1 DEF TokenNames, Target, TokenStates, States, Symbol, YYFINAL
<1> QED
  BY <1>2 DEF Edge

LEMMA DecisionNumber == ASSUME StacksInv, Decides PROVE Decision \in Int
<1>1. yystate \in States /\ Rule(yystate) \in 0..12
  BY Decisions, Rules
<1>2. Target(yychar) \in Int
  BY DEF Target
<1> QED
  BY <1>1, <1>2, Decisions DEF YYFINAL

LEMMA Shifted ==
  ASSUME StacksInv, Decides, Decision > 0, Decision # YYFINAL
  PROVE  /\ yychar \in Takes(yystate) /\ yystate # 26
         /\ Decision \in TokenStates /\ Decision \in States
         /\ Symbol(Decision) = yychar /\ Edge(yystate, Decision)
<1>1. yystate \in States /\ Rule(yystate) \in 0..12
  BY Decisions, Rules
<1>2. yychar \in Takes(yystate)
  BY <1>1, Decisions
<1>3. yystate # 26
  BY <1>2, Decisions
<1>4. Decision = Target(yychar)
  BY <1>2, <1>3, Decisions
<1> QED
  BY <1>1, <1>2, <1>3, <1>4, Taken

LEMMA Accepted ==
  ASSUME StacksInv, Decides, Decision = YYFINAL
  PROVE  yystate = 26 /\ yychar = "EOF"
<1>1. yystate \in States /\ Rule(yystate) \in 0..12
  BY Decisions, Rules
<1>2. yychar \in Takes(yystate)
  BY <1>1, Decisions DEF YYFINAL
<1>3. yystate = 26
  <2> SUFFICES ASSUME yystate # 26 PROVE FALSE
    OBVIOUS
  <2>1. Decision = Target(yychar)
    BY <1>2, Decisions
  <2> QED
    BY <1>1, <1>2, <2>1, Taken
<1> QED
  BY <1>2, <1>3 DEF Takes, OperandStates

LEMMA Reduced ==
  ASSUME StacksInv, Decides, NEW r \in 0..12, Decision = -r
  PROVE  yychar \notin Takes(yystate) /\ Rule(yystate) = r
<1>1. yystate \in States /\ Rule(yystate) \in 0..12
  BY Decisions, Rules
<1>2. yychar \notin Takes(yystate)
  <2> SUFFICES ASSUME yychar \in Takes(yystate) PROVE FALSE
    OBVIOUS
  <2>1. CASE yystate = 26
    BY <2>1, Decisions DEF YYFINAL
  <2>2. CASE yystate # 26
    <3>1. Decision = Target(yychar)
      BY <2>2, Decisions
    <3>2. Target(yychar) > 0 /\ Target(yychar) \in States
      BY <1>1, <2>2, Taken
    <3> QED
      BY <3>1, <3>2 DEF States
  <2> QED
    BY <2>1, <2>2
<1>3. Decision = -Rule(yystate)
  BY <1>2, Decisions
<1> QED
  BY <1>1, <1>2, <1>3

LEMMA AfterExps ==
  \A q \in OperandStates :
    /\ AfterExp(q) \in States \ (OperandStates \cup TokenStates \cup {0, 25})
    /\ AfterExp(q) = 6 <=> q = 1
BY DEF AfterExp, OperandStates, TokenStates, States

(* A reduction leaves the stacks below the right-hand side as they are. *)
LEMMA Replaced ==
  ASSUME StacksInv, Decides, NEW r \in 2..12, Decision = -r, NEW v, Becomes(r, v),
         NEW b, b = Len(yyss) - Length(r)
  PROVE  /\ b \in 1..Len(yyss) /\ b < Len(yyss) /\ Len(yyss) = Len(yyvs) + 1
         /\ yyss[b] \in OperandStates
         /\ yyss' = SubSeq(yyss, 1, b) /\ IsSeq(yyss') /\ Len(yyss') = b
         /\ \A i \in 1..b : yyss'[i] = yyss[i]
         /\ yyvs' = Append(SubSeq(yyvs, 1, b - 1), v) /\ IsSeq(yyvs') /\ Len(yyvs') = b
         /\ \A i \in 1..(b - 1) : yyvs'[i] = yyvs[i]
         /\ yyvs'[b] = v
         /\ yystate' = AfterExp(yyss[b]) /\ yystate' \in States
         /\ label' = "yysetstate"
         /\ Path' = Append(yyss', yystate')
         /\ IsPath(Path')
<1> DEFINE n == Length(r)
<1>1. /\ IsPath(yyss) /\ yystate = yyss[Len(yyss)] /\ Len(yyss) \in Nat
      /\ Len(yyss) = Len(yyvs) + 1 /\ Len(yyvs) \in Nat
      /\ IsSeq(yyss) /\ IsSeq(yyvs)
  BY StackFacts DEF Decides, StacksInv
<1>2. Rule(yyss[Len(yyss)]) = r
  BY <1>1, Reduced
<1>3. b \in 1..Len(yyss) /\ yyss[b] \in OperandStates
  BY <1>1, <1>2, Handle
<1>4. At(yyr2, r) = n /\ n \in 1..5
  BY Lengths
<1>5. b < Len(yyss) /\ b \in 0..Len(yyss) /\ b - 1 \in 0..Len(yyvs) /\ Len(yyvs) - n = b - 1
  <2> HIDE DEF n
  <2>1. b = Len(yyss) - n
    BY DEF n
  <2> QED
    BY <1>1, <1>3, <1>4, <2>1
<1>6. /\ yyss' = SubSeq(yyss, 1, b)
      /\ yyvs' = Append(SubSeq(yyvs, 1, b - 1), v)
      /\ yystate' = Goto(r, Last(yyss')) /\ label' = "yysetstate"
  BY <1>4, <1>5 DEF Becomes
<1>7. IsSeq(yyss') /\ Len(yyss') = b /\ \A i \in 1..b : yyss'[i] = yyss[i]
  BY <1>1, <1>5, <1>6, SeqPrefix
<1>8. /\ IsSeq(SubSeq(yyvs, 1, b - 1)) /\ Len(SubSeq(yyvs, 1, b - 1)) = b - 1
      /\ \A i \in 1..(b - 1) : SubSeq(yyvs, 1, b - 1)[i] = yyvs[i]
  BY <1>1, <1>5, SeqPrefix
<1>9. /\ IsSeq(yyvs') /\ Len(yyvs') = b /\ yyvs'[b] = v
      /\ \A i \in 1..(b - 1) : yyvs'[i] = yyvs[i]
  <2> DEFINE w == SubSeq(yyvs, 1, b - 1)
  <2> HIDE DEF w
  <2>1. yyvs' = Append(w, v) /\ IsSeq(w) /\ Len(w) = b - 1 /\ \A i \in 1..(b - 1) : w[i] = yyvs[i]
    BY <1>6, <1>8 DEF w
  <2>2. /\ IsSeq(Append(w, v)) /\ Len(Append(w, v)) = (b - 1) + 1
        /\ \A i \in 1..(b - 1) : Append(w, v)[i] = w[i]
        /\ Append(w, v)[(b - 1) + 1] = v
    BY <2>1, SeqAppend
  <2>3. (b - 1) + 1 = b
    BY <1>1, <1>3
  <2> QED
    BY <2>1, <2>2, <2>3
<1>10. yystate' = AfterExp(yyss[b])
  <2>1. Last(yyss') = yyss[b]
    BY <1>3, <1>7 DEF Last
  <2> QED
    BY <1>3, <1>6, <2>1, Gotos
<1>11. yystate' \in States /\ Edge(yyss[b], yystate')
  <2>1. AfterExp(yyss[b]) \in States
    BY <1>3, AfterExps
  <2> QED
    BY <1>3, <1>10, <2>1 DEF Edge
<1>12. Path' = Append(yyss', yystate')
  BY <1>6 DEF Path
<1>13. IsPath(Path')
  <2>1. IsPath(yyss')
    BY <1>1, <1>3, <1>6, PathCut
  <2>2. yyss'[Len(yyss')] = yyss[b]
    BY <1>3, <1>7
  <2> QED
    BY <1>11, <1>12, <2>1, <2>2, PathPush
<1> QED
  BY <1>1, <1>3, <1>5, <1>6, <1>7, <1>9, <1>10, <1>11, <1>12, <1>13

LEMMA StacksInit == Init => StacksInv
<1> SUFFICES ASSUME Init PROVE StacksInv
  OBVIOUS
<1>1. /\ label = "yysetstate" /\ yyss = <<>> /\ yyvs = <<>> /\ seen = <<>> /\ yystate = 0
      /\ yystacksize = YYINITDEPTH /\ yychar = YYEMPTY /\ yyresult = -1
  BY DEF Init
<1>2. /\ IsSeq(<<>>) /\ Len(<<>>) = 0
  BY SeqEmpty
<1>3. /\ IsSeq(Path) /\ Len(Path) = 1 /\ Path[1] = 0
  <2>1. Path = <<0>>
    BY <1>1 DEF Path
  <2>2. <<0>> \in Seq({0}) /\ Len(<<0>>) = 1 /\ <<0>>[1] = 0
    OBVIOUS
  <2> QED
    BY <2>1, <2>2 DEF IsSeq
<1>4. IsPath(Path)
  BY <1>3 DEF IsPath, States
<1> QED
  BY <1>1, <1>2, <1>3, <1>4, DepthAssumption DEF StacksInv, Working

LEMMA StacksPush == StacksInv /\ PushState => StacksInv'
<1> SUFFICES ASSUME StacksInv, PushState PROVE StacksInv'
  OBVIOUS
<1>1. /\ label = "yysetstate" /\ yyss' = Append(yyss, yystate)
      /\ UNCHANGED <<seen, yyvs, yystate, yychar>>
  BY DEF PushState
<1>2. /\ Path = yyss' /\ Len(yyss') = Len(yyss) + 1 /\ Len(yyss) \in Nat /\ IsSeq(yyss')
      /\ Len(yyss) < yystacksize
  BY <1>1, StackFacts, SeqAppend DEF StacksInv, Working
<1>3. label' \in {"yybackup", "yyreturn"} /\ Path' = Path
  BY <1>1, <1>2 DEF PushState, Return, Path
<1>4. /\ yystacksize' \in Nat /\ 1 < yystacksize' /\ yystacksize' <= YYMAXDEPTH
      /\ Len(yyss') <= yystacksize'
      /\ label' = "yybackup" => Len(yyss') < yystacksize'
      /\ yyresult' \in -1..2 /\ (label' = "yyreturn" <=> yyresult' # -1)
      /\ yyresult' = 2 => Len(yyss') = YYMAXDEPTH
  <2> DEFINE n == Len(yyss')
             more == IF 2 * yystacksize > YYMAXDEPTH THEN YYMAXDEPTH ELSE 2 * yystacksize
  <2>1. /\ n \in Nat /\ n <= yystacksize
        /\ yystacksize \in Nat /\ 1 < yystacksize /\ yystacksize <= YYMAXDEPTH
        /\ yyresult = -1 /\ YYMAXDEPTH \in Nat
    BY <1>1, <1>2, DepthAssumption DEF StacksInv
  <2>2. \/ n < yystacksize /\ label' = "yybackup" /\ yystacksize' = yystacksize /\ yyresult' = yyresult
        \/ /\ n >= yystacksize /\ yystacksize >= YYMAXDEPTH /\ label' = "yyreturn" /\ yyresult' = 2
           /\ yystacksize' = yystacksize
        \/ /\ n >= yystacksize /\ yystacksize < YYMAXDEPTH /\ yystacksize' = more
           /\ label' = "yybackup" /\ yyresult' = yyresult
    BY <2>1 DEF PushState, Full, Return
  <2>3. yystacksize < YYMAXDEPTH => more \in Nat /\ yystacksize < more /\ more <= YYMAXDEPTH
    BY <2>1
  <2> HIDE DEF n, more
  <2>4. /\ yystacksize' \in Nat /\ 1 < yystacksize' /\ yystacksize' <= YYMAXDEPTH
        /\ n <= yystacksize'
        /\ label' = "yybackup" => n < yystacksize'
        /\ yyresult' \in -1..2 /\ (label' = "yyreturn" <=> yyresult' # -1)
        /\ yyresult' = 2 => n = YYMAXDEPTH
    BY <2>1, <2>2, <2>3
  <2> QED
    BY <2>4 DEF n
<1>5. IsPath(Path') /\ yystate' = Path'[Len(Path')] /\ Len(yyvs') + 1 = Len(Path')
  BY <1>1, <1>3 DEF StacksInv
<1>6. IsSeq(yyvs') /\ IsSeq(seen') /\ yychar' \in TokenNames \cup {YYEMPTY}
  BY <1>1 DEF StacksInv
<1> QED
  BY <1>2, <1>3, <1>4, <1>5, <1>6 DEF StacksInv, Working

(* The lexer returns tokens of the grammar, whatever it reads. *)
Valued == {"NUMBER", "EQUOP2", "CMPOP2", "ADDOP2", "MULOP2"}
WellLexed(l) == /\ l.token \in TokenNames
                /\ l.value.size = 0
                /\ l.token \in Valued => l.value # NULL

LEMMA FirstTokens == ASSUME NEW s PROVE WellLexed(FirstToken(s))
<1>1. WellLexed(Number(s))
  BY DEF Number, Token, Value, NULL, WellLexed, TokenNames
<1>2. \A n : \A t \in {"EOF", "error", "?", "|", "&", "!", ":", "n", "(", ")"} :
        WellLexed(Token(s, t, NULL, n))
  BY DEF Token, Value, NULL, WellLexed, Valued, TokenNames
<1>3. \A n : \A op \in {"equal", "not_equal"} : WellLexed(Token(s, "EQUOP2", Value(op, 0), n))
  BY DEF Token, Value, NULL, WellLexed, Valued, TokenNames
<1>4. \A n : \A op \in {"less_than", "less_or_equal", "greater_than", "greater_or_equal"} :
        WellLexed(Token(s, "CMPOP2", Value(op, 0), n))
  BY DEF Token, Value, NULL, WellLexed, Valued, TokenNames
<1>5. \A n : \A op \in {"plus", "minus"} : WellLexed(Token(s, "ADDOP2", Value(op, 0), n))
  BY DEF Token, Value, NULL, WellLexed, Valued, TokenNames
<1>6. \A n : \A op \in {"mult", "divide", "module"} :
        WellLexed(Token(s, "MULOP2", Value(op, 0), n))
  BY DEF Token, Value, NULL, WellLexed, Valued, TokenNames
<1>7. \A x : x = FirstToken(s) => WellLexed(x)
  BY <1>1, <1>2, <1>3, <1>4, <1>5, <1>6, Zenon DEF FirstToken
<1> QED
  BY <1>7

LEMMA Lexed == ASSUME NEW exp PROVE WellLexed(yylex(exp))
<1>1. \E s : yylex(exp) = FirstToken(s)
  BY DEF yylex
<1> QED
  BY <1>1, FirstTokens

LEMMA StacksRead == StacksInv /\ ReadToken => StacksInv'
<1> SUFFICES ASSUME StacksInv, ReadToken PROVE StacksInv'
  OBVIOUS
<1>1. PICK lexeme : /\ yychar' = yylex(lexeme).token
                    /\ seen' = Append(seen, [token |-> yylex(lexeme).token,
                                             value |-> yylex(lexeme).value])
  BY DEF ReadToken
<1>2. yychar' \in TokenNames
  BY <1>1, Lexed DEF WellLexed
<1>3. IsSeq(seen')
  BY <1>1, SeqAppend DEF StacksInv
<1>4. UNCHANGED <<label, yyss, yyvs, yystate, yystacksize, yyresult>>
  BY DEF ReadToken, stacks
<1>5. Path' = Path
  BY <1>4 DEF Path
<1> QED
  BY <1>2, <1>3, <1>4, <1>5 DEF StacksInv, Working

LEMMA StacksShift == StacksInv /\ Shift => StacksInv'
<1> SUFFICES ASSUME StacksInv, Shift PROVE StacksInv'
  OBVIOUS
<1>1. /\ Decides /\ Decision > 0 /\ Decision # YYFINAL /\ label = "yybackup"
      /\ yyvs' = Append(yyvs, yylval) /\ yystate' = Decision /\ label' = "yysetstate"
      /\ UNCHANGED <<seen, yyss, yystacksize, yyresult>>
  BY DEF Shift, Decides
<1>2. yychar' \in TokenNames \cup {YYEMPTY}
  BY DEF Shift, TokenNames
<1>3. /\ Decision \in States /\ Edge(yystate, Decision)
      /\ IsPath(yyss) /\ Path = yyss /\ yystate = yyss[Len(yyss)] /\ Len(yyss) \in Nat
  BY <1>1, Shifted, StackFacts
<1>4. /\ Path' = Append(yyss, Decision) /\ IsPath(Append(yyss, Decision))
      /\ Len(Append(yyss, Decision)) = Len(yyss) + 1
      /\ Append(yyss, Decision)[Len(yyss) + 1] = Decision
  BY <1>1, <1>3, PathPush, SeqAppend DEF Path, IsPath
<1>5. IsSeq(yyvs') /\ Len(yyvs') = Len(yyvs) + 1
  BY <1>1, SeqAppend DEF StacksInv
<1>6. /\ Len(yyvs) + 1 = Len(yyss) /\ Len(yyss) < yystacksize
  BY <1>1, <1>3 DEF StacksInv, Working
<1>7. IsPath(Path') /\ yystate' = Path'[Len(Path')] /\ Len(yyvs') + 1 = Len(Path')
  BY <1>1, <1>4, <1>5, <1>6
<1> QED
  BY <1>1, <1>2, <1>5, <1>6, <1>7 DEF StacksInv, Working

LEMMA StacksReduce ==
  ASSUME StacksInv, Decides, NEW r \in 2..12, Decision = -r, NEW v, Becomes(r, v),
         UNCHANGED <<seen, yychar>>
  PROVE  StacksInv'
<1> DEFINE b == Len(yyss) - Length(r)
<1>1. /\ b \in 1..Len(yyss) /\ b < Len(yyss) /\ Len(yyss) \in Nat
      /\ IsSeq(yyss') /\ Len(yyss') = b /\ IsSeq(yyvs') /\ Len(yyvs') = b
      /\ label' = "yysetstate" /\ Path' = Append(yyss', yystate') /\ IsPath(Path')
  BY Replaced, StackFacts
<1>2. UNCHANGED <<yystacksize, yyresult>>
  BY DEF Becomes
<1> HIDE DEF b
<1>3. Len(Path') = b + 1 /\ Path'[b + 1] = yystate'
  BY <1>1, SeqAppend
<1>4. yystate' = Path'[Len(Path')] /\ Len(yyvs') + 1 = Len(Path')
  BY <1>1, <1>3
<1>5. /\ Len(yyss') < yystacksize' /\ Len(yyss') <= yystacksize'
      /\ yystacksize' \in Nat /\ 1 < yystacksize' /\ yystacksize' <= YYMAXDEPTH
  BY <1>1, <1>2 DEF StacksInv, Working, Decides
<1>6. /\ yyresult' = -1 /\ IsSeq(seen') /\ yychar' \in TokenNames \cup {YYEMPTY}
  BY <1>2 DEF StacksInv, Decides
<1> QED
  BY <1>1, <1>4, <1>5, <1>6 DEF StacksInv, Working

LEMMA StartStack ==
  ASSUME StacksInv, label # "yysetstate", yystate = 5
  PROVE  Len(yyss) = 2 /\ yyss[1] = 0 /\ yyss[2] = 5 /\ Len(yyvs) = 1
<1>1. /\ IsPath(yyss) /\ yystate = yyss[Len(yyss)] /\ Len(yyss) \in Nat /\ Len(yyss) >= 1
      /\ Len(yyvs) \in Nat /\ Len(yyvs) + 1 = Len(yyss)
  BY StackFacts DEF StacksInv
<1>2. /\ Len(yyss) \in 1..Len(yyss)
  BY <1>1
<1>3. /\ Len(yyss) - 1 \in 1..Len(yyss) /\ yyss[Len(yyss) - 1] \in States
      /\ Edge(yyss[Len(yyss) - 1], yyss[Len(yyss)])
  BY <1>1, <1>2, PathBottom
<1>4. yyss[Len(yyss) - 1] = 0
  <2>1. yyss[Len(yyss)] \in States
    BY <1>1 DEF States
  <2> QED
    BY <1>1, <1>3, <2>1, Before
<1>5. \A n \in Nat : (n - 1 = 1 => n = 2) /\ (n + 1 = 2 => n = 1)
  OBVIOUS
<1>6. Len(yyss) = 2 /\ Len(yyvs) = 1
  <2>1. Len(yyss) = 2
    BY <1>1, <1>3, <1>4, <1>5, PathBottom
  <2> QED
    BY <1>1, <1>5, <2>1
<1>7. yyss[1] = 0 /\ yyss[2] = 5
  BY <1>1, <1>4, <1>6
<1> QED
  BY <1>6, <1>7

(* The start symbol replaces the only expression on the stack. *)
LEMMA Started ==
  ASSUME StacksInv, Decides, Decision = -1, NEW v, Becomes(1, v)
  PROVE  /\ yychar \notin Takes(yystate) /\ yystate = 5
         /\ IsSeq(yyss') /\ Len(yyss') = 1 /\ yystate' = 25 /\ label' = "yysetstate"
         /\ IsSeq(yyvs') /\ Len(yyvs') = 1 /\ yyvs'[1] = v
         /\ IsPath(Path') /\ Len(Path') = 2 /\ Path'[1] = 0 /\ Path'[2] = 25
         /\ UNCHANGED <<yystacksize, yyresult>>
<1>1. yychar \notin Takes(yystate) /\ Rule(yystate) = 1
  BY Reduced
<1>2. yystate = 5
  BY <1>1, Decisions DEF Rule, States
<1>3. Len(yyss) = 2 /\ yyss[1] = 0 /\ yyss[2] = 5 /\ Len(yyvs) = 1
  BY <1>2, StartStack DEF Decides
<1>4. At(yyr2, 1) = 1
  BY DEF At, yyr2
<1>5. /\ yyvs' = Append(SubSeq(yyvs, 1, 0), v) /\ yyss' = SubSeq(yyss, 1, 1)
      /\ yystate' = Goto(1, Last(yyss')) /\ label' = "yysetstate"
      /\ UNCHANGED <<yystacksize, yyresult>>
  BY <1>3, <1>4 DEF Becomes
<1>6. IsSeq(yyss) /\ IsSeq(yyvs) /\ 0 \in 0..Len(yyvs) /\ 1 \in 0..Len(yyss)
  BY <1>3 DEF StacksInv
<1>7. IsSeq(SubSeq(yyvs, 1, 0)) /\ Len(SubSeq(yyvs, 1, 0)) = 0
  BY <1>6, SeqPrefix
<1>8. IsSeq(yyvs') /\ Len(yyvs') = 1 /\ yyvs'[1] = v
  BY <1>5, <1>7, SeqOne
<1>9. IsPath(yyss') /\ IsSeq(yyss') /\ Len(yyss') = 1 /\ yyss'[1] = 0
  <2>1. IsSeq(yyss') /\ Len(yyss') = 1 /\ yyss'[1] = yyss[1]
    BY <1>5, <1>6, SeqPrefix
  <2>2. IsPath(yyss) /\ 1 \in 1..Len(yyss)
    BY <1>3, StackFacts DEF Decides
  <2> QED
    BY <1>3, <1>5, <2>1, <2>2, PathCut
<1>10. yystate' = 25 /\ yystate' \in States
  <2>1. Last(yyss') = 0
    BY <1>9 DEF Last
  <2> QED
    BY <1>5, <2>1, Gotos DEF States
<1>11. Path' = Append(yyss', 25)
  BY <1>5, <1>10 DEF Path
<1>12. IsPath(Path')
  BY <1>9, <1>10, <1>11, PathPush DEF Edge
<1>13. Len(Path') = 2 /\ Path'[1] = 0 /\ Path'[2] = 25
  BY <1>9, <1>11, SeqTwo
<1> QED
  BY <1>1, <1>2, <1>5, <1>8, <1>9, <1>10, <1>11, <1>12, <1>13

LEMMA StacksStart == StacksInv /\ ReduceStart => StacksInv'
<1> SUFFICES ASSUME StacksInv, ReduceStart PROVE StacksInv'
  OBVIOUS
<1>1. /\ Decides /\ Decision = -1 /\ label = "yybackup" /\ UNCHANGED <<seen, yychar>>
  BY DEF ReduceStart, Decides
<1>2. CASE Last(yyvs) = NULL
  <2>1. label' = "yyreturn" /\ yyresult' = 1 /\ UNCHANGED <<yyss, yyvs, yystate, yystacksize>>
    BY <1>2 DEF ReduceStart, Return, stacks
  <2>2. Path' = Path
    BY <1>1, <2>1 DEF Path
  <2> QED
    BY <1>1, <2>1, <2>2 DEF StacksInv, Working
<1>3. CASE Last(yyvs) # NULL
  <2>1. Becomes(1, Last(yyvs))
    BY <1>3 DEF ReduceStart
  <2>2. /\ IsSeq(yyss') /\ Len(yyss') = 1 /\ IsSeq(yyvs') /\ Len(yyvs') = 1
        /\ yystate' = 25 /\ label' = "yysetstate"
        /\ IsPath(Path') /\ Len(Path') = 2 /\ Path'[2] = 25
        /\ UNCHANGED <<yystacksize, yyresult>>
    BY <1>1, <2>1, Started
  <2>4. yystate' = Path'[Len(Path')] /\ Len(yyvs') + 1 = Len(Path')
    BY <2>2
  <2>5. /\ Len(yyss') < yystacksize' /\ Len(yyss') <= yystacksize'
        /\ yystacksize' \in Nat /\ 1 < yystacksize' /\ yystacksize' <= YYMAXDEPTH
    BY <2>2 DEF StacksInv
  <2>6. /\ yyresult' = -1 /\ IsSeq(seen') /\ yychar' \in TokenNames \cup {YYEMPTY}
    BY <1>1, <2>2 DEF StacksInv
  <2> QED
    BY <2>2, <2>4, <2>5, <2>6 DEF StacksInv, Working
<1> QED
  BY <1>2, <1>3

LEMMA StacksPop == StacksInv /\ PopError => StacksInv'
<1> SUFFICES ASSUME StacksInv, PopError PROVE StacksInv'
  OBVIOUS
<1>1. label = "yyerrhandle" /\ UNCHANGED <<seen, yychar>>
  BY DEF PopError
<1>2. /\ IsPath(yyss) /\ Path = yyss /\ Len(yyss) \in Nat /\ Len(yyss) >= 1
      /\ Len(yyvs) \in Nat /\ Len(yyvs) + 1 = Len(yyss) /\ IsSeq(yyss) /\ IsSeq(yyvs)
  BY <1>1, StackFacts DEF StacksInv
<1>3. CASE Len(yyss) = 1
  <2>1. label' = "yyreturn" /\ yyresult' = 1 /\ UNCHANGED <<yyss, yyvs, yystate, yystacksize>>
    BY <1>3 DEF PopError, Return, stacks
  <2>2. Path' = Path
    BY <1>1, <2>1 DEF Path
  <2> QED
    BY <1>1, <2>1, <2>2 DEF StacksInv, Working
<1>4. CASE Len(yyss) # 1
  <2>1. /\ yyvs' = Front(yyvs) /\ yyss' = Front(yyss) /\ yystate' = Last(yyss')
        /\ UNCHANGED <<label, yyresult, yystacksize>>
    BY <1>4 DEF PopError
  <2> DEFINE k == Len(yyss) - 1
             m == Len(yyvs) - 1
  <2>2. k \in 1..Len(yyss) /\ k \in 0..Len(yyss) /\ m \in 0..Len(yyvs) /\ m + 1 = k
    BY <1>2, <1>4
  <2>3. yyss' = SubSeq(yyss, 1, k) /\ yyvs' = SubSeq(yyvs, 1, m)
    BY <2>1 DEF Front
  <2> HIDE DEF k, m
  <2>4. IsPath(yyss') /\ Path' = yyss'
    BY <1>1, <1>2, <2>1, <2>2, <2>3, PathCut DEF Path
  <2>5. IsSeq(yyss') /\ Len(yyss') = k /\ IsSeq(yyvs') /\ Len(yyvs') = m
    BY <1>2, <2>2, <2>3, SeqPrefix
  <2>6. yystate' = Path'[Len(Path')] /\ Len(yyvs') + 1 = Len(Path')
    BY <2>1, <2>2, <2>4, <2>5 DEF Last
  <2>7. Len(yyss') <= yystacksize' /\ label' = "yyerrhandle"
    <3>1. Len(yyss) <= yystacksize /\ yystacksize \in Nat
      BY DEF StacksInv
    <3> QED
      BY <1>1, <1>2, <2>1, <2>2, <2>5, <3>1
  <2> QED
    BY <1>1, <2>1, <2>4, <2>5, <2>6, <2>7 DEF StacksInv, Working
<1> QED
  BY <1>3, <1>4

LEMMA StacksOther == StacksInv /\ (Accept \/ SyntaxError \/ UNCHANGED vars) => StacksInv'
<1> SUFFICES ASSUME StacksInv, Accept \/ SyntaxError \/ UNCHANGED vars PROVE StacksInv'
  OBVIOUS
<1>1. UNCHANGED <<seen, yyss, yyvs, yystate, yystacksize, yychar>>
  BY DEF Accept, SyntaxError, vars, stacks
<1>2. CASE Accept
  <2>1. label = "yybackup" /\ label' = "yyreturn" /\ yyresult' = 0
    BY <1>2 DEF Accept, Decides, Return
  <2>2. Path' = Path
    BY <1>1, <2>1 DEF Path
  <2> QED
    BY <1>1, <2>1, <2>2 DEF StacksInv, Working
<1>3. CASE SyntaxError
  <2>1. label = "yybackup" /\ label' = "yyerrhandle" /\ yyresult' = yyresult
    BY <1>3 DEF SyntaxError, Decides
  <2>2. Path' = Path
    BY <1>1, <2>1 DEF Path
  <2> QED
    BY <1>1, <2>1, <2>2 DEF StacksInv, Working
<1>4. CASE UNCHANGED vars
  <2>1. UNCHANGED <<label, yyresult>> /\ Path' = Path
    BY <1>1, <1>4 DEF Path, vars
  <2> QED
    BY <1>1, <2>1 DEF StacksInv, Working
<1> QED
  BY <1>2, <1>3, <1>4

(* The expressions of the grammar are built by the rules 2 to 11. *)
Builds(r) ==
    /\ Decides /\ Decision = -r /\ -Decision = r
    /\ UNCHANGED <<text, seen, yychar, yylval, res>>
    /\ \E got \in BOOLEAN : \E v :
         LET s == Semantic(r, Rhs(r))
         IN  /\ v = NewExp(s.op, s.num, s.args, got)
             /\ failures' = IF got THEN failures ELSE failures + 1
             /\ live' = IF v # NULL THEN live + 1 ELSE live - FREE_EXPRESSION(s.args)
             /\ Becomes(r, v)

LEMMA Reduction ==
  ASSUME StacksInv, ReduceExp
  PROVE  \E r \in 2..11 : Builds(r)
<1>1. Decides /\ -Decision \in 2..11
  BY DEF ReduceExp
<1>2. Decision \in Int
  BY <1>1, DecisionNumber
<1>3. \A d \in Int : -d \in 2..11 => d = -(-d)
  OBVIOUS
<1>4. PICK r \in 2..11 : Decision = -r /\ -Decision = r
  BY <1>1, <1>2, <1>3
<1>5. Builds(r)
  BY <1>1, <1>4 DEF ReduceExp, Builds
<1> QED
  BY <1>5

LEMMA StacksStep == StacksInv /\ [Next]_vars => StacksInv'
<1> SUFFICES ASSUME StacksInv, [Next]_vars PROVE StacksInv'
  OBVIOUS
<1>1. CASE ReduceParentheses
  <2>1. /\ Decides /\ Decision = -12 /\ Becomes(12, Rhs(12)[2]) /\ UNCHANGED <<seen, yychar>>
    BY <1>1 DEF ReduceParentheses
  <2> QED
    BY <2>1, StacksReduce
<1>2. CASE ReduceExp
  <2>1. PICK r \in 2..11 : Builds(r)
    BY <1>2, Reduction
  <2> QED
    BY <2>1, StacksReduce DEF Builds
<1> QED
  BY <1>1, <1>2, StacksPush, StacksRead, StacksShift, StacksStart, StacksPop, StacksOther DEF Next

(* The stacks always form a path of the automaton, level with each other. *)
THEOREM StacksAreAPath == Spec => []StacksInv
<1> QED
  BY StacksInit, StacksStep, PTL DEF Spec

(* Both stacks stay level and below the size they have at the time, whatever is read, *)
(* however deep the limit; a text is too deep only at the limit.                      *)
THEOREM StacksStayInside == Spec => []StacksFit
<1>1. StacksInv => StacksFit
  <2> SUFFICES ASSUME StacksInv PROVE StacksFit
    OBVIOUS
  <2>1. /\ Len(yyss) \in Nat /\ Len(yyvs) \in Nat
        /\ label = "yysetstate" => Len(Path) = Len(yyss) + 1
        /\ label # "yysetstate" => Path = yyss
    BY StackFacts
  <2>2. /\ Len(yyvs) + 1 = Len(Path) /\ Len(yyss) <= yystacksize
        /\ Working => Len(yyss) < yystacksize
        /\ yystacksize \in Nat /\ yystacksize <= YYMAXDEPTH
        /\ yyresult = 2 => Len(yyss) = YYMAXDEPTH
    BY DEF StacksInv
  <2>3. Len(yyvs) < yystacksize
    BY <2>1, <2>2 DEF Working
  <2> QED
    BY <2>1, <2>2, <2>3 DEF StacksFit, Working
<1> QED
  BY <1>1, StacksAreAPath, PTL

-----------------------------------------------------------------------------
(* The states on the stack tell what has been read: which brackets and     *)
(* question marks are open at each of them, and what may follow.           *)

OpenStep(open, q) == IF q = 4 THEN Append(open, "(") ELSE IF q = 8 THEN Append(open, "?")
                     ELSE IF q \in {15, 23} THEN Front(open) ELSE open
Opened(P, o) == /\ o[1] = <<>>
                /\ \A i \in 1..Len(P) : IsSeq(o[i])
                /\ \A i \in 2..Len(P) : o[i] = OpenStep(o[i - 1], P[i])
Want(q) == IF q \in OperandStates THEN "operand" ELSE "operator"
ReadsAs(P, r) == \E o : Opened(P, o) /\ r = Reading(Want(P[Len(P)]), o[Len(P)])

LEMMA OpenSteps ==
  ASSUME NEW open
  PROVE  /\ OpenStep(open, 4) = Append(open, "(") /\ OpenStep(open, 8) = Append(open, "?")
         /\ OpenStep(open, 15) = Front(open) /\ OpenStep(open, 23) = Front(open)
         /\ \A q \in States \ {4, 8, 15, 23} : OpenStep(open, q) = open
BY DEF OpenStep

LEMMA OpenPush ==
  ASSUME NEW P, IsPath(P), NEW o, Opened(P, o), NEW q, IsSeq(OpenStep(o[Len(P)], q))
  PROVE  \E u : Opened(Append(P, q), u) /\ u[Len(P) + 1] = OpenStep(o[Len(P)], q)
<1> DEFINE n == Len(P)
           Q == Append(P, q)
           u == [i \in 1..(n + 1) |-> IF i = n + 1 THEN OpenStep(o[n], q) ELSE o[i]]
<1>1. /\ n \in Nat /\ n >= 1 /\ Len(Q) = n + 1 /\ Q[n + 1] = q
      /\ \A i \in 1..n : Q[i] = P[i]
  BY SeqAppend, SeqFacts DEF IsPath
<1>2. /\ o[1] = <<>> /\ \A i \in 1..n : IsSeq(o[i])
      /\ \A i \in 2..n : o[i] = OpenStep(o[i - 1], P[i])
      /\ IsSeq(OpenStep(o[n], q))
  BY DEF Opened
<1> HIDE DEF n, Q
<1>3. u[n + 1] = OpenStep(o[n], q) /\ \A i \in 1..n : u[i] = o[i]
  BY <1>1
<1> HIDE DEF u
<1>4. ASSUME NEW i \in 2..(n + 1) PROVE u[i] = OpenStep(u[i - 1], Q[i])
  <2>1. CASE i = n + 1
    <3>1. i - 1 = n /\ n \in 1..n
      BY <1>1, <2>1
    <3> QED
      BY <1>1, <1>3, <2>1, <3>1
  <2>2. CASE i # n + 1
    <3>1. i \in 2..n /\ i \in 1..n /\ i - 1 \in 1..n
      BY <1>1, <2>2
    <3> QED
      BY <1>1, <1>2, <1>3, <3>1
  <2> QED
    BY <2>1, <2>2
<1>5. u[1] = <<>> /\ \A i \in 1..(n + 1) : IsSeq(u[i])
  BY <1>1, <1>2, <1>3
<1>6. Opened(Q, u)
  BY <1>1, <1>4, <1>5 DEF Opened
<1> QED
  BY <1>3, <1>6 DEF Q, n

LEMMA OpenCut ==
  ASSUME NEW P, IsPath(P), NEW o, Opened(P, o), NEW b \in 1..Len(P)
  PROVE  Opened(SubSeq(P, 1, b), o)
<1> DEFINE Q == SubSeq(P, 1, b)
           n == Len(P)
<1>1. n \in Nat /\ b \in 0..Len(P)
  BY SeqFacts DEF IsPath
<1>2. Len(Q) = b /\ \A i \in 1..b : Q[i] = P[i]
  BY <1>1, SeqPrefix DEF IsPath
<1>3. /\ o[1] = <<>> /\ \A i \in 1..n : IsSeq(o[i])
      /\ \A i \in 2..n : o[i] = OpenStep(o[i - 1], P[i])
  BY DEF Opened
<1>4. b \in 1..n
  OBVIOUS
<1> HIDE DEF Q, n
<1>5. \A i \in 1..b : i \in 1..n
  BY <1>1, <1>4
<1>6. \A i \in 2..b : i \in 2..n /\ i \in 1..b
  BY <1>1, <1>4
<1>7. Opened(Q, o)
  BY <1>2, <1>3, <1>5, <1>6 DEF Opened
<1> QED
  BY <1>7 DEF Q

(* One step of what is open, at a place above the bottom. *)
LEMMA OpenAt ==
  ASSUME NEW P, IsPath(P), NEW o, Opened(P, o), NEW i \in 1..Len(P), P[i] # 0
  PROVE  /\ i - 1 \in 1..Len(P) /\ IsSeq(o[i - 1]) /\ o[i] = OpenStep(o[i - 1], P[i])
         /\ P[i - 1] \in States /\ P[i] \in States /\ Edge(P[i - 1], P[i])
<1> DEFINE n == Len(P)
<1>1. n \in Nat /\ i \in 1..n /\ \A j \in 1..n : P[j] \in States
  BY SeqFacts DEF IsPath
<1>2. i - 1 \in 1..n /\ P[i - 1] \in States /\ Edge(P[i - 1], P[i])
  BY PathBottom
<1> HIDE DEF n
<1>3. i \in 2..n
  BY <1>1, <1>2
<1> QED
  BY <1>1, <1>2, <1>3 DEF Opened, n

LEMMA OpenTop ==
  ASSUME NEW P, IsPath(P), NEW o, Opened(P, o), NEW k, k = Len(P)
  PROVE  /\ k \in 1..Len(P) /\ IsSeq(o[k]) /\ P[k] \in States
         /\ P[k] \in {0, 5, 25} => o[k] = <<>>
         /\ P[k] = 7 => \E open : IsSeq(open) /\ o[k] = Append(open, "(")
         /\ P[k] = 16 => \E open : IsSeq(open) /\ o[k] = Append(open, "?")
<1>1. /\ k \in Nat /\ k \in 1..Len(P) /\ P[k] \in States /\ IsSeq(o[k]) /\ o[1] = <<>>
  BY SeqFacts DEF IsPath, Opened
<1>2. CASE P[k] = 0
  BY <1>1, <1>2, PathBottom
<1> DEFINE m == k - 1
<1> HIDE DEF m
(* The edge into the state at a place above the bottom. *)
<1>e. ASSUME NEW i \in 1..Len(P), P[i] # 0
      PROVE  /\ i - 1 \in 1..Len(P) /\ IsSeq(o[i - 1]) /\ o[i] = OpenStep(o[i - 1], P[i])
             /\ P[i] \in {5, 25} => P[i - 1] = 0
             /\ P[i] = 7 => P[i - 1] = 4
             /\ P[i] = 16 => P[i - 1] = 8
  <2>1. /\ i - 1 \in 1..Len(P) /\ IsSeq(o[i - 1]) /\ o[i] = OpenStep(o[i - 1], P[i])
        /\ P[i - 1] \in States /\ P[i] \in States /\ Edge(P[i - 1], P[i])
    BY <1>e, OpenAt
  <2> QED
    BY <2>1, Before
<1>m. ASSUME P[k] # 0
      PROVE  /\ m \in 1..Len(P) /\ o[k] = OpenStep(o[m], P[k])
             /\ P[k] \in {5, 25} => P[m] = 0
             /\ P[k] = 7 => P[m] = 4
             /\ P[k] = 16 => P[m] = 8
  BY <1>1, <1>m, <1>e DEF m
<1>3. CASE P[k] \in {5, 25}
  <2>1. m \in 1..Len(P) /\ o[k] = OpenStep(o[m], P[k]) /\ P[m] = 0
    BY <1>3, <1>m
  <2>2. m = 1
    BY <2>1, PathBottom
  <2>3. OpenStep(o[m], P[k]) = o[m]
    BY <1>3 DEF OpenStep
  <2> QED
    BY <1>1, <1>3, <2>1, <2>2, <2>3
<1>4. ASSUME NEW q \in {4, 8}, P[k] = AfterExp(q)
      PROVE  \E open : IsSeq(open) /\ o[k] = OpenStep(open, q)
  <2>1. P[k] # 0 /\ P[k] \in {7, 16}
    BY <1>4 DEF AfterExp
  <2>2. m \in 1..Len(P) /\ o[k] = OpenStep(o[m], P[k]) /\ P[m] = q
    BY <1>4, <1>m, <2>1 DEF AfterExp
  <2>3. P[m] # 0
    BY <2>2
  <2>4. IsSeq(o[m - 1]) /\ o[m] = OpenStep(o[m - 1], P[m])
    BY <1>e, <2>2, <2>3
  <2>5. OpenStep(o[m], P[k]) = o[m]
    BY <2>1 DEF OpenStep
  <2> QED
    BY <2>2, <2>4, <2>5
<1>5. P[k] = 7 => \E open : IsSeq(open) /\ o[k] = Append(open, "(")
  BY <1>4 DEF AfterExp, OpenStep
<1>6. P[k] = 16 => \E open : IsSeq(open) /\ o[k] = Append(open, "?")
  BY <1>4 DEF AfterExp, OpenStep
<1> QED
  BY <1>1, <1>2, <1>3, <1>5, <1>6

(* A token that the state at the top takes. *)
LEMMA PushReads ==
  ASSUME NEW P, IsPath(P), NEW q, q = P[Len(P)], q \in States \ {25, 26}, NEW t \in Takes(q),
         NEW r, ReadsAs(P, r)
  PROVE  ReadsAs(Append(P, Target(t)), ReadNext(r, t))
<1>1. PICK o : Opened(P, o) /\ r = Reading(Want(q), o[Len(P)])
  BY DEF ReadsAs
<1> DEFINE k == Len(P)
           s == o[k]
           u == Target(t)
<1>2. /\ IsSeq(s) /\ k \in 1..Len(P)
      /\ q \in {0, 5, 25} => s = <<>>
      /\ q = 7 => \E open : IsSeq(open) /\ s = Append(open, "(")
      /\ q = 16 => \E open : IsSeq(open) /\ s = Append(open, "?")
  BY <1>1, OpenTop
<1> HIDE DEF s, u, k
<1>3. IsSeq(Append(s, "(")) /\ IsSeq(Append(s, "?"))
  BY <1>2, SeqAppend
<1>4. IsSeq(OpenStep(s, u)) /\ ReadNext(r, t) = Reading(Want(u), OpenStep(s, u))
  <2>1. r = Reading(Want(q), s)
    BY <1>1 DEF s, k
  <2>2. CASE q \in OperandStates
    <3>1. t \in {"!", "NUMBER", "n", "("}
      BY <2>2 DEF Takes
    <3>2. ReadNext(r, t) = ReadOperand(s, t)
      BY <2>1, <2>2 DEF Reading, Want, ReadNext
    <3>3. /\ u = IF t = "!" THEN 1 ELSE IF t = "NUMBER" THEN 2 ELSE IF t = "n" THEN 3 ELSE 4
      BY <3>1 DEF Target, u
    <3>4. OpenStep(s, u) = IF t = "(" THEN Append(s, "(") ELSE s
      BY <3>1, <3>3 DEF OpenStep
    <3>5. Want(u) = IF t \in {"n", "NUMBER"} THEN "operator" ELSE "operand"
      BY <3>1, <3>3 DEF Want, OperandStates
    <3> QED
      BY <1>2, <1>3, <3>1, <3>2, <3>4, <3>5 DEF ReadOperand
  <2>3. CASE q \notin OperandStates
    <3>1. ReadNext(r, t) = ReadOperator(s, t)
      BY <2>1, <2>3 DEF Reading, Want, ReadNext
    <3>2. CASE t \in Operators
      <4>1. u \in 8..14 /\ (u = 8 <=> t = "?")
        BY <3>2, OperatorNames DEF Target, u
      <4>2. OpenStep(s, u) = IF t = "?" THEN Append(s, "?") ELSE s
        BY <4>1 DEF OpenStep
      <4>3. Want(u) = "operand"
        BY <4>1 DEF Want, OperandStates
      <4> QED
        BY <1>2, <1>3, <3>1, <3>2, <4>2, <4>3 DEF ReadOperator
    <3>3. CASE t \notin Operators
      <4>0. \A n \in 2..6 : Strong(n) \subseteq Operators
        BY OperatorNames DEF Strong
      <4>1. (q = 7 /\ t = ")") \/ (q = 16 /\ t = ":")
        <5>1. CASE q \in 17..21
          <6>0. \A x \in 17..21 : x \notin OperandStates /\ x \notin {5, 7, 16, 24}
            BY DEF OperandStates
          <6>a. q \notin OperandStates /\ q \notin {5, 7, 16, 24}
            BY <5>1, <6>0
          <6>1. Takes(q) = Strong(q - 15)
            BY <5>1, <6>a DEF Takes
          <6>2. q - 15 \in 2..6
            BY <5>1
          <6> QED
            BY <3>3, <4>0, <6>1, <6>2
        <5>2. CASE q \notin 17..21
          <6>1. Takes(q) = IF q \in {5, 24} THEN Operators
                           ELSE IF q = 7 THEN Operators \cup {")"}
                           ELSE IF q = 16 THEN Operators \cup {":"}
                           ELSE {}
            BY <2>3, <5>2 DEF Takes
          <6>2. CASE q = 7
            <7>1. Takes(q) = Operators \cup {")"}
              BY <6>1, <6>2
            <7>2. t \in Takes(q)
              OBVIOUS
            <7>3. t = ")"
              BY <3>3, <7>1, <7>2
            <7> QED
              BY <6>2, <7>3
          <6>3. CASE q = 16
            <7>1. Takes(q) = Operators \cup {":"}
              BY <6>1, <6>3
            <7>2. t \in Takes(q)
              OBVIOUS
            <7>3. t = ":"
              BY <3>3, <7>1, <7>2
            <7> QED
              BY <6>3, <7>3
          <6>4. CASE q \notin {7, 16}
            BY <3>3, <6>1, <6>4
          <6> QED
            BY <6>2, <6>3, <6>4
        <5> QED
          BY <5>1, <5>2
      <4>2. PICK open : IsSeq(open) /\ s = Append(open, IF q = 7 THEN "(" ELSE "?")
        BY <1>2, <4>1
      <4>3. s # <<>> /\ Last(s) = (IF q = 7 THEN "(" ELSE "?") /\ Front(s) = open
        BY <4>2, SeqAppend
      <4>4. ReadOperator(s, t) = Reading(IF q = 7 THEN "operator" ELSE "operand", Front(s))
        BY <4>1, <4>3, OperatorNames DEF ReadOperator, Closes
      <4> QED
        BY <3>1, <4>1, <4>2, <4>3, <4>4 DEF Reading, Want, Target, OpenStep, OperandStates, u
    <3> QED
      BY <3>2, <3>3
  <2> QED
    BY <2>2, <2>3
<1>5. PICK v : Opened(Append(P, u), v) /\ v[Len(P) + 1] = OpenStep(s, u)
  BY <1>1, <1>4, OpenPush DEF s, k
<1>6. Len(Append(P, u)) = Len(P) + 1 /\ Append(P, u)[Len(P) + 1] = u
  BY SeqAppend DEF IsPath
<1>7. ReadsAs(Append(P, u), ReadNext(r, t))
  BY <1>4, <1>5, <1>6 DEF ReadsAs
<1> QED
  BY <1>7 DEF u

(* A rule replaces what it was made of by what the same text says. *)
LEMMA ReduceReads ==
  ASSUME NEW P, IsPath(P), NEW k, k = Len(P), NEW r \in 2..12, Rule(P[k]) = r,
         NEW b, b = k - Length(r), NEW R, ReadsAs(P, R)
  PROVE  ReadsAs(Append(SubSeq(P, 1, b), AfterExp(P[b])), R)
<1>1. PICK o : Opened(P, o) /\ R = Reading(Want(P[k]), o[k])
  BY DEF ReadsAs
<1> DEFINE a == AfterExp(P[b])
           Q == SubSeq(P, 1, b)
<1>2. k \in 1..Len(P) /\ IsSeq(o[k]) /\ P[k] \in States
  BY <1>1, OpenTop
<1>3. b \in 1..k /\ P[b] \in OperandStates
  BY Handle
<1>4. a \notin OperandStates /\ a \notin {4, 8, 15, 23}
  BY <1>3, AfterExps DEF TokenStates
<1>5. P[k] \notin OperandStates
  <2>1. \A q \in OperandStates : Rule(q) = 0
    BY DEF Rule, OperandStates
  <2> QED
    BY <2>1
<1> HIDE DEF a
<1>6. o[k] = o[b]
  <2>1. ASSUME NEW i \in 1..k, P[i] # 0
        PROVE  IsSeq(o[i - 1]) /\ o[i] = OpenStep(o[i - 1], P[i])
    BY <1>1, <2>1, OpenAt
  <2> DEFINE b1 == b + 1
             b2 == b + 2
             b3 == b + 3
             b4 == b + 4
             b5 == b + 5
  <2>2. /\ b \in Nat /\ b1 - 1 = b /\ b2 - 1 = b1 /\ b3 - 1 = b2 /\ b4 - 1 = b3 /\ b5 - 1 = b4
    BY <1>2, <1>3
  <2>3. k \in Nat /\ k = b + Length(r)
    BY <1>2 DEF Length
  <2>h. OnStack(P, b, r)
    BY Handle
  <2>4. CASE r = 2
    <3>1. /\ P[b1] \in {5, 7, 16, 24} /\ P[b2] = 8 /\ P[b3] = 16 /\ P[b4] = 23 /\ P[b5] = 24
      BY <2>4, <2>h DEF OnStack
    <3>2. k = b5 /\ b1 \in 1..k /\ b2 \in 1..k /\ b3 \in 1..k /\ b4 \in 1..k /\ b5 \in 1..k
      BY <1>3, <2>3, <2>4 DEF Length
    <3> HIDE DEF b1, b2, b3, b4, b5
    <3>0. /\ IsSeq(o[b]) /\ o[b1] = OpenStep(o[b], P[b1]) /\ o[b2] = OpenStep(o[b1], 8)
          /\ o[b3] = OpenStep(o[b2], 16) /\ o[b4] = OpenStep(o[b3], 23)
          /\ o[b5] = OpenStep(o[b4], 24)
      BY <2>1, <2>2, <3>1, <3>2
    <3>a. P[b1] \in States \ {4, 8, 15, 23} /\ \A q \in {16, 24} : q \in States \ {4, 8, 15, 23}
      BY <3>1 DEF States
    <3>3. o[b1] = o[b]
      BY <3>0, <3>a, OpenSteps
    <3>4. o[b2] = Append(o[b], "?")
      BY <3>0, <3>3, OpenSteps
    <3>5. o[b3] = o[b2]
      BY <3>0, <3>a, OpenSteps
    <3>6. o[b4] = Front(o[b3])
      BY <3>0, OpenSteps
    <3>7. o[b5] = o[b4]
      BY <3>0, <3>a, OpenSteps
    <3>8. Front(Append(o[b], "?")) = o[b]
      BY <3>0, SeqAppend
    <3> QED
      BY <3>2, <3>4, <3>5, <3>6, <3>7, <3>8
  <2>5. CASE r \in 3..8
    <3>1. /\ P[b1] \in ({5, 7, 16, 24} \cup (17..(r + 13))) /\ P[b2] = r + 6 /\ P[b3] = r + 14
      BY <2>5, <2>h DEF OnStack
    <3>a. 17..(r + 13) \subseteq 17..22 /\ r + 6 \in 9..14 /\ r + 14 \in 17..22
      BY <2>5
    <3>2. P[b1] \in ExpStates /\ P[b2] \in 9..14 /\ P[b3] \in ExpStates
      BY <3>1, <3>a DEF ExpStates
    <3>3. \A q \in ExpStates \cup (9..14) : q # 0 /\ q \in States \ {4, 8, 15, 23}
      BY DEF States, ExpStates
    <3>4. k = b3 /\ b1 \in 1..k /\ b2 \in 1..k /\ b3 \in 1..k
      BY <1>3, <2>3, <2>5 DEF Length
    <3> HIDE DEF b1, b2, b3, b4, b5
    <3>6. /\ o[b1] = OpenStep(o[b], P[b1]) /\ o[b2] = OpenStep(o[b1], P[b2])
          /\ o[b3] = OpenStep(o[b2], P[b3])
      BY <2>1, <2>2, <3>2, <3>3, <3>4
    <3>5. o[b1] = o[b] /\ o[b2] = o[b1] /\ o[b3] = o[b2]
      BY <3>2, <3>3, <3>6, OpenSteps
    <3> QED
      BY <3>4, <3>5
  <2>6. CASE r = 9
    <3>1. P[b1] = 1 /\ P[b2] = 6
      BY <2>6, <2>h DEF OnStack
    <3>2. k = b2 /\ b1 \in 1..k /\ b2 \in 1..k
      BY <1>3, <2>3, <2>6 DEF Length
    <3> HIDE DEF b1, b2, b3, b4, b5
    <3> QED
      BY <2>1, <2>2, <3>1, <3>2 DEF OpenStep
  <2>7. CASE r \in {10, 11}
    <3>1. P[b1] \in {2, 3}
      BY <2>7, <2>h DEF OnStack
    <3>2. k = b1 /\ b1 \in 1..k
      BY <1>3, <2>3, <2>7 DEF Length
    <3> HIDE DEF b1, b2, b3, b4, b5
    <3> QED
      BY <2>1, <2>2, <3>1, <3>2 DEF OpenStep
  <2>8. CASE r = 12
    <3>1. P[b1] = 4 /\ P[b2] = 7 /\ P[b3] = 15
      BY <2>8, <2>h DEF OnStack
    <3>2. k = b3 /\ b1 \in 1..k /\ b2 \in 1..k /\ b3 \in 1..k
      BY <1>3, <2>3, <2>8 DEF Length
    <3> HIDE DEF b1, b2, b3, b4, b5
    <3>0. /\ IsSeq(o[b]) /\ o[b1] = OpenStep(o[b], 4) /\ o[b2] = OpenStep(o[b1], 7)
          /\ o[b3] = OpenStep(o[b2], 15)
      BY <2>1, <2>2, <3>1, <3>2
    <3>3. o[b1] = Append(o[b], "(")
      BY <3>0, OpenSteps
    <3>4. o[b2] = o[b1] /\ o[b3] = Front(o[b2])
      BY <3>0, OpenSteps DEF States
    <3>5. Front(Append(o[b], "(")) = o[b]
      BY <3>0, SeqAppend
    <3> QED
      BY <3>2, <3>3, <3>4, <3>5
  <2> QED
    BY <2>4, <2>5, <2>6, <2>7, <2>8
<1>7. IsPath(Q) /\ Opened(Q, o)
  BY <1>1, <1>2, <1>3, PathCut, OpenCut
<1>8. Len(Q) = b
  BY <1>2, <1>3, SeqPrefix DEF IsPath
<1> HIDE DEF Q
<1>9. OpenStep(o[b], a) = o[b] /\ IsSeq(o[b])
  <2>1. IsSeq(o[b])
    BY <1>2, <1>6
  <2> QED
    BY <1>4, <2>1 DEF OpenStep
<1>10. PICK v : Opened(Append(Q, a), v) /\ v[b + 1] = o[b]
  BY <1>7, <1>8, <1>9, OpenPush
<1>11. Len(Append(Q, a)) = b + 1 /\ Append(Q, a)[b + 1] = a
  BY <1>7, <1>8, SeqAppend DEF IsPath
<1>12. R = Reading(Want(a), v[b + 1])
  BY <1>1, <1>4, <1>5, <1>6, <1>10 DEF Want
<1>13. ReadsAs(Append(Q, a), R)
  BY <1>10, <1>11, <1>12 DEF ReadsAs
<1> QED
  BY <1>13 DEF Q, a

(* Once the whole is an expression, nothing is open. *)
LEMMA StartReads ==
  ASSUME NEW P, IsPath(P), P[Len(P)] = 5, NEW R, ReadsAs(P, R),
         NEW Q, IsPath(Q), Len(Q) = 2, Q[1] = 0, Q[2] = 25
  PROVE  ReadsAs(Q, R)
<1>1. PICK o : Opened(P, o) /\ R = Reading(Want(5), o[Len(P)])
  BY DEF ReadsAs
<1>2. o[Len(P)] = <<>>
  BY <1>1, OpenTop
<1> DEFINE v == [i \in {1, 2} |-> <<>>]
<1>3. Opened(Q, v)
  BY SeqEmpty DEF Opened, OpenStep
<1>4. R = Reading(Want(25), v[2])
  BY <1>1, <1>2 DEF Want, OperandStates
<1> HIDE DEF v
<1> QED
  BY <1>3, <1>4 DEF ReadsAs

(* A token that the state at the top does not take. *)
LEMMA ErrorReads ==
  ASSUME NEW P, IsPath(P), NEW q, q = P[Len(P)], q # 26, Rule(q) = 0,
         NEW t \in TokenNames \ Takes(q), q = 25 => t \notin Operators,
         NEW R, ReadsAs(P, R)
  PROVE  R.want # "bad" /\ ReadNext(R, t).want = "bad"
<1>1. PICK o : Opened(P, o) /\ R = Reading(Want(q), o[Len(P)])
  BY DEF ReadsAs
<1> DEFINE s == o[Len(P)]
<1>2. /\ IsSeq(s) /\ q \in States
      /\ q \in {0, 5, 25} => s = <<>>
      /\ q = 7 => \E open : IsSeq(open) /\ s = Append(open, "(")
      /\ q = 16 => \E open : IsSeq(open) /\ s = Append(open, "?")
  BY <1>1, OpenTop
<1> HIDE DEF s
<1>3. R.want # "bad"
  BY <1>1 DEF Reading, Want
<1>4. CASE q \in OperandStates
  <2>1. ReadNext(R, t) = ReadOperand(s, t)
    BY <1>1, <1>4 DEF Reading, Want, ReadNext, s
  <2>2. t \notin {"!", "NUMBER", "n", "("}
    BY <1>4 DEF Takes
  <2> QED
    BY <1>3, <2>1, <2>2 DEF ReadOperand, Bad, Reading
<1>5. CASE q \in {7, 16, 25}
  <2>1. ReadNext(R, t) = ReadOperator(s, t)
    BY <1>1, <1>5 DEF Reading, Want, ReadNext, OperandStates, s
  <2>a. /\ Takes(7) = Operators \cup {")"} /\ Takes(16) = Operators \cup {":"}
        /\ Takes(25) = {"EOF"}
    BY DEF Takes, OperandStates
  <2>2. /\ t \notin Operators
        /\ q = 7 => t # ")"
        /\ q = 16 => t # ":"
        /\ q = 25 => t # "EOF"
    BY <1>5, <2>a
  <2>b. ASSUME NEW open, IsSeq(open), NEW e
        PROVE  Append(open, e) # <<>> /\ Last(Append(open, e)) = e
    BY <2>b, SeqLast
  <2>3. /\ q = 7 => s # <<>> /\ Last(s) = "("
        /\ q = 16 => s # <<>> /\ Last(s) = "?"
        /\ q = 25 => s = <<>>
    <3>1. ASSUME q = 7 PROVE s # <<>> /\ Last(s) = "("
      <4>1. PICK open : IsSeq(open) /\ s = Append(open, "(")
        BY <1>2, <3>1
      <4> QED
        BY <2>b, <4>1
    <3>2. ASSUME q = 16 PROVE s # <<>> /\ Last(s) = "?"
      <4>1. PICK open : IsSeq(open) /\ s = Append(open, "?")
        BY <1>2, <3>2
      <4> QED
        BY <2>b, <4>1
    <3>3. q = 25 => s = <<>>
      BY <1>2
    <3> QED
      BY <3>1, <3>2, <3>3
  <2>4. ReadOperator(s, t) = Bad
    BY <1>5, <2>2, <2>3, OperatorNames DEF ReadOperator, Closes
  <2> QED
    BY <1>3, <2>1, <2>4 DEF Bad, Reading
<1>6. q \in OperandStates \cup {7, 16, 25}
  BY <1>2 DEF Rule, States, OperandStates
<1> QED
  BY <1>4, <1>5, <1>6

(* The end of a text that is an expression. *)
LEMMA EndReads ==
  ASSUME NEW P, IsPath(P), P[Len(P)] = 25, NEW R, ReadsAs(P, R)
  PROVE  ReadNext(R, "EOF").want = "nothing"
<1>1. PICK o : Opened(P, o) /\ R = Reading(Want(25), o[Len(P)])
  BY DEF ReadsAs
<1>2. o[Len(P)] = <<>>
  BY <1>1, OpenTop
<1>3. R = Reading("operator", <<>>)
  BY <1>1, <1>2 DEF Want, OperandStates
<1> QED
  BY <1>3, OperatorNames DEF ReadNext, ReadOperator, Reading

(* The parser and the text agree. *)
Consumed == IF yychar = YYEMPTY THEN seen ELSE Front(seen)
Refused == Reads(seen).want = "bad" /\ Reads(Front(seen)).want # "bad"
ReadsInv ==
    /\ yychar # YYEMPTY => seen # <<>> /\ Last(seen).token = yychar
    /\ Working /\ yystate # 26 => ReadsAs(Path, Reads(Consumed))
    /\ Working /\ yystate = 25 => yychar \notin Operators /\ yychar # YYEMPTY
    /\ Working /\ yystate = 26 => yychar = "EOF" /\ Reads(seen).want = "nothing"
    /\ label = "yyerrhandle" => Refused
    /\ yyresult = 0 => Reads(seen).want = "nothing" /\ yychar = "EOF"
    /\ yyresult = 1 => Refused \/ (yystate = 5 /\ Last(yyvs) = NULL)

LEMMA ReadsLast ==
  ASSUME NEW s, IsSeq(s), s # <<>>
  PROVE  /\ IsSeq(Front(s)) /\ s = Append(Front(s), Last(s)) /\ Len(s) = Len(Front(s)) + 1
         /\ Reads(s) = ReadNext(Reads(Front(s)), Last(s).token)
<1> DEFINE n == Len(s)
<1>1. n \in Nat /\ n \in 1..Len(s) /\ n - 1 \in 0..Len(s)
  BY SeqFacts
<1>2. IsSeq(SubSeq(s, 1, n - 1)) /\ Len(SubSeq(s, 1, n - 1)) = n - 1
  BY <1>1, SeqPrefix
<1>3. SubSeq(s, 1, n) = Append(SubSeq(s, 1, n - 1), s[n])
  BY <1>1, SeqCut
<1>4. SubSeq(s, 1, n) = s
  BY SeqWhole
<1>5. Front(s) = SubSeq(s, 1, n - 1) /\ Last(s) = s[n]
  BY DEF Front, Last
<1>6. IsSeq(Front(s)) /\ s = Append(Front(s), Last(s))
  BY <1>2, <1>3, <1>4, <1>5
<1>7. Reads(Append(Front(s), Last(s))) = ReadNext(Reads(Front(s)), Last(s).token)
  BY <1>6, ReadsAppend
<1>8. Len(s) = Len(Front(s)) + 1
  BY <1>1, <1>2, <1>5
<1> QED
  BY <1>6, <1>7, <1>8

LEMMA Waiting ==
  ASSUME StacksInv, ReadsInv, yychar # YYEMPTY
  PROVE  /\ seen # <<>> /\ IsSeq(Front(seen)) /\ Consumed = Front(seen)
         /\ Reads(seen) = ReadNext(Reads(Consumed), yychar)
<1>1. seen # <<>> /\ Last(seen).token = yychar /\ IsSeq(seen)
  BY DEF ReadsInv, StacksInv
<1>2. Consumed = Front(seen)
  BY DEF Consumed
<1>3. IsSeq(Front(seen)) /\ Reads(seen) = ReadNext(Reads(Front(seen)), Last(seen).token)
  BY <1>1, ReadsLast
<1> QED
  BY <1>1, <1>2, <1>3

LEMMA EmptyName == YYEMPTY \notin TokenNames
BY DEF YYEMPTY, TokenNames

LEMMA ReadsInit == Init => ReadsInv
<1> SUFFICES ASSUME Init PROVE ReadsInv
  OBVIOUS
<1>1. /\ label = "yysetstate" /\ yychar = YYEMPTY /\ yyresult = -1 /\ seen = <<>>
      /\ yystate = 0 /\ yyss = <<>>
  BY DEF Init
<1>2. Consumed = <<>>
  BY <1>1 DEF Consumed
<1>3. StacksInv
  BY StacksInit
<1>4. Len(Path) = 1 /\ Path[Len(Path)] = 0
  <2>1. yystate = Path[Len(Path)] /\ Len(yyvs) + 1 = Len(Path) /\ yyvs = <<>>
    BY <1>3 DEF StacksInv, Init
  <2> QED
    BY <1>1, <2>1
<1> DEFINE o == [i \in {1} |-> <<>>]
<1>5. Opened(Path, o)
  BY <1>4, SeqEmpty DEF Opened
<1>6. Reads(<<>>) = Reading(Want(0), o[Len(Path)])
  BY <1>4, ReadsEmpty DEF Want, OperandStates
<1> HIDE DEF o
<1>7. ReadsAs(Path, Reads(Consumed))
  BY <1>2, <1>4, <1>5, <1>6 DEF ReadsAs
<1> QED
  BY <1>1, <1>7 DEF ReadsInv

LEMMA ReadsPush == StacksInv /\ ReadsInv /\ PushState => ReadsInv'
<1> SUFFICES ASSUME StacksInv, ReadsInv, PushState PROVE ReadsInv'
  OBVIOUS
<1>1. /\ label = "yysetstate" /\ yyss' = Append(yyss, yystate)
      /\ UNCHANGED <<seen, yyvs, yystate, yychar>>
      /\ \/ label' = "yybackup" /\ yyresult' = yyresult
         \/ label' = "yyreturn" /\ yyresult' = 2
  BY DEF PushState, Return
<1>2. Path' = Path /\ Working
  BY <1>1 DEF Path, Working
<1>3. Consumed' = Consumed /\ Refused' = Refused
  BY <1>1 DEF Consumed, Refused
<1> QED
  BY <1>1, <1>2, <1>3 DEF ReadsInv, StacksInv

LEMMA ReadsRead == StacksInv /\ ReadsInv /\ ReadToken => ReadsInv'
<1> SUFFICES ASSUME StacksInv, ReadsInv, ReadToken PROVE ReadsInv'
  OBVIOUS
<1>1. PICK lexeme : /\ yychar' = yylex(lexeme).token
                    /\ seen' = Append(seen, [token |-> yylex(lexeme).token,
                                             value |-> yylex(lexeme).value])
  BY DEF ReadToken
<1> DEFINE t == [token |-> yylex(lexeme).token, value |-> yylex(lexeme).value]
<1>2. yychar' \in TokenNames /\ yychar' # YYEMPTY
  BY <1>1, Lexed, EmptyName DEF WellLexed
<1>3. seen' # <<>> /\ Last(seen') = t /\ Front(seen') = seen /\ t.token = yychar'
  BY <1>1, SeqLast DEF StacksInv
<1>4. /\ label = "yybackup" /\ yychar = YYEMPTY
      /\ UNCHANGED <<label, yyss, yyvs, yystate, yyresult>>
  BY DEF ReadToken, stacks
<1>5. Path' = Path /\ Working /\ Consumed' = seen /\ Consumed = seen
  BY <1>2, <1>3, <1>4 DEF Path, Working, Consumed
<1>6. yystate # 25 /\ yystate # 26
  BY <1>4, <1>5 DEF ReadsInv, YYEMPTY
<1>7. yyresult = -1
  BY <1>4 DEF StacksInv
<1> QED
  BY <1>2, <1>3, <1>4, <1>5, <1>6, <1>7 DEF ReadsInv

LEMMA ReadsShift == StacksInv /\ ReadsInv /\ Shift => ReadsInv'
<1> SUFFICES ASSUME StacksInv, ReadsInv, Shift PROVE ReadsInv'
  OBVIOUS
<1>1. /\ Decides /\ Decision > 0 /\ Decision # YYFINAL /\ label = "yybackup"
      /\ yychar' = (IF yychar = "EOF" THEN "EOF" ELSE YYEMPTY)
      /\ yystate' = Decision /\ label' = "yysetstate"
      /\ UNCHANGED <<seen, yyss, yyresult>>
  BY DEF Shift, Decides
<1>2. /\ yychar \in Takes(yystate) /\ yystate # 26 /\ Decision = Target(yychar)
      /\ yystate \in States /\ yychar \in TokenNames /\ Symbol(Decision) = yychar
  BY <1>1, Shifted, Decisions
<1>3. /\ IsPath(yyss) /\ Path = yyss /\ yystate = yyss[Len(yyss)]
      /\ Path' = Append(yyss, Decision) /\ Working /\ Working'
  BY <1>1, StackFacts DEF Path, Working
<1>4. /\ seen # <<>> /\ Consumed = Front(seen) /\ Reads(seen) = ReadNext(Reads(Consumed), yychar)
      /\ Last(seen).token = yychar
  BY <1>2, EmptyName, Waiting DEF ReadsInv
<1>5. ReadsAs(yyss, Reads(Consumed)) /\ yyresult = -1
  BY <1>1, <1>2, <1>3 DEF ReadsInv, StacksInv
<1>6. CASE yystate = 25
  <2>1. yychar = "EOF" /\ Decision = 26
    BY <1>2, <1>6 DEF Takes, Target, OperandStates
  <2>2. Reads(seen).want = "nothing"
    BY <1>3, <1>4, <1>5, <1>6, <2>1, EndReads
  <2> QED
    BY <1>1, <1>4, <1>5, <2>1, <2>2 DEF ReadsInv
<1>7. CASE yystate # 25
  <2>1. yychar # "EOF" /\ Decision \notin {25, 26}
    <3>1. yychar # "EOF"
      BY <1>2, <1>7, OperatorNames DEF Takes, Strong
    <3> QED
      BY <1>2, <3>1 DEF Symbol, TokenNames
  <2>2. ReadsAs(Append(yyss, Decision), Reads(seen))
    BY <1>2, <1>3, <1>4, <1>5, <1>7, PushReads
  <2>3. yychar' = YYEMPTY /\ Consumed' = seen
    BY <1>1, <2>1 DEF Consumed
  <2> QED
    BY <1>1, <1>3, <1>5, <2>1, <2>2, <2>3 DEF ReadsInv
<1> QED
  BY <1>6, <1>7

LEMMA ReadsReduce ==
  ASSUME StacksInv, ReadsInv, Decides, NEW r \in 2..12, Decision = -r, NEW v, Becomes(r, v),
         UNCHANGED <<seen, yychar>>
  PROVE  ReadsInv'
<1> DEFINE b == Len(yyss) - Length(r)
<1>1. /\ yyss[b] \in OperandStates /\ yyss' = SubSeq(yyss, 1, b)
      /\ yystate' = AfterExp(yyss[b]) /\ label' = "yysetstate"
      /\ Path' = Append(yyss', yystate')
  BY Replaced
<1>2. /\ IsPath(yyss) /\ Path = yyss /\ yystate = yyss[Len(yyss)] /\ label = "yybackup" /\ Working
  BY StackFacts DEF Decides, Working
<1>3. Rule(yystate) = r /\ yychar \notin Takes(yystate)
  BY Reduced
<1>4. yystate # 26 /\ yystate # 25
  BY <1>3 DEF Rule
<1>5. ReadsAs(yyss, Reads(Consumed)) /\ yyresult = -1
  BY <1>2, <1>4 DEF ReadsInv, StacksInv
<1>6. ReadsAs(Path', Reads(Consumed))
  BY <1>1, <1>2, <1>3, <1>5, ReduceReads
<1>7. Consumed' = Consumed /\ yyresult' = -1
  BY <1>5 DEF Consumed, Becomes
<1>8. yystate' # 25 /\ yystate' # 26
  BY <1>1, AfterExps DEF TokenStates
<1> QED
  BY <1>1, <1>6, <1>7, <1>8 DEF ReadsInv

LEMMA ReadsStart == StacksInv /\ ReadsInv /\ ReduceStart => ReadsInv'
<1> SUFFICES ASSUME StacksInv, ReadsInv, ReduceStart PROVE ReadsInv'
  OBVIOUS
<1>1. /\ Decides /\ Decision = -1 /\ label = "yybackup" /\ UNCHANGED <<seen, yychar>>
  BY DEF ReduceStart, Decides
<1>2. /\ IsPath(yyss) /\ Path = yyss /\ yystate = yyss[Len(yyss)] /\ Working /\ yyresult = -1
  BY <1>1, StackFacts DEF Working, StacksInv
<1>3. yychar \notin Takes(yystate) /\ Rule(yystate) = 1
  BY <1>1, Reduced
<1>4. yystate = 5 /\ yychar \notin Operators /\ yychar \in TokenNames
  <2>1. yystate = 5
    BY <1>1, <1>3, Decisions DEF Rule, States
  <2>2. Takes(5) = Operators /\ 5 \notin NoTokenStates
    BY DEF Takes, OperandStates, NoTokenStates
  <2> QED
    BY <1>1, <1>3, <2>1, <2>2, Decisions
<1>5. Consumed' = Consumed
  BY <1>1 DEF Consumed
<1>6. CASE Last(yyvs) = NULL
  <2>1. label' = "yyreturn" /\ yyresult' = 1 /\ UNCHANGED <<yyss, yyvs, yystate>>
    BY <1>6 DEF ReduceStart, Return, stacks
  <2> QED
    BY <1>1, <1>2, <1>4, <1>6, <2>1 DEF ReadsInv, Working
<1>7. CASE Last(yyvs) # NULL
  <2>1. Becomes(1, Last(yyvs))
    BY <1>7 DEF ReduceStart
  <2>2. /\ yystate' = 25 /\ label' = "yysetstate" /\ yyresult' = -1
        /\ IsPath(Path') /\ Len(Path') = 2 /\ Path'[1] = 0 /\ Path'[2] = 25
    BY <1>1, <1>2, <2>1, Started
  <2>3. ReadsAs(yyss, Reads(Consumed))
    BY <1>2, <1>4 DEF ReadsInv
  <2>4. ReadsAs(Path', Reads(Consumed))
    BY <1>2, <1>4, <2>2, <2>3, StartReads
  <2> QED
    BY <1>1, <1>4, <1>5, <2>2, <2>4, EmptyName DEF ReadsInv
<1> QED
  BY <1>6, <1>7

LEMMA ReadsError == StacksInv /\ ReadsInv /\ SyntaxError => ReadsInv'
<1> SUFFICES ASSUME StacksInv, ReadsInv, SyntaxError PROVE ReadsInv'
  OBVIOUS
<1>1. /\ Decides /\ Decision = 0 /\ label = "yybackup" /\ label' = "yyerrhandle"
      /\ UNCHANGED <<seen, yyss, yyvs, yystate, yychar, yyresult>>
  BY DEF SyntaxError, Decides, stacks
<1>2. /\ IsPath(yyss) /\ Path = yyss /\ yystate = yyss[Len(yyss)] /\ Working /\ yyresult = -1
  BY <1>1, StackFacts DEF Working, StacksInv
<1>3. yychar \notin Takes(yystate) /\ Rule(yystate) = 0
  <2>1. PICK r \in 0..12 : r <= 0
    OBVIOUS
  <2>2. Decision = -r
    BY <1>1, <2>1
  <2>3. yychar \notin Takes(yystate) /\ Rule(yystate) = r
    BY <1>1, <2>2, Reduced
  <2> QED
    BY <2>1, <2>3
<1>4. yystate \in States /\ yystate \notin NoTokenStates /\ yystate # 26
  <2>1. \A q \in NoTokenStates : Rule(q) # 0
    BY DEF NoTokenStates, Rule
  <2>2. yystate \in States /\ yystate \notin NoTokenStates /\ yychar \in TokenNames
    BY <1>1, <1>3, <2>1, Decisions
  <2>3. yystate # 26
    <3> SUFFICES ASSUME yystate = 26 PROVE FALSE
      OBVIOUS
    <3>1. yychar = "EOF" /\ Takes(26) = {"EOF"}
      BY <1>2 DEF ReadsInv, Takes, OperandStates
    <3> QED
      BY <1>3, <3>1
  <2> QED
    BY <2>2, <2>3
<1>5. yychar \in TokenNames /\ yychar # YYEMPTY
  BY <1>1, <1>4, Decisions, EmptyName
<1>6. Consumed = Front(seen) /\ Reads(seen) = ReadNext(Reads(Consumed), yychar)
  BY <1>5, Waiting
<1>7. ReadsAs(yyss, Reads(Consumed)) /\ (yystate = 25 => yychar \notin Operators)
  BY <1>2, <1>4 DEF ReadsInv
<1>8. Reads(Consumed).want # "bad" /\ ReadNext(Reads(Consumed), yychar).want = "bad"
  BY <1>2, <1>3, <1>4, <1>5, <1>7, ErrorReads
<1>9. Refused'
  BY <1>1, <1>6, <1>8 DEF Refused
<1> QED
  BY <1>1, <1>2, <1>9 DEF ReadsInv, Working

LEMMA ReadsOther == StacksInv /\ ReadsInv /\ (Accept \/ PopError \/ UNCHANGED vars) => ReadsInv'
<1> SUFFICES ASSUME StacksInv, ReadsInv, Accept \/ PopError \/ UNCHANGED vars PROVE ReadsInv'
  OBVIOUS
<1>1. UNCHANGED <<seen, yychar>>
  BY DEF Accept, PopError, vars
<1>2. Refused' = Refused /\ Consumed' = Consumed
  BY <1>1 DEF Refused, Consumed
<1>3. CASE Accept
  <2>1. Decides /\ Decision = YYFINAL /\ label = "yybackup" /\ label' = "yyreturn" /\ yyresult' = 0
    BY <1>3 DEF Accept, Decides, Return
  <2>2. Reads(seen).want = "nothing" /\ yychar = "EOF"
    BY <2>1, Accepted DEF ReadsInv, Working
  <2> QED
    BY <1>1, <2>1, <2>2 DEF ReadsInv, Working
<1>4. CASE PopError
  <2>1. label = "yyerrhandle" /\ label' \in {"yyerrhandle", "yyreturn"} /\ yyresult' \in {yyresult, 1}
    BY <1>4 DEF PopError, Return
  <2>2. Refused /\ yyresult = -1
    BY <2>1 DEF ReadsInv, StacksInv
  <2> QED
    BY <1>1, <1>2, <2>1, <2>2 DEF ReadsInv, Working
<1>5. CASE UNCHANGED vars
  <2>1. UNCHANGED <<label, yyresult, yyss, yyvs, yystate>> /\ Path' = Path
    BY <1>5 DEF vars, stacks, Path
  <2> QED
    BY <1>1, <1>2, <2>1 DEF ReadsInv, Working
<1> QED
  BY <1>3, <1>4, <1>5

LEMMA ReadsStep == StacksInv /\ ReadsInv /\ [Next]_vars => ReadsInv'
<1> SUFFICES ASSUME StacksInv, ReadsInv, [Next]_vars PROVE ReadsInv'
  OBVIOUS
<1>1. CASE ReduceParentheses
  <2>1. /\ Decides /\ Decision = -12 /\ Becomes(12, Rhs(12)[2]) /\ UNCHANGED <<seen, yychar>>
    BY <1>1 DEF ReduceParentheses
  <2> QED
    BY <2>1, ReadsReduce
<1>2. CASE ReduceExp
  <2>1. PICK r \in 2..11 : Builds(r)
    BY <1>2, Reduction
  <2> QED
    BY <2>1, ReadsReduce DEF Builds
<1> QED
  BY <1>1, <1>2, ReadsPush, ReadsRead, ReadsShift, ReadsStart, ReadsError, ReadsOther DEF Next

(* What the parser expects next and has open is what the grammar says of the text read *)
(* so far, and an error is raised exactly when no sentence begins so.                  *)
THEOREM TextIsFollowed == Spec => []ReadsInv
<1> QED
  BY StacksAreAPath, ReadsInit, ReadsStep, PTL DEF Spec

-----------------------------------------------------------------------------
(* The values of a right-hand side, and what a rule makes of them.         *)

LEMMA SeqSuffix ==
  ASSUME NEW s, IsSeq(s), NEW k \in 0..Len(s)
  PROVE  \A i \in 1..(Len(s) - k) : SubSeq(s, k + 1, Len(s))[i] = s[k + i]
<1>1. PICK S : s \in Seq(S)
  BY DEF IsSeq
<1>2. Len(s) \in Nat /\ k \in Nat
  BY <1>1
<1> QED
  BY <1>1, <1>2

LEMMA SizesOne ==
  ASSUME NEW x, x.size \in Nat
  PROVE  Sizes(<<x>>) = x.size
<1> DEFINE v == <<x>>
<1>1. v \in Seq({x}) /\ Len(v) = 1 /\ v[1] = x
  OBVIOUS
<1> HIDE DEF v
<1>2. PICK f : SizesTo(v, 1, f) /\ Sizes(v) = f[1]
  BY <1>1, SizesSteps DEF IsSeq
<1>3. f[0] = 0 /\ f[1] = f[0] + v[1].size
  BY <1>2 DEF SizesTo
<1>4. Sizes(v) = x.size
  BY <1>1, <1>2, <1>3
<1> QED
  BY <1>4 DEF v

LEMMA SizesTwo ==
  ASSUME NEW x, NEW y, x.size \in Nat, y.size \in Nat
  PROVE  Sizes(<<x, y>>) = x.size + y.size
<1> DEFINE v == <<x, y>>
<1>1. v \in Seq({x, y}) /\ Len(v) = 2 /\ v[1] = x /\ v[2] = y
  OBVIOUS
<1> HIDE DEF v
<1>2. PICK f : SizesTo(v, 2, f) /\ Sizes(v) = f[2]
  BY <1>1, SizesSteps DEF IsSeq
<1>3. f[0] = 0 /\ f[1] = f[0] + v[1].size /\ f[2] = f[1] + v[2].size
  BY <1>2 DEF SizesTo
<1>4. Sizes(v) = x.size + y.size
  BY <1>1, <1>2, <1>3
<1> QED
  BY <1>4 DEF v

LEMMA SizesThree ==
  ASSUME NEW x, NEW y, NEW z, x.size \in Nat, y.size \in Nat, z.size \in Nat
  PROVE  Sizes(<<x, y, z>>) = x.size + y.size + z.size
<1> DEFINE v == <<x, y, z>>
<1>1. v \in Seq({x, y, z}) /\ Len(v) = 3 /\ v[1] = x /\ v[2] = y /\ v[3] = z
  OBVIOUS
<1> HIDE DEF v
<1>2. PICK f : SizesTo(v, 3, f) /\ Sizes(v) = f[3]
  BY <1>1, SizesSteps DEF IsSeq
<1>3. f[0] = 0 /\ f[1] = f[0] + v[1].size /\ f[2] = f[1] + v[2].size /\ f[3] = f[2] + v[3].size
  BY <1>2 DEF SizesTo
<1>4. Sizes(v) = x.size + y.size + z.size
  BY <1>1, <1>2, <1>3
<1> QED
  BY <1>4 DEF v

(* The arguments of a rule are the expressions of its right-hand side.     *)
Arguments(v, a, r) ==
    IF r = 2 THEN <<v[a + 1], v[a + 3], v[a + 5]>>
    ELSE IF r \in 3..8 THEN <<v[a + 1], v[a + 3]>>
    ELSE IF r \in {9, 12} THEN <<v[a + 2]>>
    ELSE <<>>

LEMMA Operands ==
  ASSUME NEW v, NEW r \in 2..11, NEW a \in Nat,
         NEW rhs, \A i \in 1..Length(r) : rhs[i] = v[a + i]
  PROVE  Semantic(r, rhs).args = Arguments(v, a, r)
<1>1. CASE r = 2
  <2>1. rhs[1] = v[a + 1] /\ rhs[3] = v[a + 3] /\ rhs[5] = v[a + 5]
    BY <1>1 DEF Length
  <2>2. Semantic(2, rhs).args = <<rhs[1], rhs[3], rhs[5]>>
    BY DEF Semantic
  <2> QED
    BY <1>1, <2>1, <2>2 DEF Arguments
<1>2. CASE r \in 3..8
  <2>1. rhs[1] = v[a + 1] /\ rhs[3] = v[a + 3]
    BY <1>2 DEF Length
  <2>2. Semantic(3, rhs).args = <<rhs[1], rhs[3]>>
    BY DEF Semantic
  <2>3. Semantic(4, rhs).args = <<rhs[1], rhs[3]>>
    BY DEF Semantic
  <2>4. \A q \in 5..8 : Semantic(q, rhs).args = <<rhs[1], rhs[3]>>
    BY DEF Semantic
  <2>5. r = 3 \/ r = 4 \/ r \in 5..8
    BY <1>2
  <2>6. Semantic(r, rhs).args = <<rhs[1], rhs[3]>>
    BY <2>2, <2>3, <2>4, <2>5
  <2> QED
    BY <1>2, <2>1, <2>6 DEF Arguments
<1>3. CASE r = 9
  <2>1. rhs[2] = v[a + 2]
    BY <1>3 DEF Length
  <2>2. Semantic(9, rhs).args = <<rhs[2]>>
    BY DEF Semantic
  <2> QED
    BY <1>3, <2>1, <2>2 DEF Arguments
<1>4. CASE r \in {10, 11}
  <2>1. Semantic(10, rhs).args = <<>> /\ Semantic(11, rhs).args = <<>>
    BY DEF Semantic
  <2>2. Semantic(r, rhs).args = <<>>
    BY <1>4, <2>1
  <2> QED
    BY <1>4, <2>2 DEF Arguments
<1> QED
  BY <1>1, <1>2, <1>3, <1>4

(* Tokens have no size, so a right-hand side is as large as its arguments. *)
Sized(P, v) == \A i \in 1..Len(v) : /\ v[i].size \in Nat
                                    /\ P[i + 1] \in TokenStates => v[i].size = 0

LEMMA HandleSizes ==
  ASSUME NEW P, IsPath(P), NEW k, k = Len(P), NEW r \in 2..12, Rule(P[k]) = r,
         NEW b, b = k - Length(r), NEW v, IsSeq(v), Len(v) + 1 = k, Sized(P, v),
         NEW a, a = b - 1
  PROVE  /\ a \in 0..Len(v) /\ Len(v) = a + Length(r)
         /\ Sizes(SubSeq(v, 1, a)) \in Nat
         /\ Sizes(Arguments(v, a, r)) \in Nat
         /\ Sizes(v) = Sizes(SubSeq(v, 1, a)) + Sizes(Arguments(v, a, r))
<1> DEFINE n == Len(v)
           S(i) == Sizes(SubSeq(v, 1, i))
<1>1. b \in 1..k /\ OnStack(P, b, r)
  BY Handle
<1>2. n \in Nat /\ n + 1 = k
  BY SeqFacts
<1>3. Length(r) \in 1..5
  <2>1. r \in 1..12
    OBVIOUS
  <2> QED
    BY <2>1, Lengths
<1>4. a \in 0..n /\ a \in Nat /\ n = a + Length(r) /\ b = a + 1
  <2> DEFINE l == Length(r)
  <2> HIDE DEF l, n
  <2>1. b = k - l /\ l \in 1..5
    BY <1>3 DEF l
  <2>2. a \in 0..n /\ a \in Nat /\ n = a + l /\ b = a + 1
    <3>1. b \in Int /\ 1 <= b /\ b <= k /\ k \in Int /\ a = b - 1
      BY <1>1, <1>2
    <3>2. a \in Nat /\ b = a + 1
      BY <3>1
    <3>i. n \in Int /\ l \in Int /\ b \in Int /\ k \in Int /\ a \in Int
      BY <1>2, <2>1, <3>1, <3>2
    <3>e. n + 1 = k /\ b = k - l /\ a = b - 1
      BY <1>2, <2>1, <3>1
    <3>3. n = a + l
      BY <3>e, <3>i, SMTT(20)
    <3>4. l \in Nat /\ a \in 0..(a + l)
      BY <2>1, <3>2
    <3> QED
      BY <3>2, <3>3, <3>4
  <2> QED
    BY <2>2 DEF l, n
<1>5. S(a) \in Nat
  <2> DEFINE w == SubSeq(v, 1, a)
  <2>1. IsSeq(w) /\ Len(w) = a /\ \A i \in 1..a : w[i] = v[i]
    BY <1>4, SeqPrefix
  <2> HIDE DEF w
  <2>2. \A i \in 1..a : w[i].size \in Nat
    BY <1>4, <2>1 DEF Sized
  <2> QED
    BY <2>1, <2>2, SizesNat DEF w
<1>6. ASSUME NEW i \in 1..n PROVE S(i) = S(i - 1) + v[i].size /\ v[i].size \in Nat
  BY SizesCut DEF Sized
<1>7. S(n) = Sizes(v)
  BY SeqWhole
<1> HIDE DEF S
<1> DEFINE a1 == a + 1
           a2 == a + 2
           a3 == a + 3
           a4 == a + 4
           a5 == a + 5
<1>8. /\ a1 - 1 = a /\ a2 - 1 = a1 /\ a3 - 1 = a2 /\ a4 - 1 = a3 /\ a5 - 1 = a4
      /\ a1 + 1 = b + 1 /\ a2 + 1 = b + 2 /\ a3 + 1 = b + 3 /\ a4 + 1 = b + 4
  <2>1. a \in Nat /\ b = a + 1
    BY <1>4
  <2>2. a1 - 1 = a /\ a2 - 1 = a1 /\ a3 - 1 = a2 /\ a4 - 1 = a3 /\ a5 - 1 = a4
    BY <2>1
  <2>3. a1 + 1 = b + 1 /\ a2 + 1 = b + 2 /\ a3 + 1 = b + 3 /\ a4 + 1 = b + 4
    BY <2>1
  <2> QED
    BY <2>2, <2>3
<1>9. \A i \in 1..n : P[i + 1] \in TokenStates => v[i].size = 0
  BY DEF Sized
<1>t. /\ \A q \in {1, 4, 8, 15, 23} : q \in TokenStates
      /\ \A q \in 9..14 : q \in TokenStates
      /\ 2 \in TokenStates /\ 3 \in TokenStates
  BY DEF TokenStates
<1>s. \A p, x, y, z \in Nat : x + y + z \in Nat /\ p + x + y + z = p + (x + y + z)
  OBVIOUS
<1>u. \A p, x, y \in Nat : x + y \in Nat /\ p + x + y = p + (x + y)
  OBVIOUS
<1>10. CASE r = 2
  <2>1. n = a5 /\ a1 \in 1..n /\ a2 \in 1..n /\ a3 \in 1..n /\ a4 \in 1..n /\ a5 \in 1..n
    BY <1>4, <1>10 DEF Length
  <2>2. P[a2 + 1] = 8 /\ P[a4 + 1] = 23
    BY <1>1, <1>8, <1>10 DEF OnStack
  <2>3. Arguments(v, a, r) = <<v[a1], v[a3], v[a5]>>
    BY <1>10 DEF Arguments
  <2> HIDE DEF a1, a2, a3, a4, a5, n
  <2>4. v[a2].size = 0 /\ v[a4].size = 0
    BY <1>9, <1>t, <2>1, <2>2
  <2>5. /\ S(a1) = S(a) + v[a1].size /\ S(a2) = S(a1) + v[a2].size /\ S(a3) = S(a2) + v[a3].size
        /\ S(a4) = S(a3) + v[a4].size /\ S(a5) = S(a4) + v[a5].size
        /\ v[a1].size \in Nat /\ v[a3].size \in Nat /\ v[a5].size \in Nat
    BY <1>6, <1>8, <2>1
  <2>a. Sizes(<<v[a1], v[a3], v[a5]>>) = v[a1].size + v[a3].size + v[a5].size
    <3> DEFINE x == v[a1]
               y == v[a3]
               z == v[a5]
    <3>1. x.size \in Nat /\ y.size \in Nat /\ z.size \in Nat
      BY <2>5
    <3> HIDE DEF x, y, z
    <3>2. Sizes(<<x, y, z>>) = x.size + y.size + z.size
      BY <3>1, SizesThree
    <3> QED
      BY <3>2 DEF x, y, z
  <2>6. Sizes(Arguments(v, a, r)) = v[a1].size + v[a3].size + v[a5].size
    BY <2>3, <2>a
  <2>b. S(a1) \in Nat /\ S(a2) = S(a1)
    BY <1>5, <2>4, <2>5
  <2>c. S(a3) \in Nat /\ S(a3) = S(a1) + v[a3].size /\ S(a4) = S(a3)
    BY <2>4, <2>5, <2>b
  <2>d. S(n) = S(a) + v[a1].size + v[a3].size + v[a5].size
    BY <1>5, <2>1, <2>5, <2>c
  <2>e. v[a1].size + v[a3].size + v[a5].size \in Nat
    BY <1>s, <2>5
  <2>f. S(n) = S(a) + (v[a1].size + v[a3].size + v[a5].size)
    BY <1>5, <1>s, <2>5, <2>d
  <2>7. Sizes(Arguments(v, a, r)) \in Nat /\ S(n) = S(a) + Sizes(Arguments(v, a, r))
    BY <2>6, <2>e, <2>f
  <2> QED
    BY <1>4, <1>5, <1>7, <2>7 DEF S, n
<1>11. CASE r \in 3..8
  <2>1. n = a3 /\ a1 \in 1..n /\ a2 \in 1..n /\ a3 \in 1..n
    BY <1>4, <1>11 DEF Length
  <2>2. P[a2 + 1] = r + 6 /\ r + 6 \in 9..14
    BY <1>1, <1>8, <1>11 DEF OnStack
  <2>3. Arguments(v, a, r) = <<v[a1], v[a3]>>
    BY <1>11 DEF Arguments
  <2> HIDE DEF a1, a2, a3, a4, a5, n
  <2>4. v[a2].size = 0
    BY <1>9, <1>t, <2>1, <2>2
  <2>5. /\ S(a1) = S(a) + v[a1].size /\ S(a2) = S(a1) + v[a2].size /\ S(a3) = S(a2) + v[a3].size
        /\ v[a1].size \in Nat /\ v[a3].size \in Nat
    BY <1>6, <1>8, <2>1
  <2>6. Sizes(Arguments(v, a, r)) = v[a1].size + v[a3].size
    BY <2>3, <2>5, SizesTwo
  <2>b. S(a1) \in Nat /\ S(a2) = S(a1)
    <3>1. S(a1) \in Nat
      BY <1>5, <2>5
    <3> QED
      BY <2>4, <2>5, <3>1
  <2>7. Sizes(Arguments(v, a, r)) \in Nat /\ S(n) = S(a) + Sizes(Arguments(v, a, r))
    <3>1. S(n) = S(a) + v[a1].size + v[a3].size
      BY <2>1, <2>5, <2>b
    <3>2. /\ v[a1].size + v[a3].size \in Nat
          /\ S(a) + v[a1].size + v[a3].size = S(a) + (v[a1].size + v[a3].size)
      <4>1. S(a) \in Nat /\ v[a1].size \in Nat /\ v[a3].size \in Nat
        BY <1>5, <2>5
      <4> QED
        BY <1>u, <4>1, SMTT(20)
    <3> QED
      BY <2>6, <3>1, <3>2
  <2> QED
    BY <1>4, <1>5, <1>7, <2>7 DEF S, n
<1>12. CASE r = 9
  <2>1. n = a2 /\ a1 \in 1..n /\ a2 \in 1..n
    BY <1>4, <1>12 DEF Length
  <2>2. P[a1 + 1] = 1
    BY <1>1, <1>8, <1>12 DEF OnStack
  <2>3. Arguments(v, a, r) = <<v[a2]>>
    BY <1>12 DEF Arguments
  <2> HIDE DEF a1, a2, a3, a4, a5, n
  <2>4. v[a1].size = 0
    BY <1>9, <1>t, <2>1, <2>2
  <2>5. /\ S(a1) = S(a) + v[a1].size /\ S(a2) = S(a1) + v[a2].size /\ v[a2].size \in Nat
    BY <1>6, <1>8, <2>1
  <2>6. Sizes(Arguments(v, a, r)) = v[a2].size
    BY <2>3, <2>5, SizesOne
  <2>7. Sizes(Arguments(v, a, r)) \in Nat /\ S(n) = S(a) + Sizes(Arguments(v, a, r))
    BY <1>5, <2>1, <2>4, <2>5, <2>6
  <2> QED
    BY <1>4, <1>5, <1>7, <2>7 DEF S, n
<1>13. CASE r \in {10, 11}
  <2>1. n = a1 /\ a1 \in 1..n
    BY <1>4, <1>13 DEF Length
  <2>2. P[a1 + 1] \in {2, 3}
    BY <1>1, <1>8, <1>13 DEF OnStack
  <2>3. Arguments(v, a, r) = <<>>
    BY <1>13 DEF Arguments
  <2> HIDE DEF a1, a2, a3, a4, a5, n
  <2>4. v[a1].size = 0
    BY <1>9, <1>t, <2>1, <2>2
  <2>5. S(a1) = S(a) + v[a1].size
    BY <1>6, <1>8, <2>1
  <2>7. Sizes(Arguments(v, a, r)) = 0 /\ S(n) = S(a)
    BY <1>5, <2>1, <2>3, <2>4, <2>5, SizesEmpty
  <2> QED
    BY <1>4, <1>5, <1>7, <2>7 DEF S, n
<1>14. CASE r = 12
  <2>1. n = a3 /\ a1 \in 1..n /\ a2 \in 1..n /\ a3 \in 1..n
    BY <1>4, <1>14 DEF Length
  <2>2. P[a1 + 1] = 4 /\ P[a3 + 1] = 15
    BY <1>1, <1>8, <1>14 DEF OnStack
  <2>3. Arguments(v, a, r) = <<v[a2]>>
    BY <1>14 DEF Arguments
  <2> HIDE DEF a1, a2, a3, a4, a5, n
  <2>4. v[a1].size = 0 /\ v[a3].size = 0
    BY <1>9, <1>t, <2>1, <2>2
  <2>5. /\ S(a1) = S(a) + v[a1].size /\ S(a2) = S(a1) + v[a2].size /\ v[a2].size \in Nat
        /\ S(a3) = S(a2) + v[a3].size
    BY <1>6, <1>8, <2>1
  <2>6. Sizes(Arguments(v, a, r)) = v[a2].size
    BY <2>3, <2>5, SizesOne
  <2>b. S(a2) \in Nat /\ S(a3) = S(a2)
    BY <1>5, <2>4, <2>5
  <2>7. Sizes(Arguments(v, a, r)) \in Nat /\ S(n) = S(a) + Sizes(Arguments(v, a, r))
    BY <1>5, <2>1, <2>4, <2>5, <2>6, <2>b
  <2> QED
    BY <1>4, <1>5, <1>7, <2>7 DEF S, n
<1> QED
  BY <1>10, <1>11, <1>12, <1>13, <1>14

(* The arguments are at the places of expressions. *)
AtExpressions(P, v, args) ==
    \A j \in DOMAIN args : \E i \in 1..Len(v) : args[j] = v[i] /\ P[i + 1] \notin TokenStates

LEMMA ArgumentPlaces ==
  ASSUME NEW P, IsPath(P), NEW k, k = Len(P), NEW r \in 2..12, Rule(P[k]) = r,
         NEW b, b = k - Length(r), NEW v, IsSeq(v), Len(v) + 1 = k,
         NEW a, a = b - 1
  PROVE  AtExpressions(P, v, Arguments(v, a, r))
<1> DEFINE n == Len(v)
           Place(i) == i \in 1..n /\ P[i + 1] \notin TokenStates
<1>1. b \in 1..k /\ P[b] \in OperandStates /\ OnStack(P, b, r)
  BY Handle
<1>2. n \in Nat /\ n + 1 = k
  BY SeqFacts
<1>3. k = b + Length(r)
  <2>1. Length(r) \in Nat /\ k \in Nat
    BY <1>2 DEF Length
  <2> QED
    BY <1>1, <2>1
<1>4. b \in Nat /\ b = a + 1 /\ n = a + Length(r) /\ a \in Nat
  <2> DEFINE l == Length(r)
  <2>1. l \in Nat
    BY DEF Length
  <2> HIDE DEF l, n
  <2>2. k = b + l
    BY <1>3 DEF l
  <2>3. b \in Nat /\ b = a + 1 /\ n = a + l /\ a \in Nat
    BY <1>1, <1>2, <2>1, <2>2
  <2> QED
    BY <2>3 DEF l
<1>5. (a + 1) + 1 = b + 1 /\ (a + 2) + 1 = b + 2 /\ (a + 3) + 1 = b + 3 /\ (a + 5) + 1 = b + 5
  <2>1. a \in Nat /\ b = a + 1
    BY <1>4
  <2> QED
    BY <2>1
<1>t. /\ \A q \in 16..22 : q \notin TokenStates
      /\ \A q \in {5, 6, 7, 16, 24} : q \notin TokenStates
  BY DEF TokenStates
<1> HIDE DEF n
<1>6. CASE r = 2
  <2>1. a + 1 \in 1..n /\ a + 3 \in 1..n /\ a + 5 \in 1..n
    BY <1>4, <1>6 DEF Length
  <2>2. P[b + 1] \in {5, 7, 16, 24} /\ P[b + 3] = 16 /\ P[b + 5] = 24
    BY <1>1, <1>6 DEF OnStack
  <2>3. Place(a + 1) /\ Place(a + 3) /\ Place(a + 5)
    BY <1>5, <1>t, <2>1, <2>2
  <2>4. Arguments(v, a, r) = <<v[a + 1], v[a + 3], v[a + 5]>>
    BY <1>6 DEF Arguments
  <2> HIDE DEF Place
  <2>5. \A j \in 1..3 : \E i : Arguments(v, a, r)[j] = v[i] /\ Place(i)
    <3> DEFINE args == Arguments(v, a, r)
    <3>1. args[1] = v[a + 1] /\ args[2] = v[a + 3] /\ args[3] = v[a + 5]
      BY <2>4
    <3> HIDE DEF args
    <3>2. \A j \in 1..3 : \E i : args[j] = v[i] /\ Place(i)
      BY <2>3, <3>1, SMTT(20)
    <3> QED
      BY <3>2 DEF args
  <2>6. DOMAIN Arguments(v, a, r) = 1..3
    BY <2>4
  <2> QED
    BY <2>5, <2>6 DEF Place, n, AtExpressions
<1>7. CASE r \in 3..8
  <2>1. a + 1 \in 1..n /\ a + 3 \in 1..n
    BY <1>4, <1>7 DEF Length
  <2>2. P[b + 1] \in ({5, 7, 16, 24} \cup (17..(r + 13))) /\ P[b + 3] = r + 14
    BY <1>1, <1>7 DEF OnStack
  <2>3. 17..(r + 13) \subseteq 16..22 /\ r + 14 \in 16..22
    BY <1>7
  <2>4. P[b + 1] \notin TokenStates /\ P[b + 3] \notin TokenStates
    BY <1>t, <2>2, <2>3
  <2>5. Place(a + 1) /\ Place(a + 3)
    BY <1>5, <2>1, <2>4
  <2>6. Arguments(v, a, r) = <<v[a + 1], v[a + 3]>>
    BY <1>7 DEF Arguments
  <2> HIDE DEF Place
  <2>7. \A j \in 1..2 : \E i : Arguments(v, a, r)[j] = v[i] /\ Place(i)
    BY <2>5, <2>6
  <2>8. DOMAIN Arguments(v, a, r) = 1..2
    BY <2>6
  <2> QED
    BY <2>7, <2>8 DEF Place, n, AtExpressions
<1>8. CASE r \in {9, 12}
  <2>1. a + 2 \in 1..n
    BY <1>4, <1>8 DEF Length
  <2>2. P[b + 2] \in {6, 7}
    BY <1>1, <1>8 DEF OnStack
  <2>3. Place(a + 2)
    BY <1>5, <1>t, <2>1, <2>2
  <2>4. Arguments(v, a, r) = <<v[a + 2]>>
    BY <1>8 DEF Arguments
  <2> HIDE DEF Place
  <2>5. \A j \in 1..1 : \E i : Arguments(v, a, r)[j] = v[i] /\ Place(i)
    BY <2>3, <2>4
  <2>6. DOMAIN Arguments(v, a, r) = 1..1
    BY <2>4
  <2> QED
    BY <2>5, <2>6 DEF Place, n, AtExpressions
<1>9. CASE r \in {10, 11}
  <2>1. Arguments(v, a, r) = <<>>
    BY <1>9 DEF Arguments
  <2> QED
    BY <2>1 DEF AtExpressions
<1> QED
  BY <1>6, <1>7, <1>8, <1>9

(* What the values of a path are: trees of nodes, or nothing after a failure. *)
Held(P, v, f) == \A i \in 1..Len(v) :
                    /\ v[i].size \in Nat
                    /\ P[i + 1] \in TokenStates => v[i].size = 0
                    /\ P[i + 1] \notin TokenStates /\ v[i].size = 0 => v[i] = NULL /\ f # 0

LEMMA HeldReplace ==
  ASSUME NEW P, NEW v, NEW f, Held(P, v, f),
         NEW b \in Nat, b >= 1, Len(v) \in Nat, b - 1 <= Len(v),
         NEW Q, NEW w, NEW g, Len(w) = b, f # 0 => g # 0,
         \A i \in 1..(b - 1) : w[i] = v[i] /\ Q[i + 1] = P[i + 1],
         w[b].size \in Nat, Q[b + 1] \in TokenStates => w[b].size = 0,
         Q[b + 1] \notin TokenStates /\ w[b].size = 0 => w[b] = NULL /\ g # 0
  PROVE  Held(Q, w, g)
<1> SUFFICES ASSUME NEW i \in 1..b
             PROVE  /\ w[i].size \in Nat
                    /\ Q[i + 1] \in TokenStates => w[i].size = 0
                    /\ Q[i + 1] \notin TokenStates /\ w[i].size = 0 => w[i] = NULL /\ g # 0
  BY DEF Held
<1>1. CASE i = b
  BY <1>1
<1>2. CASE i # b
  <2>1. i \in 1..(b - 1) /\ i \in 1..Len(v)
    BY <1>2
  <2>2. w[i] = v[i] /\ Q[i + 1] = P[i + 1]
    BY <2>1
  <2>3. /\ v[i].size \in Nat
        /\ P[i + 1] \in TokenStates => v[i].size = 0
        /\ P[i + 1] \notin TokenStates /\ v[i].size = 0 => v[i] = NULL /\ f # 0
    BY <2>1 DEF Held
  <2> QED
    BY <2>2, <2>3
<1> QED
  BY <1>1, <1>2

LEMMA HeldSizes ==
  ASSUME NEW P, NEW v, IsSeq(v), NEW f, Held(P, v, f)
  PROVE  Sized(P, v) /\ Sizes(v) \in Nat
<1>1. Sized(P, v)
  BY DEF Held, Sized
<1> QED
  BY <1>1, SizesNat DEF Sized

ValuesInv ==
    /\ failures \in Nat
    /\ yylval.size = 0
    /\ Held(Path, yyvs, failures)
    /\ label # "yyerrhandle" /\ yystate \in {25, 26} => res = yyvs[1]
    /\ yyresult = 0 => yystate = 26
    /\ label # "yyerrhandle" /\ ~(yyresult = 1 /\ Reads(seen).want = "bad")
         => live = Sizes(yyvs)

LEMMA ValuesInit == Init => ValuesInv
<1> SUFFICES ASSUME Init PROVE ValuesInv
  OBVIOUS
<1>1. yyvs = <<>> /\ yystate = 0 /\ live = 0 /\ failures = 0 /\ yyresult = -1 /\ yylval = NULL
  BY DEF Init
<1>2. Held(Path, <<>>, failures)
  BY SeqEmpty DEF Held
<1>3. yylval.size = 0
  BY <1>1 DEF NULL, Value
<1> QED
  BY <1>1, <1>2, <1>3, SizesEmpty DEF ValuesInv

LEMMA ValuesShift == StacksInv /\ ReadsInv /\ ValuesInv /\ Shift => ValuesInv'
<1> SUFFICES ASSUME StacksInv, ReadsInv, ValuesInv, Shift PROVE ValuesInv'
  OBVIOUS
<1>1. /\ Decides /\ Decision > 0 /\ Decision # YYFINAL /\ label = "yybackup"
      /\ yyvs' = Append(yyvs, yylval) /\ yystate' = Decision /\ label' = "yysetstate"
      /\ UNCHANGED <<seen, yyss, yyresult, yylval, res, live, failures>>
  BY DEF Shift, Decides, memory
<1>2. /\ Decision \in TokenStates /\ Decision \in States /\ Edge(yystate, Decision)
  BY <1>1, Shifted
<1>3. /\ IsPath(yyss) /\ Path = yyss /\ yystate = yyss[Len(yyss)] /\ Len(yyss) \in Nat
      /\ Len(yyss) >= 1 /\ Len(yyvs) \in Nat /\ Len(yyss) = Len(yyvs) + 1 /\ yyresult = -1
      /\ IsSeq(yyss) /\ IsSeq(yyvs) /\ yystate \in States
  BY <1>1, StackFacts DEF StacksInv
<1> DEFINE n == Len(yyvs)
<1>4. /\ Path' = Append(yyss, Decision) /\ Path'[n + 2] = Decision
      /\ \A i \in 1..(n + 1) : Path'[i] = yyss[i]
  <2>1. Path' = Append(yyss, Decision)
    BY <1>1 DEF Path
  <2>2. Append(yyss, Decision)[Len(yyss) + 1] = Decision
    BY <1>3, SeqAppend
  <2>3. \A i \in 1..Len(yyss) : Append(yyss, Decision)[i] = yyss[i]
    BY <1>3, SeqAppend
  <2>4. Len(yyss) + 1 = n + 2
    BY <1>3
  <2> QED
    BY <1>3, <2>1, <2>2, <2>3, <2>4
<1>5. /\ Len(yyvs') = n + 1 /\ yyvs'[n + 1] = yylval
      /\ \A i \in 1..n : yyvs'[i] = yyvs[i]
  BY <1>1, <1>3, SeqAppend
<1>6. Held(yyss, yyvs, failures) /\ yylval.size = 0 /\ failures \in Nat /\ live = Sizes(yyvs)
  BY <1>1, <1>3 DEF ValuesInv
<1>7. Held(Path', yyvs', failures)
  <2> HIDE DEF n
  <2>1. n \in Nat /\ n = Len(yyvs)
    BY <1>3 DEF n
  <2> DEFINE b == n + 1
             P == Path'
             v == yyvs'
  <2>a. b \in Nat /\ b >= 1 /\ b - 1 <= n /\ b - 1 <= Len(yyvs) /\ b + 1 = n + 2
    BY <2>1
  <2>b. Len(v) = b /\ \A i \in 1..n : v[i] = yyvs[i]
    BY <1>5
  <2>g. \A i \in 1..n : i + 1 \in 1..(n + 1)
    BY <2>1
  <2>c. \A i \in 1..n : P[i + 1] = yyss[i + 1]
    BY <1>4, <2>g
  <2>d. \A i \in 1..(b - 1) : i \in 1..n
    BY <2>1, <2>a
  <2>2. \A i \in 1..(b - 1) : v[i] = yyvs[i] /\ P[i + 1] = yyss[i + 1]
    BY <2>b, <2>c, <2>d
  <2>3. v[b].size = 0 /\ P[b + 1] \in TokenStates
    BY <1>2, <1>4, <1>5, <1>6, <2>a
  <2> HIDE DEF b, P, v
  <2>e. Len(yyvs) \in Nat /\ b \in Nat /\ b >= 1 /\ b - 1 <= Len(yyvs) /\ Len(v) = b
    BY <1>3, <2>a, <2>b
  <2>f. v[b].size \in Nat
    BY <2>3
  <2>4. Held(P, v, failures)
    BY <1>6, <2>2, <2>3, <2>e, <2>f, HeldReplace
  <2> QED
    BY <2>4 DEF P, v
<1>8. Sizes(yyvs') = Sizes(yyvs)
  <2>1. Sizes(yyvs) \in Nat
    BY <1>3, <1>6, HeldSizes
  <2> QED
    BY <1>1, <1>3, <1>6, <2>1, SizesAppend
<1>9. yystate' \in {25, 26} => res' = yyvs'[1]
  <2> SUFFICES ASSUME Decision \in {25, 26} PROVE res = yyvs'[1]
    BY <1>1
  <2>1. yystate = 25
    BY <1>2, <1>3, Before DEF TokenStates
  <2>2. Len(yyss) # 1
    BY <1>3, <2>1 DEF IsPath
  <2>3. 1 \in 1..n
    BY <1>3, <2>2
  <2> QED
    BY <1>1, <1>5, <2>1, <2>3 DEF ValuesInv
<1> QED
  BY <1>1, <1>3, <1>6, <1>7, <1>8, <1>9 DEF ValuesInv

(* A rule puts v where its right-hand side was. *)
LEMMA HeldReduced ==
  ASSUME StacksInv, Decides, NEW r \in 2..12, Decision = -r, NEW v, Becomes(r, v),
         Held(yyss, yyvs, failures), NEW g, failures # 0 => g # 0,
         v.size \in Nat, v.size = 0 => v = NULL /\ g # 0
  PROVE  Held(Path', yyvs', g)
<1> DEFINE b == Len(yyss) - Length(r)
           P == Path'
           w == yyvs'
           q == yystate'
           ss == yyss'
<1>1. /\ b \in 1..Len(yyss) /\ b < Len(yyss) /\ Len(yyss) = Len(yyvs) + 1
      /\ yyss[b] \in OperandStates
      /\ IsSeq(ss) /\ Len(ss) = b
      /\ \A i \in 1..b : ss[i] = yyss[i]
      /\ IsSeq(w) /\ Len(w) = b
      /\ \A i \in 1..(b - 1) : w[i] = yyvs[i]
      /\ w[b] = v
      /\ q = AfterExp(yyss[b])
      /\ P = Append(ss, q)
  <2>1. /\ b \in 1..Len(yyss) /\ b < Len(yyss) /\ Len(yyss) = Len(yyvs) + 1
        /\ yyss[b] \in OperandStates
        /\ IsSeq(yyss') /\ Len(yyss') = b
        /\ \A i \in 1..b : yyss'[i] = yyss[i]
    BY Replaced
  <2>2. /\ IsSeq(yyvs') /\ Len(yyvs') = b
        /\ \A i \in 1..(b - 1) : yyvs'[i] = yyvs[i]
        /\ yyvs'[b] = v
    <3>1. IsSeq(yyvs') /\ Len(yyvs') = b
      BY Replaced
    <3>2. \A i \in 1..(b - 1) : yyvs'[i] = yyvs[i]
      BY Replaced
    <3>3. yyvs'[b] = v
      BY Replaced
    <3> QED
      BY <3>1, <3>2, <3>3
  <2>3. yystate' = AfterExp(yyss[b]) /\ Path' = Append(yyss', yystate')
    BY Replaced
  <2> QED
    BY <2>1, <2>2, <2>3
<1>2. Len(yyvs) \in Nat /\ Len(yyss) \in Nat
  BY StackFacts
<1> HIDE DEF b, P, w, q, ss
<1>3. /\ P[b + 1] = q /\ \A i \in 1..b : P[i] = ss[i]
  BY <1>1, SeqAppend
<1>4. b \in Nat /\ b >= 1 /\ b - 1 <= Len(yyvs) /\ \A i \in 1..(b - 1) : i + 1 \in 1..b
  BY <1>1, <1>2
<1>5. \A i \in 1..(b - 1) : P[i + 1] = yyss[i + 1]
  BY <1>1, <1>3, <1>4
<1>6. P[b + 1] \notin TokenStates
  BY <1>1, <1>3, AfterExps
<1>7. \A i \in 1..(b - 1) : w[i] = yyvs[i] /\ P[i + 1] = yyss[i + 1]
  BY <1>1, <1>5
<1>8. w[b].size \in Nat /\ (w[b].size = 0 => w[b] = NULL /\ g # 0)
  BY <1>1
<1>9. Held(P, w, g)
  <2>1. Len(w) = b /\ b \in Nat /\ b >= 1 /\ Len(yyvs) \in Nat /\ b - 1 <= Len(yyvs)
    BY <1>1, <1>2, <1>4
  <2>2. /\ w[b].size \in Nat
        /\ P[b + 1] \in TokenStates => w[b].size = 0
        /\ P[b + 1] \notin TokenStates /\ w[b].size = 0 => w[b] = NULL /\ g # 0
    BY <1>6, <1>8
  <2> QED
    BY <1>7, <2>1, <2>2, HeldReplace
<1> QED
  BY <1>9 DEF P, w

(* What the rule made of it. *)
LEMMA SizesReduced ==
  ASSUME StacksInv, Decides, NEW r \in 2..12, Decision = -r, NEW v, Becomes(r, v),
         Held(yyss, yyvs, failures), NEW a, a = Len(yyvs) - Length(r)
  PROVE  /\ a \in Nat /\ \A i \in 1..Length(r) : Rhs(r)[i] = yyvs[a + i]
         /\ Sizes(Arguments(yyvs, a, r)) \in Nat
         /\ \E low \in Nat : /\ Sizes(yyvs) = low + Sizes(Arguments(yyvs, a, r))
                             /\ Sizes(yyvs') = low + v.size
         /\ ~Complete(Arguments(yyvs, a, r)) => failures # 0
<1> DEFINE b == Len(yyss) - Length(r)
           l == Length(r)
           n == Len(yyvs)
           k == Len(yyss)
<1>1. /\ yyvs' = Append(SubSeq(yyvs, 1, b - 1), v) /\ b \in 1..k
  BY Replaced
<1>2. /\ n \in Nat /\ k = n + 1 /\ IsSeq(yyvs) /\ IsPath(yyss) /\ yystate = yyss[k]
  BY StackFacts DEF Decides, StacksInv
<1>3. Rule(yyss[k]) = r
  BY <1>2, Reduced
<1>4. l \in 1..5 /\ At(yyr2, r) = l
  BY Lengths
<1>5. a = b - 1
  <2> HIDE DEF l, n, k
  <2>1. b = k - l /\ a = n - l
    BY DEF l, n, k
  <2> QED
    BY <1>2, <1>4, <2>1
<1>6. Sized(yyss, yyvs)
  BY <1>2, HeldSizes
<1> DEFINE args == Arguments(yyvs, a, r)
           low == Sizes(SubSeq(yyvs, 1, a))
<1>7. a \in 0..n /\ n = a + l /\ low \in Nat /\ Sizes(args) \in Nat /\ Sizes(yyvs) = low + Sizes(args)
  BY <1>2, <1>3, <1>5, <1>6, HandleSizes
<1>8. Sizes(yyvs') = low + v.size
  <2>1. IsSeq(SubSeq(yyvs, 1, a))
    BY <1>2, <1>7, SeqPrefix
  <2> QED
    BY <1>1, <1>5, <2>1, SizesAppend
<1>9. \A i \in 1..l : Rhs(r)[i] = yyvs[a + i]
  <2>1. Rhs(r) = SubSeq(yyvs, a + 1, n)
    BY <1>4 DEF Rhs
  <2>2. \A i \in 1..(n - a) : SubSeq(yyvs, a + 1, n)[i] = yyvs[a + i]
    BY <1>2, <1>7, SeqSuffix
  <2>3. n - a = l
    <3> HIDE DEF l, n
    <3> QED
      BY <1>2, <1>4, <1>7
  <2> QED
    BY <2>1, <2>2, <2>3
<1>10. ASSUME NEW j \in DOMAIN args, args[j] = NULL PROVE failures # 0
  <2>0. AtExpressions(yyss, yyvs, args)
    BY <1>2, <1>3, <1>5, ArgumentPlaces
  <2>1. PICK i \in 1..n : args[j] = yyvs[i] /\ yyss[i + 1] \notin TokenStates
    BY <2>0 DEF AtExpressions
  <2>2. yyvs[i].size = 0
    BY <1>10, <2>1 DEF NULL, Value
  <2> QED
    BY <2>1, <2>2 DEF Held
<1>11. a \in Nat
  BY <1>7
<1> HIDE DEF low
<1>12. \E x \in Nat : Sizes(yyvs) = x + Sizes(args) /\ Sizes(yyvs') = x + v.size
  BY <1>7, <1>8
<1> QED
  BY <1>7, <1>9, <1>10, <1>11, <1>12 DEF Complete

(* What holds of the memory while the text is parsed. *)
LEMMA ValuesNow ==
  ASSUME StacksInv, ReadsInv, ValuesInv, Decides
  PROVE  /\ Held(yyss, yyvs, failures) /\ live = Sizes(yyvs) /\ failures \in Nat
         /\ yylval.size = 0 /\ yyresult = -1 /\ Len(yyss) = Len(yyvs) + 1 /\ Len(yyvs) \in Nat
         /\ label = "yybackup"
<1>1. label = "yybackup" /\ yyresult = -1
  BY DEF Decides, StacksInv
<1>2. Path = yyss /\ Len(yyvs) \in Nat /\ Len(yyss) = Len(yyvs) + 1
  BY <1>1, StackFacts DEF StacksInv
<1> QED
  BY <1>1, <1>2 DEF ValuesInv

LEMMA ValuesReduced ==
  ASSUME StacksInv, ReadsInv, ValuesInv, Decides, NEW r \in 2..12, Decision = -r, NEW v,
         Becomes(r, v), UNCHANGED <<yylval, res>>,
         failures' \in Nat, Held(Path', yyvs', failures'), live' = Sizes(yyvs')
  PROVE  ValuesInv'
<1>1. yyresult' = -1 /\ yylval'.size = 0
  BY ValuesNow DEF Becomes
<1>2. yystate' \notin {25, 26}
  <2> DEFINE b == Len(yyss) - Length(r)
  <2>1. yyss[b] \in OperandStates /\ yystate' = AfterExp(yyss[b])
    BY Replaced
  <2>2. 26 \in TokenStates
    BY DEF TokenStates
  <2> QED
    BY <2>1, <2>2, AfterExps
<1> QED
  BY <1>1, <1>2 DEF ValuesInv

LEMMA ValuesBuild == StacksInv /\ ReadsInv /\ ValuesInv /\ ReduceExp => ValuesInv'
<1> SUFFICES ASSUME StacksInv, ReadsInv, ValuesInv, ReduceExp PROVE ValuesInv'
  OBVIOUS
<1>1. PICK r \in 2..11 : Builds(r)
  BY Reduction
<1>g. PICK got \in BOOLEAN : \E v :
        LET s == Semantic(r, Rhs(r))
        IN  /\ v = NewExp(s.op, s.num, s.args, got)
            /\ failures' = IF got THEN failures ELSE failures + 1
            /\ live' = IF v # NULL THEN live + 1 ELSE live - FREE_EXPRESSION(s.args)
            /\ Becomes(r, v)
  BY <1>1 DEF Builds
<1>2. PICK v :
        LET s == Semantic(r, Rhs(r))
        IN  /\ v = NewExp(s.op, s.num, s.args, got)
            /\ failures' = IF got THEN failures ELSE failures + 1
            /\ live' = IF v # NULL THEN live + 1 ELSE live - FREE_EXPRESSION(s.args)
            /\ Becomes(r, v)
  BY <1>g
<1>3. Decides /\ Decision = -r /\ r \in 2..12 /\ UNCHANGED <<seen, yychar, yylval, res>>
  BY <1>1 DEF Builds
<1>4. Held(yyss, yyvs, failures) /\ live = Sizes(yyvs) /\ failures \in Nat /\ yyresult = -1
  BY <1>3, ValuesNow
<1> DEFINE s == Semantic(r, Rhs(r))
           a == Len(yyvs) - Length(r)
           args == Arguments(yyvs, a, r)
<1>5. /\ a \in Nat /\ \A i \in 1..Length(r) : Rhs(r)[i] = yyvs[a + i]
      /\ Sizes(args) \in Nat
      /\ \E low \in Nat : Sizes(yyvs) = low + Sizes(args) /\ Sizes(yyvs') = low + v.size
      /\ ~Complete(args) => failures # 0
  <2>1. Becomes(r, v)
    BY <1>2
  <2>2. a \in Nat /\ \A i \in 1..Length(r) : Rhs(r)[i] = yyvs[a + i]
    <3>1. a \in Nat
      BY <1>3, <1>4, <2>1, SizesReduced
    <3>2. \A i \in 1..Length(r) : Rhs(r)[i] = yyvs[a + i]
      BY <1>3, <1>4, <2>1, SizesReduced
    <3> QED
      BY <3>1, <3>2
  <2>3. Sizes(args) \in Nat /\ (~Complete(args) => failures # 0)
    BY <1>3, <1>4, <2>1, SizesReduced
  <2>4. \E low \in Nat : Sizes(yyvs) = low + Sizes(args) /\ Sizes(yyvs') = low + v.size
    BY <1>3, <1>4, <2>1, SizesReduced
  <2> QED
    BY <2>2, <2>3, <2>4
<1>6. s.args = args
  BY <1>5, Operands
<1>7. PICK low \in Nat : Sizes(yyvs) = low + Sizes(args) /\ Sizes(yyvs') = low + v.size
  BY <1>5
<1> HIDE DEF s, a, args
<1>8. /\ v = NewExp(s.op, s.num, args, got) /\ Becomes(r, v)
      /\ failures' = (IF got THEN failures ELSE failures + 1)
      /\ live' = (IF v # NULL THEN live + 1 ELSE live - Sizes(args))
  BY <1>2, <1>6 DEF FREE_EXPRESSION, s
<1>9. NULL.size = 0
  BY DEF NULL, Value
<1>10. CASE Complete(args) /\ got
  <2>1. v = Node(s.op, s.num, args)
    BY <1>8, <1>10 DEF NewExp
  <2>2. v.size = 1 + Sizes(args)
    BY <2>1 DEF Node
  <2>3. v.size \in Nat /\ v.size # 0 /\ v # NULL
    BY <1>5, <1>9, <2>2
  <2>4. Held(Path', yyvs', failures) /\ failures' = failures
    BY <1>3, <1>4, <1>8, <1>10, <2>3, HeldReduced
  <2>5. live' = Sizes(yyvs')
    BY <1>4, <1>5, <1>7, <1>8, <2>2, <2>3
  <2>6. Held(Path', yyvs', failures')
    BY <2>4
  <2> QED
    BY <1>3, <1>4, <1>8, <2>4, <2>5, <2>6, ValuesReduced
<1>11. CASE ~(Complete(args) /\ got)
  <2>1. v = NULL
    BY <1>8, <1>11 DEF NewExp
  <2>2. v.size = 0
    BY <1>9, <2>1
  <2>3. failures' \in Nat /\ failures' # 0
    <3>1. CASE got
      BY <1>4, <1>5, <1>8, <1>11, <3>1
    <3>2. CASE ~got
      BY <1>4, <1>8, <3>2
    <3> QED
      BY <3>1, <3>2
  <2> DEFINE g == failures'
  <2>4. g \in Nat /\ g # 0
    BY <2>3
  <2> HIDE DEF g
  <2>5. Held(Path', yyvs', g)
    BY <1>3, <1>4, <1>8, <2>1, <2>2, <2>4, HeldReduced
  <2>6. live' = Sizes(yyvs')
    BY <1>4, <1>5, <1>7, <1>8, <2>1, <2>2
  <2> QED
    BY <1>3, <1>4, <1>8, <2>3, <2>5, <2>6, ValuesReduced DEF g
<1> QED
  BY <1>10, <1>11

LEMMA ValuesGroup == StacksInv /\ ReadsInv /\ ValuesInv /\ ReduceParentheses => ValuesInv'
<1> SUFFICES ASSUME StacksInv, ReadsInv, ValuesInv, ReduceParentheses PROVE ValuesInv'
  OBVIOUS
<1> DEFINE v == Rhs(12)[2]
           a == Len(yyvs) - Length(12)
<1>1. /\ Decides /\ Decision = -12 /\ Becomes(12, v) /\ 12 \in 2..12
      /\ UNCHANGED <<seen, yychar, yylval, res, live, failures>>
  BY DEF ReduceParentheses, memory
<1>2. Held(yyss, yyvs, failures) /\ live = Sizes(yyvs) /\ failures \in Nat /\ yyresult = -1
  BY <1>1, ValuesNow
<1>3. /\ a \in Nat /\ \A i \in 1..Length(12) : Rhs(12)[i] = yyvs[a + i]
      /\ Sizes(Arguments(yyvs, a, 12)) \in Nat
      /\ \E low \in Nat : /\ Sizes(yyvs) = low + Sizes(Arguments(yyvs, a, 12))
                          /\ Sizes(yyvs') = low + v.size
  BY <1>1, <1>2, SizesReduced
<1>4. v = yyvs[a + 2] /\ Arguments(yyvs, a, 12) = <<yyvs[a + 2]>>
  <2>1. 2 \in 1..Length(12)
    BY DEF Length
  <2> QED
    BY <1>3, <2>1 DEF Arguments
<1>5. \E i \in 1..Len(yyvs) : v = yyvs[i] /\ yyss[i + 1] \notin TokenStates
  <2>1. /\ IsPath(yyss) /\ yystate = yyss[Len(yyss)] /\ IsSeq(yyvs) /\ Len(yyss) = Len(yyvs) + 1
        /\ Len(yyvs) \in Nat
    BY <1>1, StackFacts DEF Decides, StacksInv
  <2>2. Rule(yyss[Len(yyss)]) = 12
    BY <1>1, <2>1, Reduced
  <2>3. Len(yyss) - Length(12) - 1 = a
    BY <2>1 DEF Length
  <2>4. AtExpressions(yyss, yyvs, Arguments(yyvs, a, 12))
    BY <1>1, <2>1, <2>2, <2>3, ArgumentPlaces
  <2>5. 1 \in DOMAIN <<yyvs[a + 2]>> /\ <<yyvs[a + 2]>>[1] = yyvs[a + 2]
    OBVIOUS
  <2> HIDE DEF a, v
  <2> QED
    BY <1>4, <2>4, <2>5 DEF AtExpressions
<1> HIDE DEF v, a
<1>6. v.size \in Nat /\ (v.size = 0 => v = NULL /\ failures # 0)
  BY <1>2, <1>5 DEF Held
<1>7. Held(Path', yyvs', failures)
  BY <1>1, <1>2, <1>6, HeldReduced
<1>8. Sizes(yyvs') = Sizes(yyvs)
  <2>1. Sizes(<<v>>) = v.size
    BY <1>6, SizesOne
  <2> QED
    BY <1>3, <1>4, <2>1
<1>9. live' = Sizes(yyvs') /\ Held(Path', yyvs', failures') /\ failures' \in Nat
  BY <1>1, <1>2, <1>7, <1>8
<1> QED
  BY <1>1, <1>9, ValuesReduced

LEMMA ValuesStart == StacksInv /\ ReadsInv /\ ValuesInv /\ ReduceStart => ValuesInv'
<1> SUFFICES ASSUME StacksInv, ReadsInv, ValuesInv, ReduceStart PROVE ValuesInv'
  OBVIOUS
<1>1. /\ Decides /\ Decision = -1 /\ label = "yybackup"
      /\ UNCHANGED <<seen, yychar, yylval, live, failures>>
  BY DEF ReduceStart, Decides, memory
<1>2. /\ Held(yyss, yyvs, failures) /\ live = Sizes(yyvs) /\ failures \in Nat /\ yyresult = -1
      /\ yylval.size = 0
  BY <1>1, ValuesNow
<1>3. Path = yyss /\ yystate = yyss[Len(yyss)] /\ IsSeq(yyvs)
  BY <1>1, StackFacts DEF StacksInv
<1>4. yystate = 5 /\ Len(yyss) = 2 /\ yyss[1] = 0 /\ yyss[2] = 5 /\ Len(yyvs) = 1
  <2>1. Rule(yystate) = 1 /\ yystate \in States
    BY <1>1, Reduced, Decisions
  <2>2. yystate = 5
    BY <2>1 DEF Rule, States
  <2> QED
    BY <1>1, <2>2, StartStack
<1>5. CASE Last(yyvs) = NULL
  <2>1. label' = "yyreturn" /\ yyresult' = 1 /\ UNCHANGED <<yyss, yyvs, yystate, res>>
    BY <1>5 DEF ReduceStart, Return, stacks
  <2>2. Path' = yyss
    BY <2>1 DEF Path
  <2> QED
    BY <1>1, <1>2, <1>4, <2>1, <2>2 DEF ValuesInv
<1>6. CASE Last(yyvs) # NULL
  <2> DEFINE v == Last(yyvs)
  <2>1. Becomes(1, v) /\ res' = v
    BY <1>6 DEF ReduceStart
  <2>2. /\ yystate' = 25 /\ yyresult' = -1
        /\ IsSeq(yyvs') /\ Len(yyvs') = 1 /\ yyvs'[1] = v
        /\ Len(Path') = 2 /\ Path'[2] = 25
    BY <1>1, <1>2, <2>1, Started
  <2>3. v = yyvs[1]
    BY <1>4 DEF Last
  <2>4. yyvs' = yyvs
    <3>1. \A i \in 1..Len(yyvs) : yyvs'[i] = yyvs[i]
      BY <1>4, <2>2, <2>3
    <3> QED
      BY <1>3, <1>4, <2>2, <3>1, SameSeq
  <2>5. Held(Path', yyvs, failures)
    <3> SUFFICES ASSUME NEW i \in 1..Len(yyvs)
                 PROVE  /\ yyvs[i].size \in Nat
                        /\ Path'[i + 1] \in TokenStates => yyvs[i].size = 0
                        /\ Path'[i + 1] \notin TokenStates /\ yyvs[i].size = 0
                             => yyvs[i] = NULL /\ failures # 0
      BY DEF Held
    <3>1. i = 1
      BY <1>4
    <3>2. 25 \notin TokenStates /\ 5 \notin TokenStates
      BY DEF TokenStates
    <3>3. Path'[i + 1] = 25 /\ yyss[i + 1] = 5
      BY <1>4, <2>2, <3>1
    <3> QED
      BY <1>2, <3>2, <3>3 DEF Held
  <2> QED
    BY <1>1, <1>2, <2>1, <2>2, <2>4, <2>5 DEF ValuesInv
<1> QED
  BY <1>5, <1>6

LEMMA ValuesPop == StacksInv /\ ReadsInv /\ ValuesInv /\ PopError => ValuesInv'
<1> SUFFICES ASSUME StacksInv, ReadsInv, ValuesInv, PopError PROVE ValuesInv'
  OBVIOUS
<1>1. /\ label = "yyerrhandle" /\ UNCHANGED <<seen, yychar, yylval, res, live, failures>>
  BY DEF PopError, memory
<1>2. /\ IsPath(yyss) /\ Path = yyss /\ Len(yyss) \in Nat /\ Len(yyss) >= 1
      /\ Len(yyvs) \in Nat /\ Len(yyvs) + 1 = Len(yyss) /\ IsSeq(yyss) /\ IsSeq(yyvs)
      /\ yystate = yyss[Len(yyss)] /\ yyresult = -1
  BY <1>1, StackFacts DEF StacksInv
<1>3. /\ Held(yyss, yyvs, failures) /\ failures \in Nat /\ yylval.size = 0
      /\ Reads(seen).want = "bad"
  BY <1>1, <1>2 DEF ValuesInv, ReadsInv, Refused
<1>4. CASE Len(yyss) = 1
  <2>1. label' = "yyreturn" /\ yyresult' = 1 /\ UNCHANGED <<yyss, yyvs, yystate>>
    BY <1>4 DEF PopError, Return, stacks
  <2>2. Path' = yyss /\ yystate = 0
    BY <1>2, <1>4, <2>1 DEF Path, IsPath
  <2> QED
    BY <1>1, <1>3, <2>1, <2>2 DEF ValuesInv
<1>5. CASE Len(yyss) # 1
  <2>1. /\ yyvs' = Front(yyvs) /\ yyss' = Front(yyss) /\ yystate' = Last(yyss')
        /\ UNCHANGED <<label, yyresult>>
    BY <1>5 DEF PopError
  <2> DEFINE m == Len(yyvs) - 1
             k == Len(yyss) - 1
             P == SubSeq(yyss, 1, k)
             v == SubSeq(yyvs, 1, m)
  <2>2. /\ m \in 0..Len(yyvs) /\ k \in 0..Len(yyss) /\ m + 1 = k
    BY <1>2, <1>5
  <2>3. /\ yyvs' = v /\ Path' = P
    BY <1>1, <2>1 DEF Front, Path
  <2>4. Len(v) = m /\ \A i \in 1..m : v[i] = yyvs[i]
    BY <1>2, <2>2, SeqPrefix
  <2>5. \A i \in 1..k : P[i] = yyss[i]
    BY <1>2, <2>2, SeqPrefix
  <2>6. \A i \in 1..m : i \in 1..Len(yyvs) /\ i + 1 \in 1..k
    BY <1>2, <2>2
  <2> HIDE DEF m, k, P, v
  <2>7. Held(P, v, failures)
    <3> SUFFICES ASSUME NEW i \in 1..m
                 PROVE  /\ v[i].size \in Nat
                        /\ P[i + 1] \in TokenStates => v[i].size = 0
                        /\ P[i + 1] \notin TokenStates /\ v[i].size = 0
                             => v[i] = NULL /\ failures # 0
      BY <2>4 DEF Held
    <3>1. v[i] = yyvs[i] /\ P[i + 1] = yyss[i + 1] /\ i \in 1..Len(yyvs)
      BY <2>4, <2>5, <2>6
    <3> QED
      BY <1>3, <3>1 DEF Held
  <2>8. Held(Path', yyvs', failures')
    BY <1>1, <2>3, <2>7
  <2> QED
    BY <1>1, <1>2, <1>3, <2>1, <2>8 DEF ValuesInv
<1> QED
  BY <1>4, <1>5

LEMMA ValuesOther ==
  StacksInv /\ ReadsInv /\ ValuesInv /\ (PushState \/ ReadToken \/ Accept \/ SyntaxError \/ UNCHANGED vars)
    => ValuesInv'
<1> SUFFICES ASSUME StacksInv, ReadsInv, ValuesInv,
                    PushState \/ ReadToken \/ Accept \/ SyntaxError \/ UNCHANGED vars
             PROVE  ValuesInv'
  OBVIOUS
<1>1. UNCHANGED <<yyvs, yystate, res, live, failures>>
  BY DEF PushState, ReadToken, Accept, SyntaxError, vars, stacks, memory
<1>2. Path' = Path
  <2>1. CASE PushState
    BY <2>1 DEF PushState, Return, Path
  <2>2. CASE ReadToken \/ Accept \/ SyntaxError
    BY <2>2 DEF ReadToken, Accept, SyntaxError, Decides, Return, stacks, Path
  <2>3. CASE UNCHANGED vars
    BY <2>3 DEF vars, stacks, Path
  <2> QED
    BY <2>1, <2>2, <2>3
<1>3. Held(Path', yyvs', failures')
  BY <1>1, <1>2 DEF ValuesInv
<1>4. CASE PushState
  <2>1. label = "yysetstate" /\ label' \in {"yybackup", "yyreturn"} /\ yyresult' \in {yyresult, 2}
        /\ yyresult = -1 /\ UNCHANGED <<seen, yylval>>
    BY <1>4 DEF PushState, Return, StacksInv
  <2> QED
    BY <1>1, <1>3, <2>1 DEF ValuesInv
<1>5. CASE ReadToken
  <2>1. PICK lexeme : yylval' = IF yylex(lexeme).value = NULL THEN yylval ELSE yylex(lexeme).value
    BY <1>5 DEF ReadToken
  <2>2. yylval'.size = 0
    BY <2>1, Lexed DEF WellLexed, ValuesInv
  <2>3. label = "yybackup" /\ label' = label /\ yyresult' = yyresult /\ yyresult = -1
    BY <1>5 DEF ReadToken, StacksInv
  <2> QED
    BY <1>1, <1>3, <2>2, <2>3 DEF ValuesInv
<1>6. CASE Accept
  <2>1. /\ Decides /\ Decision = YYFINAL /\ label = "yybackup" /\ label' = "yyreturn" /\ yyresult' = 0
        /\ UNCHANGED <<seen, yylval>> /\ yyresult = -1
    BY <1>6 DEF Accept, Decides, Return, StacksInv
  <2>2. yystate = 26
    BY <2>1, Accepted
  <2> QED
    BY <1>1, <1>3, <2>1, <2>2 DEF ValuesInv
<1>7. CASE SyntaxError
  <2>1. /\ label = "yybackup" /\ label' = "yyerrhandle" /\ yyresult' = yyresult /\ yyresult = -1
        /\ UNCHANGED <<seen, yylval>>
    BY <1>7 DEF SyntaxError, Decides, StacksInv
  <2> QED
    BY <1>1, <1>3, <2>1 DEF ValuesInv
<1>8. CASE UNCHANGED vars
  <2>1. UNCHANGED <<label, seen, yylval, yyresult>>
    BY <1>8 DEF vars
  <2> QED
    BY <1>1, <1>3, <2>1 DEF ValuesInv
<1> QED
  BY <1>4, <1>5, <1>6, <1>7, <1>8

(* A state made of an expression holds its nodes, any other none; an expression is     *)
(* missing only after malloc failed; and the nodes that live are those that are held.   *)
THEOREM ValuesAreHeld == Spec => []ValuesInv
<1>1. StacksInv /\ ReadsInv /\ ValuesInv /\ [Next]_vars => ValuesInv'
  BY ValuesShift, ValuesBuild, ValuesGroup, ValuesStart, ValuesPop, ValuesOther DEF Next
<1> QED
  BY <1>1, StacksAreAPath, TextIsFollowed, ValuesInit, PTL DEF Spec

(* Whatever is read and whichever mallocs fail, every node is part of a value on the *)
(* stack until a syntax error; what the caller gets is all there is, and nothing is  *)
(* left of a text whose expression could not be built.                               *)
THEOREM EveryNodeIsOwned == Spec => []NodesOwned
<1>1. StacksInv /\ ReadsInv /\ ValuesInv => NodesOwned
  <2> SUFFICES ASSUME StacksInv, ReadsInv, ValuesInv PROVE NodesOwned
    OBVIOUS
  <2>1. label # "yyerrhandle" /\ ~(yyresult = 1 /\ Reads(seen).want = "bad") => live = Sizes(yyvs)
    BY DEF ValuesInv
  <2>2. ASSUME yyresult = 0 PROVE live = res.size
    <3>1. label = "yyreturn" /\ yystate = 26
      BY <2>2 DEF StacksInv, ValuesInv
    <3>2. /\ IsPath(yyss) /\ Path = yyss /\ yystate = yyss[Len(yyss)] /\ Len(yyss) \in Nat
          /\ Len(yyvs) + 1 = Len(yyss) /\ Len(yyss) >= 1 /\ Len(yyvs) \in Nat /\ IsSeq(yyvs)
      BY <3>1, StackFacts DEF StacksInv
    <3> DEFINE k == Len(yyss)
               m == k - 1
               n == Len(yyvs)
    <3>3. k \in 1..Len(yyss)
      BY <3>2
    <3>4. m \in 1..Len(yyss) /\ yyss[m] = 25
      <4>1. m \in 1..Len(yyss) /\ Edge(yyss[m], yyss[k]) /\ yyss[m] \in States
        BY <3>1, <3>2, <3>3, PathBottom
      <4>2. yyss[k] \in States /\ yyss[k] = 26
        BY <3>1, <3>2 DEF States
      <4> QED
        BY <4>1, <4>2, Before
    <3>5. m - 1 = 1
      <4>1. m - 1 \in 1..Len(yyss) /\ Edge(yyss[m - 1], yyss[m]) /\ yyss[m - 1] \in States
        BY <3>2, <3>4, PathBottom
      <4>2. yyss[m] \in States
        BY <3>4 DEF States
      <4>3. yyss[m - 1] = 0
        BY <3>4, <4>1, <4>2, Before
      <4> QED
        BY <3>2, <4>1, <4>3, PathBottom
    <3> HIDE DEF k, m
    <3>6. n = 2 /\ n + 1 = k
      <4>1. m = k - 1 /\ k \in Nat /\ n \in Nat /\ n + 1 = k
        BY <3>2 DEF m, k
      <4> HIDE DEF n
      <4>2. n = 2
        BY <3>5, <4>1
      <4> QED
        BY <4>1, <4>2
    <3>7. Held(yyss, yyvs, failures) /\ res = yyvs[1] /\ live = Sizes(yyvs)
      BY <2>2, <3>1, <3>2 DEF ValuesInv
    <3>8. yyvs[2].size = 0 /\ yyvs[1].size \in Nat
      <4>1. yyss[2 + 1] = 26
        BY <3>1, <3>2, <3>6 DEF k
      <4>2. 26 \in TokenStates
        BY DEF TokenStates
      <4> QED
        BY <3>6, <3>7, <4>1, <4>2 DEF Held
    <3>9. Sizes(yyvs) = yyvs[1].size
      <4>1. PICK f : SizesTo(yyvs, n, f) /\ Sizes(yyvs) = f[n]
        BY <3>2, SizesSteps
      <4>2. f[0] = 0 /\ f[1] = f[0] + yyvs[1].size /\ f[2] = f[1] + yyvs[2].size
        BY <3>6, <4>1 DEF SizesTo
      <4> QED
        BY <3>6, <3>8, <4>1, <4>2
    <3> QED
      BY <3>7, <3>9
  <2>3. ASSUME yyresult = 1, Reads(seen).want = "nothing" PROVE live = 0
    <3>1. yystate = 5 /\ Last(yyvs) = NULL /\ label = "yyreturn"
      BY <2>3 DEF ReadsInv, Refused, StacksInv
    <3>2. Len(yyvs) = 1 /\ IsSeq(yyvs)
      BY <3>1, StartStack DEF StacksInv
    <3>3. yyvs[1].size = 0
      BY <3>1, <3>2 DEF Last, NULL, Value
    <3>4. live = Sizes(yyvs)
      BY <2>1, <2>3, <3>1
    <3>5. PICK f : SizesTo(yyvs, 1, f) /\ Sizes(yyvs) = f[1]
      BY <3>2, SizesSteps
    <3>6. f[0] = 0 /\ f[1] = f[0] + yyvs[1].size
      BY <3>5 DEF SizesTo
    <3> QED
      BY <3>3, <3>4, <3>5, <3>6
  <2> QED
    BY <2>1, <2>2, <2>3 DEF NodesOwned
<1> QED
  BY <1>1, StacksAreAPath, TextIsFollowed, ValuesAreHeld, PTL

-----------------------------------------------------------------------------
(* The phrases of a text: there are more of them with every length, and    *)
(* none is lost when the text goes on.                                     *)

PhrasesTo(s, n, f) ==
    f = [k \in 0..n |->
           IF k = 0 THEN {}
           ELSE f[k - 1] \cup UNION {Made(s, f[k - 1], i, i + k - 1) : i \in 1..(Len(s) + 1 - k)}]

LEMMA PhrasesExist ==
  ASSUME NEW s, NEW n \in Nat
  PROVE  \E f : PhrasesTo(s, n, f)
<1> DEFINE M(f, k) == UNION {Made(s, f[k - 1], i, i + k - 1) : i \in 1..(Len(s) + 1 - k)}
           T == {k \in Nat : \E f : PhrasesTo(s, k, f)}
<1>1. 0 \in T
  <2> DEFINE g == [k \in 0..0 |-> {}]
  <2>1. PhrasesTo(s, 0, g)
    BY DEF PhrasesTo
  <2> QED
    BY <2>1
<1>2. ASSUME NEW m \in Nat, m \in T PROVE m + 1 \in T
  <2>1. PICK f : PhrasesTo(s, m, f)
    BY <1>2
  <2> DEFINE step == f[m] \cup UNION {Made(s, f[m], i, i + (m + 1) - 1) : i \in 1..(Len(s) + 1 - (m + 1))}
             g == [k \in 0..(m + 1) |-> IF k = m + 1 THEN step ELSE f[k]]
  <2>2. \A k \in 0..m : g[k] = f[k]
    BY DEF step
  <2>3. g[m + 1] = step
    OBVIOUS
  <2>4. DOMAIN g = 0..(m + 1) /\ g = [k \in 0..(m + 1) |-> g[k]]
    OBVIOUS
  <2> HIDE DEF g
  <2>5. g[0] = {}
    <3>1. 0 \in 0..m
      OBVIOUS
    <3>2. f[0] = {}
      BY <2>1, <3>1 DEF PhrasesTo
    <3> QED
      BY <2>2, <3>1, <3>2
  <2>6. ASSUME NEW k \in 0..(m + 1), k # 0
        PROVE  g[k] = g[k - 1] \cup M(g, k)
    <3>1. CASE k = m + 1
      <4>1. k - 1 = m /\ g[m] = f[m]
        BY <2>2, <3>1
      <4> QED
        BY <2>3, <3>1, <4>1
    <3>2. CASE k # m + 1
      <4>1. k \in 0..m /\ k - 1 \in 0..m
        BY <2>6, <3>2
      <4>2. f[k] = f[k - 1] \cup M(f, k)
        BY <2>1, <2>6, <4>1 DEF PhrasesTo
      <4>3. g[k] = f[k] /\ g[k - 1] = f[k - 1]
        BY <2>2, <4>1
      <4> QED
        BY <4>2, <4>3
    <3> QED
      BY <3>1, <3>2
  <2>7. \A k \in 0..(m + 1) : g[k] = IF k = 0 THEN {} ELSE g[k - 1] \cup M(g, k)
    BY <2>5, <2>6
  <2>8. g = [k \in 0..(m + 1) |-> IF k = 0 THEN {} ELSE g[k - 1] \cup M(g, k)]
    <3> HIDE DEF M
    <3> QED
      BY <2>4, <2>7
  <2>9. PhrasesTo(s, m + 1, g)
    BY <2>8 DEF PhrasesTo
  <2> QED
    BY <2>9
<1>3. n \in T
  <2> HIDE DEF T
  <2> QED
    BY <1>1, <1>2, Induction
<1> QED
  BY <1>3

LEMMA PhrasesSteps ==
  ASSUME NEW s, IsSeq(s)
  PROVE  /\ Phrases(s)[0] = {}
         /\ \A n \in 1..Len(s) :
              Phrases(s)[n] = Phrases(s)[n - 1]
                \cup UNION {Made(s, Phrases(s)[n - 1], i, i + n - 1) : i \in 1..(Len(s) + 1 - n)}
<1>1. Len(s) \in Nat
  BY SeqFacts
<1>2. \E f : PhrasesTo(s, Len(s), f)
  BY <1>1, PhrasesExist
<1> DEFINE upto == CHOOSE f :
              f = [n \in 0..Len(s) |->
                     IF n = 0 THEN {}
                     ELSE f[n - 1] \cup UNION {Made(s, f[n - 1], i, i + n - 1) : i \in 1..(Len(s) + 1 - n)}]
<1>3. PhrasesTo(s, Len(s), upto)
  BY <1>2 DEF PhrasesTo
<1>4. Phrases(s) = upto
  BY DEF Phrases
<1> HIDE DEF upto
<1> DEFINE f == Phrases(s)
           N == Len(s)
<1>5. PhrasesTo(s, N, f)
  BY <1>3, <1>4
<1>6. 0 \in 0..N /\ \A n \in 1..N : n \in 0..N /\ n # 0
  BY <1>1
<1> HIDE DEF f
<1>7. f[0] = {}
  BY <1>5, <1>6 DEF PhrasesTo
<1>8. ASSUME NEW n \in 1..N
      PROVE  f[n] = f[n - 1] \cup UNION {Made(s, f[n - 1], i, i + n - 1) : i \in 1..(N + 1 - n)}
  BY <1>5, <1>6 DEF PhrasesTo
<1> QED
  BY <1>7, <1>8 DEF f

LEMMA PhrasesGrow ==
  ASSUME NEW s, IsSeq(s), NEW n \in 0..Len(s), NEW m \in n..Len(s)
  PROVE  Phrases(s)[n] \subseteq Phrases(s)[m]
<1>1. Len(s) \in Nat /\ n \in Nat /\ m \in Nat /\ n <= m /\ m <= Len(s)
  BY SeqFacts
<1> DEFINE T == {k \in Nat : n <= k /\ k <= Len(s) => Phrases(s)[n] \subseteq Phrases(s)[k]}
<1>2. 0 \in T
  <2>1. n <= 0 => n = 0
    BY <1>1
  <2> QED
    BY <2>1
<1>3. ASSUME NEW k \in Nat, k \in T PROVE k + 1 \in T
  <2> SUFFICES ASSUME n <= k + 1, k + 1 <= Len(s)
               PROVE  Phrases(s)[n] \subseteq Phrases(s)[k + 1]
    OBVIOUS
  <2>1. CASE n = k + 1
    BY <2>1
  <2>2. CASE n # k + 1
    <3>1. n <= k /\ k <= Len(s) /\ k + 1 \in 1..Len(s) /\ (k + 1) - 1 = k
      BY <1>1, <2>2
    <3>2. Phrases(s)[k] \subseteq Phrases(s)[k + 1]
      BY <3>1, PhrasesSteps
    <3>3. Phrases(s)[n] \subseteq Phrases(s)[k]
      BY <1>3, <3>1
    <3> QED
      BY <3>2, <3>3
  <2> QED
    BY <2>1, <2>2
<1>4. m \in T
  <2> HIDE DEF T
  <2> QED
    BY <1>1, <1>2, <1>3, Induction
<1> QED
  BY <1>1, <1>4

LEMMA MadeGrows ==
  ASSUME NEW s, NEW t, NEW i \in Int, NEW j \in Int, i <= j,
         \A k \in i..j : t[k] = s[k],
         NEW D, NEW E, D \subseteq E
  PROVE  Made(s, D, i, j) \subseteq Made(t, E, i, j)
<1>1. i \in i..j /\ j \in i..j
  OBVIOUS
<1>2. t[i] = s[i] /\ t[j] = s[j]
  BY <1>1
<1>3. \A x, y, l : Between(D, x, y, l) \subseteq Between(E, x, y, l)
  BY DEF Between
<1>4. Atoms(s, i, j) = Atoms(t, i, j)
  BY <1>2 DEF Atoms
<1>5. Brackets(s, D, i, j) \subseteq Brackets(t, E, i, j)
  BY <1>2, <1>3 DEF Brackets
<1>6. Negations(s, D, i, j) \subseteq Negations(t, E, i, j)
  BY <1>2, <1>3 DEF Negations
<1>7. Conditionals(s, D, i, j) \subseteq Conditionals(t, E, i, j)
  <2> DEFINE Splits(u) == {c \in (i..j) \X (i..j) : u[c[1]].token = "?" /\ u[c[2]].token = ":"}
             New(p, q, r) == Phrase(i, j, 1, Node("qmop", 0, <<p.tree, q.tree, r.tree>>))
             At3(B, c) == {New(p, q, r) : p \in Between(B, i, c[1] - 1, 2),
                             q \in Between(B, c[1] + 1, c[2] - 1, 1), r \in Between(B, c[2] + 1, j, 1)}
  <2>1. Splits(s) = Splits(t)
    OBVIOUS
  <2>2. /\ Conditionals(s, D, i, j) = UNION {At3(D, c) : c \in Splits(s)}
        /\ Conditionals(t, E, i, j) = UNION {At3(E, c) : c \in Splits(t)}
    BY DEF Conditionals
  <2> HIDE DEF New
  <2>3. \A c : At3(D, c) \subseteq At3(E, c)
    BY <1>3
  <2> HIDE DEF At3, Splits
  <2> QED
    BY <2>1, <2>2, <2>3
<1>8. ASSUME NEW l \in 2..7 PROVE Binaries(s, D, i, j, l) \subseteq Binaries(t, E, i, j, l)
  <2> DEFINE New(o, p, q) == Phrase(i, j, l, Node(OpOf(o), 0, <<p.tree, q.tree>>))
             At2(u, B, m) == {New(u[m], p, q) : p \in Between(B, i, m - 1, l),
                                q \in Between(B, m + 1, j, l + 1)}
             Splits(u) == {m \in i..j : u[m].token = Levels[l]}
  <2>1. Splits(s) = Splits(t)
    OBVIOUS
  <2>2. /\ Binaries(s, D, i, j, l) = UNION {At2(s, D, m) : m \in Splits(s)}
        /\ Binaries(t, E, i, j, l) = UNION {At2(t, E, m) : m \in Splits(t)}
    BY DEF Binaries
  <2> HIDE DEF New
  <2>3. ASSUME NEW m \in i..j PROVE At2(s, D, m) \subseteq At2(t, E, m)
    <3>1. t[m] = s[m]
      OBVIOUS
    <3> QED
      BY <1>3, <3>1
  <2>4. Splits(s) \subseteq i..j
    OBVIOUS
  <2> HIDE DEF At2, Splits
  <2> QED
    BY <2>1, <2>2, <2>3, <2>4
<1> QED
  BY <1>4, <1>5, <1>6, <1>7, <1>8 DEF Made

LEMMA PhrasesExtend ==
  ASSUME NEW s, IsSeq(s), NEW e, NEW n \in 0..Len(s)
  PROVE  Phrases(s)[n] \subseteq Phrases(Append(s, e))[n]
<1> DEFINE t == Append(s, e)
           N == Len(s)
<1>1. N \in Nat /\ IsSeq(t) /\ Len(t) = N + 1 /\ \A k \in 1..N : t[k] = s[k]
  BY SeqAppend, SeqFacts
<1> DEFINE F == Phrases(s)
           G == Phrases(t)
<1>2. /\ F[0] = {}
      /\ \A k \in 1..N : F[k] = F[k - 1] \cup UNION {Made(s, F[k - 1], i, i + k - 1) : i \in 1..(N + 1 - k)}
  BY PhrasesSteps
<1> HIDE DEF t
<1>3. \A k \in 1..Len(t) :
        G[k] = G[k - 1] \cup UNION {Made(t, G[k - 1], i, i + k - 1) : i \in 1..(Len(t) + 1 - k)}
  BY <1>1, PhrasesSteps
<1> HIDE DEF F, G, N
<1> DEFINE T == {k \in Nat : k <= N => F[k] \subseteq G[k]}
<1>4. 0 \in T
  BY <1>2
<1>5. ASSUME NEW k \in Nat, k \in T PROVE k + 1 \in T
  <2> SUFFICES ASSUME k + 1 <= N PROVE F[k + 1] \subseteq G[k + 1]
    OBVIOUS
  <2> DEFINE h == k + 1
  <2>1. h \in 1..N /\ h \in 1..Len(t) /\ h - 1 = k /\ k <= N
    BY <1>1
  <2>2. F[k] \subseteq G[k]
    BY <1>5, <2>1
  <2> HIDE DEF h
  <2>3. F[h] = F[k] \cup UNION {Made(s, F[k], i, i + h - 1) : i \in 1..(N + 1 - h)}
    BY <1>2, <2>1
  <2>4. G[h] = G[k] \cup UNION {Made(t, G[k], i, i + h - 1) : i \in 1..(Len(t) + 1 - h)}
    BY <1>3, <2>1
  <2>5. ASSUME NEW i \in 1..(N + 1 - h)
        PROVE  /\ i \in 1..(Len(t) + 1 - h)
               /\ Made(s, F[k], i, i + h - 1) \subseteq Made(t, G[k], i, i + h - 1)
    <3> DEFINE j == i + h - 1
    <3>1. /\ i \in Int /\ j \in Int /\ i <= j /\ i \in 1..(Len(t) + 1 - h)
          /\ \A m \in i..j : m \in 1..N
      BY <1>1, <2>1
    <3> HIDE DEF j
    <3>2. \A m \in i..j : t[m] = s[m]
      BY <1>1, <3>1
    <3>3. Made(s, F[k], i, j) \subseteq Made(t, G[k], i, j)
      BY <2>2, <3>1, <3>2, MadeGrows
    <3> QED
      BY <3>1, <3>3 DEF j
  <2>6. F[h] \subseteq G[h]
    BY <2>2, <2>3, <2>4, <2>5
  <2> QED
    BY <2>6 DEF h
<1>6. n \in T
  <2>1. n \in Nat /\ n <= N
    BY <1>1 DEF N
  <2> HIDE DEF T
  <2> QED
    BY <1>4, <1>5, <2>1, Induction
<1>7. F[n] \subseteq G[n]
  BY <1>1, <1>6 DEF N
<1> QED
  BY <1>7 DEF F, G, t

(* The tokens from i to j of s are an exp of this level, which means tree. *)
Derived(s, i, j, l, tree) ==
    /\ i \in 1..Len(s) /\ j \in i..Len(s) /\ l \in 1..9
    /\ Phrase(i, j, l, tree) \in Phrases(s)[j + 1 - i]

LEMMA DerivedAppend ==
  ASSUME NEW s, IsSeq(s), NEW e, NEW i, NEW j, NEW l, NEW tree, Derived(s, i, j, l, tree)
  PROVE  Derived(Append(s, e), i, j, l, tree)
<1>1. Len(s) \in Nat /\ Len(Append(s, e)) = Len(s) + 1
  BY SeqAppend, SeqFacts
<1>2. i \in 1..Len(s) /\ j \in i..Len(s) /\ l \in 1..9 /\ Phrase(i, j, l, tree) \in Phrases(s)[j + 1 - i]
  BY DEF Derived
<1>3. j + 1 - i \in 0..Len(s) /\ i \in 1..(Len(s) + 1) /\ j \in i..(Len(s) + 1)
  BY <1>1, <1>2
<1>4. Phrases(s)[j + 1 - i] \subseteq Phrases(Append(s, e))[j + 1 - i]
  BY <1>3, PhrasesExtend
<1> QED
  BY <1>1, <1>2, <1>3, <1>4 DEF Derived

LEMMA DerivedBetween ==
  ASSUME NEW s, IsSeq(s), NEW i, NEW j, NEW l, NEW tree, Derived(s, i, j, l, tree),
         NEW n \in (j + 1 - i)..Len(s), NEW k \in Int, l >= k
  PROVE  Phrase(i, j, l, tree) \in Between(Phrases(s)[n], i, j, k)
<1>1. Len(s) \in Nat
  BY SeqFacts
<1>2. i \in 1..Len(s) /\ j \in i..Len(s) /\ l \in 1..9 /\ Phrase(i, j, l, tree) \in Phrases(s)[j + 1 - i]
  BY DEF Derived
<1>3. j + 1 - i \in 0..Len(s)
  BY <1>1, <1>2
<1>4. Phrases(s)[j + 1 - i] \subseteq Phrases(s)[n]
  BY <1>3, PhrasesGrow
<1> QED
  BY <1>2, <1>4 DEF Between, Phrase

LEMMA DerivedMade ==
  ASSUME NEW s, IsSeq(s), NEW i \in 1..Len(s), NEW j \in i..Len(s), NEW l \in 1..9, NEW tree,
         Phrase(i, j, l, tree) \in Made(s, Phrases(s)[j - i], i, j)
  PROVE  Derived(s, i, j, l, tree)
<1> DEFINE n == j + 1 - i
<1>1. Len(s) \in Nat
  BY SeqFacts
<1>2. n \in 1..Len(s) /\ n - 1 = j - i /\ i + n - 1 = j /\ i \in 1..(Len(s) + 1 - n)
  BY <1>1
<1> HIDE DEF n
<1>3. Phrases(s)[n] = Phrases(s)[n - 1]
        \cup UNION {Made(s, Phrases(s)[n - 1], k, k + n - 1) : k \in 1..(Len(s) + 1 - n)}
  BY <1>2, PhrasesSteps
<1>4. Made(s, Phrases(s)[n - 1], i, i + n - 1) \subseteq Phrases(s)[n]
  BY <1>2, <1>3
<1>5. Phrase(i, j, l, tree) \in Phrases(s)[n]
  BY <1>2, <1>4
<1> QED
  BY <1>5 DEF Derived, n

(* The rules of the grammar, one by one. *)
LEMMA DeriveAtom ==
  ASSUME NEW s, IsSeq(s), NEW i \in 1..Len(s)
  PROVE  /\ s[i].token = "n" => Derived(s, i, i, 9, Node("var", 0, <<>>))
         /\ s[i].token = "NUMBER" => Derived(s, i, i, 9, Node("num", s[i].value.num, <<>>))
<1>1. i \in i..Len(s)
  BY SeqFacts
<1>2. s[i].token = "n" =>
        Phrase(i, i, 9, Node("var", 0, <<>>)) \in Made(s, Phrases(s)[i - i], i, i)
  BY DEF Made, Atoms
<1>3. s[i].token = "NUMBER" =>
        Phrase(i, i, 9, Node("num", s[i].value.num, <<>>)) \in Made(s, Phrases(s)[i - i], i, i)
  BY DEF Made, Atoms
<1> QED
  BY <1>1, <1>2, <1>3, DerivedMade

LEMMA DeriveBrackets ==
  ASSUME NEW s, IsSeq(s), NEW i \in 1..Len(s), NEW j \in i..Len(s), NEW l, NEW tree,
         s[i].token = "(", s[j].token = ")", Derived(s, i + 1, j - 1, l, tree)
  PROVE  Derived(s, i, j, 9, tree)
<1>1. Len(s) \in Nat
  BY SeqFacts
<1> DEFINE D == Phrases(s)[j - i]
<1>2. j - i \in ((j - 1) + 1 - (i + 1))..Len(s) /\ l >= 1
  <2>1. l \in 1..9
    BY DEF Derived
  <2> QED
    BY <1>1, <2>1
<1>3. Phrase(i + 1, j - 1, l, tree) \in Between(D, i + 1, j - 1, 1)
  BY <1>2, DerivedBetween
<1>4. Phrase(i + 1, j - 1, l, tree).tree = tree
  BY DEF Phrase
<1> HIDE DEF D
<1>5. Phrase(i, j, 9, tree) \in {Phrase(i, j, 9, p.tree) : p \in Between(D, i + 1, j - 1, 1)}
  BY <1>3, <1>4
<1>6. Phrase(i, j, 9, tree) \in Made(s, D, i, j)
  BY <1>5 DEF Brackets, Made
<1> QED
  BY <1>6, DerivedMade DEF D

LEMMA DeriveNegation ==
  ASSUME NEW s, IsSeq(s), NEW i \in 1..Len(s), NEW j \in i..Len(s), NEW l, NEW tree,
         s[i].token = "!", Derived(s, i + 1, j, l, tree), l >= 8
  PROVE  Derived(s, i, j, 8, Node("lnot", 0, <<tree>>))
<1>1. Len(s) \in Nat
  BY SeqFacts
<1> DEFINE D == Phrases(s)[j - i]
           New(x) == Phrase(i, j, 8, Node("lnot", 0, <<x>>))
<1>2. j - i \in (j + 1 - (i + 1))..Len(s)
  BY <1>1
<1>3. Phrase(i + 1, j, l, tree) \in Between(D, i + 1, j, 8)
  BY <1>2, DerivedBetween
<1>4. Phrase(i + 1, j, l, tree).tree = tree
  BY DEF Phrase
<1> HIDE DEF D, New
<1>5. New(tree) \in {New(p.tree) : p \in Between(D, i + 1, j, 8)}
  BY <1>3, <1>4
<1>6. New(tree) \in Made(s, D, i, j)
  BY <1>5 DEF Negations, Made, New
<1> QED
  BY <1>6, DerivedMade DEF D, New

LEMMA DeriveConditional ==
  ASSUME NEW s, IsSeq(s), NEW i \in 1..Len(s), NEW j \in i..Len(s),
         NEW m \in i..j, NEW n \in i..j, s[m].token = "?", s[n].token = ":",
         NEW k, NEW x, Derived(s, i, m - 1, k, x), k >= 2,
         NEW l, NEW y, Derived(s, m + 1, n - 1, l, y),
         NEW h, NEW z, Derived(s, n + 1, j, h, z)
  PROVE  Derived(s, i, j, 1, Node("qmop", 0, <<x, y, z>>))
<1>1. Len(s) \in Nat /\ m \in Int /\ n \in Int /\ l \in 1..9 /\ h \in 1..9 /\ k \in 1..9
  BY SeqFacts DEF Derived
<1> DEFINE D == Phrases(s)[j - i]
           New(a, b, c) == Phrase(i, j, 1, Node("qmop", 0, <<a, b, c>>))
           c == <<m, n>>
<1>2. /\ i \in Int /\ j \in Int /\ i >= 1 /\ j <= Len(s)
      /\ i <= m /\ m <= j /\ i <= n /\ n <= j
  BY <1>1
<1>3. /\ Phrase(i, m - 1, k, x) \in Between(D, i, m - 1, 2)
      /\ Phrase(m + 1, n - 1, l, y) \in Between(D, m + 1, n - 1, 1)
      /\ Phrase(n + 1, j, h, z) \in Between(D, n + 1, j, 1)
  <2>1. j - i \in ((m - 1) + 1 - i)..Len(s)
    BY <1>1, <1>2
  <2>i. j - i \in Int /\ j - i <= Len(s) /\ n - 1 + 1 - (m + 1) = n - m - 1
    BY <1>1, <1>2
  <2>j. n - m - 1 \in Int /\ n - m - 1 <= j - i
    BY <1>1, <1>2
  <2>2. j - i \in ((n - 1) + 1 - (m + 1))..Len(s)
    BY <1>1, <2>i, <2>j
  <2>3. j - i \in (j + 1 - (n + 1))..Len(s)
    BY <1>1, <1>2
  <2>4. Phrase(i, m - 1, k, x) \in Between(D, i, m - 1, 2)
    <3> DEFINE e == m - 1
    <3>1. j - i \in (e + 1 - i)..Len(s) /\ Derived(s, i, e, k, x) /\ 2 \in Int
      BY <2>1
    <3> HIDE DEF e
    <3>2. Phrase(i, e, k, x) \in Between(D, i, e, 2)
      BY <3>1, DerivedBetween
    <3> QED
      BY <3>2 DEF e
  <2>n. l >= 1 /\ h >= 1 /\ 1 \in Int
    BY <1>1
  <2>5. Phrase(m + 1, n - 1, l, y) \in Between(D, m + 1, n - 1, 1)
    BY <2>n, <2>2, DerivedBetween
  <2>6. Phrase(n + 1, j, h, z) \in Between(D, n + 1, j, 1)
    BY <2>n, <2>3, DerivedBetween
  <2> QED
    BY <2>4, <2>5, <2>6
<1>4. /\ Phrase(i, m - 1, k, x).tree = x /\ Phrase(m + 1, n - 1, l, y).tree = y
      /\ Phrase(n + 1, j, h, z).tree = z
  BY DEF Phrase
<1>5. c \in {d \in (i..j) \X (i..j) : s[d[1]].token = "?" /\ s[d[2]].token = ":"} /\ c[1] = m /\ c[2] = n
  OBVIOUS
<1> HIDE DEF D, New, c
<1>6. New(x, y, z) \in {New(p.tree, q.tree, r.tree) : p \in Between(D, i, c[1] - 1, 2),
                          q \in Between(D, c[1] + 1, c[2] - 1, 1), r \in Between(D, c[2] + 1, j, 1)}
  BY <1>3, <1>4, <1>5
<1>7. New(x, y, z) \in Conditionals(s, D, i, j)
  <2> DEFINE At3(d) == {New(p.tree, q.tree, r.tree) : p \in Between(D, i, d[1] - 1, 2),
                          q \in Between(D, d[1] + 1, d[2] - 1, 1), r \in Between(D, d[2] + 1, j, 1)}
             Splits == {d \in (i..j) \X (i..j) : s[d[1]].token = "?" /\ s[d[2]].token = ":"}
  <2>1. Conditionals(s, D, i, j) = UNION {At3(d) : d \in Splits}
    BY DEF Conditionals, New
  <2>2. New(x, y, z) \in At3(c) /\ c \in Splits
    BY <1>5, <1>6
  <2> HIDE DEF At3, Splits
  <2> QED
    BY <2>1, <2>2
<1>8. New(x, y, z) \in Made(s, D, i, j)
  BY <1>7 DEF Made
<1> QED
  BY <1>8, DerivedMade DEF D, New

LEMMA DeriveBinary ==
  ASSUME NEW s, IsSeq(s), NEW i \in 1..Len(s), NEW j \in i..Len(s), NEW level \in 2..7,
         NEW m \in i..j, s[m].token = Levels[level],
         NEW k, NEW x, Derived(s, i, m - 1, k, x), k >= level,
         NEW l, NEW y, Derived(s, m + 1, j, l, y), l >= level + 1
  PROVE  Derived(s, i, j, level, Node(OpOf(s[m]), 0, <<x, y>>))
<1>1. Len(s) \in Nat /\ m \in Int /\ l \in 1..9 /\ k \in 1..9
  BY SeqFacts DEF Derived
<1> DEFINE D == Phrases(s)[j - i]
           New(a, b) == Phrase(i, j, level, Node(OpOf(s[m]), 0, <<a, b>>))
<1>2. j - i \in ((m - 1) + 1 - i)..Len(s) /\ j - i \in (j + 1 - (m + 1))..Len(s)
  BY <1>1
<1>3. /\ Phrase(i, m - 1, k, x) \in Between(D, i, m - 1, level)
      /\ Phrase(m + 1, j, l, y) \in Between(D, m + 1, j, level + 1)
  <2>n. level \in Int /\ level + 1 \in Int
    OBVIOUS
  <2>1. Phrase(i, m - 1, k, x) \in Between(D, i, m - 1, level)
    <3>1. j - i \in ((m - 1) + 1 - i)..Len(s)
      BY <1>2
    <3> QED
      BY <2>n, <3>1, DerivedBetween
  <2>2. Phrase(m + 1, j, l, y) \in Between(D, m + 1, j, level + 1)
    <3>1. j - i \in (j + 1 - (m + 1))..Len(s)
      BY <1>2
    <3> QED
      BY <2>n, <3>1, DerivedBetween
  <2> QED
    BY <2>1, <2>2
<1>4. Phrase(i, m - 1, k, x).tree = x /\ Phrase(m + 1, j, l, y).tree = y
  BY DEF Phrase
<1> HIDE DEF D, New
<1>5. New(x, y) \in {New(p.tree, q.tree) : p \in Between(D, i, m - 1, level),
                       q \in Between(D, m + 1, j, level + 1)}
  BY <1>3, <1>4
<1>6. New(x, y) \in Binaries(s, D, i, j, level)
  <2> DEFINE Tree(o, p, q) == Phrase(i, j, level, Node(OpOf(o), 0, <<p.tree, q.tree>>))
             At2(d) == {Tree(s[d], p, q) : p \in Between(D, i, d - 1, level),
                          q \in Between(D, d + 1, j, level + 1)}
             Splits == {d \in i..j : s[d].token = Levels[level]}
  <2>1. Binaries(s, D, i, j, level) = UNION {At2(d) : d \in Splits}
    BY DEF Binaries
  <2>2. \A p, q : Tree(s[m], p, q) = New(p.tree, q.tree)
    BY DEF New
  <2> HIDE DEF Tree
  <2>3. New(x, y) \in At2(m) /\ m \in Splits
    BY <1>5, <2>2
  <2> HIDE DEF At2, Splits
  <2> QED
    BY <2>1, <2>3
<1>7. New(x, y) \in Made(s, D, i, j)
  BY <1>6 DEF Made
<1>8. level \in 1..9
  OBVIOUS
<1> QED
  BY <1>7, <1>8, DerivedMade DEF D, New

-----------------------------------------------------------------------------
(* Every value on the stack is what the grammar makes of its part of the   *)
(* text: b tells where the parts end.  Own(q, l): an expression of level l *)
(* may be the operand that state q follows.  Fits(l, c): it may stand      *)
(* before the token c; when none has been read, before any.                *)

Fits(l, c) == /\ c = YYEMPTY => l >= 7
              /\ c = "?" => l >= 2
              /\ \A m \in 2..7 : c = Levels[m] => l >= m
Own(q, l) == l >= 1 /\ (q = 6 => l >= 8) /\ (q \in 17..22 => l >= q - 14)
TokenAt(q, v, s, x, y) == /\ y = x + 1 /\ y \in 1..Len(s) /\ s[y].token = Symbol(q)
                          /\ q \in ({2} \cup (11..14)) => v = s[y].value
ExpAt(q, c, v, s, x, y) ==
    v # NULL => \E l \in 1..9 : Derived(s, x + 1, y, l, v) /\ Own(q, l) /\ Fits(l, c)
Item(q, c, v, s, x, y) == /\ q \in TokenStates => TokenAt(q, v, s, x, y)
                          /\ q \notin TokenStates => ExpAt(q, c, v, s, x, y)
Following(P, i, c) == IF i <= Len(P) THEN Symbol(P[i]) ELSE c
Placed(P, v, s, c, b) ==
    /\ b[1] = 0 /\ b[Len(P)] = Len(s)
    /\ \A i \in 1..Len(P) : b[i] \in 0..Len(s)
    /\ \A i \in 1..Len(v) : Item(P[i + 1], Following(P, i + 2, c), v[i], s, b[i], b[i + 1])

LEMMA LevelNames == /\ Levels[2] = "|" /\ Levels[3] = "&" /\ Levels[4] = "EQUOP2"
                    /\ Levels[5] = "CMPOP2" /\ Levels[6] = "ADDOP2" /\ Levels[7] = "MULOP2"
BY DEF Levels

LEMMA FitsAll == \A l \in 7..9 : \A c : Fits(l, c)
BY DEF Fits

LEMMA ItemAppend ==
  ASSUME NEW s, IsSeq(s), NEW e, NEW x, NEW y, NEW q, NEW c, NEW v, Item(q, c, v, s, x, y)
  PROVE  Item(q, c, v, Append(s, e), x, y)
<1> DEFINE t == Append(s, e)
<1>1. Len(t) = Len(s) + 1 /\ Len(s) \in Nat /\ \A i \in 1..Len(s) : t[i] = s[i]
  BY SeqAppend, SeqFacts
<1>2. \A l, i, j : Derived(s, i, j, l, v) => Derived(t, i, j, l, v)
  BY DerivedAppend
<1> HIDE DEF t
<1>3. TokenAt(q, v, s, x, y) => TokenAt(q, v, t, x, y)
  BY <1>1 DEF TokenAt
<1>4. ExpAt(q, c, v, s, x, y) => ExpAt(q, c, v, t, x, y)
  BY <1>2 DEF ExpAt
<1>5. Item(q, c, v, t, x, y)
  BY <1>3, <1>4 DEF Item
<1> QED
  BY <1>5 DEF t

(* An expression that may stand before any token. *)
LEMMA ItemRead ==
  ASSUME NEW s, NEW x, NEW y, NEW q, NEW c, NEW v, Item(q, YYEMPTY, v, s, x, y)
  PROVE  Item(q, c, v, s, x, y)
<1>1. ASSUME NEW l \in 1..9, Fits(l, YYEMPTY) PROVE Fits(l, c)
  <2>1. l \in 7..9
    BY <1>1 DEF Fits
  <2> QED
    BY <2>1, FitsAll
<1> QED
  BY <1>1 DEF Item, ExpAt

LEMMA PlacedRead ==
  ASSUME NEW P, IsPath(P), NEW v, Len(v) + 1 = Len(P), NEW s, NEW b, NEW c,
         Placed(P, v, s, YYEMPTY, b)
  PROVE  Placed(P, v, s, c, b)
<1>1. ASSUME NEW i \in 1..Len(v)
      PROVE  Item(P[i + 1], Following(P, i + 2, c), v[i], s, b[i], b[i + 1])
  <2>1. Item(P[i + 1], Following(P, i + 2, YYEMPTY), v[i], s, b[i], b[i + 1])
    BY DEF Placed
  <2>2. CASE i + 2 <= Len(P)
    BY <2>1, <2>2 DEF Following
  <2>3. CASE ~(i + 2 <= Len(P))
    BY <2>1, <2>3, ItemRead DEF Following
  <2> QED
    BY <2>2, <2>3
<1> QED
  BY <1>1 DEF Placed

LEMMA PlacedShift ==
  ASSUME NEW P, IsPath(P), NEW v, IsSeq(v), Len(v) + 1 = Len(P), NEW s, IsSeq(s), NEW c,
         NEW b, Placed(P, v, s, c, b),
         NEW q \in TokenStates, Symbol(q) = c, NEW t, t.token = c,
         NEW x, q \in ({2} \cup (11..14)) => x = t.value
  PROVE  \E u : Placed(Append(P, q), Append(v, x), Append(s, t), YYEMPTY, u)
<1> DEFINE n == Len(v)
           e == Len(s)
           Q == Append(P, q)
           w == Append(v, x)
           z == Append(s, t)
           u == [i \in 1..(n + 2) |-> IF i = n + 2 THEN e + 1 ELSE b[i]]
<1>1. /\ n \in Nat /\ Len(P) = n + 1 /\ Len(Q) = n + 2 /\ Q[n + 2] = q
      /\ \A i \in 1..(n + 1) : Q[i] = P[i]
  <2>1. Len(P) \in Nat /\ n \in Nat /\ IsSeq(P)
    BY SeqFacts DEF IsPath
  <2>2. Len(Q) = Len(P) + 1 /\ Q[Len(P) + 1] = q /\ \A i \in 1..Len(P) : Q[i] = P[i]
    BY <2>1, SeqAppend
  <2>3. Len(P) = n + 1 /\ Len(P) + 1 = n + 2
    BY <2>1
  <2> HIDE DEF n, Q
  <2> QED
    BY <2>1, <2>2, <2>3
<1>2. Len(w) = n + 1 /\ w[n + 1] = x /\ \A i \in 1..n : w[i] = v[i]
  BY SeqAppend
<1>3. e \in Nat /\ Len(z) = e + 1 /\ z[e + 1] = t /\ \A i \in 1..e : z[i] = s[i]
  BY SeqAppend, SeqFacts
<1>4. /\ b[1] = 0 /\ b[n + 1] = e /\ \A i \in 1..(n + 1) : b[i] \in 0..e
      /\ \A i \in 1..n : Item(P[i + 1], Following(P, i + 2, c), v[i], s, b[i], b[i + 1])
  BY <1>1 DEF Placed
<1>5. \A i : \A k : Item(P[i + 1], k, v[i], s, b[i], b[i + 1]) => Item(P[i + 1], k, v[i], z, b[i], b[i + 1])
  BY ItemAppend
<1> HIDE DEF n, e, Q, w, z
<1>6. /\ u[n + 2] = e + 1 /\ \A i \in 1..(n + 1) : u[i] = b[i]
  BY <1>1
<1> HIDE DEF u
<1>7. ASSUME NEW i \in 1..n
      PROVE  Item(Q[i + 1], Following(Q, i + 2, YYEMPTY), w[i], z, u[i], u[i + 1])
  <2>1. i \in 1..(n + 1) /\ i + 1 \in 1..(n + 1) /\ i + 2 <= Len(Q)
    BY <1>1
  <2>2. Following(Q, i + 2, YYEMPTY) = Following(P, i + 2, c)
    <3>1. CASE i + 2 <= Len(P)
      <4>1. i + 2 \in 1..(n + 1)
        BY <1>1, <3>1
      <4> QED
        BY <1>1, <2>1, <3>1, <4>1 DEF Following
    <3>2. CASE ~(i + 2 <= Len(P))
      <4>1. i + 2 = n + 2
        BY <1>1, <3>2
      <4> QED
        BY <1>1, <2>1, <3>2, <4>1 DEF Following
    <3> QED
      BY <3>1, <3>2
  <2>3. Item(P[i + 1], Following(P, i + 2, c), v[i], z, b[i], b[i + 1])
    BY <1>4, <1>5
  <2> QED
    BY <1>1, <1>2, <1>6, <2>1, <2>2, <2>3
<1>8. Item(Q[n + 2], Following(Q, n + 3, YYEMPTY), w[n + 1], z, u[n + 1], u[n + 2])
  <2>1. n + 1 \in 1..(n + 1) /\ u[n + 1] = e
    BY <1>1, <1>4, <1>6
  <2>2. TokenAt(q, x, z, e, e + 1)
    BY <1>3 DEF TokenAt
  <2> QED
    BY <1>1, <1>2, <1>6, <2>1, <2>2 DEF Item
<1>9. \A i \in 1..(n + 1) : Item(Q[i + 1], Following(Q, i + 2, YYEMPTY), w[i], z, u[i], u[i + 1])
  <2>1. (n + 1) + 1 = n + 2 /\ (n + 1) + 2 = n + 3
    BY <1>1
  <2> SUFFICES ASSUME NEW i \in 1..(n + 1)
               PROVE  Item(Q[i + 1], Following(Q, i + 2, YYEMPTY), w[i], z, u[i], u[i + 1])
    OBVIOUS
  <2>2. i \in 1..n \/ i = n + 1
    BY <1>1
  <2> QED
    BY <1>7, <1>8, <2>1, <2>2
<1>10. u[1] = 0 /\ \A i \in 1..(n + 2) : u[i] \in 0..(e + 1)
  <2> SUFFICES ASSUME NEW i \in 1..(n + 2) PROVE u[1] = 0 /\ u[i] \in 0..(e + 1)
    BY <1>1
  <2>1. CASE i = n + 2
    BY <1>1, <1>3, <1>4, <1>6, <2>1
  <2>2. CASE i # n + 2
    <3>1. i \in 1..(n + 1) /\ 1 \in 1..(n + 1)
      BY <1>1, <2>2
    <3> QED
      BY <1>3, <1>4, <1>6, <3>1
  <2> QED
    BY <2>1, <2>2
<1>11. Placed(Q, w, z, YYEMPTY, u)
  BY <1>1, <1>2, <1>3, <1>6, <1>9, <1>10 DEF Placed
<1> QED
  BY <1>11 DEF Q, w, z

(* A rule leaves the parts below it as they are, and makes one of the others. *)
LEMMA PlacedReduce ==
  ASSUME NEW P, IsPath(P), NEW v, NEW s, NEW c, NEW b, Placed(P, v, s, c, b),
         Len(v) + 1 = Len(P), Len(v) \in Nat, IsSeq(s),
         NEW p \in 1..Len(P), p < Len(P), P[p] \in OperandStates,
         NEW Q, Len(Q) = p + 1, \A i \in 1..p : Q[i] = P[i],
         NEW w, Len(w) = p, \A i \in 1..(p - 1) : w[i] = v[i],
         Item(Q[p + 1], c, w[p], s, b[p], Len(s))
  PROVE  \E u : Placed(Q, w, s, c, u)
<1> DEFINE n == Len(v)
           e == Len(s)
           u == [i \in 1..(p + 1) |-> IF i = p + 1 THEN e ELSE b[i]]
<1>1. n \in Nat /\ Len(P) = n + 1 /\ p \in 1..n /\ e \in Nat
  BY SeqFacts
<1>2. /\ b[1] = 0 /\ \A i \in 1..(n + 1) : b[i] \in 0..e
      /\ \A i \in 1..n : Item(P[i + 1], Following(P, i + 2, c), v[i], s, b[i], b[i + 1])
  BY <1>1 DEF Placed
<1> HIDE DEF n, e
<1>3. u[p + 1] = e /\ \A i \in 1..p : u[i] = b[i]
  BY <1>1
<1> HIDE DEF u
<1>4. ASSUME NEW i \in 1..(p - 1)
      PROVE  Item(Q[i + 1], Following(Q, i + 2, c), w[i], s, u[i], u[i + 1])
  <2>1. i \in 1..p /\ i + 1 \in 1..p /\ i \in 1..n
    BY <1>1
  <2>2. Item(P[i + 1], Following(P, i + 2, c), v[i], s, b[i], b[i + 1])
    BY <1>2, <2>1
  <2>3. Item(P[i + 1], Following(Q, i + 2, c), v[i], s, b[i], b[i + 1])
    <3>1. CASE i + 2 <= p
      <4>1. i + 2 \in 1..p /\ i + 2 <= Len(P) /\ i + 2 <= Len(Q)
        BY <1>1, <3>1
      <4>2. Following(Q, i + 2, c) = Following(P, i + 2, c)
        BY <4>1 DEF Following
      <4> QED
        BY <2>2, <4>2
    <3>2. CASE ~(i + 2 <= p)
      <4>1. i + 1 = p /\ i + 1 \in 1..Len(P) /\ i + 1 # 1
        BY <1>1, <2>1, <3>2
      <4>2. P[i + 1] # 0 /\ P[i + 1] \in OperandStates
        BY <4>1, PathBottom DEF IsPath
      <4>3. P[i + 1] \in TokenStates
        BY <4>2 DEF OperandStates, TokenStates
      <4> QED
        BY <2>2, <4>3 DEF Item
    <3> QED
      BY <3>1, <3>2
  <2> QED
    BY <1>3, <2>1, <2>3
<1>5. Item(Q[p + 1], Following(Q, p + 2, c), w[p], s, u[p], u[p + 1])
  <2>1. p \in 1..p /\ ~(p + 2 <= p + 1)
    BY <1>1
  <2>2. Following(Q, p + 2, c) = c
    BY <2>1 DEF Following
  <2> QED
    BY <1>3, <2>1, <2>2 DEF e
<1>6. \A i \in 1..p : Item(Q[i + 1], Following(Q, i + 2, c), w[i], s, u[i], u[i + 1])
  <2> SUFFICES ASSUME NEW i \in 1..p
               PROVE  Item(Q[i + 1], Following(Q, i + 2, c), w[i], s, u[i], u[i + 1])
    OBVIOUS
  <2>1. i \in 1..(p - 1) \/ i = p
    BY <1>1
  <2> QED
    BY <1>4, <1>5, <2>1
<1>7. u[1] = 0 /\ \A i \in 1..(p + 1) : u[i] \in 0..e
  <2> SUFFICES ASSUME NEW i \in 1..(p + 1) PROVE u[1] = 0 /\ u[i] \in 0..e
    BY <1>1
  <2>1. 1 \in 1..p /\ (i = p + 1 \/ (i \in 1..p /\ i \in 1..(n + 1)))
    BY <1>1
  <2>2. u[i] \in 0..e
    <3>1. CASE i = p + 1
      BY <1>1, <1>3, <3>1
    <3>2. CASE i # p + 1
      BY <1>2, <1>3, <2>1, <3>2
    <3> QED
      BY <3>1, <3>2
  <2> QED
    BY <1>2, <1>3, <2>1, <2>2
<1>8. Placed(Q, w, s, c, u)
  BY <1>3, <1>6, <1>7 DEF Placed, e
<1> QED
  BY <1>8

(* What the rules make, at the places from y0. *)
LEMMA PlaceBefore ==
  ASSUME NEW q, q \notin TokenStates, NEW c, NEW v, v # NULL, NEW s, NEW x, NEW y,
         Item(q, c, v, s, x, y)
  PROVE  \E l \in 1..9 : Derived(s, x + 1, y, l, v) /\ Own(q, l) /\ Fits(l, c)
BY DEF Item, ExpAt

LEMMA PlaceOf ==
  ASSUME NEW q \in TokenStates, NEW c, NEW v, NEW s, NEW x, NEW y, Item(q, c, v, s, x, y)
  PROVE  /\ y = x + 1 /\ y \in 1..Len(s) /\ s[y].token = Symbol(q)
         /\ q \in ({2} \cup (11..14)) => v = s[y].value
BY DEF Item, TokenAt

LEMMA MeansConditional ==
  ASSUME NEW s, IsSeq(s),
         NEW y0 \in 0..Len(s), NEW y1 \in 0..Len(s), NEW y2 \in 0..Len(s), NEW y3 \in 0..Len(s),
         NEW y4 \in 0..Len(s), NEW y5 \in 0..Len(s),
         NEW x1, NEW x2, NEW x3, NEW x4, NEW x5, x1 # NULL, x3 # NULL, x5 # NULL,
         NEW q, q \notin TokenStates, NEW c2, NEW c3, NEW c4, NEW c5,
         Item(q, "?", x1, s, y0, y1), Item(8, c2, x2, s, y1, y2), Item(16, c3, x3, s, y2, y3),
         Item(23, c4, x4, s, y3, y4), Item(24, c5, x5, s, y4, y5)
  PROVE  Derived(s, y0 + 1, y5, 1, Node("qmop", 0, <<x1, x3, x5>>))
<1>1. Len(s) \in Nat /\ 16 \notin TokenStates /\ 24 \notin TokenStates /\ 8 \in TokenStates /\ 23 \in TokenStates
  BY SeqFacts, RuleStates
<1>2. PICK k \in 1..9 : Derived(s, y0 + 1, y1, k, x1) /\ Fits(k, "?")
  BY PlaceBefore
<1>3. PICK l \in 1..9 : Derived(s, y2 + 1, y3, l, x3)
  BY <1>1, PlaceBefore
<1>4. PICK h \in 1..9 : Derived(s, y4 + 1, y5, h, x5)
  BY <1>1, PlaceBefore
<1>5. y2 = y1 + 1 /\ s[y2].token = "?" /\ y2 \in 1..Len(s)
  <2>1. y2 = y1 + 1 /\ s[y2].token = Symbol(8) /\ y2 \in 1..Len(s)
    BY <1>1, PlaceOf
  <2> QED
    BY <2>1 DEF Symbol
<1>6. y4 = y3 + 1 /\ s[y4].token = ":" /\ y4 \in 1..Len(s)
  <2>1. y4 = y3 + 1 /\ s[y4].token = Symbol(23) /\ y4 \in 1..Len(s)
    BY <1>1, PlaceOf
  <2> QED
    BY <2>1 DEF Symbol
<1>7. k >= 2
  BY <1>2 DEF Fits
<1>8. /\ y0 + 1 \in 1..Len(s) /\ y1 \in (y0 + 1)..Len(s)
      /\ y2 + 1 \in 1..Len(s) /\ y3 \in (y2 + 1)..Len(s)
      /\ y4 + 1 \in 1..Len(s) /\ y5 \in (y4 + 1)..Len(s)
  BY <1>2, <1>3, <1>4 DEF Derived
<1>9. y1 = y2 - 1 /\ y3 = y4 - 1
  BY <1>5, <1>6
<1>10. y5 \in (y0 + 1)..Len(s) /\ y2 \in (y0 + 1)..y5 /\ y4 \in (y0 + 1)..y5
  <2>1. /\ y0 \in Int /\ y1 \in Int /\ y2 \in Int /\ y3 \in Int /\ y4 \in Int /\ y5 \in Int
        /\ y5 <= Len(s)
    BY <1>1
  <2>2. y0 + 1 <= y1 /\ y1 <= y2 /\ y2 <= y3 /\ y3 <= y4 /\ y4 <= y5
    BY <1>5, <1>6, <1>8
  <2> QED
    BY <1>1, <2>1, <2>2
<1>11. Derived(s, y0 + 1, y2 - 1, k, x1) /\ Derived(s, y2 + 1, y4 - 1, l, x3)
  BY <1>2, <1>3, <1>9
<1> QED
  BY <1>4, <1>5, <1>6, <1>7, <1>8, <1>10, <1>11, DeriveConditional

LEMMA OperatorAt ==
  ASSUME NEW s, NEW level \in 2..7, NEW y1, NEW y2, NEW x2, NEW c2,
         NEW q, q = level + 7, Item(q, c2, x2, s, y1, y2)
  PROVE  /\ y2 = y1 + 1 /\ y2 \in 1..Len(s) /\ s[y2].token = Levels[level]
         /\ level \in 4..7 => x2 = s[y2].value
<1>1. q \in TokenStates
  <2>1. \A i \in 9..14 : i \in TokenStates
    BY DEF TokenStates
  <2> QED
    BY <2>1
<1>2. y2 = y1 + 1 /\ s[y2].token = Symbol(q) /\ y2 \in 1..Len(s)
  BY <1>1, PlaceOf
<1>3. level \in 4..7 => x2 = s[y2].value
  <2>1. level \in 4..7 => q \in ({2} \cup (11..14))
    OBVIOUS
  <2> QED
    BY <1>1, <2>1, PlaceOf
<1>4. Symbol(q) = Levels[level]
  BY LevelNames DEF Symbol
<1> QED
  BY <1>2, <1>3, <1>4

LEMMA MeansBinary ==
  ASSUME NEW s, IsSeq(s), NEW level \in 2..7,
         NEW y0 \in 0..Len(s), NEW y1 \in 0..Len(s), NEW y2 \in 0..Len(s), NEW y3 \in 0..Len(s),
         NEW x1, NEW x2, NEW x3, x1 # NULL, x3 # NULL,
         NEW q, q \notin TokenStates, NEW c2, NEW c3,
         NEW q2, q2 = level + 7, NEW q3, q3 = level + 15,
         Item(q, Levels[level], x1, s, y0, y1), Item(q2, c2, x2, s, y1, y2),
         Item(q3, c3, x3, s, y2, y3)
  PROVE  Derived(s, y0 + 1, y3, level, Node(OpOf(s[y2]), 0, <<x1, x3>>))
<1>1. Len(s) \in Nat /\ q3 \notin TokenStates /\ q3 \in 17..22
  <2>1. q3 \in 17..22 /\ q3 \in 16..22
    OBVIOUS
  <2> QED
    BY <2>1, RuleStates, SeqFacts
<1>2. PICK k \in 1..9 : Derived(s, y0 + 1, y1, k, x1) /\ Fits(k, Levels[level])
  BY PlaceBefore
<1>3. PICK l \in 1..9 : Derived(s, y2 + 1, y3, l, x3) /\ Own(q3, l)
  BY <1>1, PlaceBefore
<1>4. y2 = y1 + 1 /\ y2 \in 1..Len(s) /\ s[y2].token = Levels[level]
  <2>1. s[y2].token = Levels[level]
    BY OperatorAt
  <2>2. y2 = y1 + 1
    BY OperatorAt
  <2>3. y2 \in 1..Len(s)
    BY OperatorAt
  <2> QED
    BY <2>1, <2>2, <2>3
<1>5. k >= level
  BY <1>2 DEF Fits
<1>6. l >= level + 1
  BY <1>1, <1>3 DEF Own
<1>7. /\ y0 + 1 \in 1..Len(s) /\ y1 \in (y0 + 1)..Len(s)
      /\ y2 + 1 \in 1..Len(s) /\ y3 \in (y2 + 1)..Len(s)
  BY <1>2, <1>3 DEF Derived
<1>8. y1 = y2 - 1 /\ y3 \in (y0 + 1)..Len(s) /\ y2 \in (y0 + 1)..y3
  BY <1>1, <1>4, <1>7
<1>9. Derived(s, y0 + 1, y2 - 1, k, x1)
  BY <1>2, <1>8
<1> QED
  BY <1>3, <1>4, <1>5, <1>6, <1>7, <1>8, <1>9, DeriveBinary

LEMMA MeansNegation ==
  ASSUME NEW s, IsSeq(s),
         NEW y0 \in 0..Len(s), NEW y1 \in 0..Len(s), NEW y2 \in 0..Len(s),
         NEW x1, NEW x2, x2 # NULL, NEW c1, NEW c2,
         Item(1, c1, x1, s, y0, y1), Item(6, c2, x2, s, y1, y2)
  PROVE  Derived(s, y0 + 1, y2, 8, Node("lnot", 0, <<x2>>))
<1>1. Len(s) \in Nat /\ 6 \notin TokenStates /\ 1 \in TokenStates
  BY SeqFacts DEF TokenStates
<1>2. y1 = y0 + 1 /\ s[y1].token = Symbol(1) /\ y1 \in 1..Len(s)
  BY <1>1, PlaceOf
<1>3. PICK l \in 1..9 : Derived(s, y1 + 1, y2, l, x2) /\ Own(6, l)
  BY <1>1, PlaceBefore
<1>4. l >= 8 /\ s[y1].token = "!"
  BY <1>2, <1>3 DEF Own, Symbol
<1>5. y1 + 1 \in 1..Len(s) /\ y2 \in (y1 + 1)..Len(s)
  BY <1>3 DEF Derived
<1>6. y2 \in y1..Len(s)
  BY <1>1, <1>2, <1>5
<1>7. Derived(s, y1, y2, 8, Node("lnot", 0, <<x2>>))
  BY <1>2, <1>3, <1>4, <1>6, DeriveNegation
<1> QED
  BY <1>2, <1>7

LEMMA MeansAtom ==
  ASSUME NEW s, IsSeq(s), NEW y0 \in 0..Len(s), NEW y1 \in 0..Len(s), NEW x1, NEW c1
  PROVE  /\ Item(3, c1, x1, s, y0, y1) => Derived(s, y0 + 1, y1, 9, Node("var", 0, <<>>))
         /\ Item(2, c1, x1, s, y0, y1) => Derived(s, y0 + 1, y1, 9, Node("num", x1.num, <<>>))
<1>1. 3 \in TokenStates /\ 2 \in TokenStates
  BY DEF TokenStates
<1>2. ASSUME Item(3, c1, x1, s, y0, y1)
      PROVE  Derived(s, y0 + 1, y1, 9, Node("var", 0, <<>>))
  <2>1. y1 = y0 + 1 /\ s[y1].token = Symbol(3) /\ y1 \in 1..Len(s)
    BY <1>1, <1>2, PlaceOf
  <2>2. s[y1].token = "n"
    BY <2>1 DEF Symbol
  <2> QED
    BY <2>1, <2>2, DeriveAtom
<1>3. ASSUME Item(2, c1, x1, s, y0, y1)
      PROVE  Derived(s, y0 + 1, y1, 9, Node("num", x1.num, <<>>))
  <2>1. y1 = y0 + 1 /\ s[y1].token = Symbol(2) /\ y1 \in 1..Len(s) /\ x1 = s[y1].value
    BY <1>1, <1>3, PlaceOf
  <2>2. s[y1].token = "NUMBER"
    BY <2>1 DEF Symbol
  <2> QED
    BY <2>1, <2>2, DeriveAtom
<1> QED
  BY <1>2, <1>3

LEMMA MeansBrackets ==
  ASSUME NEW s, IsSeq(s),
         NEW y0 \in 0..Len(s), NEW y1 \in 0..Len(s), NEW y2 \in 0..Len(s), NEW y3 \in 0..Len(s),
         NEW x1, NEW x2, NEW x3, x2 # NULL, NEW c1, NEW c2, NEW c3,
         Item(4, c1, x1, s, y0, y1), Item(7, c2, x2, s, y1, y2), Item(15, c3, x3, s, y2, y3)
  PROVE  Derived(s, y0 + 1, y3, 9, x2)
<1>1. Len(s) \in Nat /\ 7 \notin TokenStates /\ 4 \in TokenStates /\ 15 \in TokenStates
  BY SeqFacts DEF TokenStates
<1>2. y1 = y0 + 1 /\ s[y1].token = Symbol(4) /\ y1 \in 1..Len(s)
  BY <1>1, PlaceOf
<1>3. y3 = y2 + 1 /\ s[y3].token = Symbol(15) /\ y3 \in 1..Len(s)
  BY <1>1, PlaceOf
<1>4. PICK l \in 1..9 : Derived(s, y1 + 1, y2, l, x2)
  BY <1>1, PlaceBefore
<1>5. s[y1].token = "(" /\ s[y3].token = ")"
  BY <1>2, <1>3 DEF Symbol
<1>6. y1 + 1 \in 1..Len(s) /\ y2 \in (y1 + 1)..Len(s)
  BY <1>4 DEF Derived
<1>7. y3 \in y1..Len(s) /\ y2 = y3 - 1
  BY <1>1, <1>2, <1>3, <1>6
<1>8. Derived(s, y1 + 1, y3 - 1, l, x2)
  BY <1>4, <1>7
<1>9. Derived(s, y1, y3, 9, x2)
  BY <1>2, <1>5, <1>7, <1>8, DeriveBrackets
<1> QED
  BY <1>2, <1>9

(* A rule is used only where what it makes may stand. *)
LevelOf(r) == IF r = 2 THEN 1 ELSE IF r \in 3..8 THEN r - 1 ELSE IF r = 9 THEN 8 ELSE 9

LEMMA MayStand ==
  ASSUME NEW q \in States, NEW r \in 2..12, Rule(q) = r,
         NEW c, c \notin Takes(q), q \notin NoTokenStates => c \in TokenNames
  PROVE  Fits(LevelOf(r), c)
<1>1. CASE r = 2
  <2>1. q = 24
    BY <1>1 DEF Rule
  <2>2. c \notin Operators /\ c \in TokenNames
    BY <2>1 DEF Takes, OperandStates, NoTokenStates
  <2>3. c # YYEMPTY /\ c # "?" /\ \A m \in 2..7 : c # Levels[m]
    BY <2>2, EmptyName, OperatorNames, LevelNames
  <2> QED
    BY <1>1, <2>3 DEF Fits
<1>2. CASE r \in 3..7
  <2>1. q = r + 14
    BY <1>2 DEF Rule
  <2>2. /\ q \in 17..21 /\ q \notin OperandStates /\ q \notin {5, 7, 16, 24}
        /\ q \notin NoTokenStates /\ q - 15 = r - 1
    BY <1>2, <2>1 DEF OperandStates, NoTokenStates
  <2>3. c \notin Strong(r - 1) /\ c \in TokenNames /\ c # YYEMPTY
    BY <2>2, EmptyName DEF Takes
  <2>4. ASSUME NEW m \in 2..7, c = Levels[m] PROVE r - 1 >= m
    BY <1>2, <2>3, <2>4, LevelNames DEF Strong
  <2>5. LevelOf(r) = r - 1 /\ r - 1 >= 2
    BY <1>2 DEF LevelOf
  <2> QED
    BY <2>3, <2>4, <2>5 DEF Fits
<1>3. CASE r \in 8..12
  <2>1. LevelOf(r) \in 7..9
    BY <1>3 DEF LevelOf
  <2> QED
    BY <2>1, FitsAll
<1> QED
  BY <1>1, <1>2, <1>3

LEMMA MayFollow ==
  ASSUME NEW P, NEW b, P[b] \in OperandStates, NEW r \in 2..12, OnStack(P, b, r)
  PROVE  Own(AfterExp(P[b]), LevelOf(r))
<1> DEFINE q == AfterExp(P[b])
<1>1. q \in {5, 6, 7, 16, 24} \cup (17..22)
  BY DEF AfterExp, OperandStates
<1>2. CASE r = 2
  <2>1. q \in {5, 7, 16, 24} /\ LevelOf(r) = 1
    BY <1>2 DEF OnStack, LevelOf
  <2> HIDE DEF q
  <2> QED
    BY <2>1 DEF Own, q
<1>3. CASE r \in 3..8
  <2>1. q \in ({5, 7, 16, 24} \cup (17..(r + 13))) /\ LevelOf(r) = r - 1
    BY <1>3 DEF OnStack, LevelOf
  <2> HIDE DEF q
  <2>2. r - 1 >= 1 /\ q # 6 /\ (q \in 17..22 => r - 1 >= q - 14)
    BY <1>3, <2>1
  <2> QED
    BY <2>1, <2>2 DEF Own, q
<1>4. CASE r \in 9..12
  <2>1. LevelOf(r) \in 8..9
    BY <1>4 DEF LevelOf
  <2> QED
    BY <2>1 DEF Own
<1> QED
  BY <1>2, <1>3, <1>4

(* The item at the place p + d of a path, counted from a place p above which *)
(* there are at least d + 1.                                                 *)
LEMMA ItemAt ==
  ASSUME NEW P, NEW v, NEW s, NEW c, NEW b, Placed(P, v, s, c, b),
         Len(v) \in Nat, Len(v) + 1 = Len(P), NEW p \in 1..Len(P), NEW d \in Nat, p + d < Len(P)
  PROVE  /\ b[p + d] \in 0..Len(s) /\ b[p + d + 1] \in 0..Len(s)
         /\ Item(P[p + d + 1], Following(P, p + d + 2, c), v[p + d], s, b[p + d], b[p + d + 1])
<1> DEFINE i == p + d
<1>1. i \in 1..Len(v) /\ i \in 1..Len(P) /\ i + 1 \in 1..Len(P)
  OBVIOUS
<1>2. p + d + 1 = i + 1 /\ p + d + 2 = i + 2
  OBVIOUS
<1> HIDE DEF i
<1>3. /\ b[i] \in 0..Len(s) /\ b[i + 1] \in 0..Len(s)
      /\ Item(P[i + 1], Following(P, i + 2, c), v[i], s, b[i], b[i + 1])
  BY <1>1 DEF Placed
<1> QED
  BY <1>2, <1>3 DEF i

(* What a rule makes of the values that are there. *)
Result(r, rhs) ==
    IF r = 12 THEN rhs[2]
    ELSE Node(Semantic(r, rhs).op, Semantic(r, rhs).num, Semantic(r, rhs).args)

LEMMA RuleMeans ==
  ASSUME NEW P, NEW v, NEW s, NEW c, NEW b, Placed(P, v, s, c, b), IsSeq(s),
         Len(v) \in Nat, Len(v) + 1 = Len(P), NEW p \in 1..Len(P), NEW r \in 2..12,
         Len(P) = p + Length(r), OnStack(P, p, r), P[p] \in OperandStates,
         NEW rhs, \A i \in 1..Length(r) : rhs[i] = v[p + i - 1],
         Complete(Arguments(v, p - 1, r))
  PROVE  Derived(s, b[p] + 1, Len(s), LevelOf(r), Result(r, rhs))
<1> DEFINE y(i) == b[p + i]
<1>e. b[Len(P)] = Len(s) /\ y(0) = b[p]
  BY DEF Placed
<1>f. ASSUME p + 1 <= Len(P)
      PROVE  /\ y(0) \in 0..Len(s) /\ y(1) \in 0..Len(s)
             /\ Item(P[p + 1], Following(P, p + 2, c), v[p], s, y(0), y(1))
  <2>1. p \in 1..Len(v) /\ p \in 1..Len(P) /\ p + 1 \in 1..Len(P)
    BY <1>f
  <2>2. /\ b[p] \in 0..Len(s) /\ b[p + 1] \in 0..Len(s)
        /\ Item(P[p + 1], Following(P, p + 2, c), v[p], s, b[p], b[p + 1])
    BY <2>1 DEF Placed
  <2> QED
    BY <1>e, <2>2
<1>1. CASE r = 2
  <2>l. Length(r) = 5 /\ LevelOf(r) = 1 /\ Len(P) = p + 5
    BY <1>1 DEF Length, LevelOf
  <2>s. /\ P[p + 1] \notin TokenStates /\ P[p + 2] = 8 /\ P[p + 3] = 16 /\ P[p + 4] = 23 /\ P[p + 5] = 24
    <3>1. P[p + 1] \in {5, 7, 16, 24} /\ P[p + 2] = 8 /\ P[p + 3] = 16 /\ P[p + 4] = 23 /\ P[p + 5] = 24
      BY <1>1 DEF OnStack
    <3>2. \A q \in {5, 7, 16, 24} : q \notin TokenStates
      BY NotTokens DEF ExpStates
    <3> QED
      BY <3>1, <3>2
  <2>1. /\ y(0) \in 0..Len(s) /\ y(1) \in 0..Len(s)
        /\ Item(P[p + 1], Following(P, p + 2, c), v[p], s, y(0), y(1))
    BY <1>f, <2>l
  <2>2. /\ y(2) \in 0..Len(s)
        /\ Item(P[p + 2], Following(P, p + 3, c), v[p + 1], s, y(1), y(2))
    <3>1. 1 \in Nat /\ p + 1 < Len(P)
      BY <2>l
    <3>2. p + 1 + 1 = p + 2 /\ p + 1 + 2 = p + 3
      OBVIOUS
    <3> QED
      BY <3>1, <3>2, ItemAt
  <2>3. /\ y(3) \in 0..Len(s)
        /\ Item(P[p + 3], Following(P, p + 4, c), v[p + 2], s, y(2), y(3))
    <3>1. 2 \in Nat /\ p + 2 < Len(P)
      BY <2>l
    <3>2. p + 2 + 1 = p + 3 /\ p + 2 + 2 = p + 4
      OBVIOUS
    <3> QED
      BY <3>1, <3>2, ItemAt
  <2>4. /\ y(4) \in 0..Len(s)
        /\ Item(P[p + 4], Following(P, p + 5, c), v[p + 3], s, y(3), y(4))
    <3>1. 3 \in Nat /\ p + 3 < Len(P)
      BY <2>l
    <3>2. p + 3 + 1 = p + 4 /\ p + 3 + 2 = p + 5
      OBVIOUS
    <3> QED
      BY <3>1, <3>2, ItemAt
  <2>5. /\ y(5) \in 0..Len(s)
        /\ Item(P[p + 5], Following(P, p + 6, c), v[p + 4], s, y(4), y(5))
    <3>1. 4 \in Nat /\ p + 4 < Len(P)
      BY <2>l
    <3>2. p + 4 + 1 = p + 5 /\ p + 4 + 2 = p + 6
      OBVIOUS
    <3> QED
      BY <3>1, <3>2, ItemAt
  <2>6. Following(P, p + 2, c) = "?"
    <3>1. p + 2 <= Len(P)
      BY <2>l
    <3> QED
      BY <2>s, <3>1 DEF Following, Symbol
  <2>7. rhs[1] = v[p] /\ rhs[3] = v[p + 2] /\ rhs[5] = v[p + 4]
    <3>1. p + 1 - 1 = p /\ p + 3 - 1 = p + 2 /\ p + 5 - 1 = p + 4
      OBVIOUS
    <3> QED
      BY <2>l, <3>1
  <2>8. v[p] # NULL /\ v[p + 2] # NULL /\ v[p + 4] # NULL
    <3>1. (p - 1) + 1 = p /\ (p - 1) + 3 = p + 2 /\ (p - 1) + 5 = p + 4
      OBVIOUS
    <3>2. Arguments(v, p - 1, r) = <<v[p], v[p + 2], v[p + 4]>>
      BY <1>1, <3>1 DEF Arguments
    <3> QED
      BY <3>2 DEF Complete
  <2>9. Result(r, rhs) = Node("qmop", 0, <<rhs[1], rhs[3], rhs[5]>>)
    <3>1. Semantic(2, rhs) = [op |-> "qmop", num |-> 0, args |-> <<rhs[1], rhs[3], rhs[5]>>]
      BY DEF Semantic
    <3> QED
      BY <1>1, <3>1 DEF Result
  <2>10. y(0) = b[p] /\ y(5) = Len(s)
    BY <1>e, <2>l
  <2> HIDE DEF y
  <2>11. Derived(s, y(0) + 1, y(5), 1, Node("qmop", 0, <<v[p], v[p + 2], v[p + 4]>>))
    <3> DEFINE c2 == Following(P, p + 3, c)
               c3 == Following(P, p + 4, c)
               c4 == Following(P, p + 5, c)
               c5 == Following(P, p + 6, c)
               q == P[p + 1]
               x1 == v[p]
               x2 == v[p + 1]
               x3 == v[p + 2]
               x4 == v[p + 3]
               x5 == v[p + 4]
               y0 == y(0)
               y1 == y(1)
               y2 == y(2)
               y3 == y(3)
               y4 == y(4)
               y5 == y(5)
    <3>1. /\ Item(q, "?", x1, s, y0, y1) /\ Item(8, c2, x2, s, y1, y2)
          /\ Item(16, c3, x3, s, y2, y3) /\ Item(23, c4, x4, s, y3, y4)
          /\ Item(24, c5, x5, s, y4, y5)
      BY <2>s, <2>1, <2>2, <2>3, <2>4, <2>5, <2>6
    <3>2. q \notin TokenStates /\ x1 # NULL /\ x3 # NULL /\ x5 # NULL
      BY <2>s, <2>8
    <3>3. /\ y0 \in 0..Len(s) /\ y1 \in 0..Len(s) /\ y2 \in 0..Len(s)
          /\ y3 \in 0..Len(s) /\ y4 \in 0..Len(s) /\ y5 \in 0..Len(s)
      BY <2>1, <2>2, <2>3, <2>4, <2>5
    <3> HIDE DEF c2, c3, c4, c5, q, x1, x2, x3, x4, x5, y0, y1, y2, y3, y4, y5
    <3>4. Derived(s, y0 + 1, y5, 1, Node("qmop", 0, <<x1, x3, x5>>))
      BY <3>1, <3>2, <3>3, MeansConditional
    <3> QED
      BY <3>4 DEF x1, x3, x5, y0, y5
  <2> QED
    BY <2>l, <2>7, <2>9, <2>10, <2>11
<1>2. CASE r \in 3..8
  <2>k. Length(r) = 3 /\ LevelOf(r) = r - 1
    <3>1. Length(r) = 3
      BY <1>2 DEF Length
    <3>2. LevelOf(r) = r - 1
      BY <1>2 DEF LevelOf
    <3> QED
      BY <3>1, <3>2
  <2>l. Length(r) = 3 /\ LevelOf(r) = r - 1 /\ Len(P) = p + 3
    BY <2>k
  <2> DEFINE level == r - 1
  <2>v. level \in 2..7 /\ level + 7 = r + 6 /\ level + 15 = r + 14
    BY <1>2
  <2>s. P[p + 1] \notin TokenStates /\ P[p + 2] = level + 7 /\ P[p + 3] = level + 15
    <3>1. /\ P[p + 1] \in ({5, 7, 16, 24} \cup (17..(r + 13)))
          /\ P[p + 2] = r + 6 /\ P[p + 3] = r + 14
      BY <1>2 DEF OnStack
    <3>r. r \in Int /\ r <= 8
      BY <1>2
    <3>2. \A x \in 17..(r + 13) : x \in 17..22
      BY <3>r
    <3>3. P[p + 1] \in ExpStates
      BY <3>1, <3>2 DEF ExpStates
    <3> QED
      BY <2>v, <3>1, <3>3, NotTokens
  <2>1. /\ y(0) \in 0..Len(s) /\ y(1) \in 0..Len(s)
        /\ Item(P[p + 1], Following(P, p + 2, c), v[p], s, y(0), y(1))
    BY <1>f, <2>l
  <2>2. /\ y(2) \in 0..Len(s)
        /\ Item(P[p + 2], Following(P, p + 3, c), v[p + 1], s, y(1), y(2))
    <3>1. 1 \in Nat /\ p + 1 < Len(P)
      BY <2>l
    <3>2. p + 1 + 1 = p + 2 /\ p + 1 + 2 = p + 3
      OBVIOUS
    <3> QED
      BY <3>1, <3>2, ItemAt
  <2>3. /\ y(3) \in 0..Len(s)
        /\ Item(P[p + 3], Following(P, p + 4, c), v[p + 2], s, y(2), y(3))
    <3>1. 2 \in Nat /\ p + 2 < Len(P)
      BY <2>l
    <3>2. p + 2 + 1 = p + 3 /\ p + 2 + 2 = p + 4
      OBVIOUS
    <3> QED
      BY <3>1, <3>2, ItemAt
  <2>6. Following(P, p + 2, c) = Levels[level]
    <3>1. p + 2 <= Len(P)
      BY <2>l
    <3>2. \A x \in 2..7 : Symbol(x + 7) = Levels[x]
      BY LevelNames DEF Symbol
    <3> QED
      BY <2>v, <2>s, <3>1, <3>2 DEF Following
  <2>7. rhs[1] = v[p] /\ rhs[2] = v[p + 1] /\ rhs[3] = v[p + 2]
    <3>1. p + 1 - 1 = p /\ p + 2 - 1 = p + 1 /\ p + 3 - 1 = p + 2
      OBVIOUS
    <3> QED
      BY <2>l, <3>1
  <2>8. v[p] # NULL /\ v[p + 2] # NULL
    <3>1. (p - 1) + 1 = p /\ (p - 1) + 3 = p + 2
      OBVIOUS
    <3>2. Arguments(v, p - 1, r) = <<v[p], v[p + 2]>>
      BY <1>2, <3>1 DEF Arguments
    <3> QED
      BY <3>2 DEF Complete
  <2>10. y(3) = Len(s)
    BY <1>e, <2>l
  <2> HIDE DEF y, level
  <2>11. /\ Derived(s, y(0) + 1, y(3), level, Node(OpOf(s[y(2)]), 0, <<v[p], v[p + 2]>>))
         /\ s[y(2)].token = Levels[level] /\ (level \in 4..7 => v[p + 1] = s[y(2)].value)
    <3> DEFINE c2 == Following(P, p + 3, c)
               c3 == Following(P, p + 4, c)
               q == P[p + 1]
               q2 == P[p + 2]
               q3 == P[p + 3]
               x1 == v[p]
               x2 == v[p + 1]
               x3 == v[p + 2]
               y0 == y(0)
               y1 == y(1)
               y2 == y(2)
               y3 == y(3)
    <3>1. /\ Item(q, Levels[level], x1, s, y0, y1) /\ Item(q2, c2, x2, s, y1, y2)
          /\ Item(q3, c3, x3, s, y2, y3)
      BY <2>1, <2>2, <2>3, <2>6
    <3>2. q \notin TokenStates /\ q2 = level + 7 /\ q3 = level + 15 /\ x1 # NULL /\ x3 # NULL
      BY <2>s, <2>8
    <3>3. y0 \in 0..Len(s) /\ y1 \in 0..Len(s) /\ y2 \in 0..Len(s) /\ y3 \in 0..Len(s)
      BY <2>1, <2>2, <2>3
    <3>v. level \in 2..7
      BY <2>v
    <3> HIDE DEF c2, c3, q, q2, q3, x1, x2, x3, y0, y1, y2, y3
    <3>4. Derived(s, y0 + 1, y3, level, Node(OpOf(s[y2]), 0, <<x1, x3>>))
      BY <3>v, <3>1, <3>2, <3>3, MeansBinary
    <3>5. s[y2].token = Levels[level] /\ (level \in 4..7 => x2 = s[y2].value)
      <4>1. s[y2].token = Levels[level]
        BY <3>v, <3>1, <3>2, OperatorAt
      <4>2. level \in 4..7 => x2 = s[y2].value
        BY <3>v, <3>1, <3>2, OperatorAt
      <4> QED
        BY <4>1, <4>2
    <3> QED
      BY <3>4, <3>5 DEF x1, x2, x3, y0, y2, y3
  <2>12. Result(r, rhs) = Node(OpOf(s[y(2)]), 0, <<v[p], v[p + 2]>>)
    <3>1. CASE r = 3
      <4>1. Semantic(3, rhs) = [op |-> "lor", num |-> 0, args |-> <<rhs[1], rhs[3]>>]
        BY DEF Semantic
      <4>2. OpOf(s[y(2)]) = "lor"
        BY <2>11, <3>1, LevelNames DEF OpOf, level
      <4>3. Result(3, rhs) = Node("lor", 0, <<rhs[1], rhs[3]>>)
        BY <4>1 DEF Result
      <4> QED
        BY <2>7, <3>1, <4>2, <4>3
    <3>2. CASE r = 4
      <4>1. Semantic(4, rhs) = [op |-> "land", num |-> 0, args |-> <<rhs[1], rhs[3]>>]
        BY DEF Semantic
      <4>2. OpOf(s[y(2)]) = "land"
        BY <2>11, <3>2, LevelNames DEF OpOf, level
      <4>3. Result(4, rhs) = Node("land", 0, <<rhs[1], rhs[3]>>)
        BY <4>1 DEF Result
      <4> QED
        BY <2>7, <3>2, <4>2, <4>3
    <3>3. CASE r \in 5..8
      <4>1. \A x \in 5..8 : Semantic(x, rhs) = [op |-> rhs[2].op, num |-> 0, args |-> <<rhs[1], rhs[3]>>]
        BY DEF Semantic
      <4>2. level \in 4..7 /\ Levels[level] \notin {"|", "&"}
        BY <3>3, LevelNames DEF level
      <4>3. OpOf(s[y(2)]) = v[p + 1].op
        BY <2>11, <4>2 DEF OpOf
      <4>4. Semantic(r, rhs) = [op |-> rhs[2].op, num |-> 0, args |-> <<rhs[1], rhs[3]>>] /\ r # 12
        BY <3>3, <4>1
      <4> QED
        BY <2>7, <4>3, <4>4 DEF Result
    <3> QED
      BY <1>2, <3>1, <3>2, <3>3
  <2> QED
    BY <1>e, <2>l, <2>10, <2>11, <2>12 DEF level
<1>3. CASE r = 9
  <2>l. Length(r) = 2 /\ LevelOf(r) = 8 /\ Len(P) = p + 2
    BY <1>3 DEF Length, LevelOf
  <2>s. P[p + 1] = 1 /\ P[p + 2] = 6
    BY <1>3 DEF OnStack
  <2>1. /\ y(0) \in 0..Len(s) /\ y(1) \in 0..Len(s)
        /\ Item(P[p + 1], Following(P, p + 2, c), v[p], s, y(0), y(1))
    BY <1>f, <2>l
  <2>2. /\ y(2) \in 0..Len(s)
        /\ Item(P[p + 2], Following(P, p + 3, c), v[p + 1], s, y(1), y(2))
    <3>1. 1 \in Nat /\ p + 1 < Len(P)
      BY <2>l
    <3>2. p + 1 + 1 = p + 2 /\ p + 1 + 2 = p + 3
      OBVIOUS
    <3> QED
      BY <3>1, <3>2, ItemAt
  <2>7. rhs[2] = v[p + 1]
    <3>1. p + 2 - 1 = p + 1
      OBVIOUS
    <3> QED
      BY <2>l, <3>1
  <2>8. v[p + 1] # NULL
    <3>1. (p - 1) + 2 = p + 1
      OBVIOUS
    <3>2. Arguments(v, p - 1, r) = <<v[p + 1]>>
      BY <1>3, <3>1 DEF Arguments
    <3> QED
      BY <3>2 DEF Complete
  <2>9. Result(r, rhs) = Node("lnot", 0, <<rhs[2]>>)
    <3>1. Semantic(9, rhs) = [op |-> "lnot", num |-> 0, args |-> <<rhs[2]>>]
      BY DEF Semantic
    <3> QED
      BY <1>3, <3>1 DEF Result
  <2>10. y(2) = Len(s)
    BY <1>e, <2>l
  <2> HIDE DEF y
  <2>11. Derived(s, y(0) + 1, y(2), 8, Node("lnot", 0, <<v[p + 1]>>))
    BY <2>s, <2>1, <2>2, <2>8, MeansNegation
  <2> QED
    BY <1>e, <2>l, <2>7, <2>9, <2>10, <2>11
<1>4. CASE r \in {10, 11}
  <2>l. Length(r) = 1 /\ LevelOf(r) = 9 /\ Len(P) = p + 1
    BY <1>4 DEF Length, LevelOf
  <2>s. P[p + 1] = IF r = 10 THEN 3 ELSE 2
    BY <1>4 DEF OnStack
  <2>1. /\ y(0) \in 0..Len(s) /\ y(1) \in 0..Len(s)
        /\ Item(P[p + 1], Following(P, p + 2, c), v[p], s, y(0), y(1))
    BY <1>f, <2>l
  <2>7. rhs[1] = v[p]
    <3>1. p + 1 - 1 = p
      OBVIOUS
    <3> QED
      BY <2>l, <3>1
  <2>9. Result(r, rhs) = IF r = 10 THEN Node("var", 0, <<>>) ELSE Node("num", v[p].num, <<>>)
    <3>1. /\ Semantic(10, rhs) = [op |-> "var", num |-> 0, args |-> <<>>]
          /\ Semantic(11, rhs) = [op |-> "num", num |-> rhs[1].num, args |-> <<>>]
      BY DEF Semantic
    <3> QED
      BY <1>4, <2>7, <3>1 DEF Result
  <2>10. y(1) = Len(s)
    BY <1>e, <2>l
  <2> HIDE DEF y
  <2>11. CASE r = 10
    <3> DEFINE c1 == Following(P, p + 2, c)
               x1 == v[p]
               y0 == y(0)
               y1 == y(1)
    <3>a. Item(3, c1, x1, s, y0, y1) /\ y0 \in 0..Len(s) /\ y1 \in 0..Len(s)
      BY <2>s, <2>1, <2>11
    <3> HIDE DEF c1, x1, y0, y1
    <3>b. Derived(s, y0 + 1, y1, 9, Node("var", 0, <<>>))
      BY <3>a, MeansAtom
    <3>1. Derived(s, y(0) + 1, y(1), 9, Node("var", 0, <<>>))
      BY <3>b DEF x1, y0, y1
    <3> QED
      BY <1>e, <2>l, <2>9, <2>10, <2>11, <3>1
  <2>12. CASE r = 11
    <3> DEFINE c1 == Following(P, p + 2, c)
               x1 == v[p]
               y0 == y(0)
               y1 == y(1)
    <3>a. Item(2, c1, x1, s, y0, y1) /\ y0 \in 0..Len(s) /\ y1 \in 0..Len(s)
      BY <2>s, <2>1, <2>12
    <3> HIDE DEF c1, x1, y0, y1
    <3>b. Derived(s, y0 + 1, y1, 9, Node("num", x1.num, <<>>))
      BY <3>a, MeansAtom
    <3>1. Derived(s, y(0) + 1, y(1), 9, Node("num", v[p].num, <<>>))
      BY <3>b DEF x1, y0, y1
    <3> QED
      BY <1>e, <2>l, <2>9, <2>10, <2>12, <3>1
  <2> QED
    BY <1>4, <2>11, <2>12
<1>5. CASE r = 12
  <2>l. Length(r) = 3 /\ LevelOf(r) = 9 /\ Len(P) = p + 3
    BY <1>5 DEF Length, LevelOf
  <2>s. P[p + 1] = 4 /\ P[p + 2] = 7 /\ P[p + 3] = 15
    BY <1>5 DEF OnStack
  <2>1. /\ y(0) \in 0..Len(s) /\ y(1) \in 0..Len(s)
        /\ Item(P[p + 1], Following(P, p + 2, c), v[p], s, y(0), y(1))
    BY <1>f, <2>l
  <2>2. /\ y(2) \in 0..Len(s)
        /\ Item(P[p + 2], Following(P, p + 3, c), v[p + 1], s, y(1), y(2))
    <3>1. 1 \in Nat /\ p + 1 < Len(P)
      BY <2>l
    <3>2. p + 1 + 1 = p + 2 /\ p + 1 + 2 = p + 3
      OBVIOUS
    <3> QED
      BY <3>1, <3>2, ItemAt
  <2>3. /\ y(3) \in 0..Len(s)
        /\ Item(P[p + 3], Following(P, p + 4, c), v[p + 2], s, y(2), y(3))
    <3>1. 2 \in Nat /\ p + 2 < Len(P)
      BY <2>l
    <3>2. p + 2 + 1 = p + 3 /\ p + 2 + 2 = p + 4
      OBVIOUS
    <3> QED
      BY <3>1, <3>2, ItemAt
  <2>7. Result(r, rhs) = v[p + 1]
    <3>1. p + 2 - 1 = p + 1
      OBVIOUS
    <3>2. rhs[2] = v[p + 1]
      BY <2>l, <3>1
    <3> QED
      BY <1>5, <3>2 DEF Result
  <2>8. v[p + 1] # NULL
    <3>1. (p - 1) + 2 = p + 1
      OBVIOUS
    <3>2. Arguments(v, p - 1, r) = <<v[p + 1]>>
      BY <1>5, <3>1 DEF Arguments
    <3> QED
      BY <3>2 DEF Complete
  <2>10. y(3) = Len(s)
    BY <1>e, <2>l
  <2> HIDE DEF y
  <2>11. Derived(s, y(0) + 1, y(3), 9, v[p + 1])
    <3> DEFINE c1 == Following(P, p + 2, c)
               c2 == Following(P, p + 3, c)
               c3 == Following(P, p + 4, c)
    <3>1. /\ Item(4, c1, v[p], s, y(0), y(1)) /\ Item(7, c2, v[p + 1], s, y(1), y(2))
          /\ Item(15, c3, v[p + 2], s, y(2), y(3))
      BY <2>s, <2>1, <2>2, <2>3
    <3> HIDE DEF c1, c2, c3
    <3> QED
      BY <2>1, <2>2, <2>3, <2>8, <3>1, MeansBrackets
  <2> QED
    BY <1>e, <2>l, <2>7, <2>10, <2>11
<1> QED
  BY <1>1, <1>2, <1>3, <1>4, <1>5

MeaningInv ==
    /\ yychar \in Valued => yylval = Last(seen).value
    /\ Working /\ yystate \notin {25, 26} => \E b : Placed(Path, yyvs, Consumed, yychar, b)
    /\ label # "yyerrhandle" /\ yystate \in {25, 26} => res \in Meanings(Consumed)

LEMMA ConsumedSeq == ASSUME StacksInv, ReadsInv PROVE IsSeq(Consumed)
<1>1. CASE yychar = YYEMPTY
  BY <1>1 DEF Consumed, StacksInv
<1>2. CASE yychar # YYEMPTY
  BY <1>2, Waiting
<1> QED
  BY <1>1, <1>2

LEMMA MeaningInit == Init => MeaningInv
<1> SUFFICES ASSUME Init PROVE MeaningInv
  OBVIOUS
<1>1. /\ label = "yysetstate" /\ yyss = <<>> /\ yyvs = <<>> /\ seen = <<>> /\ yystate = 0
      /\ yychar = YYEMPTY
  BY DEF Init
<1>2. Consumed = <<>> /\ Len(Consumed) = 0 /\ Len(yyvs) = 0
  BY <1>1, SeqEmpty DEF Consumed
<1>3. Len(Path) = 1
  <2>1. Path = <<0>>
    BY <1>1 DEF Path
  <2> QED
    BY <2>1
<1> DEFINE b == [i \in {1} |-> 0]
<1>4. Placed(Path, yyvs, Consumed, yychar, b)
  BY <1>2, <1>3 DEF Placed
<1> HIDE DEF b
<1>5. yychar \notin Valued
  BY <1>1 DEF YYEMPTY, Valued
<1> QED
  BY <1>1, <1>4, <1>5 DEF MeaningInv

LEMMA MeaningRead == StacksInv /\ ReadsInv /\ MeaningInv /\ ReadToken => MeaningInv'
<1> SUFFICES ASSUME StacksInv, ReadsInv, MeaningInv, ReadToken PROVE MeaningInv'
  OBVIOUS
<1>1. PICK lexeme : /\ yychar' = yylex(lexeme).token
                    /\ yylval' = IF yylex(lexeme).value = NULL THEN yylval ELSE yylex(lexeme).value
                    /\ seen' = Append(seen, [token |-> yylex(lexeme).token,
                                             value |-> yylex(lexeme).value])
  BY DEF ReadToken
<1> DEFINE t == [token |-> yylex(lexeme).token, value |-> yylex(lexeme).value]
<1>2. /\ yychar' \in TokenNames /\ yychar' # YYEMPTY
      /\ yychar' \in Valued => yylval' = t.value
  BY <1>1, Lexed, EmptyName DEF WellLexed
<1>3. seen' # <<>> /\ Last(seen') = t /\ Front(seen') = seen
  BY <1>1, SeqLast DEF StacksInv
<1>4. /\ label = "yybackup" /\ yychar = YYEMPTY
      /\ UNCHANGED <<label, yyss, yyvs, yystate>>
  BY DEF ReadToken, stacks
<1>5. Path' = Path /\ Working /\ Consumed' = seen /\ Consumed = seen
  BY <1>2, <1>3, <1>4 DEF Path, Working, Consumed
<1>6. yystate # 25 /\ yystate # 26
  BY <1>4, <1>5 DEF ReadsInv, YYEMPTY
<1>7. PICK b : Placed(Path, yyvs, seen, YYEMPTY, b)
  BY <1>4, <1>5, <1>6 DEF MeaningInv
<1>8. IsPath(Path) /\ Len(yyvs) + 1 = Len(Path)
  BY DEF StacksInv
<1> DEFINE c == yychar'
<1> HIDE DEF c
<1>9. Placed(Path, yyvs, seen, c, b)
  BY <1>7, <1>8, PlacedRead
<1>10. \E u : Placed(Path', yyvs', Consumed', yychar', u)
  BY <1>4, <1>5, <1>9 DEF c
<1> QED
  BY <1>2, <1>3, <1>4, <1>6, <1>10 DEF MeaningInv

LEMMA MeaningShift == StacksInv /\ ReadsInv /\ MeaningInv /\ Shift => MeaningInv'
<1> SUFFICES ASSUME StacksInv, ReadsInv, MeaningInv, Shift PROVE MeaningInv'
  OBVIOUS
<1>1. /\ Decides /\ Decision > 0 /\ Decision # YYFINAL /\ label = "yybackup"
      /\ yychar' = (IF yychar = "EOF" THEN "EOF" ELSE YYEMPTY)
      /\ yyvs' = Append(yyvs, yylval)
      /\ yystate' = Decision /\ label' = "yysetstate"
      /\ UNCHANGED <<seen, yyss, res>>
  BY DEF Shift, Decides
<1>2. /\ yychar \in Takes(yystate) /\ yystate # 26 /\ Decision = Target(yychar)
      /\ yystate \in States /\ yychar \in TokenNames /\ Symbol(Decision) = yychar
      /\ Decision \in TokenStates
  BY <1>1, Shifted, Decisions
<1>3. /\ IsPath(yyss) /\ Path = yyss /\ Path' = Append(yyss, Decision) /\ Working
      /\ IsSeq(yyvs) /\ Len(yyvs) + 1 = Len(yyss)
  BY <1>1, StackFacts DEF Path, Working, StacksInv
<1>4. /\ seen # <<>> /\ Consumed = Front(seen) /\ IsSeq(Front(seen)) /\ Last(seen).token = yychar
      /\ seen = Append(Front(seen), Last(seen))
  <2>1. seen # <<>> /\ Consumed = Front(seen) /\ Last(seen).token = yychar
    BY <1>2, EmptyName, Waiting DEF ReadsInv
  <2>2. IsSeq(Front(seen)) /\ seen = Append(Front(seen), Last(seen))
    BY <2>1, ReadsLast DEF StacksInv
  <2> QED
    BY <2>1, <2>2
<1>5. yychar' \notin Valued
  BY <1>1 DEF Valued, YYEMPTY
<1>6. CASE yystate = 25
  <2>1. yychar = "EOF" /\ Decision = 26
    BY <1>2, <1>6 DEF Takes, Target, OperandStates
  <2>2. Consumed' = Consumed
    BY <1>1, <2>1 DEF Consumed
  <2>3. res \in Meanings(Consumed)
    BY <1>1, <1>6 DEF MeaningInv
  <2> QED
    BY <1>1, <1>5, <2>1, <2>2, <2>3 DEF MeaningInv
<1>7. CASE yystate # 25
  <2>1. yychar # "EOF" /\ Decision \notin {25, 26}
    <3>1. yychar # "EOF"
      BY <1>2, <1>7, OperatorNames DEF Takes, Strong
    <3> QED
      BY <1>2, <3>1 DEF Symbol, TokenNames
  <2>2. yychar' = YYEMPTY /\ Consumed' = seen
    BY <1>1, <2>1 DEF Consumed
  <2>3. PICK b : Placed(yyss, yyvs, Front(seen), yychar, b)
    BY <1>2, <1>3, <1>4, <1>7 DEF MeaningInv
  <2>4. Decision \in ({2} \cup (11..14)) => yylval = Last(seen).value
    <3>1. ASSUME Decision \in ({2} \cup (11..14)) PROVE yychar \in Valued
      BY <1>2, <3>1 DEF Symbol, Valued
    <3> QED
      BY <3>1 DEF MeaningInv
  <2>5. \E u : Placed(Append(yyss, Decision), Append(yyvs, yylval),
                      Append(Front(seen), Last(seen)), YYEMPTY, u)
    BY <1>2, <1>3, <1>4, <2>3, <2>4, PlacedShift
  <2>6. \E u : Placed(Path', yyvs', Consumed', yychar', u)
    BY <1>1, <1>3, <1>4, <2>2, <2>5
  <2> QED
    BY <1>1, <1>5, <2>1, <2>6 DEF MeaningInv
<1> QED
  BY <1>6, <1>7

LEMMA MeaningReduced ==
  ASSUME StacksInv, ReadsInv, ValuesInv, MeaningInv, Decides, NEW r \in 2..12, Decision = -r,
         NEW v, Becomes(r, v), UNCHANGED <<seen, yychar, yylval, res>>,
         v # NULL => /\ Complete(Arguments(yyvs, Len(yyvs) - Length(r), r))
                     /\ v = Result(r, Rhs(r))
  PROVE  MeaningInv'
<1> DEFINE p == Len(yyss) - Length(r)
           a == Len(yyvs) - Length(r)
           k == Len(yyss)
           s == Consumed
           c == yychar
<1>1. /\ p \in 1..Len(yyss) /\ p < Len(yyss) /\ Len(yyss) = Len(yyvs) + 1
      /\ yyss[p] \in OperandStates
      /\ IsSeq(yyss') /\ Len(yyss') = p
      /\ \A i \in 1..p : yyss'[i] = yyss[i]
  BY Replaced
<1>2. /\ Len(yyvs') = p /\ yyvs'[p] = v
      /\ \A i \in 1..(p - 1) : yyvs'[i] = yyvs[i]
  BY Replaced
<1>3. /\ yystate' = AfterExp(yyss[p]) /\ Path' = Append(yyss', yystate') /\ label' = "yysetstate"
  BY Replaced
<1>4. /\ IsPath(yyss) /\ Path = yyss /\ yystate = yyss[k] /\ Working
      /\ Len(yyvs) \in Nat /\ yystate \in States
  BY StackFacts DEF Decides, Working
<1>5. yychar \notin Takes(yystate) /\ Rule(yystate) = r
  BY Reduced
<1>6. yystate \notin {25, 26}
  BY <1>5 DEF Rule
<1>7. PICK b : Placed(yyss, yyvs, s, c, b)
  BY <1>4, <1>6 DEF MeaningInv
<1>8. IsSeq(s)
  BY ConsumedSeq
<1>9. OnStack(yyss, p, r)
  BY <1>4, <1>5, Handle
<1>10. Fits(LevelOf(r), c)
  <2>1. yystate \notin NoTokenStates => c \in TokenNames
    BY Decisions
  <2> QED
    BY <1>4, <1>5, <2>1, MayStand
<1>11. Own(AfterExp(yyss[p]), LevelOf(r))
  BY <1>1, <1>9, MayFollow
<1>12. Len(yyss) = p + Length(r) /\ a = p - 1 /\ Length(r) \in 1..5
  <2> DEFINE l == Length(r)
             n == Len(yyvs)
  <2>1. l \in 1..5
    BY Lengths
  <2> HIDE DEF l, n
  <2>2. p = k - l /\ a = n - l /\ k = n + 1 /\ n \in Nat
    BY <1>1, <1>4 DEF l, n
  <2>3. k = p + l /\ a = p - 1
    BY <2>1, <2>2
  <2> QED
    BY <2>1, <2>3 DEF l
<1>13. \A i \in 1..Length(r) : Rhs(r)[i] = yyvs[p + i - 1]
  <2>1. \A i \in 1..Length(r) : Rhs(r)[i] = yyvs[a + i]
    BY ValuesNow, SizesReduced
  <2>2. \A i \in 1..Length(r) : a + i = p + i - 1
    BY <1>1, <1>12
  <2> QED
    BY <2>1, <2>2
<1>14. ASSUME v # NULL PROVE Derived(s, b[p] + 1, Len(s), LevelOf(r), v)
  <2>1. Complete(Arguments(yyvs, p - 1, r)) /\ v = Result(r, Rhs(r))
    BY <1>12, <1>14
  <2> DEFINE rhs == Rhs(r)
             P == yyss
  <2>2. \A i \in 1..Length(r) : rhs[i] = yyvs[p + i - 1]
    BY <1>13
  <2> HIDE DEF p, s, c, rhs
  <2>3. Derived(s, b[p] + 1, Len(s), LevelOf(r), Result(r, rhs))
    <3>1. /\ Len(yyvs) \in Nat /\ Len(yyvs) + 1 = Len(yyss) /\ p \in 1..Len(yyss)
          /\ Len(yyss) = p + Length(r) /\ yyss[p] \in OperandStates
      BY <1>1, <1>4, <1>12
    <3>2. Complete(Arguments(yyvs, p - 1, r))
      BY <2>1
    <3> QED
      BY <1>7, <1>8, <1>9, <2>2, <3>1, <3>2, RuleMeans
  <2> QED
    BY <2>1, <2>3 DEF rhs
<1> DEFINE Q == Path'
           w == yyvs'
           q == yystate'
<1>15. Len(Q) = p + 1 /\ Q[p + 1] = q /\ \A i \in 1..p : Q[i] = yyss[i]
  <2> DEFINE z == yyss'
  <2>1. IsSeq(z) /\ Len(z) = p /\ (\A i \in 1..p : z[i] = yyss[i]) /\ Q = Append(z, q)
    BY <1>1, <1>3
  <2> HIDE DEF z, Q, q, p
  <2> QED
    BY <2>1, SeqAppend
<1>16. q = AfterExp(yyss[p]) /\ q \notin TokenStates /\ q \notin {25, 26}
  <2>1. q = AfterExp(yyss[p])
    BY <1>3
  <2>2. 26 \in TokenStates
    BY DEF TokenStates
  <2> QED
    BY <1>1, <2>1, <2>2, AfterExps
<1>17. w[p] = v /\ Len(w) = p /\ \A i \in 1..(p - 1) : w[i] = yyvs[i]
  BY <1>2
<1> HIDE DEF Q, w, q
<1>18. Item(q, c, v, s, b[p], Len(s))
  <2>1. v # NULL => LevelOf(r) \in 1..9
    BY DEF LevelOf
  <2>2. ExpAt(q, c, v, s, b[p], Len(s))
    BY <1>10, <1>11, <1>14, <1>16, <2>1 DEF ExpAt
  <2> QED
    BY <1>16, <2>2 DEF Item
<1>19. \E u : Placed(Q, w, s, c, u)
  <2> HIDE DEF p, s, c
  <2>1. Item(Q[p + 1], c, w[p], s, b[p], Len(s))
    BY <1>15, <1>17, <1>18
  <2>2. /\ IsPath(yyss) /\ Len(yyvs) + 1 = Len(yyss) /\ Len(yyvs) \in Nat
        /\ p \in 1..Len(yyss) /\ p < Len(yyss) /\ yyss[p] \in OperandStates
    BY <1>1, <1>4
  <2>3. Len(Q) = p + 1 /\ \A i \in 1..p : Q[i] = yyss[i]
    BY <1>15
  <2>4. Len(w) = p /\ \A i \in 1..(p - 1) : w[i] = yyvs[i]
    BY <1>17
  <2> QED
    BY <1>7, <1>8, <2>1, <2>2, <2>3, <2>4, PlacedReduce, SMTT(20)
<1>20. Consumed' = Consumed /\ yychar' = yychar
  BY DEF Consumed
<1>21. \E u : Placed(Path', yyvs', Consumed', yychar', u)
  BY <1>19, <1>20 DEF Q, w
<1>22. yystate' \notin {25, 26} /\ (yychar' \in Valued => yylval' = Last(seen').value)
  BY <1>16 DEF q, MeaningInv
<1> QED
  BY <1>21, <1>22 DEF MeaningInv

LEMMA MeaningBuild ==
  StacksInv /\ ReadsInv /\ ValuesInv /\ MeaningInv /\ ReduceExp => MeaningInv'
<1> SUFFICES ASSUME StacksInv, ReadsInv, ValuesInv, MeaningInv, ReduceExp PROVE MeaningInv'
  OBVIOUS
<1>1. PICK r \in 2..11 : Builds(r)
  BY Reduction
<1>2. PICK got \in BOOLEAN : \E v :
        LET s == Semantic(r, Rhs(r))
        IN  v = NewExp(s.op, s.num, s.args, got) /\ Becomes(r, v)
  BY <1>1 DEF Builds
<1> DEFINE s == Semantic(r, Rhs(r))
           a == Len(yyvs) - Length(r)
           args == Arguments(yyvs, a, r)
<1>3. PICK v : v = NewExp(s.op, s.num, s.args, got) /\ Becomes(r, v)
  BY <1>2
<1>4. Decides /\ Decision = -r /\ r \in 2..12 /\ UNCHANGED <<seen, yychar, yylval, res>>
  BY <1>1 DEF Builds
<1>5. a \in Nat /\ \A i \in 1..Length(r) : Rhs(r)[i] = yyvs[a + i]
  <2>1. Becomes(r, v) /\ Held(yyss, yyvs, failures)
    BY <1>3, <1>4, ValuesNow
  <2> QED
    BY <1>4, <2>1, SizesReduced
<1>6. s.args = args
  BY <1>5, Operands
<1>7. Result(r, Rhs(r)) = Node(s.op, s.num, s.args)
  <2>1. r # 12
    OBVIOUS
  <2> QED
    BY <2>1 DEF Result
<1> HIDE DEF s, args
<1>8. v # NULL => Complete(args) /\ v = Result(r, Rhs(r))
  BY <1>3, <1>6, <1>7 DEF NewExp
<1> QED
  BY <1>3, <1>4, <1>8, MeaningReduced DEF args

LEMMA MeaningGroup ==
  StacksInv /\ ReadsInv /\ ValuesInv /\ MeaningInv /\ ReduceParentheses => MeaningInv'
<1> SUFFICES ASSUME StacksInv, ReadsInv, ValuesInv, MeaningInv, ReduceParentheses PROVE MeaningInv'
  OBVIOUS
<1> DEFINE v == Rhs(12)[2]
           a == Len(yyvs) - Length(12)
<1>1. /\ Decides /\ Decision = -12 /\ Becomes(12, v) /\ 12 \in 2..12
      /\ UNCHANGED <<seen, yychar, yylval, res>>
  BY DEF ReduceParentheses
<1>2. a \in Nat /\ \A i \in 1..Length(12) : Rhs(12)[i] = yyvs[a + i]
  <2>1. Held(yyss, yyvs, failures)
    BY <1>1, ValuesNow
  <2> QED
    BY <1>1, <2>1, SizesReduced
<1>3. v = yyvs[a + 2]
  BY <1>2 DEF Length
<1>4. Arguments(yyvs, a, 12) = <<yyvs[a + 2]>>
  BY DEF Arguments
<1>5. v # NULL => Complete(Arguments(yyvs, a, 12)) /\ v = Result(12, Rhs(12))
  BY <1>3, <1>4 DEF Complete, Result
<1> HIDE DEF v
<1> QED
  BY <1>1, <1>5, MeaningReduced

LEMMA MeaningStart == StacksInv /\ ReadsInv /\ MeaningInv /\ ReduceStart => MeaningInv'
<1> SUFFICES ASSUME StacksInv, ReadsInv, MeaningInv, ReduceStart PROVE MeaningInv'
  OBVIOUS
<1>1. /\ Decides /\ Decision = -1 /\ label = "yybackup" /\ UNCHANGED <<seen, yychar, yylval>>
  BY DEF ReduceStart, Decides
<1>2. yystate = 5
  BY <1>1, Reduced, Decisions DEF Rule, States
<1>3. Consumed' = Consumed
  BY <1>1 DEF Consumed
<1>4. CASE Last(yyvs) = NULL
  <2>1. label' = "yyreturn" /\ yystate' = 5
    BY <1>2, <1>4 DEF ReduceStart, Return, stacks
  <2> QED
    BY <1>1, <2>1 DEF MeaningInv, Working
<1>5. CASE Last(yyvs) # NULL
  <2>1. Becomes(1, Last(yyvs)) /\ res' = Last(yyvs)
    BY <1>5 DEF ReduceStart
  <2>2. yystate' = 25 /\ label' = "yysetstate"
    BY <1>1, <2>1, Started
  <2>3. Len(yyss) = 2 /\ yyss[1] = 0 /\ yyss[2] = 5 /\ Len(yyvs) = 1 /\ Path = yyss /\ Working
    BY <1>1, <1>2, StartStack DEF Path, Working
  <2> DEFINE s == Consumed
             c == yychar
             x == yyvs[1]
  <2>4. PICK b : Placed(yyss, yyvs, s, c, b)
    BY <1>2, <2>3 DEF MeaningInv
  <2>5. x = Last(yyvs) /\ x # NULL /\ IsSeq(s)
    BY <1>5, <2>3, ConsumedSeq DEF Last
  <2> HIDE DEF s, c, x
  <2>6. Item(5, Following(yyss, 3, c), x, s, 0, Len(s))
    <3>1. b[1] = 0 /\ b[2] = Len(s) /\ 1 \in 1..Len(yyvs) /\ 1 + 1 = 2 /\ 1 + 2 = 3
      BY <2>3, <2>4 DEF Placed
    <3>2. Item(yyss[2], Following(yyss, 3, c), x, s, b[1], b[2])
      BY <2>4, <3>1 DEF Placed, x
    <3> QED
      BY <2>3, <3>1, <3>2
  <2>7. 5 \notin TokenStates /\ 0 + 1 = 1
    BY DEF TokenStates
  <2>8. PICK l \in 1..9 : Derived(s, 0 + 1, Len(s), l, x)
    BY <2>5, <2>6, <2>7, PlaceBefore
  <2>9. Derived(s, 1, Len(s), l, x)
    BY <2>7, <2>8
  <2>10. Phrase(1, Len(s), l, x) \in Between(Phrases(s)[Len(s)], 1, Len(s), 1)
    <3>1. Len(s) \in Nat /\ Len(s) + 1 - 1 = Len(s) /\ Len(s) \in (Len(s) + 1 - 1)..Len(s)
      BY <2>5, SeqFacts
    <3>2. l >= 1 /\ 1 \in Int
      OBVIOUS
    <3> QED
      BY <2>5, <2>9, <3>1, <3>2, DerivedBetween
  <2>11. x \in Meanings(s)
    BY <2>10 DEF Meanings, Phrase
  <2>12. res' \in Meanings(Consumed')
    BY <1>3, <2>1, <2>5, <2>11 DEF s
  <2> QED
    BY <1>1, <2>2, <2>12 DEF MeaningInv
<1> QED
  BY <1>4, <1>5

LEMMA MeaningOther ==
  StacksInv /\ ReadsInv /\ MeaningInv /\ (PushState \/ Accept \/ SyntaxError \/ UNCHANGED vars)
    => MeaningInv'
<1> SUFFICES ASSUME StacksInv, ReadsInv, MeaningInv,
                    PushState \/ Accept \/ SyntaxError \/ UNCHANGED vars
             PROVE  MeaningInv'
  OBVIOUS
<1>1. UNCHANGED <<seen, yyvs, yystate, yychar, yylval, res>>
  BY DEF PushState, Accept, SyntaxError, vars, stacks
<1>2. Consumed' = Consumed
  BY <1>1 DEF Consumed
<1>3. /\ Working' => Working /\ Path' = Path
      /\ label' # "yyerrhandle" => label # "yyerrhandle"
  <2>1. CASE PushState
    BY <2>1 DEF PushState, Path, Working, Return
  <2>2. CASE Accept
    BY <2>2 DEF Accept, Decides, Path, Working, Return
  <2>3. CASE SyntaxError
    BY <2>3 DEF SyntaxError, Decides, Path, Working
  <2>4. CASE UNCHANGED vars
    BY <2>4 DEF vars, stacks, Path, Working
  <2> QED
    BY <2>1, <2>2, <2>3, <2>4
<1>4. ASSUME Working', yystate' \notin {25, 26}
      PROVE  \E b : Placed(Path', yyvs', Consumed', yychar', b)
  <2>1. PICK b : Placed(Path, yyvs, Consumed, yychar, b)
    BY <1>1, <1>3, <1>4 DEF MeaningInv
  <2> QED
    BY <1>1, <1>2, <1>3, <1>4, <2>1
<1>5. label' # "yyerrhandle" /\ yystate' \in {25, 26} => res' \in Meanings(Consumed')
  BY <1>1, <1>2, <1>3 DEF MeaningInv
<1>6. yychar' \in Valued => yylval' = Last(seen').value
  BY <1>1 DEF MeaningInv
<1> QED
  BY <1>4, <1>5, <1>6 DEF MeaningInv

LEMMA MeaningPop == StacksInv /\ MeaningInv /\ PopError => MeaningInv'
<1> SUFFICES ASSUME StacksInv, MeaningInv, PopError PROVE MeaningInv'
  OBVIOUS
<1>1. label = "yyerrhandle" /\ UNCHANGED <<seen, yychar, yylval>>
  BY DEF PopError
<1>2. yychar' \in Valued => yylval' = Last(seen').value
  BY <1>1 DEF MeaningInv
<1>3. CASE Len(yyss) = 1
  <2>1. label' = "yyreturn" /\ yystate' = yystate
    BY <1>3 DEF PopError, Return, stacks
  <2>2. yystate = 0
    BY <1>1, <1>3, StackFacts DEF IsPath
  <2> QED
    BY <1>2, <2>1, <2>2 DEF MeaningInv, Working
<1>4. CASE Len(yyss) # 1
  <2>1. label' = "yyerrhandle"
    BY <1>1, <1>4 DEF PopError
  <2> QED
    BY <1>2, <2>1 DEF MeaningInv, Working
<1> QED
  BY <1>3, <1>4

(* What stands on the stack is what the grammar makes of the text read so far. *)
THEOREM ValuesMeanTheText == Spec => []MeaningInv
<1>1. StacksInv /\ ReadsInv /\ ValuesInv /\ MeaningInv /\ [Next]_vars => MeaningInv'
  BY MeaningRead, MeaningShift, MeaningBuild, MeaningGroup, MeaningStart, MeaningPop, MeaningOther
     DEF Next
<1> QED
  BY <1>1, StacksAreAPath, TextIsFollowed, ValuesAreHeld, MeaningInit, PTL DEF Spec

(* A text is accepted only as what the grammar says it means, and refused only at the *)
(* first token with which no sentence can begin, unless memory or the stack ran out:  *)
(* for every text, every depth of the stacks and every width of a number.             *)
THEOREM ParserFollowsTheGrammar == Spec => []ParsesTheGrammar
<1>1. StacksInv /\ ReadsInv /\ ValuesInv /\ MeaningInv => ParsesTheGrammar
  <2> SUFFICES ASSUME StacksInv, ReadsInv, ValuesInv, MeaningInv PROVE ParsesTheGrammar
    OBVIOUS
  <2>1. ASSUME yyresult = 0 PROVE Reads(seen).want = "nothing" /\ res \in Meanings(Front(seen))
    <3>1. Reads(seen).want = "nothing"
      BY <2>1 DEF ReadsInv
    <3>2. yystate = 26 /\ label = "yyreturn"
      BY <2>1 DEF ValuesInv, StacksInv
    <3>3. res \in Meanings(Consumed)
      BY <3>2 DEF MeaningInv
    <3>4. yychar # YYEMPTY
      BY <2>1 DEF ReadsInv, YYEMPTY
    <3>5. Consumed = Front(seen)
      BY <3>4 DEF Consumed
    <3> QED
      BY <3>1, <3>3, <3>5
  <2>2. ASSUME yyresult = 1, failures = 0
        PROVE  Reads(seen).want = "bad" /\ Reads(Front(seen)).want # "bad"
    <3> SUFFICES ASSUME ~Refused PROVE FALSE
      BY DEF Refused
    <3>1. yystate = 5 /\ Last(yyvs) = NULL /\ label = "yyreturn"
      BY <2>2 DEF ReadsInv, StacksInv
    <3>2. Len(yyss) = 2 /\ yyss[2] = 5 /\ Len(yyvs) = 1 /\ Path = yyss
      BY <3>1, StartStack DEF Path
    <3>3. yyvs[1].size = 0
      BY <3>1, <3>2 DEF Last, NULL, Value
    <3>4. 5 \notin TokenStates
      BY DEF TokenStates
    <3>5. Held(yyss, yyvs, failures)
      BY <3>2 DEF ValuesInv
    <3>6. 1 \in 1..Len(yyvs) /\ 1 + 1 = 2
      BY <3>2
    <3> QED
      BY <2>2, <3>2, <3>3, <3>4, <3>5, <3>6 DEF Held
  <2> QED
    BY <2>1, <2>2 DEF ParsesTheGrammar
<1> QED
  BY <1>1, StacksAreAPath, TextIsFollowed, ValuesAreHeld, ValuesMeanTheText, PTL
=============================================================================
