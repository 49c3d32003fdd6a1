--------------------------- MODULE SynprotoProofs ---------------------------
(***************************************************************************)
(* Proofs about Synproto, for every set of characters, every digit and     *)
(* every set of calls: what the character machine writes is what the       *)
(* tokens of the format mean, and the server can cut it into packets.      *)
(*                                                                         *)
(* FlattenSeq and Atoi are recursive functions, and what they compute is   *)
(* shown by induction.  The induction theorems of the library take an      *)
(* operator; Induction below is about a set, and follows from its theorem  *)
(* that the finite sets are well founded.                                  *)
(***************************************************************************)
EXTENDS Synproto, SequenceTheorems, FiniteSetTheorems, WellFoundedInduction, TLAPS

-----------------------------------------------------------------------------
(* Induction and recursion.                                                *)

\* A set of natural numbers that is not empty has a least element.
LEMMA LeastElement ==
    ASSUME NEW B \in SUBSET Nat, B # {}
    PROVE  \E m \in B : \A k \in B : m <= k
<1> DEFINE R == StrictSubsetOrdering(Nat)
           F == FiniteSubsetsOf(Nat)
           T == {1 .. n : n \in B}
<1>1. IsWellFoundedOn(R, F)
  BY FS_StrictSubsetOrderingWellFounded
<1>2. T \subseteq F /\ T # {}
  <2>1. \A n \in B : IsFiniteSet(1 .. n) /\ 1 .. n \in SUBSET Nat
    BY FS_Interval
  <2>2. PICK n \in B : TRUE
    OBVIOUS
  <2>3. T # {}
    BY <2>2
  <2>4. T \subseteq F
    BY <2>1, Zenon DEF FiniteSubsetsOf
  <2> QED BY <2>3, <2>4
<1>3. PICK x \in T : \A y \in T : ~ (<<y, x>> \in R)
  <2> HIDE DEF R, F, T
  <2> QED BY <1>1, <1>2, WFMin
<1>4. PICK m \in B : x = 1 .. m
  OBVIOUS
<1>5. ASSUME NEW k \in B, k < m PROVE FALSE
  <2>1. 1 .. k \subseteq 1 .. m /\ m \in 1 .. m /\ m \notin 1 .. k
    BY <1>5
  <2>2. <<1 .. k, 1 .. m>> \in R
    BY <2>1 DEF StrictSubsetOrdering
  <2> QED BY <2>2, <1>3, <1>4
<1> QED BY <1>4, <1>5

\* Induction over the natural numbers.
LEMMA Induction ==
    ASSUME NEW P, 0 \in P, \A n \in Nat : n \in P => n + 1 \in P
    PROVE  Nat \subseteq P
<1> DEFINE B == Nat \ P
<1>1. SUFFICES ASSUME B # {} PROVE FALSE
  OBVIOUS
<1>2. PICK m \in B : \A k \in B : m <= k
  BY <1>1, LeastElement
<1>3. m - 1 \in Nat /\ m - 1 \notin B
  BY <1>2
<1> QED BY <1>3

\* g is the function with values in S that is a at lo and follows from its
\* value one place before everywhere else, up to hi.
IsRecursive(g, S, a, lo, hi, step) ==
    /\ g \in [lo .. hi -> S]
    /\ \A i \in lo .. hi : g[i] = IF i = lo THEN a ELSE step[<<g[i - 1], i>>]

\* A function that is defined from its value one place before exists.
LEMMA Recursion ==
    ASSUME NEW S, NEW a \in S, NEW lo \in Nat, NEW hi \in Nat, lo <= hi,
           NEW step \in [S \X (lo .. hi) -> S]
    PROVE  \E g : IsRecursive(g, S, a, lo, hi, step)
<1> DEFINE Part(n) == \E g \in [lo .. n -> S] :
                \A i \in lo .. n : g[i] = IF i = lo THEN a ELSE step[<<g[i - 1], i>>]
           P == {k \in Nat : lo + k <= hi => Part(lo + k)}
<1>1. 0 \in P
  <2> DEFINE z == [i \in {lo} |-> a]
  <2>1. lo + 0 = lo /\ 0 \in Nat /\ lo .. lo = {lo}
    OBVIOUS
  <2>2. z \in [{lo} -> S] /\ \A i \in {lo} : z[i] = IF i = lo THEN a ELSE step[<<z[i - 1], i>>]
    BY Zenon
  <2> HIDE DEF z
  <2>3. Part(lo)
    BY <2>1, <2>2, Zenon
  <2> QED BY <2>1, <2>3, Zenon
<1>2. ASSUME NEW k \in Nat, k \in P PROVE k + 1 \in P
  <2> DEFINE n == lo + k
  <2>1. k + 1 \in Nat /\ n \in Nat /\ lo <= n /\ lo + (k + 1) = n + 1 /\ (n + 1 <= hi => n <= hi)
    OBVIOUS
  <2>2. SUFFICES ASSUME n + 1 <= hi PROVE Part(n + 1)
    BY <2>1, Zenon
  <2>3. Part(n)
    BY <1>2, <2>1, <2>2, Zenon
  <2>4. PICK g \in [lo .. n -> S] :
            \A i \in lo .. n : g[i] = IF i = lo THEN a ELSE step[<<g[i - 1], i>>]
    BY <2>3, Zenon
  <2> HIDE DEF n, Part, P
  <2> DEFINE h == [i \in lo .. n + 1 |-> IF i = n + 1 THEN step[<<g[n], i>>] ELSE g[i]]
  <2>5. h \in [lo .. n + 1 -> S]
    <3>1. g[n] \in S /\ n + 1 \in lo .. hi
      BY <2>1, <2>2
    <3>2. step[<<g[n], n + 1>>] \in S
      BY <3>1
    <3>3. \A i \in lo .. n + 1 : i # n + 1 => i \in lo .. n
      BY <2>1
    <3> QED BY <3>2, <3>3
  <2>6. ASSUME NEW i \in lo .. n + 1
        PROVE  h[i] = IF i = lo THEN a ELSE step[<<h[i - 1], i>>]
    <3>1. CASE i = n + 1
      <4>1. i # lo /\ i - 1 = n /\ n \in lo .. n + 1 /\ n # n + 1
        BY <2>1, <3>1
      <4>2. h[n] = g[n] /\ h[i] = step[<<g[n], i>>]
        BY <4>1, <3>1, Zenon
      <4> HIDE DEF h
      <4> QED BY <4>1, <4>2
    <3>2. CASE i # n + 1
      <4>1. i \in lo .. n
        BY <2>1, <3>2
      <4>2. h[i] = g[i]
        BY <3>2
      <4>3. i # lo => /\ i - 1 \in lo .. n + 1
                      /\ i - 1 # n + 1
        BY <2>1, <4>1
      <4>4. i # lo => h[i - 1] = g[i - 1]
        BY <4>3, Zenon
      <4> HIDE DEF h
      <4> QED BY <2>4, <4>1, <4>2, <4>4
    <3> QED BY <3>1, <3>2
  <2> HIDE DEF h
  <2> QED BY <2>5, <2>6, Zenon DEF Part
<1>3. hi - lo \in Nat /\ lo + (hi - lo) = hi
  OBVIOUS
<1>4. hi - lo \in P
  <2> HIDE DEF P
  <2> QED BY <1>1, <1>2, <1>3, Induction
<1>5. Part(hi)
  <2>1. lo + (hi - lo) <= hi
    BY <1>3
  <2> QED BY <1>3, <1>4, <2>1, Zenon
<1> QED BY <1>5, Zenon DEF IsRecursive

-----------------------------------------------------------------------------
(* FlattenSeq.                                                             *)

\* No sequences make an empty one.
LEMMA FlattenNothing == FlattenSeq(<< >>) = << >>
BY EmptySeq DEF FlattenSeq

\* f[i] is what the first i sequences of s make together, up to n.
Flattens(f, s, n) ==
    \A i \in 1 .. n : f[i] = IF i = 1 THEN s[i] ELSE f[i - 1] \o s[i]

\* There is one such f.
LEMMA FlattensUnique ==
    ASSUME NEW s, NEW n \in Nat, NEW f, NEW g, Flattens(f, s, n), Flattens(g, s, n)
    PROVE  \A i \in 1 .. n : f[i] = g[i]
<1> DEFINE P == {k \in Nat : k \in 1 .. n => f[k] = g[k]}
<1>1. 0 \in P
  OBVIOUS
<1>2. ASSUME NEW k \in Nat, k \in P PROVE k + 1 \in P
  <2>1. SUFFICES ASSUME k + 1 \in 1 .. n PROVE f[k + 1] = g[k + 1]
    OBVIOUS
  <2>2. (k + 1) - 1 = k /\ (k + 1 = 1 <=> k = 0) /\ (k # 0 => k \in 1 .. n)
    BY <2>1
  <2>3. /\ f[k + 1] = IF k + 1 = 1 THEN s[k + 1] ELSE f[(k + 1) - 1] \o s[k + 1]
        /\ g[k + 1] = IF k + 1 = 1 THEN s[k + 1] ELSE g[(k + 1) - 1] \o s[k + 1]
    BY <2>1, Zenon DEF Flattens
  <2>4. k # 0 => f[k] = g[k]
    BY <1>2, <2>2
  <2> QED BY <2>2, <2>3, <2>4
<1>3. Nat \subseteq P
  <2> HIDE DEF P
  <2> QED BY <1>1, <1>2, Induction
<1> QED BY <1>3

\* FlattenSeq is the recursion it is written as, over sequences.
LEMMA FlattenRecursion ==
    ASSUME NEW S, NEW s \in Seq(Seq(S)), s # << >>
    PROVE  \E f \in [1 .. Len(s) -> Seq(S)] :
              Flattens(f, s, Len(s)) /\ FlattenSeq(s) = f[Len(s)]
<1> DEFINE n == Len(s)
           T == Seq(S)
           step == [p \in T \X (1 .. n) |-> p[1] \o s[p[2]]]
           flatten == CHOOSE f : f = [i \in 1 .. n |-> IF i = 1 THEN s[i] ELSE f[i - 1] \o s[i]]
<1>1. n \in Nat /\ 1 <= n /\ s[1] \in T /\ 1 \in Nat
  <2>1. n # 0
    BY EmptySeq, LenProperties
  <2> QED BY <2>1, LenProperties, ElementOfSeq
<1>2. step \in [T \X (1 .. n) -> T]
  BY ElementOfSeq
<1>3. PICK g \in [1 .. n -> T] :
          \A i \in 1 .. n : g[i] = IF i = 1 THEN s[1] ELSE step[<<g[i - 1], i>>]
  <2> HIDE DEF step, T, n
  <2>1. PICK g : IsRecursive(g, T, s[1], 1, n, step)
    BY <1>1, <1>2, Recursion, Zenon
  <2> QED BY <2>1, Zenon DEF IsRecursive
<1>4. Flattens(g, s, n)
  <2>1. ASSUME NEW i \in 1 .. n PROVE g[i] = IF i = 1 THEN s[i] ELSE g[i - 1] \o s[i]
    <3>1. CASE i = 1
      BY <1>3, <3>1
    <3>2. CASE i # 1
      <4>1. i - 1 \in 1 .. n
        BY <3>2, <1>1
      <4>2. g[i - 1] \in T
        BY <4>1
      <4>3. step[<<g[i - 1], i>>] = g[i - 1] \o s[i]
        BY <4>2
      <4> QED BY <1>3, <3>2, <4>3
    <3> QED BY <3>1, <3>2
  <2> QED BY <2>1, Zenon DEF Flattens
<1>5. g = [i \in 1 .. n |-> IF i = 1 THEN s[i] ELSE g[i - 1] \o s[i]]
  <2> HIDE DEF n
  <2> QED BY <1>4 DEF Flattens
<1>6. FlattenSeq(s) = flatten[n]
  <2>1. Len(s) # 0
    BY <1>1
  <2> QED BY <2>1, Zenon DEF FlattenSeq
<1>7. flatten = [i \in 1 .. n |-> IF i = 1 THEN s[i] ELSE flatten[i - 1] \o s[i]]
  BY <1>5, Zenon
<1> HIDE DEF flatten, step
<1>8. Flattens(flatten, s, n)
  BY <1>7, Zenon DEF Flattens
<1>9. FlattenSeq(s) = g[n]
  <2>1. n \in 1 .. n
    BY <1>1
  <2> HIDE DEF n
  <2>2. \A i \in 1 .. n : flatten[i] = g[i]
    BY <1>1, <1>4, <1>8, FlattensUnique
  <2> QED BY <2>1, <2>2, <1>6
<1> HIDE DEF n, T
<1> QED BY <1>4, <1>9, Zenon DEF n, T

\* What the first k sequences make.
LEMMA FlattenPrefix ==
    ASSUME NEW S, NEW s \in Seq(Seq(S)), NEW f \in [1 .. Len(s) -> Seq(S)],
           Flattens(f, s, Len(s)), NEW k \in 1 .. Len(s)
    PROVE  FlattenSeq(SubSeq(s, 1, k)) = f[k]
<1> DEFINE t == SubSeq(s, 1, k)
<1>1. /\ t \in Seq(Seq(S)) /\ Len(t) = k /\ t # << >> /\ k \in Nat
      /\ \A i \in 1 .. k : t[i] = s[i] /\ i \in 1 .. Len(s)
  <2>1. Len(s) \in Nat /\ k \in Nat /\ k <= Len(s) /\ 1 <= k
    OBVIOUS
  <2>2. t \in Seq(Seq(S)) /\ Len(t) = k
    BY <2>1
  <2>3. \A i \in 1 .. k : t[i] = s[i] /\ i \in 1 .. Len(s)
    BY <2>1
  <2>4. t # << >>
    <3> HIDE DEF t
    <3>1. Len(t) # 0
      BY <2>1, <2>2
    <3> QED BY <3>1, EmptySeq
  <2> QED BY <2>1, <2>2, <2>3, <2>4
<1> HIDE DEF t
<1>2. PICK g \in [1 .. k -> Seq(S)] : Flattens(g, t, k) /\ FlattenSeq(t) = g[k]
  BY <1>1, FlattenRecursion
<1>3. Flattens(f, t, k)
  BY <1>1, Zenon DEF Flattens
<1>4. f[k] = g[k]
  <2>1. k \in 1 .. k
    OBVIOUS
  <2>2. k \in Nat
    BY <1>1
  <2>3. Flattens(g, t, k)
    BY <1>2
  <2>4. \A i \in 1 .. k : f[i] = g[i]
    <3>1. \A ff, gg : Flattens(ff, t, k) /\ Flattens(gg, t, k) => \A i \in 1 .. k : ff[i] = gg[i]
      BY <2>2, FlattensUnique
    <3> QED BY <3>1, <2>3, <1>3, Zenon
  <2> QED BY <2>1, <2>4
<1> QED BY <1>2, <1>4 DEF t

\* One sequence more.
LEMMA FlattenStep ==
    ASSUME NEW S, NEW s \in Seq(Seq(S)), NEW k \in Nat, k < Len(s)
    PROVE  /\ FlattenSeq(SubSeq(s, 1, k)) \in Seq(S)
           /\ FlattenSeq(SubSeq(s, 1, k + 1)) = FlattenSeq(SubSeq(s, 1, k)) \o s[k + 1]
<1>1. PICK f \in [1 .. Len(s) -> Seq(S)] : Flattens(f, s, Len(s))
  <2>1. s # << >>
    OBVIOUS
  <2> QED BY <2>1, FlattenRecursion
<1>2. k + 1 \in 1 .. Len(s) /\ s[k + 1] \in Seq(S) /\ (k + 1) - 1 = k
  OBVIOUS
<1>3. FlattenSeq(SubSeq(s, 1, k + 1)) = f[k + 1]
  BY <1>1, <1>2, FlattenPrefix
<1>4. f[k + 1] = IF k + 1 = 1 THEN s[k + 1] ELSE f[(k + 1) - 1] \o s[k + 1]
  BY <1>1, <1>2, Zenon DEF Flattens
<1>5. CASE k = 0
  <2>1. SubSeq(s, 1, k) = << >>
    BY <1>5
  <2>2. FlattenSeq(SubSeq(s, 1, k)) = << >>
    BY <2>1, FlattenNothing
  <2>3. FlattenSeq(SubSeq(s, 1, k + 1)) = s[k + 1]
    BY <1>3, <1>4, <1>5
  <2>4. << >> \in Seq(S) /\ << >> \o s[k + 1] = s[k + 1]
    BY <1>2, ConcatEmptySeq, EmptySeq
  <2> QED BY <2>2, <2>3, <2>4
<1>6. CASE k # 0
  <2>1. k \in 1 .. Len(s) /\ k + 1 # 1
    BY <1>6
  <2>2. FlattenSeq(SubSeq(s, 1, k)) = f[k] /\ f[k] \in Seq(S)
    BY <1>1, <2>1, FlattenPrefix
  <2> QED BY <1>2, <1>3, <1>4, <2>1, <2>2
<1> QED BY <1>5, <1>6

\* What is made is a sequence.
LEMMA FlattenType ==
    ASSUME NEW S, NEW s \in Seq(Seq(S))
    PROVE  FlattenSeq(s) \in Seq(S)
<1>1. CASE s = << >>
  BY <1>1, FlattenNothing, EmptySeq, Zenon
<1>2. CASE s # << >>
  <2>1. PICK f \in [1 .. Len(s) -> Seq(S)] : FlattenSeq(s) = f[Len(s)]
    BY <1>2, FlattenRecursion
  <2>2. Len(s) \in 1 .. Len(s)
    BY <1>2, EmptySeq, LenProperties
  <2> QED BY <2>1, <2>2
<1> QED BY <1>1, <1>2

\* Where sequence k + 1 stands in what all of them make.
LEMMA FlattenPlace ==
    ASSUME NEW S, NEW s \in Seq(Seq(S)), NEW k \in Nat, k < Len(s)
    PROVE  LET from == Len(FlattenSeq(SubSeq(s, 1, k)))
           IN  /\ from + Len(s[k + 1]) <= Len(FlattenSeq(s))
               /\ \A j \in 1 .. Len(s[k + 1]) : FlattenSeq(s)[from + j] = s[k + 1][j]
<1> DEFINE F(m) == FlattenSeq(SubSeq(s, 1, m))
           from == Len(F(k))
           e == s[k + 1]
           There(m) == /\ from + Len(e) <= Len(F(m))
                       /\ \A j \in 1 .. Len(e) : F(m)[from + j] = e[j]
           P == {d \in Nat : k + 1 + d <= Len(s) => There(k + 1 + d)}
<1>1. F(k) \in Seq(S) /\ e \in Seq(S) /\ F(k + 1) = F(k) \o e
  <2>1. F(k) \in Seq(S) /\ F(k + 1) = F(k) \o e
    BY FlattenStep, Zenon
  <2>2. e \in Seq(S)
    OBVIOUS
  <2> QED BY <2>1, <2>2, Zenon
<1>2. 0 \in P
  <2>1. There(k + 1)
    <3> HIDE DEF F, e
    <3> QED BY <1>1
  <2>2. k + 1 + 0 = k + 1
    OBVIOUS
  <2> QED BY <2>1, <2>2, Zenon
<1>3. ASSUME NEW d \in Nat, d \in P PROVE d + 1 \in P
  <2> DEFINE m == k + 1 + d
  <2>1. m \in Nat /\ k + 1 + (d + 1) = m + 1 /\ (m + 1 <= Len(s) => m < Len(s) /\ m <= Len(s)) /\ d + 1 \in Nat
    OBVIOUS
  <2>2. SUFFICES ASSUME m + 1 <= Len(s) PROVE There(m + 1)
    BY <2>1, Zenon
  <2>3. There(m)
    BY <1>3, <2>1, <2>2, Zenon
  <2>4. F(m) \in Seq(S) /\ s[m + 1] \in Seq(S) /\ F(m + 1) = F(m) \o s[m + 1]
    <3>1. m + 1 \in 1 .. Len(s)
      BY <2>1, <2>2
    <3>2. s[m + 1] \in Seq(S) /\ m < Len(s)
      BY <2>1, <2>2, <3>1
    <3> HIDE DEF m
    <3> QED BY <2>1, <3>2, FlattenStep, Zenon
  <2> HIDE DEF m, F, from, e
  <2>5. F(m) \in Seq(S) /\ s[m + 1] \in Seq(S) /\ e \in Seq(S) /\ F(k) \in Seq(S)
    BY <1>1, <2>4
  <2> QED BY <2>3, <2>4, <2>5 DEF from
<1>4. There(Len(s))
  <2>1. Len(s) - (k + 1) \in Nat /\ k + 1 + (Len(s) - (k + 1)) = Len(s) /\ Len(s) <= Len(s)
    OBVIOUS
  <2> HIDE DEF P
  <2>2. Len(s) - (k + 1) \in P
    BY <1>2, <1>3, <2>1, Induction
  <2> QED BY <2>1, <2>2, Zenon DEF P
<1>5. F(Len(s)) = FlattenSeq(s)
  <2>1. SubSeq(s, 1, Len(s)) = s
    OBVIOUS
  <2> QED BY <2>1
<1> QED BY <1>4, <1>5, Zenon

-----------------------------------------------------------------------------
(* Tokens, formats, arguments and messages.                                *)

\* What a token is written as.
LEMMA WrittenTypes ==
    ASSUME NEW t \in Token
    PROVE  /\ t.type = "lit" => /\ Written(t) = <<t.is>>
                                /\ t.is \in Char /\ t.is # "%"
           /\ t.type = "int" => \E c \in Digit : /\ Written(t) = <<"%", c, "i">>
                                                 /\ DigitValue[c] = t.width
           /\ t.type = "str" => Written(t) = <<"%", "s">> /\ t.is \in Nat
           /\ t.type \in {"lit", "int", "str"}
           /\ Written(t) \in Seq(Char)
           /\ Len(Written(t)) \in {1, 2, 3}
<1>1. CASE t \in [type : {"lit"}, is : Char \ {"%"}]
  <2>1. t.type = "lit" /\ t.is \in Char /\ t.is # "%" /\ Written(t) = <<t.is>>
    BY <1>1 DEF Written
  <2> QED BY <2>1
<1>2. CASE t \in [type : {"int"}, is : Int, width : {DigitValue[c] : c \in Digit}]
  <2>1. t.type = "int" /\ t.width \in {DigitValue[c] : c \in Digit}
    BY <1>2
  <2> DEFINE d == CHOOSE c \in Digit : DigitValue[c] = t.width
  <2>2. d \in Digit /\ DigitValue[d] = t.width
    <3>1. \E c \in Digit : DigitValue[c] = t.width
      BY <2>1, Zenon
    <3> QED BY <3>1, Zenon
  <2>3. Written(t) = <<"%", d, "i">>
    BY <2>1, Zenon DEF Written
  <2> HIDE DEF d
  <2>4. d \in Char /\ "%" \in Char /\ "i" \in Char
    BY <2>2, CharsOK
  <2> QED BY <2>1, <2>2, <2>3, <2>4
<1>3. CASE t \in [type : {"str"}, is : Nat]
  <2>1. t.type = "str" /\ t.is \in Nat /\ Written(t) = <<"%", "s">>
    BY <1>3 DEF Written
  <2>2. "%" \in Char /\ "s" \in Char
    BY CharsOK
  <2> QED BY <2>1, <2>2
<1> QED BY <1>1, <1>2, <1>3 DEF Token

\* The format of the first k tokens, and where the next one stands in it.
LEMMA FormatStep ==
    ASSUME NEW tokens \in Seq(Token), NEW k \in Nat, k < Len(tokens)
    PROVE  LET before == FormatOf(SubSeq(tokens, 1, k))
               next == Written(tokens[k + 1])
           IN  /\ before \in Seq(Char)
               /\ FormatOf(SubSeq(tokens, 1, k + 1)) = before \o next
               /\ Len(before) + Len(next) <= Len(FormatOf(tokens))
               /\ \A j \in 1 .. Len(next) : FormatOf(tokens)[Len(before) + j] = next[j]
<1> DEFINE w == [j \in DOMAIN tokens |-> Written(tokens[j])]
<1>1. w \in Seq(Seq(Char)) /\ Len(w) = Len(tokens) /\ w[k + 1] = Written(tokens[k + 1])
  <2>1. \A j \in 1 .. Len(tokens) : tokens[j] \in Token /\ Written(tokens[j]) \in Seq(Char)
    BY WrittenTypes
  <2>2. k + 1 \in 1 .. Len(tokens) /\ DOMAIN tokens = 1 .. Len(tokens) /\ Len(tokens) \in Nat
    OBVIOUS
  <2> QED BY <2>1, <2>2
<1>2. ASSUME NEW m \in 0 .. Len(tokens)
      PROVE  FormatOf(SubSeq(tokens, 1, m)) = FlattenSeq(SubSeq(w, 1, m))
  <2>1. [j \in DOMAIN SubSeq(tokens, 1, m) |-> Written(SubSeq(tokens, 1, m)[j])] = SubSeq(w, 1, m)
    OBVIOUS
  <2> QED BY <2>1, Zenon DEF FormatOf
<1>3. /\ FormatOf(tokens) = FlattenSeq(w)
      /\ FormatOf(SubSeq(tokens, 1, k)) = FlattenSeq(SubSeq(w, 1, k))
      /\ FormatOf(SubSeq(tokens, 1, k + 1)) = FlattenSeq(SubSeq(w, 1, k + 1))
  <2>1. k \in 0 .. Len(tokens) /\ k + 1 \in 0 .. Len(tokens)
    OBVIOUS
  <2>2. FormatOf(tokens) = FlattenSeq(w)
    BY Zenon DEF FormatOf
  <2> HIDE DEF w
  <2> QED BY <1>2, <2>1, <2>2
<1> HIDE DEF w
<1>4. k < Len(w)
  BY <1>1
<1>5. /\ FlattenSeq(SubSeq(w, 1, k)) \in Seq(Char)
      /\ FlattenSeq(SubSeq(w, 1, k + 1)) = FlattenSeq(SubSeq(w, 1, k)) \o w[k + 1]
  BY <1>1, <1>4, FlattenStep, Zenon
<1>6. /\ Len(FlattenSeq(SubSeq(w, 1, k))) + Len(w[k + 1]) <= Len(FlattenSeq(w))
      /\ \A j \in 1 .. Len(w[k + 1]) :
            FlattenSeq(w)[Len(FlattenSeq(SubSeq(w, 1, k))) + j] = w[k + 1][j]
  BY <1>1, <1>4, FlattenPlace, Zenon
<1> QED BY <1>1, <1>3, <1>5, <1>6, Zenon

\* A format is a sequence of characters.
LEMMA FormatType ==
    ASSUME NEW tokens \in Seq(Token)
    PROVE  FormatOf(tokens) \in Seq(Char)
<1> DEFINE w == [j \in DOMAIN tokens |-> Written(tokens[j])]
<1>1. w \in Seq(Seq(Char))
  <2>1. \A j \in 1 .. Len(tokens) : tokens[j] \in Token /\ Written(tokens[j]) \in Seq(Char)
    BY WrittenTypes
  <2> QED BY <2>1
<1>2. FormatOf(tokens) = FlattenSeq(w)
  BY Zenon DEF FormatOf
<1> HIDE DEF w
<1> QED BY <1>1, <1>2, FlattenType, Zenon

\* The arguments of the first k tokens.
LEMMA ArgsStep ==
    ASSUME NEW tokens \in Seq(Token), NEW k \in Nat, k < Len(tokens)
    PROVE  /\ ArgsOf(SubSeq(tokens, 1, k)) \in Seq(Token)
           /\ ArgsOf(SubSeq(tokens, 1, k + 1)) =
                IF tokens[k + 1].type = "lit" THEN ArgsOf(SubSeq(tokens, 1, k))
                ELSE Append(ArgsOf(SubSeq(tokens, 1, k)), tokens[k + 1])
           /\ tokens[k + 1].type # "lit" =>
                LET n == Len(ArgsOf(SubSeq(tokens, 1, k + 1)))
                IN  n <= Len(ArgsOf(tokens)) /\ ArgsOf(tokens)[n] = tokens[k + 1]
<1> DEFINE w == [j \in DOMAIN tokens |-> IF tokens[j].type = "lit" THEN << >> ELSE <<tokens[j]>>]
<1>1. w \in Seq(Seq(Token)) /\ Len(w) = Len(tokens)
  <2>1. \A j \in 1 .. Len(tokens) : tokens[j] \in Token
    OBVIOUS
  <2>2. \A j \in 1 .. Len(tokens) :
            (IF tokens[j].type = "lit" THEN << >> ELSE <<tokens[j]>>) \in Seq(Token)
    BY <2>1
  <2>3. DOMAIN tokens = 1 .. Len(tokens) /\ Len(tokens) \in Nat
    OBVIOUS
  <2> QED BY <2>2, <2>3
<1>2. ASSUME NEW m \in 0 .. Len(tokens)
      PROVE  ArgsOf(SubSeq(tokens, 1, m)) = FlattenSeq(SubSeq(w, 1, m))
  <2>1. [j \in DOMAIN SubSeq(tokens, 1, m) |->
            IF SubSeq(tokens, 1, m)[j].type = "lit" THEN << >> ELSE <<SubSeq(tokens, 1, m)[j]>>]
        = SubSeq(w, 1, m)
    OBVIOUS
  <2> QED BY <2>1, Zenon DEF ArgsOf
<1>3. /\ ArgsOf(tokens) = FlattenSeq(w)
      /\ ArgsOf(SubSeq(tokens, 1, k)) = FlattenSeq(SubSeq(w, 1, k))
      /\ ArgsOf(SubSeq(tokens, 1, k + 1)) = FlattenSeq(SubSeq(w, 1, k + 1))
  <2>1. k \in 0 .. Len(tokens) /\ k + 1 \in 0 .. Len(tokens)
    OBVIOUS
  <2>2. ArgsOf(tokens) = FlattenSeq(w)
    BY Zenon DEF ArgsOf
  <2> HIDE DEF w
  <2> QED BY <1>2, <2>1, <2>2
<1>4. /\ w[k + 1] = IF tokens[k + 1].type = "lit" THEN << >> ELSE <<tokens[k + 1]>>
      /\ tokens[k + 1] \in Token
  <2>1. k + 1 \in 1 .. Len(tokens) /\ k + 1 \in DOMAIN tokens
    OBVIOUS
  <2>2. tokens[k + 1] \in Token
    BY <2>1
  <2> QED BY <2>1, <2>2, Zenon
<1> HIDE DEF w
<1>5. k < Len(w)
  BY <1>1
<1> DEFINE before == FlattenSeq(SubSeq(w, 1, k))
<1>6. before \in Seq(Token) /\ FlattenSeq(SubSeq(w, 1, k + 1)) = before \o w[k + 1]
  BY <1>1, <1>5, FlattenStep, Zenon
<1>7. /\ Len(before) + Len(w[k + 1]) <= Len(FlattenSeq(w))
      /\ \A j \in 1 .. Len(w[k + 1]) : FlattenSeq(w)[Len(before) + j] = w[k + 1][j]
  BY <1>1, <1>5, FlattenPlace, Zenon
<1> HIDE DEF before
<1>8. CASE tokens[k + 1].type = "lit"
  <2>1. w[k + 1] = << >>
    BY <1>4, <1>8
  <2>2. before \o w[k + 1] = before
    BY <1>6, <2>1, ConcatEmptySeq
  <2> QED BY <1>3, <1>6, <1>8, <2>2, Zenon DEF before
<1>9. CASE tokens[k + 1].type # "lit"
  <2>1. w[k + 1] = <<tokens[k + 1]>> /\ Len(w[k + 1]) = 1 /\ w[k + 1][1] = tokens[k + 1]
    BY <1>4, <1>9
  <2>2. before \o w[k + 1] = Append(before, tokens[k + 1])
    BY <1>4, <1>6, <2>1, AppendIsConcat
  <2>3. Len(Append(before, tokens[k + 1])) = Len(before) + 1
    BY <1>4, <1>6, AppendProperties
  <2>4. Len(before) + 1 <= Len(FlattenSeq(w)) /\ FlattenSeq(w)[Len(before) + 1] = tokens[k + 1]
    BY <1>7, <2>1
  <2> QED BY <1>3, <1>6, <1>9, <2>2, <2>3, <2>4 DEF before
<1> QED BY <1>8, <1>9

\* The arguments are the tokens that are not literal text.
Argument == {t \in Token : t.type # "lit"}

\* What the format string makes of its tokens is a list of arguments.
LEMMA ArgsType ==
    ASSUME NEW tokens \in Seq(Token)
    PROVE  ArgsOf(tokens) \in Seq(Argument)
<1> DEFINE w == [j \in DOMAIN tokens |-> IF tokens[j].type = "lit" THEN << >> ELSE <<tokens[j]>>]
<1>1. w \in Seq(Seq(Argument))
  <2>1. \A j \in 1 .. Len(tokens) : tokens[j] \in Token
    OBVIOUS
  <2>2. \A j \in 1 .. Len(tokens) : tokens[j].type # "lit" => tokens[j] \in Argument
    BY <2>1, Zenon DEF Argument
  <2>3. \A j \in 1 .. Len(tokens) :
            (IF tokens[j].type = "lit" THEN << >> ELSE <<tokens[j]>>) \in Seq(Argument)
    BY <2>2
  <2>4. DOMAIN tokens = 1 .. Len(tokens) /\ Len(tokens) \in Nat
    OBVIOUS
  <2> QED BY <2>3, <2>4
<1>2. ArgsOf(tokens) = FlattenSeq(w)
  BY Zenon DEF ArgsOf
<1> HIDE DEF w
<1> QED BY <1>1, <1>2, FlattenType, Zenon

\* What an integer or a string argument brings is an integer: its value, or
\* its length.
LEMMA ArgumentIs == \A t \in Argument : t.is \in Int
<1>1. TAKE t \in Argument
<1>2. t \in Token /\ t.type # "lit"
  BY DEF Argument
<1>3. CASE t \in [type : {"int"}, is : Int, width : {DigitValue[c] : c \in Digit}]
  BY <1>3
<1>4. CASE t \in [type : {"str"}, is : Nat]
  BY <1>4
<1>5. CASE t \in [type : {"lit"}, is : Char \ {"%"}]
  BY <1>2, <1>5
<1> QED BY <1>2, <1>3, <1>4, <1>5, Zenon DEF Token

\* A token means a sequence of cells.
LEMMA MeaningType ==
    ASSUME NEW tokens \in Seq(Token), NEW k \in Nat, k < Len(tokens)
    PROVE  LET t == tokens[k + 1]
               n == Len(ArgsOf(SubSeq(tokens, 1, k + 1)))
           IN  /\ Meaning(tokens, k + 1) \in Seq(Cell)
               /\ t.type = "lit" => Meaning(tokens, k + 1) = <<<<0, t.is>>>>
               /\ t.type = "int" =>
                    /\ Meaning(tokens, k + 1) = [i \in 1 .. t.width |-> <<n, t.width - i>>]
                    /\ Len(Meaning(tokens, k + 1)) = t.width
               /\ t.type = "str" =>
                    /\ Meaning(tokens, k + 1) = [i \in 1 .. t.is |-> <<n, i>>]
                    /\ Len(Meaning(tokens, k + 1)) = t.is
<1> DEFINE t == tokens[k + 1]
           n == Len(ArgsOf(SubSeq(tokens, 1, k + 1)))
<1>1. t \in Token
  OBVIOUS
<1>2. t.type # "lit" => n \in Nat \ {0}
  <2>1. t.type # "lit" => ArgsOf(SubSeq(tokens, 1, k + 1)) = Append(ArgsOf(SubSeq(tokens, 1, k)), t)
    BY ArgsStep
  <2>2. ArgsOf(SubSeq(tokens, 1, k)) \in Seq(Token)
    BY ArgsStep
  <2> QED BY <1>1, <2>1, <2>2, AppendProperties
<1>3. CASE t.type = "lit"
  <2>1. Meaning(tokens, k + 1) = <<<<0, t.is>>>>
    BY <1>3, Zenon DEF Meaning
  <2>2. <<0, t.is>> \in Cell
    BY <1>1, <1>3, WrittenTypes DEF Cell
  <2> DEFINE c == <<0, t.is>>
  <2>3. <<c>> \in Seq(Cell)
    <3> HIDE DEF c
    <3>1. c \in Cell
      BY <2>2 DEF c
    <3> QED BY <3>1
  <2>4. ~ (t.type = "int") /\ ~ (t.type = "str")
    BY <1>3
  <2> QED BY <2>1, <2>3, <2>4, Zenon
<1>4. CASE t.type = "int"
  <2> DEFINE m == [i \in 1 .. t.width |-> <<n, t.width - i>>]
  <2>1. Meaning(tokens, k + 1) = m
    BY <1>4 DEF Meaning
  <2>2. t.width \in Nat
    <3>1. PICK c \in Digit : DigitValue[c] = t.width
      BY <1>1, <1>4, WrittenTypes
    <3> QED BY <3>1, CharsOK
  <2> HIDE DEF t, n
  <2>3. \A i \in 1 .. t.width : <<n, t.width - i>> \in Cell
    BY <1>2, <1>4, <2>2 DEF Cell
  <2>4. m \in Seq(Cell) /\ Len(m) = t.width
    BY <2>2, <2>3
  <2> QED BY <1>4, <2>1, <2>4 DEF t, n
<1>5. CASE t.type = "str"
  <2> DEFINE m == [i \in 1 .. t.is |-> <<n, i>>]
  <2>1. Meaning(tokens, k + 1) = m
    BY <1>5 DEF Meaning
  <2>2. t.is \in Nat
    BY <1>1, <1>5, WrittenTypes
  <2> HIDE DEF t, n
  <2>3. \A i \in 1 .. t.is : <<n, i>> \in Cell
    BY <1>2, <1>5, <2>2 DEF Cell
  <2>4. m \in Seq(Cell) /\ Len(m) = t.is
    BY <2>2, <2>3
  <2> QED BY <1>5, <2>1, <2>4 DEF t, n
<1>6. t.type \in {"lit", "int", "str"}
  BY <1>1, WrittenTypes
<1> QED BY <1>3, <1>4, <1>5, <1>6

\* What the first k tokens come to, and where the next one stands in the
\* message.
LEMMA MessageStep ==
    ASSUME NEW tokens \in Seq(Token), NEW k \in Nat, k < Len(tokens)
    PROVE  LET before == MessageOf(SubSeq(tokens, 1, k))
               next == Meaning(tokens, k + 1)
           IN  /\ before \in Seq(Cell)
               /\ MessageOf(SubSeq(tokens, 1, k + 1)) = before \o next
               /\ Len(before) + Len(next) <= Len(MessageOf(tokens))
               /\ \A j \in 1 .. Len(next) : MessageOf(tokens)[Len(before) + j] = next[j]
<1> DEFINE w == [j \in DOMAIN tokens |-> Meaning(tokens, j)]
<1>1. w \in Seq(Seq(Cell)) /\ Len(w) = Len(tokens) /\ w[k + 1] = Meaning(tokens, k + 1)
  <2>1. ASSUME NEW j \in 1 .. Len(tokens) PROVE Meaning(tokens, j) \in Seq(Cell)
    <3>1. j - 1 \in Nat /\ j - 1 < Len(tokens) /\ (j - 1) + 1 = j
      OBVIOUS
    <3>2. Meaning(tokens, (j - 1) + 1) \in Seq(Cell)
      BY <3>1, MeaningType
    <3> QED BY <3>1, <3>2
  <2>2. k + 1 \in 1 .. Len(tokens) /\ DOMAIN tokens = 1 .. Len(tokens) /\ Len(tokens) \in Nat
    OBVIOUS
  <2> QED BY <2>1, <2>2
<1>2. ASSUME NEW m \in 0 .. Len(tokens)
      PROVE  MessageOf(SubSeq(tokens, 1, m)) = FlattenSeq(SubSeq(w, 1, m))
  <2> DEFINE T == SubSeq(tokens, 1, m)
  <2>1. DOMAIN T = 1 .. m /\ \A j \in 1 .. m : T[j] = tokens[j] /\ SubSeq(T, 1, j) = SubSeq(tokens, 1, j)
    OBVIOUS
  <2> HIDE DEF T
  <2>2. \A j \in 1 .. m : Meaning(T, j) = Meaning(tokens, j)
    BY <2>1 DEF Meaning
  <2>3. [j \in DOMAIN T |-> Meaning(T, j)] = [j \in 1 .. m |-> Meaning(tokens, j)]
    BY <2>1, <2>2
  <2>4. [j \in 1 .. m |-> Meaning(tokens, j)] = SubSeq(w, 1, m)
    OBVIOUS
  <2> QED BY <2>3, <2>4, Zenon DEF MessageOf, T
<1>3. /\ MessageOf(tokens) = FlattenSeq(w)
      /\ MessageOf(SubSeq(tokens, 1, k)) = FlattenSeq(SubSeq(w, 1, k))
      /\ MessageOf(SubSeq(tokens, 1, k + 1)) = FlattenSeq(SubSeq(w, 1, k + 1))
  <2>1. k \in 0 .. Len(tokens) /\ k + 1 \in 0 .. Len(tokens)
    OBVIOUS
  <2>2. MessageOf(tokens) = FlattenSeq(w)
    BY Zenon DEF MessageOf
  <2> HIDE DEF w
  <2> QED BY <1>2, <2>1, <2>2
<1> HIDE DEF w
<1>4. k < Len(w)
  BY <1>1
<1>5. /\ FlattenSeq(SubSeq(w, 1, k)) \in Seq(Cell)
      /\ FlattenSeq(SubSeq(w, 1, k + 1)) = FlattenSeq(SubSeq(w, 1, k)) \o w[k + 1]
  BY <1>1, <1>4, FlattenStep, Zenon
<1>6. /\ Len(FlattenSeq(SubSeq(w, 1, k))) + Len(w[k + 1]) <= Len(FlattenSeq(w))
      /\ \A j \in 1 .. Len(w[k + 1]) :
            FlattenSeq(w)[Len(FlattenSeq(SubSeq(w, 1, k))) + j] = w[k + 1][j]
  BY <1>1, <1>4, FlattenPlace, Zenon
<1> QED BY <1>1, <1>3, <1>5, <1>6, Zenon

\* Nothing comes to nothing, and all tokens are all tokens.
LEMMA NoTokens ==
    ASSUME NEW tokens \in Seq(Token)
    PROVE  /\ FormatOf(SubSeq(tokens, 1, 0)) = << >>
           /\ ArgsOf(SubSeq(tokens, 1, 0)) = << >>
           /\ MessageOf(SubSeq(tokens, 1, 0)) = << >>
           /\ SubSeq(tokens, 1, Len(tokens)) = tokens
<1> DEFINE none == SubSeq(tokens, 1, 0)
<1>1. none = << >> /\ DOMAIN none = {}
  OBVIOUS
<1> HIDE DEF none
<1>2. /\ [k \in DOMAIN none |-> Written(none[k])] = << >>
      /\ [k \in DOMAIN none |-> IF none[k].type = "lit" THEN << >> ELSE <<none[k]>>] = << >>
      /\ [k \in DOMAIN none |-> Meaning(none, k)] = << >>
  BY <1>1
<1>3. FormatOf(none) = << >> /\ ArgsOf(none) = << >> /\ MessageOf(none) = << >>
  BY <1>2, FlattenNothing, Zenon DEF FormatOf, ArgsOf, MessageOf
<1> QED BY <1>3 DEF none

-----------------------------------------------------------------------------
(* Atoi, which reads all the digits that follow.                           *)

\* Where the digits end.
LEMMA RunEnds ==
    ASSUME fmt \in Seq(Char), in_pos \in 1 .. Len(fmt), fmt[in_pos] \in Digit
    PROVE  /\ RunEnd \in in_pos .. Len(fmt)
           /\ \A i \in in_pos .. RunEnd : fmt[i] \in Digit
           /\ RunEnd < Len(fmt) => fmt[RunEnd + 1] \notin Digit
<1> DEFINE Ends(m) == /\ \A i \in in_pos .. m : fmt[i] \in Digit
                      /\ m < Len(fmt) => fmt[m + 1] \notin Digit
           B == {m \in in_pos .. Len(fmt) : m < Len(fmt) => fmt[m + 1] \notin Digit}
<1>1. B \in SUBSET Nat /\ Len(fmt) \in B
  OBVIOUS
<1>2. PICK m \in B : \A k \in B : m <= k
  <2> HIDE DEF B
  <2>1. B # {}
    BY <1>1
  <2> QED BY <1>1, <2>1, LeastElement
<1>3. ASSUME NEW i \in in_pos .. m PROVE fmt[i] \in Digit
  <2>1. CASE i = in_pos
    BY <2>1
  <2>2. CASE i # in_pos
    <3>1. i - 1 \in in_pos .. Len(fmt) /\ i - 1 < m /\ i - 1 < Len(fmt) /\ (i - 1) + 1 = i
      BY <2>2
    <3>2. i - 1 \notin B
      <4> HIDE DEF B
      <4>1. i - 1 \in B => m <= i - 1
        BY <1>2
      <4> QED BY <1>1, <1>2, <3>1, <4>1
    <3> QED BY <3>1, <3>2
  <2> QED BY <2>1, <2>2
<1>4. m \in in_pos .. Len(fmt) /\ Ends(m)
  BY <1>2, <1>3
<1>5. RunEnd = CHOOSE e \in in_pos .. Len(fmt) : Ends(e)
  BY DEF RunEnd
<1> HIDE DEF Ends
<1>6. RunEnd \in in_pos .. Len(fmt) /\ Ends(RunEnd)
  BY <1>4, <1>5, Zenon
<1> QED BY <1>6 DEF Ends

\* The value of a run of digits is a number, and of a single one its own.
LEMMA AtoiValue ==
    ASSUME fmt \in Seq(Char), in_pos \in 1 .. Len(fmt), fmt[in_pos] \in Digit
    PROVE  /\ Atoi \in Nat
           /\ in_pos < Len(fmt) /\ fmt[in_pos + 1] \notin Digit => Atoi = DigitValue[fmt[in_pos]]
<1> DEFINE p == in_pos
           m == RunEnd
           value == CHOOSE f : f = [i \in p .. m |->
                        IF i = p THEN DigitValue[fmt[i]] ELSE 10 * f[i - 1] + DigitValue[fmt[i]]]
           step == [x \in Nat \X (p .. m) |-> 10 * x[1] + DigitValue[fmt[x[2]]]]
<1>1. /\ p \in Nat /\ m \in Nat /\ p <= m /\ m <= Len(fmt)
      /\ \A i \in p .. m : DigitValue[fmt[i]] \in Nat
  BY RunEnds, CharsOK
<1>2. Atoi = value[m]
  BY Zenon DEF Atoi
<1>3. PICK g : IsRecursive(g, Nat, DigitValue[fmt[p]], p, m, step)
  <2>1. DigitValue[fmt[p]] \in Nat
    BY <1>1
  <2>2. step \in [Nat \X (p .. m) -> Nat]
    BY <1>1
  <2> HIDE DEF step, p, m
  <2> QED BY <1>1, <2>1, <2>2, Recursion, Zenon
<1>4. g \in [p .. m -> Nat]
  BY <1>3, Zenon DEF IsRecursive
<1>5. g = [i \in p .. m |->
              IF i = p THEN DigitValue[fmt[i]] ELSE 10 * g[i - 1] + DigitValue[fmt[i]]]
  <2>1. ASSUME NEW i \in p .. m
        PROVE  g[i] = IF i = p THEN DigitValue[fmt[i]] ELSE 10 * g[i - 1] + DigitValue[fmt[i]]
    <3>1. g[i] = IF i = p THEN DigitValue[fmt[p]] ELSE step[<<g[i - 1], i>>]
      BY <1>3, Zenon DEF IsRecursive
    <3>2. i # p => step[<<g[i - 1], i>>] = 10 * g[i - 1] + DigitValue[fmt[i]]
      <4>1. SUFFICES ASSUME i # p PROVE step[<<g[i - 1], i>>] = 10 * g[i - 1] + DigitValue[fmt[i]]
        OBVIOUS
      <4>2. i - 1 \in p .. m
        BY <1>1, <4>1
      <4>3. g[i - 1] \in Nat
        BY <1>4, <4>2
      <4> QED BY <4>3
    <3> QED BY <3>1, <3>2
  <2> HIDE DEF step
  <2> QED BY <1>4, <2>1
<1>6. value = [i \in p .. m |->
                  IF i = p THEN DigitValue[fmt[i]] ELSE 10 * value[i - 1] + DigitValue[fmt[i]]]
  BY <1>5, Zenon
<1> HIDE DEF value, step
<1> DEFINE P == {k \in Nat : p + k <= m => value[p + k] \in Nat}
<1>7. 0 \in P
  BY <1>1, <1>6
<1>8. ASSUME NEW k \in Nat, k \in P PROVE k + 1 \in P
  <2>1. SUFFICES ASSUME p + (k + 1) <= m PROVE value[p + (k + 1)] \in Nat
    OBVIOUS
  <2>2. /\ p + (k + 1) \in p .. m /\ p + (k + 1) # p /\ (p + (k + 1)) - 1 = p + k /\ p + k <= m
    BY <1>1, <2>1
  <2>3. value[p + (k + 1)] = 10 * value[p + k] + DigitValue[fmt[p + (k + 1)]]
    BY <1>6, <2>2
  <2>4. value[p + k] \in Nat /\ DigitValue[fmt[p + (k + 1)]] \in Nat
    BY <1>1, <1>8, <2>2
  <2> QED BY <2>3, <2>4
<1>9. Atoi \in Nat
  <2>1. m - p \in Nat /\ p + (m - p) = m /\ p + (m - p) <= m
    BY <1>1
  <2>2. m - p \in P
    <3> HIDE DEF P
    <3> QED BY <1>7, <1>8, <2>1, Induction
  <2> QED BY <1>2, <2>1, <2>2
<1>10. ASSUME p < Len(fmt), fmt[p + 1] \notin Digit PROVE Atoi = DigitValue[fmt[p]]
  <2>1. m = p
    BY <1>1, <1>10, RunEnds
  <2> QED BY <1>1, <1>2, <1>6, <2>1
<1> QED BY <1>9, <1>10

-----------------------------------------------------------------------------
(* The types.                                                              *)

\* The tokens of the call, its format and its arguments.
LEMMA JobTypes ==
    ASSUME TypeOK
    PROVE  /\ job.tokens \in Seq(Token)
           /\ job.force_sz \in 0 .. 255
           /\ fmt = FormatOf(job.tokens)
           /\ fmt \in Seq(Char)
           /\ Args \in Seq(Argument)
<1>1. job \in Job /\ fmt = FormatOf(job.tokens)
  BY DEF TypeOK
<1>2. job \in [tokens : Seq(Token), force_sz : 0 .. 255]
  BY <1>1, JobsOK
<1>3. job.tokens \in Seq(Token) /\ job.force_sz \in 0 .. 255
  BY <1>2
<1>4. fmt \in Seq(Char)
  BY <1>1, <1>3, FormatType
<1>5. Args \in Seq(Argument)
  BY <1>3, ArgsType DEF Args
<1> QED BY <1>1, <1>3, <1>4, <1>5

\* What the bytes of an argument are.
LEMMA StringCells ==
    ASSUME NEW k \in Nat \ {0}, NEW n \in Int
    PROVE  /\ [i \in 1 .. n |-> <<k, i>>] \in Seq(Cell)
           /\ \A i \in 1 .. n : <<k, i>>[1] = k
<1>1. \A i \in 1 .. n : <<k, i>> \in Cell
  BY DEF Cell
<1>2. CASE n >= 0
  BY <1>1, <1>2
<1>3. CASE n < 0
  <2>1. 1 .. n = {} /\ 1 .. n = 1 .. 0
    BY <1>3
  <2> QED BY <2>1
<1> QED BY <1>2, <1>3

\* Every call begins with values of the right types.
LEMMA TypeInit == Init => TypeOK
<1>1. SUFFICES ASSUME Init PROVE TypeOK
  OBVIOUS
<1>2. job \in Job
  BY <1>1 DEF Init
<1>3. job \in [tokens : Seq(Token), force_sz : 0 .. 255]
  BY <1>2, JobsOK
<1>4. fmt \in Seq(Char)
  BY <1>1, <1>3, FormatType DEF Init
<1> QED BY <1>1, <1>4 DEF Init, TypeOK

\* The cells that are written come after those that were.
LEMMA WritesCells ==
    ASSUME TypeOK, NEW more \in Seq(Cell), NEW n \in Nat, argn <= n,
           \A i \in DOMAIN more : more[i][1] \in 0 .. n
    PROVE  /\ out \o more \in Seq(Cell)
           /\ \A i \in DOMAIN (out \o more) : (out \o more)[i][1] \in 0 .. n
<1>1. out \in Seq(Cell) /\ argn \in Nat /\ \A i \in DOMAIN out : out[i][1] \in 0 .. argn
  BY DEF TypeOK
<1>2. \A i \in DOMAIN out : out[i][1] \in 0 .. n
  BY <1>1
<1>3. out \o more \in Seq(Cell)
  BY <1>1
<1>4. ASSUME NEW i \in DOMAIN (out \o more) PROVE (out \o more)[i][1] \in 0 .. n
  <2>1. i \in 1 .. Len(out) + Len(more)
    BY <1>1, <1>3
  <2>2. CASE i \in DOMAIN out
    <3>1. (out \o more)[i] = out[i]
      BY <1>1, <2>2
    <3> QED BY <1>2, <2>2, <3>1
  <2>3. CASE i \notin DOMAIN out
    <3>1. i - Len(out) \in DOMAIN more /\ (out \o more)[i] = more[i - Len(out)]
      BY <1>1, <2>1, <2>3
    <3> QED BY <3>1
  <2> QED BY <2>2, <2>3
<1> QED BY <1>3, <1>4

\* Every step keeps the types.
LEMMA TypeStep == TypeOK /\ [Next]_vars => TypeOK'
<1>1. SUFFICES ASSUME TypeOK, [Next]_vars PROVE TypeOK'
  OBVIOUS
<1> USE <1>1
<1>2. /\ fmt \in Seq(Char) /\ Args \in Seq(Argument)
      /\ in_pos \in 1 .. Len(fmt) + 1 /\ argn \in 0 .. in_pos - 1 /\ in_token \in Nat
      /\ out \in Seq(Cell) /\ read \in 0 .. Len(out) /\ word \in Nat \cup {-1}
      /\ \A i \in DOMAIN out : out[i][1] \in 0 .. argn
      /\ job.force_sz \in 0 .. 255
  BY JobTypes DEF TypeOK
<1>3. CASE Percent
  BY <1>2, <1>3 DEF TypeOK, Percent, Reading
<1>4. CASE Width
  <2>1. Atoi \in Nat
    BY <1>2, <1>4, AtoiValue DEF Width, Reading
  <2>2. in_token' \in Nat
    BY <1>4, <2>1 DEF Width
  <2> QED BY <1>2, <1>4, <2>2 DEF TypeOK, Width, Reading
<1>5. CASE Integer
  <2> DEFINE more == BytesOf(argn + 1, in_token)
  <2>1. in_token \in {1, 2, 4} /\ argn + 1 \in Nat \ {0}
    BY <1>2, <1>5 DEF Integer
  <2>2. \A i \in 1 .. in_token : <<argn + 1, in_token - i>> \in Cell
    BY <2>1 DEF Cell
  <2>3. more \in Seq(Cell) /\ \A i \in DOMAIN more : more[i][1] \in 0 .. argn + 1
    BY <2>1, <2>2 DEF BytesOf
  <2> HIDE DEF more
  <2>4. out \o more \in Seq(Cell) /\ \A i \in DOMAIN (out \o more) : (out \o more)[i][1] \in 0 .. argn + 1
    <3>1. argn <= argn + 1 /\ argn + 1 \in Nat
      BY <1>2
    <3> QED BY <3>1, <2>3, WritesCells
  <2>5. out' = out \o more /\ argn' = argn + 1 /\ in_token' = 0
    BY <1>5 DEF Integer, more
  <2>6. out' \in Seq(Cell) /\ \A i \in DOMAIN out' : out'[i][1] \in 0 .. argn'
    BY <2>4, <2>5, Zenon
  <2>7. Len(out') >= Len(out)
    BY <1>2, <2>3, <2>5
  <2> QED BY <1>2, <1>5, <2>5, <2>6, <2>7 DEF TypeOK, Integer, Reading
<1>6. CASE BadWidth
  BY <1>2, <1>6 DEF TypeOK, BadWidth
<1>7. CASE String
  <2> DEFINE n == IF argn' <= Len(Args) THEN Args[argn'].is ELSE 0
             more == [i \in 1 .. n |-> <<argn', i>>]
  <2>1. argn' = argn + 1 /\ argn' \in Nat \ {0}
    BY <1>2, <1>7 DEF String
  <2>2. n \in Int
    <3>1. argn' <= Len(Args) => Args[argn'] \in Argument
      BY <1>2, <2>1
    <3> QED BY <3>1, ArgumentIs
  <2>3. out' = out \o more
    BY <1>7 DEF String
  <2> HIDE DEF n
  <2>4. more \in Seq(Cell) /\ \A i \in DOMAIN more : more[i][1] \in 0 .. argn'
    <3>1. more \in Seq(Cell)
      BY <2>1, <2>2, StringCells
    <3>2. \A i \in 1 .. n : more[i] = <<argn', i>> /\ DOMAIN more = 1 .. n
      OBVIOUS
    <3> QED BY <2>1, <3>1, <3>2
  <2> HIDE DEF more
  <2>5. out \o more \in Seq(Cell) /\ \A i \in DOMAIN (out \o more) : (out \o more)[i][1] \in 0 .. argn'
    <3>1. argn <= argn' /\ argn' \in Nat
      BY <1>2, <2>1
    <3> QED BY <3>1, <2>4, WritesCells
  <2>6. out' \in Seq(Cell) /\ \A i \in DOMAIN out' : out'[i][1] \in 0 .. argn'
    BY <2>3, <2>5, Zenon
  <2>7. Len(out') >= Len(out)
    BY <1>2, <2>3, <2>4
  <2>8. /\ in_pos <= Len(fmt) /\ in_pos' = in_pos + 1 /\ in_token' = in_token
        /\ UNCHANGED <<job, fmt, word, read>>
    BY <1>7 DEF String, Reading
  <2> QED BY <1>2, <2>1, <2>6, <2>7, <2>8 DEF TypeOK
<1>8. CASE Literal
  <2> DEFINE c == <<0, fmt[in_pos]>>
  <2>1. c \in Cell /\ c[1] = 0
    BY <1>2, <1>8 DEF Literal, Reading, Cell
  <2>2. out' = Append(out, c) /\ argn' = argn /\ in_token' = 0
    BY <1>8 DEF Literal
  <2> HIDE DEF c
  <2>3. out' \in Seq(Cell) /\ Len(out') = Len(out) + 1 /\ \A i \in DOMAIN out' : out'[i][1] \in 0 .. argn'
    <3>1. out' \in Seq(Cell) /\ Len(out') = Len(out) + 1
      BY <1>2, <2>1, <2>2
    <3>2. \A i \in 1 .. Len(out) + 1 : out'[i] = IF i \in DOMAIN out THEN out[i] ELSE c
      BY <1>2, <2>1, <2>2
    <3>3. DOMAIN out' = 1 .. Len(out) + 1
      BY <3>1
    <3> QED BY <1>2, <2>1, <2>2, <3>1, <3>2, <3>3
  <2> QED BY <1>2, <1>8, <2>2, <2>3 DEF TypeOK, Literal, Reading
<1>9. CASE Send
  BY <1>2, <1>9 DEF TypeOK, Send, LengthWord
<1>10. CASE ServerReads
  <2>1. PacketLength \in Int
    <3>1. CASE read = 0
      BY <1>2, <3>1 DEF PacketLength
    <3>2. CASE read # 0
      <4>1. out[read + 1][1] \in DOMAIN Args => Args[out[read + 1][1]].is \in Int
        BY <1>2, ArgumentIs
      <4> QED BY <3>2, <4>1 DEF PacketLength
    <3> QED BY <3>1, <3>2
  <2>2. Start \in Nat
    BY <1>2 DEF Start
  <2> QED BY <1>2, <1>10, <2>1, <2>2 DEF TypeOK, ServerReads, CanRead
<1>11. CASE UNCHANGED vars
  BY <1>11 DEF TypeOK, vars
<1> QED BY <1>1, <1>3, <1>4, <1>5, <1>6, <1>7, <1>8, <1>9, <1>10, <1>11 DEF Next

\* Every variable keeps its type: the numbers atoi reads are numbers, an
\* argument is counted at most once a character, the bytes written belong to
\* arguments that were taken, and the server is never past the end.
THEOREM TypeCorrect == Spec => []TypeOK
<1>1. Init => TypeOK
  BY TypeInit
<1>2. TypeOK /\ [Next]_vars => TypeOK'
  BY TypeStep
<1> QED BY <1>1, <1>2, PTL DEF Spec

-----------------------------------------------------------------------------
(* The machine and the tokens.                                             *)

\* Where token k + 1 stands in the format, by what it is written as.
LEMMA TokenPlace ==
    ASSUME TypeOK, NEW k \in Nat, k < Len(job.tokens)
    PROVE  LET t == job.tokens[k + 1]
               L == Len(FormatOf(First(k)))
               after == Len(FormatOf(First(k + 1)))
           IN  /\ L \in Nat /\ after <= Len(fmt)
               /\ t.type \in {"lit", "int", "str"}
               /\ t.type = "lit" => /\ after = L + 1
                                    /\ fmt[L + 1] = t.is /\ t.is # "%"
               /\ t.type = "int" => /\ after = L + 3
                                    /\ fmt[L + 1] = "%" /\ fmt[L + 3] = "i"
                                    /\ fmt[L + 2] \in Digit
                                    /\ DigitValue[fmt[L + 2]] = t.width
               /\ t.type = "str" => /\ after = L + 2
                                    /\ fmt[L + 1] = "%" /\ fmt[L + 2] = "s"
               /\ Written(t)[1] = fmt[L + 1]
<1> DEFINE t == job.tokens[k + 1]
           w == Written(t)
           before == FormatOf(First(k))
<1>1. job.tokens \in Seq(Token) /\ fmt = FormatOf(job.tokens) /\ t \in Token
  <2>1. job.tokens \in Seq(Token) /\ fmt = FormatOf(job.tokens)
    BY JobTypes
  <2> QED BY <2>1
<1>2. /\ before \in Seq(Char)
      /\ FormatOf(First(k + 1)) = before \o w
      /\ Len(before) + Len(w) <= Len(fmt)
      /\ \A j \in 1 .. Len(w) : fmt[Len(before) + j] = w[j]
  <2>1. k \in Nat /\ k < Len(job.tokens)
    OBVIOUS
  <2> QED BY <1>1, <2>1, FormatStep, Zenon DEF First
<1>3. w \in Seq(Char) /\ t.type \in {"lit", "int", "str"}
  BY <1>1, WrittenTypes
<1> HIDE DEF before, t
<1>4. Len(FormatOf(First(k + 1))) = Len(before) + Len(w) /\ Len(before) \in Nat
  BY <1>2, <1>3
<1>5. CASE t.type = "lit"
  <2>1. w = <<t.is>> /\ t.is # "%"
    BY <1>1, <1>5, WrittenTypes
  <2> HIDE DEF w
  <2>2. Len(w) = 1 /\ w[1] = t.is
    BY <2>1
  <2>3. fmt[Len(before) + 1] = w[1]
    BY <1>2, <2>2
  <2> QED BY <1>2, <1>3, <1>4, <1>5, <2>1, <2>2, <2>3 DEF before, t, w
<1>6. CASE t.type = "int"
  <2>1. PICK c \in Digit : w = <<"%", c, "i">> /\ DigitValue[c] = t.width
    BY <1>1, <1>6, WrittenTypes
  <2> HIDE DEF w
  <2>2. Len(w) = 3 /\ w[1] = "%" /\ w[2] = c /\ w[3] = "i"
    BY <2>1
  <2>3. /\ fmt[Len(before) + 1] = w[1] /\ fmt[Len(before) + 2] = w[2]
        /\ fmt[Len(before) + 3] = w[3]
    BY <1>2, <2>2
  <2> QED BY <1>2, <1>3, <1>4, <1>6, <2>1, <2>2, <2>3 DEF before, t, w
<1>7. CASE t.type = "str"
  <2>1. w = <<"%", "s">>
    BY <1>1, <1>7, WrittenTypes
  <2> HIDE DEF w
  <2>2. Len(w) = 2 /\ w[1] = "%" /\ w[2] = "s"
    BY <2>1
  <2>3. fmt[Len(before) + 1] = w[1] /\ fmt[Len(before) + 2] = w[2]
    BY <1>2, <2>2
  <2> QED BY <1>2, <1>3, <1>4, <1>7, <2>1, <2>2, <2>3 DEF before, t, w
<1> QED BY <1>3, <1>5, <1>6, <1>7

\* The machine is at the start of a token, or inside one.
At(k) == k \in 0 .. Len(job.tokens) /\ ReadAndWritten(k) /\ (Between(k) \/ Inside(k))

\* Between two tokens a character that could be part of a token is taken for
\* one only after a string, where a supported format has none.
LEMMA NothingPending ==
    ASSUME TypeOK, Supported(job.tokens), NEW k \in Nat, k < Len(job.tokens),
           Between(k), fmt[in_pos] \in Digit \cup {"i", "s"}
    PROVE  in_token = 0
<1>1. SUFFICES ASSUME k > 0, job.tokens[k].type = "str" PROVE FALSE
  BY DEF Between
<1>2. k \in 1 .. Len(job.tokens) - 1
  BY <1>1, JobTypes
<1>3. Written(job.tokens[k + 1])[1] \notin Digit \cup {"i", "s"}
  BY <1>1, <1>2, Zenon DEF Supported
<1>4. Written(job.tokens[k + 1])[1] = fmt[in_pos]
  BY TokenPlace DEF Between
<1> QED BY <1>3, <1>4

\* While there is a character to read there is a token to read.
LEMMA MoreTokens ==
    ASSUME TypeOK, NEW k, At(k), in_pos <= Len(fmt)
    PROVE  k \in Nat /\ k < Len(job.tokens)
<1>1. job.tokens \in Seq(Token) /\ k \in 0 .. Len(job.tokens) /\ fmt = FormatOf(job.tokens)
  BY JobTypes DEF At
<1>2. CASE k = Len(job.tokens)
  <2>1. First(k) = job.tokens
    BY <1>1, <1>2, NoTokens DEF First
  <2>2. Len(fmt) \in Nat
    BY JobTypes
  <2> QED BY <1>1, <1>2, <2>1, <2>2 DEF At, Between, Inside
<1> QED BY <1>1, <1>2

\* What reading token k + 1 adds to the arguments and the message.
LEMMA TokenMeans ==
    ASSUME TypeOK, NEW k \in Nat, k < Len(job.tokens), ReadAndWritten(k)
    PROVE  LET t == job.tokens[k + 1]
               args == Len(ArgsOf(First(k + 1)))
               written == MessageOf(First(k + 1))
           IN  /\ out \in Seq(Cell)
               /\ t.type = "lit" => /\ args = argn
                                    /\ written = out \o <<<<0, t.is>>>>
               /\ t.type # "lit" => /\ args = argn + 1
                                    /\ args <= Len(Args) /\ Args[args] = t
               /\ t.type = "int" =>
                    written = out \o [i \in 1 .. t.width |-> <<args, t.width - i>>]
               /\ t.type = "str" =>
                    written = out \o [i \in 1 .. t.is |-> <<args, i>>]
<1> DEFINE t == job.tokens[k + 1]
           args == ArgsOf(First(k + 1))
<1>1. job.tokens \in Seq(Token) /\ k \in Nat /\ k < Len(job.tokens)
  BY JobTypes
<1>2. /\ argn = Len(ArgsOf(First(k)))
      /\ out = MessageOf(First(k))
  BY DEF ReadAndWritten
<1>3. /\ ArgsOf(First(k)) \in Seq(Token)
      /\ args = IF t.type = "lit" THEN ArgsOf(First(k)) ELSE Append(ArgsOf(First(k)), t)
      /\ t.type # "lit" => Len(args) <= Len(Args) /\ Args[Len(args)] = t
  BY <1>1, ArgsStep, Zenon DEF First, Args
<1>4. t \in Token
  BY <1>1
<1>5. Len(args) = IF t.type = "lit" THEN argn ELSE argn + 1
  <2> HIDE DEF t, args
  <2> QED BY <1>2, <1>3, <1>4, AppendProperties
<1>6. out \in Seq(Cell) /\ MessageOf(First(k + 1)) = out \o Meaning(job.tokens, k + 1)
  BY <1>1, <1>2, MessageStep, Zenon DEF First
<1>7. /\ t.type = "lit" => Meaning(job.tokens, k + 1) = <<<<0, t.is>>>>
      /\ t.type = "int" => Meaning(job.tokens, k + 1) = [i \in 1 .. t.width |-> <<Len(args), t.width - i>>]
      /\ t.type = "str" => Meaning(job.tokens, k + 1) = [i \in 1 .. t.is |-> <<Len(args), i>>]
  BY <1>1, MeaningType, Zenon DEF First
<1> HIDE DEF t, args
<1> QED BY <1>3, <1>5, <1>6, <1>7 DEF t, args

\* Having read token k + 1, the machine is between it and the next.
LEMMA Arrives ==
    ASSUME TypeOK, NEW k \in Nat, k < Len(job.tokens), job' = job,
           in_pos' = Len(FormatOf(First(k + 1))) + 1,
           argn' = Len(ArgsOf(First(k + 1))),
           out' = MessageOf(First(k + 1)),
           in_token' = 0 \/ job.tokens[k + 1].type = "str"
    PROVE  At(k + 1)'
<1>1. k + 1 \in 0 .. Len(job.tokens) /\ k + 1 > 0
  BY JobTypes
<1>2. First(k + 1)' = First(k + 1)
  BY DEF First
<1>3. ReadAndWritten(k + 1)'
  BY <1>2 DEF ReadAndWritten
<1>4. Between(k + 1)'
  BY <1>1, <1>2 DEF Between
<1> QED BY <1>1, <1>3, <1>4 DEF At

\* The machine gets into token k + 1, or on inside it.
LEMMA Enters ==
    ASSUME NEW k, At(k), k < Len(job.tokens), job' = job, argn' = argn, out' = out,
           job.tokens[k + 1].type # "lit",
           \/ /\ in_pos' = Len(FormatOf(First(k))) + 2
              /\ in_token' = 4
           \/ /\ job.tokens[k + 1].type = "int"
              /\ in_pos' = Len(FormatOf(First(k))) + 3
              /\ in_token' = job.tokens[k + 1].width
    PROVE  At(k)'
<1>1. First(k)' = First(k)
  BY DEF First
<1>2. ReadAndWritten(k)'
  BY <1>1 DEF ReadAndWritten, At
<1>3. Inside(k)'
  BY <1>1 DEF Inside
<1> QED BY <1>2, <1>3 DEF At

\* Every step that reads a character of a supported format leads from a place
\* of a token to a place of a token, and writes what the token means.
LEMMA ReadStep ==
    ASSUME TypeOK, Supported(job.tokens), NEW k, At(k),
           Percent \/ Width \/ Integer \/ BadWidth \/ String \/ Literal
    PROVE  \E m : At(m)'
<1> DEFINE t == job.tokens[k + 1]
           L == Len(FormatOf(First(k)))
           c == fmt[in_pos]
<1>1. in_pos <= Len(fmt) /\ job' = job
  BY DEF Percent, Width, Integer, BadWidth, String, Literal, Reading
<1>2. k \in Nat /\ k < Len(job.tokens)
  BY <1>1, MoreTokens
<1>3. /\ "%" \notin Digit /\ "i" \notin Digit /\ "s" \notin Digit
      /\ in_pos \in 1 .. Len(fmt) /\ Len(fmt) \in Nat /\ fmt \in Seq(Char)
  BY <1>1, CharsOK, JobTypes DEF TypeOK
<1>4. /\ L \in Nat /\ Len(FormatOf(First(k + 1))) <= Len(fmt)
      /\ t.type \in {"lit", "int", "str"}
      /\ t.type = "lit" => /\ Len(FormatOf(First(k + 1))) = L + 1
                           /\ fmt[L + 1] = t.is /\ t.is # "%"
      /\ t.type = "int" => /\ Len(FormatOf(First(k + 1))) = L + 3
                           /\ fmt[L + 1] = "%" /\ fmt[L + 3] = "i"
                           /\ fmt[L + 2] \in Digit
                           /\ DigitValue[fmt[L + 2]] = t.width
      /\ t.type = "str" => /\ Len(FormatOf(First(k + 1))) = L + 2
                           /\ fmt[L + 1] = "%" /\ fmt[L + 2] = "s"
  BY <1>2, TokenPlace
<1>5. ReadAndWritten(k)
  BY DEF At
<1>6. /\ out \in Seq(Cell)
      /\ t.type = "lit" => /\ Len(ArgsOf(First(k + 1))) = argn
                           /\ MessageOf(First(k + 1)) = out \o <<<<0, t.is>>>>
      /\ t.type # "lit" => /\ Len(ArgsOf(First(k + 1))) = argn + 1
                           /\ argn + 1 <= Len(Args) /\ Args[argn + 1] = t
      /\ t.type = "int" =>
            MessageOf(First(k + 1)) = out \o [i \in 1 .. t.width |-> <<argn + 1, t.width - i>>]
      /\ t.type = "str" =>
            MessageOf(First(k + 1)) = out \o [i \in 1 .. t.is |-> <<argn + 1, i>>]
  <2>1. /\ out \in Seq(Cell)
        /\ t.type = "lit" => /\ Len(ArgsOf(First(k + 1))) = argn
                             /\ MessageOf(First(k + 1)) = out \o <<<<0, t.is>>>>
        /\ t.type # "lit" => /\ Len(ArgsOf(First(k + 1))) = argn + 1
                             /\ Len(ArgsOf(First(k + 1))) <= Len(Args)
                             /\ Args[Len(ArgsOf(First(k + 1)))] = t
        /\ t.type = "int" =>
              MessageOf(First(k + 1))
                  = out \o [i \in 1 .. t.width |-> <<Len(ArgsOf(First(k + 1))), t.width - i>>]
        /\ t.type = "str" =>
              MessageOf(First(k + 1))
                  = out \o [i \in 1 .. t.is |-> <<Len(ArgsOf(First(k + 1))), i>>]
    BY <1>2, <1>5, TokenMeans, Zenon
  <2> HIDE DEF t
  <2>2. t.type = "int" => t.type # "lit"
    OBVIOUS
  <2>3. t.type = "str" => t.type # "lit"
    OBVIOUS
  <2> QED BY <2>1, <2>2, <2>3, Zenon
<1>7. t.type = "int" => t.width \in {1, 2, 4}
  <2>1. k + 1 \in DOMAIN job.tokens
    BY <1>2, JobTypes
  <2> QED BY <2>1 DEF Supported
<1>8. /\ Between(k) => /\ in_pos = L + 1
                       /\ c \in Digit \cup {"i", "s"} => in_token = 0
      /\ Inside(k) => /\ t.type # "lit"
                      /\ \/ in_pos = L + 2 /\ in_token = 4
                         \/ t.type = "int" /\ in_pos = L + 3 /\ in_token = t.width
      /\ Between(k) \/ Inside(k)
  BY <1>2, NothingPending DEF Between, Inside, At
<1> HIDE DEF L, t, c
<1>9. CASE Percent
  <2>1. c = "%" /\ in_pos' = in_pos + 1 /\ in_token' = 4 /\ argn' = argn /\ out' = out
    BY <1>9 DEF Percent, Reading, c
  <2>2. in_pos = L + 1 /\ t.type # "lit"
    BY <1>3, <1>4, <1>8, <2>1 DEF c
  <2>3. in_pos' = L + 2
    BY <1>4, <2>1, <2>2
  <2>4. At(k)'
    BY <1>1, <1>2, <2>1, <2>2, <2>3, Enters DEF t, L
  <2> QED BY <2>4
<1>10. CASE Width
  <2>1. c \in Digit /\ in_token # 0 /\ in_pos' = in_pos + 1 /\ in_token' = Atoi /\ argn' = argn /\ out' = out
    BY <1>10 DEF Width, Reading, c
  <2>2. in_pos = L + 2 /\ t.type = "int"
    BY <1>3, <1>4, <1>8, <2>1 DEF c
  <2>3. in_pos < Len(fmt) /\ fmt[in_pos + 1] \notin Digit /\ DigitValue[fmt[in_pos]] = t.width
    <3>1. in_pos + 1 = L + 3 /\ L + 3 <= Len(fmt)
      BY <1>4, <2>2
    <3> QED BY <1>3, <1>4, <2>2, <3>1
  <2>4. Atoi = t.width
    BY <1>3, <2>1, <2>3, AtoiValue DEF c
  <2>5. in_pos' = L + 3 /\ t.type # "lit"
    BY <1>4, <2>1, <2>2
  <2>6. At(k)'
    BY <1>1, <1>2, <2>1, <2>2, <2>4, <2>5, Enters DEF t, L
  <2> QED BY <2>6
<1>11. CASE Integer
  <2>1. /\ c = "i" /\ in_token \in {1, 2, 4} /\ in_pos' = in_pos + 1 /\ in_token' = 0
        /\ argn' = argn + 1 /\ out' = out \o BytesOf(argn + 1, in_token)
    BY <1>11 DEF Integer, Reading, c
  <2>2. in_pos = L + 3 /\ t.type = "int" /\ in_token = t.width
    BY <1>3, <1>4, <1>8, <2>1 DEF c
  <2>3. in_pos' = Len(FormatOf(First(k + 1))) + 1 /\ t.type # "lit"
    BY <1>4, <2>1, <2>2
  <2>4. out' = MessageOf(First(k + 1))
    BY <1>6, <2>1, <2>2, Zenon DEF BytesOf
  <2>5. argn' = Len(ArgsOf(First(k + 1)))
    BY <1>6, <2>1, <2>3
  <2>6. At(k + 1)'
    BY <1>1, <1>2, <2>1, <2>3, <2>4, <2>5, Arrives
  <2> QED BY <2>6
<1>12. CASE BadWidth
  <2>1. c = "i" /\ in_token \notin {0, 1, 2, 4}
    BY <1>12 DEF BadWidth, c
  <2> QED BY <1>3, <1>4, <1>7, <1>8, <2>1 DEF c
<1>13. CASE String
  <2>1. /\ c = "s" /\ in_token # 0 /\ in_pos' = in_pos + 1 /\ argn' = argn + 1
        /\ out' = out \o [i \in 1 .. IF argn' <= Len(Args) THEN Args[argn'].is ELSE 0 |-> <<argn', i>>]
    BY <1>13 DEF String, Reading, c
  <2>2. in_pos = L + 2 /\ t.type = "str"
    BY <1>3, <1>4, <1>8, <2>1 DEF c
  <2>3. in_pos' = Len(FormatOf(First(k + 1))) + 1 /\ t.type # "lit"
    BY <1>4, <2>1, <2>2
  <2>4. argn' <= Len(Args) /\ Args[argn'] = t
    BY <1>6, <2>1, <2>3, Zenon
  <2>5. out' = out \o [i \in 1 .. t.is |-> <<argn', i>>]
    BY <2>1, <2>4, Zenon
  <2>6. out' = MessageOf(First(k + 1))
    BY <1>6, <2>1, <2>2, <2>5, Zenon
  <2>7. argn' = Len(ArgsOf(First(k + 1)))
    BY <1>6, <2>1, <2>3
  <2>8. At(k + 1)'
    BY <1>1, <1>2, <2>2, <2>3, <2>6, <2>7, Arrives DEF t
  <2> QED BY <2>8
<1>14. CASE Literal
  <2>1. /\ c # "%" /\ (c \in Digit \cup {"i", "s"} => in_token = 0)
        /\ in_pos' = in_pos + 1 /\ in_token' = 0 /\ argn' = argn
        /\ out' = Append(out, <<0, c>>)
    BY <1>14 DEF Literal, Reading, c
  <2>2. in_pos = L + 1 /\ t.type = "lit" /\ c = t.is
    BY <1>3, <1>4, <1>7, <1>8, <2>1 DEF c
  <2>3. in_pos' = Len(FormatOf(First(k + 1))) + 1
    BY <1>4, <2>1, <2>2
  <2>4. out' = MessageOf(First(k + 1))
    <3> DEFINE e == <<0, c>>
    <3>1. out' = Append(out, e) /\ MessageOf(First(k + 1)) = out \o <<e>>
      BY <1>6, <2>1, <2>2
    <3>2. e \in Cell /\ out \in Seq(Cell)
      BY <1>3, <1>6 DEF Cell, c
    <3> HIDE DEF e
    <3> QED BY <3>1, <3>2, AppendIsConcat
  <2>5. argn' = Len(ArgsOf(First(k + 1)))
    BY <1>6, <2>1, <2>2
  <2>6. At(k + 1)'
    BY <1>1, <1>2, <2>1, <2>3, <2>4, <2>5, Arrives
  <2> QED BY <2>6
<1> QED BY <1>9, <1>10, <1>11, <1>12, <1>13, <1>14

\* When the format is at its end, all the tokens are in the message.
LEMMA AllWritten ==
    ASSUME TypeOK, NEW k, At(k), in_pos > Len(fmt)
    PROVE  out = MessageOf(job.tokens)
<1>1. /\ k \in 0 .. Len(job.tokens) /\ ReadAndWritten(k) /\ (Between(k) \/ Inside(k))
      /\ job.tokens \in Seq(Token) /\ Len(fmt) \in Nat
  BY JobTypes DEF At
<1>2. CASE k < Len(job.tokens)
  <2> DEFINE L == Len(FormatOf(First(k)))
             t == job.tokens[k + 1]
             after == Len(FormatOf(First(k + 1)))
  <2>1. /\ L \in Nat /\ after <= Len(fmt) /\ t.type \in {"lit", "int", "str"}
        /\ t.type = "lit" => after = L + 1
        /\ t.type = "int" => after = L + 3
        /\ t.type = "str" => after = L + 2
    BY <1>1, <1>2, TokenPlace
  <2>2. /\ Between(k) => in_pos = L + 1
        /\ Inside(k) => /\ t.type # "lit"
                        /\ \/ in_pos = L + 2
                           \/ t.type = "int" /\ in_pos = L + 3
    BY DEF Between, Inside
  <2> HIDE DEF L, t, after
  <2> QED BY <1>1, <2>1, <2>2
<1>3. CASE k = Len(job.tokens)
  <2>1. First(k) = job.tokens
    BY <1>1, <1>3, NoTokens DEF First
  <2> QED BY <1>1, <2>1 DEF ReadAndWritten
<1> QED BY <1>1, <1>2, <1>3

-----------------------------------------------------------------------------
(* The lengths the server sees.                                            *)

\* A character of a tag takes a place of its own.
LEMMA LitStep ==
    ASSUME NEW tokens \in Seq(Token), NEW k \in Nat, k < Len(tokens),
           tokens[k + 1].type = "lit"
    PROVE  /\ Len(MessageOf(SubSeq(tokens, 1, k))) \in Nat
           /\ Len(MessageOf(SubSeq(tokens, 1, k + 1))) = Len(MessageOf(SubSeq(tokens, 1, k))) + 1
           /\ Len(MessageOf(SubSeq(tokens, 1, k))) + 1 <= Len(MessageOf(tokens))
           /\ Len(ArgsOf(SubSeq(tokens, 1, k + 1))) = Len(ArgsOf(SubSeq(tokens, 1, k)))
<1> DEFINE before == MessageOf(SubSeq(tokens, 1, k))
           next == Meaning(tokens, k + 1)
           c == <<0, tokens[k + 1].is>>
<1>1. /\ before \in Seq(Cell)
      /\ MessageOf(SubSeq(tokens, 1, k + 1)) = before \o next
      /\ Len(before) + Len(next) <= Len(MessageOf(tokens))
  BY MessageStep, Zenon
<1>2. next \in Seq(Cell) /\ next = <<c>>
  BY MeaningType, Zenon
<1> HIDE DEF c, next, before
<1>3. Len(next) = 1 /\ Len(before) \in Nat /\ Len(before \o next) = Len(before) + 1
  BY <1>1, <1>2
<1>4. Len(ArgsOf(SubSeq(tokens, 1, k + 1))) = Len(ArgsOf(SubSeq(tokens, 1, k)))
  BY ArgsStep, Zenon
<1> QED BY <1>1, <1>3, <1>4 DEF before, next

\* A tagged message is as long as a length word at least.
LEMMA TaggedLength ==
    ASSUME NEW tokens \in Seq(Token), Len(tokens) >= 4, \A k \in 1 .. 4 : tokens[k].type = "lit"
    PROVE  Len(MessageOf(tokens)) >= 4
<1> DEFINE M(k) == Len(MessageOf(SubSeq(tokens, 1, k)))
<1>1. M(0) = 0
  BY NoTokens, EmptySeq
<1>2. ASSUME NEW k \in 0 .. 3 PROVE M(k) \in Nat /\ M(k + 1) = M(k) + 1 /\ M(k) + 1 <= Len(MessageOf(tokens))
  <2>1. k \in Nat /\ k < Len(tokens) /\ tokens[k + 1].type = "lit"
    OBVIOUS
  <2> QED BY <2>1, LitStep, Zenon
<1> HIDE DEF M
<1>3. M(1) = 1 /\ M(2) = 2 /\ M(3) = 3 /\ 4 <= Len(MessageOf(tokens))
  <2>1. M(0 + 1) = 1
    BY <1>1, <1>2
  <2>2. M(1 + 1) = 2
    BY <1>2, <2>1
  <2>3. M(2 + 1) = 3
    BY <1>2, <2>2
  <2>4. M(3) + 1 <= Len(MessageOf(tokens))
    BY <1>2
  <2> QED BY <2>1, <2>2, <2>3, <2>4
<1>4. Len(MessageOf(tokens)) \in Int
  <2>1. MessageOf(tokens) \in Seq(Cell)
    <3>1. Len(tokens) - 1 \in Nat /\ Len(tokens) - 1 < Len(tokens) /\ (Len(tokens) - 1) + 1 = Len(tokens)
      OBVIOUS
    <3>2. /\ MessageOf(SubSeq(tokens, 1, Len(tokens) - 1)) \in Seq(Cell)
          /\ MessageOf(SubSeq(tokens, 1, (Len(tokens) - 1) + 1))
                = MessageOf(SubSeq(tokens, 1, Len(tokens) - 1)) \o Meaning(tokens, (Len(tokens) - 1) + 1)
      BY <3>1, MessageStep, Zenon
    <3>3. Meaning(tokens, (Len(tokens) - 1) + 1) \in Seq(Cell)
      BY <3>1, MeaningType, Zenon
    <3>4. MessageOf(SubSeq(tokens, 1, Len(tokens))) \in Seq(Cell)
      BY <3>1, <3>2, <3>3, ConcatProperties
    <3> QED BY <3>4, NoTokens
  <2> QED BY <2>1
<1> QED BY <1>3, <1>4

\* The keepalive is twelve bytes: the tag, the integer four, low byte last,
\* and another tag.
LEMMA KeepAliveMessage ==
    ASSUME KeepAlive.tokens \in Seq(Token)
    PROVE  LET m == MessageOf(KeepAlive.tokens)
           IN  /\ Len(m) = 12
               /\ \A j \in 1 .. 4 : m[4 + j] = <<1, 4 - j>>
               /\ Len(ArgsOf(KeepAlive.tokens)) = 1
               /\ ArgsOf(KeepAlive.tokens)[1].is = 4
               /\ Supported(KeepAlive.tokens)
               /\ KeepAlive.force_sz = 4
<1> DEFINE T == KeepAlive.tokens
           M(k) == Len(MessageOf(SubSeq(T, 1, k)))
           A(k) == Len(ArgsOf(SubSeq(T, 1, k)))
<1>1. /\ Len(T) = 9
      /\ \A k \in 1 .. 9 : T[k].type = IF k = 5 THEN "int" ELSE "lit"
      /\ T[5] = [type |-> "int", is |-> 4, width |-> 4]
      /\ KeepAlive.force_sz = 4
  BY DEF KeepAlive, Lits, Lit, Num
<1>2. M(0) = 0 /\ A(0) = 0
  BY NoTokens, EmptySeq
<1>3. T \in Seq(Token)
  OBVIOUS
<1> HIDE DEF T
<1>4. ASSUME NEW k \in 0 .. 8, k # 4
      PROVE  M(k) \in Nat /\ M(k + 1) = M(k) + 1 /\ A(k + 1) = A(k)
  <2>1. k \in Nat /\ k < Len(T) /\ T[k + 1].type = "lit"
    BY <1>1, <1>4
  <2> QED BY <1>3, <2>1, LitStep, Zenon
<1>5. 4 \in Nat /\ 4 < Len(T) /\ 4 + 1 = 5
  BY <1>1
<1>6. A(5) = A(4) + 1 /\ A(5) <= Len(ArgsOf(T)) /\ ArgsOf(T)[A(5)] = T[5]
  <2>1. /\ ArgsOf(SubSeq(T, 1, 4)) \in Seq(Token)
        /\ T[4 + 1].type # "lit" => ArgsOf(SubSeq(T, 1, 4 + 1)) = Append(ArgsOf(SubSeq(T, 1, 4)), T[4 + 1])
        /\ T[4 + 1].type # "lit" =>
              A(4 + 1) <= Len(ArgsOf(T)) /\ ArgsOf(T)[A(4 + 1)] = T[4 + 1]
    BY <1>3, <1>5, ArgsStep
  <2>2. T[5].type # "lit" /\ T[5] \in Token
    <3>1. 5 \in 1 .. 9 /\ 5 \in 1 .. Len(T)
      BY <1>1
    <3>2. T[5] \in Token
      BY <1>3, <3>1, ElementOfSeq
    <3>3. T[5].type = "int"
      BY <1>1, <3>1, Zenon
    <3> QED BY <3>2, <3>3
  <2> QED BY <1>5, <2>1, <2>2, AppendProperties
<1>7. /\ M(4) \in Nat /\ M(5) = M(4) + 4
      /\ \A j \in 1 .. 4 : MessageOf(T)[M(4) + j] = <<A(5), 4 - j>>
  <2> DEFINE before == MessageOf(SubSeq(T, 1, 4))
             next == Meaning(T, 5)
  <2>1. /\ before \in Seq(Cell)
        /\ MessageOf(SubSeq(T, 1, 4 + 1)) = before \o Meaning(T, 4 + 1)
        /\ \A j \in 1 .. Len(Meaning(T, 4 + 1)) : MessageOf(T)[Len(before) + j] = Meaning(T, 4 + 1)[j]
    BY <1>3, <1>5, MessageStep, Zenon
  <2>2. /\ Meaning(T, 4 + 1) \in Seq(Cell)
        /\ T[4 + 1].type = "int" =>
              /\ Meaning(T, 4 + 1) = [i \in 1 .. T[4 + 1].width |-> <<A(4 + 1), T[4 + 1].width - i>>]
              /\ Len(Meaning(T, 4 + 1)) = T[4 + 1].width
    BY <1>3, <1>5, MeaningType
  <2>3. T[5].type = "int" /\ T[5].width = 4
    BY <1>1
  <2>4. next \in Seq(Cell) /\ next = [i \in 1 .. 4 |-> <<A(5), 4 - i>>] /\ Len(next) = 4
    BY <1>5, <2>2, <2>3
  <2>5. /\ MessageOf(SubSeq(T, 1, 5)) = before \o next
        /\ \A j \in 1 .. 4 : MessageOf(T)[Len(before) + j] = next[j]
    BY <1>5, <2>1, <2>4
  <2> HIDE DEF before, next
  <2>6. Len(before) \in Nat /\ Len(before \o next) = Len(before) + 4
    BY <2>1, <2>4
  <2>7. \A j \in 1 .. 4 : next[j] = <<A(5), 4 - j>>
    BY <2>4
  <2> QED BY <2>5, <2>6, <2>7 DEF before
<1> HIDE DEF M, A
<1>8. M(4) = 4 /\ A(4) = 0
  <2>1. M(0 + 1) = 1 /\ A(0 + 1) = 0
    BY <1>2, <1>4
  <2>2. M(1 + 1) = 2 /\ A(1 + 1) = 0
    BY <1>4, <2>1
  <2>3. M(2 + 1) = 3 /\ A(2 + 1) = 0
    BY <1>4, <2>2
  <2>4. M(3 + 1) = 4 /\ A(3 + 1) = 0
    BY <1>4, <2>3
  <2> QED BY <2>4
<1>9. M(9) = 12 /\ A(9) = 1
  <2>1. M(5 + 1) = 9 /\ A(5 + 1) = 1
    BY <1>4, <1>6, <1>7, <1>8
  <2>2. M(6 + 1) = 10 /\ A(6 + 1) = 1
    BY <1>4, <2>1
  <2>3. M(7 + 1) = 11 /\ A(7 + 1) = 1
    BY <1>4, <2>2
  <2>4. M(8 + 1) = 12 /\ A(8 + 1) = 1
    BY <1>4, <2>3
  <2> QED BY <2>4
<1>10. SubSeq(T, 1, 9) = T
  BY <1>1, <1>3, NoTokens
<1>11. Supported(T)
  BY <1>1 DEF Supported
<1>12. Len(MessageOf(T)) = 12 /\ Len(ArgsOf(T)) = 1
  BY <1>9, <1>10 DEF M, A
<1>13. ArgsOf(T)[1].is = 4
  BY <1>1, <1>6, <1>8
<1>14. \A j \in 1 .. 4 : MessageOf(T)[4 + j] = <<1, 4 - j>>
  BY <1>6, <1>7, <1>8
<1> QED BY <1>1, <1>11, <1>12, <1>13, <1>14 DEF T

-----------------------------------------------------------------------------
(* The invariant.                                                          *)

Inv == TypeOK /\ SynprotoInv /\ AsDocumented

\* Nothing is read and nothing written at first.
LEMMA InvInit == Init => Inv
<1>1. SUFFICES ASSUME Init PROVE SynprotoInv /\ AsDocumented
  BY TypeInit DEF Inv
<1>2. TypeOK /\ word = -1 /\ read = 0 /\ in_pos = 1 /\ in_token = 0 /\ argn = 0 /\ out = << >>
  BY <1>1, TypeInit DEF Init
<1>3. job.tokens \in Seq(Token)
  BY <1>2, JobTypes
<1>4. ReadAndWritten(0) /\ Between(0) /\ 0 \in 0 .. Len(job.tokens)
  BY <1>2, <1>3, NoTokens, EmptySeq DEF ReadAndWritten, Between, First
<1> QED BY <1>2, <1>4 DEF SynprotoInv, AsDocumented

\* The steps of synproto_vprintf keep the invariant.
LEMMA InvReads ==
    ASSUME Inv, TypeOK', Percent \/ Width \/ Integer \/ BadWidth \/ String \/ Literal
    PROVE  SynprotoInv' /\ AsDocumented'
<1>1. word = -1 /\ word' = -1 /\ read' = read /\ job' = job
  BY DEF Percent, Width, Integer, BadWidth, String, Literal, Reading
<1>2. ASSUME Supported(job.tokens) PROVE \E m : At(m)'
  <2>1. PICK k : At(k)
    BY <1>1, <1>2 DEF Inv, SynprotoInv, At
  <2> QED BY <1>2, <2>1, ReadStep DEF Inv
<1>3. Supported(job'.tokens) =>
          \E m \in 0 .. Len(job'.tokens) : ReadAndWritten(m)' /\ (Between(m)' \/ Inside(m)')
  BY <1>1, <1>2 DEF At
<1>4. read' = 0
  BY <1>1 DEF Inv, SynprotoInv
<1> QED BY <1>1, <1>3, <1>4 DEF SynprotoInv, AsDocumented

\* What is sent is the message, and nothing of it was read before.
LEMMA InvSends ==
    ASSUME Inv, TypeOK', Send
    PROVE  SynprotoInv' /\ AsDocumented'
<1>1. /\ word = -1 /\ in_pos > Len(fmt) /\ word' = LengthWord
      /\ job' = job /\ out' = out /\ read' = read /\ read = 0
  BY DEF Send, Inv, SynprotoInv
<1>2. LengthWord' = LengthWord /\ LengthWord \in Nat
  BY <1>1 DEF LengthWord, Inv, TypeOK
<1>3. Supported(job.tokens) => out = MessageOf(job.tokens)
  <2>1. SUFFICES ASSUME Supported(job.tokens) PROVE out = MessageOf(job.tokens)
    OBVIOUS
  <2>2. PICK k : At(k)
    BY <1>1, <2>1 DEF Inv, SynprotoInv, At
  <2> QED BY <1>1, <2>2, AllWritten DEF Inv
<1>4. AsDocumented'
  BY <1>1, <1>3 DEF AsDocumented
<1>5. SynprotoInv'
  BY <1>1, <1>2 DEF SynprotoInv
<1> QED BY <1>4, <1>5

\* The keepalive, once it is sent.
LEMMA KeepAliveSent ==
    ASSUME Inv, word # -1, job = KeepAlive
    PROVE  /\ word = 4 /\ Len(out) = 12
           /\ \A j \in 1 .. 4 : out[4 + j] = <<1, 4 - j>>
           /\ Len(Args) = 1 /\ Args[1].is = 4
<1>1. KeepAlive.tokens \in Seq(Token)
  BY JobTypes DEF Inv
<1>2. LET m == MessageOf(KeepAlive.tokens)
      IN  /\ Len(m) = 12
          /\ \A j \in 1 .. 4 : m[4 + j] = <<1, 4 - j>>
          /\ Len(ArgsOf(KeepAlive.tokens)) = 1
          /\ ArgsOf(KeepAlive.tokens)[1].is = 4
          /\ Supported(KeepAlive.tokens)
          /\ KeepAlive.force_sz = 4
  BY <1>1, KeepAliveMessage, Zenon
<1>3. out = MessageOf(KeepAlive.tokens)
  BY <1>2 DEF Inv, AsDocumented
<1>4. word = 4
  BY <1>2 DEF Inv, SynprotoInv, LengthWord
<1> HIDE DEF KeepAlive
<1> QED BY <1>2, <1>3, <1>4 DEF Args

\* The server goes from the end of one packet to the end of the next.
LEMMA InvServer ==
    ASSUME Inv, TypeOK', ServerReads
    PROVE  SynprotoInv' /\ AsDocumented'
<1>1. /\ word # -1 /\ read < Len(out) /\ PacketLength >= 4 /\ read' = Start + PacketLength
      /\ job' = job /\ out' = out /\ word' = word
  BY DEF ServerReads, CanRead
<1>2. word' = LengthWord'
  BY <1>1 DEF Inv, SynprotoInv, LengthWord
<1>3. Tagged' => read' \in {0, Len(out')}
  <2>1. SUFFICES ASSUME Tagged PROVE read' = Len(out)
    BY <1>1 DEF Tagged
  <2>2. read = 0 /\ word = Len(out) /\ Len(out) \in Nat
    BY <1>1, <2>1 DEF Inv, SynprotoInv, Tagged, LengthWord, TypeOK
  <2> QED BY <1>1, <2>2 DEF Start, PacketLength
<1>4. job = KeepAlive => read' \in {0, 4, Len(out')}
  <2>1. SUFFICES ASSUME job = KeepAlive PROVE read' \in {0, 4, Len(out)}
    BY <1>1
  <2>2. /\ word = 4 /\ Len(out) = 12 /\ Len(Args) = 1 /\ Args[1].is = 4 /\ Args \in Seq(Argument)
    <3>1. Args \in Seq(Argument)
      BY JobTypes DEF Inv
    <3> QED BY <1>1, <2>1, <3>1, KeepAliveSent
  <2>3. read \in {0, 4}
    BY <1>1, <2>1 DEF Inv, SynprotoInv
  <2>4. CASE read = 0
    BY <1>1, <2>2, <2>4 DEF Start, PacketLength
  <2>5. CASE read = 4
    <3>1. DOMAIN Args = {1}
      BY <2>2
    <3>2. PacketLength \in {4, -1}
      BY <2>2, <2>5, <3>1 DEF PacketLength
    <3> QED BY <1>1, <2>2, <2>5, <3>2 DEF Start
  <2> QED BY <2>3, <2>4, <2>5
<1>5. SynprotoInv'
  BY <1>1, <1>2, <1>3, <1>4 DEF SynprotoInv
<1>6. AsDocumented'
  BY <1>1 DEF Inv, AsDocumented
<1> QED BY <1>5, <1>6

\* Every step keeps the invariant.
LEMMA InvStep == Inv /\ [Next]_vars => Inv'
<1>1. SUFFICES ASSUME Inv, [Next]_vars PROVE Inv'
  OBVIOUS
<1>2. TypeOK'
  BY <1>1, TypeStep DEF Inv
<1>3. CASE Percent \/ Width \/ Integer \/ BadWidth \/ String \/ Literal
  BY <1>1, <1>2, <1>3, InvReads DEF Inv
<1>4. CASE Send
  BY <1>1, <1>2, <1>4, InvSends DEF Inv
<1>5. CASE ServerReads
  BY <1>1, <1>2, <1>5, InvServer DEF Inv
<1>6. CASE UNCHANGED vars
  <2>1. SynprotoInv'
    BY <1>1, <1>6 DEF Inv, SynprotoInv, ReadAndWritten, Between, Inside, First, Tagged, LengthWord, vars
  <2>2. AsDocumented'
    BY <1>1, <1>6 DEF Inv, AsDocumented, vars
  <2> QED BY <1>2, <2>1, <2>2 DEF Inv
<1> QED BY <1>1, <1>3, <1>4, <1>5, <1>6 DEF Next

\* The invariant holds from the first character to the last packet.
LEMMA Invariance == Spec => []Inv
<1> QED BY InvInit, InvStep, PTL DEF Spec

\* While synproto_vprintf reads a supported format it is at a place of one of
\* its tokens, with what the tokens before it mean in the buffer, and the
\* server is always at the end of a packet: of the only one of a tagged
\* message, of one of the two of a keepalive.
THEOREM PlacesCorrect == Spec => []SynprotoInv
<1>1. Inv => SynprotoInv
  BY DEF Inv
<1> QED BY <1>1, Invariance, PTL

\* The message is what its tokens mean, for every supported format, of any
\* length and with any arguments (synproto.h:59-71).
THEOREM Documented == Spec => []AsDocumented
<1>1. Inv => AsDocumented
  BY DEF Inv
<1> QED BY <1>1, Invariance, PTL

\* The server can always cut what is left into packets, until nothing is.
LEMMA FramedByInv == Inv => WellFramed
<1>1. SUFFICES ASSUME Inv, word # -1, Tagged \/ job = KeepAlive, read # Len(out) PROVE CanRead
  BY DEF WellFramed
<1>2. read < Len(out) /\ Len(out) \in Nat /\ read \in Nat
  BY <1>1 DEF Inv, TypeOK
<1>3. CASE Tagged
  <2>1. read = 0 /\ word = Len(out)
    BY <1>1, <1>3 DEF Inv, SynprotoInv, Tagged, LengthWord
  <2>2. Len(out) >= 4
    <3>1. job.tokens \in Seq(Token) /\ out = MessageOf(job.tokens)
      BY <1>1, <1>3, JobTypes DEF Inv, AsDocumented, Tagged
    <3> QED BY <1>3, <3>1, TaggedLength DEF Tagged
  <2> QED BY <1>1, <1>2, <2>1, <2>2 DEF CanRead, Start, PacketLength
<1>4. CASE job = KeepAlive
  <2>1. /\ word = 4 /\ Len(out) = 12
        /\ \A j \in 1 .. 4 : out[4 + j] = <<1, 4 - j>>
        /\ Len(Args) = 1 /\ Args[1].is = 4
    BY <1>1, <1>4, KeepAliveSent
  <2>2. read \in {0, 4}
    BY <1>1, <1>4 DEF Inv, SynprotoInv
  <2>3. CASE read = 0
    BY <1>1, <1>2, <2>1, <2>3 DEF CanRead, Start, PacketLength
  <2>4. CASE read = 4
    <3>1. Args \in Seq(Argument) /\ out \in Seq(Cell)
      BY <1>1, JobTypes DEF Inv, TypeOK
    <3>2. out[5] = <<1, 3>> /\ out[6] = <<1, 2>> /\ out[7] = <<1, 1>> /\ out[8] = <<1, 0>>
      BY <2>1
    <3>3. SubSeq(out, 5, 8) = [i \in 1 .. 4 |-> <<1, 4 - i>>]
      BY <2>1, <3>1, <3>2
    <3>4. 1 \in DOMAIN Args /\ out[5][1] = 1
      BY <2>1, <3>1, <3>2
    <3>5. PacketLength = 4 /\ Start = 8
      BY <2>1, <2>4, <3>3, <3>4 DEF PacketLength, Start
    <3> QED BY <1>1, <1>2, <2>1, <3>5 DEF CanRead
  <2> QED BY <2>2, <2>3, <2>4
<1> QED BY <1>1, <1>3, <1>4

\* Neither a reply that starts with a tag nor the keepalive leaves the server
\* with bytes it cannot cut into packets: the keepalive, whose length word is
\* forced to four, carries the length of its second half as an argument
\* (synproto.c:140, 242).
THEOREM Framed == Spec => []WellFramed
<1> QED BY Invariance, FramedByInv, PTL

\* Hello, with a name of any length, and ScreenInfo, of a screen of any size,
\* are messages of one packet that start with a tag.
THEOREM RepliesAreTagged ==
    ASSUME NEW len \in Nat, NEW w \in Int, NEW h \in Int,
           job = Hello(len) \/ job = ScreenInfo(w, h)
    PROVE  Tagged
<1>1. CASE job = Hello(len)
  <2> DEFINE T == job.tokens
  <2>1. /\ Len(T) = 11 /\ job.force_sz = 0
        /\ \A k \in 1 .. 7 : T[k].type = "lit"
        /\ \A k \in 8 .. 10 : T[k].type = "int" /\ T[k].width \in {2, 4}
        /\ T[11].type = "str"
    BY <1>1 DEF Hello, Lits, Lit, Num, Str
  <2> QED BY <2>1 DEF Tagged, Supported
<1>2. CASE job = ScreenInfo(w, h)
  <2> DEFINE T == job.tokens
  <2>1. /\ Len(T) = 11 /\ job.force_sz = 0
        /\ \A k \in 1 .. 4 : T[k].type = "lit"
        /\ \A k \in 5 .. 11 : T[k].type = "int" /\ T[k].width = 2
    BY <1>2 DEF ScreenInfo, Lits, Lit, Num
  <2> QED BY <2>1 DEF Tagged, Supported
<1> QED BY <1>1, <1>2
=============================================================================
