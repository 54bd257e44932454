---------------------------- MODULE ConfigProofs ----------------------------
(***************************************************************************)
(* Proofs about the INI library and the relay's settings in it, for any    *)
(* settings and values, any size of the cache and any number of kills.     *)
(***************************************************************************)
EXTENDS Config, FiniteSetTheorems, SequenceTheorems, WellFoundedInduction, TLAPS

-----------------------------------------------------------------------------
(* Least numbers and induction *)

\* A set of natural numbers has a least member.
LEMMA LeastNatural ==
    ASSUME NEW S \in SUBSET Nat, S # {}
    PROVE  \E c \in S : \A d \in S : c <= d
<1>1. \E c \in S : \A d \in S : ~(<<d, c>> \in OpToRel(<, Nat))
  BY NatLessThanWellFounded, WFMin
<1>2. PICK c \in S : \A d \in S : ~(<<d, c>> \in OpToRel(<, Nat))
  BY <1>1
<1>3. \A d \in S : ~(d < c)
  BY <1>2 DEF OpToRel
<1> QED
  BY <1>3

\* Induction up to N, over the set of the numbers for which the claim holds.
LEMMA UpTo ==
    ASSUME NEW N \in Nat, NEW S, 0 \in S, \A i \in 1 .. N : i - 1 \in S => i \in S
    PROVE  \A i \in 0 .. N : i \in S
<1> DEFINE Bad == {i \in 0 .. N : i \notin S}
<1>1. SUFFICES ASSUME Bad # {} PROVE FALSE
  OBVIOUS
<1>2. PICK c \in Bad : \A d \in Bad : c <= d
  <2>1. Bad \in SUBSET Nat
    OBVIOUS
  <2> HIDE DEF Bad
  <2> QED
    BY <1>1, <2>1, LeastNatural
<1>3. c \in 1 .. N
  BY <1>2
<1>4. c - 1 \in 0 .. N /\ c - 1 \notin Bad
  BY <1>2, <1>3
<1> QED
  BY <1>2, <1>3, <1>4

\* Min finds the least of some natural numbers.
LEMMA MinOK ==
    ASSUME NEW S \in SUBSET Nat, S # {}
    PROVE  Min(S) \in S /\ \A d \in S : Min(S) <= d
<1>1. \E c \in S : \A d \in S : c <= d
  BY LeastNatural
<1> QED
  BY <1>1 DEF Min

-----------------------------------------------------------------------------
(* Quoting *)

\* The signs of the INI library are symbols, and differ.
LEMMA Signs ==
    /\ LF \in Text /\ QuoteMark \in Text /\ Backslash \in Text
    /\ "[" \in Text /\ "]" \in Text /\ "=" \in Text
    /\ QuoteMark # Backslash /\ QuoteMark \notin Comment
    /\ LF # "["
<1>1. /\ LF \in Text /\ QuoteMark \in Text /\ Backslash \in Text
      /\ "[" \in Text /\ "]" \in Text /\ "=" \in Text
  BY DEF Text
<1> QED
  BY <1>1 DEF LF, QuoteMark, Backslash, Comment

\* Which symbols of s escape the quote behind them: the recursive definition of
\* Escapes has a meaning, and is this one.
LEMMA EscapesDef ==
    ASSUME NEW s \in Seq(Text)
    PROVE  /\ Escapes(s) \subseteq 1 .. Len(s)
           /\ \A i \in 1 .. Len(s) :
                 i \in Escapes(s) <=>
                    /\ i < Len(s) /\ s[i] \in {QuoteMark, Backslash} /\ s[i + 1] = QuoteMark
                    /\ i = 1 \/ i - 1 \notin Escapes(s)
<1> DEFINE N == Len(s)
           Esc(g, i) == /\ i < Len(s) /\ s[i] \in {QuoteMark, Backslash} /\ s[i + 1] = QuoteMark
                        /\ i = 1 \/ ~g[i - 1]
           F(k, g) == [i \in 1 .. k |-> Esc(g, i)]
           Works(k, g) == g = F(k, g)
           S == {k \in 0 .. N : \E g : Works(k, g)}
<1>0. N \in Nat
  OBVIOUS
<1> HIDE DEF N
<1>1. 0 \in S
  <2>1. Works(0, [i \in 1 .. 0 |-> TRUE])
    OBVIOUS
  <2> HIDE DEF Works
  <2> QED
    BY <1>0, <2>1
<1>2. ASSUME NEW k \in 1 .. N, k - 1 \in S PROVE k \in S
  <2>1. PICK g : Works(k - 1, g)
    BY <1>2
  <2> DEFINE h == [i \in 1 .. k |-> IF i = k THEN Esc(g, k) ELSE g[i]]
  <2>2. DOMAIN g = 1 .. k - 1
    BY <2>1
  <2>3. \A i \in 1 .. k - 1 : g[i] = Esc(g, i)
    BY <2>1
  <2>4. ASSUME NEW i \in 1 .. k PROVE h[i] = Esc(h, i)
    <3>0. h[i] = Esc(g, i) /\ (i = 1 \/ h[i - 1] = g[i - 1])
      <4> HIDE DEF Esc
      <4> QED
        BY <1>0, <2>3
    <3>1. Esc(h, i) = Esc(g, i)
      <4> HIDE DEF h
      <4> QED
        BY <3>0
    <3> HIDE DEF Esc, h
    <3> QED
      BY <3>0, <3>1
  <2>5. Works(k, h)
    <3> HIDE DEF Esc
    <3> QED
      BY <2>4
  <2> HIDE DEF Works, h
  <2> QED
    BY <1>0, <2>5
<1>3. N \in S
  <2>1. N \in 0 .. N
    BY <1>0
  <2> HIDE DEF S
  <2> QED
    BY <1>0, <1>1, <1>2, <2>1, UpTo
<1>4. PICK g : Works(N, g)
  BY <1>3
<1> DEFINE e == CHOOSE f : f = F(N, f)
<1>5. e = F(N, e)
  <2> HIDE DEF F
  <2> QED
    BY <1>4
<1>6. Escapes(s) = {i \in 1 .. Len(s) : e[i]}
  BY DEF Escapes, N
<1> HIDE DEF e
<1>7. \A i \in 1 .. N : e[i] = Esc(e, i)
  BY <1>5
<1>8. \A i \in 1 .. N : i \in Escapes(s) <=> e[i]
  BY <1>6 DEF N
<1>9. \A i \in 1 .. N : i = 1 \/ i - 1 \in 1 .. N
  BY <1>0
<1> QED
  BY <1>6, <1>7, <1>8, <1>9 DEF N

\* Enquoted puts the value together symbol by symbol.
LEMMA EnquotedDef ==
    ASSUME NEW value \in Seq(Text)
    PROVE  \E quoted :
              /\ quoted[0] = <<QuoteMark>>
              /\ \A i \in 1 .. Len(value) :
                    quoted[i] = IF value[i] = QuoteMark
                                  THEN quoted[i - 1] \o <<Backslash, QuoteMark>>
                                  ELSE Append(quoted[i - 1], value[i])
              /\ Enquoted(value) = Append(quoted[Len(value)], QuoteMark)
<1> DEFINE N == Len(value)
           Step(prev, i) == IF value[i] = QuoteMark THEN prev \o <<Backslash, QuoteMark>>
                            ELSE Append(prev, value[i])
           F(k, g) == [i \in 0 .. k |-> IF i = 0 THEN <<QuoteMark>> ELSE Step(g[i - 1], i)]
           Works(k, g) == g = F(k, g)
           S == {k \in 0 .. N : \E g : Works(k, g)}
<1>0. N \in Nat
  OBVIOUS
<1>1. 0 \in S
  <2>1. Works(0, [i \in 0 .. 0 |-> <<QuoteMark>>])
    OBVIOUS
  <2> HIDE DEF Works, N
  <2> QED
    BY <1>0, <2>1
<1>2. ASSUME NEW k \in 1 .. N, k - 1 \in S PROVE k \in S
  <2>1. PICK g : Works(k - 1, g)
    BY <1>2
  <2> DEFINE h == [i \in 0 .. k |-> IF i = k THEN Step(g[k - 1], k) ELSE g[i]]
  <2> HIDE DEF Step, N
  <2>2. DOMAIN g = 0 .. k - 1 /\ g[0] = <<QuoteMark>>
    BY <2>1, <1>0
  <2>3. \A i \in 1 .. k - 1 : g[i] = Step(g[i - 1], i)
    BY <2>1, <1>0, SMTT(30)
  <2>4. h = [i \in 0 .. k |-> IF i = 0 THEN <<QuoteMark>> ELSE Step(h[i - 1], i)]
    BY <2>2, <2>3, <1>0
  <2>5. Works(k, h)
    BY <2>4
  <2> HIDE DEF Works, h
  <2> QED
    BY <2>5, <1>0
<1>3. N \in S
  <2>1. N \in 0 .. N
    BY <1>0
  <2> HIDE DEF S, N
  <2> QED
    BY <1>0, <1>1, <1>2, <2>1, UpTo
<1>4. PICK g : Works(N, g)
  BY <1>3
<1> DEFINE r == CHOOSE f : f = F(N, f)
<1>5. r = F(N, r)
  <2> HIDE DEF F
  <2> QED
    BY <1>4
<1>6. Enquoted(value) = Append(r[N], QuoteMark)
  BY DEF Enquoted
<1> HIDE DEF r
<1>7. r[0] = <<QuoteMark>> /\ \A i \in 1 .. N : r[i] = Step(r[i - 1], i)
  <2> HIDE DEF Step, N
  <2> QED
    BY <1>0, <1>5
<1> QED
  BY <1>6, <1>7

\* Dequoted takes the value apart symbol by symbol.
LEMMA DequotedDef ==
    ASSUME NEW s \in Seq(Text)
    PROVE  \E kept :
              /\ kept[0] = <<>>
              /\ \A i \in 1 .. Len(s) :
                    kept[i] = IF i \in Escapes(s) THEN kept[i - 1]
                                                 ELSE Append(kept[i - 1], s[i])
              /\ Dequoted(s) = kept[Len(s)]
<1> DEFINE N == Len(s)
           Step(prev, i) == IF i \in Escapes(s) THEN prev ELSE Append(prev, s[i])
           F(k, g) == [i \in 0 .. k |-> IF i = 0 THEN <<>> ELSE Step(g[i - 1], i)]
           Works(k, g) == g = F(k, g)
           S == {k \in 0 .. N : \E g : Works(k, g)}
<1>0. N \in Nat
  OBVIOUS
<1>1. 0 \in S
  <2>1. Works(0, [i \in 0 .. 0 |-> <<>>])
    OBVIOUS
  <2> HIDE DEF Works, N
  <2> QED
    BY <1>0, <2>1
<1>2. ASSUME NEW k \in 1 .. N, k - 1 \in S PROVE k \in S
  <2>1. PICK g : Works(k - 1, g)
    BY <1>2
  <2> DEFINE h == [i \in 0 .. k |-> IF i = k THEN Step(g[k - 1], k) ELSE g[i]]
  <2> HIDE DEF Step, N
  <2>2. DOMAIN g = 0 .. k - 1 /\ g[0] = <<>>
    BY <2>1, <1>0
  <2>3. \A i \in 1 .. k - 1 : g[i] = Step(g[i - 1], i)
    BY <2>1, <1>0
  <2>4. h = [i \in 0 .. k |-> IF i = 0 THEN <<>> ELSE Step(h[i - 1], i)]
    BY <2>2, <2>3, <1>0
  <2>5. Works(k, h)
    BY <2>4
  <2> HIDE DEF Works, h
  <2> QED
    BY <2>5, <1>0
<1>3. N \in S
  <2>1. N \in 0 .. N
    BY <1>0
  <2> HIDE DEF S, N
  <2> QED
    BY <1>0, <1>1, <1>2, <2>1, UpTo
<1>4. PICK g : Works(N, g)
  BY <1>3
<1> DEFINE r == CHOOSE f : f = F(N, f)
<1>5. r = F(N, r)
  <2> HIDE DEF F
  <2> QED
    BY <1>4
<1>6. Dequoted(s) = r[N]
  BY DEF Dequoted
<1> HIDE DEF r
<1>7. r[0] = <<>> /\ \A i \in 1 .. N : r[i] = Step(r[i - 1], i)
  <2> HIDE DEF Step, N
  <2> QED
    BY <1>0, <1>5
<1> QED
  BY <1>6, <1>7

\* How a quoted value grows.
Grown(q, x) == IF x = QuoteMark THEN q \o <<Backslash, QuoteMark>> ELSE Append(q, x)

\* What Enquoted computes, symbol by symbol.
Grows(value, quoted) ==
    /\ quoted[0] = <<QuoteMark>>
    /\ \A i \in 1 .. Len(value) : quoted[i] = Grown(quoted[i - 1], value[i])

\* What is put together begins with a quote, and before every other quote stands
\* a backslash that is not the first symbol.
Shaped(q) ==
    /\ q \in Seq(Text) /\ Len(q) >= 1 /\ q[1] = QuoteMark
    /\ \A j \in 2 .. Len(q) : q[j] = QuoteMark => j > 2 /\ q[j - 1] = Backslash

\* Adding the symbols of one more symbol of the value keeps the shape.
LEMMA ShapedGrows ==
    ASSUME NEW q, Shaped(q), NEW x \in Text
    PROVE  LET r == Grown(q, x) IN
           /\ Shaped(r) /\ Len(r) > Len(q)
           /\ \A j \in 1 .. Len(q) : r[j] = q[j]
           /\ r[Len(q) + 1] = IF x = QuoteMark THEN Backslash ELSE x
           /\ r[Len(q) + 1] # QuoteMark
           /\ x = QuoteMark => Len(r) = Len(q) + 2 /\ r[Len(q) + 2] = QuoteMark
           /\ x # QuoteMark => Len(r) = Len(q) + 1
<1> DEFINE r == Grown(q, x)
<1> HIDE DEF r
<1>1. q \in Seq(Text) /\ Len(q) \in Nat /\ Len(q) >= 1
  BY DEF Shaped
<1>2. CASE x = QuoteMark
  <2>1. r = q \o <<Backslash, QuoteMark>>
    BY <1>2 DEF r, Grown
  <2>2. <<Backslash, QuoteMark>> \in Seq(Text)
    BY Signs
  <2>3. r \in Seq(Text) /\ Len(r) = Len(q) + 2
    BY <1>1, <2>1, <2>2
  <2>4. \A j \in 1 .. Len(q) : r[j] = q[j]
    BY <1>1, <2>1, <2>2
  <2>5. r[Len(q) + 1] = Backslash /\ r[Len(q) + 2] = QuoteMark
    BY <1>1, <2>1, <2>2
  <2>6. Backslash # QuoteMark
    BY Signs
  <2>7. Shaped(r)
    BY <1>1, <2>3, <2>4, <2>5, <2>6 DEF Shaped
  <2> QED
    BY <1>1, <1>2, <2>3, <2>4, <2>5, <2>6, <2>7 DEF r
<1>3. CASE x # QuoteMark
  <2>1. r = Append(q, x)
    BY <1>3 DEF r, Grown
  <2>3. r \in Seq(Text) /\ Len(r) = Len(q) + 1
    BY <1>1, <2>1
  <2>4. \A j \in 1 .. Len(q) : r[j] = q[j]
    BY <1>1, <2>1
  <2>5. r[Len(q) + 1] = x
    BY <1>1, <2>1
  <2>7. Shaped(r)
    BY <1>1, <1>3, <2>3, <2>4, <2>5 DEF Shaped
  <2> QED
    BY <1>1, <1>3, <2>3, <2>4, <2>5, <2>7 DEF r
<1> QED
  BY <1>2, <1>3

\* So the shape holds all the way.
LEMMA QuotedShape ==
    ASSUME NEW value \in Seq(Text), NEW quoted, Grows(value, quoted)
    PROVE  \A i \in 0 .. Len(value) : Shaped(quoted[i])
<1> DEFINE N == Len(value)
           S == {i \in 0 .. N : Shaped(quoted[i])}
<1>0. N \in Nat
  OBVIOUS
<1>1. 0 \in S
  <2>1. quoted[0] = <<QuoteMark>>
    BY DEF Grows
  <2>2. <<QuoteMark>> \in Seq(Text) /\ Len(<<QuoteMark>>) = 1 /\ <<QuoteMark>>[1] = QuoteMark
    BY Signs
  <2>3. Shaped(quoted[0])
    BY <2>1, <2>2 DEF Shaped
  <2> QED
    BY <1>0, <2>3
<1>2. ASSUME NEW i \in 1 .. N, i - 1 \in S PROVE i \in S
  <2>1. value[i] \in Text /\ Shaped(quoted[i - 1])
    BY <1>2
  <2>2. quoted[i] = Grown(quoted[i - 1], value[i])
    BY DEF Grows
  <2>3. Shaped(quoted[i])
    <3> HIDE DEF S, N
    <3> QED
      BY <2>1, <2>2, ShapedGrows
  <2> QED
    BY <2>3
<1>3. \A i \in 0 .. N : i \in S
  <2> HIDE DEF S, N
  <2> QED
    BY <1>0, <1>1, <1>2, UpTo
<1> QED
  BY <1>3

\* What was put together first stays in front.
LEMMA QuotedPrefix ==
    ASSUME NEW value \in Seq(Text), NEW quoted, Grows(value, quoted)
    PROVE  \A k \in 0 .. Len(value) : \A i \in 0 .. k :
              /\ Len(quoted[i]) <= Len(quoted[k])
              /\ \A j \in 1 .. Len(quoted[i]) : quoted[k][j] = quoted[i][j]
<1> DEFINE N == Len(value)
           Before(i, k) == /\ Len(quoted[i]) <= Len(quoted[k])
                          /\ \A j \in 1 .. Len(quoted[i]) : quoted[k][j] = quoted[i][j]
           S == {k \in 0 .. N : \A i \in 0 .. k : Before(i, k)}
<1>0. N \in Nat
  OBVIOUS
<1>a. \A i \in 0 .. N : Shaped(quoted[i]) /\ Len(quoted[i]) \in Nat
  BY QuotedShape DEF Shaped
<1>1. 0 \in S
  BY <1>0, <1>a
<1>2. ASSUME NEW k \in 1 .. N, k - 1 \in S PROVE k \in S
  <2>1. value[k] \in Text /\ Shaped(quoted[k - 1]) /\ Len(quoted[k - 1]) \in Nat
    BY <1>a
  <2>2. /\ Len(quoted[k]) > Len(quoted[k - 1])
        /\ \A j \in 1 .. Len(quoted[k - 1]) : quoted[k][j] = quoted[k - 1][j]
    <3> DEFINE p == quoted[k - 1]
               r == Grown(p, value[k])
    <3>1. quoted[k] = r
      BY DEF Grows
    <3>2. Len(r) > Len(p) /\ \A j \in 1 .. Len(p) : r[j] = p[j]
      <4> HIDE DEF p, r
      <4> QED
        BY <2>1, ShapedGrows DEF p, r
    <3> HIDE DEF r
    <3> QED
      BY <3>1, <3>2, Zenon
  <2>3. ASSUME NEW i \in 0 .. k PROVE Before(i, k)
    <3>1. CASE i = k
      BY <3>1, <1>a
    <3>2. CASE i # k
      <4>1. i \in 0 .. k - 1 /\ Before(i, k - 1)
        BY <3>2, <1>2
      <4>2. Len(quoted[i]) \in Nat /\ Len(quoted[k]) \in Nat
        BY <1>a
      <4> QED
        BY <4>1, <4>2, <2>1, <2>2, SMTT(30)
    <3> QED
      BY <3>1, <3>2
  <2> HIDE DEF Before
  <2> QED
    BY <2>3
<1>3. \A k \in 0 .. N : k \in S
  <2> HIDE DEF S, N
  <2> QED
    BY <1>0, <1>1, <1>2, UpTo
<1> QED
  BY <1>3

\* Taking a quoted value apart gives the value back: what escapes a quote is what
\* was put before it.
LEMMA Requoted ==
    ASSUME NEW value \in Seq(Text)
    PROVE  /\ Enquoted(value) \in Seq(Text) /\ Len(Enquoted(value)) >= 2
           /\ LET raw == Enquoted(value) IN
              /\ raw[1] = QuoteMark /\ raw[Len(raw)] = QuoteMark
              /\ \A j \in 2 .. Len(raw) - 1 :
                    raw[j] = QuoteMark => j > 2 /\ raw[j - 1] = Backslash
              /\ Dequoted(SubSeq(raw, 2, Len(raw) - 1)) = value
<1> DEFINE raw == Enquoted(value)
           N == Len(value)
<1>0. N \in Nat
  OBVIOUS
<1>1. PICK quoted : Grows(value, quoted) /\ raw = Append(quoted[N], QuoteMark)
  <2>1. PICK quoted :
              /\ quoted[0] = <<QuoteMark>>
              /\ \A i \in 1 .. N :
                    quoted[i] = IF value[i] = QuoteMark
                                  THEN quoted[i - 1] \o <<Backslash, QuoteMark>>
                                  ELSE Append(quoted[i - 1], value[i])
              /\ raw = Append(quoted[N], QuoteMark)
    BY EnquotedDef
  <2>2. Grows(value, quoted)
    BY <2>1 DEF Grows, Grown
  <2> QED
    BY <2>1, <2>2
<1>2. \A i \in 0 .. N : Shaped(quoted[i]) /\ Len(quoted[i]) \in Nat
  BY <1>1, QuotedShape DEF Shaped
<1> DEFINE q == quoted[N]
           s == SubSeq(raw, 2, Len(raw) - 1)
<1> HIDE DEF raw
<1>3. Shaped(q) /\ q \in Seq(Text) /\ Len(q) \in Nat /\ Len(q) >= 1
  BY <1>0, <1>2 DEF Shaped
<1>4. /\ raw \in Seq(Text) /\ Len(raw) = Len(q) + 1
      /\ \A j \in 1 .. Len(q) : raw[j] = q[j]
      /\ raw[Len(q) + 1] = QuoteMark
  <2> HIDE DEF q
  <2>1. QuoteMark \in Text /\ raw = Append(q, QuoteMark)
    BY <1>1, Signs DEF q
  <2> QED
    BY <1>3, <2>1
<1>5. /\ s \in Seq(Text) /\ Len(s) = Len(q) - 1
      /\ \A j \in 1 .. Len(s) : s[j] = q[j + 1]
  <2> HIDE DEF q
  <2>0. s = SubSeq(raw, 2, Len(q)) /\ \A j \in 2 .. Len(q) : raw[j] \in Text
    BY <1>3, <1>4
  <2>1. s \in Seq(Text) /\ Len(s) = Len(q) - 1
    <3>1. /\ SubSeq(raw, 2, Len(q)) \in Seq(Text)
          /\ Len(SubSeq(raw, 2, Len(q))) = IF 2 <= Len(q) THEN Len(q) - 2 + 1 ELSE 0
      <4>1. 2 \in Int /\ Len(q) \in Int
        BY <1>3
      <4> HIDE DEF s
      <4> QED
        BY <2>0, <4>1, SubSeqProperties
    <3> DEFINE l == Len(s)
    <3> HIDE DEF s
    <3>2. s \in Seq(Text) /\ l = IF 2 <= Len(q) THEN Len(q) - 2 + 1 ELSE 0
      BY <2>0, <3>1, Zenon
    <3> DEFINE m == Len(q)
    <3>3. m \in Nat /\ m >= 1
      BY <1>3
    <3>4. l = IF 2 <= m THEN m - 2 + 1 ELSE 0
      BY <3>2
    <3> HIDE DEF l, m
    <3>5. l = m - 1
      BY <3>3, <3>4
    <3> QED
      BY <3>2, <3>5 DEF l, m
  <2>2. \A j \in 1 .. Len(q) - 1 : s[j] = raw[j + 1]
    BY <1>3, <1>4, <2>0, SubSeqProperties
  <2> HIDE DEF s
  <2> QED
    BY <1>3, <1>4, <2>1, <2>2
<1>6. \A j \in 1 .. Len(s) : s[j] = QuoteMark => j > 1 /\ s[j - 1] = Backslash
  <2> HIDE DEF q, s
  <2> SUFFICES ASSUME NEW j \in 1 .. Len(s), s[j] = QuoteMark
               PROVE  j > 1 /\ s[j - 1] = Backslash
    OBVIOUS
  <2>1. j + 1 \in 2 .. Len(q) /\ q[j + 1] = QuoteMark
    BY <1>3, <1>5
  <2>2. j + 1 > 2 /\ q[(j + 1) - 1] = Backslash
    BY <1>3, <2>1 DEF Shaped
  <2>3. j > 1 /\ q[j] = Backslash
    BY <1>3, <1>5, <2>2
  <2> QED
    BY <1>3, <1>5, <2>3
<1>7. \A j \in 1 .. Len(s) : j \in Escapes(s) <=> j < Len(s) /\ s[j + 1] = QuoteMark
  <2> SUFFICES ASSUME NEW j \in 1 .. Len(s)
               PROVE  j \in Escapes(s) <=> j < Len(s) /\ s[j + 1] = QuoteMark
    OBVIOUS
  <2> HIDE DEF q, s
  <2>1. Len(s) \in Nat /\ QuoteMark # Backslash
    BY <1>5, Signs
  <2>2. j \in Escapes(s) => j < Len(s) /\ s[j + 1] = QuoteMark
    BY <1>5, EscapesDef
  <2>3. ASSUME j < Len(s), s[j + 1] = QuoteMark PROVE j \in Escapes(s)
    <3>1. s[j] = Backslash
      BY <1>6, <2>1, <2>3
    <3>2. j = 1 \/ j - 1 \notin Escapes(s)
      <4>1. j = 1 \/ j - 1 \in 1 .. Len(s)
        BY <2>1
      <4>2. j # 1 /\ j - 1 \in Escapes(s) => s[(j - 1) + 1] = QuoteMark
        BY <4>1, <1>5, EscapesDef
      <4> QED
        BY <2>1, <3>1, <4>2
    <3> QED
      BY <1>5, <2>3, <3>1, <3>2, EscapesDef
  <2> QED
    BY <2>2, <2>3
<1>8. PICK kept : /\ kept[0] = <<>>
                  /\ \A i \in 1 .. Len(s) :
                        kept[i] = IF i \in Escapes(s) THEN kept[i - 1]
                                                     ELSE Append(kept[i - 1], s[i])
                  /\ Dequoted(s) = kept[Len(s)]
  <2> HIDE DEF s
  <2> QED
    BY <1>5, DequotedDef
<1> DEFINE S == {i \in 0 .. N : kept[Len(quoted[i]) - 1] = SubSeq(value, 1, i)}
<1>9. 0 \in S
  <2>1. quoted[0] = <<QuoteMark>>
    BY <1>1 DEF Grows
  <2>2. Len(quoted[0]) - 1 = 0
    BY <2>1
  <2>3. SubSeq(value, 1, 0) = <<>>
    OBVIOUS
  <2>4. kept[0] = <<>>
    BY <1>8
  <2>5. kept[Len(quoted[0]) - 1] = SubSeq(value, 1, 0)
    BY <2>2, <2>3, <2>4
  <2> QED
    BY <1>0, <2>5
<1>10. ASSUME NEW i \in 1 .. N, i - 1 \in S PROVE i \in S
  <2> DEFINE a == Len(quoted[i - 1])
             b == Len(quoted[i])
             x == value[i]
  <2>1. /\ x \in Text /\ Shaped(quoted[i - 1]) /\ a \in Nat /\ b \in Nat /\ a >= 1
        /\ i \in 0 .. N /\ i - 1 \in 0 .. N
    BY <1>0, <1>2 DEF Shaped
  <2>2. quoted[i] = Grown(quoted[i - 1], x)
    BY <1>1 DEF Grows
  <2>3. /\ quoted[i][a + 1] = IF x = QuoteMark THEN Backslash ELSE x
        /\ x = QuoteMark => b = a + 2 /\ quoted[i][a + 2] = QuoteMark
        /\ x # QuoteMark => b = a + 1
    <3> DEFINE p == quoted[i - 1]
               r == Grown(p, x)
    <3> HIDE DEF S, N, q, s, x, p
    <3>1. /\ r[Len(p) + 1] = IF x = QuoteMark THEN Backslash ELSE x
          /\ x = QuoteMark => Len(r) = Len(p) + 2 /\ r[Len(p) + 2] = QuoteMark
          /\ x # QuoteMark => Len(r) = Len(p) + 1
      <4>1. Shaped(p) /\ x \in Text
        BY <2>1 DEF p
      <4> HIDE DEF r
      <4> QED
        BY <4>1, ShapedGrows DEF r
    <3>2. r = quoted[i]
      BY <2>2 DEF p
    <3> HIDE DEF r
    <3> QED
      BY <3>1, <3>2, Zenon DEF p
  <2>4. b <= Len(q) /\ \A j \in 1 .. b : q[j] = quoted[i][j]
    BY <1>0, <1>1, <2>1, QuotedPrefix, SMTT(30)
  <2>5. b < Len(q) => q[b + 1] # QuoteMark
    <3> SUFFICES ASSUME b < Len(q) PROVE q[b + 1] # QuoteMark
      OBVIOUS
    <3>1. i + 1 \in 1 .. N /\ value[i + 1] \in Text
      <4>1. i # N
        OBVIOUS
      <4> QED
        BY <1>0, <4>1
    <3>2. quoted[i + 1] = Grown(quoted[i], value[i + 1])
      <4>1. (i + 1) - 1 = i
        OBVIOUS
      <4> QED
        BY <1>1, <3>1, <4>1 DEF Grows
    <3>3. Shaped(quoted[i])
      BY <1>2, <2>1
    <3>4. /\ quoted[i + 1][b + 1] # QuoteMark
          /\ Len(quoted[i + 1]) > b
      <4>1. LET r == Grown(quoted[i], value[i + 1])
            IN  r[Len(quoted[i]) + 1] # QuoteMark /\ Len(r) > Len(quoted[i])
        BY <3>1, <3>3, ShapedGrows
      <4> QED
        BY <3>2, <4>1
    <3>5. Len(quoted[i + 1]) \in Nat
      BY <1>2, <3>1
    <3>6. \A j \in 1 .. Len(quoted[i + 1]) : q[j] = quoted[i + 1][j]
      BY <1>0, <1>1, <3>1, QuotedPrefix, SMTT(30)
    <3>7. b + 1 \in 1 .. Len(quoted[i + 1])
      <4> DEFINE l == Len(quoted[i + 1])
      <4>1. b \in Nat /\ l \in Nat /\ l > b
        BY <2>1, <3>4, <3>5
      <4> HIDE DEF b, l
      <4> QED
        BY <4>1 DEF l
    <3>8. q[b + 1] = quoted[i + 1][b + 1]
      <4> HIDE DEF b, q
      <4> QED
        BY <3>6, <3>7
    <3> HIDE DEF b, q
    <3> QED
      BY <3>4, <3>8, Zenon
  <2>6. kept[a - 1] = SubSeq(value, 1, i - 1)
    BY <1>10
  <2>7. SubSeq(value, 1, i) = Append(SubSeq(value, 1, i - 1), x)
    BY <2>1
  <2> HIDE DEF q, s, a, b, x, S
  <2>8. CASE x = QuoteMark
    <3>1. b = a + 2 /\ q[a + 1] = Backslash /\ q[a + 2] = QuoteMark /\ a + 2 <= Len(q)
      BY <2>1, <2>3, <2>4, <2>8
    <3>2. s[a] = Backslash /\ s[a + 1] = QuoteMark /\ a + 1 <= Len(s)
      BY <1>3, <1>5, <2>1, <3>1, SMTT(30)
    <3>3. a \in 1 .. Len(s) /\ a + 1 \in 1 .. Len(s) /\ (a + 1) - 1 = a
      BY <1>3, <1>5, <2>1, <3>2, SMTT(30)
    <3>4. a \in Escapes(s)
      BY <1>7, <3>2, <3>3, <1>5
    <3>5. a + 1 \notin Escapes(s)
      <4>1. a + 1 # 1
        BY <2>1
      <4> QED
        BY <1>5, <3>3, <3>4, <4>1, EscapesDef
    <3>6. kept[a] = kept[a - 1]
      BY <1>8, <3>3, <3>4
    <3>7. kept[a + 1] = Append(kept[a], s[a + 1])
      BY <1>8, <3>3, <3>5
    <3>8. b - 1 = a + 1
      BY <2>1, <3>1
    <3>9. kept[b - 1] = SubSeq(value, 1, i)
      BY <2>6, <2>7, <2>8, <3>2, <3>6, <3>7, <3>8
    <3> QED
      BY <2>1, <3>9 DEF S, b
  <2>9. CASE x # QuoteMark
    <3>1. b = a + 1 /\ q[a + 1] = x /\ a + 1 <= Len(q) /\ (a + 1 < Len(q) => q[a + 2] # QuoteMark)
      BY <1>3, <2>1, <2>3, <2>4, <2>5, <2>9
    <3>2. s[a] = x /\ a \in 1 .. Len(s) /\ (a < Len(s) => s[a + 1] # QuoteMark)
      BY <1>3, <1>5, <2>1, <3>1, SMTT(30)
    <3>3. a \notin Escapes(s)
      BY <1>7, <3>2
    <3>4. kept[a] = Append(kept[a - 1], s[a])
      BY <1>8, <3>2, <3>3
    <3>5. b - 1 = a
      BY <2>1, <3>1
    <3>6. kept[b - 1] = SubSeq(value, 1, i)
      BY <2>6, <2>7, <3>2, <3>4, <3>5
    <3> QED
      BY <2>1, <3>6 DEF S, b
  <2> QED
    BY <2>8, <2>9
<1>11. N \in S
  <2>1. N \in 0 .. N
    BY <1>0
  <2> HIDE DEF S, N, q, s
  <2> QED
    BY <1>0, <1>9, <1>10, <2>1, UpTo
<1>12. Dequoted(s) = value
  <2>1. SubSeq(value, 1, N) = value
    OBVIOUS
  <2>2. kept[Len(q) - 1] = value
    BY <1>11, <2>1
  <2> HIDE DEF q, s
  <2> QED
    BY <1>5, <1>8, <2>2
<1>13. \A j \in 2 .. Len(raw) - 1 : raw[j] = QuoteMark => j > 2 /\ raw[j - 1] = Backslash
  <2> HIDE DEF q, s
  <2> QED
    BY <1>3, <1>4, SMTT(30) DEF Shaped
<1>14. raw[1] = QuoteMark
  <2> HIDE DEF q, s
  <2> QED
    BY <1>3, <1>4 DEF Shaped
<1>15. raw \in Seq(Text) /\ Len(raw) >= 2 /\ raw[Len(raw)] = QuoteMark
  <2> HIDE DEF q, s
  <2> QED
    BY <1>3, <1>4
<1> QED
  BY <1>12, <1>13, <1>14, <1>15 DEF raw

\* A value that was written by ini_puts is read by ini_gets as it was, quoted or not
\* (check_enquote, the QUOTE_ENQUOTE and QUOTE_DEQUOTE of ini_strncpy, cleanstring):
\* between the quotes no comment begins.
THEOREM RoundTrips ==
    ASSUME NEW value \in Seq(Text), NEW k
    PROVE  /\ Len(writekey(k, value)) \in Nat /\ Len(writekey(k, value)) > 2
           /\ writekey(k, value)[1] = k /\ writekey(k, value)[2] = "="
           /\ k \in Text => writekey(k, value) \in Seq(Text)
           /\ ValueOn(writekey(k, value)) = value
<1> DEFINE quote == check_enquote(value)
           raw == IF quote THEN Enquoted(value) ELSE value
           line == writekey(k, value)
<1>1. raw \in Seq(Text) /\ Len(raw) \in Nat
  BY Requoted
<1> HIDE DEF raw, quote
<1>2. line = (<<k, "=">> \o raw) \o <<LF>>
  BY DEF writekey, raw, quote
<1> HIDE DEF line
<1> DEFINE U == Text \cup {k, "=", LF}
<1>3. raw \in Seq(U) /\ <<k, "=">> \in Seq(U) /\ <<LF>> \in Seq(U)
  BY <1>1
<1>4. /\ line \in Seq(U) /\ Len(line) = Len(raw) + 3
      /\ line[1] = k /\ line[2] = "="
      /\ \A i \in 1 .. Len(raw) : line[i + 2] = raw[i]
  <2> HIDE DEF U
  <2> QED
    BY <1>1, <1>2, <1>3
<1>5. SubSeq(line, 3, Len(line) - 1) = raw
  <2> HIDE DEF U
  <2>1. Len(line) - 1 = Len(raw) + 2
    BY <1>1, <1>4
  <2> DEFINE t == SubSeq(line, 3, Len(raw) + 2)
  <2>2. \A i \in 3 .. Len(raw) + 2 : line[i] \in U
    BY <1>1, <1>4
  <2>3. /\ t \in Seq(U) /\ Len(t) = Len(raw)
        /\ \A i \in 1 .. Len(raw) : t[i] = raw[i]
    <3>1. 3 \in Int /\ Len(raw) + 2 \in Int
      BY <1>1
    <3>2. /\ t \in Seq(U) /\ Len(t) = IF 3 <= Len(raw) + 2 THEN (Len(raw) + 2) - 3 + 1 ELSE 0
          /\ \A i \in 1 .. (Len(raw) + 2) - 3 + 1 : t[i] = line[3 + i - 1]
      BY <2>2, <3>1, SubSeqProperties
    <3> HIDE DEF t
    <3> QED
      BY <1>1, <1>4, <3>2
  <2> HIDE DEF t
  <2>4. t = raw
    BY <1>1, <1>3, <2>3
  <2> QED
    BY <2>1, <2>4 DEF t
<1>6. cleanstring(raw) = value
  <2> DEFINE escapes == Escapes(raw)
             quotes == {i \in 1 .. Len(raw) : raw[i] = QuoteMark /\ {i - 1, i} \cap escapes = {}}
             isstring(i) == Cardinality({q \in quotes : q < i}) % 2 = 1
             begins == {i \in 1 .. Len(raw) : raw[i] \in Comment /\ ~isstring(i)}
  <2>1. begins = {} => CommentAt(raw) = Len(raw) + 1
    <3>1. CommentAt(raw) = Min(begins \cup {Len(raw) + 1})
      BY DEF CommentAt
    <3>2. ASSUME begins = {} PROVE CommentAt(raw) = Len(raw) + 1
      <4>1. CommentAt(raw) = Min({Len(raw) + 1})
        BY <3>1, <3>2
      <4>2. {Len(raw) + 1} \in SUBSET Nat /\ {Len(raw) + 1} # {}
        BY <1>1
      <4> HIDE DEF begins
      <4> QED
        BY <4>1, <4>2, MinOK
    <3> QED
      BY <3>2
  <2>2. SubSeq(raw, 1, (Len(raw) + 1) - 1) = raw
    BY <1>1
  <2>3. CASE ~quote
    <3>1. raw = value
      BY <2>3 DEF raw
    <3>2. \A i \in 1 .. Len(value) : value[i] # QuoteMark /\ value[i] \notin Comment
      BY <2>3 DEF quote, check_enquote, ToSet
    <3>3. begins = {}
      BY <3>1, <3>2
    <3>4. raw # <<>> => raw[1] # QuoteMark
      BY <1>1, <3>1, <3>2
    <3> HIDE DEF begins
    <3> QED
      BY <2>1, <2>2, <3>1, <3>3, <3>4 DEF cleanstring
  <2>4. CASE quote
    <3>1. raw = Enquoted(value)
      BY <2>4 DEF raw
    <3>2. /\ Len(raw) >= 2
          /\ raw[1] = QuoteMark /\ raw[Len(raw)] = QuoteMark
          /\ \A j \in 2 .. Len(raw) - 1 : raw[j] = QuoteMark => j > 2 /\ raw[j - 1] = Backslash
          /\ Dequoted(SubSeq(raw, 2, Len(raw) - 1)) = value
      BY <3>1, Requoted
    <3>3. /\ Escapes(raw) \subseteq 1 .. Len(raw)
          /\ \A i \in 1 .. Len(raw) :
                 i \in Escapes(raw) <=>
                    /\ i < Len(raw) /\ raw[i] \in {QuoteMark, Backslash} /\ raw[i + 1] = QuoteMark
                    /\ i = 1 \/ i - 1 \notin Escapes(raw)
      BY <1>1, EscapesDef
    <3>4. value # <<>>
      BY <2>4 DEF quote, check_enquote, ToSet
    <3>5. Len(raw) > 2
      <4> DEFINE m == Len(raw)
      <4>0. m \in Nat /\ m >= 2
        BY <1>1, <3>2
      <4>1. SUFFICES ASSUME m = 2 PROVE FALSE
        <5> HIDE DEF m
        <5>1. m > 2
          BY <4>0, <4>1
        <5> QED
          BY <5>1 DEF m
      <4>2. SubSeq(raw, 2, Len(raw) - 1) = <<>>
        BY <1>1, <4>1
      <4>3. <<>> \in Seq(Text) /\ Len(<<>>) = 0
        OBVIOUS
      <4>4. PICK kept : kept[0] = <<>> /\ Dequoted(<<>>) = kept[Len(<<>>)]
        BY <4>3, DequotedDef
      <4> QED
        BY <3>2, <3>4, <4>2, <4>3, <4>4
    <3>6. 1 \in quotes
      <4>1. 1 \notin Escapes(raw)
        BY <1>1, <3>2, <3>3, <3>5
      <4>2. 0 \notin Escapes(raw)
        BY <3>3
      <4> QED
        BY <3>2, <4>1, <4>2
    <3>7. ASSUME NEW j \in 2 .. Len(raw) - 1 PROVE j \notin quotes
      <4>1. SUFFICES ASSUME raw[j] = QuoteMark PROVE j - 1 \in Escapes(raw)
        OBVIOUS
      <4>2. j > 2 /\ raw[j - 1] = Backslash
        BY <3>2, <4>1
      <4>3. /\ j - 1 \in 1 .. Len(raw) /\ j - 2 \in 1 .. Len(raw)
            /\ (j - 1) + 1 = j /\ (j - 2) + 1 = j - 1 /\ (j - 1) - 1 = j - 2
        BY <1>1, <4>2
      <4>4. j - 2 \notin Escapes(raw)
        BY <3>3, <4>2, <4>3, Signs
      <4> QED
        BY <1>1, <3>3, <4>1, <4>2, <4>3, <4>4
    <3>8. ASSUME NEW i \in 1 .. Len(raw), raw[i] \in Comment PROVE isstring(i)
      <4>1. i \in 2 .. Len(raw) - 1
        <5>1. raw[i] # QuoteMark
          BY <3>8, Signs
        <5> QED
          BY <1>1, <3>2, <5>1
      <4>2. {q \in quotes : q < i} = {1}
        <5> HIDE DEF quotes
        <5>1. quotes \subseteq 1 .. Len(raw)
          BY DEF quotes
        <5>2. \A q \in quotes : q < i => q = 1
          BY <1>1, <3>7, <4>1, <5>1
        <5> QED
          BY <3>6, <4>1, <5>2
      <4>3. Cardinality({1}) = 1
        BY FS_Singleton
      <4>4. Cardinality({q \in quotes : q < i}) = 1
        BY <4>2, <4>3, Zenon
      <4>5. 1 % 2 = 1
        OBVIOUS
      <4> HIDE DEF quotes
      <4> QED
        BY <4>4, <4>5, Zenon
    <3>9. begins = {}
      <4> HIDE DEF isstring
      <4> QED
        BY <3>8
    <3>10. raw # <<>>
      BY <3>5
    <3> HIDE DEF begins
    <3> QED
      BY <2>1, <2>2, <3>2, <3>9, <3>10 DEF cleanstring, Last
  <2> QED
    BY <2>3, <2>4
<1>7. ValueOn(line) = value
  BY <1>5, <1>6 DEF ValueOn
<1>8. Len(line) \in Nat /\ Len(line) > 2
  BY <1>1, <1>4
<1>9. k \in Text => line \in Seq(Text)
  <2>1. k \in Text => U = Text
    BY Signs
  <2> HIDE DEF U
  <2> QED
    BY <1>4, <2>1
<1> QED
  BY <1>4, <1>7, <1>8, <1>9 DEF line

-----------------------------------------------------------------------------
(* Lines and the settings they hold *)

\* Lines are not empty.
Lines == Seq(Text) \ {<<>>}

\* The name of a setting is a section's and a key's.
LEMMA NamesOK ==
    ASSUME NEW n \in SettingNames
    PROVE  n = <<n[1], n[2]>> /\ n[1] \in Text /\ n[2] \in Text /\ n[2] # "["
<1>1. n = <<n[1], n[2]>>
  <2>1. \A a, b : <<a, b>> = <<<<a, b>>[1], <<a, b>>[2]>>
    OBVIOUS
  <2>2. \E a, b : n = <<a, b>>
    <3>1. \/ \E c \in Friends : n = outgoing_sn(c)
          \/ \E c \in Writers : n = incoming_sn(c) \/ n = meta_chat_flag(c)
          \/ n = relay_public_key
      <4> DEFINE T == {{incoming_sn(c), meta_chat_flag(c)} : c \in Writers}
                 O == {outgoing_sn(c) : c \in Friends}
                 R == UNION T
      <4>1. n \in O \/ n \in R \/ n = relay_public_key
        <5>1. n \in (O \cup R) \cup {relay_public_key}
          BY Zenon DEF SettingNames
        <5> HIDE DEF O, R
        <5> QED
          BY <5>1
      <4>2. ASSUME n \in UNION T
            PROVE  \E c \in Writers : n = incoming_sn(c) \/ n = meta_chat_flag(c)
        <5>1. PICK t \in T : n \in t
          BY <4>2
        <5>2. PICK c \in Writers : t = {incoming_sn(c), meta_chat_flag(c)}
          BY <5>1
        <5> QED
          BY <5>1, <5>2
      <4> HIDE DEF T
      <4> QED
        BY <4>1, <4>2
    <3>2. \A c : outgoing_sn(c) = <<"outgoing_sn", outgoing_sn(c)[2]>>
      BY DEF outgoing_sn
    <3>3. \A c : incoming_sn(c) = <<"incoming_sn", incoming_sn(c)[2]>>
      BY DEF incoming_sn
    <3>4. \A c : meta_chat_flag(c) = <<"meta_chat_flag", meta_chat_flag(c)[2]>>
      BY DEF meta_chat_flag
    <3>5. relay_public_key = <<"metaCom_Relayer", "relay_public_key">>
      BY DEF relay_public_key
    <3> QED
      BY <3>1, <3>2, <3>3, <3>4, <3>5, Zenon
  <2> QED
    BY <2>1, <2>2
<1>2. n[1] \in Text /\ n[2] \in Text
  BY DEF Text
<1> QED
  BY <1>1, <1>2, TextAssumption

\* A written entry is an entry for its key only, and no heading.
LEMMA EntryLine ==
    ASSUME NEW n \in SettingNames, NEW v \in Seq(Text)
    PROVE  LET e == writekey(n[2], v) IN
           /\ e \in Lines /\ ~IsHeading(e) /\ IsEntry(e, n[2])
           /\ \A k : IsEntry(e, k) => k = n[2]
           /\ ValueOn(e) = v /\ e # Unset
<1> DEFINE e == writekey(n[2], v)
<1>1. /\ Len(e) \in Nat /\ Len(e) > 2 /\ e[1] = n[2] /\ e[2] = "="
      /\ e \in Seq(Text) /\ ValueOn(e) = v
  BY NamesOK, RoundTrips
<1> HIDE DEF e
<1>2. e # <<>> /\ e # Unset
  BY <1>1 DEF Unset
<1>3. ~IsHeading(e) /\ IsEntry(e, n[2]) /\ \A k : IsEntry(e, k) => k = n[2]
  BY <1>1, NamesOK DEF IsHeading, IsEntry
<1> QED
  BY <1>1, <1>2, <1>3 DEF e, Lines

\* A heading is an entry for no key.
LEMMA HeadingLine ==
    ASSUME NEW n \in SettingNames
    PROVE  LET h == writesection(n[1]) IN
           /\ h \in Lines /\ IsHeading(h)
           /\ \A m \in SettingNames : ~IsEntry(h, m[2])
<1> DEFINE h == writesection(n[1])
<1>1. h \in Seq(Text) /\ h # <<>> /\ h[1] = "["
  BY NamesOK, Signs DEF writesection
<1> HIDE DEF h
<1> QED
  BY <1>1, NamesOK DEF h, IsHeading, IsEntry, Lines

\* Different sections have different headings.
LEMMA HeadingsDiffer ==
    ASSUME NEW a, NEW b, writesection(a) = writesection(b)
    PROVE  a = b
BY DEF writesection

\* An empty line is neither.
LEMMA BlankLine ==
    /\ <<LF>> \in Lines
    /\ \A k : ~IsEntry(<<LF>>, k)
BY Signs DEF IsEntry, Lines

\* A file is not missing.
LEMMA NotMissing ==
    ASSUME NEW f \in Seq(Lines)
    PROVE  f # Missing
<1>1. f \in Seq(Seq(Text))
  BY DEF Lines
<1> QED
  BY <1>1, TextAssumption

\* A setting is on one line at most.
LEMMA OneHolder ==
    ASSUME NEW f \in Seq(Lines), NEW n, NEW i \in Holds(f, n), NEW j \in Holds(f, n)
    PROVE  i = j
<1> DEFINE head(x) == x = writesection(n[1])
           entry(x) == IsEntry(x, n[2])
<1>0. DOMAIN f = 1 .. Len(f) /\ Len(f) \in Nat
  OBVIOUS
<1> HIDE DEF head, entry
<1>1. \A k \in Holds(f, n) :
         /\ k \in 1 .. Len(f) /\ entry(f[k])
         /\ \E p \in 1 .. k - 1 :
               /\ head(f[p])
               /\ \A q \in 1 .. p - 1 : ~head(f[q])
               /\ \A q \in p + 1 .. k - 1 : ~entry(f[q])
  BY <1>0 DEF Holds, getkeystring, head, entry
<1>2. PICK p \in 1 .. i - 1 :
               /\ head(f[p])
               /\ \A q \in 1 .. p - 1 : ~head(f[q])
               /\ \A q \in p + 1 .. i - 1 : ~entry(f[q])
  BY <1>1
<1>3. PICK r \in 1 .. j - 1 :
               /\ head(f[r])
               /\ \A q \in 1 .. r - 1 : ~head(f[q])
               /\ \A q \in r + 1 .. j - 1 : ~entry(f[q])
  BY <1>1
<1>4. i \in 1 .. Len(f) /\ j \in 1 .. Len(f) /\ entry(f[i]) /\ entry(f[j])
  BY <1>1
<1>5. p = r
  BY <1>0, <1>2, <1>3, <1>4
<1> QED
  BY <1>0, <1>2, <1>3, <1>4, <1>5

\* The line of a setting that a file holds, and of one that it does not.
LEMMA LineIs ==
    ASSUME NEW f \in Seq(Lines), NEW n, NEW i \in Holds(f, n)
    PROVE  LineOf(f, n) = f[i]
<1>1. f # Missing /\ Holds(f, n) # {}
  BY NotMissing
<1>2. (CHOOSE j \in Holds(f, n) : TRUE) = i
  BY OneHolder
<1> QED
  BY <1>1, <1>2 DEF LineOf

\* A setting that no line holds has its default.
LEMMA LineNone ==
    ASSUME NEW f, NEW n, Holds(f, n) = {}
    PROVE  LineOf(f, n) = Unset
BY DEF LineOf

\* If the same lines hold the settings of two files, they have the same line.
LEMMA SameLine ==
    ASSUME NEW f \in Seq(Lines), NEW g \in Seq(Lines), NEW n,
           \A i \in Holds(f, n) : \E j \in Holds(g, n) : g[j] = f[i],
           \A j \in Holds(g, n) : \E i \in Holds(f, n) : g[j] = f[i]
    PROVE  LineOf(g, n) = LineOf(f, n)
<1>1. CASE Holds(f, n) = {}
  BY <1>1, LineNone
<1>2. CASE Holds(f, n) # {}
  <2>1. PICK i \in Holds(f, n) : TRUE
    BY <1>2
  <2>2. PICK j \in Holds(g, n) : g[j] = f[i]
    BY <2>1
  <2> QED
    BY <2>1, <2>2, LineIs
<1> QED
  BY <1>1, <1>2

-----------------------------------------------------------------------------
(* The three ways to edit a file *)

\* Holds, with what is asked of a line hidden.
LEMMA HoldsIff ==
    ASSUME NEW f \in Seq(Lines), NEW n, NEW i
    PROVE  i \in Holds(f, n) <=>
              /\ i \in 1 .. Len(f) /\ IsEntry(f[i], n[2])
              /\ \E p \in 1 .. i - 1 :
                    /\ f[p] = writesection(n[1])
                    /\ \A q \in 1 .. p - 1 : f[q] # writesection(n[1])
                    /\ \A q \in p + 1 .. i - 1 : ~IsHeading(f[q]) /\ ~IsEntry(f[q], n[2])
<1>1. DOMAIN f = 1 .. Len(f)
  OBVIOUS
<1> QED
  BY <1>1 DEF Holds, getkeystring

\* Lines behind the last one are no matter for the settings before them.
LEMMA PrefixHolds ==
    ASSUME NEW f \in Seq(Lines), NEW g \in Seq(Lines), NEW n, NEW k \in Nat,
           k <= Len(f), k <= Len(g), \A i \in 1 .. k : g[i] = f[i],
           NEW i \in Holds(f, n), i <= k
    PROVE  i \in Holds(g, n)
<1>0. Len(f) \in Nat /\ Len(g) \in Nat
  OBVIOUS
<1>1. i \in 1 .. Len(f) /\ IsEntry(f[i], n[2])
  BY HoldsIff
<1>2. PICK p \in 1 .. i - 1 :
         /\ f[p] = writesection(n[1])
         /\ \A q \in 1 .. p - 1 : f[q] # writesection(n[1])
         /\ \A q \in p + 1 .. i - 1 : ~IsHeading(f[q]) /\ ~IsEntry(f[q], n[2])
  BY HoldsIff
<1>3. i \in 1 .. Len(g) /\ IsEntry(g[i], n[2])
  BY <1>0, <1>1
<1>4. /\ g[p] = writesection(n[1])
      /\ \A q \in 1 .. p - 1 : g[q] # writesection(n[1])
      /\ \A q \in p + 1 .. i - 1 : ~IsHeading(g[q]) /\ ~IsEntry(g[q], n[2])
  BY <1>0, <1>1, <1>2
<1> QED
  BY <1>3, <1>4, HoldsIff

\* A line that is no entry for a setting, put behind the last one, does not
\* change the setting.
LEMMA AppendLine ==
    ASSUME NEW f \in Seq(Lines), NEW l \in Lines, NEW n, ~IsEntry(l, n[2])
    PROVE  LineOf(Append(f, l), n) = LineOf(f, n)
<1> DEFINE g == Append(f, l)
<1>1. /\ g \in Seq(Lines) /\ Len(f) \in Nat /\ Len(g) = Len(f) + 1
      /\ \A i \in 1 .. Len(f) : g[i] = f[i]
      /\ g[Len(f) + 1] = l
  OBVIOUS
<1> HIDE DEF g
<1>2. ASSUME NEW i \in Holds(f, n) PROVE i \in Holds(g, n) /\ g[i] = f[i]
  <2>1. i \in 1 .. Len(f)
    BY HoldsIff
  <2>2. Len(f) <= Len(f) /\ Len(f) <= Len(g)
    BY <1>1
  <2> QED
    BY <1>1, <2>1, <2>2, PrefixHolds, SMTT(30)
<1>3. ASSUME NEW i \in Holds(g, n) PROVE i \in Holds(f, n) /\ g[i] = f[i]
  <2>1. i \in 1 .. Len(g) /\ IsEntry(g[i], n[2])
    BY <1>1, HoldsIff
  <2>2. i <= Len(f) /\ i \in 1 .. Len(f)
    BY <1>1, <2>1
  <2>3. Len(f) <= Len(f) /\ Len(f) <= Len(g) /\ \A j \in 1 .. Len(f) : f[j] = g[j]
    BY <1>1
  <2> QED
    BY <1>1, <2>2, <2>3, PrefixHolds
<1> QED
  BY <1>1, <1>2, <1>3, SameLine DEF g

\* The first heading of n's section in f is line p, and up to line k neither
\* the next section nor an entry for n follows.
InSection(f, n, p, k) ==
    /\ p \in 1 .. Len(f) /\ k \in p .. Len(f)
    /\ f[p] = writesection(n[1])
    /\ \A q \in 1 .. p - 1 : f[q] # writesection(n[1])
    /\ \A q \in p + 1 .. k : ~IsHeading(f[q]) /\ ~IsEntry(f[q], n[2])

\* A line in the section, inserted behind line k.
Inserted(f, g, k, e) ==
    /\ g \in Seq(Lines) /\ Len(g) = Len(f) + 1
    /\ \A i \in 1 .. k : g[i] = f[i]
    /\ g[k + 1] = e
    /\ \A i \in k + 1 .. Len(f) : g[i + 1] = f[i]

\* Entered at the end of its section a setting is found there.
LEMMA InsertSets ==
    ASSUME NEW f \in Seq(Lines), NEW g, NEW n \in SettingNames, NEW v \in Seq(Text),
           NEW p, NEW k, InSection(f, n, p, k), Inserted(f, g, k, writekey(n[2], v))
    PROVE  LineOf(g, n) = writekey(n[2], v)
<1> DEFINE e == writekey(n[2], v)
<1>0. Len(f) \in Nat /\ g \in Seq(Lines)
  BY DEF Inserted
<1>1. IsEntry(e, n[2])
  BY EntryLine
<1> HIDE DEF e
<1>2. /\ p \in 1 .. Len(f) /\ k \in p .. Len(f) /\ Len(g) = Len(f) + 1 /\ g[k + 1] = e
      /\ g[p] = writesection(n[1])
      /\ \A q \in 1 .. p - 1 : g[q] # writesection(n[1])
      /\ \A q \in p + 1 .. k : ~IsHeading(g[q]) /\ ~IsEntry(g[q], n[2])
  BY <1>0 DEF InSection, Inserted, e
<1>3. k + 1 \in 1 .. Len(g) /\ p \in 1 .. (k + 1) - 1 /\ (k + 1) - 1 = k
  BY <1>0, <1>2
<1>4. k + 1 \in Holds(g, n)
  BY <1>0, <1>1, <1>2, <1>3, HoldsIff
<1> QED
  BY <1>0, <1>2, <1>4, LineIs DEF e

\* ... and every other setting stays as it was.
LEMMA InsertKeeps ==
    ASSUME NEW f \in Seq(Lines), NEW g, NEW n \in SettingNames, NEW v \in Seq(Text),
           NEW p, NEW k, InSection(f, n, p, k), Inserted(f, g, k, writekey(n[2], v)),
           NEW m \in SettingNames, m # n
    PROVE  LineOf(g, m) = LineOf(f, m)
<1> DEFINE e == writekey(n[2], v)
           h == writesection(m[1])
           entry(x) == IsEntry(x, m[2])
<1>0. Len(f) \in Nat /\ g \in Seq(Lines)
  BY DEF Inserted
<1>1. ~IsHeading(e) /\ (entry(e) => m[2] = n[2])
  BY EntryLine
<1>2. IsHeading(h) /\ IsHeading(writesection(n[1]))
  BY HeadingLine
<1>3. entry(e) => h # writesection(n[1])
  BY <1>1, NamesOK, HeadingsDiffer
<1>4. /\ p \in 1 .. Len(f) /\ k \in p .. Len(f)
      /\ f[p] = writesection(n[1])
      /\ \A q \in p + 1 .. k : ~IsHeading(f[q])
  BY DEF InSection
<1>5. /\ Len(g) = Len(f) + 1
      /\ \A i \in 1 .. k : g[i] = f[i]
      /\ g[k + 1] = e
      /\ \A i \in k + 1 .. Len(f) : g[i + 1] = f[i]
  BY DEF Inserted
<1>6. \A i : i \in Holds(f, m) <=>
          /\ i \in 1 .. Len(f) /\ entry(f[i])
          /\ \E r \in 1 .. i - 1 :
                /\ f[r] = h
                /\ \A q \in 1 .. r - 1 : f[q] # h
                /\ \A q \in r + 1 .. i - 1 : ~IsHeading(f[q]) /\ ~entry(f[q])
  BY HoldsIff
<1>7. \A i : i \in Holds(g, m) <=>
          /\ i \in 1 .. Len(g) /\ entry(g[i])
          /\ \E r \in 1 .. i - 1 :
                /\ g[r] = h
                /\ \A q \in 1 .. r - 1 : g[q] # h
                /\ \A q \in r + 1 .. i - 1 : ~IsHeading(g[q]) /\ ~entry(g[q])
  BY <1>0, HoldsIff
<1>8. k \in Nat /\ k <= Len(f) /\ k <= Len(g)
  BY <1>0, <1>4, <1>5
<1> HIDE DEF e, h, entry
<1>9. ASSUME NEW i \in Holds(f, m) PROVE \E j \in Holds(g, m) : g[j] = f[i]
  <2>1. i \in 1 .. Len(f) /\ entry(f[i])
    BY <1>6
  <2>2. CASE i <= k
    <3>1. i \in Holds(g, m)
      BY <1>0, <1>5, <1>8, <2>2, PrefixHolds
    <3> QED
      BY <1>5, <1>8, <2>1, <2>2, <3>1
  <2>3. CASE i > k
    <3>1. PICK r \in 1 .. i - 1 :
                /\ f[r] = h
                /\ \A q \in 1 .. r - 1 : f[q] # h
                /\ \A q \in r + 1 .. i - 1 : ~IsHeading(f[q]) /\ ~entry(f[q])
      BY <1>6
    <3> DEFINE t == IF r <= k THEN r ELSE r + 1
    <3>2. i + 1 \in 1 .. Len(g) /\ g[i + 1] = f[i]
      <4>1. i \in k + 1 .. Len(f)
        BY <1>8, <2>1, <2>3
      <4>2. g[i + 1] = f[i]
        BY <1>5, <4>1
      <4>3. Len(g) = Len(f) + 1
        BY <1>5
      <4> QED
        BY <1>0, <2>1, <4>2, <4>3
    <3>3. t \in 1 .. (i + 1) - 1 /\ g[t] = h
      <4>1. CASE r <= k
        BY <1>5, <1>8, <2>1, <3>1, <4>1
      <4>2. CASE r > k
        <5>1. r \in k + 1 .. Len(f)
          BY <1>8, <2>1, <3>1, <4>2
        <5>2. g[r + 1] = h
          BY <1>5, <3>1, <5>1
        <5> QED
          BY <1>8, <2>1, <3>1, <4>2, <5>2
      <4> QED
        BY <1>8, <2>1, <3>1, <4>1, <4>2
    <3>4. ASSUME NEW q \in 1 .. t - 1 PROVE g[q] # h
      <4>1. CASE q <= k
        <5>1. q \in 1 .. k /\ q \in 1 .. r - 1
          BY <1>8, <2>1, <3>1, <4>1
        <5> QED
          BY <1>5, <3>1, <5>1
      <4>2. CASE q = k + 1
        BY <1>1, <1>2, <1>5, <4>2
      <4>3. CASE q > k + 1
        <5>1. q - 1 \in 1 .. r - 1 /\ q - 1 \in k + 1 .. Len(f) /\ (q - 1) + 1 = q
          BY <1>0, <1>8, <2>1, <3>1, <4>3
        <5> QED
          BY <1>5, <3>1, <5>1
      <4> QED
        BY <1>8, <4>1, <4>2, <4>3
    <3>5. ASSUME NEW q \in t + 1 .. (i + 1) - 1 PROVE ~IsHeading(g[q]) /\ ~entry(g[q])
      <4>1. CASE q <= k
        <5>1. q \in r + 1 .. i - 1 /\ q \in 1 .. k
          BY <1>8, <2>1, <2>3, <3>1, <4>1
        <5> QED
          BY <1>5, <3>1, <5>1
      <4>2. CASE q = k + 1
        <5>1. r <= k
          BY <1>8, <3>1, <4>2
        <5>2. ~entry(e)
          <6>1. SUFFICES ASSUME entry(e) PROVE FALSE
            OBVIOUS
          <6>2. f[r] # f[p] /\ IsHeading(f[r]) /\ IsHeading(f[p])
            BY <1>2, <1>3, <1>4, <3>1, <6>1
          <6>3. r < p
            BY <1>0, <1>4, <1>8, <3>1, <5>1, <6>2
          <6>4. p \in r + 1 .. i - 1
            BY <1>0, <1>4, <2>1, <2>3, <3>1, <6>3
          <6> QED
            BY <3>1, <6>2, <6>4
        <5> QED
          BY <1>1, <1>5, <4>2, <5>2
      <4>3. CASE q > k + 1
        <5>1. q - 1 \in r + 1 .. i - 1 /\ q - 1 \in k + 1 .. Len(f) /\ (q - 1) + 1 = q
          BY <1>0, <1>8, <2>1, <3>1, <4>3
        <5> QED
          BY <1>5, <3>1, <5>1
      <4> QED
        BY <1>8, <3>3, <4>1, <4>2, <4>3
    <3>6. i + 1 \in Holds(g, m)
      <4> HIDE DEF t
      <4> QED
        BY <1>7, <2>1, <3>2, <3>3, <3>4, <3>5
    <3> QED
      BY <3>2, <3>6
  <2> QED
    BY <1>8, <2>1, <2>2, <2>3
<1>10. ASSUME NEW j \in Holds(g, m) PROVE \E i \in Holds(f, m) : g[j] = f[i]
  <2>1. j \in 1 .. Len(g) /\ entry(g[j])
    BY <1>7
  <2>2. PICK t \in 1 .. j - 1 :
              /\ g[t] = h
              /\ \A q \in 1 .. t - 1 : g[q] # h
              /\ \A q \in t + 1 .. j - 1 : ~IsHeading(g[q]) /\ ~entry(g[q])
    BY <1>7
  <2>3. CASE j <= k
    <3>1. j \in Holds(f, m)
      <4>1. \A i \in 1 .. k : f[i] = g[i]
        BY <1>5
      <4> QED
        BY <1>0, <1>8, <2>3, <4>1, PrefixHolds
    <3> QED
      BY <1>5, <1>8, <2>1, <2>3, <3>1, SMTT(30)
  <2>4. CASE j = k + 1
    <3>1. entry(e) /\ h # writesection(n[1])
      BY <1>3, <1>5, <2>1, <2>4
    <3>2. t \in 1 .. k /\ f[t] = h
      BY <1>5, <1>8, <2>2, <2>4
    <3>3. t # p /\ IsHeading(f[t])
      BY <1>2, <1>4, <3>1, <3>2
    <3>4. t < p
      BY <1>0, <1>4, <1>8, <3>2, <3>3
    <3>5. p \in t + 1 .. j - 1 /\ g[p] = f[p]
      BY <1>0, <1>4, <1>5, <1>8, <2>4, <3>2, <3>4
    <3> QED
      BY <1>2, <1>4, <2>2, <3>5
  <2>5. CASE j > k + 1
    <3>1. t # k + 1
      BY <1>1, <1>2, <1>5, <2>2
    <3> DEFINE r == IF t <= k THEN t ELSE t - 1
    <3>2. j - 1 \in 1 .. Len(f) /\ g[j] = f[j - 1]
      <4>1. j - 1 \in k + 1 .. Len(f) /\ (j - 1) + 1 = j
        BY <1>0, <1>5, <1>8, <2>1, <2>5
      <4> QED
        BY <1>5, <1>8, <4>1
    <3>3. r \in 1 .. (j - 1) - 1 /\ f[r] = h
      <4>1. CASE t <= k
        BY <1>5, <1>8, <2>1, <2>2, <2>5, <4>1
      <4>2. CASE t > k + 1
        <5>1. t - 1 \in k + 1 .. Len(f) /\ (t - 1) + 1 = t
          BY <1>0, <1>5, <1>8, <2>1, <2>2, <4>2
        <5> QED
          BY <1>0, <1>5, <1>8, <2>1, <2>2, <4>2, <5>1
      <4> QED
        BY <1>8, <2>1, <2>2, <3>1, <4>1, <4>2
    <3>4. ASSUME NEW q \in 1 .. r - 1 PROVE f[q] # h
      <4>1. CASE q <= k
        <5>1. q \in 1 .. t - 1 /\ q \in 1 .. k
          BY <1>8, <2>1, <2>2, <4>1
        <5> QED
          BY <1>5, <2>2, <5>1
      <4>2. CASE q > k
        <5>1. q + 1 \in 1 .. t - 1 /\ q \in k + 1 .. Len(f)
          BY <1>0, <1>5, <1>8, <2>1, <2>2, <4>2
        <5> QED
          BY <1>5, <2>2, <5>1
      <4> QED
        BY <1>8, <4>1, <4>2
    <3>5. ASSUME NEW q \in r + 1 .. (j - 1) - 1 PROVE ~IsHeading(f[q]) /\ ~entry(f[q])
      <4>1. CASE q <= k
        <5>1. q \in t + 1 .. j - 1 /\ q \in 1 .. k
          BY <1>8, <2>1, <2>2, <3>1, <4>1
        <5> QED
          BY <1>5, <2>2, <5>1
      <4>2. CASE q > k
        <5>1. q + 1 \in t + 1 .. j - 1 /\ q \in k + 1 .. Len(f)
          BY <1>0, <1>5, <1>8, <2>1, <2>2, <4>2
        <5> QED
          BY <1>5, <2>2, <5>1
      <4> QED
        BY <1>8, <2>1, <2>2, <4>1, <4>2
    <3>6. j - 1 \in Holds(f, m)
      <4> HIDE DEF r
      <4> QED
        BY <1>6, <2>1, <3>2, <3>3, <3>4, <3>5
    <3> QED
      BY <3>2, <3>6
  <2> QED
    BY <1>8, <2>1, <2>3, <2>4, <2>5
<1> QED
  BY <1>0, <1>9, <1>10, SameLine

\* The line of a setting, replaced.
Exchanged(f, g, i, e) ==
    /\ g \in Seq(Lines) /\ Len(g) = Len(f)
    /\ \A j \in 1 .. Len(f) : g[j] = IF j = i THEN e ELSE f[j]

\* What is held on a line that changes only from one entry for a key to another is
\* found where it was.
LEMMA ReplaceHolds ==
    ASSUME NEW f \in Seq(Lines), NEW g, NEW n \in SettingNames, NEW v \in Seq(Text),
           NEW i \in Holds(f, n), Exchanged(f, g, i, writekey(n[2], v)),
           NEW m \in SettingNames
    PROVE  Holds(g, m) = Holds(f, m)
<1> DEFINE e == writekey(n[2], v)
           h == writesection(m[1])
           entry(x) == IsEntry(x, m[2])
<1>0. Len(f) \in Nat /\ g \in Seq(Lines) /\ Len(g) = Len(f)
  BY DEF Exchanged
<1>1. i \in 1 .. Len(f) /\ IsEntry(f[i], n[2])
  BY HoldsIff
<1>2. IsHeading(h) /\ ~IsHeading(e) /\ ~IsHeading(f[i])
  <2>1. ~IsHeading(f[i])
    BY <1>1, NamesOK DEF IsHeading, IsEntry
  <2> QED
    BY <2>1, EntryLine, HeadingLine
<1>3. entry(e) <=> entry(f[i])
  <2>1. entry(e) <=> m[2] = n[2]
    BY EntryLine
  <2>2. entry(f[i]) <=> m[2] = n[2]
    BY <1>1 DEF IsEntry
  <2> QED
    BY <2>1, <2>2
<1>4. \A j \in 1 .. Len(f) : g[j] = IF j = i THEN e ELSE f[j]
  BY DEF Exchanged
<1>5. \A j : j \in Holds(f, m) <=>
          /\ j \in 1 .. Len(f) /\ entry(f[j])
          /\ \E r \in 1 .. j - 1 :
                /\ f[r] = h
                /\ \A q \in 1 .. r - 1 : f[q] # h
                /\ \A q \in r + 1 .. j - 1 : ~IsHeading(f[q]) /\ ~entry(f[q])
  BY HoldsIff
<1>6. \A j : j \in Holds(g, m) <=>
          /\ j \in 1 .. Len(f) /\ entry(g[j])
          /\ \E r \in 1 .. j - 1 :
                /\ g[r] = h
                /\ \A q \in 1 .. r - 1 : g[q] # h
                /\ \A q \in r + 1 .. j - 1 : ~IsHeading(g[q]) /\ ~entry(g[q])
  BY <1>0, HoldsIff
<1> HIDE DEF e, h, entry
<1>7. \A j \in 1 .. Len(f) : /\ entry(g[j]) <=> entry(f[j])
                             /\ g[j] = h <=> f[j] = h
                             /\ IsHeading(g[j]) <=> IsHeading(f[j])
  BY <1>1, <1>2, <1>3, <1>4
<1>8. ASSUME NEW j PROVE j \in Holds(g, m) <=> j \in Holds(f, m)
  <2>1. ASSUME j \in Holds(f, m) PROVE j \in Holds(g, m)
    <3>1. j \in 1 .. Len(f) /\ entry(f[j])
      BY <1>5, <2>1
    <3>2. PICK r \in 1 .. j - 1 :
                /\ f[r] = h
                /\ \A q \in 1 .. r - 1 : f[q] # h
                /\ \A q \in r + 1 .. j - 1 : ~IsHeading(f[q]) /\ ~entry(f[q])
      BY <1>5, <2>1
    <3>3. /\ g[r] = h
          /\ \A q \in 1 .. r - 1 : g[q] # h
          /\ \A q \in r + 1 .. j - 1 : ~IsHeading(g[q]) /\ ~entry(g[q])
      BY <1>0, <1>7, <3>1, <3>2, SMTT(30)
    <3> QED
      BY <1>6, <1>7, <3>1, <3>3
  <2>2. ASSUME j \in Holds(g, m) PROVE j \in Holds(f, m)
    <3>1. j \in 1 .. Len(f) /\ entry(g[j])
      BY <1>6, <2>2
    <3>2. PICK r \in 1 .. j - 1 :
                /\ g[r] = h
                /\ \A q \in 1 .. r - 1 : g[q] # h
                /\ \A q \in r + 1 .. j - 1 : ~IsHeading(g[q]) /\ ~entry(g[q])
      BY <1>6, <2>2
    <3>3. /\ f[r] = h
          /\ \A q \in 1 .. r - 1 : f[q] # h
          /\ \A q \in r + 1 .. j - 1 : ~IsHeading(f[q]) /\ ~entry(f[q])
      BY <1>0, <1>7, <3>1, <3>2
    <3> QED
      BY <1>5, <1>7, <3>1, <3>3
  <2> QED
    BY <2>1, <2>2
<1> QED
  BY <1>8

\* What remains of a setting: its new line, and every other setting as it was.
Edited(f, g, n, v) ==
    /\ g \in Seq(Lines)
    /\ LineOf(g, n) = writekey(n[2], v)
    /\ \A m \in SettingNames \ {n} : LineOf(g, m) = LineOf(f, m)

\* Replacing the line of a setting edits the setting.
LEMMA ReplaceEdits ==
    ASSUME NEW f \in Seq(Lines), NEW g, NEW n \in SettingNames, NEW v \in Seq(Text),
           NEW i \in Holds(f, n), Exchanged(f, g, i, writekey(n[2], v))
    PROVE  Edited(f, g, n, v)
<1>0. g \in Seq(Lines) /\ Len(f) \in Nat
  BY DEF Exchanged
<1>1. \A m \in SettingNames : Holds(g, m) = Holds(f, m)
  BY ReplaceHolds
<1>2. i \in 1 .. Len(f) /\ IsEntry(f[i], n[2])
  BY HoldsIff
<1>3. LineOf(g, n) = writekey(n[2], v)
  <2>1. LineOf(g, n) = g[i]
    BY <1>0, <1>1, LineIs
  <2> QED
    BY <1>2, <2>1 DEF Exchanged
<1>4. ASSUME NEW m \in SettingNames, m # n PROVE LineOf(g, m) = LineOf(f, m)
  <2>1. ASSUME i \in Holds(f, m) PROVE FALSE
    <3>1. m[2] = n[2]
      BY <1>2, <2>1, HoldsIff DEF IsEntry
    <3>2. writesection(m[1]) # writesection(n[1])
      BY <1>4, <3>1, NamesOK, HeadingsDiffer
    <3>3. IsHeading(writesection(m[1])) /\ IsHeading(writesection(n[1]))
      BY HeadingLine
    <3>4. PICK p \in 1 .. i - 1 :
             f[p] = writesection(m[1]) /\ \A q \in p + 1 .. i - 1 : ~IsHeading(f[q])
      BY <2>1, HoldsIff
    <3>5. PICK r \in 1 .. i - 1 :
             f[r] = writesection(n[1]) /\ \A q \in r + 1 .. i - 1 : ~IsHeading(f[q])
      BY HoldsIff
    <3>6. p = r
      BY <1>2, <3>3, <3>4, <3>5
    <3> QED
      BY <3>2, <3>4, <3>5, <3>6
  <2>2. ASSUME NEW j \in Holds(f, m) PROVE g[j] = f[j]
    <3>1. j \in 1 .. Len(f) /\ j # i
      BY <2>1, <2>2, HoldsIff
    <3> QED
      BY <3>1 DEF Exchanged
  <2>3. Holds(g, m) = Holds(f, m)
    BY <1>1
  <2>4. /\ \A j \in Holds(f, m) : \E k \in Holds(g, m) : g[k] = f[j]
        /\ \A k \in Holds(g, m) : \E j \in Holds(f, m) : g[k] = f[j]
    BY <2>2, <2>3
  <2> QED
    BY <1>0, <2>4, SameLine
<1> QED
  BY <1>0, <1>3, <1>4 DEF Edited

\* So does entering it at the end of its section.
LEMMA InsertEdits ==
    ASSUME NEW f \in Seq(Lines), NEW g, NEW n \in SettingNames, NEW v \in Seq(Text),
           NEW p, NEW k, InSection(f, n, p, k), Inserted(f, g, k, writekey(n[2], v))
    PROVE  Edited(f, g, n, v)
<1>1. g \in Seq(Lines) /\ LineOf(g, n) = writekey(n[2], v)
  BY InsertSets DEF Inserted
<1>2. \A m \in SettingNames : m # n => LineOf(g, m) = LineOf(f, m)
  BY InsertKeeps
<1> QED
  BY <1>1, <1>2 DEF Edited

\* An empty line may come in between.
LEMMA BlankEdits ==
    ASSUME NEW f \in Seq(Lines), NEW g, NEW n \in SettingNames, NEW v,
           Edited(Append(f, <<LF>>), g, n, v)
    PROVE  Edited(f, g, n, v)
<1>1. \A m : LineOf(Append(f, <<LF>>), m) = LineOf(f, m)
  BY BlankLine, AppendLine
<1> QED
  BY <1>1 DEF Edited

\* Entering a setting behind the last line of its section, which is the last one.
LEMMA EntryAtEnd ==
    ASSUME NEW f \in Seq(Lines), NEW n \in SettingNames, NEW v \in Seq(Text),
           NEW p, InSection(f, n, p, Len(f))
    PROVE  Edited(f, Append(f, writekey(n[2], v)), n, v)
<1> DEFINE e == writekey(n[2], v)
           g == Append(f, e)
<1>1. e \in Lines /\ Len(f) \in Nat
  BY EntryLine
<1> HIDE DEF e
<1>2. Inserted(f, g, Len(f), e)
  <2>1. /\ g \in Seq(Lines) /\ Len(g) = Len(f) + 1 /\ g[Len(f) + 1] = e
        /\ \A i \in 1 .. Len(f) : g[i] = f[i]
    BY <1>1
  <2>2. Len(f) + 1 .. Len(f) = {}
    BY <1>1
  <2> HIDE DEF g
  <2> QED
    BY <2>1, <2>2 DEF Inserted
<1> QED
  BY <1>2, InsertEdits DEF e

\* Entering a section that is not there with its first setting.
LEMMA SectionAtEnd ==
    ASSUME NEW f \in Seq(Lines), NEW n \in SettingNames, NEW v \in Seq(Text),
           \A q \in 1 .. Len(f) : f[q] # writesection(n[1])
    PROVE  Edited(f, f \o <<writesection(n[1]), writekey(n[2], v)>>, n, v)
<1> DEFINE e == writekey(n[2], v)
           h == writesection(n[1])
           g == Append(f, h)
<1>1. e \in Lines /\ h \in Lines /\ Len(f) \in Nat
  BY EntryLine, HeadingLine
<1>2. \A m \in SettingNames : LineOf(g, m) = LineOf(f, m)
  BY <1>1, HeadingLine, AppendLine
<1> HIDE DEF e, h
<1>3. /\ g \in Seq(Lines) /\ Len(g) = Len(f) + 1 /\ g[Len(f) + 1] = h
      /\ \A i \in 1 .. Len(f) : g[i] = f[i]
  BY <1>1
<1>4. InSection(g, n, Len(g), Len(g))
  <2>1. Len(g) \in 1 .. Len(g) /\ Len(g) \in Len(g) .. Len(g) /\ Len(g) + 1 .. Len(g) = {}
    BY <1>1, <1>3
  <2>2. \A q \in 1 .. Len(g) - 1 : g[q] # h
    BY <1>1, <1>3 DEF h
  <2> HIDE DEF g
  <2>3. g[Len(g)] = h
    BY <1>3
  <2> QED
    BY <2>1, <2>2, <2>3 DEF InSection, h
<1>5. Edited(g, Append(g, e), n, v)
  <2> HIDE DEF g
  <2> QED
    BY <1>3, <1>4, EntryAtEnd DEF e
<1>6. f \o <<h, e>> = Append(g, e)
  BY <1>1
<1>7. Edited(f, Append(g, e), n, v)
  <2> HIDE DEF g
  <2> QED
    BY <1>2, <1>5 DEF Edited
<1> QED
  BY <1>6, <1>7 DEF e, h

-----------------------------------------------------------------------------
(* The cache *)

\* Symbols adds up the lengths of the lines.
LEMMA SymbolsDef ==
    ASSUME NEW f \in Seq(Lines), NEW from \in 0 .. Len(f)
    PROVE  /\ Symbols(f, from, from) = 0
           /\ \A p \in from + 1 .. Len(f) :
                 Symbols(f, from, p) = Symbols(f, from, p - 1) + Len(f[p])
<1> DEFINE N == Len(f) - from
           Step(prev, p) == prev + Len(f[p])
           F(k, g) == [p \in from .. k |-> IF p = from THEN 0 ELSE Step(g[p - 1], p)]
           Works(k, g) == g = F(k, g)
           S == {k \in 0 .. N : \E g : Works(from + k, g)}
<1>0. N \in Nat /\ from \in Nat /\ Len(f) = from + N
  OBVIOUS
<1> HIDE DEF N, Step
<1>1. 0 \in S
  <2>1. Works(from + 0, [p \in from .. from + 0 |-> 0])
    <3>1. from + 0 = from /\ from .. from = {from}
      BY <1>0
    <3> QED
      BY <3>1
  <2> HIDE DEF Works
  <2> QED
    BY <1>0, <2>1
<1>2. ASSUME NEW k \in 1 .. N, k - 1 \in S PROVE k \in S
  <2>1. PICK g : Works(from + (k - 1), g)
    BY <1>2
  <2> DEFINE m == from + k
             h == [p \in from .. m |-> IF p = m THEN Step(g[m - 1], m) ELSE g[p]]
  <2>0. m \in Nat /\ m > from /\ from + (k - 1) = m - 1
    BY <1>0
  <2> HIDE DEF m
  <2>2. DOMAIN g = from .. m - 1 /\ g[from] = 0
    BY <1>0, <2>0, <2>1
  <2>3. \A p \in from + 1 .. m - 1 : g[p] = Step(g[p - 1], p)
    BY <1>0, <2>0, <2>1
  <2>4. h = [p \in from .. m |-> IF p = from THEN 0 ELSE Step(h[p - 1], p)]
    BY <1>0, <2>0, <2>2, <2>3
  <2>5. Works(m, h)
    BY <2>4
  <2> HIDE DEF Works, h
  <2> QED
    BY <1>0, <2>5 DEF m
<1>3. N \in S
  <2>1. N \in 0 .. N
    BY <1>0
  <2> HIDE DEF S
  <2> QED
    BY <1>0, <1>1, <1>2, <2>1, UpTo
<1>4. PICK g : Works(from + N, g)
  BY <1>3
<1> DEFINE r == CHOOSE h : h = F(Len(f), h)
<1>5. r = F(Len(f), r)
  <2>1. Works(Len(f), g)
    BY <1>0, <1>4
  <2> HIDE DEF F
  <2> QED
    BY <2>1
<1>6. \A p : Symbols(f, from, p) = r[p]
  BY DEF Symbols, Step
<1> HIDE DEF r
<1>7. r[from] = 0 /\ \A p \in from + 1 .. Len(f) : r[p] = Step(r[p - 1], p)
  BY <1>0, <1>5
<1> QED
  BY <1>6, <1>7 DEF Step

\* Every line adds to it.
LEMMA SymbolsGrow ==
    ASSUME NEW f \in Seq(Lines), NEW from \in 0 .. Len(f), NEW to \in from .. Len(f)
    PROVE  /\ Symbols(f, from, to) \in Nat
           /\ \A p \in from .. to - 1 : Symbols(f, from, p) < Symbols(f, from, to)
<1> DEFINE N == Len(f) - from
           y(p) == Symbols(f, from, p)
           S == {k \in 0 .. N : /\ y(from + k) \in Nat
                                /\ \A p \in from .. from + k - 1 : y(p) < y(from + k)
                                /\ \A p \in from .. from + k : y(p) \in Nat}
<1>0. N \in Nat /\ from \in Nat /\ Len(f) = from + N
  OBVIOUS
<1>1. y(from) = 0 /\ \A p \in from + 1 .. Len(f) : y(p) = y(p - 1) + Len(f[p])
  BY SymbolsDef
<1>2. \A p \in from + 1 .. Len(f) : Len(f[p]) \in Nat /\ Len(f[p]) > 0
  <2>1. \A p \in from + 1 .. Len(f) : f[p] \in Lines
    BY <1>0
  <2>2. \A l \in Lines : Len(l) \in Nat /\ Len(l) > 0
    BY DEF Lines
  <2> QED
    BY <2>1, <2>2
<1> HIDE DEF N, y
<1>3. 0 \in S
  <2>1. from + 0 = from /\ from .. from + 0 - 1 = {} /\ from .. from + 0 = {from}
    BY <1>0
  <2>2. y(from + 0) \in Nat
    BY <1>1, <2>1
  <2> QED
    BY <1>0, <2>1, <2>2
<1>4. ASSUME NEW k \in 1 .. N, k - 1 \in S PROVE k \in S
  <2> DEFINE m == from + k
  <2>0. /\ m \in from + 1 .. Len(f) /\ m \in Nat /\ m > from
        /\ from + (k - 1) = m - 1 /\ k \in 0 .. N
    BY <1>0
  <2> HIDE DEF m
  <2>1. /\ y(m - 1) \in Nat /\ \A p \in from .. (m - 1) - 1 : y(p) < y(m - 1)
        /\ \A p \in from .. m - 1 : y(p) \in Nat
    BY <1>4, <2>0, SMTT(30)
  <2>2. y(m) = y(m - 1) + Len(f[m]) /\ Len(f[m]) \in Nat /\ Len(f[m]) > 0
    BY <1>1, <1>2, <2>0
  <2>3. y(m) \in Nat /\ y(m) > y(m - 1)
    BY <2>1, <2>2
  <2>4. \A p \in from .. m - 1 : y(p) < y(m)
    BY <1>0, <2>0, <2>1, <2>3
  <2>5. \A p \in from .. m : y(p) \in Nat
    BY <1>0, <2>0, <2>1, <2>3
  <2> QED
    BY <2>0, <2>3, <2>4, <2>5 DEF m
<1>5. \A k \in 0 .. N : k \in S
  <2> HIDE DEF S
  <2> QED
    BY <1>0, <1>3, <1>4, UpTo
<1>6. to - from \in 0 .. N /\ from + (to - from) = to
  BY <1>0
<1>7. y(to) \in Nat /\ \A p \in from .. to - 1 : y(p) < y(to)
  BY <1>5, <1>6
<1> QED
  BY <1>7 DEF y

\* The cache holds the lines from mark to the read position.
Cached ==
    /\ file \in Seq(Lines) /\ temp \in Seq(Lines)
    /\ mark \in 0 .. Len(file) /\ rfp \in mark .. Len(file)
    /\ cachelen = Symbols(file, mark, rfp)

\* So the flush ends at the read position.
LEMMA FlushEnds ==
    ASSUME Cached
    PROVE  Flushed = rfp
<1> DEFINE y(p) == Symbols(file, mark, p)
           S == {p \in mark .. Len(file) : y(p) >= cachelen}
<1>0. /\ Len(file) \in Nat /\ file \in Seq(Lines)
      /\ mark \in 0 .. Len(file) /\ rfp \in mark .. Len(file) /\ cachelen = y(rfp)
  BY DEF Cached
<1>1. y(rfp) \in Nat /\ \A p \in mark .. rfp - 1 : y(p) < y(rfp)
  BY <1>0, SymbolsGrow
<1>2. \A p \in mark .. Len(file) : y(p) \in Nat
  BY <1>0, SymbolsGrow
<1>3. Flushed = Min(S)
  BY DEF Flushed
<1> HIDE DEF y
<1>4. rfp \in S /\ S \in SUBSET Nat
  BY <1>0, <1>1
<1>5. \A p \in S : p >= rfp
  BY <1>0, <1>1, <1>2
<1> HIDE DEF S
<1>6. Min(S) \in S /\ Min(S) <= rfp
  BY <1>4, MinOK
<1>7. Min(S) \in Nat /\ Min(S) >= rfp
  BY <1>4, <1>5, <1>6
<1> DEFINE x == Min(S)
<1> HIDE DEF x
<1>8. x = rfp
  <2>1. x \in Nat /\ x >= rfp /\ x <= rfp
    BY <1>6, <1>7 DEF x
  <2> QED
    BY <1>0, <2>1
<1> QED
  BY <1>3, <1>8 DEF x

\* What has been read goes to temp, one line after the other.
Out == temp \o SubSeq(file, mark + 1, rfp)

\* One more line.
LEMMA OneMoreLine ==
    ASSUME NEW f \in Seq(Lines), NEW t \in Seq(Lines),
           NEW m \in 0 .. Len(f), NEW r \in m .. Len(f) - 1
    PROVE  /\ t \o SubSeq(f, m + 1, r + 1) = Append(t \o SubSeq(f, m + 1, r), f[r + 1])
           /\ SubSeq(f, r + 1, r + 1) = <<f[r + 1]>>
           /\ SubSeq(f, m + 1, r) \in Seq(Lines)
           /\ f[r + 1] \in Lines
<1>1. /\ m + 1 \in 1 .. Len(f) /\ r + 1 \in m + 1 .. Len(f) /\ (r + 1) - 1 = r
      /\ r + 1 \in 1 .. Len(f) /\ m \in Nat /\ r \in Nat /\ Len(f) \in Nat
  OBVIOUS
<1>2. SubSeq(f, m + 1, r + 1) = SubSeq(f, m + 1, r) \o <<f[r + 1]>>
  BY <1>1, SubSeqRecursiveSecond
<1>3. f[r + 1] \in Lines
  BY <1>1
<1>4. SubSeq(f, m + 1, r) \in Seq(Lines)
  <2>1. \A i \in m + 1 .. r : f[i] \in Lines
    BY <1>1
  <2>2. m + 1 \in Int /\ r \in Int
    BY <1>1
  <2> QED
    BY <2>1, <2>2, SubSeqProperties
<1>5. \A a \in Seq(Lines) : \A x \in Lines : t \o (a \o <<x>>) = Append(t \o a, x)
  OBVIOUS
<1>6. SubSeq(f, r + 1, r + 1) = <<f[r + 1]>>
  <2>1. r + 1 \in r + 1 .. Len(f) /\ r < r + 1 /\ r \in Int /\ r + 1 \in Int
    BY <1>1
  <2>2. SubSeq(f, r + 1, r + 1) = SubSeq(f, r + 1, r) \o <<f[r + 1]>>
    BY <1>1, <2>1, SubSeqRecursiveSecond
  <2>3. SubSeq(f, r + 1, r) = <<>>
    BY <2>1, SubSeqEmpty
  <2>4. <<>> \o <<f[r + 1]>> = <<f[r + 1]>>
    BY <1>3
  <2> QED
    BY <2>2, <2>3, <2>4
<1> QED
  BY <1>2, <1>3, <1>4, <1>5, <1>6

\* The cache takes a line, flushed or not.
LEMMA Accumulates ==
    ASSUME Cached, ~AtEnd, Accumulate, UNCHANGED file
    PROVE  Cached' /\ rfp' = rfp + 1 /\ Out' = Append(Out, Line) /\ Line \in Lines
<1>0. /\ file \in Seq(Lines) /\ temp \in Seq(Lines) /\ Len(file) \in Nat
      /\ mark \in 0 .. Len(file) /\ rfp \in mark .. Len(file) - 1
      /\ rfp + 1 \in mark .. Len(file)
      /\ cachelen = Symbols(file, mark, rfp)
  BY DEF Cached, AtEnd
<1>1. /\ temp \o SubSeq(file, mark + 1, rfp + 1) = Append(Out, Line)
      /\ SubSeq(file, rfp + 1, rfp + 1) = <<Line>>
      /\ SubSeq(file, mark + 1, rfp) \in Seq(Lines)
      /\ Line \in Lines
  BY <1>0, OneMoreLine DEF Out, Line
<1>2. CASE cache_accum(Len(Line))
  <2>1. cachelen' = cachelen + Len(Line) /\ rfp' = rfp + 1 /\ mark' = mark /\ temp' = temp
    BY <1>2 DEF Accumulate
  <2>2. Symbols(file, mark, rfp + 1) = cachelen + Len(Line)
    <3>1. rfp + 1 \in mark + 1 .. Len(file) /\ (rfp + 1) - 1 = rfp
      BY <1>0
    <3> QED
      BY <1>0, <3>1, SymbolsDef DEF Line
  <2>3. Cached'
    BY <1>0, <2>1, <2>2 DEF Cached
  <2>4. Out' = Append(Out, Line)
    BY <1>1, <2>1 DEF Out
  <2> QED
    BY <1>1, <2>1, <2>3, <2>4
<1>3. CASE ~cache_accum(Len(Line))
  <2>1. /\ temp' = Out /\ mark' = rfp /\ rfp' = rfp + 1 /\ cachelen' = Len(Line)
    BY <1>3, FlushEnds DEF Accumulate, Flush, Out, Line
  <2>2. Out \in Seq(Lines)
    BY <1>0, <1>1 DEF Out
  <2>3. Symbols(file, rfp, rfp + 1) = Len(Line)
    <3>1. /\ rfp \in 0 .. Len(file) /\ rfp + 1 \in rfp + 1 .. Len(file) /\ (rfp + 1) - 1 = rfp
      BY <1>0
    <3>2. Symbols(file, rfp, rfp) = 0
      BY <1>0, <3>1, SymbolsDef
    <3>3. Symbols(file, rfp, rfp + 1) = 0 + Len(Line)
      BY <1>0, <3>1, <3>2, SymbolsDef DEF Line
    <3>4. Len(Line) \in Nat
      BY <1>1 DEF Lines
    <3> QED
      BY <3>3, <3>4
  <2>4. Cached'
    BY <1>0, <2>1, <2>2, <2>3 DEF Cached
  <2>5. Out' = Append(Out, Line)
    <3>1. Out' = Out \o <<Line>>
      BY <1>1, <2>1 DEF Out
    <3> QED
      BY <1>1, <2>2, <3>1
  <2> QED
    BY <1>1, <2>1, <2>4, <2>5
<1> QED
  BY <1>2, <1>3

-----------------------------------------------------------------------------
(* The inductive invariant *)

\* Where a call of ini_puts may be; while it copies, the cache is in use.
Phases == {"idle", "create", "section", "found", "entry", "rest", "close", "removed"}
Copying == {"section", "found", "entry", "rest"}

\* There is a file whenever one is being edited; once it is deleted its successor
\* is complete.
FilesOK ==
    /\ phase \in Phases
    /\ file = Missing \/ file \in Seq(Lines)
    /\ phase \notin {"idle", "removed"} => file \in Seq(Lines)
    /\ phase = "create" => file = <<>>
    /\ phase = "removed" => file = Missing /\ temp \in Seq(Lines)
    /\ phase # "idle" => put.name \in SettingNames /\ put.value \in Seq(Text)

\* What has been copied, with what is in the cache: up to the entry a prefix of the
\* file, then the edited file as far as it has been read.
CopyOK ==
    /\ phase \in Copying => Cached
    /\ phase \in {"section", "found", "entry"} => Out = SubSeq(file, 1, rfp)
    /\ phase = "section" => \A q \in 1 .. rfp : file[q] # writesection(section)
    /\ phase = "found" => InSection(file, put.name, rfp, rfp)
    /\ phase = "entry" => \E p : InSection(file, put.name, p, rfp)
    /\ phase = "rest" =>
          Edited(file, Out \o SubSeq(file, rfp + 1, Len(file)), put.name, put.value)
    /\ phase = "close" => Edited(file, temp, put.name, put.value)

\* What the relay goes by, if it was read, is in the file, but for the setting it is
\* just putting there.
Agree(f, names) == \A n \in names : known[n] # Unread => ini_gets(f, n) = known[n]

Agrees ==
    /\ DOMAIN known = SettingNames /\ mishaps \in Nat
    /\ mishaps = 0 =>
          /\ phase = "idle" => Agree(file, SettingNames)
          /\ phase = "removed" => Agree(temp, SettingNames)
          /\ phase \notin {"idle", "removed"} =>
                /\ known[put.name] = put.value
                /\ Agree(file, SettingNames \ {put.name})

\* The file never falls behind the serials sent to a friend, if none was chosen
\* blindly.
Covers(f, c) ==
    /\ \A sn \in used[c] : sn <= ReadSerial(ini_gets(f, outgoing_sn(c)))
    /\ ini_gets(f, outgoing_sn(c)) = Unset => used[c] = {}

\* A serial about to be sent is ahead of those in use.
SerialsOK ==
    /\ sending \in Friends \cup {None}
    /\ used \in [Friends -> SUBSET Serials]
    /\ \A c \in Friends : phase # "idle" /\ put.name = outgoing_sn(c) => sending = c
    /\ \A c \in Friends : sending = c =>
          \E sn \in Serials : known[outgoing_sn(c)] = Format(sn)
    /\ mishaps = 0 =>
          /\ reused \subseteq blind
          /\ \A c \in Friends \ blind : Covers(Settled, c)
          /\ \A c \in Friends \ blind : sending = c =>
                \A sn \in used[c] : sn < ReadSerial(known[outgoing_sn(c)])

\* The inductive invariant.
CInv == FilesOK /\ CopyOK /\ Agrees /\ SerialsOK

-----------------------------------------------------------------------------
(* Copying *)

\* The prefix grows by the line that is read.
LEMMA PrefixStep ==
    ASSUME NEW f \in Seq(Lines), NEW r \in 0 .. Len(f) - 1
    PROVE  /\ SubSeq(f, 1, r) \in Seq(Lines) /\ Len(SubSeq(f, 1, r)) = r
           /\ \A i \in 1 .. r : SubSeq(f, 1, r)[i] = f[i]
           /\ SubSeq(f, 1, r + 1) = Append(SubSeq(f, 1, r), f[r + 1])
<1>1. r \in Nat /\ r + 1 \in 1 .. Len(f) /\ 1 \in 1 .. Len(f) /\ (r + 1) - 1 = r
  OBVIOUS
<1>2. f[r + 1] \in Lines /\ \A i \in 1 .. r : f[i] \in Lines
  BY <1>1
<1>3. /\ SubSeq(f, 1, r) \in Seq(Lines) /\ Len(SubSeq(f, 1, r)) = r
      /\ \A i \in 1 .. r : SubSeq(f, 1, r)[i] = f[i]
  BY <1>1, <1>2
<1>4. SubSeq(f, 1, r + 1) = SubSeq(f, 1, r) \o <<f[r + 1]>>
  BY <1>1, SubSeqRecursiveSecond
<1>5. \A a \in Seq(Lines) : \A x \in Lines : a \o <<x>> = Append(a, x)
  BY AppendIsConcat
<1> QED
  BY <1>2, <1>3, <1>4, <1>5

\* What is read goes from the rest to what was read.
LEMMA RestStep ==
    ASSUME NEW f \in Seq(Lines), NEW r \in 0 .. Len(f) - 1, NEW o \in Seq(Lines)
    PROVE  /\ Append(o, f[r + 1]) \o SubSeq(f, (r + 1) + 1, Len(f))
                 = o \o SubSeq(f, r + 1, Len(f))
           /\ SubSeq(f, r + 1, Len(f)) \in Seq(Lines)
           /\ Len(SubSeq(f, r + 1, Len(f))) = Len(f) - r
           /\ \A i \in 1 .. Len(f) - r : SubSeq(f, r + 1, Len(f))[i] = f[r + i]
<1>1. /\ r \in Nat /\ Len(f) \in Nat /\ r + 1 \in 1 .. Len(f) /\ Len(f) \in r + 1 .. Len(f)
  OBVIOUS
<1>2. f[r + 1] \in Lines
  BY <1>1
<1>3. SubSeq(f, r + 1, Len(f)) = <<f[r + 1]>> \o SubSeq(f, (r + 1) + 1, Len(f))
  BY <1>1, SubSeqRecursiveFirst
<1>4. SubSeq(f, (r + 1) + 1, Len(f)) \in Seq(Lines)
  <2>1. \A i \in (r + 1) + 1 .. Len(f) : f[i] \in Lines
    BY <1>1
  <2> QED
    BY <1>1, <2>1, SubSeqProperties
<1>5. \A a \in Seq(Lines) : \A x \in Lines : Append(o, x) \o a = o \o (<<x>> \o a)
  OBVIOUS
<1>6. /\ SubSeq(f, r + 1, Len(f)) \in Seq(Lines)
      /\ Len(SubSeq(f, r + 1, Len(f))) = Len(f) - r
      /\ \A i \in 1 .. Len(f) - r : SubSeq(f, r + 1, Len(f))[i] = f[r + i]
  <2>1. \A i \in r + 1 .. Len(f) : f[i] \in Lines
    BY <1>1
  <2>2. /\ SubSeq(f, r + 1, Len(f)) \in Seq(Lines)
        /\ Len(SubSeq(f, r + 1, Len(f))) = IF r + 1 <= Len(f) THEN Len(f) - (r + 1) + 1 ELSE 0
        /\ \A i \in 1 .. Len(f) - (r + 1) + 1 : SubSeq(f, r + 1, Len(f))[i] = f[(r + 1) + i - 1]
    BY <1>1, <2>1, SubSeqProperties
  <2> DEFINE t == SubSeq(f, r + 1, Len(f))
             N == Len(f)
             l == Len(t)
  <2>3. l = IF r + 1 <= N THEN N - (r + 1) + 1 ELSE 0
    BY <2>2
  <2>4. N \in Nat /\ r \in Nat /\ r + 1 <= N
    BY <1>1
  <2>5. \A i \in 1 .. N - (r + 1) + 1 : t[i] = f[(r + 1) + i - 1]
    BY <2>2
  <2> HIDE DEF t, N, l
  <2>6. l = N - r /\ N - (r + 1) + 1 = N - r
    BY <2>3, <2>4
  <2>7. \A i \in 1 .. N - r : t[i] = f[r + i]
    BY <2>4, <2>5, <2>6
  <2> QED
    BY <2>2, <2>6, <2>7 DEF t, N, l
<1> QED
  <2>1. Append(o, f[r + 1]) \o SubSeq(f, (r + 1) + 1, Len(f))
          = o \o (<<f[r + 1]>> \o SubSeq(f, (r + 1) + 1, Len(f)))
    BY <1>2, <1>4, <1>5, Zenon
  <2> QED
    BY <1>3, <1>6, <2>1, Zenon

\* A sequence behind another.
LEMMA Behind ==
    ASSUME NEW a \in Seq(Lines), NEW b \in Seq(Lines)
    PROVE  /\ a \o b \in Seq(Lines) /\ Len(a \o b) = Len(a) + Len(b)
           /\ \A i \in 1 .. Len(a) : (a \o b)[i] = a[i]
           /\ \A i \in 1 .. Len(b) : (a \o b)[Len(a) + i] = b[i]
OBVIOUS

\* A new line between what was read and the rest.
LEMMA InsertShape ==
    ASSUME NEW f \in Seq(Lines), NEW r \in 0 .. Len(f) - 1, NEW e \in Lines
    PROVE  Inserted(f, Append(SubSeq(f, 1, r), e) \o SubSeq(f, r + 1, Len(f)), r, e)
<1> DEFINE a == SubSeq(f, 1, r)
           b == SubSeq(f, r + 1, Len(f))
           g == Append(a, e) \o b
           N == Len(f)
<1>1. /\ a \in Seq(Lines) /\ Len(a) = r /\ \A i \in 1 .. r : a[i] = f[i]
  BY PrefixStep
<1>2. /\ b \in Seq(Lines) /\ Len(b) = N - r /\ \A i \in 1 .. N - r : b[i] = f[r + i]
  <2>1. <<>> \in Seq(Lines)
    OBVIOUS
  <2> QED
    BY <2>1, RestStep
<1>3. N \in Nat /\ r \in 0 .. N - 1
  OBVIOUS
<1> HIDE DEF a, b, N
<1> DEFINE ae == Append(a, e)
<1>4. /\ ae \in Seq(Lines) /\ Len(ae) = r + 1 /\ ae[r + 1] = e
      /\ \A i \in 1 .. r : ae[i] = f[i]
  BY <1>1, <1>3
<1> HIDE DEF ae
<1>5. g = ae \o b
  BY DEF ae
<1> HIDE DEF g
<1>6. /\ g \in Seq(Lines) /\ Len(g) = N + 1
      /\ \A i \in 1 .. r + 1 : g[i] = ae[i]
      /\ \A i \in 1 .. N - r : g[(r + 1) + i] = b[i]
  <2>1. /\ g \in Seq(Lines) /\ Len(g) = Len(ae) + Len(b)
        /\ \A i \in 1 .. Len(ae) : g[i] = ae[i]
        /\ \A i \in 1 .. Len(b) : g[Len(ae) + i] = b[i]
    BY <1>2, <1>4, <1>5, Behind
  <2>2. (r + 1) + (N - r) = N + 1
    BY <1>3
  <2> QED
    BY <1>2, <1>4, <2>1, <2>2
<1>7. ASSUME NEW i \in r + 1 .. N PROVE g[i + 1] = f[i]
  <2>1. i - r \in 1 .. N - r /\ (r + 1) + (i - r) = i + 1 /\ r + (i - r) = i
    BY <1>3
  <2> QED
    BY <1>2, <1>6, <2>1
<1>8. g[r + 1] = e /\ \A i \in 1 .. r : g[i] = f[i]
  BY <1>3, <1>4, <1>6
<1> QED
  BY <1>6, <1>7, <1>8 DEF Inserted, g, a, b, N

\* A new line instead of the next one.
LEMMA ExchangeShape ==
    ASSUME NEW f \in Seq(Lines), NEW r \in 0 .. Len(f) - 1, NEW e \in Lines
    PROVE  Exchanged(f, Append(SubSeq(f, 1, r), e) \o SubSeq(f, (r + 1) + 1, Len(f)), r + 1, e)
<1> DEFINE a == SubSeq(f, 1, r)
           b == SubSeq(f, (r + 1) + 1, Len(f))
           g == Append(a, e) \o b
           N == Len(f)
<1>1. /\ a \in Seq(Lines) /\ Len(a) = r /\ \A i \in 1 .. r : a[i] = f[i]
  BY PrefixStep
<1>3. N \in Nat /\ r \in 0 .. N - 1
  OBVIOUS
<1>2. /\ b \in Seq(Lines) /\ Len(b) = N - (r + 1)
      /\ \A i \in 1 .. N - (r + 1) : b[i] = f[(r + 1) + i]
  <2>1. CASE r + 1 = N
    <3>1. b = <<>> /\ N - (r + 1) = 0
      <4>1. N < (r + 1) + 1 /\ N \in Int /\ (r + 1) + 1 \in Int
        BY <1>3, <2>1
      <4> QED
        BY <1>3, <2>1, <4>1, SubSeqEmpty
    <3> HIDE DEF b
    <3> QED
      BY <3>1
  <2>2. CASE r + 1 # N
    <3>1. r + 1 \in 0 .. Len(f) - 1 /\ <<>> \in Seq(Lines)
      BY <1>3, <2>2
    <3> QED
      BY <3>1, RestStep
  <2> QED
    BY <2>1, <2>2
<1> HIDE DEF a, b, N
<1> DEFINE ae == Append(a, e)
<1>4. /\ ae \in Seq(Lines) /\ Len(ae) = r + 1 /\ ae[r + 1] = e
      /\ \A i \in 1 .. r : ae[i] = f[i]
  BY <1>1, <1>3
<1> HIDE DEF ae
<1>5. g = ae \o b
  BY DEF ae
<1> HIDE DEF g
<1>6. /\ g \in Seq(Lines) /\ Len(g) = N
      /\ \A i \in 1 .. r + 1 : g[i] = ae[i]
      /\ \A i \in 1 .. N - (r + 1) : g[(r + 1) + i] = b[i]
  <2>1. /\ g \in Seq(Lines) /\ Len(g) = Len(ae) + Len(b)
        /\ \A i \in 1 .. Len(ae) : g[i] = ae[i]
        /\ \A i \in 1 .. Len(b) : g[Len(ae) + i] = b[i]
    BY <1>2, <1>4, <1>5, Behind
  <2>2. (r + 1) + (N - (r + 1)) = N
    BY <1>3
  <2> QED
    BY <1>2, <1>4, <2>1, <2>2
<1>7. ASSUME NEW i \in 1 .. N PROVE g[i] = IF i = r + 1 THEN e ELSE f[i]
  <2>1. CASE i <= r + 1
    <3>1. i \in 1 .. r + 1 /\ g[i] = ae[i]
      BY <1>3, <1>6, <2>1
    <3>2. i # r + 1 => i \in 1 .. r
      BY <1>3, <3>1
    <3> QED
      BY <1>4, <3>1, <3>2
  <2>2. CASE i > r + 1
    <3>1. i - (r + 1) \in 1 .. N - (r + 1) /\ (r + 1) + (i - (r + 1)) = i
      BY <1>3, <2>2
    <3>2. g[i] = f[i] /\ i # r + 1
      <4>1. g[i] = b[i - (r + 1)]
        BY <1>6, <3>1
      <4>2. b[i - (r + 1)] = f[i]
        BY <1>2, <3>1
      <4> QED
        BY <1>3, <2>2, <4>1, <4>2
    <3> QED
      BY <3>2
  <2> QED
    BY <1>3, <2>1, <2>2
<1> QED
  BY <1>6, <1>7 DEF Exchanged, g, a, b, N

\* What copying starts a step from.
LEMMA CopyFacts ==
    ASSUME FilesOK, CopyOK, phase \in Copying
    PROVE  /\ Cached /\ file \in Seq(Lines) /\ temp \in Seq(Lines) /\ Len(file) \in Nat
           /\ mark \in 0 .. Len(file) /\ rfp \in mark .. Len(file) /\ rfp \in Nat
           /\ ~AtEnd => rfp \in 0 .. Len(file) - 1
           /\ put.name \in SettingNames /\ put.value \in Seq(Text)
           /\ Out \in Seq(Lines) /\ Flushed = rfp /\ Flush = Out
           /\ NewEntry = writekey(put.name[2], put.value) /\ NewEntry \in Lines
<1>1. Cached
  BY DEF CopyOK
<1>2. /\ file \in Seq(Lines) /\ temp \in Seq(Lines) /\ Len(file) \in Nat
      /\ mark \in 0 .. Len(file) /\ rfp \in mark .. Len(file)
  BY <1>1 DEF Cached
<1>3. rfp \in Nat /\ (~AtEnd => rfp \in 0 .. Len(file) - 1)
  BY <1>2 DEF AtEnd
<1>4. put.name \in SettingNames /\ put.value \in Seq(Text)
  BY DEF FilesOK, Copying
<1>5. SubSeq(file, mark + 1, rfp) \in Seq(Lines)
  <2>1. \A i \in mark + 1 .. rfp : file[i] \in Lines
    BY <1>2
  <2>2. mark + 1 \in Int /\ rfp \in Int
    BY <1>2
  <2> QED
    BY <2>1, <2>2, SubSeqProperties
<1>6. Flushed = rfp
  BY <1>1, FlushEnds
<1>7. NewEntry = writekey(put.name[2], put.value)
  BY DEF NewEntry, key
<1>8. NewEntry \in Lines
  BY <1>4, <1>7, EntryLine
<1> QED
  BY <1>1, <1>2, <1>3, <1>4, <1>5, <1>6, <1>7, <1>8 DEF Out, Flush

\* Once everything is flushed the cache is empty.
LEMMA EmptyCache ==
    ASSUME NEW f \in Seq(Lines), NEW r \in 0 .. Len(f), NEW t \in Seq(Lines)
    PROVE  Symbols(f, r, r) = 0 /\ t \o SubSeq(f, r + 1, r) = t
<1>1. r < r + 1 /\ r \in Int /\ r + 1 \in Int
  OBVIOUS
<1>2. SubSeq(f, r + 1, r) = <<>>
  BY <1>1, SubSeqEmpty
<1>3. t \o <<>> = t
  OBVIOUS
<1> QED
  BY <1>2, <1>3, SymbolsDef

\* Lines before the section.
LEMMA SkipLineOK ==
    ASSUME FilesOK, CopyOK, SkipLine
    PROVE  FilesOK' /\ CopyOK'
<1>1. phase = "section" /\ ~AtEnd /\ Accumulate /\ UNCHANGED <<file, phase, put>>
  BY DEF SkipLine
<1>2. phase \in Copying
  BY <1>1 DEF Copying
<1>3. /\ Cached' /\ rfp' = rfp + 1 /\ Out' = Append(Out, Line)
  BY <1>1, <1>2, CopyFacts, Accumulates
<1>4. Out = SubSeq(file, 1, rfp) /\ \A q \in 1 .. rfp : file[q] # writesection(section)
  BY <1>1 DEF CopyOK
<1>5. file \in Seq(Lines) /\ rfp \in 0 .. Len(file) - 1
  BY <1>1, <1>2, CopyFacts
<1>6. Out' = SubSeq(file, 1, rfp + 1)
  BY <1>3, <1>4, <1>5, PrefixStep DEF Line
<1>7. \A q \in 1 .. rfp + 1 : file[q] # writesection(section)
  BY <1>4, <1>5 DEF SkipLine, Line
<1>8. FilesOK'
  BY <1>1 DEF FilesOK
<1>9. CopyOK'
  BY <1>1, <1>3, <1>6, <1>7 DEF CopyOK, section
<1> QED
  BY <1>8, <1>9

\* The heading of the section.
LEMMA FoundSectionOK ==
    ASSUME FilesOK, CopyOK, FoundSection
    PROVE  FilesOK' /\ CopyOK'
<1>1. /\ phase = "section" /\ ~AtEnd /\ Accumulate /\ UNCHANGED <<file, put>>
      /\ phase' = "found" /\ Line = writesection(section)
  BY DEF FoundSection
<1>2. phase \in Copying
  BY <1>1 DEF Copying
<1>3. /\ Cached' /\ rfp' = rfp + 1 /\ Out' = Append(Out, Line)
  BY <1>1, <1>2, CopyFacts, Accumulates
<1>4. Out = SubSeq(file, 1, rfp) /\ \A q \in 1 .. rfp : file[q] # writesection(section)
  BY <1>1 DEF CopyOK
<1>5. file \in Seq(Lines) /\ rfp \in 0 .. Len(file) - 1 /\ Len(file) \in Nat
  BY <1>1, <1>2, CopyFacts
<1>6. Out' = SubSeq(file, 1, rfp + 1)
  BY <1>3, <1>4, <1>5, PrefixStep DEF Line
<1>7. InSection(file, put.name, rfp + 1, rfp + 1)
  <2>1. /\ rfp + 1 \in 1 .. Len(file) /\ rfp + 1 \in rfp + 1 .. Len(file)
        /\ (rfp + 1) - 1 = rfp /\ (rfp + 1) + 1 .. rfp + 1 = {}
    BY <1>5
  <2> QED
    BY <1>1, <1>4, <2>1 DEF InSection, Line, section
<1>8. FilesOK'
  BY <1>1 DEF FilesOK, Phases
<1>9. CopyOK'
  BY <1>1, <1>3, <1>6, <1>7 DEF CopyOK, section
<1> QED
  BY <1>8, <1>9

\* The flush behind the heading.
LEMMA EnterSectionOK ==
    ASSUME FilesOK, CopyOK, EnterSection
    PROVE  FilesOK' /\ CopyOK'
<1>1. /\ phase = "found" /\ UNCHANGED <<file, put>> /\ phase' = "entry" /\ cachelen' = 0
      /\ temp' = Flush /\ mark' = Flushed /\ rfp' = Flushed
  BY DEF EnterSection
<1>2. phase \in Copying
  BY <1>1 DEF Copying
<1>3. temp' = Out /\ mark' = rfp /\ rfp' = rfp
  BY <1>1, <1>2, CopyFacts
<1>4. file \in Seq(Lines) /\ Out \in Seq(Lines) /\ rfp \in 0 .. Len(file) /\ Len(file) \in Nat
  BY <1>2, CopyFacts
<1>5. Symbols(file, rfp, rfp) = 0 /\ Out \o SubSeq(file, rfp + 1, rfp) = Out
  BY <1>4, EmptyCache
<1>6. Cached' /\ Out' = Out
  <2>1. rfp \in rfp .. Len(file)
    BY <1>4
  <2>2. Out' = Out \o SubSeq(file, rfp + 1, rfp)
    BY <1>1, <1>3 DEF Out
  <2> QED
    BY <1>1, <1>3, <1>4, <1>5, <2>1, <2>2 DEF Cached
<1>7. Out = SubSeq(file, 1, rfp) /\ InSection(file, put.name, rfp, rfp)
  BY <1>1 DEF CopyOK
<1>8. FilesOK'
  BY <1>1 DEF FilesOK, Phases
<1>9. CopyOK'
  BY <1>1, <1>3, <1>6, <1>7 DEF CopyOK
<1> QED
  BY <1>8, <1>9

\* The new line that may have to be begun is no heading and no entry.
LEMMA NewLineOK ==
    ASSUME NEW f \in Seq(Lines)
    PROVE  f \o NewLine = f \/ f \o NewLine = Append(f, <<LF>>)
<1>1. NewLine = <<>> \/ NewLine = <<<<LF>>>>
  BY DEF NewLine
<1>2. f \o <<>> = f /\ f \o <<<<LF>>>> = Append(f, <<LF>>)
  BY BlankLine
<1> QED
  BY <1>1, <1>2

\* There is no such section: it is put behind the file.
LEMMA NoSectionOK ==
    ASSUME FilesOK, CopyOK, NoSection
    PROVE  FilesOK' /\ CopyOK'
<1> DEFINE n == put.name
           v == put.value
           h == writesection(n[1])
           e == writekey(n[2], v)
<1>1. /\ phase = "section" /\ AtEnd /\ UNCHANGED <<file, put>> /\ phase' = "close"
      /\ temp' = Flush \o NewLine \o <<writesection(section), NewEntry>>
  BY DEF NoSection, Closing
<1>2. phase \in Copying
  BY <1>1 DEF Copying
<1>3. /\ file \in Seq(Lines) /\ Len(file) \in Nat /\ rfp = Len(file)
      /\ n \in SettingNames /\ v \in Seq(Text) /\ Flush = Out
      /\ writesection(section) = h /\ NewEntry = e
  BY <1>1, <1>2, CopyFacts DEF AtEnd, section
<1>4. Out = file /\ \A q \in 1 .. Len(file) : file[q] # h
  BY <1>1, <1>3 DEF CopyOK
<1> HIDE DEF n, v, h, e
<1>5. temp' = (file \o NewLine) \o <<h, e>>
  BY <1>1, <1>3, <1>4
<1>6. Edited(file, temp', n, v)
  <2>1. CASE file \o NewLine = file
    BY <1>3, <1>4, <1>5, <2>1, SectionAtEnd DEF h, e
  <2>2. CASE file \o NewLine = Append(file, <<LF>>)
    <3> DEFINE g == Append(file, <<LF>>)
    <3>1. /\ g \in Seq(Lines) /\ Len(g) = Len(file) + 1 /\ g[Len(file) + 1] = <<LF>>
          /\ \A q \in 1 .. Len(file) : g[q] = file[q]
      BY <1>3, BlankLine
    <3>2. <<LF>> # h
      BY Signs DEF h, writesection
    <3> HIDE DEF g
    <3>3. \A q \in 1 .. Len(g) : g[q] # h
      <4>1. \A q \in 1 .. Len(g) : q \in 1 .. Len(file) \/ q = Len(file) + 1
        BY <1>3, <3>1
      <4> QED
        BY <1>4, <3>1, <3>2, <4>1
    <3>4. Edited(g, g \o <<h, e>>, n, v)
      BY <1>3, <3>1, <3>3, SectionAtEnd DEF h, e
    <3> QED
      BY <1>3, <1>5, <2>2, <3>4, BlankEdits DEF g
  <2> QED
    BY <1>3, <2>1, <2>2, NewLineOK
<1>7. FilesOK'
  BY <1>1 DEF FilesOK, Phases
<1>8. CopyOK'
  BY <1>1, <1>6 DEF CopyOK, Copying, n, v
<1> QED
  BY <1>7, <1>8

\* Lines of the section.
LEMMA KeepLineOK ==
    ASSUME FilesOK, CopyOK, KeepLine
    PROVE  FilesOK' /\ CopyOK'
<1>1. /\ phase = "entry" /\ ~AtEnd /\ Accumulate /\ UNCHANGED <<file, phase, put>>
      /\ ~IsEntry(Line, key) /\ ~IsHeading(Line)
  BY DEF KeepLine
<1>2. phase \in Copying
  BY <1>1 DEF Copying
<1>3. /\ Cached' /\ rfp' = rfp + 1 /\ Out' = Append(Out, Line)
  BY <1>1, <1>2, CopyFacts, Accumulates
<1>4. Out = SubSeq(file, 1, rfp)
  BY <1>1 DEF CopyOK
<1>5. PICK p : InSection(file, put.name, p, rfp)
  BY <1>1 DEF CopyOK
<1>6. file \in Seq(Lines) /\ rfp \in 0 .. Len(file) - 1 /\ Len(file) \in Nat
  BY <1>1, <1>2, CopyFacts
<1>7. Out' = SubSeq(file, 1, rfp + 1)
  BY <1>3, <1>4, <1>6, PrefixStep DEF Line
<1>8. InSection(file, put.name, p, rfp + 1)
  <2>1. p \in 1 .. Len(file) /\ rfp \in p .. Len(file) /\ rfp + 1 \in p .. Len(file)
    BY <1>5, <1>6 DEF InSection
  <2>2. \A q \in p + 1 .. rfp + 1 : q \in p + 1 .. rfp \/ q = rfp + 1
    BY <2>1
  <2> QED
    BY <1>1, <1>5, <2>1, <2>2 DEF InSection, Line, key
<1>9. FilesOK'
  BY <1>1 DEF FilesOK
<1>10. CopyOK'
  BY <1>1, <1>3, <1>7, <1>8 DEF CopyOK
<1> QED
  BY <1>9, <1>10

\* The section ends with the file: the entry is put behind it.
LEMMA NoEntryOK ==
    ASSUME FilesOK, CopyOK, NoEntry
    PROVE  FilesOK' /\ CopyOK'
<1> DEFINE n == put.name
           v == put.value
           e == writekey(n[2], v)
<1>1. /\ phase = "entry" /\ AtEnd /\ UNCHANGED <<file, put>> /\ phase' = "close"
      /\ temp' = Flush \o NewLine \o <<NewEntry>>
  BY DEF NoEntry, Closing
<1>2. phase \in Copying
  BY <1>1 DEF Copying
<1>3. /\ file \in Seq(Lines) /\ Len(file) \in Nat /\ rfp = Len(file)
      /\ n \in SettingNames /\ v \in Seq(Text) /\ Flush = Out
      /\ NewEntry = e /\ e \in Lines
  BY <1>1, <1>2, CopyFacts DEF AtEnd
<1>4. Out = file
  BY <1>1, <1>3, SMTT(30) DEF CopyOK
<1>5. PICK p : InSection(file, n, p, Len(file))
  BY <1>1, <1>3 DEF CopyOK
<1> HIDE DEF n, v, e
<1>6. temp' = (file \o NewLine) \o <<e>>
  BY <1>1, <1>3, <1>4
<1>7. \A g \in Seq(Lines) : g \o <<e>> = Append(g, e)
  BY <1>3
<1>8. Edited(file, temp', n, v)
  <2>1. CASE file \o NewLine = file
    <3>1. temp' = Append(file, e)
      BY <1>3, <1>6, <1>7, <2>1
    <3> QED
      BY <1>3, <1>5, <3>1, EntryAtEnd DEF e
  <2>2. CASE file \o NewLine = Append(file, <<LF>>)
    <3> DEFINE g == Append(file, <<LF>>)
    <3>1. /\ g \in Seq(Lines) /\ Len(g) = Len(file) + 1 /\ g[Len(file) + 1] = <<LF>>
          /\ \A q \in 1 .. Len(file) : g[q] = file[q]
      BY <1>3, BlankLine
    <3>2. ~IsHeading(<<LF>>) /\ ~IsEntry(<<LF>>, n[2])
      BY Signs, BlankLine DEF IsHeading
    <3> HIDE DEF g
    <3>3. InSection(g, n, p, Len(g))
      <4>1. /\ p \in 1 .. Len(file) /\ file[p] = writesection(n[1])
            /\ \A q \in 1 .. p - 1 : file[q] # writesection(n[1])
            /\ \A q \in p + 1 .. Len(file) : ~IsHeading(file[q]) /\ ~IsEntry(file[q], n[2])
        BY <1>5 DEF InSection
      <4>2. p \in 1 .. Len(g) /\ Len(g) \in p .. Len(g)
        BY <1>3, <3>1, <4>1
      <4>3. \A q \in 1 .. p - 1 : q \in 1 .. Len(file)
        BY <1>3, <4>1
      <4>4. \A q \in p + 1 .. Len(g) :
               q = Len(file) + 1 \/ (q \in p + 1 .. Len(file) /\ q \in 1 .. Len(file))
        BY <1>3, <3>1, <4>1
      <4> QED
        BY <3>1, <3>2, <4>1, <4>2, <4>3, <4>4 DEF InSection
    <3>4. Edited(g, Append(g, e), n, v)
      BY <1>3, <3>1, <3>3, EntryAtEnd DEF e
    <3>5. temp' = Append(g, e)
      BY <1>6, <1>7, <2>2, <3>1 DEF g
    <3> QED
      BY <1>3, <3>4, <3>5, BlankEdits DEF g
  <2> QED
    BY <1>3, <2>1, <2>2, NewLineOK
<1>9. FilesOK'
  BY <1>1 DEF FilesOK, Phases
<1>10. CopyOK'
  BY <1>1, <1>8 DEF CopyOK, Copying, n, v
<1> QED
  BY <1>9, <1>10

\* The entry is written, before the next section or instead of the old one.
LEMMA WriteEntryOK ==
    ASSUME FilesOK, CopyOK, WriteEntry
    PROVE  FilesOK' /\ CopyOK'
<1> DEFINE n == put.name
           v == put.value
           e == writekey(n[2], v)
           r == rfp
           rest(k) == SubSeq(file, k, Len(file))
<1>1. /\ phase = "entry" /\ ~AtEnd /\ UNCHANGED <<file, put>> /\ phase' = "rest"
      /\ temp' = Flush \o <<NewEntry>> /\ rfp' = Flushed + 1
  BY DEF WriteEntry
<1>2. phase \in Copying
  BY <1>1 DEF Copying
<1>3. /\ file \in Seq(Lines) /\ Len(file) \in Nat /\ r \in 0 .. Len(file) - 1
      /\ n \in SettingNames /\ v \in Seq(Text) /\ Flush = Out /\ Out \in Seq(Lines)
      /\ NewEntry = e /\ e \in Lines /\ Flushed = r
  BY <1>1, <1>2, CopyFacts
<1>4. Out = SubSeq(file, 1, r)
  BY <1>1 DEF CopyOK
<1>5. PICK p : InSection(file, n, p, r)
  BY <1>1 DEF CopyOK
<1> HIDE DEF n, v, e
<1> DEFINE t == Append(SubSeq(file, 1, r), e)
<1>6. temp' = t /\ rfp' = r + 1 /\ t \in Seq(Lines)
  <2>1. Out \o <<e>> = Append(Out, e) /\ Append(Out, e) \in Seq(Lines)
    BY <1>3
  <2> QED
    BY <1>1, <1>3, <1>4, <2>1
<1> HIDE DEF t
<1>7. r \in Nat /\ r \in 0 .. Len(file) /\ r + 1 \in 0 .. Len(file) /\ r + 1 \in r + 1 .. Len(file)
      /\ r + 1 \in r .. Len(file) /\ r \in 0 .. r /\ (r + 1) - 1 = r
  BY <1>3
<1>8. CASE IsHeading(Line) /\ mark' = Flushed /\ cachelen' = Len(file[Flushed + 1])
  <2>1. mark' = r /\ cachelen' = Len(file[r + 1])
    BY <1>3, <1>8
  <2>2. Len(file[r + 1]) \in Nat /\ file[r + 1] \in Lines /\ SubSeq(file, r + 1, r + 1) = <<file[r + 1]>>
    <3>1. file[r + 1] \in Lines /\ SubSeq(file, r + 1, r + 1) = <<file[r + 1]>>
      <4>1. r \in r .. Len(file) - 1
        BY <1>3
      <4> QED
        BY <1>3, <1>6, <1>7, <4>1, OneMoreLine
    <3> QED
      BY <3>1 DEF Lines
  <2>3. Symbols(file, r, r + 1) = Len(file[r + 1])
    <3>1. Symbols(file, r, r) = 0 /\ Symbols(file, r, r + 1) = Symbols(file, r, (r + 1) - 1) + Len(file[r + 1])
      BY <1>3, <1>7, SymbolsDef
    <3> QED
      BY <1>7, <2>2, <3>1
  <2>4. Cached'
    BY <1>1, <1>3, <1>6, <1>7, <2>1, <2>3 DEF Cached
  <2>5. Out' = Append(t, file[r + 1])
    <3>1. Out' = t \o <<file[r + 1]>>
      BY <1>1, <1>6, <2>1, <2>2 DEF Out
    <3> QED
      BY <1>6, <2>2, <3>1
  <2>6. Out' \o SubSeq(file, (r + 1) + 1, Len(file)) = t \o SubSeq(file, r + 1, Len(file))
    BY <1>3, <1>6, <2>5, RestStep
  <2>7. Edited(file, t \o SubSeq(file, r + 1, Len(file)), n, v)
    <3>1. Inserted(file, t \o SubSeq(file, r + 1, Len(file)), r, e)
      BY <1>3, InsertShape DEF t
    <3> QED
      BY <1>3, <1>5, <3>1, InsertEdits DEF e
  <2>8. Edited(file, Out' \o SubSeq(file, (r + 1) + 1, Len(file)), n, v)
    BY <2>6, <2>7
  <2> QED
    BY <1>1, <1>6, <2>4, <2>8 DEF FilesOK, Phases, CopyOK, n, v
<1>9. CASE IsEntry(Line, key) /\ mark' = Flushed + 1 /\ cachelen' = 0
  <2>1. mark' = r + 1 /\ cachelen' = 0
    BY <1>3, <1>9
  <2>2. Symbols(file, r + 1, r + 1) = 0 /\ t \o SubSeq(file, (r + 1) + 1, r + 1) = t
    BY <1>3, <1>6, <1>7, EmptyCache
  <2>3. Cached'
    BY <1>1, <1>3, <1>6, <1>7, <2>1, <2>2 DEF Cached
  <2>4. Out' = t
    BY <1>1, <1>6, <2>1, <2>2 DEF Out
  <2>5. r + 1 \in Holds(file, n)
    <3>1. /\ p \in 1 .. Len(file) /\ r \in p .. Len(file) /\ file[p] = writesection(n[1])
          /\ \A q \in 1 .. p - 1 : file[q] # writesection(n[1])
          /\ \A q \in p + 1 .. r : ~IsHeading(file[q]) /\ ~IsEntry(file[q], n[2])
      BY <1>5 DEF InSection
    <3>2. r + 1 \in 1 .. Len(file) /\ p \in 1 .. (r + 1) - 1
      BY <1>3, <1>7, <3>1
    <3>3. IsEntry(file[r + 1], n[2])
      BY <1>9 DEF Line, key, n
    <3> QED
      BY <1>3, <1>7, <3>1, <3>2, <3>3, HoldsIff
  <2>6. Edited(file, t \o SubSeq(file, (r + 1) + 1, Len(file)), n, v)
    <3>1. Exchanged(file, t \o SubSeq(file, (r + 1) + 1, Len(file)), r + 1, e)
      BY <1>3, ExchangeShape DEF t
    <3> QED
      BY <1>3, <2>5, <3>1, ReplaceEdits DEF e
  <2> QED
    BY <1>1, <1>6, <2>3, <2>4, <2>6 DEF FilesOK, Phases, CopyOK, n, v
<1> QED
  BY <1>8, <1>9 DEF WriteEntry

\* The rest of the file.
LEMMA CopyRestOK ==
    ASSUME FilesOK, CopyOK, CopyRest
    PROVE  FilesOK' /\ CopyOK'
<1>1. /\ phase = "rest" /\ ~AtEnd /\ Accumulate /\ UNCHANGED <<file, phase, put>>
  BY DEF CopyRest
<1>2. phase \in Copying
  BY <1>1 DEF Copying
<1>3. /\ Cached' /\ rfp' = rfp + 1 /\ Out' = Append(Out, Line)
  BY <1>1, <1>2, CopyFacts, Accumulates
<1>4. file \in Seq(Lines) /\ Out \in Seq(Lines) /\ rfp \in 0 .. Len(file) - 1
  BY <1>1, <1>2, CopyFacts
<1>5. Out' \o SubSeq(file, (rfp + 1) + 1, Len(file)) = Out \o SubSeq(file, rfp + 1, Len(file))
  BY <1>3, <1>4, RestStep DEF Line
<1>6. Edited(file, Out' \o SubSeq(file, (rfp + 1) + 1, Len(file)), put.name, put.value)
  BY <1>1, <1>5 DEF CopyOK
<1>7. FilesOK'
  BY <1>1 DEF FilesOK
<1>8. CopyOK'
  BY <1>1, <1>3, <1>6 DEF CopyOK
<1> QED
  BY <1>7, <1>8

\* The last flush.
LEMMA EndRestOK ==
    ASSUME FilesOK, CopyOK, EndRest
    PROVE  FilesOK' /\ CopyOK'
<1>1. /\ phase = "rest" /\ AtEnd /\ UNCHANGED <<file, put>> /\ phase' = "close" /\ temp' = Flush
  BY DEF EndRest, Closing
<1>2. phase \in Copying
  BY <1>1 DEF Copying
<1>3. file \in Seq(Lines) /\ Out \in Seq(Lines) /\ rfp = Len(file) /\ temp' = Out /\ rfp \in 0 .. Len(file)
  BY <1>1, <1>2, CopyFacts DEF AtEnd
<1>4. Out \o SubSeq(file, rfp + 1, rfp) = Out
  BY <1>3, EmptyCache
<1>5. Edited(file, temp', put.name, put.value)
  BY <1>1, <1>3, <1>4 DEF CopyOK
<1>6. FilesOK'
  BY <1>1 DEF FilesOK, Phases
<1>7. CopyOK'
  BY <1>1, <1>5 DEF CopyOK, Copying
<1> QED
  BY <1>6, <1>7

-----------------------------------------------------------------------------
(* What a step of the library does to the settings *)

\* One setting is put and no other changes.
Puts(f, g, n, v) ==
    /\ g \in Seq(Lines)
    /\ ini_gets(g, n) = v
    /\ \A m \in SettingNames \ {n} : LineOf(g, m) = LineOf(f, m)

\* An edited file is one in which the setting is put.
LEMMA EditedPuts ==
    ASSUME NEW f, NEW g, NEW n \in SettingNames, NEW v \in Seq(Text), Edited(f, g, n, v)
    PROVE  Puts(f, g, n, v)
<1>1. ini_gets(g, n) = v
  BY EntryLine DEF Edited, ini_gets
<1> QED
  BY <1>1 DEF Edited, Puts

\* A file that is not there, or is empty, has no settings.
LEMMA NoLines ==
    ASSUME NEW n
    PROVE  LineOf(Missing, n) = Unset /\ LineOf(<<>>, n) = Unset
<1>1. Holds(<<>>, n) = {}
  BY DEF Holds
<1> QED
  BY <1>1 DEF LineOf

\* The steps of the copy leave the file alone.
LEMMA CopyingOK ==
    ASSUME FilesOK, CopyOK,
           \/ SkipLine \/ FoundSection \/ EnterSection \/ NoSection
           \/ KeepLine \/ NoEntry \/ WriteEntry \/ CopyRest \/ EndRest
    PROVE  /\ FilesOK' /\ CopyOK' /\ UNCHANGED <<file, put>>
           /\ phase \in Copying /\ phase' \in Copying \cup {"close"}
<1>1. FilesOK' /\ CopyOK'
  BY SkipLineOK, FoundSectionOK, EnterSectionOK, NoSectionOK, KeepLineOK, NoEntryOK,
     WriteEntryOK, CopyRestOK, EndRestOK
<1>2. UNCHANGED <<file, put>> /\ phase \in Copying /\ phase' \in Copying \cup {"close"}
  BY DEF SkipLine, FoundSection, EnterSection, NoSection, KeepLine, NoEntry, WriteEntry,
         CopyRest, EndRest, Closing, Copying
<1> QED
  BY <1>1, <1>2

\* The first file.
LEMMA CreatedOK ==
    ASSUME FilesOK, CopyOK, Created
    PROVE  /\ FilesOK' /\ CopyOK' /\ phase = "create" /\ phase' = "idle"
           /\ file' \in Seq(Lines) /\ Puts(file, file', put.name, put.value)
<1> DEFINE n == put.name
           v == put.value
<1>1. /\ phase = "create" /\ phase' = "idle"
      /\ file' = <<writesection(n[1]), writekey(n[2], v)>>
  BY DEF Created, Done, NewEntry, section, key
<1>2. file = <<>> /\ n \in SettingNames /\ v \in Seq(Text)
  BY <1>1 DEF FilesOK
<1> HIDE DEF n, v
<1>3. <<>> \in Seq(Lines) /\ Len(<<>>) = 0
  OBVIOUS
<1>4. file' = <<>> \o <<writesection(n[1]), writekey(n[2], v)>>
  <2>1. writesection(n[1]) \in Lines /\ writekey(n[2], v) \in Lines
    BY <1>2, HeadingLine, EntryLine
  <2> QED
    BY <1>1, <2>1
<1>5. Edited(file, file', n, v)
  <2>1. file \in Seq(Lines) /\ \A q \in 1 .. Len(file) : file[q] # writesection(n[1])
    <3>1. 1 .. Len(file) = {}
      BY <1>2
    <3> QED
      BY <1>2, <1>3, <3>1
  <2>2. file' = file \o <<writesection(n[1]), writekey(n[2], v)>>
    BY <1>2, <1>4
  <2>3. n \in SettingNames /\ v \in Seq(Text)
    BY <1>2
  <2> QED
    BY <2>1, <2>2, <2>3, SectionAtEnd
<1>6. file' \in Seq(Lines) /\ Puts(file, file', n, v)
  BY <1>2, <1>5, EditedPuts DEF Edited
<1>7. FilesOK' /\ CopyOK'
  BY <1>1, <1>6 DEF FilesOK, CopyOK, Phases, Copying
<1> QED
  BY <1>1, <1>6, <1>7 DEF n, v

\* The old file is deleted when the new one is complete.
LEMMA RemoveOldOK ==
    ASSUME FilesOK, CopyOK, RemoveOld
    PROVE  /\ FilesOK' /\ CopyOK' /\ phase = "close" /\ phase' = "removed" /\ put' = put
           /\ temp' = temp /\ Puts(file, temp, put.name, put.value)
<1>1. phase = "close" /\ phase' = "removed" /\ UNCHANGED <<temp, put>> /\ file' = Missing
  BY DEF RemoveOld
<1>2. /\ put.name \in SettingNames /\ put.value \in Seq(Text)
      /\ Edited(file, temp, put.name, put.value) /\ temp \in Seq(Lines)
  BY <1>1 DEF FilesOK, CopyOK, Edited
<1>3. Puts(file, temp, put.name, put.value)
  BY <1>2, EditedPuts
<1>4. FilesOK' /\ CopyOK'
  BY <1>1, <1>2 DEF FilesOK, CopyOK, Phases, Copying
<1> QED
  BY <1>1, <1>3, <1>4

\* The new file takes its place.
LEMMA RenameOK ==
    ASSUME FilesOK, CopyOK, Rename
    PROVE  /\ FilesOK' /\ CopyOK' /\ phase = "removed" /\ phase' = "idle" /\ file' = temp
<1>1. phase = "removed" /\ phase' = "idle" /\ file' = temp
  BY DEF Rename, Done
<1>2. temp \in Seq(Lines)
  BY <1>1 DEF FilesOK
<1> QED
  BY <1>1, <1>2 DEF FilesOK, CopyOK, Phases, Copying

\* The calls of ini_puts.
LEMMA PutsCreateOK ==
    ASSUME FilesOK, CopyOK, NEW n \in SettingNames, NEW v \in Seq(Text), PutsCreate(n, v)
    PROVE  /\ FilesOK' /\ CopyOK' /\ phase = "idle" /\ phase' = "create"
           /\ put'.name = n /\ put'.value = v
           /\ \A m : LineOf(file', m) = Unset
<1>1. /\ phase = "idle" /\ phase' = "create" /\ file' = <<>>
      /\ put'.name = n /\ put'.value = v
  BY DEF PutsCreate, AtRest
<1>2. <<>> \in Seq(Lines)
  OBVIOUS
<1>3. FilesOK' /\ CopyOK'
  BY <1>1, <1>2 DEF FilesOK, CopyOK, Phases, Copying
<1> QED
  BY <1>1, <1>3, NoLines

\* The line keeps its length, or its value.
LEMMA PutsInPlaceOK ==
    ASSUME FilesOK, CopyOK, NEW n \in SettingNames, NEW v \in Seq(Text), PutsInPlace(n, v)
    PROVE  /\ FilesOK' /\ CopyOK' /\ phase = "idle" /\ phase' = "idle" /\ put' = put
           /\ Puts(file, file', n, v)
<1>1. phase = "idle" /\ phase' = "idle" /\ file \in Seq(Lines) /\ put' = put
  BY DEF PutsInPlace, AtRest, FilesOK
<1>2. PICK i \in Holds(file, n) :
          \/ ValueOn(file[i]) = v /\ UNCHANGED file
          \/ file' = [file EXCEPT ![i] = writekey(n[2], v)]
  BY DEF PutsInPlace
<1>3. i \in 1 .. Len(file) /\ IsEntry(file[i], n[2])
  BY <1>1, HoldsIff
<1>4. CASE ValueOn(file[i]) = v /\ UNCHANGED file
  <2>1. LineOf(file, n) = file[i]
    BY <1>1, LineIs
  <2>2. file[i] # Unset
    <3>1. Len(file[i]) > 2
      BY <1>3 DEF IsEntry
    <3>2. Len(Unset) = 1 /\ ~(1 > 2)
      BY DEF Unset
    <3> QED
      BY <3>1, <3>2, Zenon
  <2>3. ini_gets(file, n) = v
    BY <1>4, <2>1, <2>2 DEF ini_gets
  <2> QED
    BY <1>1, <1>4, <2>3 DEF Puts, FilesOK, CopyOK, Phases, Copying
<1>5. CASE file' = [file EXCEPT ![i] = writekey(n[2], v)]
  <2> DEFINE e == writekey(n[2], v)
             g == [file EXCEPT ![i] = e]
  <2>1. e \in Lines
    BY EntryLine
  <2> HIDE DEF e
  <2>2. Exchanged(file, g, i, e)
    <3>1. g \in Seq(Lines) /\ Len(g) = Len(file)
      BY <1>1, <1>3, <2>1
    <3>2. \A j \in 1 .. Len(file) : g[j] = IF j = i THEN e ELSE file[j]
      BY <1>1, <1>3
    <3> QED
      BY <3>1, <3>2 DEF Exchanged
  <2>3. Edited(file, file', n, v)
    BY <1>1, <1>5, <2>2, ReplaceEdits DEF e
  <2>4. Puts(file, file', n, v)
    BY <2>3, EditedPuts
  <2> QED
    BY <1>1, <2>4 DEF Puts, FilesOK, CopyOK, Phases, Copying
<1> QED
  BY <1>2, <1>4, <1>5

\* The copy starts with an empty file and an empty cache.
LEMMA PutsCopyOK ==
    ASSUME FilesOK, CopyOK, NEW n \in SettingNames, NEW v \in Seq(Text), PutsCopy(n, v)
    PROVE  /\ FilesOK' /\ CopyOK' /\ phase = "idle" /\ phase' = "section"
           /\ put'.name = n /\ put'.value = v /\ file' = file
<1>1. /\ phase = "idle" /\ phase' = "section" /\ file' = file /\ file \in Seq(Lines)
      /\ put'.name = n /\ put'.value = v /\ temp' = <<>>
      /\ rfp' = 0 /\ mark' = 0 /\ cachelen' = 0
  BY DEF PutsCopy, AtRest, FilesOK
<1>2. <<>> \in Seq(Lines) /\ Len(file) \in Nat /\ 0 \in 0 .. Len(file)
  BY <1>1
<1>3. Symbols(file, 0, 0) = 0 /\ <<>> \o SubSeq(file, 0 + 1, 0) = <<>>
  BY <1>1, <1>2, EmptyCache
<1>4. SubSeq(file, 1, 0) = <<>>
  BY <1>1
<1>5. Cached'
  BY <1>1, <1>2, <1>3 DEF Cached
<1>6. Out' = SubSeq(file, 1, 0)
  <2>1. Out' = <<>> \o SubSeq(file, 0 + 1, 0)
    BY <1>1 DEF Out
  <2> QED
    BY <1>3, <1>4, <2>1
<1>7. FilesOK'
  BY <1>1 DEF FilesOK, Phases
<1>8. CopyOK'
  <2>1. 1 .. 0 = {}
    OBVIOUS
  <2> QED
    BY <1>1, <1>5, <1>6, <2>1 DEF CopyOK
<1> QED
  BY <1>1, <1>7, <1>8

\* The end of the process.
LEMMA StoppedOK ==
    ASSUME FilesOK, CopyOK, Stopped
    PROVE  FilesOK' /\ CopyOK' /\ phase' = "idle" /\ file' = file
BY DEF FilesOK, CopyOK, Phases, Copying, Stopped, Done

\* A step that fails loses nothing, or everything.
LEMMA FailingOK ==
    ASSUME FilesOK, CopyOK, FailingStep
    PROVE  /\ FilesOK' /\ CopyOK'
           /\ phase' # "idle" => phase # "idle" /\ put' = put
           /\ Settled' = Settled \/ Settled' \in {Missing, <<>>}
<1>1. <<>> \in Seq(Lines)
  OBVIOUS
<1>2. CASE CreateFails
  <2>1. phase = "create" /\ phase' = "idle" /\ UNCHANGED <<file, temp>>
    BY <1>2 DEF CreateFails, Done
  <2> QED
    BY <2>1 DEF FilesOK, CopyOK, Phases, Copying, Settled
<1>3. CASE CloseFails
  <2>1. /\ phase = "close" /\ phase' = "removed" /\ file' = Missing /\ temp' = <<>>
        /\ put' = put
    BY <1>3 DEF CloseFails
  <2> QED
    BY <1>1, <2>1 DEF FilesOK, CopyOK, Phases, Copying, Settled
<1>4. CASE RemoveFails
  <2>1. phase = "close" /\ phase' = "idle" /\ UNCHANGED file
    BY <1>4 DEF RemoveFails, Done
  <2> QED
    BY <2>1 DEF FilesOK, CopyOK, Phases, Copying, Settled
<1>5. CASE RenameFails
  <2>1. phase = "removed" /\ phase' = "idle" /\ UNCHANGED file
    BY <1>5 DEF RenameFails, Done
  <2> QED
    BY <2>1 DEF FilesOK, CopyOK, Phases, Copying, Settled
<1> QED
  BY <1>2, <1>3, <1>4, <1>5 DEF FailingStep

-----------------------------------------------------------------------------
(* The relay *)

\* What the relay writes is text.
LEMMA ValuesOK ==
    /\ \A sn \in Serials : Format(sn) \in Seq(Text)
    /\ <<"1">> \in Seq(Text)
    /\ \A token \in BoundedSeq(KeySymbols, KeyLength) : token \in Seq(Text)
<1>1. "0" \in Text /\ "1" \in Text
  BY DEF Text
<1>2. \A sn \in Serials : ToString(sn) \in Text
  BY DEF Text
<1>3. KeySymbols \subseteq Text
  BY DEF Text
<1>4. \A sn \in Serials : Format(sn) \in Seq(Text)
  BY <1>1, <1>2 DEF Format
<1>5. ASSUME NEW token \in BoundedSeq(KeySymbols, KeyLength) PROVE token \in Seq(Text)
  <2>1. PICK m \in 0 .. KeyLength : token \in [1 .. m -> KeySymbols]
    BY <1>5 DEF BoundedSeq, SeqOf
  <2>2. m \in Nat /\ token \in [1 .. m -> Text]
    BY <1>3, <2>1, ConfigAssumption
  <2> QED
    BY <2>2
<1> QED
  BY <1>1, <1>4, <1>5

\* The settings have their names, and no other has the name of the serial of a
\* friend.
LEMMA NamesDiffer ==
    /\ \A c \in Friends : outgoing_sn(c) \in SettingNames
    /\ \A c \in Writers : incoming_sn(c) \in SettingNames /\ meta_chat_flag(c) \in SettingNames
    /\ relay_public_key \in SettingNames
    /\ \A c, d \in Friends : outgoing_sn(c) = outgoing_sn(d) => c = d
    /\ \A c, d : incoming_sn(d) # outgoing_sn(c) /\ meta_chat_flag(d) # outgoing_sn(c)
    /\ \A c : relay_public_key # outgoing_sn(c)
<1>1. /\ \A c \in Friends : outgoing_sn(c) \in SettingNames
      /\ \A c \in Writers : incoming_sn(c) \in SettingNames /\ meta_chat_flag(c) \in SettingNames
      /\ relay_public_key \in SettingNames
  BY DEF SettingNames
<1>2. /\ \A c : outgoing_sn(c)[1] = "outgoing_sn" /\ incoming_sn(c)[1] = "incoming_sn"
      /\ \A c : meta_chat_flag(c)[1] = "meta_chat_flag"
      /\ relay_public_key[1] = "metaCom_Relayer"
  BY DEF outgoing_sn, incoming_sn, meta_chat_flag, relay_public_key
<1>3. \A c, d : incoming_sn(d) # outgoing_sn(c) /\ meta_chat_flag(d) # outgoing_sn(c)
  <2>1. "incoming_sn" # "outgoing_sn" /\ "meta_chat_flag" # "outgoing_sn"
    OBVIOUS
  <2> QED
    BY <1>2, <2>1, Zenon
<1>4. \A c : relay_public_key # outgoing_sn(c)
  <2>1. "metaCom_Relayer" # "outgoing_sn"
    OBVIOUS
  <2> QED
    BY <1>2, <2>1, Zenon
<1> QED
  BY <1>1, <1>3, <1>4, TextAssumption

\* A serial is read as it was written, one that was not read as 0.
LEMMA SerialsRead ==
    /\ \A sn \in Serials : /\ ReadSerial(Format(sn)) = sn
                           /\ Format(sn) # Unset /\ Format(sn) # Unread
    /\ \A v : ReadSerial(v) \in Serials \cup {0}
<1>1. ASSUME NEW sn \in Serials
      PROVE  ReadSerial(Format(sn)) = sn /\ Format(sn) # Unset /\ Format(sn) # Unread
  <2>1. \E s \in Serials : Format(sn) = Format(s)
    OBVIOUS
  <2>2. (CHOOSE s \in Serials : Format(sn) = Format(s)) = sn
    BY TextAssumption
  <2>3. Len(Format(sn)) = 4 /\ Len(Unset) = 1 /\ Len(Unread) = 1
    BY DEF Format, Unset, Unread
  <2>4. Format(sn) # Unset /\ Format(sn) # Unread
    <3> HIDE DEF Format, Unset, Unread
    <3> QED
      BY <2>3
  <2> HIDE DEF Format
  <2> QED
    BY <2>1, <2>2, <2>4 DEF ReadSerial
<1>2. TG_SN_MIN \in Serials
  BY SerialAssumption DEF TG_SN_MIN, Serials
<1>3. ASSUME NEW v PROVE ReadSerial(v) \in Serials \cup {0}
  BY <1>2 DEF ReadSerial
<1> QED
  BY <1>1, <1>3

\* The serial after one that was read.
LEMMA NextSerial ==
    ASSUME NEW sn \in Serials \cup {0}, sn < TG_SN_MAX
    PROVE  tg_sn_next(sn) = sn + 1 /\ sn + 1 \in Serials
BY SerialAssumption DEF tg_sn_next, tg_sn_valid, Serials, TG_SN_MIN

\* What is read depends on the line.
LEMMA GetsByLine ==
    ASSUME NEW f, NEW g, NEW n, LineOf(f, n) = LineOf(g, n)
    PROVE  ini_gets(f, n) = ini_gets(g, n)
BY DEF ini_gets

\* A call of ini_puts: it puts the setting at once, or starts to, or fails.
LEMMA KeepOK ==
    ASSUME FilesOK, CopyOK, NEW n \in SettingNames, NEW v \in Seq(Text), Keep(n, v),
           mishaps \in Nat
    PROVE  /\ FilesOK' /\ CopyOK' /\ phase = "idle"
           /\ known' = [known EXCEPT ![n] = v]
           /\ phase' # "idle" => /\ phase' \in {"create", "section"}
                                 /\ put'.name = n /\ put'.value = v
           /\ \/ /\ phase' # "idle"
                 /\ \A m : LineOf(file', m) = LineOf(file, m)
                 /\ mishaps' = mishaps
              \/ phase' = "idle" /\ Puts(file, file', n, v) /\ mishaps' = mishaps
              \/ /\ \A m : LineOf(file', m) = LineOf(file, m)
                 /\ mishaps' = mishaps + 1
              \/ /\ \A m : LineOf(file', m) = Unset
                 /\ mishaps' = mishaps + 1
<1>1. known' = [known EXCEPT ![n] = v]
  BY DEF Keep
<1>2. CASE file = Missing /\ PutsCreate(n, v) /\ UNCHANGED mishaps
  BY <1>1, <1>2, PutsCreateOK, NoLines
<1>3. CASE PutsInPlace(n, v) /\ UNCHANGED mishaps
  BY <1>1, <1>3, PutsInPlaceOK
<1>4. CASE PutsCopy(n, v) /\ UNCHANGED mishaps
  BY <1>1, <1>4, PutsCopyOK
<1>5. CASE PutsFails(n, v) /\ MayFail
  <2>1. phase = "idle" /\ UNCHANGED iniVars /\ mishaps' = mishaps + 1
    BY <1>5 DEF PutsFails, AtRest, MayFail
  <2>2. FilesOK' /\ CopyOK' /\ file' = file /\ phase' = phase
    BY <2>1 DEF FilesOK, CopyOK, iniVars, Phases, Copying
  <2> QED
    BY <1>1, <2>1, <2>2
<1>6. CASE PutsCreate(n, v) /\ MayFail
  BY <1>1, <1>6, PutsCreateOK DEF MayFail
<1> QED
  BY <1>2, <1>3, <1>4, <1>5, <1>6 DEF Keep, ini_puts, ini_puts_fails

\* Then the relay goes by the new value.
LEMMA KeepAgrees ==
    ASSUME FilesOK, CopyOK, Agrees, NEW n \in SettingNames, NEW v \in Seq(Text), Keep(n, v)
    PROVE  Agrees'
<1>0. mishaps \in Nat
  BY DEF Agrees
<1>1. /\ phase = "idle" /\ DOMAIN known = SettingNames
      /\ known' = [known EXCEPT ![n] = v]
  BY <1>0, KeepOK DEF Agrees
<1>2. /\ DOMAIN known' = SettingNames /\ known'[n] = v
      /\ \A m \in SettingNames \ {n} : known'[m] = known[m]
  BY <1>1
<1>3. mishaps = 0 => \A m \in SettingNames : known[m] # Unread => ini_gets(file, m) = known[m]
  BY <1>1 DEF Agrees, Agree
<1>4. CASE /\ phase' \in {"create", "section"} /\ put'.name = n /\ put'.value = v
           /\ \A m : LineOf(file', m) = LineOf(file, m)
           /\ mishaps' = mishaps
  <2>1. mishaps = 0 => \A m \in SettingNames \ {n} :
                          known'[m] # Unread => ini_gets(file', m) = known'[m]
    BY <1>2, <1>3, <1>4, GetsByLine
  <2> QED
    BY <1>0, <1>1, <1>2, <1>4, <2>1 DEF Agrees, Agree
<1>5. CASE phase' = "idle" /\ Puts(file, file', n, v) /\ mishaps' = mishaps
  <2>1. ini_gets(file', n) = v /\ \A m \in SettingNames \ {n} : ini_gets(file', m) = ini_gets(file, m)
    BY <1>5, GetsByLine DEF Puts
  <2>2. mishaps = 0 => \A m \in SettingNames :
                          known'[m] # Unread => ini_gets(file', m) = known'[m]
    BY <1>2, <1>3, <2>1
  <2> QED
    BY <1>0, <1>1, <1>2, <1>5, <2>2 DEF Agrees, Agree
<1>6. CASE mishaps' = mishaps + 1
  <2>1. mishaps' \in Nat /\ mishaps' # 0
    BY <1>0, <1>6
  <2> QED
    BY <1>2, <2>1 DEF Agrees
<1> QED
  BY <1>0, <1>4, <1>5, <1>6, KeepOK

\* What a call does to the serials kept: to its own, and to no other.
LEMMA KeepCovers ==
    ASSUME FilesOK, CopyOK, Agrees, NEW n \in SettingNames, NEW v \in Seq(Text), Keep(n, v),
           mishaps' = 0
    PROVE  /\ mishaps = 0 /\ Settled = file /\ Settled' = file'
           /\ \A m \in SettingNames \ {n} : ini_gets(file', m) = ini_gets(file, m)
           /\ ini_gets(file', n) \in {v, ini_gets(file, n)}
<1>0. mishaps \in Nat
  BY DEF Agrees
<1>1. /\ phase = "idle" /\ mishaps = 0
      /\ phase' \in {"idle", "create", "section"}
      /\ \/ \A m : LineOf(file', m) = LineOf(file, m)
         \/ Puts(file, file', n, v)
  BY <1>0, KeepOK
<1>2. Settled = file /\ Settled' = file'
  BY <1>1 DEF Settled
<1>3. CASE \A m : LineOf(file', m) = LineOf(file, m)
  BY <1>1, <1>2, <1>3, GetsByLine
<1>4. CASE Puts(file, file', n, v)
  BY <1>1, <1>2, <1>4, GetsByLine DEF Puts
<1> QED
  BY <1>1, <1>3, <1>4

\* Another setting than a serial is kept.
LEMMA OtherSerials ==
    ASSUME FilesOK, CopyOK, Agrees, SerialsOK,
           NEW n \in SettingNames, NEW v \in Seq(Text), Keep(n, v),
           \A c \in Friends : n # outgoing_sn(c), UNCHANGED <<sending, used, reused, blind>>
    PROVE  SerialsOK'
<1>0. mishaps \in Nat /\ DOMAIN known = SettingNames
  BY DEF Agrees
<1>1. /\ phase = "idle" /\ known' = [known EXCEPT ![n] = v]
      /\ phase' # "idle" => put'.name = n
  BY <1>0, KeepOK
<1>2. \A c \in Friends : outgoing_sn(c) \in SettingNames \ {n}
  BY NamesDiffer
<1>3. \A c \in Friends : known'[outgoing_sn(c)] = known[outgoing_sn(c)]
  BY <1>0, <1>1, <1>2
<1>5. mishaps' = 0 =>
         /\ mishaps = 0
         /\ \A c \in Friends : ini_gets(Settled', outgoing_sn(c)) = ini_gets(Settled, outgoing_sn(c))
  BY <1>2, KeepCovers
<1>6. \A c \in Friends : phase' # "idle" /\ put'.name = outgoing_sn(c) => sending' = c
  BY <1>1
<1>7. ASSUME mishaps' = 0, NEW c \in Friends \ blind PROVE Covers(Settled, c)'
  <2>1. Covers(Settled, c) /\ used'[c] = used[c]
    BY <1>5, <1>7 DEF SerialsOK
  <2>2. ini_gets(Settled', outgoing_sn(c)) = ini_gets(Settled, outgoing_sn(c))
    BY <1>5, <1>7
  <2> QED
    BY <2>1, <2>2 DEF Covers
<1> QED
  BY <1>3, <1>5, <1>6, <1>7 DEF SerialsOK

\* The next serial is kept before it is used.
LEMMA TypedSerials ==
    ASSUME FilesOK, CopyOK, Agrees, SerialsOK, NEW c \in Friends, Typed(c)
    PROVE  FilesOK' /\ CopyOK' /\ Agrees' /\ SerialsOK'
<1> DEFINE n == outgoing_sn(c)
           sn == ReadSerial(known[n])
           v == Format(tg_sn_next(sn))
<1>0. mishaps \in Nat /\ DOMAIN known = SettingNames
  BY DEF Agrees
<1>1. /\ Keep(n, v) /\ sn < TG_SN_MAX /\ sending' = c /\ UNCHANGED <<used, reused>>
      /\ blind' = IF Overlooked(c) THEN blind \cup {c} ELSE blind
  BY DEF Typed
<1>2. n \in SettingNames /\ sn \in Serials \cup {0} /\ sn \in Nat
  <2>1. n \in SettingNames /\ sn \in Serials \cup {0}
    BY NamesDiffer, SerialsRead
  <2> HIDE DEF n, sn
  <2> QED
    BY <2>1 DEF Serials, TG_SN_MIN
<1>a. Overlooked(c) <=> known[n] = Unread /\ ini_gets(file, n) # Unset
  BY DEF Overlooked
<1> HIDE DEF n, sn
<1>3. tg_sn_next(sn) = sn + 1 /\ sn + 1 \in Serials
  BY <1>1, <1>2, NextSerial
<1>4. v \in Seq(Text) /\ ReadSerial(v) = sn + 1 /\ v # Unset /\ v = Format(sn + 1)
  BY <1>3, ValuesOK, SerialsRead
<1> HIDE DEF v
<1>5. FilesOK' /\ CopyOK' /\ Agrees'
  BY <1>0, <1>1, <1>2, <1>4, KeepOK, KeepAgrees
<1>6. /\ phase = "idle" /\ known' = [known EXCEPT ![n] = v]
      /\ phase' # "idle" => put'.name = n
  BY <1>0, <1>1, <1>2, <1>4, KeepOK
<1>7. known'[n] = v
  BY <1>0, <1>2, <1>6
<1>8. /\ \A d \in Friends : phase' # "idle" /\ put'.name = outgoing_sn(d) => sending' = d
      /\ \A d \in Friends : sending' = d => \E s \in Serials : known'[outgoing_sn(d)] = Format(s)
  BY <1>1, <1>3, <1>4, <1>6, <1>7, NamesDiffer DEF n
<1>9. ASSUME mishaps' = 0
      PROVE  /\ (reused \subseteq blind)'
             /\ \A d \in Friends \ blind' : Covers(Settled, d)'
             /\ \A d \in Friends \ blind' : sending' = d =>
                   \A s \in used'[d] : s < ReadSerial(known'[outgoing_sn(d)])
  <2>1. /\ mishaps = 0 /\ Settled = file /\ Settled' = file'
        /\ \A m \in SettingNames \ {n} : ini_gets(file', m) = ini_gets(file, m)
        /\ ini_gets(file', n) \in {v, ini_gets(file, n)}
    BY <1>1, <1>2, <1>4, <1>9, KeepCovers
  <2>2. /\ reused \subseteq blind /\ blind \subseteq blind'
        /\ \A d \in Friends \ blind : Covers(file, d)
    BY <1>1, <2>1 DEF SerialsOK
  <2>3. ASSUME c \notin blind', NEW s \in used[c]
        PROVE  s \in Nat /\ s <= sn /\ s < sn + 1 /\ ini_gets(file, n) # Unset
    <3>1. Covers(file, c) /\ ~Overlooked(c)
      BY <1>1, <2>2, <2>3
    <3>2. ini_gets(file, n) # Unset
      BY <2>3, <3>1 DEF Covers, n
    <3>3. known[n] # Unread
      BY <1>a, <3>1, <3>2
    <3>4. ini_gets(file, n) = known[n]
      BY <1>2, <1>6, <2>1, <3>3 DEF Agrees, Agree
    <3>5. s <= ReadSerial(ini_gets(file, n)) /\ s \in Serials
      BY <2>3, <3>1 DEF Covers, n, SerialsOK
    <3>6. s <= sn
      BY <3>4, <3>5 DEF sn
    <3>7. s \in Nat
      BY <3>5 DEF Serials, TG_SN_MIN
    <3> QED
      BY <1>2, <3>2, <3>6, <3>7
  <2>4. ASSUME NEW d \in Friends \ blind', d # c
        PROVE  Covers(Settled, d)'
    <3>1. outgoing_sn(d) \in SettingNames \ {n}
      BY <2>4, NamesDiffer DEF n
    <3>2. ini_gets(Settled', outgoing_sn(d)) = ini_gets(file, outgoing_sn(d))
      BY <2>1, <3>1
    <3>3. Covers(file, d)
      BY <2>2
    <3> QED
      BY <1>1, <3>2, <3>3 DEF Covers
  <2>5. ASSUME c \notin blind' PROVE Covers(Settled, c)'
    <3>1. CASE ini_gets(file', n) = v
      <4>1. ini_gets(Settled', n) = v
        BY <2>1, <3>1
      <4>2. \A s \in used'[c] : s <= ReadSerial(ini_gets(Settled', n))
        BY <1>1, <1>2, <1>4, <2>3, <2>5, <4>1
      <4> QED
        BY <1>4, <4>1, <4>2 DEF Covers, n
    <3>2. CASE ini_gets(file', n) = ini_gets(file, n)
      <4>1. ini_gets(Settled', n) = ini_gets(file, n) /\ Covers(file, c)
        BY <2>1, <2>2, <2>5, <3>2
      <4> QED
        BY <1>1, <4>1 DEF Covers, n
    <3> QED
      BY <2>1, <3>1, <3>2
  <2>6. ASSUME c \notin blind', NEW s \in used'[c] PROVE s < ReadSerial(known'[n])
    BY <1>1, <1>4, <1>7, <2>3, <2>6
  <2>7. \A d \in Friends \ blind' : sending' = d =>
                   \A s \in used'[d] : s < ReadSerial(known'[outgoing_sn(d)])
    BY <1>1, <2>6 DEF n
  <2> QED
    BY <1>1, <2>2, <2>4, <2>5, <2>7
<1>10. SerialsOK'
  BY <1>1, <1>8, <1>9 DEF SerialsOK
<1> QED
  BY <1>5, <1>10

\* A step of the library puts the setting that is being put, or nothing.
LEMMA WorkingOK ==
    ASSUME FilesOK, CopyOK, CopyStep
    PROVE  /\ FilesOK' /\ CopyOK'
           /\ \/ /\ UNCHANGED <<file, put>>
                 /\ phase \in Copying /\ phase' \in Copying \cup {"close"}
              \/ /\ phase \in {"create", "close"} /\ Puts(file, Settled', put.name, put.value)
                 /\ phase = "create" => phase' = "idle"
                 /\ phase = "close" => phase' = "removed" /\ put' = put
              \/ phase = "removed" /\ phase' = "idle" /\ file' = temp
<1>1. CASE Created
  <2>1. /\ FilesOK' /\ CopyOK' /\ phase = "create" /\ phase' = "idle"
        /\ Puts(file, file', put.name, put.value)
    BY <1>1, CreatedOK
  <2> QED
    BY <2>1 DEF Settled
<1>2. CASE RemoveOld
  <2>1. /\ FilesOK' /\ CopyOK' /\ phase = "close" /\ phase' = "removed" /\ put' = put
        /\ temp' = temp /\ Puts(file, temp, put.name, put.value)
    BY <1>2, RemoveOldOK
  <2> QED
    BY <2>1 DEF Settled
<1>3. CASE Rename
  BY <1>3, RenameOK
<1>4. CASE \/ SkipLine \/ FoundSection \/ EnterSection \/ NoSection
           \/ KeepLine \/ NoEntry \/ WriteEntry \/ CopyRest \/ EndRest
  BY <1>4, CopyingOK
<1> QED
  BY <1>1, <1>2, <1>3, <1>4 DEF CopyStep

\* The settings the relay goes by, and its serials, while the library works.
LEMMA WorkingKeeps ==
    ASSUME CInv, Working
    PROVE  CInv'
<1>1. /\ FilesOK /\ CopyOK /\ Agrees /\ SerialsOK /\ CopyStep
      /\ UNCHANGED <<known, sending, used, reused, blind, mishaps>>
  BY DEF CInv, Working, historyVars
<1>2. FilesOK' /\ CopyOK'
  BY <1>1, WorkingOK
<1>3. CASE /\ UNCHANGED <<file, put>>
           /\ phase \in Copying /\ phase' \in Copying \cup {"close"}
  <2>1. phase \notin {"idle", "removed"} /\ phase' \notin {"idle", "removed"}
    BY <1>3 DEF Copying
  <2>2. Settled' = file /\ Settled = file
    BY <1>3, <2>1 DEF Settled
  <2>3. Agrees'
    BY <1>1, <1>3, <2>1 DEF Agrees, Agree
  <2>4. SerialsOK'
    BY <1>1, <1>3, <2>1, <2>2 DEF SerialsOK, Covers
  <2> QED
    BY <1>2, <2>3, <2>4 DEF CInv
<1>4. CASE /\ phase \in {"create", "close"} /\ Puts(file, Settled', put.name, put.value)
           /\ phase = "create" => phase' = "idle"
           /\ phase = "close" => phase' = "removed" /\ put' = put
  <2>1. /\ phase \notin {"idle", "removed"} /\ phase' \in {"idle", "removed"}
        /\ phase' # "idle" => put' = put
    BY <1>4
  <2>2. Settled = file /\ put.name \in SettingNames
    BY <1>1, <2>1 DEF Settled, FilesOK
  <2>3. /\ phase' = "idle" => file' = Settled'
        /\ phase' = "removed" => temp' = Settled'
    BY DEF Settled
  <2>a. ASSUME mishaps = 0 PROVE ini_gets(Settled', put.name) = known[put.name]
    BY <1>1, <1>4, <2>1, <2>a DEF Agrees, Puts
  <2>4. ASSUME mishaps = 0
        PROVE  \A n \in SettingNames : known[n] # Unread => ini_gets(Settled', n) = known[n]
    <3>1. \A n \in SettingNames \ {put.name} : known[n] # Unread => ini_gets(file, n) = known[n]
      BY <1>1, <2>1, <2>4 DEF Agrees, Agree
    <3>2. \A n \in SettingNames \ {put.name} : ini_gets(Settled', n) = ini_gets(file, n)
      BY <1>4, GetsByLine DEF Puts
    <3> QED
      BY <2>4, <2>a, <3>1, <3>2
  <2>5. Agrees'
    BY <1>1, <2>1, <2>3, <2>4 DEF Agrees, Agree
  <2>6. ASSUME mishaps = 0, NEW c \in Friends \ blind
        PROVE  Covers(Settled, c)'
    <3> DEFINE n == outgoing_sn(c)
    <3>1. n \in SettingNames
      BY NamesDiffer
    <3>2. CASE put.name = n
      <4>1. sending = c
        BY <1>1, <2>1, <2>6, <3>2 DEF SerialsOK
      <4>2. PICK s \in Serials : known[n] = Format(s)
        BY <1>1, <2>6, <4>1 DEF SerialsOK
      <4>3. ini_gets(Settled', n) = Format(s) /\ ReadSerial(Format(s)) = s /\ Format(s) # Unset
        BY <2>6, <2>a, <3>2, <4>2, SerialsRead
      <4>4. ASSUME NEW sn \in used[c] PROVE sn <= s
        <5>1. sn < s
          BY <1>1, <2>6, <4>1, <4>2, <4>3, <4>4 DEF SerialsOK
        <5>2. sn \in Serials
          BY <1>1, <2>6, <4>4 DEF SerialsOK
        <5> QED
          BY <5>1, <5>2 DEF Serials
      <4> QED
        BY <1>1, <4>3, <4>4 DEF Covers
    <3>3. CASE put.name # n
      <4>1. LineOf(Settled', n) = LineOf(file, n)
        BY <1>4, <3>1, <3>3 DEF Puts
      <4>2. ini_gets(Settled', n) = ini_gets(Settled, n)
        BY <2>2, <4>1, GetsByLine
      <4>3. Covers(Settled, c)
        BY <1>1, <2>6 DEF SerialsOK
      <4> QED
        BY <1>1, <4>2, <4>3 DEF Covers
    <3> QED
      BY <3>2, <3>3
  <2>7. SerialsOK'
    <3>1. \A c \in Friends : phase' # "idle" /\ put'.name = outgoing_sn(c) => sending' = c
      BY <1>1, <2>1 DEF SerialsOK
    <3> QED
      BY <1>1, <2>6, <3>1 DEF SerialsOK
  <2> QED
    BY <1>2, <2>5, <2>7 DEF CInv
<1>5. CASE phase = "removed" /\ phase' = "idle" /\ file' = temp
  <2>1. Settled' = Settled
    BY <1>5 DEF Settled
  <2>2. Agrees'
    BY <1>1, <1>5 DEF Agrees, Agree
  <2>3. SerialsOK'
    BY <1>1, <1>5, <2>1 DEF SerialsOK, Covers
  <2> QED
    BY <1>2, <2>2, <2>3 DEF CInv
<1> QED
  BY <1>1, <1>3, <1>4, <1>5, WorkingOK

\* After a mishap no more is claimed of the settings.
LEMMA AfterMishap ==
    ASSUME CInv, FilesOK', CopyOK', mishaps' = mishaps + 1,
           DOMAIN known' = SettingNames, UNCHANGED used,
           \/ sending' = None /\ phase' = "idle"
           \/ /\ UNCHANGED <<known, sending>>
              /\ phase' # "idle" => phase # "idle" /\ put' = put
    PROVE  CInv'
<1>1. mishaps' \in Nat /\ mishaps' # 0
  BY DEF CInv, Agrees
<1>2. Agrees'
  BY <1>1 DEF Agrees
<1>3. None \notin Friends
  BY ConfigAssumption DEF None
<1>4. SerialsOK'
  BY <1>1, <1>3 DEF CInv, SerialsOK
<1> QED
  BY <1>2, <1>4 DEF CInv

\* A step of the library that fails.
LEMMA FailingKeeps ==
    ASSUME CInv, Failing
    PROVE  CInv'
<1>1. /\ FilesOK /\ CopyOK /\ FailingStep /\ mishaps' = mishaps + 1
      /\ UNCHANGED <<known, sending, used>>
  BY DEF CInv, Failing, MayFail, historyVars
<1>2. DOMAIN known' = SettingNames
  BY <1>1 DEF CInv, Agrees
<1> QED
  BY <1>1, <1>2, FailingOK, AfterMishap

\* The telegram is queued under the serial that is in the file.
LEMMA QueuedOK ==
    ASSUME CInv, Queued
    PROVE  CInv'
<1> DEFINE c == sending
           n == outgoing_sn(c)
           sn == ReadSerial(known[n])
<1>1. /\ phase = "idle" /\ sending # None /\ sending' = None
      /\ reused' = IF sn \in used[c] THEN reused \cup {c} ELSE reused
      /\ used' = [used EXCEPT ![c] = @ \cup {sn}]
      /\ UNCHANGED <<iniVars, known, blind, mishaps>>
  BY DEF Queued, AtRest, Use
<1>2. FilesOK /\ CopyOK /\ Agrees /\ SerialsOK
  BY DEF CInv
<1>3. c \in Friends /\ n \in SettingNames
  BY <1>1, <1>2, NamesDiffer DEF SerialsOK
<1>a. sn \in Serials /\ known[n] = Format(sn)
  <2>1. PICK s \in Serials : known[n] = Format(s)
    BY <1>2, <1>3 DEF SerialsOK
  <2> QED
    BY <2>1, SerialsRead
<1>b. known[n] # Unset /\ known[n] # Unread
  BY <1>a, SerialsRead
<1>4. UNCHANGED <<file, temp, phase, put, rfp, mark, cachelen>>
  BY <1>1 DEF iniVars, copyVars
<1>5. FilesOK' /\ CopyOK'
  BY <1>1, <1>2, <1>4 DEF FilesOK, CopyOK, Phases, Copying
<1>6. Agrees'
  BY <1>1, <1>2, <1>4 DEF Agrees, Agree
<1>7. Settled = file /\ Settled' = file
  BY <1>1, <1>4 DEF Settled
<1>8. None \notin Friends
  BY ConfigAssumption DEF None
<1> HIDE DEF sn
<1>9. used' \in [Friends -> SUBSET Serials]
  BY <1>1, <1>2, <1>3, <1>a DEF SerialsOK
<1>10. ASSUME mishaps = 0
       PROVE  /\ reused' \subseteq blind
              /\ \A d \in Friends \ blind : Covers(Settled, d)'
  <2>1. /\ reused \subseteq blind
        /\ \A d \in Friends \ blind : Covers(file, d)
        /\ c \notin blind => \A s \in used[c] : s < sn
    BY <1>2, <1>3, <1>7, <1>10 DEF SerialsOK, sn
  <2>2. c \notin blind => sn \notin used[c]
    BY <1>a, <2>1 DEF Serials
  <2>3. ini_gets(file, n) = known[n]
    BY <1>1, <1>2, <1>3, <1>10, <1>b DEF Agrees, Agree
  <2>4. ReadSerial(ini_gets(file, n)) = sn /\ ini_gets(file, n) # Unset
    BY <1>b, <2>3 DEF sn
  <2>5. ASSUME NEW d \in Friends \ blind PROVE Covers(Settled, d)'
    <3>1. CASE d # c
      <4>1. used'[d] = used[d] /\ Covers(file, d)
        BY <1>1, <1>2, <2>1, <3>1 DEF SerialsOK
      <4> QED
        BY <1>7, <4>1 DEF Covers
    <3>2. CASE d = c
      <4>1. used'[c] = used[c] \cup {sn}
        BY <1>1, <1>2, <1>3 DEF SerialsOK
      <4>2. \A s \in used'[c] : s <= sn
        <5>1. \A s \in used[c] : s \in Serials /\ s < sn
          BY <1>2, <1>3, <2>1, <2>5, <3>2 DEF SerialsOK
        <5> QED
          BY <1>a, <4>1, <5>1 DEF Serials
      <4>3. /\ ini_gets(Settled', outgoing_sn(d)) # Unset
            /\ \A s \in used'[d] : s <= ReadSerial(ini_gets(Settled', outgoing_sn(d)))
        BY <1>7, <2>4, <3>2, <4>2
      <4> QED
        BY <4>3 DEF Covers
    <3> QED
      BY <3>1, <3>2
  <2> QED
    BY <1>1, <2>1, <2>2, <2>5
<1>11. SerialsOK'
  BY <1>1, <1>4, <1>8, <1>9, <1>10 DEF SerialsOK
<1> QED
  BY <1>5, <1>6, <1>11 DEF CInv

\* Settings are read again at rest.
LEMMA FriendRequestOK ==
    ASSUME CInv, NEW m, cb_friend_request(m)
    PROVE  CInv'
<1>1. /\ phase = "idle" /\ sending = None
      /\ UNCHANGED <<iniVars, sending, used, reused, blind>>
  BY DEF cb_friend_request, Ready, AtRest, historyVars
<1>2. FilesOK /\ CopyOK /\ Agrees /\ SerialsOK
  BY DEF CInv
<1>3. UNCHANGED <<file, temp, phase, put, rfp, mark, cachelen>>
  BY <1>1 DEF iniVars, copyVars
<1>4. FilesOK' /\ CopyOK'
  BY <1>1, <1>2, <1>3 DEF FilesOK, CopyOK, Phases, Copying
<1>5. CASE get_relay_name_list(m, known, TRUE) /\ UNCHANGED mishaps
  <2>1. /\ DOMAIN known' = SettingNames
        /\ \A n \in SettingNames : known'[n] = known[n] \/ known'[n] = ini_gets(file, n)
    BY <1>5 DEF get_relay_name_list
  <2>2. Agrees'
    BY <1>1, <1>2, <1>3, <1>5, <2>1 DEF Agrees, Agree
  <2>3. Settled' = Settled
    BY <1>3 DEF Settled
  <2>4. None \notin Friends
    BY ConfigAssumption DEF None
  <2>5. SerialsOK'
    BY <1>1, <1>2, <1>3, <1>5, <2>3, <2>4 DEF SerialsOK, Covers
  <2> QED
    BY <1>4, <2>2, <2>5 DEF CInv
<1>6. CASE get_relay_name_list(m, known, FALSE) /\ MayFail
  <2>1. DOMAIN known' = SettingNames /\ mishaps' = mishaps + 1
    BY <1>6 DEF get_relay_name_list, MayFail
  <2>2. sending' = None /\ phase' = "idle" /\ UNCHANGED used
    BY <1>1, <1>3
  <2> QED
    BY <1>4, <2>1, <2>2, AfterMishap
<1> QED
  BY <1>5, <1>6 DEF cb_friend_request

\* A start reads the file as the last process left it.
LEMMA RestartedOK ==
    ASSUME CInv, NEW m, Restarted(m)
    PROVE  CInv'
<1>1. Stopped /\ sending' = None /\ UNCHANGED <<used, reused, blind>>
  BY DEF Restarted, historyVars
<1>2. FilesOK /\ CopyOK /\ Agrees /\ SerialsOK
  BY DEF CInv
<1>3. FilesOK' /\ CopyOK' /\ phase' = "idle" /\ file' = file
  BY <1>1, <1>2, StoppedOK
<1>4. DOMAIN known' = SettingNames
  BY DEF Restarted, get_relay_name_list
<1>5. CASE mishaps' = mishaps + 1
  BY <1>1, <1>3, <1>4, <1>5, AfterMishap
<1>6. CASE /\ get_relay_name_list(m, NothingRead, TRUE)
           /\ phase # "removed" /\ mishaps' = mishaps
  <2>1. \A n \in SettingNames : known'[n] # Unread => known'[n] = ini_gets(file, n)
    BY <1>6 DEF get_relay_name_list, NothingRead
  <2>2. Agrees'
    BY <1>2, <1>3, <1>4, <1>6, <2>1 DEF Agrees, Agree
  <2>3. Settled' = Settled
    BY <1>3, <1>6 DEF Settled
  <2>4. None \notin Friends
    BY ConfigAssumption DEF None
  <2>5. SerialsOK'
    BY <1>1, <1>2, <1>3, <1>6, <2>3, <2>4 DEF SerialsOK, Covers
  <2> QED
    BY <1>3, <2>2, <2>5 DEF CInv
<1> QED
  BY <1>5, <1>6 DEF Restarted, MayFail

\* Any setting but a serial that is sent.
LEMMA OtherKept ==
    ASSUME CInv, NEW n \in SettingNames, NEW v \in Seq(Text), Keep(n, v),
           \A c \in Friends : n # outgoing_sn(c), UNCHANGED <<sending, historyVars>>
    PROVE  CInv'
<1>1. /\ FilesOK /\ CopyOK /\ Agrees /\ SerialsOK /\ mishaps \in Nat
      /\ UNCHANGED <<sending, used, reused, blind>>
  BY DEF CInv, Agrees, historyVars
<1>2. FilesOK' /\ CopyOK'
  BY <1>1, KeepOK
<1>3. Agrees'
  BY <1>1, KeepAgrees
<1>4. SerialsOK'
  BY <1>1, OtherSerials
<1> QED
  BY <1>2, <1>3, <1>4 DEF CInv

\* At first there is no file and no setting.
LEMMA ConfigStarts ==
    ASSUME ConfigInit
    PROVE  CInv
<1>1. /\ file = Missing /\ temp = Missing /\ phase = "idle" /\ sending = None
      /\ used = [c \in Friends |-> {}] /\ reused = {} /\ blind = {} /\ mishaps = 0
  BY DEF ConfigInit, IniInit
<1>2. /\ DOMAIN known = SettingNames
      /\ \A n \in SettingNames : known[n] # Unread => known[n] = Unset
  BY DEF ConfigInit
<1>3. FilesOK /\ CopyOK
  BY <1>1 DEF FilesOK, CopyOK, Phases, Copying
<1>4. \A n : ini_gets(file, n) = Unset
  BY <1>1, NoLines DEF ini_gets
<1>5. Agrees
  BY <1>1, <1>2, <1>4 DEF Agrees, Agree
<1>6. None \notin Friends
  BY ConfigAssumption DEF None
<1>7. SerialsOK
  BY <1>1, <1>6 DEF SerialsOK, Covers
<1> QED
  BY <1>3, <1>5, <1>7 DEF CInv

\* Every step preserves the invariant.
LEMMA ConfigStep ==
    ASSUME CInv, [ConfigNext]_configVars
    PROVE  CInv'
<1>1. CASE \E c \in Friends : Typed(c)
  BY <1>1, TypedSerials DEF CInv
<1>2. ASSUME NEW c \in Writers, Hello(c) PROVE CInv'
  <2>1. Keep(meta_chat_flag(c), <<"1">>) /\ UNCHANGED <<sending, historyVars>>
    BY <1>2 DEF Hello
  <2>2. /\ meta_chat_flag(c) \in SettingNames /\ <<"1">> \in Seq(Text)
        /\ \A d \in Friends : meta_chat_flag(c) # outgoing_sn(d)
    BY NamesDiffer, ValuesOK
  <2> QED
    BY <2>1, <2>2, OtherKept, Zenon
<1>3. ASSUME NEW c \in Writers, NEW sn \in Serials, relay_remember_serial(c, sn) PROVE CInv'
  <2>1. Keep(incoming_sn(c), Format(sn)) /\ UNCHANGED <<sending, historyVars>>
    BY <1>3 DEF relay_remember_serial
  <2> QED
    BY <2>1, NamesDiffer, ValuesOK, OtherKept
<1>4. ASSUME NEW token \in BoundedSeq(KeySymbols, KeyLength), set_relayer_public_key(token)
      PROVE  CInv'
  <2>1. Keep(relay_public_key, token) /\ UNCHANGED <<sending, historyVars>>
    BY <1>4 DEF set_relayer_public_key
  <2> QED
    BY <2>1, NamesDiffer, ValuesOK, OtherKept
<1>5. CASE Queued
  BY <1>5, QueuedOK
<1>6. ASSUME NEW m, cb_friend_request(m) PROVE CInv'
  BY <1>6, FriendRequestOK
<1>7. CASE Working
  BY <1>7, WorkingKeeps
<1>8. CASE Failing
  BY <1>8, FailingKeeps
<1>9. ASSUME NEW m, Restarted(m) PROVE CInv'
  BY <1>9, RestartedOK
<1>10. CASE UNCHANGED configVars
  <2>1. /\ UNCHANGED <<file, temp, phase, put, rfp, mark, cachelen>>
        /\ UNCHANGED <<known, sending, used, reused, blind, mishaps>>
    BY <1>10 DEF configVars, iniVars, copyVars, historyVars
  <2>2. FilesOK'
    BY <2>1 DEF CInv, FilesOK
  <2>3. Cached' = Cached /\ Out' = Out /\ section' = section /\ Settled' = Settled
    BY <2>1 DEF Cached, Out, section, Settled
  <2>4. CopyOK'
    BY <2>1, <2>3 DEF CInv, CopyOK
  <2>5. Agrees'
    BY <2>1 DEF CInv, Agrees, Agree
  <2>6. SerialsOK'
    BY <2>1, <2>3 DEF CInv, SerialsOK, Covers
  <2> QED
    BY <2>2, <2>4, <2>5, <2>6 DEF CInv
<1> QED
  BY <1>1, <1>2, <1>3, <1>4, <1>5, <1>6, <1>7, <1>8, <1>9, <1>10 DEF ConfigNext

-----------------------------------------------------------------------------
(* The theorems about the relay and its file *)

\* Every reachable state satisfies the inductive invariant: what is copied, what
\* the relay goes by and what is in its file fit together at every step of every
\* call of ini_puts (ini_puts and its callers in src/toxrelayer.c), whichever
\* calls to the system fail and however many friends' settings each start reads.
THEOREM ConfigInvariance == ConfigSpec => []CInv
<1>1. ConfigInit => CInv
  BY ConfigStarts
<1>2. CInv /\ [ConfigNext]_configVars => CInv'
  BY ConfigStep
<1> QED
  BY <1>1, <1>2, PTL DEF ConfigSpec

\* What the next start reads is what the relay goes by, if it has read it, for
\* every value that can be entered, unless a call to the system failed or
\* close_rename was interrupted.
THEOREM SettingsKept == ConfigSpec => []NothingForgotten
<1>1. CInv => NothingForgotten
  BY DEF CInv, Agrees, Agree, NothingForgotten, Ready, AtRest
<1> QED
  BY <1>1, ConfigInvariance, PTL

\* No two telegrams to a friend's number carry the same serial within a lap,
\* however often the relay is killed while ini_puts runs, unless a call to the
\* system failed, close_rename was interrupted, or a line was typed while the
\* kept serial was not read (get_relay_name_list reads for the friends there are).
THEOREM SerialsFresh == ConfigSpec => []SerialsNotReused
<1>1. CInv => SerialsNotReused
  BY DEF CInv, SerialsOK, SerialsNotReused
<1> QED
  BY <1>1, ConfigInvariance, PTL

-----------------------------------------------------------------------------
(* The promise of the library *)

\* The store stays as it is.
LEMMA StoreStays ==
    ASSUME \A n \in SettingNames : LineOf(Settled', n) = LineOf(Settled, n),
           UNCHANGED mishaps
    PROVE  UNCHANGED Promise!settingsVars
BY DEF Promise!settingsVars

\* One setting changes.
LEMMA StoreChanges ==
    ASSUME NEW n \in SettingNames, UNCHANGED mishaps,
           \A m \in SettingNames \ {n} : LineOf(Settled', m) = LineOf(Settled, m)
    PROVE  Promise!SettingsNext
<1>1. Promise!Put(n)
  BY DEF Promise!Put
<1> QED
  BY <1>1 DEF Promise!SettingsNext

\* A mishap costs nothing or everything.
LEMMA StoreSuffers ==
    ASSUME mishaps' = mishaps + 1,
           \/ \A n \in SettingNames : LineOf(Settled', n) = LineOf(Settled, n)
           \/ \A n \in SettingNames : LineOf(Settled', n) = Unset
    PROVE  Promise!SettingsNext
<1>1. Promise!Mishap
  BY DEF Promise!Mishap
<1> QED
  BY <1>1 DEF Promise!SettingsNext

\* A call puts its setting, if it does so at once.
LEMMA KeepPromised ==
    ASSUME FilesOK, CopyOK, mishaps \in Nat,
           NEW n \in SettingNames, NEW v \in Seq(Text), Keep(n, v)
    PROVE  Promise!SettingsNext \/ UNCHANGED Promise!settingsVars
<1>1. /\ phase = "idle" /\ phase' \in {"idle", "create", "section"}
      /\ \/ (\A m : LineOf(file', m) = LineOf(file, m)) /\ mishaps' = mishaps
         \/ Puts(file, file', n, v) /\ mishaps' = mishaps
         \/ (\A m : LineOf(file', m) = LineOf(file, m)) /\ mishaps' = mishaps + 1
         \/ (\A m : LineOf(file', m) = Unset) /\ mishaps' = mishaps + 1
  BY KeepOK
<1>2. Settled = file /\ Settled' = file'
  BY <1>1 DEF Settled
<1>3. CASE Puts(file, file', n, v) /\ mishaps' = mishaps
  BY <1>2, <1>3, StoreChanges DEF Puts
<1>4. CASE (\A m : LineOf(file', m) = LineOf(file, m)) /\ mishaps' = mishaps
  BY <1>2, <1>4, StoreStays
<1>5. CASE (\A m : LineOf(file', m) = LineOf(file, m)) /\ mishaps' = mishaps + 1
  BY <1>2, <1>5, StoreSuffers
<1>6. CASE (\A m : LineOf(file', m) = Unset) /\ mishaps' = mishaps + 1
  BY <1>2, <1>6, StoreSuffers
<1> QED
  BY <1>1, <1>3, <1>4, <1>5, <1>6

\* Every step is one the promise allows, or none to the store.
LEMMA SettingsStep ==
    ASSUME CInv, [ConfigNext]_configVars
    PROVE  Promise!SettingsNext \/ UNCHANGED Promise!settingsVars
<1>1. FilesOK /\ CopyOK /\ mishaps \in Nat
  BY DEF CInv, Agrees
<1>2. ASSUME NEW c \in Friends, Typed(c)
      PROVE  Promise!SettingsNext \/ UNCHANGED Promise!settingsVars
  <2> DEFINE sn == ReadSerial(known[outgoing_sn(c)])
  <2>1. Keep(outgoing_sn(c), Format(tg_sn_next(sn))) /\ sn < TG_SN_MAX
    BY <1>2 DEF Typed
  <2>2. sn \in Serials \cup {0}
    BY SerialsRead
  <2> HIDE DEF sn
  <2>3. tg_sn_next(sn) \in Serials
    BY <2>1, <2>2, NextSerial
  <2>4. outgoing_sn(c) \in SettingNames /\ Format(tg_sn_next(sn)) \in Seq(Text)
    BY <2>3, NamesDiffer, ValuesOK
  <2> QED
    BY <1>1, <2>1, <2>4, KeepPromised, Zenon
<1>3. ASSUME NEW c \in Writers, Hello(c)
      PROVE  Promise!SettingsNext \/ UNCHANGED Promise!settingsVars
  <2>1. Keep(meta_chat_flag(c), <<"1">>)
    BY <1>3 DEF Hello
  <2>2. meta_chat_flag(c) \in SettingNames /\ <<"1">> \in Seq(Text)
    BY NamesDiffer, ValuesOK
  <2> QED
    BY <1>1, <2>1, <2>2, KeepPromised, Zenon
<1>4. ASSUME NEW c \in Writers, NEW sn \in Serials, relay_remember_serial(c, sn)
      PROVE  Promise!SettingsNext \/ UNCHANGED Promise!settingsVars
  <2>1. Keep(incoming_sn(c), Format(sn))
    BY <1>4 DEF relay_remember_serial
  <2>2. incoming_sn(c) \in SettingNames /\ Format(sn) \in Seq(Text)
    BY NamesDiffer, ValuesOK
  <2> QED
    BY <1>1, <2>1, <2>2, KeepPromised, Zenon
<1>5. ASSUME NEW token \in BoundedSeq(KeySymbols, KeyLength), set_relayer_public_key(token)
      PROVE  Promise!SettingsNext \/ UNCHANGED Promise!settingsVars
  <2>1. Keep(relay_public_key, token)
    BY <1>5 DEF set_relayer_public_key
  <2>2. relay_public_key \in SettingNames /\ token \in Seq(Text)
    BY NamesDiffer, ValuesOK
  <2> QED
    BY <1>1, <2>1, <2>2, KeepPromised, Zenon
<1>6. ASSUME UNCHANGED iniVars, mishaps' = mishaps \/ mishaps' = mishaps + 1
      PROVE  Promise!SettingsNext \/ UNCHANGED Promise!settingsVars
  <2>1. Settled' = Settled
    BY <1>6 DEF iniVars, Settled
  <2> QED
    BY <1>6, <2>1, StoreStays, StoreSuffers
<1>7. ASSUME CopyStep, UNCHANGED mishaps
      PROVE  Promise!SettingsNext \/ UNCHANGED Promise!settingsVars
  <2>1. CASE UNCHANGED file /\ phase \in Copying /\ phase' \in Copying \cup {"close"}
    <3>1. phase # "removed" /\ phase' # "removed"
      BY <2>1 DEF Copying
    <3>2. Settled' = Settled
      BY <2>1, <3>1 DEF Settled
    <3> QED
      BY <1>7, <3>2, StoreStays
  <2>2. CASE phase \in {"create", "close"} /\ Puts(file, Settled', put.name, put.value)
    <3>1. Settled = file /\ put.name \in SettingNames
      BY <1>1, <2>2 DEF Settled, FilesOK
    <3> QED
      BY <1>7, <2>2, <3>1, StoreChanges DEF Puts
  <2>3. CASE phase = "removed" /\ phase' = "idle" /\ file' = temp
    <3>1. Settled' = Settled
      BY <2>3 DEF Settled
    <3> QED
      BY <1>7, <3>1, StoreStays
  <2> QED
    BY <1>1, <1>7, <2>1, <2>2, <2>3, WorkingOK
<1>8. ASSUME Failing
      PROVE  Promise!SettingsNext \/ UNCHANGED Promise!settingsVars
  <2>1. mishaps' = mishaps + 1 /\ (Settled' = Settled \/ Settled' \in {Missing, <<>>})
    BY <1>1, <1>8, FailingOK DEF Failing, MayFail
  <2>2. \/ \A n \in SettingNames : LineOf(Settled', n) = LineOf(Settled, n)
        \/ \A n \in SettingNames : LineOf(Settled', n) = Unset
    BY <2>1, NoLines
  <2> QED
    BY <2>1, <2>2, StoreSuffers
<1>9. ASSUME NEW m, Restarted(m)
      PROVE  Promise!SettingsNext \/ UNCHANGED Promise!settingsVars
  <2>1. phase' = "idle" /\ file' = file
    BY <1>1, <1>9, StoppedOK DEF Restarted
  <2>2. Settled' = file
    BY <2>1 DEF Settled
  <2>3. CASE phase = "removed"
    <3>1. file = Missing /\ mishaps' = mishaps + 1
      BY <1>1, <1>9, <2>3 DEF FilesOK, Restarted
    <3>2. \A n \in SettingNames : LineOf(Settled', n) = Unset
      BY <2>2, <3>1, NoLines
    <3> QED
      BY <3>1, <3>2, StoreSuffers
  <2>4. CASE phase # "removed"
    <3>1. Settled' = Settled
      BY <2>2, <2>4 DEF Settled
    <3>2. mishaps' = mishaps \/ mishaps' = mishaps + 1
      BY <1>9, <2>4 DEF Restarted, MayFail
    <3> QED
      BY <3>1, <3>2, StoreStays, StoreSuffers
  <2> QED
    BY <2>3, <2>4
<1>10. /\ Queued => UNCHANGED <<iniVars, mishaps>>
       /\ \A m : cb_friend_request(m) =>
             UNCHANGED iniVars /\ (mishaps' = mishaps \/ mishaps' = mishaps + 1)
       /\ UNCHANGED configVars => UNCHANGED <<iniVars, mishaps>>
       /\ Working => CopyStep /\ UNCHANGED mishaps
  BY DEF Queued, cb_friend_request, MayFail, configVars, Working
<1> QED
  BY <1>2, <1>3, <1>4, <1>5, <1>6, <1>7, <1>8, <1>9, <1>10 DEF ConfigNext

\* The INI library as the relay uses it (ini_puts, ini_gets, the cache, the short
\* cuts, close_rename) implements the store its callers rely on: a write changes
\* its own setting only, at one moment; what a failing call to the system, or a
\* kill between the delete and the rename, costs is nothing or the whole store.
THEOREM ConfigImplements == ConfigSpec => ImplementsSettings
<1>1. ConfigInit => Promise!SettingsInit
  <2>1. SUFFICES ASSUME ConfigInit PROVE Promise!SettingsInit
    OBVIOUS
  <2>2. file = Missing /\ phase = "idle" /\ mishaps = 0
    BY <2>1 DEF ConfigInit, IniInit
  <2>3. \A n : LineOf(Settled, n) = Unset
    BY <2>2, NoLines DEF Settled
  <2> QED
    BY <2>2, <2>3 DEF Promise!SettingsInit
<1>2. CInv /\ [ConfigNext]_configVars => [Promise!SettingsNext]_(Promise!settingsVars)
  BY SettingsStep
<1> QED
  BY <1>1, <1>2, ConfigInvariance, PTL DEF ConfigSpec, ImplementsSettings, Promise!SettingsSpec

=============================================================================
