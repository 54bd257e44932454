--------------------------- MODULE ConsoleProofs ----------------------------
(***************************************************************************)
(* Proofs about the wire format and the console, for every capacity of a   *)
(* field, a body and a line, every terminator, every set of channels and   *)
(* of blocked senders, every keyboard and every length of a line.          *)
(*                                                                         *)
(* First the codec: what the decoder's lines are, by induction over the    *)
(* text; that the closing line of a body that was accepted is found where  *)
(* the encoder put it; that line ends and what follows the closing line do *)
(* not change the answer.  Then the command line, by induction over the    *)
(* turns of the loop that takes it apart.  Then the console: a typed line  *)
(* strays to nobody but a friend that wrote while it was typed, its peer   *)
(* can read it, and commands get their arguments as they were written.     *)
(***************************************************************************)
EXTENDS Console, FiniteSetTheorems, SequenceTheorems, WellFoundedInduction, TLAPS

-----------------------------------------------------------------------------
(* Least numbers and induction *)

\* A set of natural numbers has a least member.
LEMMA LeastNatural ==
    ASSUME NEW S \in SUBSET Nat, S # {}
    PROVE  \E c \in S : \A d \in S : c <= d
<1>1. \E c \in S : \A d \in S : ~(<<d, c>> \in OpToRel(<, Nat))
  BY NatLessThanWellFounded, WFMin
<1>2. PICK c \in S : \A d \in S : ~(<<d, c>> \in OpToRel(<, Nat))
  BY <1>1
<1>3. \A d \in S : ~(d < c)
  BY <1>2 DEF OpToRel
<1> QED
  BY <1>3

\* Strong induction, over the set of the numbers for which the claim holds.
LEMMA Descent ==
    ASSUME NEW S, \A n \in Nat : (\A m \in 0 .. n - 1 : m \in S) => n \in S
    PROVE  \A n \in Nat : n \in S
<1> DEFINE Bad == {n \in Nat : n \notin S}
<1>1. SUFFICES ASSUME Bad # {} PROVE FALSE
  OBVIOUS
<1>2. PICK c \in Bad : \A d \in Bad : c <= d
  <2>1. Bad \in SUBSET Nat
    OBVIOUS
  <2> HIDE DEF Bad
  <2> QED
    BY <1>1, <2>1, LeastNatural
<1>3. \A m \in 0 .. c - 1 : m \in S
  BY <1>2
<1> QED
  BY <1>2, <1>3

\* Min finds the least of some natural numbers.
LEMMA MinOK ==
    ASSUME NEW S \in SUBSET Nat, S # {}
    PROVE  Min(S) \in S /\ \A d \in S : Min(S) <= d
<1>1. \E c \in S : \A d \in S : c <= d
  BY LeastNatural
<1> QED
  BY <1>1 DEF Min

-----------------------------------------------------------------------------
(* Where a line ends *)

\* The symbols that end a line.
Breaks == {LF, CR}

\* Some symbols without an end of line.
Unbroken(l) == \A i \in 1 .. Len(l) : l[i] \notin Breaks

\* The line that starts at p ends at e.
EndsAt(raw, p, e) ==
    /\ e \in p .. Len(raw) + 1
    /\ \A q \in p .. e - 1 : raw[q] \notin Breaks
    /\ e <= Len(raw) => raw[e] \in Breaks

\* EndOfLine finds the one position at which it does.
LEMMA EndOfLineOK ==
    ASSUME NEW A, NEW raw \in Seq(A), NEW p \in 1 .. Len(raw) + 1
    PROVE  /\ EndsAt(raw, p, EndOfLine(raw, p))
           /\ \A e : EndsAt(raw, p, e) => EndOfLine(raw, p) = e
<1> DEFINE B == {q \in Positions(raw, {LF, CR}) : q >= p}
           K == Len(raw)
<1>0. K \in Nat
  OBVIOUS
<1>1. B \in SUBSET Nat /\ \A q : q \in B <=> q \in p .. K /\ raw[q] \in Breaks
  <2>1. \A q : q \in B <=> q \in 1 .. K /\ raw[q] \in Breaks /\ q >= p
    BY DEF Positions, Breaks
  <2> HIDE DEF B, K
  <2> QED
    BY <1>0, <2>1 DEF K
<1>2. EndOfLine(raw, p) = IF B = {} THEN K + 1 ELSE Min(B)
  BY DEF EndOfLine
<1> HIDE DEF B
<1>3. EndsAt(raw, p, EndOfLine(raw, p))
  <2>1. CASE B = {}
    <3>1. EndOfLine(raw, p) = K + 1
      BY <1>2, <2>1
    <3> HIDE DEF K
    <3>2. K + 1 \in p .. K + 1 /\ ~(K + 1 <= K)
      BY <1>0 DEF K
    <3>3. \A q \in p .. (K + 1) - 1 : raw[q] \notin Breaks
      BY <1>0, <1>1, <2>1
    <3> QED
      BY <3>1, <3>2, <3>3 DEF EndsAt, K
  <2>2. CASE B # {}
    <3>1. EndOfLine(raw, p) \in B /\ \A d \in B : EndOfLine(raw, p) <= d
      BY <1>1, <1>2, <2>2, MinOK
    <3> QED
      BY <1>0, <1>1, <3>1 DEF EndsAt
  <2> QED
    BY <2>1, <2>2
<1>4. ASSUME NEW d, NEW e, EndsAt(raw, p, d), EndsAt(raw, p, e), d < e PROVE FALSE
  <2>1. d \in p .. e - 1 /\ d <= K
    BY <1>0, <1>4 DEF EndsAt
  <2> QED
    BY <1>4, <2>1 DEF EndsAt
<1>5. ASSUME NEW e, EndsAt(raw, p, e) PROVE EndOfLine(raw, p) = e
  <2>1. e \in Nat /\ EndOfLine(raw, p) \in Nat
    BY <1>0, <1>3, <1>5 DEF EndsAt
  <2>2. ~(e < EndOfLine(raw, p)) /\ ~(EndOfLine(raw, p) < e)
    BY <1>3, <1>4, <1>5, Zenon
  <2> QED
    BY <2>1, <2>2
<1> QED
  BY <1>3, <1>5

\* The next line starts behind.
LEMMA AfterLineOK ==
    ASSUME NEW A, NEW raw \in Seq(A), NEW p \in 1 .. Len(raw)
    PROVE  AfterLine(raw, p) \in p + 1 .. Len(raw) + 1
<1> DEFINE K == Len(raw)
           e == EndOfLine(raw, p)
           lf == IF e <= K /\ raw[e] = CR THEN e + 1 ELSE e
<1>0. K \in Nat /\ p \in 1 .. K + 1 /\ p \in 1 .. K
  OBVIOUS
<1>1. EndsAt(raw, p, e)
  BY EndOfLineOK
<1>2. e \in p .. K + 1 /\ (e <= K => raw[e] \in {LF, CR})
  BY <1>1 DEF EndsAt, Breaks
<1>3. AfterLine(raw, p) = IF lf <= K /\ raw[lf] = LF THEN lf + 1 ELSE lf
  BY DEF AfterLine
<1> HIDE DEF K, e
<1> QED
  BY <1>0, <1>2, <1>3 DEF K

-----------------------------------------------------------------------------
(* The lines of a text *)

\* What has the lines of raw from every position on.
ReadFrom(raw, from) ==
    /\ \A p \in 1 .. Len(raw) :
          from[p] = <<tg_next_line(raw, p)>> \o from[AfterLine(raw, p)]
    /\ from[Len(raw) + 1] = <<>>

\* Lines reads the text line by line: the recursive definition has a meaning.
LEMMA LinesDef ==
    ASSUME NEW A, NEW raw \in Seq(A)
    PROVE  \E from : ReadFrom(raw, from) /\ Lines(raw) = from[1]
<1> DEFINE K == Len(raw)
           Step(g, p) == IF p > K THEN <<>>
                         ELSE <<tg_next_line(raw, p)>> \o g[AfterLine(raw, p)]
           F(k, g) == [p \in k .. K + 1 |-> Step(g, p)]
           S == {n \in Nat : n <= K => \E g : g = F(K + 1 - n, g)}
<1>0. K \in Nat
  OBVIOUS
<1>a. \A p \in 1 .. K : AfterLine(raw, p) \in p + 1 .. K + 1
  BY AfterLineOK
<1>1. ASSUME NEW n \in Nat, \A m \in 0 .. n - 1 : m \in S PROVE n \in S
  <2> SUFFICES ASSUME n <= K PROVE \E g : g = F(K + 1 - n, g)
    OBVIOUS
  <2> DEFINE k == K + 1 - n
  <2>0. k \in 1 .. K + 1
    <3> HIDE DEF K
    <3> QED
      BY <1>0
  <2>1. CASE n = 0
    <3> DEFINE h == [p \in k .. K + 1 |-> <<>>]
    <3>1. k = K + 1
      <4> HIDE DEF K
      <4> QED
        BY <1>0, <2>1
    <3>2. ASSUME NEW p \in k .. K + 1 PROVE Step(h, p) = <<>>
      <4>1. p > K
        <5> HIDE DEF K, k
        <5> QED
          BY <1>0, <3>1
      <4> HIDE DEF K
      <4> QED
        BY <4>1
    <3>3. h = F(k, h)
      <4> HIDE DEF Step, K, k
      <4> QED
        BY <3>2
    <3> QED
      BY <3>3
  <2>2. CASE n # 0
    <3>1. n - 1 \in 0 .. n - 1 /\ n - 1 <= K /\ K + 1 - (n - 1) = k + 1 /\ k \in 1 .. K
      <4> HIDE DEF K
      <4> QED
        BY <1>0, <2>2
    <3>2. PICK g : g = F(k + 1, g)
      <4>1. n - 1 \in S
        BY <1>1, <3>1
      <4> HIDE DEF F, K
      <4> QED
        BY <3>1, <4>1
    <3> DEFINE h == [p \in k .. K + 1 |-> IF p = k THEN Step(g, k) ELSE g[p]]
    <3>3. \A p \in k + 1 .. K + 1 : g[p] = Step(g, p) /\ h[p] = g[p]
      <4> HIDE DEF Step, K, k
      <4>1. \A p \in k + 1 .. K + 1 : g[p] = Step(g, p)
        BY <3>2
      <4>2. \A p \in k + 1 .. K + 1 : p \in k .. K + 1 /\ p # k
        BY <1>0, <2>0
      <4>3. \A p \in k + 1 .. K + 1 : h[p] = g[p]
        BY <4>2
      <4> QED
        BY <4>1, <4>3
    <3>4. ASSUME NEW p \in k .. K + 1 PROVE Step(h, p) = Step(g, p)
      <4>1. CASE p > K
        BY <4>1
      <4>2. CASE ~(p > K)
        <5>1. p \in 1 .. K
          <6> HIDE DEF K, k
          <6> QED
            BY <1>0, <2>0, <4>2
        <5>2. AfterLine(raw, p) \in k + 1 .. K + 1
          <6>1. AfterLine(raw, p) \in p + 1 .. K + 1
            BY <1>a, <5>1
          <6> HIDE DEF K, k
          <6> QED
            BY <1>0, <2>0, <3>4, <6>1
        <5>3. h[AfterLine(raw, p)] = g[AfterLine(raw, p)]
          BY <3>3, <5>2
        <5> HIDE DEF h, K
        <5> QED
          BY <4>2, <5>3
      <4> QED
        BY <4>1, <4>2
    <3>5. ASSUME NEW p \in k .. K + 1 PROVE h[p] = Step(h, p)
      <4>1. CASE p = k
        <5>1. h[p] = Step(g, p)
          <6> HIDE DEF Step
          <6> QED
            BY <4>1
        <5> QED
          BY <3>4, <5>1
      <4>2. CASE p # k
        <5>1. p \in k + 1 .. K + 1
          <6> HIDE DEF K, k
          <6> QED
            BY <1>0, <2>0, <4>2
        <5> QED
          BY <3>3, <3>4, <5>1
      <4> QED
        BY <4>1, <4>2
    <3>6. h = F(k, h)
      <4> DEFINE hh == h
      <4>1. DOMAIN hh = k .. K + 1 /\ hh = [p \in k .. K + 1 |-> hh[p]]
        <5> HIDE DEF Step, K, k
        <5> QED
          OBVIOUS
      <4>2. \A p \in k .. K + 1 : hh[p] = Step(hh, p)
        BY <3>5
      <4> HIDE DEF hh, Step, K, k
      <4>3. hh = F(k, hh)
        BY <4>1, <4>2
      <4> QED
        BY <4>3 DEF hh
    <3> QED
      BY <3>6
  <2> QED
    BY <2>1, <2>2
<1>2. \A n \in Nat : n \in S
  <2> HIDE DEF S
  <2> QED
    BY <1>1, Descent
<1>3. K + 1 - K = 1 /\ K <= K
  <2> HIDE DEF K
  <2> QED
    BY <1>0
<1>4. PICK g : g = F(1, g)
  <2>1. K \in S
    BY <1>0, <1>2
  <2> HIDE DEF F, K
  <2> QED
    BY <1>3, <2>1
<1> DEFINE r == CHOOSE f : f = F(1, f)
<1>5. r = F(1, r)
  <2> HIDE DEF F
  <2> QED
    BY <1>4
<1>6. Lines(raw) = r[1]
  BY DEF Lines
<1> HIDE DEF r
<1>7. \A p \in 1 .. K + 1 : r[p] = Step(r, p)
  <2> HIDE DEF Step, K
  <2> QED
    BY <1>5
<1>8. r[K + 1] = <<>>
  <2> HIDE DEF K
  <2>1. K + 1 \in 1 .. K + 1 /\ K + 1 > K
    BY <1>0
  <2> QED
    BY <1>7, <2>1
<1>9. \A p \in 1 .. K : r[p] = <<tg_next_line(raw, p)>> \o r[AfterLine(raw, p)]
  <2> HIDE DEF K
  <2>1. \A p \in 1 .. K : p \in 1 .. K + 1 /\ ~(p > K)
    BY <1>0
  <2> QED
    BY <1>7, <2>1
<1> QED
  BY <1>6, <1>8, <1>9 DEF ReadFrom

\* A text behind another.
LEMMA Behind ==
    ASSUME NEW A, NEW a \in Seq(A), NEW t \in Seq(A)
    PROVE  /\ a \o t \in Seq(A) /\ Len(a) \in Nat /\ Len(t) \in Nat
           /\ Len(a \o t) = Len(a) + Len(t)
           /\ \A i \in 1 .. Len(a) : (a \o t)[i] = a[i]
           /\ \A i \in 1 .. Len(t) : (a \o t)[Len(a) + i] = t[i]
<1>1. /\ a \o t \in Seq(A) /\ Len(a) \in Nat /\ Len(t) \in Nat
      /\ Len(a \o t) = Len(a) + Len(t)
  BY ConcatProperties
<1>2. \A i \in 1 .. Len(a) + Len(t) :
         (a \o t)[i] = IF i <= Len(a) THEN a[i] ELSE t[i - Len(a)]
  BY ConcatProperties
<1> DEFINE K == Len(a)
           M == Len(t)
           r == a \o t
<1>3. K \in Nat /\ M \in Nat /\ \A i \in 1 .. K + M : r[i] = IF i <= K THEN a[i] ELSE t[i - K]
  BY <1>1, <1>2
<1> HIDE DEF K, M, r
<1>4. \A i \in 1 .. K : r[i] = a[i]
  BY <1>3
<1>5. ASSUME NEW i \in 1 .. M PROVE r[K + i] = t[i]
  <2>1. K + i \in 1 .. K + M /\ ~(K + i <= K) /\ (K + i) - K = i
    BY <1>3
  <2> QED
    BY <1>3, <2>1
<1> QED
  BY <1>1, <1>4, <1>5 DEF K, M, r

\* Part of a text.
LEMMA PartOf ==
    ASSUME NEW A, NEW s \in Seq(A), NEW m \in 1 .. Len(s) + 1, NEW n \in m - 1 .. Len(s)
    PROVE  /\ SubSeq(s, m, n) \in Seq(A)
           /\ Len(SubSeq(s, m, n)) = n - m + 1
           /\ \A i \in 1 .. n - m + 1 : SubSeq(s, m, n)[i] = s[m + i - 1]
<1>1. /\ \A i \in m .. n : s[i] \in A
      /\ m \in Int /\ n \in Int
  OBVIOUS
<1>2. /\ SubSeq(s, m, n) \in Seq(A)
      /\ Len(SubSeq(s, m, n)) = IF m <= n THEN n - m + 1 ELSE 0
      /\ \A i \in 1 .. n - m + 1 : SubSeq(s, m, n)[i] = s[m + i - 1]
  BY <1>1, SubSeqProperties
<1>3. (IF m <= n THEN n - m + 1 ELSE 0) = n - m + 1
  OBVIOUS
<1> QED
  BY <1>2, <1>3, Zenon

\* Two texts with the same symbols.
LEMMA SameText ==
    ASSUME NEW A, NEW s \in Seq(A), NEW t \in Seq(A), Len(s) = Len(t),
           \A i \in 1 .. Len(s) : s[i] = t[i]
    PROVE  s = t
BY SeqEqual

\* One text after another.
Then(s, t) == s \o t

\* Texts can be joined in any order.
LEMMA ThenOK ==
    ASSUME NEW A
    PROVE  /\ \A h, r \in Seq(A) : Then(h, r) \in Seq(A)
           /\ \A h, r, k \in Seq(A) : Then(Then(h, r), k) = Then(h, Then(r, k))
<1>1. ASSUME NEW h \in Seq(A), NEW r \in Seq(A) PROVE Then(h, r) \in Seq(A)
  BY ConcatProperties DEF Then
<1>2. ASSUME NEW h \in Seq(A), NEW r \in Seq(A), NEW k \in Seq(A)
      PROVE  Then(Then(h, r), k) = Then(h, Then(r, k))
  BY ConcatAssociative DEF Then
<1> QED
  BY <1>1, <1>2

\* A line is read in the same way whatever stands in front of it.
LEMMA LineShift ==
    ASSUME NEW A, NEW a \in Seq(A), NEW t \in Seq(A), NEW p \in 1 .. Len(t)
    PROVE  /\ tg_next_line(a \o t, Len(a) + p) = tg_next_line(t, p)
           /\ AfterLine(a \o t, Len(a) + p) = Len(a) + AfterLine(t, p)
           /\ EndOfLine(a \o t, Len(a) + p) = Len(a) + EndOfLine(t, p)
<1> DEFINE raw == a \o t
           K == Len(a)
           M == Len(t)
           e == EndOfLine(t, p)
<1>1. /\ raw \in Seq(A) /\ K \in Nat /\ M \in Nat /\ Len(raw) = K + M
      /\ \A i \in 1 .. M : raw[K + i] = t[i]
  BY Behind
<1>2. EndsAt(t, p, e)
  BY EndOfLineOK
<1>3. p \in 1 .. M /\ e \in p .. M + 1
  BY <1>2 DEF EndsAt
<1> HIDE DEF raw, K, M, e
<1>4. EndsAt(raw, K + p, K + e)
  <2>1. K + e \in K + p .. (K + M) + 1
    BY <1>1, <1>3
  <2>2. ASSUME NEW q \in K + p .. (K + e) - 1 PROVE raw[q] \notin Breaks
    <3>1. q - K \in p .. e - 1 /\ q - K \in 1 .. M /\ K + (q - K) = q
      BY <1>1, <1>3
    <3>2. raw[q] = t[q - K] /\ t[q - K] \notin Breaks
      BY <1>1, <1>2, <3>1 DEF EndsAt
    <3> QED
      BY <3>2
  <2>3. ASSUME K + e <= K + M PROVE raw[K + e] \in Breaks
    <3>1. e \in 1 .. M /\ e <= Len(t)
      BY <1>1, <1>3, <2>3 DEF M
    <3> QED
      BY <1>1, <1>2, <3>1 DEF EndsAt
  <2> QED
    BY <1>1, <2>1, <2>2, <2>3 DEF EndsAt
<1>5. EndOfLine(raw, K + p) = K + e
  <2>1. K + p \in 1 .. Len(raw) + 1
    BY <1>1, <1>3
  <2> QED
    BY <1>1, <1>4, <2>1, EndOfLineOK
<1>6. tg_next_line(raw, K + p) = tg_next_line(t, p)
  <2> DEFINE cut == IF e - p > LineSize - 1 THEN p + LineSize - 1 ELSE e
             far == IF (K + e) - (K + p) > LineSize - 1 THEN (K + p) + LineSize - 1 ELSE K + e
  <2>1. far = K + cut /\ cut \in p .. M + 1
    BY <1>1, <1>3, TelegramAssumption
  <2>2. tg_next_line(t, p) = [text |-> SubSeq(t, p, cut - 1), complete |-> cut = e]
    BY DEF tg_next_line, e
  <2>3. tg_next_line(raw, K + p) = [text |-> SubSeq(raw, K + p, far - 1), complete |-> far = K + e]
    BY <1>5 DEF tg_next_line
  <2> HIDE DEF cut, far
  <2>4. (far = K + e) = (cut = e)
    BY <1>1, <1>3, <2>1
  <2>5. SubSeq(raw, K + p, far - 1) = SubSeq(t, p, cut - 1)
    <3> DEFINE u == SubSeq(raw, K + p, far - 1)
               v == SubSeq(t, p, cut - 1)
    <3>1. /\ p \in 1 .. Len(t) + 1 /\ cut - 1 \in p - 1 .. Len(t)
          /\ K + p \in 1 .. Len(raw) + 1 /\ far - 1 \in (K + p) - 1 .. Len(raw)
      BY <1>1, <1>3, <2>1 DEF M
    <3>2. /\ v \in Seq(A) /\ Len(v) = (cut - 1) - p + 1
          /\ \A i \in 1 .. (cut - 1) - p + 1 : v[i] = t[p + i - 1]
      BY <3>1, PartOf
    <3>3. /\ u \in Seq(A) /\ Len(u) = (far - 1) - (K + p) + 1
          /\ \A i \in 1 .. (far - 1) - (K + p) + 1 : u[i] = raw[(K + p) + i - 1]
      <4>1. /\ raw \in Seq(A) /\ K + p \in 1 .. Len(raw) + 1
            /\ far - 1 \in (K + p) - 1 .. Len(raw)
        BY <1>1, <3>1
      <4> QED
        BY <4>1, PartOf
    <3> HIDE DEF u, v
    <3>4. (far - 1) - (K + p) + 1 = (cut - 1) - p + 1 /\ (cut - 1) - p + 1 = cut - p
      BY <1>1, <1>3, <2>1
    <3>5. ASSUME NEW i \in 1 .. cut - p PROVE u[i] = v[i]
      <4>1. p + i - 1 \in 1 .. M /\ (K + p) + i - 1 = K + (p + i - 1)
        BY <1>1, <1>3, <2>1
      <4>2. u[i] = raw[K + (p + i - 1)] /\ v[i] = t[p + i - 1]
        BY <3>2, <3>3, <3>4, <4>1
      <4> QED
        BY <1>1, <4>1, <4>2
    <3>6. u = v
      BY <3>2, <3>3, <3>4, <3>5, SameText
    <3> QED
      BY <3>6 DEF u, v
  <2> QED
    BY <2>2, <2>3, <2>4, <2>5
<1>7. AfterLine(raw, K + p) = K + AfterLine(t, p)
  <2> DEFINE lf == IF e <= M /\ t[e] = CR THEN e + 1 ELSE e
             far == IF K + e <= K + M /\ raw[K + e] = CR THEN (K + e) + 1 ELSE K + e
  <2>1. AfterLine(t, p) = IF lf <= M /\ t[lf] = LF THEN lf + 1 ELSE lf
    BY DEF AfterLine, e, M
  <2>2. AfterLine(raw, K + p) = IF far <= K + M /\ raw[far] = LF THEN far + 1 ELSE far
    BY <1>1, <1>5 DEF AfterLine
  <2>3. far = K + lf /\ lf \in 1 .. M + 2
    <3>1. e \in 1 .. M + 1 /\ (K + e <= K + M <=> e <= M) /\ (K + e) + 1 = K + (e + 1)
      BY <1>1, <1>3
    <3>2. e <= M => raw[K + e] = t[e]
      BY <1>1, <3>1
    <3>3. far = K + lf
      BY <3>1, <3>2, Zenon
    <3>4. lf \in 1 .. M + 2
      BY <1>1, <3>1
    <3> QED
      BY <3>3, <3>4
  <2> HIDE DEF lf, far
  <2>4. (far <= K + M /\ raw[far] = LF) <=> (lf <= M /\ t[lf] = LF)
    BY <1>1, <2>3
  <2> QED
    BY <1>1, <2>1, <2>2, <2>3, <2>4
<1> QED
  BY <1>5, <1>6, <1>7 DEF raw, K, e

\* So are all the lines that follow.
LEMMA ShiftFrom ==
    ASSUME NEW A, NEW a \in Seq(A), NEW t \in Seq(A), NEW f, NEW g,
           ReadFrom(a \o t, f), ReadFrom(t, g)
    PROVE  \A p \in 1 .. Len(t) + 1 : f[Len(a) + p] = g[p]
<1> DEFINE K == Len(a)
           M == Len(t)
           S == {n \in Nat : n <= M => f[K + (M + 1 - n)] = g[M + 1 - n]}
<1>1. K \in Nat /\ M \in Nat /\ Len(a \o t) = K + M
  BY Behind
<1>2. ASSUME NEW n \in Nat, \A m \in 0 .. n - 1 : m \in S PROVE n \in S
  <2> SUFFICES ASSUME n <= M PROVE f[K + (M + 1 - n)] = g[M + 1 - n]
    OBVIOUS
  <2> DEFINE p == M + 1 - n
  <2>1. CASE n = 0
    <3>1. f[(K + M) + 1] = <<>> /\ g[M + 1] = <<>>
      BY <1>1 DEF ReadFrom
    <3> HIDE DEF K, M
    <3>2. K + (M + 1 - n) = (K + M) + 1 /\ M + 1 - n = M + 1
      BY <1>1, <2>1
    <3> QED
      BY <3>1, <3>2
  <2>2. CASE n # 0
    <3>1. p \in 1 .. M /\ K + p \in 1 .. K + M
      <4> HIDE DEF K, M
      <4> QED
        BY <1>1, <2>2
    <3> DEFINE after == AfterLine(t, p)
               m == M + 1 - after
    <3>2. after \in p + 1 .. M + 1
      BY <3>1, AfterLineOK
    <3>3. f[K + p] = <<tg_next_line(a \o t, K + p)>> \o f[AfterLine(a \o t, K + p)]
      BY <1>1, <3>1 DEF ReadFrom
    <3>4. g[p] = <<tg_next_line(t, p)>> \o g[after]
      BY <3>1 DEF ReadFrom
    <3>5. /\ tg_next_line(a \o t, K + p) = tg_next_line(t, p)
          /\ AfterLine(a \o t, K + p) = K + after
      BY <3>1, LineShift
    <3> HIDE DEF after
    <3>6. f[K + after] = g[after]
      <4>1. m \in 0 .. n - 1 /\ m \in Nat /\ m <= M /\ M + 1 - m = after
        <5> HIDE DEF M
        <5> QED
          BY <1>1, <3>1, <3>2
      <4>2. m \in S
        BY <1>2, <4>1
      <4> HIDE DEF K, M, m
      <4> QED
        BY <4>1, <4>2
    <3> HIDE DEF K, p
    <3>7. f[K + p] = g[p]
      BY <3>3, <3>4, <3>5, <3>6, Zenon
    <3> QED
      BY <3>7 DEF p
  <2> QED
    BY <2>1, <2>2
<1>3. \A n \in Nat : n \in S
  <2> HIDE DEF S
  <2> QED
    BY <1>2, Descent
<1>4. ASSUME NEW p \in 1 .. M + 1 PROVE f[K + p] = g[p]
  <2> DEFINE n == M + 1 - p
  <2>1. n \in Nat /\ n <= M /\ M + 1 - n = p
    <3> HIDE DEF M
    <3> QED
      BY <1>1
  <2>2. n \in S
    BY <1>3, <2>1
  <2> HIDE DEF K, M, n
  <2> QED
    BY <2>1, <2>2
<1> QED
  BY <1>4

\* The first line, and then the others.
LEMMA LinesStep ==
    ASSUME NEW A, NEW a \in Seq(A), NEW t \in Seq(A), a # <<>>,
           AfterLine(a \o t, 1) = Len(a) + 1
    PROVE  Lines(a \o t) = <<tg_next_line(a \o t, 1)>> \o Lines(t)
<1>1. a \o t \in Seq(A) /\ 1 \in 1 .. Len(a \o t) /\ 1 \in 1 .. Len(t) + 1
  <2>1. a \o t \in Seq(A) /\ Len(a) \in Nat /\ Len(t) \in Nat /\ Len(a \o t) = Len(a) + Len(t)
    BY Behind
  <2>2. Len(a) # 0
    OBVIOUS
  <2> DEFINE K == Len(a)
             M == Len(t)
             n == Len(a \o t)
  <2>3. K \in Nat /\ M \in Nat /\ K # 0 /\ n = K + M
    BY <2>1, <2>2
  <2> HIDE DEF K, M, n
  <2>4. 1 \in 1 .. n /\ 1 \in 1 .. M + 1
    BY <2>3
  <2> QED
    BY <2>1, <2>4 DEF M, n
<1>2. PICK f : ReadFrom(a \o t, f) /\ Lines(a \o t) = f[1]
  BY <1>1, LinesDef
<1>3. PICK g : ReadFrom(t, g) /\ Lines(t) = g[1]
  BY LinesDef
<1>4. f[Len(a) + 1] = g[1]
  BY <1>1, <1>2, <1>3, ShiftFrom
<1>5. f[1] = <<tg_next_line(a \o t, 1)>> \o f[Len(a) + 1]
  BY <1>1, <1>2 DEF ReadFrom
<1> QED
  BY <1>2, <1>3, <1>4, <1>5, Zenon

\* No text has no lines.
LEMMA LinesNone == Lines(<<>>) = <<>>
<1>1. <<>> \in Seq({}) /\ Len(<<>>) = 0
  OBVIOUS
<1>2. PICK f : ReadFrom(<<>>, f) /\ Lines(<<>>) = f[1]
  BY <1>1, LinesDef
<1>3. f[0 + 1] = <<>>
  BY <1>1, <1>2 DEF ReadFrom
<1> QED
  BY <1>2, <1>3

-----------------------------------------------------------------------------
(* Lines that are known *)

\* A line as the decoder's buffer has it.
Cut(l) ==
    [text     |-> SubSeq(l, 1, IF Len(l) > LineSize - 1 THEN LineSize - 1 ELSE Len(l)),
     complete |-> Len(l) <= LineSize - 1]

\* A line that fits is not cut.
LEMMA Uncut ==
    ASSUME NEW A, NEW l \in Seq(A)
    PROVE  /\ Cut(l).text \in Seq(A) /\ Len(Cut(l).text) <= Len(l)
           /\ Len(l) < LineSize => Cut(l) = [text |-> l, complete |-> TRUE]
           /\ Len(Cut(l).text) = Len(l) => Cut(l).text = l
<1> DEFINE K == Len(l)
           n == IF K > LineSize - 1 THEN LineSize - 1 ELSE K
           u == SubSeq(l, 1, n)
<1>1. K \in Nat /\ 1 \in 1 .. K + 1
  <2>1. K \in Nat
    OBVIOUS
  <2> HIDE DEF K
  <2> QED
    BY <2>1
<1>2. n \in 1 - 1 .. K /\ (K < LineSize => n = K /\ K <= LineSize - 1)
  <2> HIDE DEF K
  <2> QED
    BY <1>1, TelegramAssumption
<1>3. Cut(l) = [text |-> u, complete |-> K <= LineSize - 1]
  BY DEF Cut
<1>4. /\ u \in Seq(A) /\ Len(u) = n - 1 + 1
      /\ \A i \in 1 .. n - 1 + 1 : u[i] = l[1 + i - 1]
  <2> HIDE DEF n
  <2> QED
    BY <1>1, <1>2, PartOf
<1> HIDE DEF n, u
<1>5. Len(u) = n /\ \A i \in 1 .. n : u[i] = l[i]
  <2>1. n - 1 + 1 = n /\ \A i \in 1 .. n : 1 + i - 1 = i
    BY <1>1, <1>2
  <2> QED
    BY <1>4, <2>1
<1>6. n = K => u = l
  BY <1>4, <1>5, SameText
<1>7. K < LineSize => (K <= LineSize - 1) = TRUE
  BY <1>2
<1>8. n <= K
  <2> HIDE DEF K
  <2> QED
    BY <1>1, <1>2
<1>9. Cut(l).text = u
  BY <1>3
<1>10. ASSUME K < LineSize PROVE Cut(l) = [text |-> l, complete |-> TRUE]
  BY <1>2, <1>3, <1>6, <1>7, <1>10
<1> HIDE DEF K
<1> QED
  BY <1>4, <1>5, <1>6, <1>8, <1>9, <1>10 DEF K

\* The lines of a text over some symbols.
LineOver(A) == [text : Seq(A), complete : BOOLEAN]

\* A line in the buffer is a line.
LEMMA CutOver ==
    ASSUME NEW A, NEW l \in Seq(A)
    PROVE  Cut(l) \in LineOver(A)
<1>1. Cut(l).text \in Seq(A)
  BY Uncut
<1> QED
  BY <1>1 DEF Cut, LineOver

\* What is known of a line that ends at e.
LEMMA LineTo ==
    ASSUME NEW A, NEW l \in Seq(A), NEW t \in Seq(A),
           EndOfLine(l \o t, 1) = Len(l) + 1
    PROVE  tg_next_line(l \o t, 1) = Cut(l)
<1> DEFINE raw == l \o t
           K == Len(l)
           n == IF K > LineSize - 1 THEN LineSize - 1 ELSE K
           cut == IF (K + 1) - 1 > LineSize - 1 THEN 1 + LineSize - 1 ELSE K + 1
           u == SubSeq(raw, 1, n)
           v == SubSeq(l, 1, n)
<1>1. /\ raw \in Seq(A) /\ K \in Nat /\ Len(raw) \in Nat /\ K <= Len(raw)
      /\ \A i \in 1 .. K : raw[i] = l[i]
  <2>1. Len(t) \in Nat /\ Len(raw) = K + Len(t) /\ K \in Nat
    BY Behind
  <2>2. K <= K + Len(t) /\ K + Len(t) \in Nat
    <3> DEFINE M == Len(t)
    <3> HIDE DEF K, M
    <3>1. M \in Nat /\ K \in Nat => K <= K + M /\ K + M \in Nat
      OBVIOUS
    <3> QED
      BY <2>1, <3>1 DEF M
  <2> QED
    BY <2>1, <2>2, Behind
<1>2. tg_next_line(raw, 1) = [text |-> SubSeq(raw, 1, cut - 1), complete |-> cut = K + 1]
  BY DEF tg_next_line
<1>3. Cut(l) = [text |-> v, complete |-> K <= LineSize - 1]
  BY DEF Cut
<1> HIDE DEF K, raw
<1>4. /\ cut - 1 = n /\ (cut = K + 1) = (K <= LineSize - 1)
      /\ n \in 1 - 1 .. K /\ n \in 1 - 1 .. Len(raw) /\ n - 1 + 1 = n /\ n \in Nat
      /\ 1 \in 1 .. K + 1 /\ 1 \in 1 .. Len(raw) + 1
  BY <1>1, TelegramAssumption
<1> HIDE DEF n, cut
<1>5. u \in Seq(A) /\ Len(u) = n /\ \A i \in 1 .. n : u[i] = raw[1 + i - 1]
  BY <1>1, <1>4, PartOf
<1>6. v \in Seq(A) /\ Len(v) = n /\ \A i \in 1 .. n : v[i] = l[1 + i - 1]
  BY <1>1, <1>4, PartOf DEF K
<1> HIDE DEF u, v
<1>7. ASSUME NEW i \in 1 .. n PROVE u[i] = v[i]
  <2>1. 1 + i - 1 = i /\ i \in 1 .. K
    BY <1>1, <1>4
  <2> QED
    BY <1>1, <1>5, <1>6, <2>1
<1>8. u = v
  BY <1>5, <1>6, <1>7, SameText
<1> QED
  BY <1>2, <1>3, <1>4, <1>8 DEF u, raw

\* A line that ends in x, and what follows it.
LEMMA LinesBreak ==
    ASSUME NEW A, NEW l \in Seq(A), NEW x \in A, NEW t \in Seq(A),
           Unbroken(l), x \in Breaks, x = CR => t = <<>> \/ t[1] # LF
    PROVE  Lines((l \o <<x>>) \o t) = <<Cut(l)>> \o Lines(t)
<1> DEFINE a == l \o <<x>>
           raw == a \o t
           K == Len(l)
           M == Len(t)
<1>1. <<x>> \in Seq(A) /\ Len(<<x>>) = 1 /\ <<x>>[1] = x /\ 1 \in 1 .. 1
  OBVIOUS
<1>2. /\ a \in Seq(A) /\ K \in Nat /\ Len(a) = K + 1
      /\ \A i \in 1 .. K : a[i] = l[i]
      /\ a[K + 1] = x
  BY <1>1, Behind
<1>3. /\ raw \in Seq(A) /\ M \in Nat /\ Len(raw) = (K + 1) + M
      /\ \A i \in 1 .. K + 1 : raw[i] = a[i]
      /\ \A i \in 1 .. M : raw[(K + 1) + i] = t[i]
  BY <1>2, Behind
<1>4. raw = l \o (<<x>> \o t) /\ <<x>> \o t \in Seq(A)
  BY <1>1, ConcatAssociative, ConcatProperties
<1>5. M = 0 => t = <<>>
  OBVIOUS
<1>6. M = 0 <=> t = <<>>
  OBVIOUS
<1> HIDE DEF a, raw, K, M
<1>7. EndsAt(raw, 1, K + 1)
  <2>1. K + 1 \in 1 .. ((K + 1) + M) + 1
    BY <1>2, <1>3
  <2>2. \A q \in 1 .. (K + 1) - 1 : q \in 1 .. K /\ q \in 1 .. K + 1
    BY <1>2
  <2>3. \A q \in 1 .. (K + 1) - 1 : raw[q] \notin Breaks
    BY <1>2, <1>3, <2>2 DEF Unbroken, K
  <2>4. raw[K + 1] = x
    <3>1. K + 1 \in 1 .. K + 1
      BY <1>2
    <3> QED
      BY <1>2, <1>3, <3>1
  <2> QED
    BY <1>3, <2>1, <2>3, <2>4 DEF EndsAt
<1>8. EndOfLine(raw, 1) = K + 1
  <2>1. 1 \in 1 .. Len(raw) + 1
    BY <1>2, <1>3
  <2> QED
    BY <1>3, <1>7, <2>1, EndOfLineOK
<1>9. AfterLine(raw, 1) = Len(a) + 1
  <2> DEFINE lf == IF K + 1 <= Len(raw) /\ raw[K + 1] = CR THEN (K + 1) + 1 ELSE K + 1
  <2>1. AfterLine(raw, 1) = IF lf <= Len(raw) /\ raw[lf] = LF THEN lf + 1 ELSE lf
    BY <1>8 DEF AfterLine
  <2>2. K + 1 <= (K + 1) + M /\ K + 1 \in 1 .. K + 1
    BY <1>2, <1>3
  <2>3. raw[K + 1] = x
    BY <1>2, <1>3, <2>2
  <2>4. CASE x = CR
    <3>1. lf = (K + 1) + 1
      BY <1>3, <2>2, <2>3, <2>4
    <3>2. ~(lf <= Len(raw) /\ raw[lf] = LF)
      <4>1. CASE M = 0
        <5>1. ~((K + 1) + 1 <= (K + 1) + M)
          BY <1>2, <4>1
        <5> QED
          BY <1>3, <3>1, <5>1
      <4>2. CASE M # 0
        <5>1. 1 \in 1 .. M
          BY <1>3, <4>2
        <5>2. raw[(K + 1) + 1] = t[1]
          BY <1>3, <5>1
        <5> QED
          BY <1>6, <2>4, <3>1, <4>2, <5>2
      <4> QED
        BY <4>1, <4>2
    <3> QED
      BY <1>2, <2>1, <3>1, <3>2
  <2>5. CASE x = LF
    <3>1. lf = K + 1
      BY <2>3, <2>5 DEF LF, CR
    <3>2. lf <= Len(raw) /\ raw[lf] = LF
      BY <1>3, <2>2, <2>3, <2>5, <3>1
    <3> QED
      BY <1>2, <2>1, <3>1, <3>2
  <2> QED
    BY <2>4, <2>5 DEF Breaks
<1>10. a # <<>>
  <2>1. Len(a) # 0
    BY <1>2
  <2> QED
    BY <2>1
<1>11. tg_next_line(raw, 1) = Cut(l)
  BY <1>4, <1>8, LineTo DEF K
<1>12. Lines(a \o t) = <<tg_next_line(a \o t, 1)>> \o Lines(t)
  BY <1>2, <1>9, <1>10, LinesStep DEF raw
<1> QED
  BY <1>11, <1>12 DEF raw, a

-----------------------------------------------------------------------------
(* Ends of texts *)

\* s ends in t when the close symbols of s are those of t.
LEMMA SuffixOK ==
    ASSUME NEW A, NEW s \in Seq(A), NEW t \in Seq(A)
    PROVE  IsSuffix(t, s) <=> /\ Len(t) <= Len(s)
                              /\ \A i \in 1 .. Len(t) : s[Len(s) - Len(t) + i] = t[i]
<1> DEFINE K == Len(s)
           M == Len(t)
           rs == [i \in 1 .. K |-> s[(K - i) + 1]]
           rt == [i \in 1 .. M |-> t[(M - i) + 1]]
<1>1. K \in Nat /\ M \in Nat
  OBVIOUS
<1>2. (\A i \in 1 .. K : s[i] \in A) /\ (\A i \in 1 .. M : t[i] \in A)
  OBVIOUS
<1>3. Reverse(s) = rs /\ Reverse(t) = rt
  BY DEF Reverse
<1> HIDE DEF K, M
<1>4. /\ \A i \in 1 .. K : (K - i) + 1 \in 1 .. K
      /\ \A i \in 1 .. M : (M - i) + 1 \in 1 .. M
  BY <1>1
<1>5. rs \in Seq(A) /\ Len(rs) = K /\ rt \in Seq(A) /\ Len(rt) = M
  <2>1. (\A i \in 1 .. K : rs[i] \in A) /\ (\A i \in 1 .. M : rt[i] \in A)
    BY <1>2, <1>4
  <2> QED
    BY <1>1, <2>1
<1>6. /\ \A i \in 1 .. K : rs[i] = s[(K - i) + 1]
      /\ \A i \in 1 .. M : rt[i] = t[(M - i) + 1]
  OBVIOUS
<1> HIDE DEF rs, rt
<1>7. IsSuffix(t, s) <=> M <= K /\ SubSeq(rt, 1, M) = SubSeq(rs, 1, M)
  BY <1>3, <1>5 DEF IsSuffix, IsPrefix
<1>8. ASSUME M <= K
      PROVE  /\ SubSeq(rt, 1, M) \in Seq(A) /\ SubSeq(rs, 1, M) \in Seq(A)
             /\ Len(SubSeq(rt, 1, M)) = M /\ Len(SubSeq(rs, 1, M)) = M
             /\ \A i \in 1 .. M : SubSeq(rt, 1, M)[i] = rt[i] /\ SubSeq(rs, 1, M)[i] = rs[i]
  <2>1. /\ 1 \in 1 .. K + 1 /\ 1 \in 1 .. M + 1 /\ M \in 1 - 1 .. M /\ M \in 1 - 1 .. K
        /\ M - 1 + 1 = M /\ \A i \in 1 .. M : 1 + i - 1 = i
    BY <1>1, <1>8
  <2>2. /\ SubSeq(rt, 1, M) \in Seq(A) /\ Len(SubSeq(rt, 1, M)) = M
        /\ \A i \in 1 .. M : SubSeq(rt, 1, M)[i] = rt[1 + i - 1]
    BY <1>5, <2>1, PartOf
  <2>3. /\ SubSeq(rs, 1, M) \in Seq(A) /\ Len(SubSeq(rs, 1, M)) = M
        /\ \A i \in 1 .. M : SubSeq(rs, 1, M)[i] = rs[1 + i - 1]
    BY <1>5, <2>1, PartOf
  <2> QED
    BY <2>1, <2>2, <2>3
<1>9. ASSUME M <= K, SubSeq(rt, 1, M) = SubSeq(rs, 1, M), NEW i \in 1 .. M
      PROVE  s[K - M + i] = t[i]
  <2> DEFINE j == (M - i) + 1
  <2>1. j \in 1 .. M /\ j \in 1 .. K /\ (M - j) + 1 = i /\ (K - j) + 1 = K - M + i
    BY <1>1, <1>9
  <2>2. rt[j] = rs[j]
    BY <1>8, <1>9, <2>1
  <2>3. rt[j] = t[(M - j) + 1] /\ rs[j] = s[(K - j) + 1]
    BY <1>6, <2>1
  <2> QED
    BY <2>1, <2>2, <2>3
<1>10. ASSUME M <= K, \A i \in 1 .. M : s[K - M + i] = t[i]
       PROVE  SubSeq(rt, 1, M) = SubSeq(rs, 1, M)
  <2>1. ASSUME NEW i \in 1 .. M PROVE rt[i] = rs[i]
    <3> DEFINE j == (M - i) + 1
    <3>1. j \in 1 .. M /\ i \in 1 .. K /\ K - M + j = (K - i) + 1
      BY <1>1, <1>10
    <3>2. rt[i] = t[j] /\ rs[i] = s[(K - i) + 1]
      BY <1>6, <3>1
    <3> QED
      BY <1>10, <3>1, <3>2
  <2> QED
    BY <1>8, <1>10, <2>1, SameText
<1> QED
  BY <1>7, <1>9, <1>10 DEF K, M

\* The terminator is a text of one symbol, again and again.
LEMMA TerminatorOK ==
    ASSUME NEW A, N \in A
    PROVE  /\ TG_TERMINATOR \in Seq(A) /\ Len(TG_TERMINATOR) = TerminatorLength
           /\ \A i \in 1 .. TerminatorLength : TG_TERMINATOR[i] = N
           /\ TerminatorLength \in Nat \ {0} /\ 1 \in 1 .. TerminatorLength
           /\ Unbroken(TG_TERMINATOR)
           /\ Cut(TG_TERMINATOR) = [text |-> TG_TERMINATOR, complete |-> TRUE]
<1>1. TerminatorLength \in Nat \ {0} /\ TerminatorLength < LineSize
  BY TelegramAssumption
<1>2. \A i \in 1 .. TerminatorLength : TG_TERMINATOR[i] = N
  BY DEF TG_TERMINATOR
<1>3. TG_TERMINATOR \in Seq(A) /\ Len(TG_TERMINATOR) = TerminatorLength
  BY <1>1 DEF TG_TERMINATOR
<1>4. N \notin Breaks
  BY DEF N, Breaks, LF, CR
<1>5. Unbroken(TG_TERMINATOR)
  BY <1>2, <1>3, <1>4 DEF Unbroken
<1>6. Cut(TG_TERMINATOR) = [text |-> TG_TERMINATOR, complete |-> TRUE]
  BY <1>1, <1>3, Uncut
<1> QED
  BY <1>1, <1>2, <1>3, <1>5, <1>6

\* A line that ends in the terminator.
LEMMA TerminatesOK ==
    ASSUME NEW A, N \in A, NEW l \in Seq(A)
    PROVE  IsSuffix(TG_TERMINATOR, l) <=>
              /\ TerminatorLength <= Len(l)
              /\ \A i \in 1 .. TerminatorLength : l[Len(l) - TerminatorLength + i] = N
<1>1. /\ TG_TERMINATOR \in Seq(A) /\ Len(TG_TERMINATOR) = TerminatorLength
      /\ \A i \in 1 .. TerminatorLength : TG_TERMINATOR[i] = N
  BY TerminatorOK
<1>2. IsSuffix(TG_TERMINATOR, l) <=>
              /\ TerminatorLength <= Len(l)
              /\ \A i \in 1 .. TerminatorLength : l[Len(l) - TerminatorLength + i] = TG_TERMINATOR[i]
  <2> DEFINE T == TG_TERMINATOR
  <2>1. IsSuffix(T, l) <=> /\ Len(T) <= Len(l)
                           /\ \A i \in 1 .. Len(T) : l[Len(l) - Len(T) + i] = T[i]
    <3>1. T \in Seq(A)
      BY <1>1
    <3> HIDE DEF T
    <3> QED
      BY <3>1, SuffixOK
  <2> QED
    BY <1>1, <2>1, Zenon
<1> QED
  BY <1>1, <1>2

\* The closing line is the first that ends in the terminator.
LEMMA SelectOK ==
    ASSUME NEW B, NEW lines \in Seq(B)
    PROVE  LET close == SelectInSeq(lines, Terminates) IN
           /\ close \in 0 .. Len(lines)
           /\ close = 0 <=> \A i \in 1 .. Len(lines) : ~Terminates(lines[i])
           /\ close # 0 => Terminates(lines[close]) /\ \A i \in 1 .. close - 1 : ~Terminates(lines[i])
<1> DEFINE K == Len(lines)
           I == {i \in 1 .. K : Terminates(lines[i])}
           close == SelectInSeq(lines, Terminates)
<1>1. K \in Nat
  OBVIOUS
<1>2. close = IF I # {} THEN Min(I) ELSE 0
  BY DEF SelectInSeq
<1> HIDE DEF K
<1>3. I \in SUBSET Nat
  BY <1>1
<1>4. \A i : i \in I <=> i \in 1 .. K /\ Terminates(lines[i])
  OBVIOUS
<1> HIDE DEF I, close
<1>5. CASE I = {}
  BY <1>1, <1>2, <1>4, <1>5 DEF close, K
<1>6. CASE I # {}
  <2>1. close \in I /\ \A d \in I : close <= d
    BY <1>2, <1>3, <1>6, MinOK
  <2>2. close \in 1 .. K /\ Terminates(lines[close])
    BY <1>4, <2>1
  <2>3. ASSUME NEW i \in 1 .. close - 1 PROVE ~Terminates(lines[i])
    <3>1. i \in 1 .. K /\ ~(close <= i)
      BY <1>1, <2>2
    <3> QED
      BY <1>4, <2>1, <3>1
  <2>4. close \in 0 .. K /\ close # 0
    BY <1>1, <2>2
  <2> QED
    BY <2>2, <2>3, <2>4 DEF close, K
<1> QED
  BY <1>5, <1>6

-----------------------------------------------------------------------------
(* Texts joined *)

\* What has the first texts of s joined.
Joins(s, f) ==
    \A i \in 1 .. Len(s) : f[i] = IF i = 1 THEN s[i] ELSE f[i - 1] \o s[i]

\* FlattenSeq joins texts: the recursive definition has a meaning.
LEMMA FlattenDef ==
    ASSUME NEW B, NEW s \in Seq(B), s # <<>>
    PROVE  \E f : Joins(s, f) /\ FlattenSeq(s) = f[Len(s)]
<1> DEFINE K == Len(s)
           Step(g, i) == IF i = 1 THEN s[i] ELSE g[i - 1] \o s[i]
           F(n, g) == [i \in 1 .. n |-> Step(g, i)]
           S == {n \in Nat : \E g : g = F(n, g)}
<1>1. K \in Nat /\ K # 0
  OBVIOUS
<1>2. ASSUME NEW n \in Nat, \A m \in 0 .. n - 1 : m \in S PROVE n \in S
  <2> SUFFICES \E g : g = F(n, g)
    OBVIOUS
  <2>1. CASE n = 0
    <3> DEFINE h == [i \in 1 .. n |-> <<>>]
    <3>1. \A i \in 1 .. n : FALSE
      BY <2>1
    <3>2. h = F(n, h)
      <4> HIDE DEF Step
      <4> QED
        BY <3>1
    <3> QED
      BY <3>2
  <2>2. CASE n # 0
    <3>1. n - 1 \in 0 .. n - 1
      BY <2>2
    <3>2. PICK g : g = F(n - 1, g)
      <4>1. n - 1 \in S
        BY <1>2, <3>1
      <4> HIDE DEF F
      <4> QED
        BY <4>1
    <3> DEFINE h == [i \in 1 .. n |-> IF i = n THEN Step(g, n) ELSE g[i]]
    <3>3. \A i \in 1 .. n - 1 : g[i] = Step(g, i)
      <4> HIDE DEF Step
      <4> QED
        BY <3>2
    <3>4. ASSUME NEW i \in 1 .. n PROVE Step(h, i) = Step(g, i)
      <4>1. CASE i = 1
        BY <4>1
      <4>2. CASE i # 1
        <5>1. i - 1 \in 1 .. n /\ i - 1 # n
          BY <4>2
        <5>2. h[i - 1] = g[i - 1]
          <6> HIDE DEF Step
          <6> QED
            BY <5>1
        <5> HIDE DEF h
        <5> QED
          BY <4>2, <5>2
      <4> QED
        BY <4>1, <4>2
    <3>5. ASSUME NEW i \in 1 .. n PROVE h[i] = Step(h, i)
      <4>1. CASE i = n
        <5>1. h[i] = Step(g, i)
          <6> HIDE DEF Step
          <6> QED
            BY <4>1
        <5> QED
          BY <3>4, <5>1
      <4>2. CASE i # n
        <5>1. i \in 1 .. n - 1
          BY <4>2
        <5>2. h[i] = g[i]
          <6> HIDE DEF Step
          <6> QED
            BY <4>2
        <5> HIDE DEF h, Step
        <5> QED
          BY <3>3, <3>4, <5>1, <5>2
      <4> QED
        BY <4>1, <4>2
    <3>6. h = F(n, h)
      <4> DEFINE hh == h
      <4>1. hh = [i \in 1 .. n |-> hh[i]]
        <5> HIDE DEF Step
        <5> QED
          OBVIOUS
      <4>2. \A i \in 1 .. n : hh[i] = Step(hh, i)
        BY <3>5
      <4> HIDE DEF hh, Step
      <4>3. hh = F(n, hh)
        BY <4>1, <4>2
      <4> QED
        BY <4>3 DEF hh
    <3> QED
      BY <3>6
  <2> QED
    BY <2>1, <2>2
<1>3. \A n \in Nat : n \in S
  <2> HIDE DEF S
  <2> QED
    BY <1>2, Descent
<1>4. PICK g : g = F(K, g)
  <2>1. K \in S
    BY <1>1, <1>3
  <2> HIDE DEF F, K
  <2> QED
    BY <2>1
<1> DEFINE r == CHOOSE f : f = F(K, f)
<1>5. r = F(K, r)
  <2> HIDE DEF F
  <2> QED
    BY <1>4
<1>6. FlattenSeq(s) = r[K]
  BY <1>1 DEF FlattenSeq
<1> HIDE DEF r
<1>7. \A i \in 1 .. K : r[i] = Step(r, i)
  <2> HIDE DEF Step, K
  <2> QED
    BY <1>5
<1> QED
  BY <1>6, <1>7 DEF Joins

\* Joined texts are a text.
LEMMA FlattenType ==
    ASSUME NEW A, NEW s \in Seq(Seq(A)), s # <<>>, NEW f, Joins(s, f)
    PROVE  \A i \in 1 .. Len(s) : f[i] \in Seq(A)
<1> DEFINE K == Len(s)
           S == {n \in Nat : n \in 1 .. K => f[n] \in Seq(A)}
<1>1. K \in Nat /\ \A i \in 1 .. K : s[i] \in Seq(A)
  OBVIOUS
<1>2. ASSUME NEW n \in Nat, \A m \in 0 .. n - 1 : m \in S PROVE n \in S
  <2> SUFFICES ASSUME n \in 1 .. K PROVE f[n] \in Seq(A)
    OBVIOUS
  <2>0. f[n] = IF n = 1 THEN s[n] ELSE f[n - 1] \o s[n]
    BY DEF Joins
  <2>1. CASE n = 1
    BY <1>1, <2>0, <2>1
  <2>2. CASE n # 1
    <3>1. n - 1 \in 0 .. n - 1 /\ n - 1 \in 1 .. K
      <4> HIDE DEF K
      <4> QED
        BY <1>1, <2>2
    <3>2. f[n - 1] \in Seq(A)
      BY <1>2, <3>1
    <3>3. f[n - 1] \o s[n] \in Seq(A)
      BY <1>1, <3>2, ConcatProperties
    <3> QED
      BY <2>0, <2>2, <3>3
  <2> QED
    BY <2>1, <2>2
<1>3. \A n \in Nat : n \in S
  <2> HIDE DEF S
  <2> QED
    BY <1>2, Descent
<1>4. \A i \in 1 .. K : i \in Nat
  <2> HIDE DEF K
  <2> QED
    BY <1>1
<1> QED
  BY <1>3, <1>4

\* Joining starts with the first text.
LEMMA FlattenCons ==
    ASSUME NEW A, NEW a \in Seq(A), NEW s \in Seq(Seq(A))
    PROVE  /\ FlattenSeq(<<a>> \o s) = a \o FlattenSeq(s)
           /\ FlattenSeq(<<a>> \o s) \in Seq(A)
<1> DEFINE t == <<a>> \o s
           K == Len(s)
<1>1. <<a>> \in Seq(Seq(A)) /\ Len(<<a>>) = 1 /\ <<a>>[1] = a
  OBVIOUS
<1>2. /\ t \in Seq(Seq(A)) /\ K \in Nat /\ Len(t) = 1 + K
      /\ t[1] = a /\ \A i \in 1 .. K : t[1 + i] = s[i]
  <2>1. 1 \in 1 .. 1
    OBVIOUS
  <2> QED
    BY <1>1, <2>1, Behind
<1> HIDE DEF t
<1>3. t # <<>>
  <2>1. Len(t) # 0
    BY <1>2
  <2> QED
    BY <2>1
<1>4. PICK f : Joins(t, f) /\ FlattenSeq(t) = f[Len(t)]
  BY <1>2, <1>3, FlattenDef
<1>5. f[1] = a
  <2>1. 1 \in 1 .. 1 + K
    <3> HIDE DEF K
    <3> QED
      BY <1>2
  <2> QED
    BY <1>2, <1>4, <2>1 DEF Joins
<1>6. FlattenSeq(t) \in Seq(A)
  <2>1. \A i \in 1 .. Len(t) : f[i] \in Seq(A)
    BY <1>2, <1>3, <1>4, FlattenType
  <2>2. Len(t) \in 1 .. Len(t)
    <3> HIDE DEF K
    <3> QED
      BY <1>2
  <2> QED
    BY <1>4, <2>1, <2>2
<1>7. CASE s = <<>>
  <2>1. Len(t) = 1 /\ FlattenSeq(s) = <<>>
    BY <1>2, <1>7 DEF FlattenSeq
  <2>2. a \o <<>> = a
    BY ConcatEmptySeq
  <2> QED
    BY <1>4, <1>5, <1>6, <2>1, <2>2 DEF t
<1>8. CASE s # <<>>
  <2>1. PICK g : Joins(s, g) /\ FlattenSeq(s) = g[K]
    BY <1>8, FlattenDef
  <2>2. \A i \in 1 .. K : g[i] \in Seq(A) /\ s[i] \in Seq(A)
    BY <1>8, <2>1, FlattenType
  <2> DEFINE S == {n \in Nat : n \in 1 .. K => f[1 + n] = a \o g[n]}
  <2>3. ASSUME NEW n \in Nat, \A m \in 0 .. n - 1 : m \in S PROVE n \in S
    <3> SUFFICES ASSUME n \in 1 .. K PROVE f[1 + n] = a \o g[n]
      OBVIOUS
    <3>1. 1 + n \in 1 .. 1 + K /\ 1 + n # 1 /\ (1 + n) - 1 = n
      <4> HIDE DEF K
      <4> QED
        BY <1>2
    <3>2. f[1 + n] = f[n] \o s[n]
      BY <1>2, <1>4, <3>1 DEF Joins
    <3>3. g[n] = IF n = 1 THEN s[n] ELSE g[n - 1] \o s[n]
      BY <2>1 DEF Joins
    <3>4. CASE n = 1
      BY <1>5, <3>2, <3>3, <3>4
    <3>5. CASE n # 1
      <4>1. n - 1 \in 0 .. n - 1 /\ n - 1 \in 1 .. K /\ 1 + (n - 1) = n
        <5> HIDE DEF K
        <5> QED
          BY <1>2, <3>5
      <4>2. f[1 + (n - 1)] = a \o g[n - 1]
        BY <2>3, <4>1
      <4> DEFINE u == g[n - 1]
                 v == s[n]
      <4>a. u \in Seq(A) /\ v \in Seq(A)
        BY <2>2, <4>1
      <4> HIDE DEF u, v
      <4>3. (a \o u) \o v = a \o (u \o v)
        BY <4>a, ConcatAssociative
      <4>4. f[n] = a \o u /\ g[n] = u \o v /\ f[1 + n] = f[n] \o v
        BY <3>2, <3>3, <3>5, <4>1, <4>2 DEF u, v
      <4> QED
        BY <4>3, <4>4, Zenon
    <3> QED
      BY <3>4, <3>5
  <2>4. \A n \in Nat : n \in S
    <3> HIDE DEF S
    <3> QED
      BY <2>3, Descent
  <2>5. K \in Nat /\ K \in 1 .. K
    <3>1. K # 0
      BY <1>8
    <3> HIDE DEF K
    <3> QED
      BY <1>2, <3>1
  <2>6. f[1 + K] = a \o g[K]
    BY <2>4, <2>5
  <2> QED
    BY <1>2, <1>4, <1>6, <2>1, <2>6 DEF t
<1> QED
  BY <1>7, <1>8

-----------------------------------------------------------------------------
(* The body *)

\* A body whose first line closes it.
LEMMA BodyOfFirst ==
    ASSUME NEW A, N \in A, NEW lines \in Seq(LineOver(A)), lines # <<>>, Terminates(lines[1])
    PROVE  LET l == lines[1].text IN
           /\ BodyOf(lines, 1) = SubSeq(l, 1, Len(l) - TerminatorLength)
           /\ BodyOf(lines, 1) \in Seq(A)
           /\ Len(BodyOf(lines, 1)) = Len(l) - TerminatorLength
<1> DEFINE l == lines[1].text
           none == [i \in 1 .. 1 - 1 |-> Append(lines[i].text, LF)]
           K == Len(l)
           b == SubSeq(l, 1, K - TerminatorLength)
<1>1. l \in Seq(A)
  <2>1. lines[1] \in LineOver(A)
    OBVIOUS
  <2> QED
    BY <2>1 DEF LineOver
<1>2. none = <<>>
  OBVIOUS
<1>3. FlattenSeq(<<>>) = <<>>
  BY DEF FlattenSeq
<1>4. BodyOf(lines, 1) = <<>> \o b
  BY <1>2, <1>3 DEF BodyOf
<1>5. TerminatorLength <= K /\ K \in Nat
  BY <1>1, TerminatesOK DEF Terminates
<1> HIDE DEF l
<1>6. b \in Seq(A) /\ Len(b) = K - TerminatorLength
  <2> DEFINE n == K - TerminatorLength
  <2>1. n \in 1 - 1 .. K /\ 1 \in 1 .. K + 1 /\ n - 1 + 1 = n
    <3> HIDE DEF K
    <3> QED
      BY <1>5, TelegramAssumption
  <2> HIDE DEF n
  <2>2. SubSeq(l, 1, n) \in Seq(A) /\ Len(SubSeq(l, 1, n)) = n - 1 + 1
    BY <1>1, <2>1, PartOf
  <2> QED
    BY <2>1, <2>2 DEF n
<1> HIDE DEF b
<1>7. <<>> \o b = b
  BY <1>6, ConcatEmptySeq
<1> QED
  BY <1>4, <1>6, <1>7 DEF l, b

\* A body with one more line in front.
LEMMA BodyOfCons ==
    ASSUME NEW A, N \in A, LF \in A, NEW L \in LineOver(A), NEW lines \in Seq(LineOver(A)),
           NEW close \in 1 .. Len(lines), Terminates(lines[close])
    PROVE  /\ BodyOf(<<L>> \o lines, close + 1) = (L.text \o <<LF>>) \o BodyOf(lines, close)
           /\ BodyOf(lines, close) \in Seq(A)
<1> DEFINE all == <<L>> \o lines
           K == Len(lines)
           first == Append(L.text, LF)
           F == [i \in 1 .. close - 1 |-> Append(lines[i].text, LF)]
           G == [i \in 1 .. (close + 1) - 1 |-> Append(all[i].text, LF)]
           l == lines[close].text
           b == SubSeq(l, 1, Len(l) - TerminatorLength)
<1>1. <<L>> \in Seq(LineOver(A)) /\ Len(<<L>>) = 1 /\ <<L>>[1] = L /\ 1 \in 1 .. 1
  OBVIOUS
<1>2. K \in Nat /\ all[1] = L /\ \A i \in 1 .. K : all[1 + i] = lines[i]
  BY <1>1, Behind
<1>3. \A i \in 1 .. K : lines[i].text \in Seq(A)
  <2>1. \A i \in 1 .. K : lines[i] \in LineOver(A)
    OBVIOUS
  <2> QED
    BY <2>1 DEF LineOver
<1>4. L.text \in Seq(A)
  BY DEF LineOver
<1>5. first = L.text \o <<LF>> /\ first \in Seq(A)
  <2> DEFINE text == L.text
  <2>1. text \in Seq(A)
    BY <1>4
  <2> HIDE DEF text
  <2>2. Append(text, LF) = text \o <<LF>> /\ Append(text, LF) \in Seq(A)
    BY <2>1, AppendIsConcat, AppendProperties
  <2> QED
    BY <2>2 DEF text
<1> HIDE DEF all
<1>6. close \in 1 .. K
  OBVIOUS
<1> HIDE DEF K
<1>7. close \in Nat /\ close - 1 \in Nat /\ (close + 1) - 1 = close /\ 1 + (close - 1) = close /\ close + 1 = 1 + close
  BY <1>2, <1>6
<1>8. F \in Seq(Seq(A)) /\ Len(F) = close - 1 /\ \A i \in 1 .. close - 1 : F[i] = Append(lines[i].text, LF)
  <2>1. ASSUME NEW i \in 1 .. close - 1 PROVE Append(lines[i].text, LF) \in Seq(A)
    <3>1. i \in 1 .. K
      BY <1>2, <1>6
    <3> DEFINE text == lines[i].text
    <3>2. text \in Seq(A)
      BY <1>3, <3>1
    <3> HIDE DEF text
    <3>3. Append(text, LF) \in Seq(A)
      BY <3>2, AppendProperties
    <3> QED
      BY <3>3 DEF text
  <2>2. \A i \in 1 .. close - 1 : F[i] \in Seq(A)
    BY <2>1
  <2>3. F \in [1 .. close - 1 -> Seq(A)]
    BY <2>2
  <2>4. \A i \in 1 .. close - 1 : F[i] = Append(lines[i].text, LF)
    OBVIOUS
  <2> HIDE DEF F
  <2> QED
    BY <1>7, <2>3, <2>4
<1>9. G = <<first>> \o F
  <2> DEFINE H == <<first>> \o F
  <2>1. <<first>> \in Seq(Seq(A)) /\ Len(<<first>>) = 1 /\ <<first>>[1] = first
    BY <1>5
  <2>2. /\ H \in Seq(Seq(A)) /\ Len(H) = 1 + (close - 1)
        /\ H[1] = first /\ \A i \in 1 .. close - 1 : H[1 + i] = F[i]
    <3> HIDE DEF first, F
    <3> QED
      BY <1>1, <1>8, <2>1, Behind
  <2> HIDE DEF H, F, first
  <2>3. ASSUME NEW i \in 1 .. close PROVE H[i] = Append(all[i].text, LF)
    <3>1. CASE i = 1
      BY <1>2, <2>2, <3>1 DEF first
    <3>2. CASE i # 1
      <4> DEFINE j == i - 1
      <4>1. j \in 1 .. close - 1 /\ j \in 1 .. K /\ 1 + j = i
        BY <1>2, <1>6, <3>2
      <4> HIDE DEF j
      <4> QED
        BY <1>2, <1>8, <2>2, <4>1
    <3> QED
      BY <3>1, <3>2
  <2>4. DOMAIN H = 1 .. close /\ H = [i \in 1 .. close |-> H[i]]
    BY <1>7, <2>2
  <2>5. G = [i \in 1 .. close |-> Append(all[i].text, LF)]
    BY <1>7
  <2> HIDE DEF G
  <2>6. G = H
    BY <2>3, <2>4, <2>5
  <2> QED
    BY <2>6 DEF H
<1>10. FlattenSeq(G) = first \o FlattenSeq(F) 
  <2> HIDE DEF F, G, first
  <2> QED
    BY <1>5, <1>8, <1>9, FlattenCons
<1>11. FlattenSeq(F) \in Seq(A)
  <2> HIDE DEF F
  <2>1. CASE F = <<>>
    BY <2>1 DEF FlattenSeq
  <2>2. CASE F # <<>>
    <3>1. PICK f : Joins(F, f) /\ FlattenSeq(F) = f[Len(F)]
      BY <1>8, <2>2, FlattenDef
    <3>2. \A i \in 1 .. Len(F) : f[i] \in Seq(A)
      BY <1>8, <2>2, <3>1, FlattenType
    <3>3. Len(F) \in 1 .. Len(F)
      <4>1. Len(F) # 0 /\ Len(F) \in Nat
        BY <1>8, <2>2
      <4> QED
        BY <4>1
    <3> QED
      BY <3>1, <3>2, <3>3
  <2> QED
    BY <2>1, <2>2
<1>12. b \in Seq(A)
  <2>1. l \in Seq(A)
    BY <1>3, <1>6
  <2>2. TerminatorLength <= Len(l) /\ Len(l) \in Nat
    BY <2>1, TerminatesOK DEF Terminates
  <2> HIDE DEF l
  <2> DEFINE n == Len(l) - TerminatorLength
             M == Len(l)
  <2>3. n \in 1 - 1 .. M /\ 1 \in 1 .. M + 1
    <3>1. M \in Nat /\ TerminatorLength <= M /\ n = M - TerminatorLength
      BY <2>2
    <3> HIDE DEF M, n
    <3> QED
      BY <3>1, TelegramAssumption
  <2> HIDE DEF n
  <2>4. SubSeq(l, 1, n) \in Seq(A)
    BY <2>1, <2>3, PartOf
  <2> QED
    BY <2>4 DEF n
<1>13. BodyOf(lines, close) = FlattenSeq(F) \o b
  BY DEF BodyOf
<1>14. BodyOf(all, close + 1) = FlattenSeq(G) \o b
  <2>1. all[close + 1] = lines[close]
    BY <1>2, <1>6, <1>7
  <2> QED
    BY <2>1, Zenon DEF BodyOf
<1> HIDE DEF F, G, b, first
<1>15. (first \o FlattenSeq(F)) \o b = first \o (FlattenSeq(F) \o b) /\ FlattenSeq(F) \o b \in Seq(A)
  <2> DEFINE u == FlattenSeq(F)
  <2>1. u \in Seq(A) /\ first \in Seq(A) /\ b \in Seq(A)
    BY <1>5, <1>11, <1>12
  <2> HIDE DEF u
  <2>2. (first \o u) \o b = first \o (u \o b) /\ u \o b \in Seq(A)
    <3>1. Then(Then(first, u), b) = Then(first, Then(u, b)) /\ Then(u, b) \in Seq(A)
      BY <2>1, ThenOK
    <3> QED
      BY <3>1, Zenon DEF Then
  <2> QED
    BY <2>2 DEF u
<1> QED
  BY <1>5, <1>10, <1>13, <1>14, <1>15 DEF all

-----------------------------------------------------------------------------
(* The first four lines *)

\* Lines are lines, over the symbols of the text.
LEMMA LinesType ==
    ASSUME NEW A, NEW raw \in Seq(A)
    PROVE  Lines(raw) \in Seq(LineOver(A))
<1> DEFINE K == Len(raw)
<1>1. K \in Nat
  OBVIOUS
<1>2. PICK f : ReadFrom(raw, f) /\ Lines(raw) = f[1]
  BY LinesDef
<1>3. ASSUME NEW p \in 1 .. K PROVE tg_next_line(raw, p) \in LineOver(A)
  <2> DEFINE e == EndOfLine(raw, p)
             cut == IF e - p > LineSize - 1 THEN p + LineSize - 1 ELSE e
  <2>0. p \in 1 .. K + 1
    <3> HIDE DEF K
    <3> QED
      BY <1>1
  <2>1. e \in p .. K + 1
    BY <2>0, EndOfLineOK DEF EndsAt
  <2>2. tg_next_line(raw, p) = [text |-> SubSeq(raw, p, cut - 1), complete |-> cut = e]
    BY DEF tg_next_line
  <2> HIDE DEF e
  <2>3. cut - 1 \in p - 1 .. K
    <3> HIDE DEF K
    <3> QED
      BY <1>1, <2>1, TelegramAssumption
  <2> HIDE DEF cut
  <2>4. SubSeq(raw, p, cut - 1) \in Seq(A)
    <3> DEFINE n == cut - 1
    <3>1. n \in p - 1 .. K
      BY <2>3
    <3> HIDE DEF n
    <3>2. SubSeq(raw, p, n) \in Seq(A)
      BY <2>0, <3>1, PartOf
    <3> QED
      BY <3>2 DEF n
  <2> QED
    BY <2>2, <2>4 DEF LineOver
<1> DEFINE S == {n \in Nat : n <= K => f[K + 1 - n] \in Seq(LineOver(A))}
<1>4. ASSUME NEW n \in Nat, \A m \in 0 .. n - 1 : m \in S PROVE n \in S
  <2> SUFFICES ASSUME n <= K PROVE f[K + 1 - n] \in Seq(LineOver(A))
    OBVIOUS
  <2>1. CASE n = 0
    <3>1. K + 1 - n = K + 1
      <4> HIDE DEF K
      <4> QED
        BY <1>1, <2>1
    <3>2. f[K + 1] = <<>>
      BY <1>2 DEF ReadFrom
    <3>3. <<>> \in Seq(LineOver(A))
      OBVIOUS
    <3> HIDE DEF K
    <3> QED
      BY <3>1, <3>2, <3>3
  <2>2. CASE n # 0
    <3> DEFINE p == K + 1 - n
               after == AfterLine(raw, p)
               m == K + 1 - after
    <3>1. p \in 1 .. K
      <4> HIDE DEF K
      <4> QED
        BY <1>1, <2>2
    <3> HIDE DEF p
    <3>2. after \in p + 1 .. K + 1
      BY <3>1, AfterLineOK
    <3>3. f[p] = <<tg_next_line(raw, p)>> \o f[after]
      BY <1>2, <3>1 DEF ReadFrom
    <3> HIDE DEF after
    <3>4. m \in 0 .. n - 1 /\ m \in Nat /\ m <= K /\ K + 1 - m = after
      <4>1. p = K + 1 - n
        BY DEF p
      <4> HIDE DEF K
      <4> QED
        BY <1>1, <3>1, <3>2, <4>1
    <3>5. m \in S
      BY <1>4, <3>4
    <3>6. f[after] \in Seq(LineOver(A))
      <4> HIDE DEF K, m
      <4> QED
        BY <3>4, <3>5
    <3>7. <<tg_next_line(raw, p)>> \in Seq(LineOver(A))
      BY <1>3, <3>1
    <3> DEFINE u == <<tg_next_line(raw, p)>>
               v == f[after]
    <3>8. u \in Seq(LineOver(A)) /\ v \in Seq(LineOver(A)) /\ f[p] = u \o v
      BY <3>3, <3>6, <3>7
    <3> HIDE DEF u, v
    <3>9. f[p] \in Seq(LineOver(A))
      BY <3>8, ConcatProperties
    <3> QED
      BY <3>9 DEF p
  <2> QED
    BY <2>1, <2>2
<1>5. K \in S
  <2>1. \A n \in Nat : n \in S
    <3> HIDE DEF S
    <3> QED
      BY <1>4, Descent
  <2> QED
    BY <1>1, <2>1
<1>6. K <= K /\ K + 1 - K = 1
  <2> HIDE DEF K
  <2> QED
    BY <1>1
<1> HIDE DEF K
<1> QED
  BY <1>2, <1>5, <1>6

\* One line in front of the others.
LEMMA Front1 ==
    ASSUME NEW B, NEW b \in B, NEW s \in Seq(B)
    PROVE  /\ <<b>> \o s \in Seq(B) /\ Len(s) \in Nat /\ Len(<<b>> \o s) = 1 + Len(s)
           /\ (<<b>> \o s)[1] = b
           /\ \A i \in 1 .. Len(s) : (<<b>> \o s)[1 + i] = s[i]
<1>1. <<b>> \in Seq(B) /\ Len(<<b>>) = 1 /\ <<b>>[1] = b /\ 1 \in 1 .. 1
  OBVIOUS
<1> QED
  BY <1>1, Behind

\* Four lines, and then the others.
Opens(lines, a, b, c, d, rest) ==
    /\ Len(lines) = 4 + Len(rest) /\ Len(rest) \in Nat
    /\ lines[1] = a /\ lines[2] = b /\ lines[3] = c /\ lines[4] = d
    /\ SubSeq(lines, 5, Len(lines)) = rest

\* Four lines in front of the others.
LEMMA FourThen ==
    ASSUME NEW B, NEW a \in B, NEW b \in B, NEW c \in B, NEW d \in B, NEW rest \in Seq(B)
    PROVE  Opens(<<a>> \o (<<b>> \o (<<c>> \o (<<d>> \o rest))), a, b, c, d, rest)
<1> DEFINE s4 == <<d>> \o rest
           s3 == <<c>> \o s4
           s2 == <<b>> \o s3
           all == <<a>> \o s2
           K == Len(rest)
<1>4. /\ s4 \in Seq(B) /\ K \in Nat /\ Len(s4) = 1 + K /\ s4[1] = d
      /\ \A i \in 1 .. K : s4[1 + i] = rest[i]
  BY Front1
<1> HIDE DEF s4, K
<1>3. /\ s3 \in Seq(B) /\ Len(s3) = 1 + (1 + K) /\ s3[1] = c
      /\ \A i \in 1 .. 1 + K : s3[1 + i] = s4[i]
  BY <1>4, Front1
<1> HIDE DEF s3
<1>2. /\ s2 \in Seq(B) /\ Len(s2) = 1 + (1 + (1 + K)) /\ s2[1] = b
      /\ \A i \in 1 .. 1 + (1 + K) : s2[1 + i] = s3[i]
  BY <1>3, Front1
<1> HIDE DEF s2
<1>1. /\ all \in Seq(B) /\ Len(all) = 1 + (1 + (1 + (1 + K))) /\ all[1] = a
      /\ \A i \in 1 .. 1 + (1 + (1 + K)) : all[1 + i] = s2[i]
  BY <1>2, Front1
<1> HIDE DEF all
<1>5. all[2] = b
  <2>1. 1 \in 1 .. 1 + (1 + (1 + K)) /\ 1 + 1 = 2
    BY <1>4
  <2> QED
    BY <1>1, <1>2, <2>1
<1>6. all[3] = c
  <2>1. 1 \in 1 .. 1 + (1 + K) /\ 2 \in 1 .. 1 + (1 + (1 + K)) /\ 1 + 1 = 2 /\ 1 + 2 = 3
    BY <1>4
  <2> QED
    BY <1>1, <1>2, <1>3, <2>1
<1>7. all[4] = d
  <2>1. /\ 1 \in 1 .. 1 + K /\ 2 \in 1 .. 1 + (1 + K) /\ 3 \in 1 .. 1 + (1 + (1 + K))
        /\ 1 + 1 = 2 /\ 1 + 2 = 3 /\ 1 + 3 = 4
    BY <1>4
  <2> QED
    BY <1>1, <1>2, <1>3, <1>4, <2>1
<1>8. Len(all) = 4 + K
  BY <1>1, <1>4
<1>9. SubSeq(all, 5, Len(all)) = rest
  <2> DEFINE M == 4 + K
             u == SubSeq(all, 5, M)
  <2>1. M \in Nat /\ 5 \in 1 .. M + 1 /\ M \in 5 - 1 .. M /\ M - 5 + 1 = K
    BY <1>4
  <2> HIDE DEF M
  <2>2. u \in Seq(B) /\ Len(u) = M - 5 + 1 /\ \A i \in 1 .. M - 5 + 1 : u[i] = all[5 + i - 1]
    BY <1>1, <1>8, <2>1, PartOf DEF M
  <2> HIDE DEF u
  <2>3. ASSUME NEW i \in 1 .. K PROVE u[i] = rest[i]
    <3>1. /\ i \in 1 .. M - 5 + 1 /\ 5 + i - 1 = 1 + (3 + i) /\ 3 + i \in 1 .. 1 + (1 + (1 + K))
          /\ 3 + i = 1 + (2 + i) /\ 2 + i \in 1 .. 1 + (1 + K)
          /\ 2 + i = 1 + (1 + i) /\ 1 + i \in 1 .. 1 + K
      BY <1>4, <2>1
    <3>2. u[i] = all[1 + (3 + i)]
      BY <2>2, <3>1
    <3>3. all[1 + (3 + i)] = s2[3 + i]
      BY <1>1, <3>1
    <3>4. s2[1 + (2 + i)] = s3[2 + i]
      BY <1>2, <3>1
    <3>5. s3[1 + (1 + i)] = s4[1 + i]
      BY <1>3, <3>1
    <3>6. s4[1 + i] = rest[i]
      BY <1>4
    <3>7. s2[3 + i] = s2[1 + (2 + i)] /\ s3[2 + i] = s3[1 + (1 + i)]
      BY <3>1
    <3> QED
      BY <3>2, <3>3, <3>4, <3>5, <3>6, <3>7, Zenon
  <2>4. u = rest
    BY <2>1, <2>2, <2>3, SameText DEF K
  <2> QED
    BY <1>8, <2>4 DEF u, M
<1> QED
  BY <1>1, <1>4, <1>5, <1>6, <1>7, <1>8, <1>9 DEF Opens, all, s2, s3, s4, K

\* The parts of a telegram, put together one after another or line by line.
LEMMA Regrouped ==
    ASSUME NEW A, NEW h \in Seq(A), NEW r \in Seq(A), NEW s \in Seq(A), NEW x \in Seq(A),
           NEW m \in Seq(A), NEW t \in Seq(A)
    PROVE  Then(Then(Then(Then(Then(Then(h, r), x), s), x), m), t)
              = Then(h, Then(Then(r, x), Then(Then(s, x), Then(m, t))))
<1>1. Then(h, r) \in Seq(A) /\ Then(r, x) \in Seq(A) /\ Then(s, x) \in Seq(A) /\ Then(m, t) \in Seq(A)
  BY ThenOK
<1> DEFINE P == Then(Then(h, r), x)
           Q == Then(Then(P, s), x)
           Y == Then(Then(s, x), Then(m, t))
<1>2. P \in Seq(A) /\ Y \in Seq(A)
  BY <1>1, ThenOK
<1>3. P = Then(h, Then(r, x))
  BY ThenOK
<1> HIDE DEF P
<1>4. Q = Then(P, Then(s, x)) /\ Q \in Seq(A)
  BY <1>1, <1>2, ThenOK
<1> HIDE DEF Q
<1>5. Then(Then(Q, m), t) = Then(Q, Then(m, t))
  BY <1>4, ThenOK
<1>6. Then(Q, Then(m, t)) = Then(P, Y)
  BY <1>1, <1>2, <1>4, ThenOK
<1> HIDE DEF Y
<1>7. Then(P, Y) = Then(h, Then(Then(r, x), Y))
  BY <1>1, <1>2, <1>3, ThenOK
<1> QED
  BY <1>5, <1>6, <1>7 DEF P, Q, Y

\* A telegram starts with its four lines.
LEMMA FourLines ==
    ASSUME NEW A, NEW w \in A, LF \in A, w \notin Breaks,
           NEW r \in Seq(A), NEW s \in Seq(A), NEW m \in Seq(A), NEW t \in Seq(A),
           Unbroken(r), Unbroken(s), Unbroken(m)
    PROVE  Opens(Lines(Header(w, r, s) \o (m \o <<LF>>) \o t),
                 Cut(<<w>>), Cut(r), Cut(s), Cut(m), Lines(t))
<1> DEFINE x == <<LF>>
           h == <<w>>
           mx == m \o x
           t4 == mx \o t
           t3 == (s \o x) \o t4
           t2 == (r \o x) \o t3
<1>0. LF \in Breaks /\ LF # CR
  BY DEF Breaks, LF, CR
<1>1. x \in Seq(A) /\ h \in Seq(A) /\ <<w, LF>> = h \o x /\ <<w, LF>> \in Seq(A)
  OBVIOUS
<1>2. mx \in Seq(A) /\ t4 \in Seq(A)
  BY <1>1, ConcatProperties
<1>3. t3 \in Seq(A)
  <2> HIDE DEF t4
  <2>1. s \o x \in Seq(A)
    BY <1>1, ConcatProperties
  <2> QED
    BY <1>2, <2>1, ConcatProperties
<1>4. t2 \in Seq(A)
  <2> HIDE DEF t3
  <2>1. r \o x \in Seq(A)
    BY <1>1, ConcatProperties
  <2> QED
    BY <1>3, <2>1, ConcatProperties
<1>5. Unbroken(h)
  BY DEF Unbroken
<1>6. Header(w, r, s) \o mx \o t = <<w, LF>> \o t2
  <2>1. (((((<<w, LF>> \o r) \o x) \o s) \o x) \o mx) \o t = <<w, LF>> \o t2
    <3> DEFINE hh == <<w, LF>>
    <3>1. hh \in Seq(A)
      BY <1>1
    <3> HIDE DEF hh, mx, x
    <3>2. Then(Then(Then(Then(Then(Then(hh, r), x), s), x), mx), t)
             = Then(hh, Then(Then(r, x), Then(Then(s, x), Then(mx, t))))
      BY <1>1, <1>2, <3>1, Regrouped
    <3> QED
      BY <3>2, Zenon DEF hh, Then
  <2> QED
    BY <2>1 DEF Header
<1> HIDE DEF t2
<1>7. Lines((h \o x) \o t2) = <<Cut(h)>> \o Lines(t2)
  <2> HIDE DEF h
  <2> QED
    BY <1>0, <1>1, <1>4, <1>5, LinesBreak
<1> HIDE DEF t3
<1>8. Lines(t2) = <<Cut(r)>> \o Lines(t3)
  BY <1>0, <1>3, LinesBreak DEF t2
<1> HIDE DEF t4
<1>9. Lines(t3) = <<Cut(s)>> \o Lines(t4)
  BY <1>0, <1>2, LinesBreak DEF t3
<1>10. Lines(t4) = <<Cut(m)>> \o Lines(t)
  BY <1>0, LinesBreak DEF t4
<1>11. Lines(Header(w, r, s) \o mx \o t) = <<Cut(h)>> \o Lines(t2)
  BY <1>1, <1>6, <1>7
<1> DEFINE B == LineOver(A)
           lines == Lines(Header(w, r, s) \o mx \o t)
           rest == Lines(t)
           c1 == Cut(h)
           c2 == Cut(r)
           c3 == Cut(s)
           c4 == Cut(m)
<1>12. lines = <<c1>> \o (<<c2>> \o (<<c3>> \o (<<c4>> \o rest)))
  BY <1>8, <1>9, <1>10, <1>11
<1>13. rest \in Seq(B)
  BY LinesType
<1>14. c1 \in B /\ c2 \in B /\ c3 \in B /\ c4 \in B
  <2> HIDE DEF h
  <2> QED
    BY <1>1, CutOver
<1> HIDE DEF B, lines, rest, c1, c2, c3, c4
<1>15. Opens(lines, c1, c2, c3, c4, rest)
  BY <1>12, <1>13, <1>14, FourThen
<1> QED
  BY <1>15 DEF lines, rest, c1, c2, c3, c4

-----------------------------------------------------------------------------
(* Decoding what follows the metadata line *)

\* Three symbols.
LEMMA Triple ==
    ASSUME NEW A, NEW a \in A, NEW b \in A, NEW c \in A
    PROVE  <<a, b>> \o <<c>> = <<a, b, c>>
<1> DEFINE u == <<a, b>>
           v == <<c>>
           z == <<a, b, c>>
<1>1. /\ u \in Seq(A) /\ v \in Seq(A) /\ z \in Seq(A) /\ Len(u) = 2 /\ Len(v) = 1 /\ Len(z) = 3
      /\ u[1] = a /\ u[2] = b /\ v[1] = c /\ z[1] = a /\ z[2] = b /\ z[3] = c
  OBVIOUS
<1> HIDE DEF u, v, z
<1>2. /\ u \o v \in Seq(A) /\ Len(u \o v) = 2 + 1
      /\ \A i \in 1 .. 2 : (u \o v)[i] = u[i]
      /\ \A i \in 1 .. 1 : (u \o v)[2 + i] = v[i]
  <2>1. u \in Seq(A) /\ v \in Seq(A)
    BY <1>1
  <2>2. /\ u \o v \in Seq(A) /\ Len(u \o v) = Len(u) + Len(v)
        /\ \A i \in 1 .. Len(u) : (u \o v)[i] = u[i]
        /\ \A i \in 1 .. Len(v) : (u \o v)[Len(u) + i] = v[i]
    BY <2>1, Behind
  <2> QED
    BY <1>1, <2>2, Zenon
<1> DEFINE y == u \o v
<1>3. y \in Seq(A) /\ Len(y) = 3 /\ y[1] = a /\ y[2] = b /\ y[3] = c
  <2>1. 1 \in 1 .. 2 /\ 2 \in 1 .. 2 /\ 1 \in 1 .. 1 /\ 2 + 1 = 3
    OBVIOUS
  <2> QED
    BY <1>1, <1>2, <2>1
<1> HIDE DEF y
<1>4. \A i \in 1 .. 3 : i = 1 \/ i = 2 \/ i = 3
  OBVIOUS
<1>5. y = z
  BY <1>1, <1>3, <1>4, SameText
<1> QED
  BY <1>5 DEF y, u, v, z

\* A field is a line that the decoder takes as it is.
LEMMA FieldLines ==
    ASSUME NEW A, NEW f \in Seq(A), tg_field_ok(f)
    PROVE  /\ Unbroken(f) /\ Cut(f) = [text |-> f, complete |-> TRUE]
           /\ FieldLine(Cut(f)) /\ Cut(f).text = f
<1>1. f # <<>> /\ Len(f) < TG_FIELD_MAX /\ Positions(f, {LF, CR}) = {}
  BY DEF tg_field_ok
<1>2. Unbroken(f)
  BY <1>1 DEF Unbroken, Positions, Breaks
<1>3. Len(f) < LineSize
  <2> DEFINE K == Len(f)
  <2>1. K \in Nat /\ K < TG_FIELD_MAX
    BY <1>1
  <2> HIDE DEF K
  <2>2. K < LineSize
    BY <2>1, TelegramAssumption
  <2> QED
    BY <2>2 DEF K
<1>4. Cut(f) = [text |-> f, complete |-> TRUE]
  BY <1>3, Uncut
<1> QED
  BY <1>1, <1>2, <1>4 DEF FieldLine

\* The remainder of a cast is an int, and that of an int is the int itself.
LEMMA RemainderOK ==
    ASSUME NEW a \in Int, NEW b \in Nat \ {0}
    PROVE  a % b \in Int /\ (a \in Nat /\ a < b => a % b = a)
OBVIOUS

\* A number that is read and cast is an int; a serial stays what it is.
LEMMA CastOK ==
    ASSUME NEW n \in Numbers
    PROVE  /\ n \in Int /\ Saturated(n) \in Longs /\ ToInt(Saturated(n)) \in Int
           /\ n \in Longs => Saturated(n) = n
           /\ n \in Serials => ToInt(Saturated(n)) = n
<1> DEFINE b == 2 * (IntMax + 1)
<1>1. /\ n \in Int /\ Saturated(n) \in Longs /\ Saturated(n) \in Int
      /\ n \in Longs => Saturated(n) = n
  BY TelegramAssumption DEF Numbers, Longs, Saturated
<1>2. b \in Nat \ {0} /\ IntMax \in Nat
  BY TelegramAssumption
<1>3. \A v \in Int : ToInt(v) = ((v + IntMax + 1) % b) - (IntMax + 1)
  BY DEF ToInt
<1>4. n \in Serials => n \in Longs /\ n \in Nat /\ n + IntMax + 1 < b
  BY TelegramAssumption, SerialAssumption DEF Serials, TG_SN_MIN, Longs
<1> HIDE DEF b
<1>5. \A v \in Int : ToInt(v) \in Int
  <2> TAKE v \in Int
  <2>1. v + IntMax + 1 \in Int
    BY <1>2
  <2>2. (v + IntMax + 1) % b \in Int
    BY <1>2, <2>1, RemainderOK
  <2> QED
    BY <1>2, <1>3, <2>2
<1>6. ASSUME n \in Serials PROVE ToInt(Saturated(n)) = n
  <2>1. Saturated(n) = n /\ n + IntMax + 1 \in Nat /\ n + IntMax + 1 < b
    BY <1>1, <1>2, <1>4, <1>6
  <2>2. (n + IntMax + 1) % b = n + IntMax + 1
    BY <1>2, <2>1, RemainderOK
  <2>3. ToInt(n) = (n + IntMax + 1) - (IntMax + 1)
    BY <1>1, <1>3, <2>2
  <2> QED
    BY <1>1, <1>2, <2>1, <2>3
<1> QED
  BY <1>1, <1>5, <1>6

\* What a numeral says is the number that was written, if it is a long.
LEMMA NumeralOK ==
    ASSUME NEW n \in Numbers
    PROVE  /\ IsNumeral(Numeral(n)) /\ strtol(Numeral(n)) = Saturated(n)
           /\ Numeral(n) \notin Breaks
<1>1. \A m \in Numbers : Numeral(m) = Numeral(n) => m = n
  BY NumeralAssumption
<1>2. ValueOf(Numeral(n)) = n
  BY <1>1 DEF ValueOf
<1> QED
  BY <1>2, NumeralAssumption, Zenon DEF IsNumeral, Numerals, strtol, Breaks

\* Serials are longs, and longs are numbers.
LEMMA SerialOK ==
    ASSUME NEW sn \in Serials
    PROVE  sn \in Numbers /\ tg_sn_valid(sn)
BY SerialAssumption, TelegramAssumption DEF Serials, Numbers, TG_SN_MIN, tg_sn_valid

LEMMA LongOK == Longs \subseteq Numbers
BY TelegramAssumption DEF Longs, Numbers

\* The symbols of a telegram.
Spells(A) == {LF, CR, N, "ZCZC TEXT", "ZCZC CMD", "R:"} \cup {Numeral(n) : n \in Numbers} \subseteq A

\* The answer to a text telegram whose closing line is the one given.
TextOf(r, s, sn, ts, rest) ==
    LET close == SelectInSeq(rest, Terminates)
        body  == BodyOf(rest, close)
    IN  IF close = 0 \/ Len(body) + 1 >= TG_BODY_MAX THEN TG_INVALID
        ELSE [kind |-> "TG_TEXT", receiver |-> r, sender |-> s, sn |-> sn, sn_to |-> 0,
              timestamp |-> ts, body |-> body]

\* The fields of a text telegram are read back, whatever follows the metadata.
LEMMA DecodeText ==
    ASSUME NEW A, Spells(A), NEW r \in Seq(A), NEW s \in Seq(A), tg_field_ok(r), tg_field_ok(s),
           NEW sn \in Serials, NEW ts \in Longs, NEW t \in Seq(A)
    PROVE  tg_decode(Header("ZCZC TEXT", r, s) \o <<Numeral(sn), Numeral(ts), LF>> \o t)
              = TextOf(r, s, sn, ts, Lines(t))
<1> DEFINE w == "ZCZC TEXT"
           a == Numeral(sn)
           b == Numeral(ts)
           m == <<a, b>>
           raw == Header(w, r, s) \o <<a, b, LF>> \o t
           lines == Lines(raw)
           rest == Lines(t)
<1>1. w \in A /\ LF \in A /\ w \notin Breaks
  BY DEF Spells, Breaks, LF, CR
<1>2. sn \in Numbers /\ tg_sn_valid(sn) /\ ts \in Numbers
  BY SerialOK, LongOK
<1>3. /\ IsNumeral(a) /\ ToInt(strtol(a)) = sn /\ a \notin Breaks
      /\ IsNumeral(b) /\ strtol(b) = ts /\ b \notin Breaks
  <2>1. ToInt(Saturated(sn)) = sn /\ Saturated(ts) = ts
    BY <1>2, CastOK
  <2> QED
    BY <1>2, <2>1, NumeralOK, Zenon
<1>4. a \in A /\ b \in A
  BY <1>2 DEF Spells
<1> HIDE DEF w, a, b
<1>5. m \in Seq(A) /\ Len(m) = 2 /\ m[1] = a /\ m[2] = b
  BY <1>4
<1>9. m \o <<LF>> = <<a, b, LF>>
  BY <1>1, <1>4, Triple
<1>6. Unbroken(m)
  <2>1. \A i \in 1 .. Len(m) : i = 1 \/ i = 2
    BY <1>5
  <2> HIDE DEF m
  <2> QED
    BY <1>3, <1>5, <2>1 DEF Unbroken
<1>7. Unbroken(r) /\ Unbroken(s) /\ FieldLine(Cut(r)) /\ FieldLine(Cut(s)) /\ Cut(r).text = r /\ Cut(s).text = s
  BY FieldLines
<1>8. /\ Cut(<<w>>).text = <<w>> /\ Cut(<<w>>).complete
      /\ Cut(m).text = m /\ Cut(m).complete
  <2> DEFINE h == <<w>>
  <2>1. h \in Seq(A) /\ Len(h) = 1 /\ 1 < LineSize /\ 2 < LineSize
    BY <1>1, TelegramAssumption
  <2> HIDE DEF m, h
  <2>3. Cut(h) = [text |-> h, complete |-> TRUE]
    <3>1. h \in Seq(A) /\ Len(h) < LineSize
      BY <2>1
    <3> QED
      BY <3>1, Uncut
  <2>4. Cut(m) = [text |-> m, complete |-> TRUE]
    <3>1. m \in Seq(A) /\ Len(m) < LineSize
      BY <1>5, <2>1
    <3> QED
      BY <3>1, Uncut
  <2>2. Cut(h) = [text |-> h, complete |-> TRUE] /\ Cut(m) = [text |-> m, complete |-> TRUE]
    BY <2>3, <2>4, Zenon
  <2> QED
    BY <2>2 DEF h
<1>12. /\ Len(lines) = 4 + Len(rest) /\ Len(rest) \in Nat
       /\ lines[1] = Cut(<<w>>) /\ lines[2] = Cut(r) /\ lines[3] = Cut(s) /\ lines[4] = Cut(m)
       /\ SubSeq(lines, 5, Len(lines)) = rest
  <2> HIDE DEF m
  <2>1. Opens(Lines(Header(w, r, s) \o (m \o <<LF>>) \o t),
              Cut(<<w>>), Cut(r), Cut(s), Cut(m), Lines(t))
    BY <1>1, <1>5, <1>6, <1>7, FourLines
  <2>2. Opens(lines, Cut(<<w>>), Cut(r), Cut(s), Cut(m), rest)
    BY <1>9, <2>1, Zenon DEF m
  <2> HIDE DEF lines, rest
  <2> QED
    BY <2>2 DEF Opens
<1> HIDE DEF rest, lines, raw
<1>13. ~(Len(lines) < 4)
  <2> DEFINE K == Len(rest)
  <2>1. K \in Nat /\ Len(lines) = 4 + K
    BY <1>12
  <2> HIDE DEF K
  <2> QED
    BY <2>1
<1>14. lines[1].text = <<"ZCZC TEXT">> /\ lines[1].complete
  BY <1>8, <1>12, Zenon DEF w
<1>15. lines[4].text = m /\ lines[4].complete
  BY <1>8, <1>12, Zenon
<1>16. TextMeta(lines[4].text)
  BY <1>2, <1>3, <1>5, <1>15 DEF TextMeta
<1>17. FieldLine(lines[2]) /\ FieldLine(lines[3]) /\ lines[2].text = r /\ lines[3].text = s
  BY <1>7, <1>12
<1>18. ToInt(strtol(lines[4].text[1])) = sn /\ strtol(lines[4].text[2]) = ts
  BY <1>3, <1>5, <1>15
<1> DEFINE close == SelectInSeq(rest, Terminates)
           body == BodyOf(rest, close)
<1>19. tg_decode(raw) =
         IF close = 0 \/ Len(body) + 1 >= TG_BODY_MAX THEN TG_INVALID
         ELSE [kind |-> "TG_TEXT", receiver |-> r, sender |-> s, sn |-> sn, sn_to |-> 0,
               timestamp |-> ts, body |-> body]
  <2> HIDE DEF close, body, m
  <2>1. close = SelectInSeq(SubSeq(lines, 5, Len(lines)), Terminates)
    BY <1>12 DEF close
  <2>2. body = BodyOf(SubSeq(lines, 5, Len(lines)), close)
    BY <1>12 DEF body
  <2> QED
    BY <1>13, <1>14, <1>15, <1>16, <1>17, <1>18, <2>1, <2>2 DEF tg_decode, lines
<1> QED
  BY <1>19 DEF TextOf, raw, rest, w, a, b

-----------------------------------------------------------------------------
(* Bodies *)

\* What stands behind a body.
Closing == TG_TERMINATOR \o <<LF>>

\* The closing line.
ClosingLine == [text |-> TG_TERMINATOR, complete |-> TRUE]

\* The closing line, read.
LEMMA ClosingRead ==
    ASSUME NEW A, Spells(A)
    PROVE  /\ Closing \in Seq(A) /\ Closing # <<>> /\ Closing[1] = N /\ N # LF
           /\ Lines(Closing) = <<ClosingLine>>
           /\ Terminates(ClosingLine) /\ ClosingLine \in LineOver(A)
<1> DEFINE T == TG_TERMINATOR
           x == <<LF>>
<1>1. N \in A /\ LF \in A /\ LF \in Breaks /\ LF # CR /\ N # LF
  BY DEF Spells, Breaks, LF, CR, N
<1>2. /\ T \in Seq(A) /\ Len(T) = TerminatorLength /\ 1 \in 1 .. TerminatorLength
      /\ T[1] = N /\ Unbroken(T) /\ Cut(T) = ClosingLine
  BY <1>1, TerminatorOK DEF ClosingLine
<1>3. x \in Seq(A) /\ Len(x) = 1
  BY <1>1
<1>4. Closing = T \o x
  BY DEF Closing
<1> HIDE DEF T
<1>5. Lines((T \o x) \o <<>>) = <<Cut(T)>> \o Lines(<<>>)
  <2>1. <<>> \in Seq(A)
    OBVIOUS
  <2> QED
    BY <1>1, <1>2, <2>1, LinesBreak
<1> HIDE DEF x
<1>6. /\ T \o x \in Seq(A) /\ (T \o x)[1] = N /\ Len(T \o x) = TerminatorLength + 1
  <2>1. \A i \in 1 .. Len(T) : (T \o x)[i] = T[i]
    BY <1>2, <1>3, Behind
  <2>2. T \o x \in Seq(A) /\ Len(T \o x) = Len(T) + Len(x)
    BY <1>2, <1>3, Behind
  <2> QED
    BY <1>2, <1>3, <2>1, <2>2
<1>7. (T \o x) \o <<>> = T \o x
  <2> DEFINE y == T \o x
  <2>1. y \in Seq(A)
    BY <1>6
  <2> HIDE DEF y
  <2>2. y \o <<>> = y
    BY <2>1, ConcatEmptySeq
  <2> QED
    BY <2>2 DEF y
<1>8. <<ClosingLine>> \o <<>> = <<ClosingLine>>
  <2> DEFINE y == <<ClosingLine>>
  <2>1. y \in Seq({ClosingLine})
    OBVIOUS
  <2> HIDE DEF y
  <2>2. y \o <<>> = y
    BY <2>1, ConcatEmptySeq
  <2> QED
    BY <2>2 DEF y
<1>9. Lines(Closing) = <<ClosingLine>>
  BY <1>2, <1>4, <1>5, <1>7, <1>8, LinesNone, Zenon
<1>10. Terminates(ClosingLine)
  <2>1. IsSuffix(T, T)
    <3>1. TerminatorLength <= Len(T) /\ \A i \in 1 .. TerminatorLength : T[Len(T) - TerminatorLength + i] = N
      <4>1. TerminatorLength \in Nat
        BY TelegramAssumption
      <4>2. TerminatorLength <= TerminatorLength /\ \A i \in 1 .. TerminatorLength : TerminatorLength - TerminatorLength + i = i
        BY <4>1
      <4>3. \A i \in 1 .. TerminatorLength : T[i] = N
        BY <1>1, TerminatorOK DEF T
      <4> QED
        BY <1>2, <4>2, <4>3
    <3> QED
      BY <1>1, <1>2, <3>1, TerminatesOK DEF T
  <2> QED
    BY <2>1 DEF Terminates, ClosingLine, T
<1>11. Closing # <<>>
  <2>1. Len(T \o x) # 0
    <3>1. TerminatorLength + 1 # 0
      BY TelegramAssumption
    <3> QED
      BY <1>6, <3>1
  <2> HIDE DEF Closing
  <2> QED
    BY <1>4, <2>1
<1>12. ClosingLine \in LineOver(A)
  BY <1>2 DEF ClosingLine, LineOver, T
<1> QED
  BY <1>1, <1>4, <1>6, <1>9, <1>10, <1>11, <1>12

\* One more line that does not close the body.
LEMMA OneMoreLine ==
    ASSUME NEW A, N \in A, LF \in A, NEW L \in LineOver(A), NEW lines \in Seq(LineOver(A)),
           ~Terminates(L), SelectInSeq(lines, Terminates) # 0
    PROVE  LET close == SelectInSeq(lines, Terminates)
               after == SelectInSeq(<<L>> \o lines, Terminates)
           IN  /\ after # 0
               /\ BodyOf(<<L>> \o lines, after) = (L.text \o <<LF>>) \o BodyOf(lines, close)
<1> DEFINE all == <<L>> \o lines
           K == Len(lines)
           close == SelectInSeq(lines, Terminates)
           after == SelectInSeq(all, Terminates)
<1>1. /\ all \in Seq(LineOver(A)) /\ K \in Nat /\ Len(all) = 1 + K
      /\ all[1] = L /\ \A i \in 1 .. K : all[1 + i] = lines[i]
  BY Front1
<1>2. /\ close \in 0 .. K /\ close # 0
      /\ Terminates(lines[close]) /\ \A i \in 1 .. close - 1 : ~Terminates(lines[i])
  BY SelectOK
<1> HIDE DEF all
<1>3. /\ after \in 0 .. Len(all)
      /\ after = 0 <=> \A i \in 1 .. Len(all) : ~Terminates(all[i])
      /\ after # 0 => Terminates(all[after]) /\ \A i \in 1 .. after - 1 : ~Terminates(all[i])
  BY <1>1, SelectOK
<1> HIDE DEF K, close, after
<1>4. close \in 1 .. K /\ 1 + close \in 1 .. Len(all) /\ Terminates(all[1 + close])
  <2>1. close \in 1 .. K /\ 1 + close \in 1 .. 1 + K
    BY <1>1, <1>2
  <2> QED
    BY <1>1, <1>2, <2>1
<1>5. after # 0 /\ after \in 1 .. 1 + K
  <2>1. after # 0
    BY <1>3, <1>4
  <2> QED
    BY <1>1, <1>3, <2>1
<1>6. ~(after < 1 + close)
  <2> SUFFICES ASSUME after < 1 + close PROVE FALSE
    OBVIOUS
  <2>1. CASE after = 1
    BY <1>1, <1>3, <1>5, <2>1
  <2>2. CASE after # 1
    <3> DEFINE j == after - 1
    <3>1. j \in 1 .. close - 1 /\ j \in 1 .. K /\ 1 + j = after
      BY <1>1, <1>4, <1>5, <2>2
    <3>2. all[after] = lines[j]
      BY <1>1, <3>1
    <3> QED
      BY <1>2, <1>3, <1>5, <3>1, <3>2
  <2> QED
    BY <2>1, <2>2
<1>7. ~(1 + close < after)
  <2> SUFFICES ASSUME 1 + close < after PROVE FALSE
    OBVIOUS
  <2>1. 1 + close \in 1 .. after - 1
    BY <1>1, <1>4, <1>5
  <2> QED
    BY <1>3, <1>4, <1>5, <2>1
<1>8. after = close + 1
  BY <1>1, <1>4, <1>5, <1>6, <1>7
<1>9. BodyOf(all, close + 1) = (L.text \o <<LF>>) \o BodyOf(lines, close)
  BY <1>2, <1>4, BodyOfCons DEF all, K
<1> QED
  BY <1>5, <1>8, <1>9 DEF all, close, after

\* A text is a line, its end and the rest.
SplitAt(raw, l, x, b) == Unbroken(l) /\ x \in Breaks /\ raw = (l \o <<x>>) \o b

\* A text that has an end of line can be split there.
LEMMA SplitLine ==
    ASSUME NEW A, NEW raw \in Seq(A), ~Unbroken(raw)
    PROVE  \E l, b \in Seq(A), x \in A : SplitAt(raw, l, x, b)
<1> DEFINE K == Len(raw)
           S == {i \in 1 .. K : raw[i] \in Breaks}
<1>1. K \in Nat /\ \A i \in 1 .. K : raw[i] \in A
  OBVIOUS
<1>2. S # {} /\ S \in SUBSET Nat
  <2>1. S # {}
    BY DEF Unbroken
  <2> HIDE DEF K
  <2> QED
    BY <1>1, <2>1
<1>3. PICK c \in S : \A d \in S : c <= d
  <2> HIDE DEF S
  <2> QED
    BY <1>2, LeastNatural
<1> DEFINE l == SubSeq(raw, 1, c - 1)
           b == SubSeq(raw, c + 1, K)
           x == raw[c]
           a == l \o <<x>>
           y == a \o b
<1>4. c \in 1 .. K /\ x \in Breaks /\ x \in A
  BY <1>1, <1>3
<1>5. /\ 1 \in 1 .. K + 1 /\ c - 1 \in 1 - 1 .. K /\ (c - 1) - 1 + 1 = c - 1
      /\ c + 1 \in 1 .. K + 1 /\ K \in (c + 1) - 1 .. K /\ K - (c + 1) + 1 = K - c
      /\ c - 1 \in Nat /\ K - c \in Nat /\ (c - 1) + 1 = c /\ c + (K - c) = K
  <2> HIDE DEF K
  <2> QED
    BY <1>1, <1>4
<1>6. /\ l \in Seq(A) /\ Len(l) = c - 1 /\ \A i \in 1 .. c - 1 : l[i] = raw[1 + i - 1]
  BY <1>5, PartOf
<1>7. /\ b \in Seq(A) /\ Len(b) = K - c /\ \A i \in 1 .. K - c : b[i] = raw[(c + 1) + i - 1]
  <2> DEFINE m == c + 1
  <2>1. m \in 1 .. K + 1 /\ K \in m - 1 .. K /\ K - m + 1 = K - c
    BY <1>5
  <2> HIDE DEF m
  <2>2. /\ SubSeq(raw, m, K) \in Seq(A) /\ Len(SubSeq(raw, m, K)) = K - m + 1
        /\ \A i \in 1 .. K - m + 1 : SubSeq(raw, m, K)[i] = raw[m + i - 1]
    BY <2>1, PartOf
  <2> QED
    BY <2>1, <2>2 DEF m
<1>8. Unbroken(l)
  <2>1. ASSUME NEW i \in 1 .. c - 1 PROVE l[i] \notin Breaks
    <3>1. 1 + i - 1 = i /\ i \in 1 .. K /\ ~(c <= i)
      <4> HIDE DEF K
      <4> QED
        BY <1>1, <1>4
    <3>2. i \notin S
      BY <1>3, <3>1
    <3>3. l[i] = raw[i]
      BY <1>6, <3>1
    <3> QED
      BY <3>1, <3>2, <3>3
  <2> QED
    BY <1>6, <2>1 DEF Unbroken
<1> HIDE DEF l, b, x
<1>9. /\ a \in Seq(A) /\ Len(a) = c /\ a[c] = x
      /\ \A i \in 1 .. c - 1 : a[i] = l[i]
  <2>1. <<x>> \in Seq(A) /\ Len(<<x>>) = 1 /\ <<x>>[1] = x /\ 1 \in 1 .. 1
    BY <1>4
  <2> DEFINE v == <<x>>
  <2> HIDE DEF v
  <2>3. /\ l \o v \in Seq(A) /\ Len(l \o v) = Len(l) + Len(v)
        /\ \A i \in 1 .. Len(l) : (l \o v)[i] = l[i]
        /\ \A i \in 1 .. Len(v) : (l \o v)[Len(l) + i] = v[i]
    <3>1. l \in Seq(A) /\ v \in Seq(A)
      BY <1>6, <2>1 DEF v
    <3> QED
      BY <3>1, Behind
  <2>2. /\ a \in Seq(A) /\ Len(a) = (c - 1) + 1 /\ a[(c - 1) + 1] = x
        /\ \A i \in 1 .. c - 1 : a[i] = l[i]
    BY <1>6, <2>1, <2>3, Zenon DEF v
  <2> QED
    BY <1>5, <2>2
<1> HIDE DEF a
<1>10. /\ y \in Seq(A) /\ Len(y) = K
       /\ \A i \in 1 .. c : y[i] = a[i]
       /\ \A i \in 1 .. K - c : y[c + i] = b[i]
  <2>1. /\ y \in Seq(A) /\ Len(y) = Len(a) + Len(b)
        /\ \A i \in 1 .. Len(a) : y[i] = a[i]
        /\ \A i \in 1 .. Len(b) : y[Len(a) + i] = b[i]
    <3>1. a \in Seq(A) /\ b \in Seq(A)
      BY <1>7, <1>9
    <3> QED
      BY <3>1, Behind
  <2>2. Len(y) = c + (K - c)
    BY <1>7, <1>9, <2>1, Zenon
  <2> HIDE DEF y
  <2> QED
    BY <1>5, <1>7, <1>9, <2>1, <2>2
<1> HIDE DEF y
<1>11. ASSUME NEW i \in 1 .. K PROVE y[i] = raw[i]
  <2>1. CASE i < c
    <3>1. i \in 1 .. c /\ i \in 1 .. c - 1 /\ 1 + i - 1 = i
      <4> HIDE DEF K
      <4> QED
        BY <1>1, <1>4, <2>1
    <3> QED
      BY <1>6, <1>9, <1>10, <3>1
  <2>2. CASE i = c
    <3>1. c \in 1 .. c
      <4> HIDE DEF K
      <4> QED
        BY <1>1, <1>4
    <3> QED
      BY <1>9, <1>10, <2>2, <3>1 DEF x
  <2>3. CASE i > c
    <3> DEFINE j == i - c
    <3>1. j \in 1 .. K - c /\ c + j = i /\ (c + 1) + j - 1 = i
      <4> HIDE DEF K
      <4> QED
        BY <1>1, <1>4, <2>3
    <3> HIDE DEF j
    <3>2. y[c + j] = b[j] /\ b[j] = raw[(c + 1) + j - 1]
      BY <1>7, <1>10, <3>1
    <3> QED
      BY <3>1, <3>2
  <2> QED
    <3>1. i < c \/ i = c \/ i > c
      <4> HIDE DEF K
      <4> QED
        BY <1>1, <1>4
    <3> QED
      BY <2>1, <2>2, <2>3, <3>1
<1>12. raw = y
  BY <1>10, <1>11, SameText
<1>13. SplitAt(raw, l, x, b)
  BY <1>4, <1>8, <1>12, Zenon DEF SplitAt, y, a
<1> QED
  BY <1>4, <1>6, <1>7, <1>13

\* A line that ends where the next one starts, in front of anything.
LEMMA LineInFront ==
    ASSUME NEW A, NEW l \in Seq(A), NEW x \in A, NEW t \in Seq(A), Unbroken(l), x \in Breaks
    PROVE  /\ EndOfLine((l \o <<x>>) \o t, 1) = Len(l) + 1
           /\ tg_next_line((l \o <<x>>) \o t, 1) = Cut(l)
<1> DEFINE a == l \o <<x>>
           raw == a \o t
           K == Len(l)
           M == Len(t)
<1>1. <<x>> \in Seq(A) /\ Len(<<x>>) = 1 /\ <<x>>[1] = x /\ 1 \in 1 .. 1
  OBVIOUS
<1>2. /\ a \in Seq(A) /\ K \in Nat /\ Len(a) = K + 1
      /\ \A i \in 1 .. K : a[i] = l[i]
      /\ a[K + 1] = x
  BY <1>1, Behind
<1>3. /\ raw \in Seq(A) /\ M \in Nat /\ Len(raw) = (K + 1) + M
      /\ \A i \in 1 .. K + 1 : raw[i] = a[i]
  BY <1>2, Behind
<1>4. raw = l \o (<<x>> \o t) /\ <<x>> \o t \in Seq(A)
  BY <1>1, ConcatAssociative, ConcatProperties
<1> HIDE DEF a, raw, K, M
<1>5. EndsAt(raw, 1, K + 1)
  <2>1. K + 1 \in 1 .. ((K + 1) + M) + 1 /\ K + 1 \in 1 .. K + 1
    BY <1>2, <1>3
  <2>2. \A q \in 1 .. (K + 1) - 1 : q \in 1 .. K /\ q \in 1 .. K + 1
    BY <1>2
  <2>3. \A q \in 1 .. (K + 1) - 1 : raw[q] \notin Breaks
    BY <1>2, <1>3, <2>2 DEF Unbroken, K
  <2>4. raw[K + 1] = x
    BY <1>2, <1>3, <2>1
  <2> QED
    BY <1>3, <2>1, <2>3, <2>4 DEF EndsAt
<1>6. EndOfLine(raw, 1) = K + 1
  <2>1. 1 \in 1 .. Len(raw) + 1
    BY <1>2, <1>3
  <2> QED
    BY <1>3, <1>5, <2>1, EndOfLineOK
<1>7. tg_next_line(raw, 1) = Cut(l)
  BY <1>4, <1>6, LineTo DEF K
<1> QED
  BY <1>6, <1>7 DEF raw, a, K

\* The only line of a text without an end of line.
LEMMA LineAlone ==
    ASSUME NEW A, NEW l \in Seq(A), Unbroken(l)
    PROVE  EndOfLine(l, 1) = Len(l) + 1 /\ tg_next_line(l, 1) = Cut(l)
<1> DEFINE K == Len(l)
<1>1. K \in Nat /\ 1 \in 1 .. K + 1
  <2>1. K \in Nat
    OBVIOUS
  <2> HIDE DEF K
  <2> QED
    BY <2>1
<1>2. EndsAt(l, 1, K + 1)
  <2>1. \A q \in 1 .. (K + 1) - 1 : l[q] \notin Breaks
    <3>1. (K + 1) - 1 = K
      <4> HIDE DEF K
      <4> QED
        BY <1>1
    <3> QED
      BY <3>1 DEF Unbroken
  <2>2. K + 1 \in 1 .. K + 1 /\ ~(K + 1 <= K)
    <3> HIDE DEF K
    <3> QED
      BY <1>1
  <2> QED
    BY <2>1, <2>2 DEF EndsAt
<1>3. EndOfLine(l, 1) = K + 1
  BY <1>1, <1>2, EndOfLineOK
<1>4. l \o <<>> = l /\ <<>> \in Seq(A)
  BY ConcatEmptySeq
<1>5. tg_next_line(l \o <<>>, 1) = Cut(l)
  BY <1>3, <1>4, LineTo
<1> QED
  BY <1>3, <1>4, <1>5

\* The part of a text up to a position.
LEMMA UpTo ==
    ASSUME NEW A, NEW s \in Seq(A), NEW n \in 0 .. Len(s)
    PROVE  /\ SubSeq(s, 1, n) \in Seq(A) /\ Len(SubSeq(s, 1, n)) = n
           /\ \A i \in 1 .. n : SubSeq(s, 1, n)[i] = s[i]
<1> DEFINE K == Len(s)
<1>1. K \in Nat
  OBVIOUS
<1>2. 1 \in 1 .. K + 1 /\ n \in 1 - 1 .. K /\ n - 1 + 1 = n /\ \A i \in 1 .. n : 1 + i - 1 = i
  <2>1. n \in 0 .. K
    OBVIOUS
  <2> HIDE DEF K
  <2> QED
    BY <1>1, <2>1
<1>3. /\ SubSeq(s, 1, n) \in Seq(A) /\ Len(SubSeq(s, 1, n)) = n - 1 + 1
      /\ \A i \in 1 .. n - 1 + 1 : SubSeq(s, 1, n)[i] = s[1 + i - 1]
  BY <1>2, PartOf
<1> HIDE DEF K
<1> QED
  BY <1>2, <1>3

\* A first part is what it was cut from.
LEMMA UpToFront ==
    ASSUME NEW A, NEW l \in Seq(A), NEW t \in Seq(A)
    PROVE  SubSeq(l \o t, 1, Len(l)) = l
<1> DEFINE K == Len(l)
           y == l \o t
           u == SubSeq(y, 1, K)
<1>1. y \in Seq(A) /\ K \in Nat /\ Len(t) \in Nat /\ Len(y) = K + Len(t) /\ \A i \in 1 .. K : y[i] = l[i]
  BY Behind
<1>2. K \in 0 .. Len(y)
  <2> DEFINE M == Len(t)
  <2>1. M \in Nat /\ Len(y) = K + M
    BY <1>1
  <2> HIDE DEF M, K, y
  <2> QED
    BY <1>1, <2>1
<1> HIDE DEF y, K
<1>3. u \in Seq(A) /\ Len(u) = K /\ \A i \in 1 .. K : u[i] = y[i]
  BY <1>1, <1>2, UpTo
<1> HIDE DEF u
<1>4. u = l
  BY <1>1, <1>3, SameText DEF K
<1> QED
  BY <1>4 DEF u, y, K

\* What the encoder accepts behind a text it accepts by itself.
LEMMA AcceptedRest ==
    ASSUME NEW A, N \in A, NEW a \in Seq(A), NEW b \in Seq(A), tg_body_ok(a \o b)
    PROVE  tg_body_ok(b)
<1> DEFINE K == Len(a)
           M == Len(b)
           y == a \o b
<1>1. /\ y \in Seq(A) /\ K \in Nat /\ M \in Nat /\ Len(y) = K + M
      /\ \A i \in 1 .. M : y[K + i] = b[i]
  BY Behind
<1>2. tg_body_ok(y)
  OBVIOUS
<1> HIDE DEF K, M, y
<1> SUFFICES ASSUME NEW end \in Positions(b, {LF}) \cup {Len(b) + 1},
                    IsSuffix(TG_TERMINATOR, SubSeq(b, 1, end - 1))
             PROVE  FALSE
  BY DEF tg_body_ok
<1> DEFINE n == end - 1
           u == SubSeq(b, 1, n)
           v == SubSeq(y, 1, K + n)
<1>3. end \in 1 .. M + 1 /\ (end \in 1 .. M => b[end] = LF)
  <2>1. CASE end \in Positions(b, {LF})
    <3>1. end \in 1 .. M /\ b[end] = LF
      BY <2>1 DEF Positions, M
    <3> QED
      BY <1>1, <3>1
  <2>2. CASE end = M + 1
    BY <1>1, <2>2
  <2> QED
    BY <2>1, <2>2 DEF M
<1>4. n \in 0 .. M /\ K + n \in 0 .. K + M /\ K + n = (K + end) - 1
  BY <1>1, <1>3
<1>5. u \in Seq(A) /\ Len(u) = n /\ \A i \in 1 .. n : u[i] = b[i]
  <2> HIDE DEF n
  <2> QED
    BY <1>4, UpTo DEF M
<1>6. v \in Seq(A) /\ Len(v) = K + n /\ \A i \in 1 .. K + n : v[i] = y[i]
  <2> DEFINE k == K + n
  <2>1. k \in 0 .. Len(y)
    BY <1>1, <1>4
  <2> HIDE DEF k
  <2>2. SubSeq(y, 1, k) \in Seq(A) /\ Len(SubSeq(y, 1, k)) = k /\ \A i \in 1 .. k : SubSeq(y, 1, k)[i] = y[i]
    BY <1>1, <2>1, UpTo
  <2> QED
    BY <2>2 DEF k
<1>7. /\ TerminatorLength <= n
      /\ \A i \in 1 .. TerminatorLength : u[n - TerminatorLength + i] = N
  <2> HIDE DEF u
  <2>1. IsSuffix(TG_TERMINATOR, u)
    BY DEF u
  <2> HIDE DEF n
  <2> QED
    BY <1>5, <2>1, TerminatesOK
<1> HIDE DEF u, v, n
<1>8. IsSuffix(TG_TERMINATOR, v)
  <2> DEFINE T == TerminatorLength
  <2>1. T <= K + n
    BY <1>1, <1>4, <1>7, TelegramAssumption
  <2>2. ASSUME NEW i \in 1 .. T PROVE v[(K + n) - T + i] = N
    <3>1. /\ (K + n) - T + i = K + (n - T + i) /\ n - T + i \in 1 .. n /\ n - T + i \in 1 .. M
          /\ K + (n - T + i) \in 1 .. K + n
      BY <1>1, <1>4, <1>7, TelegramAssumption
    <3>2. v[K + (n - T + i)] = y[K + (n - T + i)]
      BY <1>6, <3>1
    <3>3. y[K + (n - T + i)] = b[n - T + i] /\ u[n - T + i] = b[n - T + i]
      BY <1>1, <1>5, <3>1
    <3> QED
      BY <1>7, <3>1, <3>2, <3>3
  <2> QED
    BY <1>6, <2>1, <2>2, TerminatesOK
<1>9. K + end \in Positions(y, {LF}) \cup {Len(y) + 1}
  <2>1. CASE end \in 1 .. M
    <3>1. K + end \in 1 .. K + M
      BY <1>1, <2>1
    <3>2. y[K + end] = LF
      BY <1>1, <1>3, <2>1
    <3> QED
      BY <1>1, <3>1, <3>2 DEF Positions
  <2>2. CASE end = M + 1
    <3>1. K + end = (K + M) + 1
      BY <1>1, <2>2
    <3> QED
      BY <1>1, <3>1
  <2>3. end \in 1 .. M \/ end = M + 1
    BY <1>1, <1>3
  <2> QED
    BY <2>1, <2>2, <2>3
<1> QED
  BY <1>2, <1>4, <1>8, <1>9 DEF tg_body_ok, v

\* No line of an accepted body ends in the terminator.
LEMMA AcceptedLine ==
    ASSUME NEW A, NEW l \in Seq(A), LF \in A, NEW b \in Seq(A), tg_body_ok((l \o <<LF>>) \o b)
    PROVE  ~IsSuffix(TG_TERMINATOR, l)
<1> DEFINE x == <<LF>>
           a == l \o x
           y == a \o b
           K == Len(l)
<1>1. x \in Seq(A) /\ Len(x) = 1 /\ x[1] = LF /\ 1 \in 1 .. 1
  OBVIOUS
<1> HIDE DEF x
<1>2. /\ a \in Seq(A) /\ K \in Nat /\ Len(a) = K + 1 /\ a[K + 1] = LF
  BY <1>1, Behind
<1>3. SubSeq(y, 1, K) = l
  <2> DEFINE xb == x \o b
  <2>1. xb \in Seq(A) /\ y = l \o xb
    BY <1>1, ConcatProperties, ConcatAssociative
  <2> HIDE DEF y, xb
  <2>2. SubSeq(l \o xb, 1, Len(l)) = l
    BY <2>1, UpToFront
  <2> QED
    BY <2>1, <2>2
<1> HIDE DEF a
<1>4. /\ y \in Seq(A) /\ Len(b) \in Nat /\ Len(y) = (K + 1) + Len(b) /\ \A i \in 1 .. K + 1 : y[i] = a[i]
  <2>1. a \in Seq(A)
    BY <1>2
  <2>2. y \in Seq(A) /\ Len(b) \in Nat /\ Len(y) = Len(a) + Len(b) /\ \A i \in 1 .. Len(a) : y[i] = a[i]
    BY <2>1, Behind
  <2> QED
    BY <1>2, <2>2, Zenon
<1>5. K + 1 \in 1 .. Len(y) /\ y[K + 1] = LF
  <2> DEFINE M == Len(b)
  <2>1. M \in Nat /\ Len(y) = (K + 1) + M
    BY <1>4
  <2> HIDE DEF M, K
  <2>2. K + 1 \in 1 .. (K + 1) + M /\ K + 1 \in 1 .. K + 1
    BY <1>2, <2>1
  <2> QED
    BY <1>2, <1>4, <2>1, <2>2
<1>6. tg_body_ok(y)
  BY DEF a, x
<1> HIDE DEF y, K
<1>7. K + 1 \in Positions(y, {LF})
  BY <1>5 DEF Positions
<1>8. (K + 1) - 1 = K
  BY <1>2
<1>9. ~IsSuffix(TG_TERMINATOR, SubSeq(y, 1, (K + 1) - 1))
  BY <1>6, <1>7 DEF tg_body_ok
<1> QED
  BY <1>3, <1>8, <1>9

\* The lines behind an end of line fit as well.
LEMMA RepresentableRest ==
    ASSUME NEW A, Spells(A), NEW a \in Seq(A), NEW b \in Seq(A), Representable(a \o b)
    PROVE  Representable(b)
<1> DEFINE K == Len(a)
           M == Len(b)
           y == a \o b
           T == TG_TERMINATOR
           t == b \o T
<1>1. /\ y \in Seq(A) /\ K \in Nat /\ M \in Nat /\ Len(y) = K + M
      /\ \A i \in 1 .. M : y[K + i] = b[i]
  BY Behind
<1>2. T \in Seq(A) /\ Len(T) = TerminatorLength
  BY TerminatorOK DEF Spells
<1> HIDE DEF T
<1>3. t \in Seq(A) /\ Len(t) = M + TerminatorLength /\ y \o T = a \o t
  <2>1. t \in Seq(A) /\ Len(t) = M + Len(T)
    BY <1>2, Behind
  <2>2. (a \o b) \o T = a \o (b \o T)
    BY <1>2, ConcatAssociative
  <2> QED
    BY <1>2, <2>1, <2>2, Zenon
<1> HIDE DEF K, M, y, t
<1>4. /\ Positions(y, {CR}) = {}
      /\ \A p \in 1 .. Len(y) + 1 : Len(tg_next_line(y \o T, p).text) = EndOfLine(y \o T, p) - p
  BY DEF Representable, y, T
<1>5. Positions(b, {CR}) = {}
  <2> SUFFICES ASSUME NEW i \in 1 .. M, b[i] = CR PROVE FALSE
    BY DEF Positions, M
  <2>1. K + i \in 1 .. K + M /\ y[K + i] = CR
    BY <1>1
  <2> QED
    BY <1>1, <1>4, <2>1 DEF Positions
<1>6. ASSUME NEW p \in 1 .. M + 1
      PROVE  Len(tg_next_line(t, p).text) = EndOfLine(t, p) - p
  <2>1. p \in 1 .. M + TerminatorLength /\ K + p \in 1 .. (K + M) + 1
    BY <1>1, TelegramAssumption
  <2>2. /\ tg_next_line(a \o t, K + p) = tg_next_line(t, p)
        /\ EndOfLine(a \o t, K + p) = K + EndOfLine(t, p)
    BY <1>3, <2>1, LineShift DEF K
  <2>3. Len(tg_next_line(a \o t, K + p).text) = EndOfLine(a \o t, K + p) - (K + p)
    BY <1>1, <1>3, <1>4, <2>1
  <2>4. EndOfLine(t, p) \in Nat
    <3>1. p \in 1 .. Len(t) + 1 /\ Len(t) \in Nat
      BY <1>1, <1>3, <2>1, TelegramAssumption
    <3>2. EndOfLine(t, p) \in p .. Len(t) + 1
      BY <1>3, <3>1, EndOfLineOK DEF EndsAt
    <3> QED
      BY <3>1, <3>2
  <2>5. (K + EndOfLine(t, p)) - (K + p) = EndOfLine(t, p) - p
    BY <1>1, <2>1, <2>4
  <2> QED
    BY <2>2, <2>3, <2>5
<1> QED
  BY <1>5, <1>6 DEF Representable, M, t, T

\* The decoder finds this body in front of the closing line.
FindsBody(body) ==
    LET rest  == Lines(body \o Closing)
        close == SelectInSeq(rest, Terminates)
    IN  close # 0 /\ BodyOf(rest, close) = body

\* A body of one line.
LEMMA OneLineFound ==
    ASSUME NEW A, Spells(A), NEW l \in Seq(A), Unbroken(l), Representable(l)
    PROVE  FindsBody(l)
<1> DEFINE T == TG_TERMINATOR
           x == <<LF>>
           y == l \o T
           K == Len(l)
           rest == Lines(l \o Closing)
           close == SelectInSeq(rest, Terminates)
<1>1. N \in A /\ LF \in A /\ LF \in Breaks /\ LF # CR
  BY DEF Spells, Breaks, LF, CR
<1>b. x \in Seq(A)
  BY <1>1
<1>2. /\ T \in Seq(A) /\ Len(T) = TerminatorLength /\ Unbroken(T)
      /\ TerminatorLength \in Nat \ {0} /\ \A i \in 1 .. TerminatorLength : T[i] = N
  BY <1>1, TerminatorOK
<1>a. Len(tg_next_line(y, 1).text) = EndOfLine(y, 1) - 1
  <2>1. 1 \in 1 .. K + 1
    <3>1. K \in Nat
      OBVIOUS
    <3> HIDE DEF K
    <3> QED
      BY <3>1
  <2> QED
    BY <2>1 DEF Representable
<1> HIDE DEF T, x
<1>3. /\ y \in Seq(A) /\ K \in Nat /\ Len(y) = K + TerminatorLength
      /\ \A i \in 1 .. K : y[i] = l[i]
      /\ \A i \in 1 .. TerminatorLength : y[K + i] = T[i]
  <2>1. /\ y \in Seq(A) /\ K \in Nat /\ Len(y) = K + Len(T)
        /\ \A i \in 1 .. K : y[i] = l[i]
        /\ \A i \in 1 .. Len(T) : y[K + i] = T[i]
    <3>1. T \in Seq(A)
      BY <1>2
    <3> QED
      BY <3>1, Behind
  <2> QED
    BY <1>2, <2>1, Zenon
<1>4. Unbroken(y)
  <2> SUFFICES ASSUME NEW i \in 1 .. Len(y) PROVE y[i] \notin Breaks
    BY DEF Unbroken
  <2>1. i \in 1 .. K + TerminatorLength
    BY <1>3
  <2> HIDE DEF y
  <2>2. CASE i \in 1 .. K
    BY <1>3, <2>2 DEF Unbroken
  <2>3. CASE i \notin 1 .. K
    <3> DEFINE j == i - K
    <3>0. K \in Nat
      BY <1>3
    <3>1. j \in 1 .. TerminatorLength /\ K + j = i
      <4> HIDE DEF K
      <4> QED
        BY <1>2, <2>1, <2>3, <3>0
    <3> HIDE DEF j
    <3> QED
      BY <1>2, <1>3, <3>1 DEF Unbroken
  <2> QED
    BY <2>2, <2>3
<1>5. l \o Closing = (y \o x) \o <<>>
  <2>1. Closing = T \o x
    BY DEF Closing, T, x
  <2>2. l \o (T \o x) = y \o x /\ y \o x \in Seq(A)
    <3>1. T \in Seq(A) /\ x \in Seq(A)
      BY <1>b, <1>2
    <3> HIDE DEF T, x
    <3>2. Then(Then(l, T), x) = Then(l, Then(T, x)) /\ Then(l, T) \in Seq(A)
      BY <3>1, ThenOK
    <3>3. Then(Then(l, T), x) \in Seq(A)
      BY <3>1, <3>2, ThenOK
    <3> QED
      BY <3>2, <3>3, Zenon DEF Then, y
  <2> DEFINE z == y \o x
  <2>3. z \in Seq(A)
    BY <2>2
  <2> HIDE DEF z
  <2>4. z \o <<>> = z
    BY <2>3, ConcatEmptySeq
  <2> QED
    BY <2>1, <2>2, <2>4, Zenon DEF z
<1> HIDE DEF y
<1>6. Lines((y \o x) \o <<>>) = <<Cut(y)>> \o Lines(<<>>)
  <2>1. <<>> \in Seq(A)
    OBVIOUS
  <2> QED
    BY <1>1, <1>3, <1>4, <2>1, LinesBreak DEF x
<1>7. EndOfLine(y, 1) = Len(y) + 1 /\ tg_next_line(y, 1) = Cut(y)
  BY <1>3, <1>4, LineAlone
<1>8. Cut(y).text = y
  <2>1. Len(y) \in Nat
    BY <1>3
  <2>2. (Len(y) + 1) - 1 = Len(y)
    BY <2>1
  <2>3. Len(Cut(y).text) = Len(y)
    BY <1>7, <1>a, <2>2, Zenon
  <2> QED
    BY <1>3, <2>3, Uncut
<1>9. rest = <<Cut(y)>>
  <2> DEFINE c == <<Cut(y)>>
  <2>1. c \in Seq({Cut(y)})
    OBVIOUS
  <2> HIDE DEF c
  <2>2. c \o <<>> = c
    BY <2>1, ConcatEmptySeq
  <2> QED
    BY <1>5, <1>6, <2>2, LinesNone, Zenon DEF c
<1>10. Cut(y) \in LineOver(A)
  BY <1>3, CutOver
<1>11. Terminates(Cut(y))
  <2>1. TerminatorLength <= Len(y) /\ \A i \in 1 .. TerminatorLength : y[Len(y) - TerminatorLength + i] = N
    <3>0. K \in Nat
      BY <1>3
    <3>1. TerminatorLength <= K + TerminatorLength
          /\ \A i \in 1 .. TerminatorLength : (K + TerminatorLength) - TerminatorLength + i = K + i
      <4> HIDE DEF K
      <4> QED
        BY <1>2, <3>0
    <3>2. Len(y) = K + TerminatorLength /\ \A i \in 1 .. TerminatorLength : y[K + i] = N
      BY <1>2, <1>3, Zenon
    <3> HIDE DEF K
    <3> QED
      BY <3>1, <3>2, Zenon
  <2>2. IsSuffix(TG_TERMINATOR, y)
    BY <1>1, <1>3, <2>1, TerminatesOK
  <2> QED
    BY <1>8, <2>2 DEF Terminates
<1> HIDE DEF rest
<1>12. rest \in Seq(LineOver(A)) /\ Len(rest) = 1 /\ rest[1] = Cut(y) /\ rest # <<>>
  <2> DEFINE c == Cut(y)
  <2> HIDE DEF c
  <2>1. c \in LineOver(A) /\ rest = <<c>>
    BY <1>9, <1>10 DEF c
  <2>2. rest \in Seq(LineOver(A)) /\ Len(rest) = 1 /\ rest[1] = c /\ rest # <<>>
    BY <2>1
  <2> QED
    BY <2>2 DEF c
<1>13. close = 1
  <2>1. close \in 0 .. 1 /\ (close = 0 <=> \A i \in 1 .. 1 : ~Terminates(rest[i]))
    BY <1>12, SelectOK
  <2>2. 1 \in 1 .. 1 /\ Terminates(rest[1])
    BY <1>11, <1>12
  <2>3. close # 0
    BY <2>1, <2>2
  <2> HIDE DEF close
  <2> QED
    BY <2>1, <2>3
<1>14. BodyOf(rest, 1) = SubSeq(rest[1].text, 1, Len(rest[1].text) - TerminatorLength)
  BY <1>1, <1>11, <1>12, BodyOfFirst
<1>15. SubSeq(y, 1, Len(y) - TerminatorLength) = l
  <2>0. K \in Nat
    BY <1>3
  <2>1. (K + TerminatorLength) - TerminatorLength = K
    <3> HIDE DEF K
    <3> QED
      BY <1>2, <2>0
  <2>2. SubSeq(l \o T, 1, Len(l)) = l
    BY <1>2, UpToFront
  <2> QED
    BY <1>3, <2>1, <2>2 DEF y
<1>16. BodyOf(rest, close) = l
  BY <1>8, <1>12, <1>13, <1>14, <1>15
<1> HIDE DEF close
<1> QED
  BY <1>13, <1>16 DEF FindsBody, rest, close

\* The decoder finds every accepted body whose lines fit its buffer.
LEMMA BodyFound ==
    ASSUME NEW A, Spells(A)
    PROVE  \A body \in Seq(A) : Representable(body) /\ tg_body_ok(body) => FindsBody(body)
<1> DEFINE S == {n \in Nat : \A body \in Seq(A) :
                    Len(body) = n /\ Representable(body) /\ tg_body_ok(body) => FindsBody(body)}
<1>0. N \in A /\ LF \in A /\ LF \in Breaks /\ LF # CR
  BY DEF Spells, Breaks, LF, CR
<1>1. ASSUME NEW n \in Nat, \A m \in 0 .. n - 1 : m \in S PROVE n \in S
  <2> SUFFICES ASSUME NEW body \in Seq(A), Len(body) = n, Representable(body), tg_body_ok(body)
               PROVE  FindsBody(body)
    OBVIOUS
  <2>1. CASE Unbroken(body)
    BY <2>1, OneLineFound
  <2>2. CASE ~Unbroken(body)
    <3>0. PICK l \in Seq(A), b \in Seq(A), x \in A : SplitAt(body, l, x, b)
      BY <2>2, SplitLine
    <3>1. Unbroken(l) /\ x \in Breaks /\ body = (l \o <<x>>) \o b
      BY <3>0 DEF SplitAt
    <3> DEFINE a == l \o <<x>>
               K == Len(l)
               M == Len(b)
    <3>2. <<x>> \in Seq(A) /\ Len(<<x>>) = 1 /\ <<x>>[1] = x /\ 1 \in 1 .. 1
      OBVIOUS
    <3>3. a \in Seq(A) /\ K \in Nat /\ Len(a) = K + 1 /\ a[K + 1] = x
      BY <3>2, Behind
    <3>4. /\ body = a \o b /\ M \in Nat /\ n = (K + 1) + M
          /\ \A i \in 1 .. K + 1 : body[i] = a[i]
      <4>1. body = a \o b
        BY <3>1
      <4> HIDE DEF a
      <4>2. /\ M \in Nat /\ Len(a \o b) = Len(a) + M
            /\ \A i \in 1 .. Len(a) : (a \o b)[i] = a[i]
        BY <3>3, Behind
      <4> QED
        BY <3>3, <4>1, <4>2
    <3>5. x = LF
      <4> HIDE DEF K, M, a
      <4>1. K + 1 \in 1 .. K + 1 /\ K + 1 \in 1 .. n
        BY <3>3, <3>4
      <4>2. body[K + 1] = x
        BY <3>3, <3>4, <4>1
      <4>3. Positions(body, {CR}) = {}
        BY DEF Representable
      <4> QED
        BY <3>1, <4>1, <4>2, <4>3 DEF Positions, Breaks
    <3>6. Representable(b) /\ tg_body_ok(b)
      <4> HIDE DEF a
      <4> QED
        BY <1>0, <3>3, <3>4, RepresentableRest, AcceptedRest
    <3>7. FindsBody(b)
      <4> HIDE DEF K, M
      <4>1. M \in 0 .. n - 1
        BY <3>3, <3>4
      <4>2. M \in S
        BY <1>1, <4>1
      <4> QED
        BY <3>6, <4>2 DEF M
    <3>8. ~IsSuffix(TG_TERMINATOR, l)
      BY <1>0, <3>1, <3>5, AcceptedLine
    <3> DEFINE T == TG_TERMINATOR
               bT == b \o T
    <3>9. T \in Seq(A) /\ bT \in Seq(A)
      <4>1. T \in Seq(A)
        BY <1>0, TerminatorOK
      <4> HIDE DEF T
      <4> QED
        BY <4>1, ConcatProperties
    <3>10. body \o T = a \o bT
      <4> HIDE DEF T, a
      <4>1. Then(Then(a, b), T) = Then(a, Then(b, T))
        BY <3>3, <3>9, ThenOK
      <4> QED
        BY <3>4, <4>1, Zenon DEF Then
    <3>11. Cut(l).text = l
      <4> HIDE DEF bT
      <4>1. EndOfLine(a \o bT, 1) = K + 1 /\ tg_next_line(a \o bT, 1) = Cut(l)
        BY <3>1, <3>9, LineInFront
      <4> HIDE DEF a
      <4>2. 1 \in 1 .. n + 1
        OBVIOUS
      <4>3. Len(tg_next_line(body \o T, 1).text) = EndOfLine(body \o T, 1) - 1
        BY <4>2 DEF Representable
      <4>4. (K + 1) - 1 = K
        <5> HIDE DEF K
        <5> QED
          BY <3>3
      <4>5. Len(Cut(l).text) = Len(l)
        BY <3>10, <4>1, <4>3, <4>4, Zenon
      <4> QED
        BY <4>5, Uncut
    <3> DEFINE rest == Lines(b \o Closing)
               all == Lines(body \o Closing)
               L == Cut(l)
    <3>12. all = <<L>> \o rest
      <4>1. Closing \in Seq(A) /\ b \o Closing \in Seq(A)
        <5>1. Closing \in Seq(A)
          BY ClosingRead
        <5> HIDE DEF Closing
        <5> QED
          BY <5>1, ConcatProperties
      <4> DEFINE t == b \o Closing
      <4>2. body \o Closing = a \o t
        <5> HIDE DEF a
        <5>1. Then(Then(a, b), Closing) = Then(a, Then(b, Closing))
          BY <3>3, <4>1, ThenOK
        <5> QED
          BY <3>4, <5>1, Zenon DEF Then
      <4> HIDE DEF t
      <4>3. Lines(a \o t) = <<L>> \o Lines(t)
        <5>1. t \in Seq(A)
          BY <4>1 DEF t
        <5>2. Unbroken(l) /\ x \in Breaks /\ x # CR
          BY <1>0, <3>1, <3>5, Zenon
        <5> HIDE <3>1, <3>4
        <5> QED
          BY <5>1, <5>2, LinesBreak
      <4> HIDE DEF a, L
      <4> QED
        BY <4>2, <4>3, Zenon DEF t
    <3>13. rest \in Seq(LineOver(A)) /\ L \in LineOver(A)
      <4>1. Closing \in Seq(A)
        BY ClosingRead
      <4> DEFINE t == b \o Closing
      <4>2. t \in Seq(A)
        BY <4>1, ConcatProperties
      <4> HIDE DEF t
      <4>3. Lines(t) \in Seq(LineOver(A))
        BY <4>2, LinesType
      <4>4. L \in LineOver(A)
        BY CutOver
      <4> QED
        BY <4>3, <4>4 DEF t
    <3>14. ~Terminates(L)
      BY <3>8, <3>11 DEF Terminates
    <3> DEFINE close == SelectInSeq(rest, Terminates)
               after == SelectInSeq(all, Terminates)
    <3>15. close # 0 /\ BodyOf(rest, close) = b
      BY <3>7 DEF FindsBody
    <3>16. L.text = l
      BY <3>11
    <3> HIDE DEF rest, L
    <3>17. /\ SelectInSeq(<<L>> \o rest, Terminates) # 0
           /\ BodyOf(<<L>> \o rest, SelectInSeq(<<L>> \o rest, Terminates))
                 = (L.text \o <<LF>>) \o BodyOf(rest, close)
      BY <1>0, <3>13, <3>14, <3>15, OneMoreLine
    <3> HIDE DEF all
    <3>18. after # 0 /\ BodyOf(all, after) = (l \o <<LF>>) \o b
      BY <3>12, <3>15, <3>16, <3>17, Zenon
    <3>19. body = (l \o <<LF>>) \o b
      BY <3>1, <3>5
    <3> HIDE DEF after
    <3>20. after # 0 /\ BodyOf(all, after) = body
      BY <3>18, <3>19, Zenon
    <3> QED
      BY <3>20 DEF FindsBody, all, after
  <2> QED
    BY <2>1, <2>2
<1>2. \A n \in Nat : n \in S
  <2> HIDE DEF S
  <2> QED
    BY <1>1, Descent
<1>3. ASSUME NEW body \in Seq(A), Representable(body), tg_body_ok(body) PROVE FindsBody(body)
  <2>1. Len(body) \in Nat
    OBVIOUS
  <2>2. Len(body) \in S
    BY <1>2, <2>1
  <2> QED
    BY <1>3, <2>2
<1> QED
  BY <1>3

-----------------------------------------------------------------------------
(* Encoder and decoder together *)

\* Header and metadata line of a text, the wire that the encoder puts together
\* symbol by symbol, and how the decoder sees it.
TextFront(r, s, sn, ts) == Header("ZCZC TEXT", r, s) \o <<Numeral(sn), Numeral(ts), LF>>
TextBuilt(r, s, sn, ts, body) == TextFront(r, s, sn, ts) \o body \o TG_TERMINATOR \o <<LF>>
TextWire(r, s, sn, ts, body) == TextFront(r, s, sn, ts) \o (body \o Closing)

\* Joining adds the lengths.
LEMMA ThenLen ==
    ASSUME NEW A
    PROVE  \A h, r \in Seq(A) : /\ Then(h, r) \in Seq(A) /\ Len(h) \in Nat /\ Len(r) \in Nat
                                /\ Len(Then(h, r)) = Len(h) + Len(r)
<1> SUFFICES ASSUME NEW h \in Seq(A), NEW r \in Seq(A)
             PROVE  /\ h \o r \in Seq(A) /\ Len(h) \in Nat /\ Len(r) \in Nat
                    /\ Len(h \o r) = Len(h) + Len(r)
  BY Zenon DEF Then
<1> QED
  BY Behind

\* The header of a telegram is a text.
LEMMA HeaderOver ==
    ASSUME NEW A, NEW w \in A, LF \in A, NEW r \in Seq(A), NEW s \in Seq(A)
    PROVE  /\ Header(w, r, s) \in Seq(A)
           /\ Len(Header(w, r, s)) = 4 + Len(r) + Len(s)
<1> DEFINE x == <<LF>>
           h == <<w, LF>>
<1>1. x \in Seq(A) /\ h \in Seq(A) /\ Len(x) = 1 /\ Len(h) = 2
  OBVIOUS
<1> HIDE DEF x, h
<1> DEFINE a == Then(h, r)
           b == Then(a, x)
           c == Then(b, s)
           d == Then(c, x)
<1>2. a \in Seq(A) /\ Len(a) = 2 + Len(r) /\ Len(r) \in Nat /\ Len(s) \in Nat
  BY <1>1, ThenLen
<1> HIDE DEF a
<1>3. b \in Seq(A) /\ Len(b) = Len(a) + 1
  <2>1. x \in Seq(A) /\ a \in Seq(A)
    BY <1>1, <1>2
  <2>2. b \in Seq(A) /\ Len(b) = Len(a) + Len(x)
    BY <2>1, ThenLen, Zenon
  <2> QED
    BY <1>1, <2>2, Zenon
<1> HIDE DEF b
<1>4. c \in Seq(A) /\ Len(c) = Len(b) + Len(s)
  BY <1>3, ThenLen
<1> HIDE DEF c
<1>5. d \in Seq(A) /\ Len(d) = Len(c) + 1
  <2>1. x \in Seq(A) /\ c \in Seq(A)
    BY <1>1, <1>4
  <2>2. d \in Seq(A) /\ Len(d) = Len(c) + Len(x)
    BY <2>1, ThenLen, Zenon
  <2> QED
    BY <1>1, <2>2, Zenon
<1> HIDE DEF d
<1>6. Len(d) = 4 + Len(r) + Len(s)
  BY <1>2, <1>3, <1>4, <1>5
<1>7. d = Header(w, r, s)
  BY Zenon DEF d, c, b, a, h, x, Header, Then
<1> QED
  BY <1>5, <1>6, <1>7, Zenon

\* Header and metadata line.
LEMMA FrontOver ==
    ASSUME NEW A, Spells(A), NEW r \in Seq(A), NEW s \in Seq(A), NEW sn \in Numbers, NEW ts \in Numbers
    PROVE  /\ TextFront(r, s, sn, ts) \in Seq(A)
           /\ Len(TextFront(r, s, sn, ts)) = 7 + Len(r) + Len(s)
<1> DEFINE w == "ZCZC TEXT"
           h == Header(w, r, s)
           a == Numeral(sn)
           b == Numeral(ts)
           m == <<a, b, LF>>
<1>1. w \in A /\ LF \in A /\ a \in A /\ b \in A
  BY DEF Spells
<1> HIDE DEF a, b, w
<1>3. m \in Seq(A) /\ Len(m) = 3
  BY <1>1
<1> HIDE DEF m
<1>2. h \in Seq(A) /\ Len(h) = 4 + Len(r) + Len(s)
  BY <1>1, HeaderOver
<1> HIDE DEF h
<1> DEFINE f == Then(h, m)
<1>4. f \in Seq(A) /\ Len(f) = Len(h) + Len(m) /\ Len(h) \in Nat
  BY <1>2, <1>3, ThenLen
<1> HIDE DEF f
<1>5. Len(f) = 7 + Len(r) + Len(s)
  <2>1. Len(r) \in Nat /\ Len(s) \in Nat
    BY LenProperties
  <2> QED
    BY <1>2, <1>3, <1>4, <2>1
<1> QED
  BY <1>4, <1>5, Zenon DEF f, h, m, w, a, b, Then, TextFront

\* The encoder appends the body, the terminator and a line feed one by one.
LEMMA TextWireOK ==
    ASSUME NEW A, Spells(A), NEW r \in Seq(A), NEW s \in Seq(A),
           NEW sn \in Numbers, NEW ts \in Numbers, NEW body \in Seq(A)
    PROVE  /\ TextBuilt(r, s, sn, ts, body) = TextWire(r, s, sn, ts, body)
           /\ Len(TextWire(r, s, sn, ts, body)) = 8 + Len(r) + Len(s) + Len(body) + TerminatorLength
<1> DEFINE f == TextFront(r, s, sn, ts)
           x == <<LF>>
<1>1. f \in Seq(A) /\ Len(f) = 7 + Len(r) + Len(s)
  BY FrontOver
<1>2. /\ TG_TERMINATOR \in Seq(A) /\ Len(TG_TERMINATOR) = TerminatorLength
      /\ TerminatorLength \in Nat
  BY TerminatorOK DEF Spells
<1>3. x \in Seq(A) /\ Len(x) = 1
  <2>1. LF \in A
    BY DEF Spells
  <2> QED
    BY <2>1
<1> HIDE DEF f, x
<1>4. Then(Then(Then(f, body), TG_TERMINATOR), x) = Then(f, Then(body, Then(TG_TERMINATOR, x)))
  <2>1. Then(f, body) \in Seq(A) /\ Then(TG_TERMINATOR, x) \in Seq(A)
    BY <1>1, <1>2, <1>3, ThenOK
  <2>2. Then(Then(Then(f, body), TG_TERMINATOR), x) = Then(Then(f, body), Then(TG_TERMINATOR, x))
    BY <1>2, <1>3, <2>1, ThenOK
  <2>3. Then(Then(f, body), Then(TG_TERMINATOR, x)) = Then(f, Then(body, Then(TG_TERMINATOR, x)))
    BY <1>1, <2>1, ThenOK
  <2> QED
    BY <2>2, <2>3
<1> DEFINE c == Then(TG_TERMINATOR, x)
           d == Then(body, c)
           e == Then(f, d)
<1>5. c \in Seq(A) /\ Len(c) = TerminatorLength + 1
  BY <1>2, <1>3, ThenLen
<1> HIDE DEF c
<1>6. d \in Seq(A) /\ Len(d) = Len(body) + Len(c) /\ Len(body) \in Nat
  BY <1>5, ThenLen
<1> HIDE DEF d
<1>7. Len(e) = Len(f) + Len(d)
  BY <1>1, <1>6, ThenLen
<1>8. e = TextWire(r, s, sn, ts, body)
  BY Zenon DEF e, d, c, f, x, TextWire, Closing, Then
<1>9. TextBuilt(r, s, sn, ts, body) = e
  BY <1>4, Zenon DEF e, d, c, f, x, Then, TextBuilt
<1> HIDE DEF e
<1>10. Len(e) = 8 + Len(r) + Len(s) + Len(body) + TerminatorLength
  <2>1. Len(r) \in Nat /\ Len(s) \in Nat
    BY LenProperties
  <2> QED
    BY <1>1, <1>2, <1>5, <1>6, <1>7, <2>1
<1> QED
  BY <1>8, <1>9, <1>10, Zenon

\* What the encoder accepts it writes in full.
LEMMA Encoded ==
    ASSUME NEW A, Spells(A), NEW r \in Seq(A), NEW s \in Seq(A), NEW sn \in Int, NEW ts \in Numbers,
           NEW body \in Seq(A), NEW size, tg_encode_text(size, r, s, sn, ts, body).result = "TG_OK"
    PROVE  /\ tg_field_ok(r) /\ tg_field_ok(s) /\ sn \in Serials /\ tg_body_ok(body)
           /\ tg_encode_text(size, r, s, sn, ts, body).out = TextWire(r, s, sn, ts, body)
<1> DEFINE wire == TextBuilt(r, s, sn, ts, body)
           answer == tg_encode_text(size, r, s, sn, ts, body)
<1>1. /\ tg_field_ok(r) /\ tg_field_ok(s) /\ tg_sn_valid(sn) /\ tg_body_ok(body)
      /\ answer = Built(size, wire)
  <2> HIDE DEF wire
  <2>1. answer = IF ~tg_field_ok(r) \/ ~tg_field_ok(s) THEN Failed("TG_ERR_FORMAT")
                 ELSE IF ~tg_sn_valid(sn) THEN Failed("TG_ERR_RANGE")
                 ELSE IF ~tg_body_ok(body) THEN Failed("TG_ERR_FORMAT")
                 ELSE Built(size, wire)
    BY Zenon DEF tg_encode_text, wire, TextBuilt, TextFront
  <2>2. answer.result = "TG_OK"
    OBVIOUS
  <2> HIDE DEF answer
  <2> QED
    BY <2>1, <2>2 DEF Failed
<1>2. answer.out = wire
  <2>1. answer.result = "TG_OK"
    OBVIOUS
  <2> HIDE DEF wire, answer
  <2> QED
    BY <1>1, <2>1 DEF Built, Failed, Written
<1>3. sn \in Serials /\ sn \in Numbers
  <2>1. sn \in Serials
    <3>1. tg_sn_valid(sn)
      BY <1>1, Zenon
    <3> QED
      BY <3>1, SerialAssumption DEF tg_sn_valid, Serials, TG_SN_MIN
  <2> QED
    BY <2>1, SerialOK
<1>4. wire = TextWire(r, s, sn, ts, body)
  <2> HIDE DEF wire
  <2>1. sn \in Numbers
    BY <1>3
  <2>2. TextBuilt(r, s, sn, ts, body) = TextWire(r, s, sn, ts, body)
    BY <2>1, TextWireOK
  <2> QED
    BY <2>2, Zenon DEF wire
<1> HIDE DEF wire, answer
<1>5. answer.out = TextWire(r, s, sn, ts, body)
  BY <1>2, <1>4, Zenon
<1> QED
  BY <1>1, <1>3, <1>5, Zenon DEF answer

\* tg_encode_text and tg_decode, src/telegram.c: what the encoder accepts, the
\* decoder reads back symbol by symbol, with every field, whatever lines and
\* terminators the body is made of, or refuses for want of room; provided that
\* the lines end in line feeds and fit the decoder's line buffer.
THEOREM TextReadBack ==
    ASSUME NEW A, Spells(A), NEW r \in Seq(A), NEW s \in Seq(A), NEW sn \in Int, NEW ts \in Longs,
           NEW body \in Seq(A), NEW size, tg_encode_text(size, r, s, sn, ts, body).result = "TG_OK",
           Representable(body)
    PROVE  tg_decode(tg_encode_text(size, r, s, sn, ts, body).out) =
              IF Len(body) + 1 < TG_BODY_MAX
                THEN [kind |-> "TG_TEXT", receiver |-> r, sender |-> s, sn |-> sn, sn_to |-> 0,
                      timestamp |-> ts, body |-> body]
                ELSE TG_INVALID
<1> DEFINE wire == tg_encode_text(size, r, s, sn, ts, body).out
           t == body \o Closing
           rest == Lines(t)
           close == SelectInSeq(rest, Terminates)
<1>1. /\ tg_field_ok(r) /\ tg_field_ok(s) /\ sn \in Serials /\ tg_body_ok(body)
      /\ wire = TextWire(r, s, sn, ts, body)
  BY Encoded, LongOK
<1>2. FindsBody(body)
  BY <1>1, BodyFound
<1>3. close # 0 /\ BodyOf(rest, close) = body
  BY <1>2 DEF FindsBody
<1>4. t \in Seq(A)
  BY ClosingRead, Behind
<1> HIDE DEF t, wire
<1>5. tg_decode(Header("ZCZC TEXT", r, s) \o <<Numeral(sn), Numeral(ts), LF>> \o t)
         = TextOf(r, s, sn, ts, rest)
  <2>1. tg_field_ok(r) /\ tg_field_ok(s) /\ sn \in Serials
    BY <1>1, Zenon
  <2> HIDE DEF rest
  <2> QED
    BY <1>4, <2>1, DecodeText DEF rest
<1>6. tg_decode(wire) = TextOf(r, s, sn, ts, rest)
  BY <1>1, <1>5, Zenon DEF TextWire, TextFront, t
<1> HIDE DEF rest, close
<1>7. TextOf(r, s, sn, ts, rest) =
         IF close = 0 \/ Len(BodyOf(rest, close)) + 1 >= TG_BODY_MAX THEN TG_INVALID
         ELSE [kind |-> "TG_TEXT", receiver |-> r, sender |-> s, sn |-> sn, sn_to |-> 0,
               timestamp |-> ts, body |-> BodyOf(rest, close)]
  BY Zenon DEF TextOf, close
<1> DEFINE K == Len(body)
<1>8. K \in Nat /\ (K + 1 >= TG_BODY_MAX <=> ~(K + 1 < TG_BODY_MAX))
  <2>1. K \in Nat
    OBVIOUS
  <2> HIDE DEF K
  <2> QED
    BY <2>1, TelegramAssumption
<1> QED
  BY <1>3, <1>6, <1>7, <1>8, Zenon DEF wire, K

-----------------------------------------------------------------------------
(* A line that is typed *)

\* The decoder reads a typed line as one line, and the closing line after it.
LEMMA TypedRead ==
    ASSUME NEW A, Spells(A), NEW t \in Seq(A), Unbroken(t), NEW key \in {LF, CR}
    PROVE  Lines((t \o <<key>>) \o Closing) = <<Cut(t)>> \o <<ClosingLine>>
<1>1. key \in A /\ key \in Breaks
  BY DEF Spells, Breaks
<1>2. Closing \in Seq(A) /\ Closing[1] # LF /\ Lines(Closing) = <<ClosingLine>>
  BY ClosingRead
<1>3. Lines((t \o <<key>>) \o Closing) = <<Cut(t)>> \o Lines(Closing)
  BY <1>1, <1>2, LinesBreak
<1> QED
  BY <1>2, <1>3, Zenon

\* One of the two closes the telegram, and the body is no longer than the line.
LEMMA TypedBody ==
    ASSUME NEW A, Spells(A), NEW t \in Seq(A)
    PROVE  LET rest  == <<Cut(t)>> \o <<ClosingLine>>
               close == SelectInSeq(rest, Terminates)
           IN  close # 0 /\ Len(BodyOf(rest, close)) \in 0 .. Len(t) + 1
<1> DEFINE c == ClosingLine
           L == Cut(t)
           one == <<c>>
           rest == <<L>> \o one
           close == SelectInSeq(rest, Terminates)
<1>0. N \in A /\ LF \in A
  BY DEF Spells
<1>1. c \in LineOver(A) /\ Terminates(c) /\ L \in LineOver(A)
  BY ClosingRead, CutOver
<1>2. L.text \in Seq(A) /\ Len(L.text) <= Len(t) /\ Len(L.text) \in Nat /\ Len(t) \in Nat
  BY Uncut
<1> HIDE DEF c, L
<1>3. one \in Seq(LineOver(A)) /\ one # <<>> /\ Len(one) = 1 /\ one[1] = c
  BY <1>1
<1> HIDE DEF one
<1>4. /\ rest \in Seq(LineOver(A)) /\ Len(rest) = 2
      /\ rest[1] = L /\ rest[2] = c
  <2>1. /\ <<L>> \o one \in Seq(LineOver(A)) /\ Len(<<L>> \o one) = 1 + Len(one)
        /\ (<<L>> \o one)[1] = L
        /\ \A i \in 1 .. Len(one) : (<<L>> \o one)[1 + i] = one[i]
    BY <1>1, <1>3, Front1
  <2> HIDE DEF rest
  <2>2. Len(rest) = 1 + 1 /\ \A i \in 1 .. 1 : rest[1 + i] = one[i]
    BY <1>3, <2>1, Zenon DEF rest
  <2>3. Len(rest) = 2 /\ rest[2] = c
    BY <1>3, <2>2
  <2> QED
    BY <2>1, <2>3, Zenon DEF rest
<1>5. CASE Terminates(L)
  <2> HIDE DEF rest
  <2>1. close \in 0 .. Len(rest) /\ (close # 0 => \A i \in 1 .. close - 1 : ~Terminates(rest[i]))
        /\ (close = 0 <=> \A i \in 1 .. Len(rest) : ~Terminates(rest[i]))
    BY <1>4, SelectOK
  <2> HIDE DEF close
  <2>2. close = 1
    BY <1>4, <1>5, <2>1
  <2>3. rest # <<>> /\ Terminates(rest[1])
    <3>1. Len(rest) = 2
      BY <1>4
    <3>2. rest # <<>>
      <4>1. Len(<<>>) # 2
        OBVIOUS
      <4> QED
        BY <3>1, <4>1, Zenon
    <3> QED
      BY <1>4, <1>5, <3>2, Zenon
  <2>4. Len(BodyOf(rest, 1)) = Len(L.text) - TerminatorLength
    BY <1>0, <1>4, <2>3, BodyOfFirst
  <2>5. TerminatorLength \in Nat /\ TerminatorLength <= Len(L.text)
    BY <1>0, <1>2, <1>5, TerminatesOK, TelegramAssumption DEF Terminates
  <2>6. Len(BodyOf(rest, close)) \in 0 .. Len(t) + 1
    BY <1>2, <2>2, <2>4, <2>5
  <2> QED
    BY <2>2, <2>6 DEF close, rest, one, c, L
<1>6. CASE ~Terminates(L)
  <2>1. SelectInSeq(one, Terminates) = 1
    <3> DEFINE k == SelectInSeq(one, Terminates)
    <3>1. k \in 0 .. Len(one) /\ (k = 0 <=> \A i \in 1 .. Len(one) : ~Terminates(one[i]))
      BY <1>3, SelectOK
    <3> HIDE DEF k
    <3>2. k = 1
      BY <1>1, <1>3, <3>1
    <3> QED
      BY <3>2 DEF k
  <2>2. close # 0 /\ BodyOf(rest, close) = (L.text \o <<LF>>) \o BodyOf(one, 1)
    <3> HIDE DEF rest
    <3>1. SelectInSeq(one, Terminates) # 0
      BY <2>1
    <3>2. /\ SelectInSeq(<<L>> \o one, Terminates) # 0
          /\ BodyOf(<<L>> \o one, SelectInSeq(<<L>> \o one, Terminates))
                = (L.text \o <<LF>>) \o BodyOf(one, SelectInSeq(one, Terminates))
      BY <1>0, <1>1, <1>3, <1>6, <3>1, OneMoreLine, Zenon
    <3> QED
      BY <2>1, <3>2, Zenon DEF rest
  <2>3. BodyOf(one, 1) \in Seq(A) /\ Len(BodyOf(one, 1)) = 0
    <3>1. Terminates(one[1])
      BY <1>1, <1>3
    <3>2. BodyOf(one, 1) \in Seq(A) /\ Len(BodyOf(one, 1)) = Len(one[1].text) - TerminatorLength
      BY <1>0, <1>3, <3>1, BodyOfFirst
    <3>3. Len(one[1].text) = TerminatorLength /\ TerminatorLength \in Nat
      BY <1>0, <1>3, TerminatorOK DEF ClosingLine, c
    <3> QED
      BY <3>2, <3>3
  <2> DEFINE b == BodyOf(one, 1)
             x == <<LF>>
             l == L.text
  <2>4. x \in Seq(A) /\ Len(x) = 1 /\ b \in Seq(A) /\ l \in Seq(A) /\ Len(b) = 0
    BY <1>0, <1>2, <2>3
  <2> HIDE DEF b, x, l
  <2>5. Then(l, x) \in Seq(A) /\ Len(Then(l, x)) = Len(l) + 1
    <3>1. Then(l, x) \in Seq(A) /\ Len(Then(l, x)) = Len(l) + Len(x)
      BY <2>4, ThenLen, Zenon
    <3> QED
      BY <2>4, <3>1, Zenon
  <2>6. Len(Then(Then(l, x), b)) = Len(Then(l, x)) + Len(b)
    BY <2>4, <2>5, ThenLen, Zenon
  <2>7. BodyOf(rest, close) = Then(Then(l, x), b)
    BY <2>2, Zenon DEF Then, l, x, b
  <2> DEFINE B == BodyOf(rest, close)
  <2>8. Len(B) = Len(Then(l, x)) + Len(b)
    BY <2>6, <2>7, Zenon
  <2>9. Len(l) <= Len(t) /\ Len(l) \in Nat /\ Len(t) \in Nat
    BY <1>2 DEF l
  <2> HIDE DEF B
  <2>10. Len(B) \in 0 .. Len(t) + 1
    BY <2>4, <2>5, <2>8, <2>9
  <2> QED
    BY <2>2, <2>10, Zenon DEF B, close, rest, one, c, L
<1> QED
  BY <1>5, <1>6

\* What is typed, and what a telegram is made of.
Alphabet ==
    Keyboard \cup {LF, CR, N, "ZCZC TEXT", "ZCZC CMD", "R:", "key", "self", "k", "1"}
    \cup {Numeral(n) : n \in Numbers} \cup {Numeral(c) : c \in Channels}

\* The alphabet has what a telegram is made of.
LEMMA AlphabetOK == Spells(Alphabet) /\ 1 \in Numbers /\ 1 \in Longs
<1>1. Spells(Alphabet)
  BY DEF Alphabet, Spells
<1>2. 1 \in Numbers /\ 1 \in Longs
  BY SerialAssumption, TelegramAssumption DEF Numbers, Longs
<1> QED
  BY <1>1, <1>2

\* Two symbols that end no line are a field.
LEMMA PairIsField ==
    ASSUME NEW A, NEW a \in A, NEW b \in A, a \notin Breaks, b \notin Breaks
    PROVE  <<a, b>> \in Seq(A) /\ Len(<<a, b>>) = 2 /\ tg_field_ok(<<a, b>>)
<1> DEFINE f == <<a, b>>
<1>1. f \in Seq(A) /\ Len(f) = 2 /\ f[1] = a /\ f[2] = b /\ f # <<>>
  OBVIOUS
<1> HIDE DEF f
<1>2. \A i \in 1 .. 2 : i = 1 \/ i = 2
  OBVIOUS
<1>3. Positions(f, {LF, CR}) = {}
  BY <1>1, <1>2 DEF Positions, Breaks
<1>4. Len(f) < TG_FIELD_MAX
  BY <1>1, TelegramAssumption
<1> QED
  BY <1>1, <1>3, <1>4, Zenon DEF tg_field_ok, f

\* Public keys are fields.
LEMMA KeysAreFields ==
    ASSUME NEW c \in Channels, c \in listed
    PROVE  /\ public_key_str(c) \in Seq(Alphabet) /\ Len(public_key_str(c)) = 2
           /\ tg_field_ok(public_key_str(c))
           /\ self_public_key_str \in Seq(Alphabet) /\ Len(self_public_key_str) = 2
           /\ tg_field_ok(self_public_key_str)
<1>1. "key" \in Alphabet /\ "self" \in Alphabet /\ Numeral(c) \in Alphabet
  BY DEF Alphabet
<1>2. "key" \notin Breaks /\ "self" \notin Breaks
  BY DEF Breaks, LF, CR
<1>3. Numeral(c) \notin Breaks
  BY LineAssumption DEF Breaks
<1>4. /\ <<"key", Numeral(c)>> \in Seq(Alphabet) /\ Len(<<"key", Numeral(c)>>) = 2
      /\ tg_field_ok(<<"key", Numeral(c)>>)
  BY <1>1, <1>2, <1>3, PairIsField, Zenon
<1>5. /\ <<"key", "self">> \in Seq(Alphabet) /\ Len(<<"key", "self">>) = 2
      /\ tg_field_ok(<<"key", "self">>)
  BY <1>1, <1>2, PairIsField, Zenon
<1> QED
  BY <1>4, <1>5, Zenon DEF public_key_str, self_public_key_str

\* Keys that were typed end no line.
LEMMA TypedUnbroken ==
    ASSUME NEW t \in Seq(Keyboard), NEW key \in {LF, CR}
    PROVE  /\ t \in Seq(Alphabet) /\ Unbroken(t) /\ Len(t) \in Nat
           /\ Append(t, key) = t \o <<key>> /\ Append(t, key) \in Seq(Alphabet)
           /\ Len(Append(t, key)) = Len(t) + 1
           /\ Append(t, key)[Len(t) + 1] = key
           /\ \A i \in 1 .. Len(t) : Append(t, key)[i] = t[i]
<1>1. Keyboard \subseteq Alphabet /\ key \in Alphabet
  BY DEF Alphabet
<1>2. t \in Seq(Alphabet) /\ Len(t) \in Nat
  BY <1>1
<1>3. Unbroken(t)
  BY LineAssumption DEF Unbroken, Breaks
<1> DEFINE a == Append(t, key)
           x == <<key>>
<1>4. /\ a \in Seq(Alphabet) /\ Len(a) = Len(t) + 1 /\ a[Len(t) + 1] = key
      /\ \A i \in 1 .. Len(t) : a[i] = t[i]
  BY <1>1, <1>2
<1>5. x \in Seq(Alphabet) /\ Len(x) = 1 /\ x[1] = key
  BY <1>1
<1> HIDE DEF a, x
<1> DEFINE b == t \o x
<1>6. /\ b \in Seq(Alphabet) /\ Len(b) = Len(t) + 1
      /\ \A i \in 1 .. Len(t) : b[i] = t[i]
      /\ b[Len(t) + 1] = key
  <2>1. /\ b \in Seq(Alphabet) /\ Len(b) = Len(t) + Len(x)
        /\ \A i \in 1 .. Len(t) : b[i] = t[i]
        /\ \A i \in 1 .. Len(x) : b[Len(t) + i] = x[i]
    <3>1. t \in Seq(Alphabet) /\ x \in Seq(Alphabet)
      BY <1>2, <1>5
    <3> QED
      BY <3>1, Behind
  <2>2. 1 \in 1 .. Len(x)
    BY <1>5
  <2> HIDE DEF b
  <2> QED
    BY <1>5, <2>1, <2>2, Zenon
<1> HIDE DEF b
<1>7. a = b
  <2>1. \A i \in 1 .. Len(a) : a[i] = b[i]
    <3>1. \A i \in 1 .. Len(a) : i \in 1 .. Len(t) \/ i = Len(t) + 1
      BY <1>2, <1>4
    <3> QED
      BY <1>4, <1>6, <3>1, Zenon
  <2> QED
    BY <1>4, <1>6, <2>1, SameText
<1> QED
  BY <1>2, <1>3, <1>4, <1>7, Zenon DEF a, b, x

\* What the encoder answers to a line for channel c.
LineWire(c, sn, line) ==
    tg_encode_text(WireMax, public_key_str(c), self_public_key_str, sn, 1, line)

\* Without an entry there is no telegram.
LEMMA NoKeyNoTelegram ==
    ASSUME NEW c, c \notin listed, NEW sn, NEW line
    PROVE  LineWire(c, sn, line).result # "TG_OK"
<1>1. ~tg_field_ok(public_key_str(c))
  BY DEF public_key_str, tg_field_ok
<1>2. LineWire(c, sn, line) = Failed("TG_ERR_FORMAT")
  BY <1>1, Zenon DEF LineWire, tg_encode_text
<1> QED
  BY <1>2 DEF Failed

\* The decoder accepts the telegram of a typed line, whichever way it was ended.
LEMMA TypedDecoded ==
    ASSUME NEW c \in Channels, c \in listed, NEW sn \in Serials, NEW t \in Seq(Keyboard), Len(t) <= KeyMax,
           NEW key \in {LF, CR}, LineWire(c, sn, Append(t, key)).result = "TG_OK"
    PROVE  LET message == tg_decode(LineWire(c, sn, Append(t, key)).out) IN
           /\ message.kind = "TG_TEXT" /\ message.receiver = public_key_str(c)
           /\ message.sender = self_public_key_str /\ message.sn = sn
<1> DEFINE A == Alphabet
           line == Append(t, key)
           r == public_key_str(c)
           s == self_public_key_str
           wire == LineWire(c, sn, line).out
           body == line \o Closing
           rest == Lines(body)
           close == SelectInSeq(rest, Terminates)
<1>1. /\ t \in Seq(A) /\ Unbroken(t) /\ Len(t) \in Nat
      /\ line = t \o <<key>> /\ line \in Seq(A)
  BY TypedUnbroken
<1>2. Spells(A) /\ 1 \in Numbers /\ 1 \in Longs /\ sn \in Int
  BY AlphabetOK, SerialAssumption DEF Serials, TG_SN_MIN
<1>3. r \in Seq(A) /\ s \in Seq(A) /\ tg_field_ok(r) /\ tg_field_ok(s)
  BY KeysAreFields
<1> HIDE DEF r, s, line
<1>4. wire = TextWire(r, s, sn, 1, line)
  <2>1. tg_encode_text(WireMax, r, s, sn, 1, line).result = "TG_OK"
    BY Zenon DEF LineWire, r, s, line
  <2>2. tg_encode_text(WireMax, r, s, sn, 1, line).out = TextWire(r, s, sn, 1, line)
    <3>1. line \in Seq(A) /\ r \in Seq(A) /\ s \in Seq(A)
      BY <1>1, <1>3, Zenon
    <3> QED
      BY <1>2, <2>1, <3>1, Encoded
  <2> QED
    BY <2>2, Zenon DEF LineWire, r, s
<1>5. close # 0 /\ Len(BodyOf(rest, close)) \in 0 .. Len(t) + 1
  <2>1. Lines((t \o <<key>>) \o Closing) = <<Cut(t)>> \o <<ClosingLine>>
    BY <1>1, <1>2, TypedRead
  <2>2. rest = <<Cut(t)>> \o <<ClosingLine>>
    BY <1>1, <2>1, Zenon
  <2> DEFINE two == <<Cut(t)>> \o <<ClosingLine>>
             k == SelectInSeq(two, Terminates)
  <2>3. k # 0 /\ Len(BodyOf(two, k)) \in 0 .. Len(t) + 1
    BY <1>1, <1>2, TypedBody
  <2> QED
    BY <2>2, <2>3, Zenon
<1>6. body \in Seq(A)
  <2>1. Closing \in Seq(A)
    BY <1>2, ClosingRead
  <2> QED
    BY <1>1, <2>1, Behind
<1> HIDE DEF body
<1>7. tg_decode(Header("ZCZC TEXT", r, s) \o <<Numeral(sn), Numeral(1), LF>> \o body)
         = TextOf(r, s, sn, 1, rest)
  BY <1>2, <1>3, <1>6, DecodeText
<1>8. tg_decode(wire) = TextOf(r, s, sn, 1, rest)
  BY <1>4, <1>7, Zenon DEF TextWire, TextFront, body
<1> DEFINE B == BodyOf(rest, close)
<1> HIDE DEF rest
<1>9. TextOf(r, s, sn, 1, rest) =
         IF close = 0 \/ Len(B) + 1 >= TG_BODY_MAX THEN TG_INVALID
         ELSE [kind |-> "TG_TEXT", receiver |-> r, sender |-> s, sn |-> sn, sn_to |-> 0,
               timestamp |-> 1, body |-> B]
  BY Zenon DEF TextOf
<1> HIDE DEF close, B
<1>10. close # 0 /\ Len(B) \in 0 .. Len(t) + 1
  BY <1>5 DEF B
<1>11. ~(Len(B) + 1 >= TG_BODY_MAX)
  BY <1>1, <1>10, LineAssumption, TelegramAssumption, ConsoleAssumption
<1> HIDE DEF wire
<1>12. tg_decode(wire) = [kind |-> "TG_TEXT", receiver |-> r, sender |-> s, sn |-> sn, sn_to |-> 0,
                          timestamp |-> 1, body |-> B]
  BY <1>8, <1>9, <1>10, <1>11, Zenon
<1>13. /\ tg_decode(wire).kind = "TG_TEXT" /\ tg_decode(wire).receiver = r
       /\ tg_decode(wire).sender = s /\ tg_decode(wire).sn = sn
  BY <1>12
<1> QED
  BY <1>13, Zenon DEF wire, line, r, s

\* If its lines end in line feeds and fit the buffer, it reads the line itself.
LEMMA TypedReadBack ==
    ASSUME NEW c \in Channels, c \in listed, NEW sn \in Serials, NEW t \in Seq(Keyboard), Len(t) <= KeyMax,
           NEW key \in {LF, CR}, LineWire(c, sn, Append(t, key)).result = "TG_OK",
           Representable(Append(t, key))
    PROVE  tg_decode(LineWire(c, sn, Append(t, key)).out).body = Append(t, key)
<1> DEFINE A == Alphabet
           line == Append(t, key)
           r == public_key_str(c)
           s == self_public_key_str
           wire == tg_encode_text(WireMax, r, s, sn, 1, line)
<1>1. line \in Seq(A) /\ Len(line) = Len(t) + 1 /\ Len(t) \in Nat
  BY TypedUnbroken
<1>2. Spells(A) /\ 1 \in Numbers /\ 1 \in Longs /\ sn \in Int
  BY AlphabetOK, SerialAssumption DEF Serials, TG_SN_MIN
<1>3. r \in Seq(A) /\ s \in Seq(A)
  BY KeysAreFields
<1>0. Representable(line)
  OBVIOUS
<1> HIDE DEF r, s, line
<1>4. wire.result = "TG_OK"
  BY Zenon DEF LineWire, r, s, line
<1>5. tg_decode(wire.out) =
              IF Len(line) + 1 < TG_BODY_MAX
                THEN [kind |-> "TG_TEXT", receiver |-> r, sender |-> s, sn |-> sn, sn_to |-> 0,
                      timestamp |-> 1, body |-> line]
                ELSE TG_INVALID
  BY <1>0, <1>1, <1>2, <1>3, <1>4, TextReadBack
<1> HIDE DEF wire
<1>6. Len(line) + 1 < TG_BODY_MAX
  BY <1>1, LineAssumption, TelegramAssumption, ConsoleAssumption
<1>7. tg_decode(wire.out).body = line
  BY <1>5, <1>6
<1> QED
  BY <1>7, Zenon DEF LineWire, wire, line, r, s

\* With one, the encoder refuses a line for nothing but the terminator at its end.
LEMMA TypedRefused ==
    ASSUME NEW c \in Channels, c \in listed, NEW sn \in Serials, NEW t \in Seq(Keyboard), Len(t) <= KeyMax,
           NEW key \in {LF, CR}, LineWire(c, sn, Append(t, key)).result # "TG_OK"
    PROVE  IsSuffix(Append(TG_TERMINATOR, LF), Append(t, key))
<1> DEFINE A == Alphabet
           line == Append(t, key)
           r == public_key_str(c)
           s == self_public_key_str
           wire == TextBuilt(r, s, sn, 1, line)
           answer == tg_encode_text(WireMax, r, s, sn, 1, line)
           K == Len(t)
<1>1. /\ t \in Seq(A) /\ Unbroken(t) /\ Len(t) \in Nat /\ line \in Seq(A)
      /\ Len(line) = K + 1 /\ line[K + 1] = key /\ \A i \in 1 .. K : line[i] = t[i]
  BY TypedUnbroken
<1>2. Spells(A) /\ 1 \in Numbers /\ 1 \in Longs
  BY AlphabetOK
<1>3. /\ r \in Seq(A) /\ s \in Seq(A) /\ tg_field_ok(r) /\ tg_field_ok(s)
      /\ Len(r) = 2 /\ Len(s) = 2
  BY KeysAreFields
<1>4. sn \in Numbers /\ tg_sn_valid(sn)
  BY SerialOK
<1>0. answer.result # "TG_OK"
  BY Zenon DEF LineWire
<1> HIDE DEF r, s, line
<1>5. Len(wire) = 13 + K + TerminatorLength
  <2>1. /\ TextBuilt(r, s, sn, 1, line) = TextWire(r, s, sn, 1, line)
        /\ Len(TextWire(r, s, sn, 1, line)) = 8 + Len(r) + Len(s) + Len(line) + TerminatorLength
    <3>1. line \in Seq(A) /\ r \in Seq(A) /\ s \in Seq(A) /\ sn \in Numbers
      BY <1>1, <1>3, <1>4, Zenon
    <3> QED
      BY <1>2, <3>1, TextWireOK
  <2>2. Len(wire) = 8 + Len(r) + Len(s) + Len(line) + TerminatorLength
    BY <2>1, Zenon
  <2> HIDE DEF wire
  <2> QED
    BY <1>1, <1>3, <2>2, TelegramAssumption
<1>6. ~tg_body_ok(line)
  <2> HIDE DEF wire
  <2>1. answer = IF ~tg_field_ok(r) \/ ~tg_field_ok(s) THEN Failed("TG_ERR_FORMAT")
                 ELSE IF ~tg_sn_valid(sn) THEN Failed("TG_ERR_RANGE")
                 ELSE IF ~tg_body_ok(line) THEN Failed("TG_ERR_FORMAT")
                 ELSE Built(WireMax, wire)
    BY Zenon DEF tg_encode_text, wire, TextBuilt, TextFront
  <2> HIDE DEF answer
  <2>2. ~(Len(wire) + 1 > WireMax)
    BY <1>1, <1>5, LineAssumption, TelegramAssumption, ConsoleAssumption, WireAssumption
  <2>3. Built(WireMax, wire).result = "TG_OK"
    BY <2>2 DEF Built, Written
  <2> QED
    BY <1>0, <1>3, <1>4, <2>1, <2>3, Zenon
<1>7. PICK end \in Positions(line, {LF}) \cup {Len(line) + 1} :
         IsSuffix(TG_TERMINATOR, SubSeq(line, 1, end - 1))
  BY <1>6 DEF tg_body_ok
<1> DEFINE q == SubSeq(line, 1, end - 1)
           T == TerminatorLength
<1>8. end \in 1 .. K + 2 /\ (end # K + 2 => line[end] = LF)
  <2>1. end \in Positions(line, {LF}) \/ end = K + 2
    BY <1>1, <1>7
  <2>2. CASE end \in Positions(line, {LF})
    BY <1>1, <2>2 DEF Positions
  <2>3. CASE end = K + 2
    BY <1>1, <2>3
  <2> QED
    BY <2>1, <2>2, <2>3
<1>9. q \in Seq(A) /\ Len(q) = end - 1 /\ \A i \in 1 .. end - 1 : q[i] = line[i]
  <2>1. end - 1 \in 0 .. Len(line)
    BY <1>1, <1>8
  <2> QED
    BY <1>1, <2>1, UpTo
<1>10. /\ T \in Nat \ {0} /\ T <= Len(q)
       /\ \A i \in 1 .. T : q[Len(q) - T + i] = N
  <2>1. N \in A
    BY <1>2 DEF Spells
  <2> HIDE DEF q
  <2> QED
    BY <1>7, <1>9, <2>1, TerminatesOK, TelegramAssumption DEF q
<1> HIDE DEF q, T
<1>11. N \notin Breaks /\ LF \in Breaks /\ key \in Breaks
  BY DEF N, Breaks, LF, CR
<1>12. end = K + 1 /\ key = LF
  <2>1. end # K + 2
    <3> SUFFICES ASSUME end = K + 2 PROVE FALSE
      OBVIOUS
    <3>1. q[K + 1] = key
      BY <1>1, <1>9
    <3>2. q[Len(q) - T + T] = N
      BY <1>10
    <3>3. Len(q) - T + T = K + 1
      BY <1>1, <1>9, <1>10
    <3> QED
      BY <1>11, <3>1, <3>2, <3>3
  <2>2. end \notin 1 .. K
    <3> SUFFICES ASSUME end \in 1 .. K PROVE FALSE
      OBVIOUS
    <3>1. t[end] = LF /\ t[end] \notin Breaks
      BY <1>1, <1>8, <2>1, Zenon DEF Unbroken
    <3> QED
      BY <1>11, <3>1
  <2>3. end = K + 1
    BY <1>1, <1>8, <2>1, <2>2
  <2> QED
    BY <1>1, <1>8, <2>1, <2>3
<1> DEFINE w == Append(TG_TERMINATOR, LF)
<1>13. w \in Seq(A) /\ Len(w) = T + 1 /\ (\A i \in 1 .. T : w[i] = N) /\ w[T + 1] = LF
  <2>1. N \in A /\ LF \in A
    BY <1>2 DEF Spells
  <2>2. /\ TG_TERMINATOR \in Seq(A) /\ Len(TG_TERMINATOR) = T
        /\ \A i \in 1 .. T : TG_TERMINATOR[i] = N
    BY <2>1, TerminatorOK DEF T
  <2> QED
    BY <1>10, <2>1, <2>2
<1> HIDE DEF w
<1>14. Len(w) <= Len(line)
  BY <1>1, <1>9, <1>10, <1>12, <1>13
<1>15. \A i \in 1 .. Len(w) : line[Len(line) - Len(w) + i] = w[i]
  <2> SUFFICES ASSUME NEW i \in 1 .. Len(w) PROVE line[Len(line) - Len(w) + i] = w[i]
    OBVIOUS
  <2>1. Len(line) - Len(w) + i = Len(q) - T + i /\ (i \in 1 .. T \/ i = T + 1)
    BY <1>1, <1>9, <1>10, <1>12, <1>13
  <2>2. CASE i \in 1 .. T
    <3>1. Len(q) - T + i \in 1 .. end - 1
      BY <1>1, <1>9, <1>10, <1>12, <2>2
    <3> QED
      BY <1>9, <1>10, <1>13, <2>1, <2>2, <3>1, Zenon
  <2>3. CASE i = T + 1
    <3>1. Len(q) - T + i = K + 1
      BY <1>1, <1>9, <1>10, <1>12, <2>3
    <3> QED
      BY <1>1, <1>12, <1>13, <2>1, <2>3, <3>1, Zenon
  <2> QED
    BY <2>1, <2>2, <2>3
<1>16. IsSuffix(w, line)
  BY <1>1, <1>13, <1>14, <1>15, SuffixOK
<1> QED
  BY <1>16, Zenon DEF w, line

-----------------------------------------------------------------------------
(* Requests *)

\* Four symbols.
LEMMA Quadruple ==
    ASSUME NEW A, NEW a \in A, NEW b \in A, NEW c \in A, NEW d \in A
    PROVE  <<a, b, c>> \o <<d>> = <<a, b, c, d>>
<1> DEFINE u == <<a, b, c>>
           v == <<d>>
           z == <<a, b, c, d>>
<1>1. /\ u \in Seq(A) /\ v \in Seq(A) /\ z \in Seq(A) /\ Len(u) = 3 /\ Len(v) = 1 /\ Len(z) = 4
      /\ u[1] = a /\ u[2] = b /\ u[3] = c /\ v[1] = d /\ z[1] = a /\ z[2] = b /\ z[3] = c /\ z[4] = d
  OBVIOUS
<1> HIDE DEF u, v, z
<1>2. /\ u \o v \in Seq(A) /\ Len(u \o v) = 3 + 1
      /\ \A i \in 1 .. 3 : (u \o v)[i] = u[i]
      /\ \A i \in 1 .. 1 : (u \o v)[3 + i] = v[i]
  <2>1. u \in Seq(A) /\ v \in Seq(A)
    BY <1>1
  <2>2. /\ u \o v \in Seq(A) /\ Len(u \o v) = Len(u) + Len(v)
        /\ \A i \in 1 .. Len(u) : (u \o v)[i] = u[i]
        /\ \A i \in 1 .. Len(v) : (u \o v)[Len(u) + i] = v[i]
    BY <2>1, Behind
  <2> QED
    BY <1>1, <2>2, Zenon
<1> DEFINE y == u \o v
<1>3. y \in Seq(A) /\ Len(y) = 4 /\ y[1] = a /\ y[2] = b /\ y[3] = c /\ y[4] = d
  <2>1. 1 \in 1 .. 3 /\ 2 \in 1 .. 3 /\ 3 \in 1 .. 3 /\ 1 \in 1 .. 1 /\ 3 + 1 = 4
    OBVIOUS
  <2> QED
    BY <1>1, <1>2, <2>1
<1> HIDE DEF y
<1>4. \A i \in 1 .. 4 : i = 1 \/ i = 2 \/ i = 3 \/ i = 4
  OBVIOUS
<1>5. y = z
  BY <1>1, <1>3, <1>4, SameText
<1> QED
  BY <1>5 DEF y, u, v, z

\* The answer to a request whose closing line is the one given.
CmdOf(r, s, from, to, rest) ==
    LET close == SelectInSeq(rest, Terminates)
        body  == BodyOf(rest, close)
    IN  IF \/ ~tg_sn_valid(from) \/ ~tg_sn_valid(to)
           \/ close = 0 \/ Len(body) + 1 >= TG_BODY_MAX
        THEN TG_INVALID
        ELSE [kind |-> "TG_CMD", receiver |-> r, sender |-> s, sn |-> from, sn_to |-> to,
              timestamp |-> 0, body |-> body]

\* Header and metadata line of a request.
CmdFront(r, s, from, to) == Header("ZCZC CMD", r, s) \o <<"R:", Numeral(from), Numeral(to), LF>>

\* The fields of a request are read, its numbers as ints, whatever follows them.
LEMMA DecodeCmd ==
    ASSUME NEW A, Spells(A), NEW r \in Seq(A), NEW s \in Seq(A), tg_field_ok(r), tg_field_ok(s),
           NEW from \in Numbers, NEW to \in Numbers, NEW t \in Seq(A)
    PROVE  tg_decode(CmdFront(r, s, from, to) \o t)
              = CmdOf(r, s, ToInt(Saturated(from)), ToInt(Saturated(to)), Lines(t))
<1> DEFINE w == "ZCZC CMD"
           v == "R:"
           a == Numeral(from)
           b == Numeral(to)
           m == <<v, a, b>>
           raw == Header(w, r, s) \o <<v, a, b, LF>> \o t
           lines == Lines(raw)
           rest == Lines(t)
           first == ToInt(Saturated(from))
           final == ToInt(Saturated(to))
<1>1. w \in A /\ LF \in A /\ w \notin Breaks /\ v \in A /\ v \notin Breaks
  BY DEF Spells, Breaks, LF, CR
<1>3. /\ IsNumeral(a) /\ ToInt(strtol(a)) = first /\ a \notin Breaks
      /\ IsNumeral(b) /\ ToInt(strtol(b)) = final /\ b \notin Breaks
  BY NumeralOK, Zenon
<1>4. a \in A /\ b \in A
  BY DEF Spells
<1> HIDE DEF w, v, a, b, first, final
<1>5. m \in Seq(A) /\ Len(m) = 3 /\ m[1] = v /\ m[2] = a /\ m[3] = b
  BY <1>1, <1>4
<1>9. m \o <<LF>> = <<v, a, b, LF>>
  BY <1>1, <1>4, Quadruple
<1>6. Unbroken(m)
  <2>1. \A i \in 1 .. Len(m) : i = 1 \/ i = 2 \/ i = 3
    BY <1>5
  <2> HIDE DEF m
  <2> QED
    BY <1>1, <1>3, <1>5, <2>1 DEF Unbroken
<1>7. Unbroken(r) /\ Unbroken(s) /\ FieldLine(Cut(r)) /\ FieldLine(Cut(s)) /\ Cut(r).text = r /\ Cut(s).text = s
  BY FieldLines
<1>8. /\ Cut(<<w>>).text = <<w>> /\ Cut(<<w>>).complete
      /\ Cut(m).text = m /\ Cut(m).complete
  <2> DEFINE h == <<w>>
  <2>1. h \in Seq(A) /\ Len(h) = 1 /\ 1 < LineSize /\ 3 < LineSize
    BY <1>1, TelegramAssumption
  <2> HIDE DEF m, h
  <2>3. Cut(h) = [text |-> h, complete |-> TRUE]
    <3>1. h \in Seq(A) /\ Len(h) < LineSize
      BY <2>1
    <3> QED
      BY <3>1, Uncut
  <2>4. Cut(m) = [text |-> m, complete |-> TRUE]
    <3>1. m \in Seq(A) /\ Len(m) < LineSize
      BY <1>5, <2>1
    <3> QED
      BY <3>1, Uncut
  <2>2. Cut(h) = [text |-> h, complete |-> TRUE] /\ Cut(m) = [text |-> m, complete |-> TRUE]
    BY <2>3, <2>4, Zenon
  <2> QED
    BY <2>2 DEF h
<1>12. /\ Len(lines) = 4 + Len(rest) /\ Len(rest) \in Nat
       /\ lines[1] = Cut(<<w>>) /\ lines[2] = Cut(r) /\ lines[3] = Cut(s) /\ lines[4] = Cut(m)
       /\ SubSeq(lines, 5, Len(lines)) = rest
  <2> HIDE DEF m
  <2>1. Opens(Lines(Header(w, r, s) \o (m \o <<LF>>) \o t),
              Cut(<<w>>), Cut(r), Cut(s), Cut(m), Lines(t))
    BY <1>1, <1>5, <1>6, <1>7, FourLines
  <2>2. Opens(lines, Cut(<<w>>), Cut(r), Cut(s), Cut(m), rest)
    BY <1>9, <2>1, Zenon DEF m
  <2> HIDE DEF lines, rest
  <2> QED
    BY <2>2 DEF Opens
<1> HIDE DEF rest, lines, raw
<1>13. ~(Len(lines) < 4)
  <2> DEFINE K == Len(rest)
  <2>1. K \in Nat /\ Len(lines) = 4 + K
    BY <1>12
  <2> HIDE DEF K
  <2> QED
    BY <2>1
<1>14. lines[1].text = <<"ZCZC CMD">> /\ lines[1].complete
  BY <1>8, <1>12, Zenon DEF w
<1>20. <<"ZCZC CMD">> # <<"ZCZC TEXT">>
  OBVIOUS
<1>15. lines[4].text = m /\ lines[4].complete
  BY <1>8, <1>12, Zenon
<1>16. CmdMeta(lines[4].text) <=> tg_sn_valid(first) /\ tg_sn_valid(final)
  <2>1. CmdMeta(m) <=> tg_sn_valid(ToInt(strtol(m[2]))) /\ tg_sn_valid(ToInt(strtol(m[3])))
    <3>1. Len(m) >= 3 /\ m[1] = "R:"
      BY <1>5 DEF v
    <3>2. IsNumeral(m[2]) /\ IsNumeral(m[3])
      BY <1>3, <1>5, Zenon
    <3> HIDE DEF m
    <3> QED
      BY <3>1, <3>2, Zenon DEF CmdMeta
  <2> QED
    BY <1>3, <1>5, <1>15, <2>1, Zenon
<1>17. FieldLine(lines[2]) /\ FieldLine(lines[3]) /\ lines[2].text = r /\ lines[3].text = s
  BY <1>7, <1>12
<1>18. ToInt(strtol(lines[4].text[2])) = first /\ ToInt(strtol(lines[4].text[3])) = final
  BY <1>3, <1>5, <1>15, Zenon
<1> DEFINE close == SelectInSeq(rest, Terminates)
           body == BodyOf(rest, close)
<1>19. tg_decode(raw) =
         IF \/ ~tg_sn_valid(first) \/ ~tg_sn_valid(final)
            \/ close = 0 \/ Len(body) + 1 >= TG_BODY_MAX THEN TG_INVALID
         ELSE [kind |-> "TG_CMD", receiver |-> r, sender |-> s, sn |-> first, sn_to |-> final,
               timestamp |-> 0, body |-> body]
  <2> HIDE DEF close, body, m
  <2>1. close = SelectInSeq(SubSeq(lines, 5, Len(lines)), Terminates)
    BY <1>12 DEF close
  <2>2. body = BodyOf(SubSeq(lines, 5, Len(lines)), close)
    BY <1>12 DEF body
  <2> QED
    BY <1>13, <1>14, <1>15, <1>16, <1>17, <1>18, <1>20, <2>1, <2>2 DEF tg_decode, lines
<1> QED
  BY <1>19, Zenon DEF CmdOf, CmdFront, raw, rest, w, v, a, b, first, final

\* The key of the telegrams that are looked at is a field.
LEMMA AnyKeyOK == AnyKey \in Seq(Alphabet) /\ Len(AnyKey) = 1 /\ tg_field_ok(AnyKey)
<1> DEFINE k == "k"
           f == <<k>>
<1>1. k \in Alphabet /\ k \notin Breaks
  BY DEF Alphabet, Breaks, LF, CR
<1> HIDE DEF k
<1>2. f \in Seq(Alphabet) /\ Len(f) = 1 /\ f[1] = k /\ f # <<>>
  BY <1>1
<1> HIDE DEF f
<1>3. \A i \in 1 .. 1 : i = 1
  OBVIOUS
<1>4. Positions(f, {LF, CR}) = {}
  BY <1>1, <1>2, <1>3 DEF Positions, Breaks
<1>5. Len(f) < TG_FIELD_MAX
  BY <1>2, TelegramAssumption
<1> QED
  BY <1>2, <1>4, <1>5, Zenon DEF tg_field_ok, f, k, AnyKey

\* Header and metadata line of a request.
LEMMA CmdFrontOver ==
    ASSUME NEW A, Spells(A), NEW r \in Seq(A), NEW s \in Seq(A), NEW from \in Numbers, NEW to \in Numbers
    PROVE  /\ CmdFront(r, s, from, to) \in Seq(A)
           /\ Len(CmdFront(r, s, from, to)) = 8 + Len(r) + Len(s)
<1> DEFINE w == "ZCZC CMD"
           v == "R:"
           h == Header(w, r, s)
           a == Numeral(from)
           b == Numeral(to)
           m == <<v, a, b, LF>>
<1>1. w \in A /\ LF \in A /\ a \in A /\ b \in A /\ v \in A
  BY DEF Spells
<1> HIDE DEF a, b, w, v
<1>3. m \in Seq(A) /\ Len(m) = 4
  BY <1>1
<1> HIDE DEF m
<1>2. h \in Seq(A) /\ Len(h) = 4 + Len(r) + Len(s)
  BY <1>1, HeaderOver
<1> HIDE DEF h
<1> DEFINE f == Then(h, m)
<1>4. f \in Seq(A) /\ Len(f) = Len(h) + Len(m) /\ Len(h) \in Nat
  BY <1>2, <1>3, ThenLen
<1> HIDE DEF f
<1>5. Len(f) = 8 + Len(r) + Len(s)
  <2>1. Len(r) \in Nat /\ Len(s) \in Nat
    BY LenProperties
  <2> QED
    BY <1>2, <1>3, <1>4, <2>1
<1> QED
  BY <1>4, <1>5, Zenon DEF f, h, m, w, v, a, b, Then, CmdFront

\* An empty body is found in front of the closing line.
LEMMA NothingBeforeClosing ==
    ASSUME NEW A, Spells(A)
    PROVE  LET rest == Lines(Closing) IN
           SelectInSeq(rest, Terminates) = 1 /\ BodyOf(rest, 1) = <<>>
<1> DEFINE rest == Lines(Closing)
           k == SelectInSeq(rest, Terminates)
<1>0. N \in A
  BY DEF Spells
<1>1. rest = <<ClosingLine>> /\ Terminates(ClosingLine) /\ ClosingLine \in LineOver(A)
  BY ClosingRead
<1> HIDE DEF rest
<1>2. rest \in Seq(LineOver(A)) /\ Len(rest) = 1 /\ rest[1] = ClosingLine /\ rest # <<>>
  BY <1>1
<1>3. k \in 0 .. Len(rest) /\ (k = 0 <=> \A i \in 1 .. Len(rest) : ~Terminates(rest[i]))
  BY <1>2, SelectOK
<1> HIDE DEF k
<1>4. k = 1
  BY <1>1, <1>2, <1>3
<1> DEFINE b == BodyOf(rest, 1)
<1>5. b \in Seq(A) /\ Len(b) = 0
  <2>1. Terminates(rest[1])
    BY <1>1, <1>2, Zenon
  <2>2. b \in Seq(A) /\ Len(b) = Len(rest[1].text) - TerminatorLength
    BY <1>0, <1>2, <2>1, BodyOfFirst
  <2>3. Len(rest[1].text) = TerminatorLength /\ TerminatorLength \in Nat
    BY <1>0, <1>2, TerminatorOK DEF ClosingLine
  <2> QED
    BY <2>2, <2>3
<1> HIDE DEF b
<1>6. b = <<>>
  BY <1>5
<1> QED
  BY <1>4, <1>6, Zenon DEF b, k, rest

\* tg_encode_cmd and tg_decode, src/telegram.c: a request is written for serials
\* only and read as it was written; of any other numbers on the wire the ints
\* that the casts leave are read, and refused if they are not serials.
THEOREM RequestReadBack ==
    ASSUME NEW from \in Numbers, NEW to \in Numbers
    PROVE  RequestReadsBack(from, to)
<1> DEFINE A == Alphabet
           k == AnyKey
           sent == tg_encode_cmd(WireMax, k, k, from, to)
           front == CmdFront(k, k, from, to)
           x == <<LF>>
           T == TG_TERMINATOR
           wire == front \o Closing
           first == ToInt(Saturated(from))
           final == ToInt(Saturated(to))
           asked(sn, sn_to) == [kind |-> "TG_CMD", receiver |-> k, sender |-> k,
                                sn |-> sn, sn_to |-> sn_to, timestamp |-> 0, body |-> <<>>]
<1>1. Spells(A)
  BY AlphabetOK
<1>2. k \in Seq(A) /\ Len(k) = 1 /\ tg_field_ok(k)
  BY AnyKeyOK
<1> HIDE DEF k
<1>3. front \in Seq(A) /\ Len(front) = 10
  <2>1. front \in Seq(A) /\ Len(front) = 8 + Len(k) + Len(k)
    BY <1>1, <1>2, CmdFrontOver
  <2> HIDE DEF front
  <2> QED
    BY <1>2, <2>1
<1>4. T \in Seq(A) /\ Len(T) = TerminatorLength /\ TerminatorLength \in Nat
  BY <1>1, TerminatorOK DEF Spells
<1>5. x \in Seq(A) /\ Len(x) = 1
  <2>1. LF \in A
    BY <1>1 DEF Spells
  <2> QED
    BY <2>1
<1> HIDE DEF front, x, wire
<1>6. /\ from \in Int /\ to \in Int /\ first \in Int /\ final \in Int
      /\ from \in Serials => first = from
      /\ to \in Serials => final = to
  BY CastOK
<1> HIDE DEF first, final
<1>13. \A n \in {from, to, first, final} : tg_sn_valid(n) <=> n \in Serials
  BY <1>6, SerialAssumption DEF tg_sn_valid, Serials, TG_SN_MIN
<1>7. sent = IF ~tg_sn_valid(from) \/ ~tg_sn_valid(to) THEN Failed("TG_ERR_RANGE")
             ELSE Built(WireMax, (front \o T) \o x)
  BY <1>2, Zenon DEF tg_encode_cmd, front, CmdFront, x
<1>8. (front \o T) \o x = wire
  <2>1. Then(Then(front, T), x) = Then(front, Then(T, x))
    BY <1>3, <1>4, <1>5, ThenOK
  <2> QED
    BY <2>1, Zenon DEF Then, Closing, x, wire
<1>9. Closing \in Seq(A)
  BY <1>1, ClosingRead
<1> DEFINE rest == Lines(Closing)
           close == SelectInSeq(rest, Terminates)
           body == BodyOf(rest, close)
<1>10. tg_decode(wire) = CmdOf(k, k, first, final, rest)
  BY <1>1, <1>2, <1>9, DecodeCmd DEF front, wire, first, final
<1>14. close = 1 /\ BodyOf(rest, 1) = <<>>
  BY <1>1, NothingBeforeClosing
<1>15. body = <<>>
  BY <1>14, Zenon
<1> HIDE DEF rest
<1>16. CmdOf(k, k, first, final, rest) =
          IF \/ ~tg_sn_valid(first) \/ ~tg_sn_valid(final)
             \/ close = 0 \/ Len(body) + 1 >= TG_BODY_MAX
          THEN TG_INVALID
          ELSE [kind |-> "TG_CMD", receiver |-> k, sender |-> k, sn |-> first, sn_to |-> final,
                timestamp |-> 0, body |-> body]
  BY Zenon DEF CmdOf
<1> HIDE DEF body, close
<1>17. ~(Len(body) + 1 >= TG_BODY_MAX) /\ close # 0
  <2>1. Len(<<>>) = 0
    OBVIOUS
  <2>2. Len(body) = 0
    BY <1>15, <2>1, Zenon
  <2> QED
    BY <1>14, <2>2, LineAssumption, TelegramAssumption, ConsoleAssumption
<1>18. tg_decode(wire) = IF {first, final} \subseteq Serials THEN asked(first, final) ELSE TG_INVALID
  <2>1. {first, final} \subseteq Serials <=> tg_sn_valid(first) /\ tg_sn_valid(final)
    BY <1>13
  <2> QED
    BY <1>10, <1>15, <1>16, <1>17, <2>1, Zenon
<1>11. ASSUME {from, to} \subseteq Serials
       PROVE  tg_decode(sent.out) = asked(from, to)
  <2>1. tg_sn_valid(from) /\ tg_sn_valid(to) /\ first = from /\ final = to
    BY <1>6, <1>11, <1>13
  <2>2. Len(wire) = 11 + TerminatorLength
    <3> DEFINE c == Then(T, x)
    <3>1. c \in Seq(A) /\ Len(c) = Len(T) + Len(x)
      BY <1>4, <1>5, ThenLen, Zenon
    <3> HIDE DEF c
    <3>2. Len(Then(front, c)) = Len(front) + Len(c)
      BY <1>3, <3>1, ThenLen, Zenon
    <3>3. wire = Then(front, c)
      BY Zenon DEF Then, c, Closing, x, wire
    <3>4. Len(wire) = Len(front) + Len(c)
      BY <3>2, <3>3, Zenon
    <3> QED
      BY <1>3, <1>4, <1>5, <3>1, <3>4
  <2>3. ~(Len(wire) + 1 > WireMax)
    BY <2>2, LineAssumption, TelegramAssumption, ConsoleAssumption, WireAssumption
  <2>4. sent = Built(WireMax, wire)
    BY <1>7, <1>8, <2>1, Zenon
  <2> HIDE DEF sent
  <2>5. sent.out = wire
    BY <2>3, <2>4 DEF Built, Written
  <2>6. {first, final} \subseteq Serials /\ asked(first, final) = asked(from, to)
    BY <1>11, <2>1, Zenon
  <2> QED
    BY <1>18, <2>5, <2>6, Zenon
<1>12. ASSUME ~({from, to} \subseteq Serials)
       PROVE  sent.out = <<>>
  <2>1. ~tg_sn_valid(from) \/ ~tg_sn_valid(to)
    BY <1>12, <1>13
  <2>2. sent = Failed("TG_ERR_RANGE")
    BY <1>7, <2>1, Zenon
  <2> HIDE DEF sent
  <2> QED
    BY <2>2 DEF Failed
<1> QED
  BY <1>8, <1>11, <1>12, <1>18, Zenon
     DEF RequestReadsBack, sent, k, front, CmdFront, x, first, final

\* The bodies that are tried are texts.
LEMMA BodiesOver == ASSUME NEW body \in Bodies PROVE body \in Seq(Alphabet)
<1>1. PICK n \in 0 .. BodyLength : body \in [1 .. n -> {"1", N, LF, CR}]
  BY DEF Bodies, BoundedSeq, SeqOf
<1>2. n \in Nat /\ {"1", N, LF, CR} \subseteq Alphabet
  BY WireAssumption DEF Alphabet
<1> QED
  BY <1>1, <1>2

\* tg_encode_text and tg_decode agree on every body that is tried.
LEMMA BodyReadsBack ==
    ASSUME NEW body \in Bodies, Representable(body)
    PROVE  ReadsBack(body)
<1> DEFINE A == Alphabet
           k == AnyKey
           sent == tg_encode_text(WireMax, k, k, 1, 1, body)
<1>1. Spells(A) /\ 1 \in Numbers /\ 1 \in Longs /\ 1 \in Int
  BY AlphabetOK
<1>2. k \in Seq(A) /\ body \in Seq(A)
  BY AnyKeyOK, BodiesOver
<1> HIDE DEF k
<1>3. ASSUME sent.result = "TG_OK"
      PROVE  tg_decode(sent.out) =
              IF Len(body) + 1 < TG_BODY_MAX
                THEN [kind |-> "TG_TEXT", receiver |-> k, sender |-> k, sn |-> 1, sn_to |-> 0,
                      timestamp |-> 1, body |-> body]
                ELSE TG_INVALID
  BY <1>1, <1>2, <1>3, TextReadBack
<1> QED
  BY <1>3, Zenon DEF ReadsBack, k

-----------------------------------------------------------------------------
(* Ends of lines *)

\* A carriage return and a line feed end one line.
LEMMA LinesCRLF ==
    ASSUME NEW A, NEW l \in Seq(A), CR \in A, LF \in A, NEW t \in Seq(A), Unbroken(l)
    PROVE  Lines((l \o <<CR>>) \o (<<LF>> \o t)) = <<Cut(l)>> \o Lines(t)
<1> DEFINE c == l \o <<CR>>
           d == <<LF>> \o t
           raw == c \o d
           e == c \o <<LF>>
           K == Len(l)
           M == Len(t)
<1>1. /\ <<CR>> \in Seq(A) /\ Len(<<CR>>) = 1 /\ <<CR>>[1] = CR
      /\ <<LF>> \in Seq(A) /\ Len(<<LF>>) = 1 /\ <<LF>>[1] = LF /\ 1 \in 1 .. 1
  OBVIOUS
<1>2. c \in Seq(A) /\ K \in Nat /\ Len(c) = K + 1
  BY <1>1, Behind
<1>3. d \in Seq(A) /\ M \in Nat /\ Len(d) = 1 + M /\ d[1] = LF
  BY <1>1, Behind
<1>4. /\ EndOfLine(raw, 1) = K + 1
      /\ tg_next_line(raw, 1) = Cut(l)
  <2> HIDE DEF d
  <2>1. CR \in Breaks
    BY DEF Breaks
  <2> QED
    BY <1>3, <2>1, LineInFront
<1>5. e \in Seq(A) /\ Len(e) = (K + 1) + 1
  <2> HIDE DEF c
  <2> QED
    BY <1>1, <1>2, Behind
<1>6. raw = e \o t
  <2> DEFINE x == <<LF>>
  <2> HIDE DEF c, x
  <2>1. Then(Then(c, x), t) = Then(c, Then(x, t))
    <3>1. c \in Seq(A) /\ x \in Seq(A)
      BY <1>1, <1>2, Zenon DEF x
    <3> QED
      BY <3>1, ThenOK
  <2> QED
    BY <2>1, Zenon DEF Then, x
<1>7. /\ raw \in Seq(A) /\ Len(raw) = (K + 1) + (1 + M)
      /\ raw[K + 1] = CR /\ raw[(K + 1) + 1] = LF
  <2>1. c[K + 1] = CR
    BY <1>1, Behind
  <2>4. K + 1 \in 1 .. K + 1 /\ 1 \in 1 .. 1 + M
    <3> HIDE DEF K, M
    <3> QED
      BY <1>2, <1>3
  <2> HIDE DEF c, d
  <2>2. /\ raw \in Seq(A) /\ Len(raw) = Len(c) + Len(d)
        /\ \A i \in 1 .. Len(c) : raw[i] = c[i]
        /\ \A i \in 1 .. Len(d) : raw[Len(c) + i] = d[i]
    <3>1. c \in Seq(A) /\ d \in Seq(A)
      BY <1>2, <1>3, Zenon
    <3> QED
      BY <3>1, Behind
  <2> HIDE DEF raw, K, M
  <2> QED
    BY <1>2, <1>3, <2>1, <2>2, <2>4, Zenon
<1> HIDE DEF raw, K, M, c, d, e
<1>8. AfterLine(raw, 1) = Len(e) + 1
  <2>1. K + 1 <= Len(raw) /\ (K + 1) + 1 <= Len(raw)
    BY <1>2, <1>3, <1>7
  <2> QED
    BY <1>4, <1>5, <1>7, <2>1 DEF AfterLine
<1>9. e # <<>>
  <2>1. Len(e) # 0
    BY <1>2, <1>5
  <2> QED
    BY <2>1
<1>10. AfterLine(e \o t, 1) = Len(e) + 1
  BY <1>6, <1>8, Zenon
<1>11. Lines(e \o t) = <<tg_next_line(e \o t, 1)>> \o Lines(t)
  BY <1>5, <1>9, <1>10, LinesStep
<1>12. Lines(raw) = <<Cut(l)>> \o Lines(t)
  BY <1>4, <1>6, <1>11, Zenon
<1> QED
  BY <1>12, Zenon DEF raw, c, d

\* The last line, which nothing ends.
LEMMA LinesAlone ==
    ASSUME NEW A, NEW l \in Seq(A), Unbroken(l), l # <<>>
    PROVE  Lines(l) = <<Cut(l)>>
<1>0. Len(l) \in Nat \ {0}
  OBVIOUS
<1>1. EndOfLine(l, 1) = Len(l) + 1 /\ tg_next_line(l, 1) = Cut(l)
  BY LineAlone
<1>2. AfterLine(l, 1) = Len(l) + 1
  <2> DEFINE K == Len(l)
             end == EndOfLine(l, 1)
             lf == IF end <= K /\ l[end] = CR THEN end + 1 ELSE end
  <2>1. AfterLine(l, 1) = IF lf <= K /\ l[lf] = LF THEN lf + 1 ELSE lf
    BY DEF AfterLine
  <2>2. K \in Nat /\ end = K + 1
    BY <1>1
  <2> HIDE DEF K, end
  <2>3. lf = K + 1 /\ ~(lf <= K)
    BY <2>2
  <2> HIDE DEF lf
  <2>4. AfterLine(l, 1) = K + 1
    BY <2>1, <2>3
  <2> QED
    BY <2>4 DEF K
<1>3. PICK f : ReadFrom(l, f) /\ Lines(l) = f[1]
  BY LinesDef
<1>4. f[1] = <<Cut(l)>> \o <<>>
  <2>1. 1 \in 1 .. Len(l)
    BY <1>0
  <2>2. f[1] = <<tg_next_line(l, 1)>> \o f[AfterLine(l, 1)] /\ f[Len(l) + 1] = <<>>
    BY <1>3, <2>1 DEF ReadFrom
  <2> QED
    BY <1>1, <1>2, <2>2, Zenon
<1>5. <<Cut(l)>> \o <<>> = <<Cut(l)>>
  <2> DEFINE L == Cut(l)
  <2> HIDE DEF L
  <2>1. <<L>> \o <<>> = <<L>>
    OBVIOUS
  <2> QED
    BY <2>1 DEF L
<1> QED
  BY <1>3, <1>4, <1>5, Zenon

\* The first symbol and the others.
Headed(s, a, u) == s = Then(<<a>>, u) /\ a = s[1] /\ Len(u) + 1 = Len(s) /\ Len(u) \in Nat

\* A text has a first symbol.
LEMMA HeadSplit ==
    ASSUME NEW A, NEW s \in Seq(A), s # <<>>
    PROVE  \E a \in A, u \in Seq(A) : Headed(s, a, u)
<1> DEFINE K == Len(s)
           a == s[1]
           x == <<a>>
           u == SubSeq(s, 2, K)
           y == Then(x, u)
<1>1. K \in Nat /\ K # 0 /\ a \in A
  OBVIOUS
<1>2. x \in Seq(A) /\ Len(x) = 1 /\ x[1] = a
  BY <1>1
<1>3. u \in Seq(A) /\ Len(u) = K - 1 /\ \A i \in 1 .. K - 1 : u[i] = s[1 + i]
  <2>1. 2 \in 1 .. K + 1 /\ K \in 2 - 1 .. K /\ K - 2 + 1 = K - 1
    <3> HIDE DEF K
    <3> QED
      BY <1>1
  <2>2. u \in Seq(A) /\ Len(u) = K - 2 + 1 /\ \A i \in 1 .. K - 2 + 1 : u[i] = s[2 + i - 1]
    BY <2>1, PartOf
  <2>3. \A i \in 1 .. K - 1 : 2 + i - 1 = 1 + i
    <3> HIDE DEF K
    <3> QED
      BY <1>1
  <2> HIDE DEF u, K
  <2> QED
    BY <2>1, <2>2, <2>3
<1> HIDE DEF a, x, u
<1>4. /\ y \in Seq(A) /\ Len(y) = 1 + (K - 1)
      /\ y[1] = a /\ \A i \in 1 .. K - 1 : y[1 + i] = u[i]
  <2>1. x \in Seq(A) /\ u \in Seq(A)
    BY <1>2, <1>3
  <2>2. /\ x \o u \in Seq(A) /\ Len(x \o u) = Len(x) + Len(u)
        /\ \A i \in 1 .. Len(x) : (x \o u)[i] = x[i]
        /\ \A i \in 1 .. Len(u) : (x \o u)[Len(x) + i] = u[i]
    BY <2>1, Behind
  <2>4. /\ y \in Seq(A) /\ Len(y) = Len(x) + Len(u)
        /\ \A i \in 1 .. Len(x) : y[i] = x[i]
        /\ \A i \in 1 .. Len(u) : y[Len(x) + i] = u[i]
    BY <2>2, Zenon DEF Then
  <2>3. 1 \in 1 .. 1
    OBVIOUS
  <2> HIDE DEF y, K
  <2> QED
    BY <1>2, <1>3, <2>3, <2>4, Zenon
<1> HIDE DEF y
<1>5. s = y
  <2>1. Len(s) = Len(y)
    <3>1. 1 + (K - 1) = K
      <4> HIDE DEF K
      <4> QED
        BY <1>1
    <3> QED
      BY <1>4, <3>1
  <2>2. ASSUME NEW i \in 1 .. K PROVE s[i] = y[i]
    <3>1. CASE i = 1
      BY <1>4, <3>1 DEF a
    <3>2. CASE i # 1
      <4> DEFINE j == i - 1
      <4>1. j \in 1 .. K - 1 /\ i = 1 + j
        <5> HIDE DEF K
        <5> QED
          BY <1>1, <3>2
      <4> HIDE DEF j
      <4>2. y[1 + j] = u[j] /\ u[j] = s[1 + j]
        BY <1>3, <1>4, <4>1
      <4> QED
        BY <4>1, <4>2
    <3> QED
      BY <3>1, <3>2
  <2> QED
    BY <1>4, <2>1, <2>2, SameText
<1>6. Len(u) + 1 = K /\ Len(u) \in Nat
  <2> HIDE DEF K
  <2> QED
    BY <1>1, <1>3
<1> QED
  <2>1. s = Then(<<a>>, u) /\ a = s[1] /\ Len(u) + 1 = Len(s)
    BY <1>5, <1>6 DEF y, x, a, K
  <2> QED
    BY <1>1, <1>3, <1>6, <2>1, Zenon DEF Headed

\* What becomes of a symbol in front of t.
First(a, t) ==
    IF a # CR THEN <<a>> ELSE IF t # <<>> /\ t[1] = LF THEN <<>> ELSE <<LF>>

\* A symbol becomes a text.
LEMMA OneLineFeedType ==
    ASSUME NEW A, LF \in A, NEW raw \in Seq(A), NEW p \in 1 .. Len(raw)
    PROVE  OneLineFeed(raw, p) \in Seq(A)
<1>1. raw[p] \in A
  OBVIOUS
<1> DEFINE a == raw[p]
<1> HIDE DEF a
<1>2. <<a>> \in Seq(A) /\ <<>> \in Seq(A) /\ <<LF>> \in Seq(A)
  BY <1>1 DEF a
<1>3. OneLineFeed(raw, p) \in {<<a>>, <<>>, <<LF>>}
  BY DEF OneLineFeed, a
<1> QED
  BY <1>2, <1>3

\* Nothing has no line ends.
LEMMA NormNone == Normalised(<<>>) = <<>>
<1> DEFINE u == [p \in 1 .. Len(<<>>) |-> OneLineFeed(<<>>, p)]
<1>1. u = <<>>
  OBVIOUS
<1>2. FlattenSeq(<<>>) = <<>>
  BY DEF FlattenSeq
<1> QED
  BY <1>1, <1>2 DEF Normalised

\* Line ends are written one after the other.
LEMMA NormCons ==
    ASSUME NEW A, LF \in A, NEW a \in A, NEW t \in Seq(A)
    PROVE  /\ Normalised(Then(<<a>>, t)) = Then(First(a, t), Normalised(t))
           /\ Normalised(Then(<<a>>, t)) \in Seq(A)
           /\ First(a, t) \in Seq(A)
<1> DEFINE raw == Then(<<a>>, t)
           M == Len(t)
           h == First(a, t)
           u == [p \in 1 .. Len(raw) |-> OneLineFeed(raw, p)]
           v == [p \in 1 .. Len(t) |-> OneLineFeed(t, p)]
           w == <<h>> \o v
<1>1. /\ raw \in Seq(A) /\ M \in Nat /\ Len(raw) = 1 + M
      /\ raw[1] = a /\ \A i \in 1 .. M : raw[1 + i] = t[i]
  <2>1. /\ <<a>> \o t \in Seq(A) /\ Len(t) \in Nat /\ Len(<<a>> \o t) = 1 + Len(t)
        /\ (<<a>> \o t)[1] = a
        /\ \A i \in 1 .. Len(t) : (<<a>> \o t)[1 + i] = t[i]
    BY Front1
  <2> QED
    BY <2>1, Zenon DEF Then
<1>0. M = 0 <=> t = <<>>
  OBVIOUS
<1> HIDE DEF raw
<1>2. h \in Seq(A)
  <2>1. <<a>> \in Seq(A) /\ <<>> \in Seq(A) /\ <<LF>> \in Seq(A)
    OBVIOUS
  <2>2. h \in {<<a>>, <<>>, <<LF>>}
    BY DEF First
  <2> QED
    BY <2>1, <2>2
<1> HIDE DEF h
<1>3. v \in Seq(Seq(A)) /\ Len(v) = M /\ \A i \in 1 .. M : v[i] = OneLineFeed(t, i)
  <2>1. \A p \in 1 .. M : OneLineFeed(t, p) \in Seq(A)
    BY OneLineFeedType
  <2> HIDE DEF M
  <2>2. v \in [1 .. M -> Seq(A)]
    BY <2>1 DEF M
  <2> QED
    BY <1>1, <2>2 DEF M
<1>4. /\ u \in Seq(Seq(A)) /\ Len(u) = 1 + M
      /\ \A i \in 1 .. 1 + M : u[i] = OneLineFeed(raw, i)
  <2>1. \A p \in 1 .. Len(raw) : OneLineFeed(raw, p) \in Seq(A)
    BY <1>1, OneLineFeedType
  <2> HIDE DEF M
  <2>2. u \in [1 .. 1 + M -> Seq(A)]
    BY <1>1, <2>1
  <2> QED
    BY <1>1, <2>2
<1>5. OneLineFeed(raw, 1) = h
  <2>1. 1 < 1 + M <=> t # <<>>
    <3> HIDE DEF M
    <3> QED
      BY <1>0, <1>1
  <2>2. t # <<>> => raw[1 + 1] = t[1]
    <3>1. t # <<>> => 1 \in 1 .. M
      <4> HIDE DEF M
      <4> QED
        BY <1>0, <1>1
    <3> QED
      BY <1>1, <3>1
  <2> HIDE DEF M
  <2> QED
    BY <1>1, <2>1, <2>2, Zenon DEF OneLineFeed, First, h
<1>6. ASSUME NEW i \in 1 .. M PROVE OneLineFeed(raw, 1 + i) = OneLineFeed(t, i)
  <2>1. 1 + i < 1 + M <=> i < M
    <3> HIDE DEF M
    <3> QED
      BY <1>1
  <2>2. i < M => raw[(1 + i) + 1] = t[i + 1]
    <3>1. i < M => i + 1 \in 1 .. M /\ (1 + i) + 1 = 1 + (i + 1)
      <4> HIDE DEF M
      <4> QED
        BY <1>1
    <3> QED
      BY <1>1, <3>1
  <2>3. raw[1 + i] = t[i]
    BY <1>1
  <2>4. Len(raw) = 1 + M
    BY <1>1
  <2> QED
    BY <2>1, <2>2, <2>3, <2>4, Zenon DEF OneLineFeed
<1> HIDE DEF u, v
<1>7. /\ w \in Seq(Seq(A)) /\ Len(w) = 1 + M
      /\ w[1] = h /\ \A i \in 1 .. M : w[1 + i] = v[i]
  <2>1. v \in Seq(Seq(A))
    BY <1>3
  <2>2. /\ w \in Seq(Seq(A)) /\ Len(v) \in Nat /\ Len(w) = 1 + Len(v)
        /\ w[1] = h /\ \A i \in 1 .. Len(v) : w[1 + i] = v[i]
    BY <1>2, <2>1, Front1
  <2> HIDE DEF w, M
  <2> QED
    BY <1>3, <2>2, Zenon
<1> HIDE DEF w
<1>8. u = w
  <2>1. ASSUME NEW i \in 1 .. 1 + M PROVE u[i] = w[i]
    <3>1. CASE i = 1
      BY <1>4, <1>5, <1>7, <3>1, Zenon
    <3>2. CASE i # 1
      <4> DEFINE j == i - 1
      <4>1. j \in 1 .. M /\ i = 1 + j
        <5> HIDE DEF M
        <5> QED
          BY <1>1, <3>2
      <4> HIDE DEF j, M
      <4>2. u[i] = OneLineFeed(raw, 1 + j) /\ w[i] = OneLineFeed(t, j)
        BY <1>3, <1>4, <1>7, <4>1, Zenon
      <4> QED
        BY <1>6, <4>1, <4>2, Zenon
    <3> QED
      BY <3>1, <3>2
  <2> HIDE DEF M
  <2>2. Len(u) = Len(w) /\ \A i \in 1 .. Len(u) : u[i] = w[i]
    BY <1>4, <1>7, <2>1, Zenon
  <2> QED
    BY <1>4, <1>7, <2>2, SameText
<1>9. /\ FlattenSeq(<<h>> \o v) = h \o FlattenSeq(v)
      /\ FlattenSeq(<<h>> \o v) \in Seq(A)
  BY <1>2, <1>3, FlattenCons
<1>10. Normalised(raw) = FlattenSeq(u) /\ Normalised(t) = FlattenSeq(v)
  BY Zenon DEF Normalised, u, v
<1> QED
  BY <1>2, <1>8, <1>9, <1>10, Zenon DEF Then, w, raw, h

\* With other line ends a text is a text.
LEMMA NormType ==
    ASSUME NEW A, LF \in A, NEW raw \in Seq(A)
    PROVE  Normalised(raw) \in Seq(A)
<1>1. CASE raw = <<>>
  <2>1. <<>> \in Seq(A)
    OBVIOUS
  <2> QED
    BY <1>1, <2>1, NormNone, Zenon
<1>2. CASE raw # <<>>
  <2>1. PICK a \in A, u \in Seq(A) : Headed(raw, a, u)
    BY <1>2, HeadSplit
  <2>2. Normalised(Then(<<a>>, u)) \in Seq(A)
    BY NormCons
  <2> QED
    BY <2>1, <2>2, Zenon DEF Headed
<1> QED
  BY <1>1, <1>2

\* Nothing in front, nothing behind.
LEMMA ThenNothing ==
    ASSUME NEW A, NEW s \in Seq(A)
    PROVE  Then(<<>>, s) = s /\ Then(s, <<>>) = s
<1>1. <<>> \o s = s /\ s \o <<>> = s
  OBVIOUS
<1> QED
  BY <1>1, Zenon DEF Then

\* One symbol is a text.
LEMMA Single ==
    ASSUME NEW A, NEW a \in A
    PROVE  <<a>> \in Seq(A) /\ Len(<<a>>) = 1 /\ <<a>>[1] = a
OBVIOUS

\* The symbols of a line stay as they are.
LEMMA NormFront ==
    ASSUME NEW A, LF \in A, NEW t \in Seq(A)
    PROVE  \A l \in Seq(A) : Unbroken(l) => Normalised(Then(l, t)) = Then(l, Normalised(t))
<1> DEFINE S == {n \in Nat : \A l \in Seq(A) :
                   Len(l) = n /\ Unbroken(l) => Normalised(Then(l, t)) = Then(l, Normalised(t))}
           nt == Normalised(t)
<1>0. nt \in Seq(A)
  BY NormType
<1> HIDE DEF nt
<1>1. ASSUME NEW n \in Nat, \A m \in 0 .. n - 1 : m \in S PROVE n \in S
  <2> SUFFICES ASSUME NEW l \in Seq(A), Len(l) = n, Unbroken(l)
               PROVE  Normalised(Then(l, t)) = Then(l, nt)
    BY DEF nt
  <2>1. CASE l = <<>>
    <3>1. Then(<<>>, t) = t /\ Then(<<>>, nt) = nt
      BY <1>0, ThenNothing
    <3> QED
      BY <2>1, <3>1, Zenon DEF nt
  <2>2. CASE l # <<>>
    <3>0. PICK a \in A, u \in Seq(A) : Headed(l, a, u)
      BY <2>2, HeadSplit
    <3>1. l = Then(<<a>>, u) /\ a = l[1] /\ Len(u) + 1 = Len(l) /\ Len(u) \in Nat
      BY <3>0 DEF Headed
    <3> DEFINE x == <<a>>
    <3>2. x \in Seq(A) /\ Len(x) = 1
      OBVIOUS
    <3> HIDE DEF x
    <3>3. a \notin Breaks
      <4>1. 1 \in 1 .. Len(l)
        BY <3>1
      <4> QED
        BY <3>1, <4>1, Zenon DEF Unbroken
    <3>4. Unbroken(u)
      <4> SUFFICES ASSUME NEW i \in 1 .. Len(u) PROVE u[i] \notin Breaks
        BY DEF Unbroken
      <4>1. (<<a>> \o u)[1 + i] = u[i]
        BY Front1
      <4>2. l[1 + i] = u[i]
        BY <3>1, <4>1, Zenon DEF Then
      <4>3. 1 + i \in 1 .. Len(l)
        BY <3>1
      <4> QED
        BY <4>2, <4>3, Zenon DEF Unbroken
    <3>5. Normalised(Then(u, t)) = Then(u, nt)
      <4>1. Len(u) \in 0 .. n - 1
        BY <3>1
      <4>2. Len(u) \in S
        BY <1>1, <4>1
      <4> QED
        BY <3>4, <4>2 DEF nt
    <3> DEFINE ut == Then(u, t)
    <3>6. ut \in Seq(A)
      BY ThenOK
    <3>7. Then(l, t) = Then(x, ut)
      <4>1. Then(Then(x, u), t) = Then(x, Then(u, t))
        BY <3>2, ThenOK
      <4> QED
        BY <3>1, <4>1, Zenon DEF x
    <3> HIDE DEF ut
    <3>8. Normalised(Then(<<a>>, ut)) = Then(First(a, ut), Normalised(ut))
      BY <3>6, NormCons
    <3>9. First(a, ut) = x
      BY <3>3 DEF First, Breaks, x
    <3>10. Then(x, Then(u, nt)) = Then(l, nt)
      <4>1. Then(Then(x, u), nt) = Then(x, Then(u, nt))
        BY <1>0, <3>2, ThenOK
      <4> QED
        BY <3>1, <4>1, Zenon DEF x
    <3> QED
      BY <3>5, <3>7, <3>8, <3>9, <3>10, Zenon DEF ut, x
  <2> QED
    BY <2>1, <2>2
<1>2. \A n \in Nat : n \in S
  <2> HIDE DEF S
  <2> QED
    BY <1>1, Descent
<1>3. ASSUME NEW l \in Seq(A), Unbroken(l) PROVE Normalised(Then(l, t)) = Then(l, Normalised(t))
  <2>1. Len(l) \in Nat
    OBVIOUS
  <2>2. Len(l) \in S
    BY <1>2, <2>1
  <2> QED
    BY <1>3, <2>2
<1> QED
  BY <1>3

\* LinesBreak and LinesCRLF in terms of Then.
LEMMA FirstLine ==
    ASSUME NEW A, LF \in A, CR \in A, NEW l \in Seq(A), Unbroken(l), NEW t \in Seq(A)
    PROVE  /\ \A x \in Breaks : (x = CR => t = <<>> \/ t[1] # LF) =>
                 Lines(Then(Then(l, <<x>>), t)) = Then(<<Cut(l)>>, Lines(t))
           /\ Lines(Then(Then(l, <<CR>>), Then(<<LF>>, t))) = Then(<<Cut(l)>>, Lines(t))
<1>1. ASSUME NEW x \in Breaks, x = CR => t = <<>> \/ t[1] # LF
      PROVE  Lines(Then(Then(l, <<x>>), t)) = Then(<<Cut(l)>>, Lines(t))
  <2>1. x \in A
    BY DEF Breaks
  <2>2. Lines((l \o <<x>>) \o t) = <<Cut(l)>> \o Lines(t)
    BY <1>1, <2>1, LinesBreak
  <2> QED
    BY <2>2, Zenon DEF Then
<1>2. Lines((l \o <<CR>>) \o (<<LF>> \o t)) = <<Cut(l)>> \o Lines(t)
  BY LinesCRLF
<1>3. Lines(Then(Then(l, <<CR>>), Then(<<LF>>, t))) = Then(<<Cut(l)>>, Lines(t))
  BY <1>2, Zenon DEF Then
<1> QED
  BY <1>1, <1>3

\* A text splits into the line in front of its first line end, that line end,
\* and the rest: one break that is not half of a pair, or a pair.
BreakAt(raw, l, x, b) == raw = Then(Then(l, <<x>>), b) /\ (x = CR => b = <<>> \/ b[1] # LF)
PairAt(raw, l, b) == raw = Then(Then(l, <<CR>>), Then(<<LF>>, b))
Divided(raw, l, b) ==
    /\ Unbroken(l) /\ Len(b) \in Nat /\ Len(b) < Len(raw)
    /\ (\E x \in Breaks : BreakAt(raw, l, x, b)) \/ PairAt(raw, l, b)

\* Every text that has a line end splits so.
LEMMA SplitCases ==
    ASSUME NEW A, LF \in A, CR \in A, NEW raw \in Seq(A), ~Unbroken(raw)
    PROVE  \E l, b \in Seq(A) : Divided(raw, l, b)
<1>1. PICK l \in Seq(A), b \in Seq(A), x \in A : SplitAt(raw, l, x, b)
  BY SplitLine
<1>2. Unbroken(l) /\ x \in Breaks /\ raw = Then(Then(l, <<x>>), b)
  BY <1>1, Zenon DEF SplitAt, Then
<1> DEFINE v == <<x>>
<1>3. v \in Seq(A) /\ Len(v) = 1
  OBVIOUS
<1> HIDE DEF v
<1>4. Then(l, v) \in Seq(A) /\ Len(Then(l, v)) = Len(l) + Len(v) /\ Len(l) \in Nat
  BY <1>3, ThenLen, Zenon
<1>5. Len(Then(Then(l, v), b)) = Len(Then(l, v)) + Len(b) /\ Len(b) \in Nat
  BY <1>4, ThenLen, Zenon
<1>6. Len(raw) = (Len(l) + 1) + Len(b)
  BY <1>2, <1>3, <1>4, <1>5, Zenon DEF v
<1>7. Len(b) \in Nat /\ Len(b) < Len(raw)
  BY <1>4, <1>5, <1>6
<1>8. CASE x = CR => b = <<>> \/ b[1] # LF
  BY <1>2, <1>7, <1>8, Zenon DEF Divided, BreakAt
<1>9. CASE x = CR /\ b # <<>> /\ b[1] = LF
  <2>0. PICK a \in A, u \in Seq(A) : Headed(b, a, u)
    BY <1>9, HeadSplit
  <2>1. b = Then(<<a>>, u) /\ a = b[1] /\ Len(u) + 1 = Len(b) /\ Len(u) \in Nat
    BY <2>0 DEF Headed
  <2>2. raw = Then(Then(l, <<CR>>), Then(<<LF>>, u))
    BY <1>2, <1>9, <2>1, Zenon
  <2>3. Len(u) \in Nat /\ Len(u) < Len(raw)
    <3>1. Len(raw) \in Nat
      OBVIOUS
    <3> QED
      BY <1>7, <2>1, <3>1
  <2> QED
    BY <1>2, <2>2, <2>3, Zenon DEF Divided, PairAt
<1> QED
  BY <1>8, <1>9, Zenon

\* How the lines end does not change them.
LEMMA NormLines ==
    ASSUME NEW A, LF \in A, CR \in A
    PROVE  \A raw \in Seq(A) : Lines(Normalised(raw)) = Lines(raw)
<1> DEFINE S == {n \in Nat : \A raw \in Seq(A) : Len(raw) = n => Lines(Normalised(raw)) = Lines(raw)}
<1>0. LF \in Breaks /\ CR \in Breaks /\ LF # CR
  BY DEF Breaks, LF, CR
<1>1. ASSUME NEW n \in Nat, \A m \in 0 .. n - 1 : m \in S PROVE n \in S
  <2> SUFFICES ASSUME NEW raw \in Seq(A), Len(raw) = n
               PROVE  Lines(Normalised(raw)) = Lines(raw)
    OBVIOUS
  <2>0. ASSUME NEW b \in Seq(A), Len(b) \in Nat, Len(b) < Len(raw)
        PROVE  Lines(Normalised(b)) = Lines(b) /\ Normalised(b) \in Seq(A)
    <3>1. Len(b) \in 0 .. n - 1
      BY <2>0
    <3>2. Len(b) \in S
      BY <1>1, <3>1
    <3> QED
      BY <3>2, NormType
  <2>1. CASE Unbroken(raw)
    <3>0. <<>> \in Seq(A)
      OBVIOUS
    <3>1. Normalised(Then(raw, <<>>)) = Then(raw, Normalised(<<>>))
      BY <2>1, <3>0, NormFront
    <3>2. Then(raw, <<>>) = raw
      BY ThenNothing
    <3> QED
      BY <3>1, <3>2, NormNone, Zenon
  <2>2. CASE ~Unbroken(raw)
    <3>1. PICK l \in Seq(A), b \in Seq(A) : Divided(raw, l, b)
      BY <2>2, SplitCases
    <3>2. Unbroken(l) /\ Len(b) \in Nat /\ Len(b) < Len(raw)
      BY <3>1 DEF Divided
    <3> DEFINE nb == Normalised(b)
               lf == <<LF>>
               cr == <<CR>>
    <3>3. nb \in Seq(A) /\ Lines(nb) = Lines(b)
      BY <2>0, <3>2
    <3>4. lf \in Seq(A) /\ cr \in Seq(A) /\ Len(cr) = 1
      OBVIOUS
    <3> HIDE DEF nb, lf, cr
    <3>5. Lines(Then(Then(l, lf), nb)) = Then(<<Cut(l)>>, Lines(b))
      <4>1. Lines(Then(Then(l, lf), nb)) = Then(<<Cut(l)>>, Lines(nb))
        BY <1>0, <3>2, <3>3, FirstLine DEF lf
      <4> QED
        BY <3>3, <4>1, Zenon
    <3>6. Then(Then(l, lf), nb) = Then(l, Then(lf, nb))
      BY <3>3, <3>4, ThenOK
    <3>7. ASSUME NEW u \in Seq(A) PROVE Normalised(Then(l, u)) = Then(l, Normalised(u))
      BY <3>2, NormFront
    <3>8. ASSUME NEW x \in Breaks, BreakAt(raw, l, x, b) PROVE Lines(Normalised(raw)) = Lines(raw)
      <4>1. raw = Then(Then(l, <<x>>), b) /\ (x = CR => b = <<>> \/ b[1] # LF)
        BY <3>8 DEF BreakAt
      <4>2. Lines(raw) = Then(<<Cut(l)>>, Lines(b))
        <5>1. Lines(Then(Then(l, <<x>>), b)) = Then(<<Cut(l)>>, Lines(b))
          BY <3>2, <4>1, FirstLine
        <5> QED
          BY <4>1, <5>1, Zenon
      <4>3. First(x, b) = lf
        BY <4>1 DEF First, Breaks, lf
      <4> DEFINE v == <<x>>
      <4>4. x \in A
        BY DEF Breaks
      <4>5. v \in Seq(A)
        BY <4>4
      <4>6. Normalised(Then(v, b)) = Then(lf, nb)
        <5>1. Normalised(Then(<<x>>, b)) = Then(First(x, b), Normalised(b))
          BY <4>4, NormCons
        <5> QED
          BY <4>3, <5>1, Zenon DEF nb
      <4> HIDE DEF v
      <4>7. Then(v, b) \in Seq(A) /\ raw = Then(l, Then(v, b))
        <5>1. Then(v, b) \in Seq(A) /\ Then(Then(l, v), b) = Then(l, Then(v, b))
          BY <4>5, ThenOK
        <5> QED
          BY <4>1, <5>1, Zenon DEF v
      <4>8. Normalised(raw) = Then(l, Then(lf, nb))
        BY <3>7, <4>6, <4>7, Zenon
      <4> QED
        BY <3>5, <3>6, <4>2, <4>8, Zenon
    <3>9. ASSUME PairAt(raw, l, b) PROVE Lines(Normalised(raw)) = Lines(raw)
      <4>1. raw = Then(Then(l, cr), Then(lf, b))
        BY <3>9 DEF PairAt, cr, lf
      <4> DEFINE u == Then(lf, b)
      <4>2. Lines(raw) = Then(<<Cut(l)>>, Lines(b))
        <5>1. Lines(Then(Then(l, <<CR>>), Then(<<LF>>, b))) = Then(<<Cut(l)>>, Lines(b))
          BY <3>2, FirstLine
        <5> QED
          BY <4>1, <5>1, Zenon DEF cr, lf
      <4>3. u \in Seq(A) /\ u # <<>> /\ u[1] = LF
        <5>1. /\ <<LF>> \o b \in Seq(A) /\ Len(<<LF>> \o b) = 1 + Len(b)
              /\ (<<LF>> \o b)[1] = LF
          BY Front1
        <5>2. u \in Seq(A) /\ Len(u) = 1 + Len(b) /\ u[1] = LF
          BY <5>1, Zenon DEF Then, lf
        <5> HIDE DEF u
        <5>3. Len(u) # 0
          BY <3>2, <5>2
        <5>4. u # <<>>
          BY <5>3
        <5> QED
          BY <5>2, <5>4
      <4>4. Normalised(u) = Then(lf, nb)
        <5>1. Normalised(Then(<<LF>>, b)) = Then(First(LF, b), Normalised(b))
          BY NormCons
        <5>2. First(LF, b) = lf
          BY <1>0 DEF First, lf
        <5> QED
          BY <5>1, <5>2, Zenon DEF lf, nb
      <4> HIDE DEF u
      <4>5. Normalised(Then(cr, u)) = Then(<<>>, Normalised(u))
        <5>1. Normalised(Then(<<CR>>, u)) = Then(First(CR, u), Normalised(u))
          BY <4>3, NormCons
        <5>2. First(CR, u) = <<>>
          BY <4>3 DEF First
        <5> QED
          BY <5>1, <5>2, Zenon DEF cr
      <4>6. Then(<<>>, Normalised(u)) = Normalised(u)
        <5>1. Normalised(u) \in Seq(A)
          BY <4>3, NormType
        <5> QED
          BY <5>1, ThenNothing
      <4>7. Then(cr, u) \in Seq(A) /\ raw = Then(l, Then(cr, u))
        <5>1. Then(cr, u) \in Seq(A) /\ Then(Then(l, cr), u) = Then(l, Then(cr, u))
          BY <3>4, <4>3, ThenOK
        <5> QED
          BY <4>1, <5>1, Zenon DEF u
      <4>8. Normalised(raw) = Then(l, Then(lf, nb))
        BY <3>7, <4>4, <4>5, <4>6, <4>7, Zenon
      <4> QED
        BY <3>5, <3>6, <4>2, <4>8, Zenon
    <3> QED
      BY <3>1, <3>8, <3>9 DEF Divided
  <2> QED
    BY <2>1, <2>2
<1>2. \A n \in Nat : n \in S
  <2> HIDE DEF S
  <2> QED
    BY <1>1, Descent
<1>3. ASSUME NEW raw \in Seq(A) PROVE Lines(Normalised(raw)) = Lines(raw)
  <2>1. Len(raw) \in Nat
    OBVIOUS
  <2>2. Len(raw) \in S
    BY <1>2, <2>1
  <2> QED
    BY <1>3, <2>2
<1> QED
  BY <1>3

-----------------------------------------------------------------------------
(* What follows the closing line *)

\* The first lines of more are those of few.
Ahead(few, more) ==
    /\ Len(few) \in Nat /\ Len(more) \in Nat /\ Len(few) <= Len(more)
    /\ \A i \in 1 .. Len(few) : more[i] = few[i]

\* One line in front of both.
LEMMA AheadCons ==
    ASSUME NEW B, NEW L \in B, NEW few \in Seq(B), NEW more \in Seq(B), Ahead(few, more)
    PROVE  Ahead(Then(<<L>>, few), Then(<<L>>, more))
<1> DEFINE u == Then(<<L>>, few)
           v == Then(<<L>>, more)
<1>1. /\ Len(u) = 1 + Len(few) /\ u[1] = L /\ \A i \in 1 .. Len(few) : u[1 + i] = few[i]
      /\ Len(few) \in Nat
  <2>1. /\ Len(few) \in Nat /\ Len(<<L>> \o few) = 1 + Len(few) /\ (<<L>> \o few)[1] = L
        /\ \A i \in 1 .. Len(few) : (<<L>> \o few)[1 + i] = few[i]
    BY Front1
  <2> QED
    BY <2>1, Zenon DEF Then
<1>2. /\ Len(v) = 1 + Len(more) /\ v[1] = L /\ \A i \in 1 .. Len(more) : v[1 + i] = more[i]
      /\ Len(more) \in Nat
  <2>1. /\ Len(more) \in Nat /\ Len(<<L>> \o more) = 1 + Len(more) /\ (<<L>> \o more)[1] = L
        /\ \A i \in 1 .. Len(more) : (<<L>> \o more)[1 + i] = more[i]
    BY Front1
  <2> QED
    BY <2>1, Zenon DEF Then
<1> DEFINE F == Len(few)
           M == Len(more)
<1>3. F \in Nat /\ M \in Nat /\ F <= M /\ \A i \in 1 .. F : more[i] = few[i]
  BY DEF Ahead
<1> HIDE DEF u, v, F, M
<1>4. Len(u) = 1 + F /\ Len(v) = 1 + M
  BY <1>1, <1>2 DEF F, M
<1>5. ASSUME NEW i \in 1 .. 1 + F PROVE v[i] = u[i]
  <2>1. CASE i = 1
    BY <1>1, <1>2, <2>1, Zenon
  <2>2. CASE i # 1
    <3> DEFINE j == i - 1
    <3>1. j \in 1 .. F /\ j \in 1 .. M /\ i = 1 + j
      BY <1>3, <2>2
    <3> HIDE DEF j
    <3>2. u[1 + j] = few[j] /\ v[1 + j] = more[j] /\ more[j] = few[j]
      BY <1>1, <1>2, <1>3, <3>1, Zenon DEF F, M
    <3> QED
      BY <3>1, <3>2, Zenon
  <2> QED
    BY <2>1, <2>2
<1>6. Len(u) \in Nat /\ Len(v) \in Nat /\ Len(u) <= Len(v)
  BY <1>3, <1>4
<1>7. \A i \in 1 .. Len(u) : v[i] = u[i]
  BY <1>4, <1>5, Zenon
<1> QED
  BY <1>6, <1>7, Zenon DEF Ahead, u, v

\* Nothing is ahead of anything.
LEMMA AheadNone ==
    ASSUME NEW B, NEW more \in Seq(B)
    PROVE  Ahead(<<>>, more)
<1>1. Len(<<>>) = 0 /\ Len(more) \in Nat
  OBVIOUS
<1> DEFINE e == <<>>
<1>2. Len(e) = 0
  BY <1>1
<1> HIDE DEF e
<1>3. Ahead(e, more)
  BY <1>1, <1>2 DEF Ahead
<1> QED
  BY <1>3 DEF e

\* What follows a line feed behind a text is read behind its lines.
LEMMA LinesAhead ==
    ASSUME NEW A, LF \in A, CR \in A, NEW y \in Seq(A)
    PROVE  \A text \in Seq(A) : Ahead(Lines(text), Lines(Then(text, Then(<<LF>>, y))))
<1> DEFINE lf == <<LF>>
           cr == <<CR>>
           e == Then(lf, y)
           S == {n \in Nat : \A text \in Seq(A) :
                   Len(text) = n => Ahead(Lines(text), Lines(Then(text, e)))}
           B == LineOver(A)
<1>0. LF \in Breaks /\ CR \in Breaks /\ LF # CR
  BY DEF Breaks, LF, CR
<1>1. lf \in Seq(A) /\ cr \in Seq(A) /\ <<>> \in Seq(A)
  OBVIOUS
<1> HIDE DEF lf, cr
<1>2. e \in Seq(A)
  BY <1>1, ThenOK
<1>3. ASSUME NEW t \in Seq(A) PROVE Lines(t) \in Seq(B)
  BY LinesType
<1> HIDE DEF e
<1>4. ASSUME NEW n \in Nat, \A m \in 0 .. n - 1 : m \in S PROVE n \in S
  <2> SUFFICES ASSUME NEW text \in Seq(A), Len(text) = n
               PROVE  Ahead(Lines(text), Lines(Then(text, e)))
    OBVIOUS
  <2>a. Then(text, e) \in Seq(A)
    BY <1>2, ThenOK
  <2>0. ASSUME NEW b \in Seq(A), Len(b) \in Nat, Len(b) < Len(text)
        PROVE  Ahead(Lines(b), Lines(Then(b, e)))
    <3>1. Len(b) \in 0 .. n - 1
      BY <2>0
    <3>2. Len(b) \in S
      BY <1>4, <3>1
    <3> QED
      BY <3>2
  <2>b. ASSUME NEW l \in Seq(A), NEW few \in Seq(B), NEW more \in Seq(B), Ahead(few, more),
               Lines(text) = Then(<<Cut(l)>>, few), Lines(Then(text, e)) = Then(<<Cut(l)>>, more)
        PROVE  Ahead(Lines(text), Lines(Then(text, e)))
    <3>1. Cut(l) \in B
      BY CutOver
    <3>2. Ahead(Then(<<Cut(l)>>, few), Then(<<Cut(l)>>, more))
      BY <2>b, <3>1, AheadCons
    <3> QED
      BY <2>b, <3>2, Zenon
  <2>c. ASSUME NEW l \in Seq(A), Unbroken(l) PROVE Lines(Then(Then(l, lf), y)) = Then(<<Cut(l)>>, Lines(y))
    BY <1>0, <2>c, FirstLine DEF lf
  <2>d. Ahead(<<>>, Lines(y)) /\ <<>> \in Seq(B)
    BY <1>3, AheadNone
  <2>1. CASE text = <<>>
    <3>1. Lines(text) = <<>>
      BY <2>1, LinesNone
    <3>2. Ahead(<<>>, Lines(Then(text, e)))
      BY <1>3, <2>a, AheadNone
    <3> QED
      BY <3>1, <3>2, Zenon
  <2>2. CASE text # <<>> /\ Unbroken(text)
    <3>1. Lines(text) = Then(<<Cut(text)>>, <<>>)
      <4>1. Lines(text) = <<Cut(text)>>
        BY <2>2, LinesAlone
      <4>2. <<Cut(text)>> \in Seq(B)
        BY CutOver
      <4>3. Then(<<Cut(text)>>, <<>>) = <<Cut(text)>>
        BY <4>2, ThenNothing
      <4> QED
        BY <4>1, <4>3, Zenon
    <3>2. Then(text, e) = Then(Then(text, lf), y)
      BY <1>1, ThenOK DEF e
    <3>3. Lines(Then(text, e)) = Then(<<Cut(text)>>, Lines(y))
      BY <2>2, <2>c, <3>2, Zenon
    <3> QED
      BY <1>3, <2>b, <2>d, <3>1, <3>3
  <2>3. CASE ~Unbroken(text)
    <3>1. PICK l \in Seq(A), b \in Seq(A) : Divided(text, l, b)
      BY <2>3, SplitCases
    <3>2. Unbroken(l) /\ Len(b) \in Nat /\ Len(b) < Len(text)
      BY <3>1 DEF Divided
    <3> DEFINE be == Then(b, e)
    <3>3. be \in Seq(A) /\ Ahead(Lines(b), Lines(be))
      BY <1>2, <2>0, <3>2, ThenOK
    <3>4. Lines(b) \in Seq(B) /\ Lines(be) \in Seq(B)
      BY <1>3, <3>3
    <3> HIDE DEF be
    <3>5. ASSUME NEW x \in Breaks, BreakAt(text, l, x, b)
          PROVE  Ahead(Lines(text), Lines(Then(text, e)))
      <4> DEFINE v == <<x>>
      <4>1. text = Then(Then(l, v), b) /\ (x = CR => b = <<>> \/ b[1] # LF)
        BY <3>5 DEF BreakAt
      <4>2. Lines(text) = Then(<<Cut(l)>>, Lines(b))
        <5>1. Lines(Then(Then(l, <<x>>), b)) = Then(<<Cut(l)>>, Lines(b))
          BY <3>2, <4>1, FirstLine
        <5> QED
          BY <4>1, <5>1, Zenon
      <4>3. v \in Seq(A)
        BY DEF Breaks
      <4> HIDE DEF v
      <4>4. Then(text, e) = Then(Then(l, v), be)
        <5> DEFINE lv == Then(l, v)
        <5>1. lv \in Seq(A)
          BY <4>3, ThenOK
        <5> HIDE DEF lv
        <5>2. Then(Then(lv, b), e) = Then(lv, Then(b, e))
          BY <1>2, <5>1, ThenOK
        <5> QED
          BY <4>1, <5>2, Zenon DEF lv, be
      <4>5. CASE x = CR /\ b = <<>>
        <5>1. be = e
          BY <1>2, <4>5, ThenNothing DEF be
        <5>2. Then(text, e) = Then(Then(l, <<CR>>), Then(<<LF>>, y))
          BY <4>4, <4>5, <5>1, Zenon DEF e, v, lf
        <5>3. Lines(Then(Then(l, <<CR>>), Then(<<LF>>, y))) = Then(<<Cut(l)>>, Lines(y))
          BY <3>2, FirstLine
        <5>4. Lines(Then(text, e)) = Then(<<Cut(l)>>, Lines(y))
          BY <5>2, <5>3, Zenon
        <5>5. Lines(text) = Then(<<Cut(l)>>, <<>>)
          BY <4>2, <4>5, LinesNone, Zenon
        <5> QED
          BY <1>3, <2>b, <2>d, <5>4, <5>5
      <4>6. CASE ~(x = CR /\ b = <<>>)
        <5>1. x = CR => be = <<>> \/ be[1] # LF
          <6> SUFFICES ASSUME x = CR PROVE be[1] # LF
            OBVIOUS
          <6>1. b # <<>> /\ b[1] # LF
            BY <4>1, <4>6
          <6>2. 1 \in 1 .. Len(b)
            BY <6>1
          <6>3. (b \o e)[1] = b[1]
            BY <1>2, <6>2, Behind
          <6>4. be[1] = b[1]
            BY <6>3, Zenon DEF be, Then
          <6> QED
            BY <6>1, <6>4
        <5>2. Lines(Then(Then(l, <<x>>), be)) = Then(<<Cut(l)>>, Lines(be))
          BY <3>2, <3>3, <5>1, FirstLine
        <5>3. Lines(Then(text, e)) = Then(<<Cut(l)>>, Lines(be))
          BY <4>4, <5>2, Zenon DEF v
        <5> QED
          BY <2>b, <3>3, <3>4, <4>2, <5>3
      <4> QED
        BY <4>5, <4>6
    <3>6. ASSUME PairAt(text, l, b) PROVE Ahead(Lines(text), Lines(Then(text, e)))
      <4>1. text = Then(Then(l, cr), Then(lf, b))
        BY <3>6 DEF PairAt, cr, lf
      <4>2. Lines(text) = Then(<<Cut(l)>>, Lines(b))
        <5>1. Lines(Then(Then(l, <<CR>>), Then(<<LF>>, b))) = Then(<<Cut(l)>>, Lines(b))
          BY <3>2, FirstLine
        <5> QED
          BY <4>1, <5>1, Zenon DEF cr, lf
      <4>3. Then(text, e) = Then(Then(l, cr), Then(lf, be))
        <5> DEFINE lc == Then(l, cr)
                   fb == Then(lf, b)
        <5>1. lc \in Seq(A) /\ fb \in Seq(A)
          BY <1>1, ThenOK
        <5>2. Then(fb, e) = Then(lf, Then(b, e))
          BY <1>1, <1>2, ThenOK
        <5> HIDE DEF lc, fb
        <5>3. Then(Then(lc, fb), e) = Then(lc, Then(fb, e))
          BY <1>2, <5>1, ThenOK
        <5> QED
          BY <4>1, <5>2, <5>3, Zenon DEF lc, fb, be
      <4>4. Lines(Then(Then(l, <<CR>>), Then(<<LF>>, be))) = Then(<<Cut(l)>>, Lines(be))
        BY <3>2, <3>3, FirstLine
      <4>5. Lines(Then(text, e)) = Then(<<Cut(l)>>, Lines(be))
        BY <4>3, <4>4, Zenon DEF cr, lf
      <4> QED
        BY <2>b, <3>3, <3>4, <4>2, <4>5
    <3> QED
      BY <3>1, <3>5, <3>6 DEF Divided
  <2> QED
    BY <2>1, <2>2, <2>3
<1>5. \A n \in Nat : n \in S
  <2> HIDE DEF S
  <2> QED
    BY <1>4, Descent
<1>6. ASSUME NEW text \in Seq(A) PROVE Ahead(Lines(text), Lines(Then(text, e)))
  <2>1. Len(text) \in Nat
    OBVIOUS
  <2>2. Len(text) \in S
    BY <1>5, <2>1
  <2> QED
    BY <1>6, <2>2
<1> QED
  BY <1>6, Zenon DEF e, lf

\* Lines behind the closing one change nothing.
LEMMA ClosedBefore ==
    ASSUME NEW B, NEW few \in Seq(B), NEW more \in Seq(B), Ahead(few, more),
           SelectInSeq(few, Terminates) # 0
    PROVE  /\ SelectInSeq(more, Terminates) = SelectInSeq(few, Terminates)
           /\ BodyOf(more, SelectInSeq(few, Terminates)) = BodyOf(few, SelectInSeq(few, Terminates))
<1> DEFINE c == SelectInSeq(few, Terminates)
           d == SelectInSeq(more, Terminates)
           F == Len(few)
           M == Len(more)
<1>1. /\ c \in 0 .. F /\ c # 0
      /\ c # 0 => Terminates(few[c]) /\ \A i \in 1 .. c - 1 : ~Terminates(few[i])
  BY SelectOK
<1>2. /\ d \in 0 .. M
      /\ d = 0 <=> \A i \in 1 .. M : ~Terminates(more[i])
      /\ d # 0 => Terminates(more[d]) /\ \A i \in 1 .. d - 1 : ~Terminates(more[i])
  BY SelectOK
<1>3. F \in Nat /\ M \in Nat /\ F <= M /\ \A i \in 1 .. F : more[i] = few[i]
  BY DEF Ahead
<1> HIDE DEF c, d, F, M
<1>4. c \in 1 .. F /\ c \in 1 .. M /\ Terminates(more[c])
  BY <1>1, <1>3
<1>5. \A i \in 1 .. c - 1 : i \in 1 .. F /\ more[i] = few[i] /\ ~Terminates(more[i])
  BY <1>1, <1>3
<1>6. d = c
  <2>1. d # 0
    BY <1>2, <1>4
  <2>2. ~(c < d)
    <3>1. c < d => c \in 1 .. d - 1
      BY <1>2, <1>3, <1>4
    <3> QED
      BY <1>2, <1>4, <2>1, <3>1
  <2>3. ~(d < c)
    <3>1. d < c => d \in 1 .. c - 1
      BY <1>2, <1>3, <1>4, <2>1
    <3> QED
      BY <1>2, <1>5, <2>1, <3>1
  <2> QED
    BY <1>1, <1>2, <1>3, <2>2, <2>3
<1>7. BodyOf(more, c) = BodyOf(few, c)
  <2>1. [i \in 1 .. c - 1 |-> Append(more[i].text, LF)] = [i \in 1 .. c - 1 |-> Append(few[i].text, LF)]
    BY <1>5, Zenon
  <2>2. more[c] = few[c]
    BY <1>3, <1>4
  <2> QED
    BY <2>1, <2>2, Zenon DEF BodyOf
<1> QED
  BY <1>6, <1>7 DEF c, d

\* The decoder's answer depends on the lines alone.
LEMMA SameLinesSameAnswer ==
    ASSUME NEW raw, NEW other, Lines(other) = Lines(raw)
    PROVE  tg_decode(other) = tg_decode(raw)
BY Zenon DEF tg_decode

\* The line ends are the reader's business: whatever another build puts after
\* the metadata line, tg_decode answers the same however its lines end, nothing
\* behind the closing line changes the answer, and an accepted body fits.
THEOREM AnyLineEnd ==
    ASSUME NEW text \in Seq(Alphabet)
    PROVE  ReadsAnyLineEnd(text)
<1> DEFINE A == Alphabet
           k == AnyKey
           front == TextFront(k, k, 1, 1)
           raw == front \o text
           y == <<"1", N>>
           z == <<LF, "1", N>>
           e == Then(<<LF>>, y)
           long == Then(text, e)
           message == tg_decode(raw)
           few == Lines(text)
           more == Lines(long)
           c == SelectInSeq(few, Terminates)
           d == SelectInSeq(more, Terminates)
<1>1. Spells(A) /\ 1 \in Numbers /\ 1 \in Longs /\ 1 \in Serials
  BY AlphabetOK, SerialAssumption DEF Serials, TG_SN_MIN
<1>2. LF \in A /\ CR \in A /\ N \in A /\ "1" \in A
  BY DEF Alphabet
<1>3. k \in Seq(A) /\ tg_field_ok(k)
  BY AnyKeyOK
<1> HIDE DEF k
<1>4. front \in Seq(A)
  BY <1>1, <1>3, FrontOver
<1>5. ASSUME NEW t \in Seq(A) PROVE tg_decode(front \o t) = TextOf(k, k, 1, 1, Lines(t))
  <2>1. tg_decode(Header("ZCZC TEXT", k, k) \o <<Numeral(1), Numeral(1), LF>> \o t)
           = TextOf(k, k, 1, 1, Lines(t))
    BY <1>1, <1>3, DecodeText
  <2> QED
    BY <2>1, Zenon DEF front, TextFront
<1>6. y \in Seq(A) /\ z = e
  <2> DEFINE one == "1"
  <2>1. one \in A
    BY <1>2
  <2> HIDE DEF one
  <2>2. <<one, N>> \in Seq(A)
    BY <1>2, <2>1
  <2>3. <<LF>> \o <<one, N>> = <<LF, one, N>>
    <3> DEFINE u == <<one, N>>
               v == <<LF, one, N>>
               w == <<LF>> \o u
    <3>1. /\ u \in Seq(A) /\ Len(u) = 2 /\ u[1] = one /\ u[2] = N
          /\ v \in Seq(A) /\ Len(v) = 3 /\ v[1] = LF /\ v[2] = one /\ v[3] = N
      BY <1>2, <2>1
    <3> HIDE DEF u, v
    <3>2. w \in Seq(A) /\ Len(w) = 1 + Len(u) /\ w[1] = LF /\ \A i \in 1 .. Len(u) : w[1 + i] = u[i]
      <4>1. LF \in A /\ u \in Seq(A)
        BY <1>2, <3>1
      <4> QED
        BY <4>1, Front1
    <3> HIDE DEF w
    <3>3. 1 \in 1 .. 2 /\ 2 \in 1 .. 2 /\ 1 + 1 = 2 /\ 1 + 2 = 3
      OBVIOUS
    <3>4. Len(w) = 3 /\ w[2] = one /\ w[3] = N
      BY <3>1, <3>2, <3>3
    <3>5. \A i \in 1 .. 3 : i = 1 \/ i = 2 \/ i = 3
      OBVIOUS
    <3>6. w = v
      BY <3>1, <3>2, <3>4, <3>5, SameText
    <3> QED
      BY <3>6 DEF w, v, u
  <2> QED
    BY <2>2, <2>3, Zenon DEF one, Then
<1> HIDE DEF front, y, z
<1>7. e \in Seq(A) /\ long \in Seq(A)
  <2>1. <<LF>> \in Seq(A)
    BY <1>2
  <2>2. e \in Seq(A)
    BY <1>6, <2>1, ThenOK
  <2> HIDE DEF e
  <2> QED
    BY <2>2, ThenOK
<1>8. message = tg_decode(Normalised(raw))
  <2>1. raw \in Seq(A)
    <3>1. Then(front, text) \in Seq(A)
      BY <1>4, ThenOK
    <3> QED
      BY <3>1, Zenon DEF Then
  <2> HIDE DEF raw
  <2>2. Lines(Normalised(raw)) = Lines(raw)
    BY <1>2, <2>1, NormLines
  <2> QED
    BY <2>2, SameLinesSameAnswer
<1>9. raw \o z = front \o long
  <2> HIDE DEF e
  <2>1. Then(Then(front, text), e) = Then(front, Then(text, e))
    BY <1>4, <1>7, ThenOK
  <2> QED
    BY <1>6, <2>1, Zenon DEF Then
<1>10. message = TextOf(k, k, 1, 1, few)
  BY <1>5
<1>11. tg_decode(raw \o z) = TextOf(k, k, 1, 1, more)
  <2> HIDE DEF long
  <2>1. tg_decode(front \o long) = TextOf(k, k, 1, 1, more)
    BY <1>5, <1>7
  <2> QED
    BY <1>9, <2>1, Zenon
<1>12. Ahead(few, more) /\ few \in Seq(LineOver(A)) /\ more \in Seq(LineOver(A))
  <2>1. Ahead(few, more)
    BY <1>2, <1>6, LinesAhead
  <2> HIDE DEF long
  <2> QED
    BY <1>7, <2>1, LinesType
<1> HIDE DEF few, more, message
<1> DEFINE T(rest, close) ==
              IF close = 0 \/ Len(BodyOf(rest, close)) + 1 >= TG_BODY_MAX THEN TG_INVALID
              ELSE [kind |-> "TG_TEXT", receiver |-> k, sender |-> k, sn |-> 1, sn_to |-> 0,
                    timestamp |-> 1, body |-> BodyOf(rest, close)]
<1>13. TextOf(k, k, 1, 1, few) = T(few, c) /\ TextOf(k, k, 1, 1, more) = T(more, d)
  BY Zenon DEF TextOf
<1>14. ASSUME message # TG_INVALID
       PROVE  Len(message.body) < TG_BODY_MAX /\ tg_decode(raw \o z) = message
  <2>1. c # 0 /\ ~(Len(BodyOf(few, c)) + 1 >= TG_BODY_MAX)
    <3> HIDE DEF c
    <3> QED
      BY <1>10, <1>13, <1>14, Zenon
  <2>2. d = c /\ BodyOf(more, c) = BodyOf(few, c)
    BY <1>12, <2>1, ClosedBefore
  <2> DEFINE body == BodyOf(few, c)
  <2>3. message = [kind |-> "TG_TEXT", receiver |-> k, sender |-> k, sn |-> 1, sn_to |-> 0,
                    timestamp |-> 1, body |-> body]
    <3> HIDE DEF c
    <3> QED
      BY <1>10, <1>13, <2>1, Zenon
  <2>4. tg_decode(raw \o z) = message
    <3> HIDE DEF c, d
    <3>1. T(more, d) = T(few, c)
      BY <2>2, Zenon
    <3> QED
      BY <1>10, <1>11, <1>13, <3>1, Zenon
  <2>5. Len(body) \in Nat
    <3>1. c \in 1 .. Len(few) /\ Terminates(few[c])
      <4>1. /\ c \in 0 .. Len(few)
            /\ c # 0 => Terminates(few[c])
        BY <1>12, SelectOK
      <4>2. Len(few) \in Nat
        BY <1>12, LenProperties
      <4> HIDE DEF c
      <4> QED
        BY <2>1, <4>1, <4>2
    <3> HIDE DEF c
    <3>2. body \in Seq(A)
      <4>1. few[c] \in LineOver(A)
        BY <1>12, <3>1, ElementOfSeq
      <4> QED
        BY <1>2, <1>12, <3>1, <4>1, BodyOfCons
    <3> HIDE DEF body
    <3> QED
      BY <3>2, LenProperties
  <2> HIDE DEF body
  <2>6. message.body = body
    BY <2>3
  <2>7. Len(body) < TG_BODY_MAX
    <3>1. ~(Len(body) + 1 >= TG_BODY_MAX)
      BY <2>1 DEF body
    <3> QED
      BY <2>5, <3>1, TelegramAssumption
  <2> QED
    BY <2>4, <2>6, <2>7, Zenon
<1> QED
  BY <1>8, <1>14, Zenon DEF ReadsAnyLineEnd, message, raw, front, TextFront, z, k

-----------------------------------------------------------------------------
(* Texts without their blanks *)

\* Joining one sequence of texts after another.
LEMMA FlattenThen ==
    ASSUME NEW A, NEW t \in Seq(Seq(A))
    PROVE  /\ FlattenSeq(t) \in Seq(A)
           /\ \A s \in Seq(Seq(A)) : FlattenSeq(Then(s, t)) = Then(FlattenSeq(s), FlattenSeq(t))
<1> DEFINE ft == FlattenSeq(t)
           B == Seq(A)
           S == {n \in Nat : \A s \in Seq(B) :
                   Len(s) = n => FlattenSeq(Then(s, t)) = Then(FlattenSeq(s), ft)}
<1>0. FlattenSeq(<<>>) = <<>> /\ <<>> \in Seq(A)
  BY DEF FlattenSeq
<1>a. ASSUME NEW s \in Seq(B) PROVE FlattenSeq(s) \in Seq(A)
  <2>1. CASE s = <<>>
    BY <1>0, <2>1
  <2>2. CASE s # <<>>
    <3>1. PICK a \in B, u \in Seq(B) : Headed(s, a, u)
      BY <2>2, HeadSplit
    <3>2. FlattenSeq(<<a>> \o u) \in Seq(A)
      BY FlattenCons
    <3> QED
      BY <3>1, <3>2, Zenon DEF Headed, Then
  <2> QED
    BY <2>1, <2>2
<1>b. ft \in Seq(A)
  BY <1>a
<1> HIDE DEF ft
<1>1. ASSUME NEW n \in Nat, \A m \in 0 .. n - 1 : m \in S PROVE n \in S
  <2> SUFFICES ASSUME NEW s \in Seq(B), Len(s) = n
               PROVE  FlattenSeq(Then(s, t)) = Then(FlattenSeq(s), ft)
    OBVIOUS
  <2>1. CASE s = <<>>
    <3>1. Then(<<>>, t) = t
      BY ThenNothing
    <3>2. Then(<<>>, ft) = ft
      BY <1>b, ThenNothing
    <3> QED
      BY <1>0, <2>1, <3>1, <3>2, Zenon DEF ft
  <2>2. CASE s # <<>>
    <3>1. PICK a \in B, u \in Seq(B) : Headed(s, a, u)
      BY <2>2, HeadSplit
    <3>2. s = Then(<<a>>, u) /\ Len(u) + 1 = n /\ Len(u) \in Nat
      BY <3>1 DEF Headed
    <3>3. FlattenSeq(Then(u, t)) = Then(FlattenSeq(u), ft)
      <4>1. Len(u) \in 0 .. n - 1
        BY <3>2
      <4> QED
        BY <1>1, <4>1
    <3> DEFINE x == <<a>>
               v == Then(u, t)
               fu == FlattenSeq(u)
    <3>4. x \in Seq(B) /\ v \in Seq(B) /\ fu \in Seq(A)
      <4>1. x \in Seq(B)
        OBVIOUS
      <4>2. v \in Seq(B)
        BY ThenOK
      <4> HIDE DEF x, v
      <4> QED
        BY <1>a, <4>1, <4>2
    <3>5. Then(s, t) = Then(x, v)
      <4>0. x \in Seq(B)
        BY <3>4
      <4> HIDE DEF x
      <4>1. Then(Then(x, u), t) = Then(x, Then(u, t))
        BY <4>0, ThenOK
      <4> QED
        BY <3>2, <4>1, Zenon DEF x
    <3>6. FlattenSeq(Then(x, u)) = Then(a, fu)
      <4>1. FlattenSeq(<<a>> \o u) = a \o FlattenSeq(u)
        BY FlattenCons
      <4> QED
        BY <4>1, Zenon DEF Then
    <3> HIDE DEF v
    <3>7. FlattenSeq(Then(x, v)) = Then(a, FlattenSeq(v))
      <4>1. FlattenSeq(<<a>> \o v) = a \o FlattenSeq(v)
        BY <3>4, FlattenCons
      <4> QED
        BY <4>1, Zenon DEF Then
    <3> HIDE DEF fu
    <3>8. Then(Then(a, fu), ft) = Then(a, Then(fu, ft))
      BY <1>b, <3>4, ThenOK
    <3> QED
      BY <3>2, <3>3, <3>5, <3>6, <3>7, <3>8, Zenon DEF v, fu
  <2> QED
    BY <2>1, <2>2
<1>2. \A n \in Nat : n \in S
  <2> HIDE DEF S
  <2> QED
    BY <1>1, Descent
<1>3. ASSUME NEW s \in Seq(Seq(A)) PROVE FlattenSeq(Then(s, t)) = Then(FlattenSeq(s), ft)
  <2>1. Len(s) \in Nat
    OBVIOUS
  <2> QED
    BY <1>2, <2>1
<1> QED
  BY <1>b, <1>3 DEF ft

\* Joining with one more text behind.
LEMMA FlattenAppend ==
    ASSUME NEW A, NEW s \in Seq(Seq(A)), NEW a \in Seq(A)
    PROVE  /\ FlattenSeq(Append(s, a)) = Then(FlattenSeq(s), a)
           /\ FlattenSeq(s) \in Seq(A)
<1>1. <<a>> \in Seq(Seq(A)) /\ <<>> \in Seq(Seq(A))
  OBVIOUS
<1>2. FlattenSeq(s) \in Seq(A) /\ FlattenSeq(Then(s, <<a>>)) = Then(FlattenSeq(s), FlattenSeq(<<a>>))
  BY <1>1, FlattenThen
<1>3. FlattenSeq(<<a>>) = a
  <2>1. FlattenSeq(<<a>> \o <<>>) = a \o FlattenSeq(<<>>)
    BY <1>1, FlattenCons
  <2>2. FlattenSeq(<<>>) = <<>>
    BY DEF FlattenSeq
  <2>3. <<a>> \o <<>> = <<a>> /\ a \o <<>> = a
    BY <1>1, ConcatEmptySeq
  <2> QED
    BY <2>1, <2>2, <2>3, Zenon
<1>4. Append(s, a) = s \o <<a>>
  BY AppendIsConcat
<1> QED
  BY <1>2, <1>3, <1>4, Zenon DEF Then

\* What Solid makes of one symbol.
Kept(x) == IF x = Blank THEN <<>> ELSE <<x>>

\* What Solid joins.
KeptOf(s) == [i \in 1 .. Len(s) |-> Kept(s[i])]

\* Solid takes out the blanks, symbol by symbol.
LEMMA KeptOK ==
    ASSUME NEW A, NEW s \in Seq(A)
    PROVE  /\ Solid(s) = FlattenSeq(KeptOf(s)) /\ Solid(s) \in Seq(A)
           /\ KeptOf(s) \in Seq(Seq(A)) /\ Len(KeptOf(s)) = Len(s) /\ Len(s) \in Nat
           /\ \A i \in 1 .. Len(s) : KeptOf(s)[i] = Kept(s[i])
<1>1. Len(s) \in Nat /\ \A i \in 1 .. Len(s) : s[i] \in A
  OBVIOUS
<1>2. \A x \in A : Kept(x) \in Seq(A)
  BY DEF Kept
<1>3. KeptOf(s) \in [1 .. Len(s) -> Seq(A)]
  BY <1>1, <1>2 DEF KeptOf
<1>4. /\ KeptOf(s) \in Seq(Seq(A)) /\ Len(KeptOf(s)) = Len(s)
  BY <1>1, <1>3
<1>5. \A i \in 1 .. Len(s) : KeptOf(s)[i] = Kept(s[i])
  BY DEF KeptOf
<1>6. Solid(s) = FlattenSeq(KeptOf(s))
  BY Zenon DEF Solid, KeptOf, Kept
<1>7. Solid(s) \in Seq(A)
  BY <1>4, <1>6, FlattenThen
<1> QED
  BY <1>1, <1>4, <1>5, <1>6, <1>7

\* One text after another, without their blanks.
LEMMA SolidThen ==
    ASSUME NEW A, NEW a \in Seq(A), NEW b \in Seq(A)
    PROVE  Solid(Then(a, b)) = Then(Solid(a), Solid(b))
<1> DEFINE y == Then(a, b)
           ka == KeptOf(a)
           kb == KeptOf(b)
           ky == KeptOf(y)
           z == Then(ka, kb)
           B == Seq(A)
<1>1. /\ y \in Seq(A) /\ Len(a) \in Nat /\ Len(b) \in Nat /\ Len(y) = Len(a) + Len(b)
      /\ \A i \in 1 .. Len(a) : y[i] = a[i]
      /\ \A i \in 1 .. Len(b) : y[Len(a) + i] = b[i]
  <2>1. /\ a \o b \in Seq(A) /\ Len(a) \in Nat /\ Len(b) \in Nat
        /\ Len(a \o b) = Len(a) + Len(b)
        /\ \A i \in 1 .. Len(a) : (a \o b)[i] = a[i]
        /\ \A i \in 1 .. Len(b) : (a \o b)[Len(a) + i] = b[i]
    BY Behind
  <2> QED
    BY <2>1, Zenon DEF Then
<1> HIDE DEF y
<1>2. /\ ka \in Seq(B) /\ Len(ka) = Len(a) /\ Solid(a) = FlattenSeq(ka)
      /\ \A i \in 1 .. Len(a) : ka[i] = Kept(a[i])
  BY KeptOK
<1>3. /\ kb \in Seq(B) /\ Len(kb) = Len(b) /\ Solid(b) = FlattenSeq(kb)
      /\ \A i \in 1 .. Len(b) : kb[i] = Kept(b[i])
  BY KeptOK
<1>4. /\ ky \in Seq(B) /\ Len(ky) = Len(y) /\ Solid(y) = FlattenSeq(ky)
      /\ \A i \in 1 .. Len(y) : ky[i] = Kept(y[i])
  BY <1>1, KeptOK
<1> HIDE DEF ka, kb, ky, B
<1>5. /\ z \in Seq(B) /\ Len(z) = Len(a) + Len(b)
      /\ \A i \in 1 .. Len(a) : z[i] = ka[i]
      /\ \A i \in 1 .. Len(b) : z[Len(a) + i] = kb[i]
  <2>1. /\ ka \o kb \in Seq(B) /\ Len(ka \o kb) = Len(ka) + Len(kb)
        /\ \A i \in 1 .. Len(ka) : (ka \o kb)[i] = ka[i]
        /\ \A i \in 1 .. Len(kb) : (ka \o kb)[Len(ka) + i] = kb[i]
    <3>1. ka \in Seq(B) /\ kb \in Seq(B)
      BY <1>2, <1>3
    <3> QED
      BY <3>1, Behind
  <2> QED
    BY <1>2, <1>3, <2>1, Zenon DEF Then
<1> HIDE DEF z
<1>6. ASSUME NEW i \in 1 .. Len(y) PROVE ky[i] = z[i]
  <2>0. ky[i] = Kept(y[i])
    BY <1>4
  <2>1. CASE i <= Len(a)
    <3>1. i \in 1 .. Len(a)
      BY <1>1, <2>1
    <3> QED
      BY <1>1, <1>2, <1>5, <2>0, <3>1, Zenon
  <2>2. CASE ~(i <= Len(a))
    <3> DEFINE j == i - Len(a)
    <3>1. j \in 1 .. Len(b) /\ i = Len(a) + j
      BY <1>1, <2>2
    <3> HIDE DEF j
    <3> QED
      BY <1>1, <1>3, <1>5, <2>0, <3>1, Zenon
  <2> QED
    BY <2>1, <2>2
<1>7. ky = z
  <2>1. Len(ky) = Len(z) /\ \A i \in 1 .. Len(ky) : ky[i] = z[i]
    BY <1>1, <1>4, <1>5, <1>6, Zenon
  <2> QED
    BY <1>4, <1>5, <2>1, SameText
<1>8. FlattenSeq(Then(ka, kb)) = Then(FlattenSeq(ka), FlattenSeq(kb))
  BY <1>2, <1>3, FlattenThen DEF B
<1> QED
  BY <1>2, <1>3, <1>4, <1>7, <1>8, Zenon DEF z, y

\* One symbol is kept unless it is a blank.
LEMMA SolidOne ==
    ASSUME NEW A, NEW x \in A
    PROVE  Solid(<<x>>) = Kept(x) /\ Solid(<<>>) = <<>> /\ Kept(x) \in Seq(A)
<1>1. <<x>> \in Seq(A) /\ Len(<<x>>) = 1 /\ <<x>>[1] = x /\ Len(<<>>) = 0 /\ <<>> \in Seq(A)
  OBVIOUS
<1>2. Kept(x) \in Seq(A)
  BY DEF Kept
<1> DEFINE k == KeptOf(<<x>>)
<1>3. /\ Solid(<<x>>) = FlattenSeq(k)
      /\ k \in Seq(Seq(A)) /\ Len(k) = 1 /\ k[1] = Kept(x)
  <2>0. 1 \in 1 .. 1
    OBVIOUS
  <2>1. /\ Solid(<<x>>) = FlattenSeq(k)
        /\ k \in Seq(Seq(A)) /\ Len(k) = Len(<<x>>)
        /\ \A i \in 1 .. Len(<<x>>) : k[i] = Kept(<<x>>[i])
    BY <1>1, KeptOK
  <2> QED
    BY <1>1, <2>0, <2>1, Zenon
<1> HIDE DEF k
<1>4. k = Append(<<>>, Kept(x))
  <2> DEFINE w == Kept(x)
  <2> HIDE DEF w
  <2>1. w \in Seq(A) /\ k[1] = w
    BY <1>2, <1>3 DEF w
  <2>2. Append(<<>>, w) = <<w>>
    OBVIOUS
  <2>3. k = <<w>>
    BY <1>3, <2>1
  <2> QED
    BY <2>2, <2>3 DEF w
<1>5. FlattenSeq(<<>>) = <<>>
  BY DEF FlattenSeq
<1>6. FlattenSeq(k) = Kept(x)
  <2>1. <<>> \in Seq(Seq(A))
    OBVIOUS
  <2>2. FlattenSeq(Append(<<>>, Kept(x))) = Then(FlattenSeq(<<>>), Kept(x))
    BY <1>2, <2>1, FlattenAppend
  <2>3. Then(<<>>, Kept(x)) = Kept(x)
    BY <1>2, ThenNothing
  <2> QED
    BY <1>4, <1>5, <2>2, <2>3, Zenon
<1>7. Solid(<<>>) = <<>>
  <2>1. KeptOf(<<>>) \in Seq(Seq(A)) /\ Len(KeptOf(<<>>)) = Len(<<>>) /\ Solid(<<>>) = FlattenSeq(KeptOf(<<>>))
    BY <1>1, KeptOK
  <2>2. KeptOf(<<>>) = <<>>
    <3> DEFINE w == KeptOf(<<>>)
    <3>1. w \in Seq(Seq(A)) /\ Len(w) = 0
      BY <1>1, <2>1
    <3> HIDE DEF w
    <3>2. w = <<>>
      BY <3>1
    <3> QED
      BY <3>2 DEF w
  <2> QED
    BY <1>5, <2>1, <2>2, Zenon
<1> QED
  BY <1>2, <1>3, <1>6, <1>7, Zenon

\* Of blanks nothing is left; a text without blanks stays as it is.
LEMMA SolidAll ==
    ASSUME NEW A
    PROVE  \A s \in Seq(A) : /\ (\A i \in 1 .. Len(s) : s[i] = Blank) => Solid(s) = <<>>
                             /\ (\A i \in 1 .. Len(s) : s[i] # Blank) => Solid(s) = s
<1> DEFINE Blanks(s) == \A i \in 1 .. Len(s) : s[i] = Blank
           None(s) == \A i \in 1 .. Len(s) : s[i] # Blank
           P(s) == (Blanks(s) => Solid(s) = <<>>) /\ (None(s) => Solid(s) = s)
           S == {n \in Nat : \A s \in Seq(A) : Len(s) = n => P(s)}
<1>1. ASSUME NEW n \in Nat, \A m \in 0 .. n - 1 : m \in S PROVE n \in S
  <2> SUFFICES ASSUME NEW s \in Seq(A), Len(s) = n PROVE P(s)
    BY Zenon
  <2>1. CASE s = <<>>
    <3>1. Solid(<<>>) = <<>>
      <4>1. 1 \in {1}
        OBVIOUS
      <4> QED
        BY <4>1, SolidOne
    <3> QED
      BY <2>1, <3>1, Zenon
  <2>2. CASE s # <<>>
    <3>1. PICK a \in A, u \in Seq(A) : Headed(s, a, u)
      BY <2>2, HeadSplit
    <3>2. s = Then(<<a>>, u) /\ Len(u) + 1 = n /\ Len(u) \in Nat /\ s[1] = a
      BY <3>1 DEF Headed
    <3>3. P(u)
      <4>1. Len(u) \in 0 .. n - 1
        BY <3>2
      <4>2. Len(u) \in S
        BY <1>1, <4>1, Zenon
      <4> QED
        BY <4>2, Zenon
    <3>4. Solid(s) = Then(Kept(a), Solid(u))
      <4> DEFINE x == <<a>>
      <4>1. x \in Seq(A) /\ Solid(x) = Kept(a)
        BY SolidOne
      <4> HIDE DEF x
      <4>2. Solid(Then(x, u)) = Then(Solid(x), Solid(u))
        BY <4>1, SolidThen
      <4> QED
        BY <3>2, <4>1, <4>2, Zenon DEF x
    <3>5. \A i \in 1 .. Len(u) : 1 + i \in 1 .. Len(s) /\ s[1 + i] = u[i]
      <4>1. \A i \in 1 .. Len(u) : (<<a>> \o u)[1 + i] = u[i]
        BY Front1
      <4>2. \A i \in 1 .. Len(u) : s[1 + i] = u[i]
        BY <3>2, <4>1, Zenon DEF Then
      <4>3. \A i \in 1 .. Len(u) : 1 + i \in 1 .. Len(s)
        BY <3>2
      <4> QED
        BY <4>2, <4>3, Zenon
    <3>6. 1 \in 1 .. Len(s)
      BY <3>2
    <3>7. ASSUME Blanks(s) PROVE Solid(s) = <<>>
      <4>1. a = Blank /\ Blanks(u)
        BY <3>2, <3>5, <3>6, <3>7, Zenon
      <4>2. Solid(u) = <<>> /\ Kept(a) = <<>>
        BY <3>3, <4>1, Zenon DEF Kept
      <4>3. Then(<<>>, <<>>) = <<>>
        BY DEF Then
      <4> QED
        BY <3>4, <4>2, <4>3, Zenon
    <3>8. ASSUME None(s) PROVE Solid(s) = s
      <4>1. a # Blank /\ None(u)
        BY <3>2, <3>5, <3>6, <3>8, Zenon
      <4>2. Solid(u) = u /\ Kept(a) = <<a>>
        BY <3>3, <4>1, Zenon DEF Kept
      <4> QED
        BY <3>2, <3>4, <4>2, Zenon
    <3> QED
      BY <3>7, <3>8, Zenon
  <2> QED
    BY <2>1, <2>2
<1>2. \A n \in Nat : n \in S
  <2> HIDE DEF S
  <2> QED
    BY <1>1, Descent
<1>3. ASSUME NEW s \in Seq(A) PROVE P(s)
  <2>1. Len(s) \in Nat
    OBVIOUS
  <2> HIDE DEF P
  <2> QED
    BY <1>2, <2>1
<1> QED
  BY <1>3, Zenon

-----------------------------------------------------------------------------
(* The arguments of a command *)

\* char_find, src/misc.c: nothing before it is ch, and it is unless it is the end.
LEMMA CharFindOK ==
    ASSUME NEW A, NEW s \in Seq(A), NEW p \in 1 .. Len(s) + 1, NEW ch
    PROVE  LET i == char_find(p, s, ch) IN
           /\ i \in p .. Len(s) + 1
           /\ \A q \in p .. i - 1 : s[q] # ch
           /\ i <= Len(s) => s[i] = ch
<1> DEFINE B == {q \in p .. Len(s) : s[q] = ch}
           K == Len(s)
           i == char_find(p, s, ch)
<1>0. K \in Nat
  OBVIOUS
<1>1. B \in SUBSET Nat /\ \A q : q \in B <=> q \in p .. K /\ s[q] = ch
  OBVIOUS
<1>2. i = IF B = {} THEN K + 1 ELSE Min(B)
  BY Zenon DEF char_find
<1> HIDE DEF B, i, K
<1>3. CASE B = {}
  <2>1. i = K + 1
    BY <1>2, <1>3
  <2> QED
    BY <1>0, <1>1, <1>3, <2>1 DEF K, i
<1>4. CASE B # {}
  <2>1. i \in B /\ \A d \in B : i <= d
    BY <1>1, <1>2, <1>4, MinOK
  <2>2. i \in p .. K /\ s[i] = ch
    BY <1>1, <2>1
  <2>3. \A q \in p .. i - 1 : s[q] # ch
    <3> SUFFICES ASSUME NEW q \in p .. i - 1, s[q] = ch PROVE FALSE
      OBVIOUS
    <3>1. q \in p .. K
      BY <1>0, <2>2 DEF K
    <3>2. i <= q
      BY <1>1, <2>1, <3>1
    <3> QED
      BY <2>2, <3>2
  <2> QED
    BY <1>0, <2>2, <2>3 DEF K, i
<1> QED
  BY <1>3, <1>4

\* What is skipped after an argument are blanks.
LEMMA AfterBlanksOK ==
    ASSUME NEW A, NEW s \in Seq(A), NEW p \in 1 .. Len(s)
    PROVE  LET i == AfterBlanks(s, p) IN
           /\ i \in p + 1 .. Len(s) + 1
           /\ \A q \in p + 1 .. i - 1 : s[q] = Blank
           /\ i <= Len(s) => s[i] # Blank
<1> DEFINE B == {q \in p + 1 .. Len(s) : s[q] # Blank}
           K == Len(s)
           i == AfterBlanks(s, p)
<1>0. K \in Nat
  OBVIOUS
<1>1. B \in SUBSET Nat /\ \A q : q \in B <=> q \in p + 1 .. K /\ s[q] # Blank
  OBVIOUS
<1>2. i = IF B = {} THEN K + 1 ELSE Min(B)
  BY Zenon DEF AfterBlanks
<1> HIDE DEF B, i, K
<1>3. CASE B = {}
  <2>1. i = K + 1
    BY <1>2, <1>3
  <2> QED
    BY <1>0, <1>1, <1>3, <2>1 DEF K, i
<1>4. CASE B # {}
  <2>1. i \in B /\ \A d \in B : i <= d
    BY <1>1, <1>2, <1>4, MinOK
  <2>2. i \in p + 1 .. K /\ s[i] # Blank
    BY <1>1, <2>1
  <2>3. \A q \in p + 1 .. i - 1 : s[q] = Blank
    <3> SUFFICES ASSUME NEW q \in p + 1 .. i - 1, s[q] # Blank PROVE FALSE
      OBVIOUS
    <3>1. q \in p + 1 .. K
      BY <1>0, <2>2 DEF K
    <3>2. i <= q
      BY <1>1, <2>1, <3>1
    <3> QED
      BY <2>2, <3>2
  <2> QED
    BY <1>0, <2>2, <2>3 DEF K, i
<1> QED
  BY <1>3, <1>4

\* A text up to n in two parts.
LEMMA TwoParts ==
    ASSUME NEW A, NEW s \in Seq(A), NEW n \in 0 .. Len(s), NEW m \in 0 .. n
    PROVE  SubSeq(s, 1, n) = Then(SubSeq(s, 1, m), SubSeq(s, m + 1, n))
<1> DEFINE K == Len(s)
           a == SubSeq(s, 1, m)
           b == SubSeq(s, m + 1, n)
           c == SubSeq(s, 1, n)
           y == Then(a, b)
<1>0. K \in Nat /\ m \in 0 .. K /\ m + 1 \in 1 .. K + 1 /\ n \in (m + 1) - 1 .. K /\ n - (m + 1) + 1 = n - m
  <2>1. K \in Nat
    OBVIOUS
  <2> HIDE DEF K
  <2> QED
    BY <2>1 DEF K
<1>1. a \in Seq(A) /\ Len(a) = m /\ \A i \in 1 .. m : a[i] = s[i]
  BY <1>0, UpTo
<1>2. c \in Seq(A) /\ Len(c) = n /\ \A i \in 1 .. n : c[i] = s[i]
  BY UpTo
<1>3. b \in Seq(A) /\ Len(b) = n - m /\ \A i \in 1 .. n - m : b[i] = s[m + i]
  <2>1. /\ b \in Seq(A) /\ Len(b) = n - (m + 1) + 1
        /\ \A i \in 1 .. n - (m + 1) + 1 : b[i] = s[(m + 1) + i - 1]
    BY <1>0, PartOf
  <2>2. \A i \in 1 .. n - m : (m + 1) + i - 1 = m + i
    OBVIOUS
  <2> HIDE DEF b
  <2> QED
    BY <1>0, <2>1, <2>2
<1> HIDE DEF a, b, c, K
<1>4. /\ y \in Seq(A) /\ Len(y) = Len(a) + Len(b)
      /\ \A i \in 1 .. Len(a) : y[i] = a[i]
      /\ \A i \in 1 .. Len(b) : y[Len(a) + i] = b[i]
  <2>1. a \in Seq(A) /\ b \in Seq(A)
    BY <1>1, <1>3
  <2>2. /\ a \o b \in Seq(A) /\ Len(a \o b) = Len(a) + Len(b)
        /\ \A i \in 1 .. Len(a) : (a \o b)[i] = a[i]
        /\ \A i \in 1 .. Len(b) : (a \o b)[Len(a) + i] = b[i]
    BY <2>1, Behind
  <2> QED
    BY <2>2, Zenon DEF Then
<1> HIDE DEF y
<1>5. ASSUME NEW i \in 1 .. n PROVE c[i] = y[i]
  <2>1. CASE i <= m
    <3>1. i \in 1 .. m
      BY <2>1
    <3> QED
      BY <1>1, <1>2, <1>4, <3>1, Zenon
  <2>2. CASE ~(i <= m)
    <3> DEFINE j == i - m
    <3>1. j \in 1 .. n - m /\ i = m + j
      BY <2>2
    <3> HIDE DEF j
    <3> QED
      BY <1>1, <1>2, <1>3, <1>4, <3>1, Zenon
  <2> QED
    BY <2>1, <2>2
<1>6. Len(c) = Len(y)
  BY <1>1, <1>2, <1>3, <1>4
<1>7. c = y
  BY <1>2, <1>4, <1>5, <1>6, SameText
<1> QED
  BY <1>7 DEF a, b, c, y

\* A text up to n that ends in an argument from p to e and blanks.
LEMMA SolidUpTo ==
    ASSUME NEW A, NEW s \in Seq(A), NEW n \in 0 .. Len(s), NEW e \in 0 .. n, NEW p \in 1 .. e + 1,
           \A q \in e + 1 .. n : s[q] = Blank
    PROVE  /\ Solid(SubSeq(s, 1, n)) = Then(Solid(SubSeq(s, 1, p - 1)), Solid(SubSeq(s, p, e)))
           /\ SubSeq(s, p, e) \in Seq(A) /\ SubSeq(s, 1, p - 1) \in Seq(A)
<1> DEFINE K == Len(s)
           m == p - 1
           a == SubSeq(s, 1, m)
           b == SubSeq(s, p, e)
           c == SubSeq(s, 1, e)
           d == SubSeq(s, e + 1, n)
<1>0. K \in Nat
  OBVIOUS
<1>1. /\ m \in 0 .. e /\ e \in 0 .. K /\ m + 1 = p /\ m \in 0 .. K
      /\ p \in 1 .. K + 1 /\ e \in p - 1 .. K /\ e + 1 \in 1 .. K + 1 /\ n \in (e + 1) - 1 .. K
  <2> HIDE DEF K
  <2> QED
    BY <1>0 DEF K
<1>2. a \in Seq(A) /\ c \in Seq(A)
  <2> HIDE DEF m
  <2> QED
    BY <1>1, UpTo
<1>3. b \in Seq(A)
  <2>1. p \in 1 .. Len(s) + 1 /\ e \in p - 1 .. Len(s)
    BY <1>1
  <2> QED
    BY <2>1, PartOf
<1>4. d \in Seq(A) /\ \A i \in 1 .. Len(d) : d[i] = Blank
  <2>1. e + 1 \in 1 .. Len(s) + 1 /\ n \in (e + 1) - 1 .. Len(s)
    BY <1>1
  <2>2. d \in Seq(A) /\ Len(d) = n - (e + 1) + 1 /\ \A i \in 1 .. n - (e + 1) + 1 : d[i] = s[(e + 1) + i - 1]
    BY <2>1, PartOf
  <2> HIDE DEF d
  <2>3. \A i \in 1 .. n - (e + 1) + 1 : (e + 1) + i - 1 \in e + 1 .. n
    OBVIOUS
  <2> QED
    BY <2>2, <2>3
<1>5. SubSeq(s, 1, n) = Then(c, d)
  BY TwoParts
<1>6. c = Then(a, b)
  <2>1. e \in 0 .. Len(s) /\ m \in 0 .. e
    BY <1>1
  <2> HIDE DEF m
  <2>2. SubSeq(s, 1, e) = Then(SubSeq(s, 1, m), SubSeq(s, m + 1, e))
    BY <2>1, TwoParts
  <2> QED
    BY <1>1, <2>2
<1> HIDE DEF a, b, c, d, m
<1>7. Solid(d) = <<>>
  BY <1>4, SolidAll
<1>8. Solid(Then(c, d)) = Then(Solid(c), Solid(d))
  BY <1>2, <1>4, SolidThen
<1>9. Solid(Then(a, b)) = Then(Solid(a), Solid(b))
  BY <1>2, <1>3, SolidThen
<1>10. Then(Solid(c), <<>>) = Solid(c)
  <2>1. Solid(c) \in Seq(A)
    BY <1>2, KeptOK
  <2> QED
    BY <2>1, ThenNothing
<1>11. Solid(SubSeq(s, 1, n)) = Then(Solid(a), Solid(b))
  BY <1>5, <1>6, <1>7, <1>8, <1>9, <1>10, Zenon
<1> QED
  BY <1>2, <1>3, <1>11 DEF a, b, m

\* unquote_str, src/misc.c: without the quotes in front and behind.
LEMMA Unquoted ==
    ASSUME NEW A, NEW arg \in Seq(A), Len(arg) >= 2, arg[1] = Quote, arg[Len(arg)] = Quote,
           \A i \in 2 .. Len(arg) - 1 : arg[i] # Quote
    PROVE  /\ unquote_str(arg) = SubSeq(arg, 2, Len(arg) - 1)
           /\ Quote \notin ToSet(unquote_str(arg))
<1> DEFINE m == Len(arg)
           t == Tail(arg)
           f == SubSeq(t, 1, Len(t) - 1)
           g == SubSeq(arg, 2, m - 1)
<1>0. m \in Nat /\ m >= 2 /\ arg # <<>>
  OBVIOUS
<1>1. t \in Seq(A) /\ Len(t) = m - 1 /\ \A i \in 1 .. m - 1 : t[i] = arg[i + 1]
  <2>1. t \in Seq(A) /\ Len(t) = m - 1
    BY <1>0, HeadTailProperties
  <2>2. \A i \in 1 .. m - 1 : t[i] = arg[i + 1]
    BY <1>0
  <2> QED
    BY <2>1, <2>2
<1>2. unquote_str(arg) = f
  <2>1. t # <<>>
    <3>1. Len(t) # 0
      <4> HIDE DEF t, m
      <4> QED
        BY <1>0, <1>1
    <3> HIDE DEF t
    <3> QED
      BY <1>1, <3>1
  <2>2. t[Len(t)] = Quote
    <3>1. m - 1 \in 1 .. m - 1 /\ (m - 1) + 1 = m
      <4> HIDE DEF m
      <4> QED
        BY <1>0
    <3>2. t[m - 1] = arg[m]
      BY <1>1, <3>1
    <3> QED
      BY <1>1, <3>2
  <2> HIDE DEF m, t
  <2> QED
    BY <1>0, <2>1, <2>2, Zenon DEF unquote_str, Last, Front, t
<1> HIDE DEF t
<1>3. f \in Seq(A) /\ Len(f) = m - 2 /\ \A i \in 1 .. m - 2 : f[i] = arg[i + 1]
  <2>1. m - 2 \in 0 .. Len(t) /\ Len(t) - 1 = m - 2
    <3> HIDE DEF m
    <3> QED
      BY <1>0, <1>1
  <2>2. f \in Seq(A) /\ Len(f) = m - 2 /\ \A i \in 1 .. m - 2 : f[i] = t[i]
    BY <1>1, <2>1, UpTo
  <2>3. \A i \in 1 .. m - 2 : i \in 1 .. m - 1
    <3> HIDE DEF m
    <3> QED
      BY <1>0
  <2> HIDE DEF f, m
  <2> QED
    BY <1>1, <2>2, <2>3
<1>4. g \in Seq(A) /\ Len(g) = m - 2 /\ \A i \in 1 .. m - 2 : g[i] = arg[i + 1]
  <2>1. 2 \in 1 .. m + 1 /\ m - 1 \in 2 - 1 .. m /\ (m - 1) - 2 + 1 = m - 2
    <3> HIDE DEF m
    <3> QED
      BY <1>0
  <2>2. g \in Seq(A) /\ Len(g) = (m - 1) - 2 + 1 /\ \A i \in 1 .. (m - 1) - 2 + 1 : g[i] = arg[2 + i - 1]
    BY <2>1, PartOf
  <2>3. \A i \in 1 .. m - 2 : 2 + i - 1 = i + 1
    <3> HIDE DEF m
    <3> QED
      BY <1>0
  <2> HIDE DEF g, m
  <2> QED
    BY <2>1, <2>2, <2>3
<1> HIDE DEF f, g
<1>5. f = g
  <2>1. Len(f) = Len(g) /\ \A i \in 1 .. Len(f) : f[i] = g[i]
    BY <1>3, <1>4
  <2> QED
    BY <1>3, <1>4, <2>1, SameText
<1>6. Quote \notin ToSet(f)
  <2> SUFFICES ASSUME NEW i \in DOMAIN f, f[i] = Quote PROVE FALSE
    BY DEF ToSet
  <2>1. i \in 1 .. m - 2
    BY <1>3
  <2>2. i + 1 \in 2 .. m - 1
    <3> HIDE DEF m
    <3> QED
      BY <1>0, <2>1
  <2> QED
    BY <1>3, <2>1, <2>2
<1> QED
  BY <1>2, <1>5, <1>6 DEF g, m

\* An argument from p to e: quoted, or without blanks.
LEMMA ArgumentFound ==
    ASSUME NEW A, NEW line \in Seq(A), NEW p \in 1 .. Len(line), NEW e \in p .. Len(line),
           \/ /\ line[p] = Quote /\ line[e] = Quote /\ p < e
              /\ \A q \in p + 1 .. e - 1 : line[q] # Quote
           \/ /\ line[p] # Quote
              /\ \A q \in p .. e : line[q] # Blank
    PROVE  ArgumentOK(line, SubSeq(line, p, e))
<1> DEFINE arg == SubSeq(line, p, e)
           K == Len(line)
           m == e - p + 1
<1>0. K \in Nat /\ p \in 1 .. K + 1 /\ e \in p - 1 .. K /\ m \in Nat /\ m >= 1 /\ e \in 1 .. K /\ p \in 1 .. K
  <2>1. K \in Nat
    OBVIOUS
  <2> HIDE DEF K
  <2> QED
    BY <2>1 DEF K
<1>1. arg \in Seq(A) /\ Len(arg) = m /\ \A i \in 1 .. m : arg[i] = line[p + i - 1]
  BY <1>0, PartOf
<1>2. \E a, b \in 1 .. Len(line) : SubSeq(line, a, b) = arg
  BY <1>0
<1> HIDE DEF arg, K
<1>3. arg # <<>> /\ arg[1] = line[p] /\ arg[m] = line[e]
  <2>1. Len(arg) # 0
    BY <1>0, <1>1
  <2>2. 1 \in 1 .. m /\ m \in 1 .. m /\ p + 1 - 1 = p /\ p + m - 1 = e
    BY <1>0
  <2> HIDE DEF m
  <2>3. arg[1] = line[p] /\ arg[m] = line[e]
    BY <1>1, <2>2
  <2> QED
    BY <2>1, <2>3
<1>4. CASE line[p] = Quote
  <2>1. line[e] = Quote /\ p < e /\ \A q \in p + 1 .. e - 1 : line[q] # Quote
    BY <1>4
  <2>2. Len(arg) >= 2 /\ arg[1] = Quote /\ arg[Len(arg)] = Quote
    BY <1>0, <1>1, <1>3, <1>4, <2>1
  <2>3. \A i \in 2 .. Len(arg) - 1 : arg[i] # Quote
    <3> SUFFICES ASSUME NEW i \in 2 .. m - 1 PROVE arg[i] # Quote
      BY <1>1
    <3>1. i \in 1 .. m /\ p + i - 1 \in p + 1 .. e - 1
      BY <1>0
    <3> QED
      BY <1>1, <2>1, <3>1
  <2>4. /\ unquote_str(arg) = SubSeq(arg, 2, Len(arg) - 1)
        /\ Quote \notin ToSet(unquote_str(arg))
    BY <1>1, <2>2, <2>3, Unquoted
  <2> QED
    BY <1>2, <1>3, <1>4, <2>4, Zenon DEF ArgumentOK, arg
<1>5. CASE line[p] # Quote
  <2>1. \A i \in 1 .. Len(arg) : arg[i] # Blank
    <3> SUFFICES ASSUME NEW i \in 1 .. m PROVE arg[i] # Blank
      BY <1>1
    <3>1. p + i - 1 \in p .. e
      BY <1>0
    <3> QED
      BY <1>1, <1>5, <3>1
  <2>2. Solid(arg) = arg
    BY <1>1, <2>1, SolidAll
  <2> QED
    BY <1>2, <1>3, <1>5, <2>2, Zenon DEF ArgumentOK, arg
<1> QED
  BY <1>4, <1>5

\* Cutting to a length that is not exceeded.
LEMMA NotCut ==
    ASSUME NEW A, NEW arg \in Seq(A), Len(arg) <= MAX_COMMAND_LENGTH - 1
    PROVE  SubSeq(arg, 1, Min({Len(arg), MAX_COMMAND_LENGTH - 1})) = arg
<1> DEFINE m == Len(arg)
           B == {m, MAX_COMMAND_LENGTH - 1}
           c == SubSeq(arg, 1, m)
<1>1. m \in Nat /\ MAX_COMMAND_LENGTH - 1 \in Nat /\ m <= MAX_COMMAND_LENGTH - 1
  BY CommandLineAssumption
<1>2. Min(B) = m
  <2>1. B \in SUBSET Nat /\ B # {} /\ m \in B
    BY <1>1
  <2> HIDE DEF B
  <2>2. Min(B) \in B /\ Min(B) <= m
    BY <2>1, MinOK
  <2>3. Min(B) = m \/ Min(B) = MAX_COMMAND_LENGTH - 1
    BY <2>2 DEF B
  <2> HIDE DEF m
  <2> QED
    BY <1>1, <2>2, <2>3
<1>3. m \in 0 .. m
  <2> HIDE DEF m
  <2> QED
    BY <1>1
<1>4. c \in Seq(A) /\ Len(c) = m /\ \A i \in 1 .. m : c[i] = arg[i]
  BY <1>3, UpTo
<1> HIDE DEF c
<1>5. c = arg
  BY <1>4, SameText
<1> QED
  BY <1>2, <1>5 DEF c

\* What holds after k turns of the loop of commands_parse: the arguments found are
\* those written in front of the present position.
TurnOK(A, line, k, s) ==
    /\ s.at \in 1 .. Len(line) + 1 /\ s.args \in Seq(Seq(A)) /\ Len(s.args) <= k
    /\ s.state \in {"loop", "done"}
    /\ s.state = "loop" => s.at <= Len(line) /\ line[s.at] # Blank /\ Len(s.args) = k
    /\ s.state = "done" => s.at = Len(line) + 1 /\ s.args # <<>>
    /\ Solid(FlattenSeq(s.args)) = Solid(SubSeq(line, 1, s.at - 1))
    /\ \A i \in 1 .. Len(s.args) : ArgumentOK(line, s.args[i])

\* One more argument arg, after which the line goes on at next.
LEMMA OneMoreArgument ==
    ASSUME NEW A, NEW line \in Seq(A), NEW k \in Nat, NEW s, TurnOK(A, line, k, s), s.state = "loop",
           NEW e \in s.at .. Len(line), NEW next \in e + 1 .. Len(line) + 1,
           \A q \in e + 1 .. next - 1 : line[q] = Blank,
           next <= Len(line) => line[next] # Blank,
           NEW arg, arg = SubSeq(line, s.at, e), ArgumentOK(line, arg),
           NEW after, after = [at |-> next, args |-> Append(s.args, arg),
                               state |-> IF next > Len(line) THEN "done" ELSE "loop"]
    PROVE  TurnOK(A, line, k + 1, after)
<1> DEFINE p == s.at
           args == s.args
           all == Append(args, arg)
           n == next - 1
           L == Len(line)
<1>0. /\ L \in Nat /\ p \in 1 .. L /\ args \in Seq(Seq(A)) /\ Len(args) = k
      /\ Solid(FlattenSeq(args)) = Solid(SubSeq(line, 1, p - 1))
      /\ \A i \in 1 .. k : ArgumentOK(line, args[i])
  <2>1. L \in Nat
    OBVIOUS
  <2>2. /\ p \in 1 .. L + 1 /\ p <= L /\ args \in Seq(Seq(A)) /\ Len(args) = k
        /\ Solid(FlattenSeq(args)) = Solid(SubSeq(line, 1, p - 1))
        /\ \A i \in 1 .. k : ArgumentOK(line, args[i])
    BY Zenon DEF TurnOK
  <2> HIDE DEF L, p, args
  <2> QED
    BY <2>1, <2>2
<1>1. /\ after.at = next /\ after.args = all
      /\ after.state = IF next > L THEN "done" ELSE "loop"
  OBVIOUS
<1>2. /\ n \in 0 .. L /\ e \in 0 .. n /\ p \in 1 .. e + 1 /\ p - 1 \in 0 .. L /\ next \in 1 .. L + 1
      /\ (next > L => next = L + 1) /\ (~(next > L) => next <= L)
  <2>1. e \in p .. L /\ next \in e + 1 .. L + 1
    OBVIOUS
  <2> HIDE DEF p, L
  <2> QED
    BY <1>0, <2>1
<1>3. /\ Solid(SubSeq(line, 1, n)) = Then(Solid(SubSeq(line, 1, p - 1)), Solid(arg))
      /\ arg \in Seq(A) /\ SubSeq(line, 1, p - 1) \in Seq(A)
  <2>1. n \in 0 .. Len(line) /\ e \in 0 .. n /\ p \in 1 .. e + 1 /\ \A q \in e + 1 .. n : line[q] = Blank
    BY <1>2
  <2>2. /\ Solid(SubSeq(line, 1, n)) = Then(Solid(SubSeq(line, 1, p - 1)), Solid(SubSeq(line, p, e)))
        /\ SubSeq(line, p, e) \in Seq(A) /\ SubSeq(line, 1, p - 1) \in Seq(A)
    <3> HIDE DEF n, p
    <3> QED
      BY <2>1, SolidUpTo
  <2> QED
    BY <2>2, Zenon
<1>4. /\ all \in Seq(Seq(A)) /\ Len(all) = k + 1 /\ all # <<>>
      /\ \A i \in 1 .. k : all[i] = args[i]
      /\ all[k + 1] = arg
  <2>1. args \in Seq(Seq(A)) /\ arg \in Seq(A) /\ Len(args) = k
    BY <1>0, <1>3
  <2> HIDE DEF args
  <2>2. /\ all \in Seq(Seq(A)) /\ all # <<>> /\ Len(all) = Len(args) + 1
        /\ \A i \in 1 .. Len(args) : all[i] = args[i]
        /\ all[Len(args) + 1] = arg
    <3> DEFINE B == Seq(A)
    <3>1. args \in Seq(B) /\ arg \in B
      BY <2>1
    <3> HIDE DEF B
    <3>2. all \in Seq(B) /\ all # <<>>
      BY <3>1, AppendProperties
    <3>3. Len(all) = Len(args) + 1
      BY <3>1, AppendProperties
    <3>4. \A i \in 1 .. Len(args) : all[i] = args[i]
      BY <3>1, AppendProperties
    <3>5. all[Len(args) + 1] = arg
      BY <3>1, AppendProperties
    <3> HIDE DEF all
    <3> QED
      BY <3>2, <3>3, <3>4, <3>5 DEF B
  <2> QED
    BY <2>1, <2>2, Zenon
<1>5. Solid(FlattenSeq(all)) = Solid(SubSeq(line, 1, n))
  <2> DEFINE fa == FlattenSeq(args)
  <2>1. args \in Seq(Seq(A)) /\ arg \in Seq(A)
    BY <1>0, <1>3
  <2> HIDE DEF args
  <2>2. FlattenSeq(Append(args, arg)) = Then(fa, arg) /\ fa \in Seq(A)
    BY <2>1, FlattenAppend
  <2> HIDE DEF fa
  <2>3. Solid(Then(fa, arg)) = Then(Solid(fa), Solid(arg))
    BY <2>1, <2>2, SolidThen
  <2> HIDE DEF n, p
  <2> QED
    BY <1>0, <1>3, <2>2, <2>3, Zenon DEF fa
<1>6. \A i \in 1 .. Len(all) : ArgumentOK(line, all[i])
  <2> SUFFICES ASSUME NEW i \in 1 .. k + 1 PROVE ArgumentOK(line, all[i])
    BY <1>4
  <2>1. CASE i = k + 1
    BY <1>4, <2>1, Zenon
  <2>2. CASE i # k + 1
    <3>1. i \in 1 .. k
      BY <2>2
    <3> HIDE DEF args, all
    <3> QED
      BY <1>0, <1>4, <3>1, Zenon
  <2> QED
    BY <2>1, <2>2
<1> HIDE DEF all, args, p, n
<1>7. /\ after.at \in 1 .. Len(line) + 1 /\ after.args \in Seq(Seq(A)) /\ Len(after.args) <= k + 1
      /\ after.state \in {"loop", "done"}
  <2>1. k + 1 <= k + 1
    OBVIOUS
  <2>2. after.state \in {"loop", "done"}
    <3> HIDE DEF L
    <3> QED
      BY <1>1
  <2> QED
    BY <1>1, <1>2, <1>4, <2>1, <2>2, Zenon
<1>8. after.state = "loop" => after.at <= Len(line) /\ line[after.at] # Blank /\ Len(after.args) = k + 1
  <2> HIDE DEF L
  <2>1. after.state = "loop" => ~(next > L)
    BY <1>1
  <2> QED
    BY <1>1, <1>2, <1>4, <2>1, Zenon DEF L
<1>9. after.state = "done" => after.at = Len(line) + 1 /\ after.args # <<>>
  <2> HIDE DEF L
  <2>1. after.state = "done" => next > L
    BY <1>1
  <2> QED
    BY <1>1, <1>2, <1>4, <2>1, Zenon DEF L
<1>10. Solid(FlattenSeq(after.args)) = Solid(SubSeq(line, 1, after.at - 1))
  BY <1>1, <1>5, Zenon DEF n
<1>11. \A i \in 1 .. Len(after.args) : ArgumentOK(line, after.args[i])
  BY <1>1, <1>6, Zenon
<1> QED
  BY <1>7, <1>8, <1>9, <1>10, <1>11, Zenon DEF TurnOK

\* One turn of the loop.
LEMMA NextArgumentOK ==
    ASSUME NEW A, NEW line \in Seq(A), Len(line) < MAX_COMMAND_LENGTH,
           NEW k \in Nat, NEW s, TurnOK(A, line, k, s)
    PROVE  \/ NextArgument(line, s).state = "malformed"
           \/ TurnOK(A, line, k + 1, NextArgument(line, s))
<1> DEFINE L == Len(line)
           p == s.at
           quoted == p <= L /\ line[p] = Quote
           i == IF quoted THEN char_find(p + 1, line, Quote) ELSE char_find(p, line, Blank)
           e == IF quoted THEN i ELSE i - 1
           arg == SubSeq(line, p, e)
           cut == SubSeq(arg, 1, Min({Len(arg), MAX_COMMAND_LENGTH - 1}))
           next == IF i > L THEN i ELSE AfterBlanks(line, i)
           after == [at |-> next, args |-> Append(s.args, cut),
                     state |-> IF next > L THEN "done" ELSE "loop"]
           turned == NextArgument(line, s)
<1>0. L \in Nat /\ L < MAX_COMMAND_LENGTH
  OBVIOUS
<1>1. CASE s.state # "loop"
  <2>1. turned = s
    BY <1>1, Zenon DEF NextArgument
  <2>2. Len(s.args) <= k + 1
    <3>1. Len(s.args) <= k /\ s.args \in Seq(Seq(A))
      BY Zenon DEF TurnOK
    <3>2. Len(s.args) \in Nat
      BY <3>1, LenProperties
    <3> QED
      BY <3>1, <3>2
  <2>3. TurnOK(A, line, k + 1, s)
    BY <1>1, <2>2, Zenon DEF TurnOK
  <2> QED
    BY <2>1, <2>3, Zenon
<1>2. CASE s.state = "loop" /\ quoted /\ i > L
  <2>1. turned = [s EXCEPT !.state = "malformed"]
    BY <1>2, Zenon DEF NextArgument
  <2> QED
    BY <2>1
<1>3. CASE s.state = "loop" /\ ~(quoted /\ i > L)
  <2>1. turned = after
    BY <1>3, Zenon DEF NextArgument
  <2>2. p \in 1 .. L /\ p \in 1 .. L + 1 /\ p + 1 \in 1 .. L + 1 /\ line[p] # Blank
    <3>1. p \in 1 .. L + 1 /\ p <= L /\ line[p] # Blank
      BY <1>3, Zenon DEF TurnOK
    <3> HIDE DEF p, L
    <3> QED
      BY <1>0, <3>1
  <2>3. /\ quoted => /\ i \in p + 1 .. L + 1 /\ line[p] = Quote
                     /\ \A q \in p + 1 .. i - 1 : line[q] # Quote
                     /\ i <= L => line[i] = Quote
        /\ ~quoted => /\ i \in p .. L + 1 /\ line[p] # Quote
                      /\ \A q \in p .. i - 1 : line[q] # Blank
                      /\ i <= L => line[i] = Blank
    <3>1. CASE quoted
      <4> DEFINE c == char_find(p + 1, line, Quote)
                 r == p + 1
      <4>1. i = c
        BY <3>1, Zenon
      <4>2. r \in 1 .. Len(line) + 1
        BY <2>2
      <4> HIDE DEF r
      <4>3. LET j == char_find(r, line, Quote) IN
            /\ j \in r .. Len(line) + 1
            /\ \A q \in r .. j - 1 : line[q] # Quote
            /\ j <= Len(line) => line[j] = Quote
        BY <4>2, CharFindOK
      <4> HIDE DEF i, p, L
      <4> QED
        BY <3>1, <4>1, <4>3, Zenon DEF r, L
    <3>2. CASE ~quoted
      <4> DEFINE c == char_find(p, line, Blank)
      <4>1. i = c
        BY <3>2, Zenon
      <4>2. p \in 1 .. Len(line) + 1
        BY <2>2
      <4>a. line[p] # Quote
        <5>1. p <= L
          <6> HIDE DEF L, p
          <6> QED
            BY <1>0, <2>2
        <5> QED
          BY <3>2, <5>1, Zenon
      <4> HIDE DEF p
      <4>3. LET j == char_find(p, line, Blank) IN
            /\ j \in p .. Len(line) + 1
            /\ \A q \in p .. j - 1 : line[q] # Blank
            /\ j <= Len(line) => line[j] = Blank
        BY <4>2, CharFindOK
      <4> HIDE DEF i, L
      <4> QED
        BY <3>2, <4>1, <4>3, <4>a, Zenon DEF L
    <3> QED
      BY <3>1, <3>2
  <2>4. /\ i \in 1 .. L + 1 /\ e \in p .. L /\ (i > L => i = L + 1 /\ e = L)
        /\ quoted => i <= L /\ e = i /\ p < e
        /\ ~quoted => i - 1 = e
    <3>1. ~quoted => i # p
      <4>1. ~quoted /\ i = p => line[i] # Blank /\ i <= L
        <5> HIDE DEF i
        <5>1. p <= L
          <6> HIDE DEF p, L
          <6> QED
            BY <1>0, <2>2
        <5> HIDE DEF p, L, quoted
        <5> QED
          BY <2>2, <5>1, Zenon
      <4> HIDE DEF i, p, L, quoted
      <4> QED
        BY <2>3, <4>1, Zenon
    <3>2. quoted => ~(i > L)
      BY <1>3, Zenon
    <3> HIDE DEF i, p, L, quoted
    <3> QED
      BY <1>0, <2>2, <2>3, <3>1, <3>2
  <2>5. ArgumentOK(line, arg) /\ arg \in Seq(A) /\ Len(arg) = e - p + 1
    <3>1. p \in 1 .. Len(line) /\ e \in p .. Len(line) /\ p \in 1 .. Len(line) + 1 /\ e \in p - 1 .. Len(line)
      <4>1. p \in 1 .. L /\ e \in p .. L
        BY <2>2, <2>4
      <4> HIDE DEF p, e, L
      <4> QED
        BY <1>0, <4>1 DEF L
    <3>2. quoted => /\ line[p] = Quote /\ line[e] = Quote /\ p < e
                    /\ \A q \in p + 1 .. e - 1 : line[q] # Quote
      <4> HIDE DEF i, p, L, quoted, e
      <4> QED
        BY <2>3, <2>4, Zenon
    <3>3. ~quoted => line[p] # Quote /\ \A q \in p .. e : line[q] # Blank
      <4> HIDE DEF i, p, L, quoted, e
      <4> QED
        BY <2>3, <2>4, Zenon
    <3> HIDE DEF p, e, L, quoted, i
    <3>4. ArgumentOK(line, SubSeq(line, p, e))
      BY <3>1, <3>2, <3>3, ArgumentFound
    <3>5. arg \in Seq(A) /\ Len(arg) = e - p + 1
      BY <3>1, PartOf
    <3> QED
      BY <3>4, <3>5
  <2>6. cut = arg
    <3>1. Len(arg) <= MAX_COMMAND_LENGTH - 1
      <4> HIDE DEF arg, e, p, L
      <4> QED
        BY <1>0, <2>2, <2>4, <2>5, CommandLineAssumption
    <3> HIDE DEF arg
    <3> QED
      BY <2>5, <3>1, NotCut
  <2>7. /\ next \in e + 1 .. L + 1
        /\ next <= L => line[next] # Blank
        /\ \A q \in e + 1 .. next - 1 : line[q] = Blank
    <3>1. CASE i > L
      <4>1. next = L + 1 /\ e = L
        <5> HIDE DEF i, e, L
        <5> QED
          BY <2>4, <3>1
      <4> HIDE DEF next, e, L
      <4> QED
        BY <1>0, <4>1
    <3>2. CASE ~(i > L)
      <4>1. next = AfterBlanks(line, i)
        BY <3>2, Zenon
      <4>2. i \in 1 .. L
        <5> HIDE DEF i, L
        <5> QED
          BY <1>0, <2>4, <3>2
      <4>3. /\ next \in i + 1 .. L + 1
            /\ \A q \in i + 1 .. next - 1 : line[q] = Blank
            /\ next <= L => line[next] # Blank
        <5> HIDE DEF i
        <5>1. i \in 1 .. Len(line)
          BY <4>2
        <5>2. LET j == AfterBlanks(line, i) IN
              /\ j \in i + 1 .. Len(line) + 1
              /\ \A q \in i + 1 .. j - 1 : line[q] = Blank
              /\ j <= Len(line) => line[j] # Blank
          BY <5>1, AfterBlanksOK
        <5> HIDE DEF next
        <5> QED
          BY <4>1, <5>2, Zenon
      <4>4. i = e \/ (i = e + 1 /\ line[i] = Blank)
        <5>1. quoted => i = e
          <6> HIDE DEF i, e, quoted
          <6> QED
            BY <2>4
        <5>2. ~quoted => i = e + 1
          <6> HIDE DEF i, e, quoted, L, p
          <6> QED
            BY <1>0, <2>4, <4>2
        <5>3. ~quoted => line[i] = Blank
          <6>1. i <= L
            <7> HIDE DEF i, L
            <7> QED
              BY <1>0, <4>2
          <6> HIDE DEF i, quoted, L, p
          <6> QED
            BY <2>3, <6>1, Zenon
        <5> HIDE DEF i, e, quoted
        <5> QED
          BY <5>1, <5>2, <5>3
      <4>5. e \in Nat
        <5> HIDE DEF e, p, L
        <5> QED
          BY <1>0, <2>2, <2>4
      <4> HIDE DEF i, e, next, L
      <4> QED
        BY <1>0, <4>2, <4>3, <4>4, <4>5
    <3> QED
      BY <3>1, <3>2
  <2>8. TurnOK(A, line, k + 1, after)
    <3> HIDE DEF arg, e, next, cut, i, quoted
    <3>1. arg = SubSeq(line, s.at, e)
      BY DEF arg
    <3>2. after = [at |-> next, args |-> Append(s.args, arg),
                   state |-> IF next > Len(line) THEN "done" ELSE "loop"]
      BY <2>6
    <3>3. e \in s.at .. Len(line) /\ next \in e + 1 .. Len(line) + 1
      BY <2>4, <2>7
    <3>4. s.state = "loop"
      BY <1>3
    <3>5. /\ \A q \in e + 1 .. next - 1 : line[q] = Blank
          /\ next <= Len(line) => line[next] # Blank
      BY <2>7, Zenon
    <3>6. ArgumentOK(line, arg)
      BY <2>5
    <3> HIDE DEF after, L, p
    <3> QED
      BY <3>1, <3>2, <3>3, <3>4, <3>5, <3>6, OneMoreArgument
  <2> QED
    BY <2>1, <2>8, Zenon
<1> QED
  BY <1>1, <1>2, <1>3, Zenon

\* The turns of the loop of commands_parse exist, so that their recursive definition
\* has a meaning, and each follows from the one before.
LEMMA TurnsDef ==
    ASSUME NEW line
    PROVE  \E turn :
              /\ turn[0] = Start
              /\ \A k \in 1 .. MAX_NUM_ARGS : turn[k] = NextArgument(line, turn[k - 1])
              /\ commands_parse(line) =
                    IF turn[MAX_NUM_ARGS].state = "malformed" THEN Malformed
                    ELSE [num_args |-> Len(turn[MAX_NUM_ARGS].args), args |-> turn[MAX_NUM_ARGS].args]
<1> DEFINE M == MAX_NUM_ARGS
           Step(g, i) == IF i = 0 THEN Start ELSE NextArgument(line, g[i - 1])
           F(n, g) == [i \in 0 .. n |-> Step(g, i)]
           S == {n \in Nat : \E g : g = F(n, g)}
<1>0. M \in Nat
  BY CommandLineAssumption
<1>1. ASSUME NEW n \in Nat, \A m \in 0 .. n - 1 : m \in S PROVE n \in S
  <2> SUFFICES \E g : g = F(n, g)
    OBVIOUS
  <2>1. CASE n = 0
    <3> DEFINE h == [i \in 0 .. n |-> Start]
    <3>1. \A i \in 0 .. n : i = 0
      BY <2>1
    <3>2. \A i \in 0 .. n : Step(h, i) = Start
      BY <3>1, Zenon
    <3>3. h = F(n, h)
      <4> HIDE DEF Step
      <4> QED
        BY <3>2
    <3> QED
      BY <3>3
  <2>2. CASE n # 0
    <3>1. n - 1 \in 0 .. n - 1
      BY <2>2
    <3>2. PICK g : g = F(n - 1, g)
      <4>1. n - 1 \in S
        BY <1>1, <3>1
      <4> HIDE DEF F
      <4> QED
        BY <4>1
    <3> DEFINE h == [i \in 0 .. n |-> IF i = n THEN Step(g, n) ELSE g[i]]
    <3>3. \A i \in 0 .. n - 1 : g[i] = Step(g, i)
      <4> HIDE DEF Step
      <4> QED
        BY <3>2
    <3>4. ASSUME NEW i \in 0 .. n PROVE Step(h, i) = Step(g, i)
      <4>1. CASE i = 0
        BY <4>1
      <4>2. CASE i # 0
        <5>1. i - 1 \in 0 .. n /\ i - 1 # n
          BY <4>2
        <5>2. h[i - 1] = g[i - 1]
          <6> HIDE DEF Step
          <6> QED
            BY <5>1
        <5> HIDE DEF h
        <5> QED
          BY <4>2, <5>2
      <4> QED
        BY <4>1, <4>2
    <3>5. ASSUME NEW i \in 0 .. n PROVE h[i] = Step(h, i)
      <4>1. CASE i = n
        <5>1. h[i] = Step(g, i)
          <6> HIDE DEF Step
          <6> QED
            BY <4>1
        <5> QED
          BY <3>4, <5>1
      <4>2. CASE i # n
        <5>1. i \in 0 .. n - 1
          BY <4>2
        <5>2. h[i] = g[i]
          <6> HIDE DEF Step
          <6> QED
            BY <4>2
        <5> HIDE DEF h, Step
        <5> QED
          BY <3>3, <3>4, <5>1, <5>2
      <4> QED
        BY <4>1, <4>2
    <3>6. h = F(n, h)
      <4> DEFINE hh == h
      <4>1. hh = [i \in 0 .. n |-> hh[i]]
        <5> HIDE DEF Step
        <5> QED
          OBVIOUS
      <4>2. \A i \in 0 .. n : hh[i] = Step(hh, i)
        BY <3>5
      <4> HIDE DEF hh, Step
      <4>3. hh = F(n, hh)
        BY <4>1, <4>2
      <4> QED
        BY <4>3 DEF hh
    <3> QED
      BY <3>6
  <2> QED
    BY <2>1, <2>2
<1>2. \A n \in Nat : n \in S
  <2> HIDE DEF S
  <2> QED
    BY <1>1, Descent
<1>3. PICK g : g = F(M, g)
  <2>1. M \in S
    BY <1>0, <1>2
  <2> HIDE DEF F, M
  <2> QED
    BY <2>1
<1> DEFINE r == CHOOSE f : f = F(M, f)
<1>4. r = F(M, r)
  <2> HIDE DEF F
  <2> QED
    BY <1>3
<1>5. commands_parse(line) =
         IF r[M].state = "malformed" THEN Malformed
         ELSE [num_args |-> Len(r[M].args), args |-> r[M].args]
  BY Zenon DEF commands_parse
<1> HIDE DEF r
<1>6. \A i \in 0 .. M : r[i] = Step(r, i)
  <2> HIDE DEF Step, M
  <2> QED
    BY <1>4
<1>7. r[0] = Start
  <2>1. 0 \in 0 .. M
    BY <1>0
  <2> QED
    BY <1>6, <2>1
<1>8. \A k \in 1 .. M : r[k] = NextArgument(line, r[k - 1])
  <2> SUFFICES ASSUME NEW k \in 1 .. M PROVE r[k] = NextArgument(line, r[k - 1])
    OBVIOUS
  <2>1. k \in 0 .. M /\ k # 0
    BY <1>0
  <2> QED
    BY <1>6, <2>1
<1> QED
  BY <1>5, <1>7, <1>8

\* Before the first turn.
LEMMA StartOK ==
    ASSUME NEW A, NEW line \in Seq(A), line # <<>>, line[1] # Blank
    PROVE  TurnOK(A, line, 0, Start)
<1>1. Len(line) \in Nat /\ Len(line) # 0
  OBVIOUS
<1>2. Start.at = 1 /\ Start.args = <<>> /\ Start.state = "loop"
  BY DEF Start
<1>3. <<>> \in Seq(Seq(A)) /\ Len(<<>>) = 0 /\ FlattenSeq(<<>>) = <<>>
  BY DEF FlattenSeq
<1>4. SubSeq(line, 1, 0) = <<>>
  <2>1. 0 \in 0 .. Len(line)
    BY <1>1
  <2>2. SubSeq(line, 1, 0) \in Seq(A) /\ Len(SubSeq(line, 1, 0)) = 0
    BY <2>1, UpTo
  <2> DEFINE z == SubSeq(line, 1, 0)
  <2> HIDE DEF z
  <2>3. z \in Seq(A) /\ Len(z) = 0
    BY <2>2 DEF z
  <2>4. z = <<>>
    BY <2>3
  <2> QED
    BY <2>4 DEF z
<1>5. 1 \in 1 .. Len(line) + 1 /\ 1 <= Len(line) /\ 0 <= 0 /\ 1 - 1 = 0 /\ \A i \in 1 .. 0 : FALSE
  BY <1>1
<1>6. "loop" \in {"loop", "done"} /\ "loop" # "done"
  OBVIOUS
<1> QED
  BY <1>2, <1>3, <1>4, <1>5, <1>6, Zenon DEF TurnOK

\* Each turn finds its argument, or the line is malformed.
LEMMA TurnsOK ==
    ASSUME NEW A, NEW line \in Seq(A), line # <<>>, line[1] # Blank, Len(line) < MAX_COMMAND_LENGTH,
           NEW turn, turn[0] = Start,
           \A k \in 1 .. MAX_NUM_ARGS : turn[k] = NextArgument(line, turn[k - 1])
    PROVE  \A k \in 0 .. MAX_NUM_ARGS : turn[k].state = "malformed" \/ TurnOK(A, line, k, turn[k])
<1> DEFINE M == MAX_NUM_ARGS
           P(k) == turn[k].state = "malformed" \/ TurnOK(A, line, k, turn[k])
           S == {n \in Nat : n <= M => P(n)}
<1>0. M \in Nat
  BY CommandLineAssumption
<1>1. ASSUME NEW n \in Nat, \A m \in 0 .. n - 1 : m \in S PROVE n \in S
  <2> SUFFICES ASSUME n <= M PROVE P(n)
    BY Zenon
  <2>1. CASE n = 0
    <3>1. TurnOK(A, line, 0, Start)
      BY StartOK
    <3> QED
      BY <2>1, <3>1, Zenon
  <2>2. CASE n # 0
    <3> DEFINE k == n - 1
               s == turn[k]
    <3>1. k \in 0 .. n - 1 /\ k \in Nat /\ k <= M /\ n \in 1 .. M /\ k + 1 = n
      <4> HIDE DEF M
      <4> QED
        BY <1>0, <2>2
    <3>2. P(k)
      <4> HIDE DEF k, P
      <4>1. k \in S
        BY <1>1, <3>1, Zenon
      <4> QED
        BY <3>1, <4>1, Zenon
    <3>3. turn[n] = NextArgument(line, s)
      BY <3>1
    <3> HIDE DEF k
    <3>4. CASE s.state = "malformed"
      <4>1. s.state # "loop"
        BY <3>4
      <4>2. NextArgument(line, s) = s
        <5> HIDE DEF s
        <5> QED
          BY <4>1, Zenon DEF NextArgument
      <4> QED
        BY <3>3, <3>4, <4>2, Zenon
    <3>5. CASE TurnOK(A, line, k, s)
      <4> HIDE DEF s
      <4>1. \/ NextArgument(line, s).state = "malformed"
            \/ TurnOK(A, line, k + 1, NextArgument(line, s))
        BY <3>1, <3>5, NextArgumentOK
      <4> QED
        BY <3>1, <3>3, <4>1, Zenon
    <3> QED
      BY <3>2, <3>4, <3>5, Zenon
  <2> QED
    BY <2>1, <2>2
<1>2. \A n \in Nat : n \in S
  <2> HIDE DEF S
  <2> QED
    BY <1>1, Descent
<1>3. ASSUME NEW k \in 0 .. M PROVE P(k)
  <2> HIDE DEF P, M
  <2>1. k \in Nat /\ k <= M
    BY <1>0
  <2>2. k \in S
    BY <1>2, <2>1
  <2> QED
    BY <2>1, <2>2
<1> QED
  BY <1>3, Zenon

\* execute and commands_parse, src/commands.c: of every line that does not start
\* with a blank and is accepted as a command, the handler gets the arguments as
\* they were written, in their order and up to the limit, however many quotes and
\* blanks the line holds.
THEOREM ArgumentsKept ==
    ASSUME NEW A, NEW line \in Seq(A), line # <<>>, line[1] # Blank, execute(line).result = 0
    PROVE  /\ Len(execute(line).argv) = execute(line).argc + 1
           /\ AsWritten(line, execute(line).argv)
<1> DEFINE parsed == commands_parse(line)
           L == Len(line)
           M == MAX_NUM_ARGS
<1>0. M \in Nat /\ M >= 1 /\ L \in Nat
  BY CommandLineAssumption
<1>1. /\ ~(L >= MAX_COMMAND_LENGTH) /\ parsed # Malformed
      /\ execute(line) = [result |-> 0, argc |-> parsed.num_args - 1, argv |-> parsed.args]
  <2> DEFINE bad == \/ L >= MAX_COMMAND_LENGTH
                    \/ parsed = Malformed
                    \/ parsed.args[1] \notin {<<name>> : name \in CommandNames}
  <2> HIDE DEF parsed, L
  <2>1. execute(line) = IF bad THEN [result |-> -1]
                        ELSE [result |-> 0, argc |-> parsed.num_args - 1, argv |-> parsed.args]
    BY Zenon DEF execute, parsed, L
  <2>2. ~bad
    <3> SUFFICES ASSUME bad PROVE FALSE
      OBVIOUS
    <3>1. execute(line) = [result |-> -1]
      BY <2>1, Zenon
    <3>2. execute(line).result = -1
      BY <3>1
    <3> QED
      BY <3>2
  <2> QED
    BY <2>1, <2>2, Zenon
<1>2. PICK turn :
         /\ turn[0] = Start
         /\ \A k \in 1 .. MAX_NUM_ARGS : turn[k] = NextArgument(line, turn[k - 1])
         /\ parsed = IF turn[M].state = "malformed" THEN Malformed
                     ELSE [num_args |-> Len(turn[M].args), args |-> turn[M].args]
  BY TurnsDef, Zenon
<1> DEFINE s == turn[M]
           args == s.args
           m == s.at - 1
<1>3. parsed = [num_args |-> Len(args), args |-> args] /\ s.state # "malformed"
  <2> HIDE DEF parsed
  <2> QED
    BY <1>1, <1>2, Zenon
<1>4. execute(line).argv = args /\ execute(line).argc = Len(args) - 1
  <2>1. parsed.num_args = Len(args) /\ parsed.args = args
    <3> HIDE DEF parsed, args
    <3> QED
      BY <1>3
  <2> HIDE DEF parsed, args
  <2> QED
    BY <1>1, <2>1
<1>5. TurnOK(A, line, M, s)
  <2>1. L < MAX_COMMAND_LENGTH
    <3> HIDE DEF L
    <3> QED
      BY <1>0, <1>1, CommandLineAssumption
  <2>2. M \in 0 .. M
    <3> HIDE DEF M
    <3> QED
      BY <1>0
  <2>3. \A k \in 0 .. MAX_NUM_ARGS : turn[k].state = "malformed" \/ TurnOK(A, line, k, turn[k])
    BY <1>2, <2>1, TurnsOK
  <2> QED
    BY <1>3, <2>2, <2>3, Zenon
<1>6. /\ s.at \in 1 .. L + 1 /\ args \in Seq(Seq(A)) /\ Len(args) <= M
      /\ s.state = "loop" => Len(args) = M
      /\ s.state = "done" => s.at = L + 1 /\ args # <<>>
      /\ s.state \in {"loop", "done"}
      /\ Solid(FlattenSeq(args)) = Solid(SubSeq(line, 1, m))
      /\ \A i \in 1 .. Len(args) : ArgumentOK(line, args[i])
  BY <1>5, Zenon DEF TurnOK
<1> HIDE DEF s
<1>7. m \in 0 .. L /\ Len(args) \in 1 .. M /\ (Len(args) < M => m = L)
  <2>1. Len(args) \in Nat /\ (args # <<>> => Len(args) # 0)
    <3> HIDE DEF args
    <3> QED
      BY <1>6
  <2>2. s.at \in 1 .. L + 1 /\ Len(args) <= M /\ (s.state = "loop" => Len(args) = M)
        /\ (s.state = "done" => s.at = L + 1 /\ Len(args) # 0) /\ (s.state = "loop" \/ s.state = "done")
    BY <1>6, <2>1
  <2> HIDE DEF args, L, M
  <2> QED
    BY <1>0, <2>1, <2>2
<1> DEFINE a == SubSeq(line, 1, m)
           b == SubSeq(line, m + 1, L)
           sa == Solid(a)
<1>8. line = Then(a, b) /\ a \in Seq(A) /\ b \in Seq(A) /\ (m = L => a = line)
  <2>0. m \in 0 .. L /\ L \in 0 .. L /\ m + 1 \in 1 .. L + 1 /\ L \in (m + 1) - 1 .. L
    <3> HIDE DEF m, L
    <3> QED
      BY <1>0, <1>7
  <2> HIDE DEF m
  <2>1. SubSeq(line, 1, L) = line
    <3> DEFINE c == SubSeq(line, 1, L)
    <3>1. c \in Seq(A) /\ Len(c) = L /\ \A i \in 1 .. L : c[i] = line[i]
      BY <2>0, UpTo
    <3> HIDE DEF c
    <3>2. c = line
      BY <3>1, SameText
    <3> QED
      BY <3>2 DEF c
  <2>2. SubSeq(line, 1, L) = Then(a, b)
    BY <2>0, TwoParts
  <2>3. a \in Seq(A)
    BY <2>0, UpTo
  <2>4. b \in Seq(A)
    BY <2>0, PartOf
  <2> HIDE DEF b, L
  <2> QED
    BY <2>1, <2>2, <2>3, <2>4, Zenon
<1> HIDE DEF a, b, m
<1>9. Solid(line) = Then(sa, Solid(b)) /\ sa \in Seq(A) /\ Solid(b) \in Seq(A)
  <2>1. Solid(Then(a, b)) = Then(Solid(a), Solid(b))
    BY <1>8, SolidThen
  <2>2. Solid(a) \in Seq(A)
    BY <1>8, KeptOK
  <2>3. Solid(b) \in Seq(A)
    BY <1>8, KeptOK
  <2> QED
    BY <1>8, <2>1, <2>2, <2>3, Zenon
<1> HIDE DEF sa
<1>10. IsPrefix(sa, Solid(line))
  <2> DEFINE sb == Solid(b)
             y == sa \o sb
             n == Len(sa)
  <2>1. sa \in Seq(A) /\ sb \in Seq(A)
    BY <1>9
  <2> HIDE DEF sb
  <2>2. SubSeq(y, 1, n) = sa
    BY <2>1, UpToFront
  <2>3. SubSeq(sa, 1, n) = sa
    <3> DEFINE c == SubSeq(sa, 1, n)
    <3>1. n \in 0 .. n
      BY <2>1
    <3>2. c \in Seq(A) /\ Len(c) = n /\ \A i \in 1 .. n : c[i] = sa[i]
      BY <2>1, <3>1, UpTo
    <3> HIDE DEF c
    <3>3. c = sa
      BY <2>1, <3>2, SameText
    <3> QED
      BY <3>3 DEF c
  <2>4. n <= Len(y)
    <3>1. Len(y) = n + Len(sb) /\ n \in Nat /\ Len(sb) \in Nat
      BY <2>1, Behind
    <3> HIDE DEF n, y
    <3> QED
      BY <3>1
  <2>5. Solid(line) = y
    BY <1>9, Zenon DEF Then, sb
  <2> HIDE DEF y
  <2> QED
    BY <2>2, <2>3, <2>4, <2>5, Zenon DEF IsPrefix
<1>11. AsWritten(line, args)
  <2>1. Solid(FlattenSeq(args)) = sa
    BY <1>6, Zenon DEF sa, a
  <2>2. Len(args) < M => sa = Solid(line)
    BY <1>7, <1>8, Zenon DEF sa
  <2> QED
    BY <1>6, <1>7, <1>10, <2>1, <2>2, Zenon DEF AsWritten
<1>12. Len(args) = (Len(args) - 1) + 1
  <2>1. Len(args) \in Nat
    BY <1>6, LenProperties
  <2> HIDE DEF args
  <2> QED
    BY <2>1
<1> QED
  BY <1>4, <1>11, <1>12, Zenon

\* The lines that friends send start with a command name.
LEMMA CommandLinesOver ==
    ASSUME NEW name \in CommandWords, NEW rest \in Arguments
    PROVE  \E A : LET line == <<name>> \o rest IN line \in Seq(A) /\ line # <<>> /\ line[1] # Blank
<1> DEFINE A == {"/name", "/unknown", "a", Blank, Quote}
           C == {"a", Blank, Quote}
           line == <<name>> \o rest
<1>2. rest \in Seq(A)
  <2>1. PICK m \in 0 .. ArgumentLength : rest \in [1 .. m -> C]
    BY DEF Arguments, BoundedSeq, SeqOf
  <2>2. m \in Nat
    BY <2>1, ConsoleAssumption
  <2>3. rest \in [1 .. m -> A]
    BY <2>1
  <2> HIDE DEF A
  <2> QED
    BY <2>2, <2>3
<1>3. name \in A /\ name # Blank
  BY DEF CommandWords, Blank
<1> HIDE DEF A
<1>4. /\ line \in Seq(A) /\ Len(line) = 1 + Len(rest)
      /\ line[1] = name /\ Len(rest) \in Nat
  BY <1>2, <1>3, Front1
<1> HIDE DEF line
<1>6. line # <<>>
  <2>1. Len(line) # 0
    BY <1>4
  <2> QED
    BY <2>1
<1> QED
  BY <1>3, <1>4, <1>6, Zenon DEF line

-----------------------------------------------------------------------------
(* The console *)

\* While a line is under way it is due to the selected channel.
AimKept ==
    /\ typed \in Seq(Keyboard)
    /\ typed # <<>> => pre_friendnumber \in due

\* Unless a refresh has found too many friends, a friend has an entry in the
\* directory or was added by /add, and so had whoever has left a flag.
EntriesKept ==
    /\ friends \subseteq FriendNumbers /\ meta_chat_flag \subseteq Channels
    /\ ~crowded => (friends \cap Channels) \cup meta_chat_flag \subseteq listed \cup added

\* The inductive invariant: a line under way is aimed and fits, the directory
\* lacks no entry without cause, and what was sent or heard last is what the
\* properties say.
CInv ==
    /\ AimKept /\ Len(typed) <= KeyMax /\ EntriesKept
    /\ RedirectedByFriendsOnly /\ PeerReadsTyped /\ RoundTrip /\ ArgumentsAsWritten

\* Verdicts other than these send nothing and are not looked at.
Silent(record) ==
    record.did \notin {"telegram", "plain", "refused", "heard", "request", "command"}

\* What the properties say of the last step is true of one that is silent.
Told == RedirectedByFriendsOnly /\ PeerReadsTyped /\ RoundTrip /\ ArgumentsAsWritten

\* What evaluate_input does with a line is none of the ways of sending it.
LEMMA CommandsAreSilent ==
    ASSUME NEW line, evaluate_input(line)
    PROVE  Silent(last')
<1> DEFINE command == Command(line)
           given   == command \in {"relay", "set"} \/ (command = "add" /\ Len(line) > 3)
           shown   == command \in {"help", "id", "info", "cur"}
           did     == IF given \/ shown THEN command ELSE "invalid"
           arg     == IF given THEN SecondToken(line, IF command = "add" THEN 2 ELSE 1) ELSE <<>>
<1>1. CASE command = "#"
  <2>1. evaluate_channel(line)
    BY <1>1 DEF evaluate_input
  <2>2. last'.did \in {"invalid", "switched"}
    BY <2>1 DEF evaluate_channel, Answer
  <2> QED
    BY <2>2 DEF Silent
<1>2. CASE command # "#"
  <2>1. last' = Answer(line, did, arg)
    BY <1>2 DEF evaluate_input
  <2>2. last'.did = did
    BY <2>1 DEF Answer
  <2>3. did \in {"relay", "set", "add", "help", "id", "info", "cur", "invalid"}
    <3> HIDE DEF command
    <3> QED
      OBVIOUS
  <2> HIDE DEF did
  <2> QED
    BY <2>2, <2>3 DEF Silent
<1> QED
  BY <1>1, <1>2

\* Of a step that sends nothing there is nothing to say.
LEMMA SilentTold ==
    ASSUME Silent(last)'
    PROVE  Told'
<1> DEFINE did == last'.did
<1>1. did \notin {"telegram", "plain", "refused", "heard", "request", "command"}
  BY DEF Silent
<1> HIDE DEF did
<1>2. RedirectedByFriendsOnly'
  BY <1>1 DEF RedirectedByFriendsOnly, did
<1>3. PeerReadsTyped'
  BY <1>1, Zenon DEF PeerReadsTyped, did
<1>4. RoundTrip'
  BY <1>1, Zenon DEF RoundTrip, did
<1>5. ArgumentsAsWritten'
  BY <1>1, Zenon DEF ArgumentsAsWritten, did
<1> QED
  BY <1>2, <1>3, <1>4, <1>5 DEF Told

\* The line that is sent goes where it was aimed at, and its peer can read it.
LEMMA SendTold ==
    ASSUME CInv, NEW key \in {LF, CR}, NEW sn \in Serials, SendLine(Append(typed, key), sn),
           UNCHANGED <<listed, added, crowded>>
    PROVE  Told'
<1> DEFINE c == pre_friendnumber
           line == Append(typed, key)
           wire == LineWire(c, sn, line)
           did == IF c \notin meta_chat_flag THEN "plain"
                  ELSE IF wire.result = "TG_OK" THEN "telegram" ELSE "refused"
           astray == typed # <<>> /\ c \notin due
<1>1. last' = [did |-> did, line |-> line, to |-> c, sn |-> sn, wire |-> wire.out, astray |-> astray]
  BY Zenon DEF SendLine, LineWire
<1>2. typed \in Seq(Keyboard) /\ Len(typed) <= KeyMax /\ ~astray
  BY DEF CInv, AimKept
<1>3. did \in {"plain", "telegram", "refused"}
  OBVIOUS
<1>4. did = "telegram" => c \in Channels /\ c \in listed /\ wire.result = "TG_OK"
  BY NoKeyNoTelegram DEF CInv, EntriesKept
<1>5. did = "refused" =>
        /\ c \in Channels /\ wire.result # "TG_OK"
        /\ c \in listed \/ c \in added \/ crowded
  BY DEF CInv, EntriesKept
<1> HIDE DEF did, astray, wire, line
<1>6. /\ last'.did = did /\ last'.line = line /\ last'.to = c /\ last'.sn = sn
      /\ last'.wire = wire.out /\ last'.astray = astray
  BY <1>1
<1>7. RedirectedByFriendsOnly'
  BY <1>2, <1>6 DEF RedirectedByFriendsOnly
<1>8. RoundTrip'
  <2>1. last'.did \notin {"heard", "request"}
    BY <1>3, <1>6
  <2> QED
    BY <2>1, Zenon DEF RoundTrip
<1>10. ArgumentsAsWritten'
  <2>1. last'.did # "command"
    BY <1>3, <1>6
  <2> QED
    BY <2>1, Zenon DEF ArgumentsAsWritten
<1>9. PeerReadsTyped'
  <2>1. ASSUME did = "telegram"
        PROVE  LET message == tg_decode(wire.out) IN
               /\ message.kind = "TG_TEXT" /\ message.receiver = public_key_str(c)
               /\ message.sender = self_public_key_str /\ message.sn = sn
               /\ Representable(line) => message.body = line
    <3>1. c \in Channels /\ c \in listed /\ wire.result = "TG_OK"
      BY <1>4, <2>1
    <3>2. LET message == tg_decode(wire.out) IN
          /\ message.kind = "TG_TEXT" /\ message.receiver = public_key_str(c)
          /\ message.sender = self_public_key_str /\ message.sn = sn
      BY <1>2, <3>1, TypedDecoded DEF wire, line
    <3>3. Representable(line) => tg_decode(wire.out).body = line
      BY <1>2, <3>1, TypedReadBack DEF wire, line
    <3> QED
      BY <3>2, <3>3, Zenon
  <2>2. ASSUME did = "refused"
        PROVE  \/ IsSuffix(Append(TG_TERMINATOR, LF), line)
               \/ c \notin listed /\ (c \in added \/ crowded)
    <3>1. /\ c \in Channels /\ wire.result # "TG_OK"
          /\ c \in listed \/ c \in added \/ crowded
      BY <1>5, <2>2
    <3>2. c \in listed => IsSuffix(Append(TG_TERMINATOR, LF), line)
      BY <1>2, <3>1, TypedRefused DEF wire, line
    <3> QED
      BY <3>1, <3>2, Zenon
  <2>3. listed' = listed /\ added' = added /\ crowded' = crowded
    OBVIOUS
  <2>4. public_key_str(last.to)' = public_key_str(c)
    BY <1>6, <2>3 DEF public_key_str
  <2> DEFINE message == tg_decode(last.wire)
  <2>5. (last.did = "telegram" =>
           /\ message.kind = "TG_TEXT" /\ message.receiver = public_key_str(last.to)
           /\ message.sender = self_public_key_str /\ message.sn = last.sn
           /\ Representable(last.line) => message.body = last.line)'
    BY <1>6, <2>1, <2>4, Zenon
  <2>6. (last.did = "refused" =>
           \/ IsSuffix(Append(TG_TERMINATOR, LF), last.line)
           \/ last.to \notin listed /\ (last.to \in added \/ crowded))'
    <3>1. crowded => crowded'
      BY <2>3
    <3> QED
      BY <1>6, <2>2, <2>3, <3>1, Zenon
  <2> QED
    BY <2>5, <2>6, Zenon DEF PeerReadsTyped
<1> QED
  BY <1>7, <1>8, <1>9, <1>10 DEF Told

\* A telegram that is looked at is read as the properties say.
LEMMA HeardTold ==
    ASSUME NEW text \in Bodies, last' = [did |-> "heard", text |-> text]
    PROVE  Told'
<1>1. last'.did = "heard" /\ last'.text = text
  OBVIOUS
<1>2. text \in Seq(Alphabet)
  BY BodiesOver
<1>3. ReadsAnyLineEnd(text)
  BY <1>2, AnyLineEnd
<1>4. Representable(text) => ReadsBack(text)
  BY BodyReadsBack
<1>5. "heard" \notin {"telegram", "plain", "refused", "request", "command"}
  OBVIOUS
<1>6. RoundTrip'
  BY <1>1, <1>3, <1>4, <1>5, Zenon DEF RoundTrip
<1>7. RedirectedByFriendsOnly' /\ PeerReadsTyped' /\ ArgumentsAsWritten'
  BY <1>1, <1>5, Zenon DEF RedirectedByFriendsOnly, PeerReadsTyped, ArgumentsAsWritten
<1> QED
  BY <1>6, <1>7 DEF Told

\* So is a request.
LEMMA RequestTold ==
    ASSUME NEW from \in Numbers, NEW to \in Numbers,
           last' = [did |-> "request", from |-> from, to |-> to]
    PROVE  Told'
<1>1. last'.did = "request" /\ last'.from = from /\ last'.to = to
  OBVIOUS
<1>2. RequestReadsBack(from, to)
  BY RequestReadBack
<1>3. "request" \notin {"telegram", "plain", "refused", "heard", "command"}
  OBVIOUS
<1>4. RoundTrip'
  BY <1>1, <1>2, <1>3, Zenon DEF RoundTrip
<1>5. RedirectedByFriendsOnly' /\ PeerReadsTyped' /\ ArgumentsAsWritten'
  BY <1>1, <1>3, Zenon DEF RedirectedByFriendsOnly, PeerReadsTyped, ArgumentsAsWritten
<1> QED
  BY <1>4, <1>5 DEF Told

\* A command of a friend is taken apart as it was written.
LEMMA CommandTold ==
    ASSUME NEW name \in CommandWords, NEW rest \in Arguments,
           last' = [did |-> "command", line |-> <<name>> \o rest,
                    executed |-> execute(<<name>> \o rest)]
    PROVE  Told'
<1> DEFINE line == <<name>> \o rest
<1>1. last'.did = "command" /\ last'.line = line /\ last'.executed = execute(line)
  <2> HIDE DEF line
  <2> QED
    BY DEF line
<1>2. PICK A : line \in Seq(A) /\ line # <<>> /\ line[1] # Blank
  BY CommandLinesOver, Zenon
<1> HIDE DEF line
<1>3. execute(line).result = 0 => /\ Len(execute(line).argv) = execute(line).argc + 1
                                  /\ AsWritten(line, execute(line).argv)
  BY <1>2, ArgumentsKept
<1>4. "command" \notin {"telegram", "plain", "refused", "heard", "request"}
  OBVIOUS
<1>5. ArgumentsAsWritten'
  BY <1>1, <1>3, Zenon DEF ArgumentsAsWritten
<1>6. RedirectedByFriendsOnly' /\ PeerReadsTyped' /\ RoundTrip'
  BY <1>1, <1>4, Zenon DEF RedirectedByFriendsOnly, PeerReadsTyped, RoundTrip
<1> QED
  BY <1>5, <1>6 DEF Told

\* A message keeps the aim: its sender wrote since the line was begun.
LEMMA MessageKeepsAim ==
    ASSUME AimKept, NEW c, NEW blocked \in BOOLEAN, cb_friend_message(c, blocked), UNCHANGED typed
    PROVE  AimKept' /\ friends' \subseteq friends
BY DEF AimKept, cb_friend_message

\* The lowest free number is below the number of friends it makes.
LEMMA LowestFree ==
    ASSUME friends \subseteq FriendNumbers, Free # {}
    PROVE  LET new == friends \cup {Min(Free)} IN
           /\ Min(Free) \in FriendNumbers /\ new \subseteq FriendNumbers
           /\ Cardinality(new) \in Nat /\ Min(Free) \in 0 .. Cardinality(new) - 1
<1> DEFINE i == Min(Free)
           new == friends \cup {i}
           below == 0 .. i
<1>1. FriendNumbers \in SUBSET Nat /\ IsFiniteSet(FriendNumbers)
  <2>1. MaxFriends \in Nat
    BY ConsoleAssumption
  <2>2. FriendNumbers \in SUBSET Nat
    BY <2>1 DEF FriendNumbers
  <2>3. IsFiniteSet(FriendNumbers)
    BY <2>1, FS_Interval DEF FriendNumbers
  <2> QED
    BY <2>2, <2>3
<1>2. i \in Free /\ \A d \in Free : i <= d
  BY <1>1, MinOK DEF Free
<1> HIDE DEF i
<1>3. i \in FriendNumbers /\ i \in Nat /\ i \notin friends
  BY <1>1, <1>2 DEF Free
<1>4. new \subseteq FriendNumbers
  BY <1>3
<1>5. below \subseteq new
  <2> SUFFICES ASSUME NEW d \in 0 .. i, d # i PROVE d \in friends
    OBVIOUS
  <2>1. d \in FriendNumbers
    BY <1>3, ConsoleAssumption DEF FriendNumbers
  <2>2. d \in Nat /\ ~(i <= d)
    BY <1>3
  <2> QED
    BY <1>2, <2>1, <2>2 DEF Free
<1>6. IsFiniteSet(new) /\ Cardinality(new) \in Nat
  <2>1. IsFiniteSet(new)
    BY <1>1, <1>4, FS_Subset
  <2> QED
    BY <2>1, FS_CardinalityType
<1>7. IsFiniteSet(below) /\ Cardinality(below) = i + 1
  <2>1. IsFiniteSet(0 .. i) /\ Cardinality(0 .. i) = IF 0 > i THEN 0 ELSE i - 0 + 1
    BY <1>3, FS_Interval
  <2> QED
    BY <1>3, <2>1
<1>8. Cardinality(below) <= Cardinality(new)
  BY <1>5, <1>6, FS_Subset
<1>9. i \in 0 .. Cardinality(new) - 1
  <2> DEFINE n == Cardinality(new)
  <2>1. n \in Nat /\ i + 1 <= n
    BY <1>6, <1>7, <1>8
  <2> HIDE DEF n
  <2>2. i \in 0 .. n - 1
    BY <1>3, <2>1
  <2> QED
    BY <2>2 DEF n
<1> QED
  BY <1>3, <1>4, <1>6, <1>9 DEF i

\* A friend that /add takes is noted, and one that asked is read into the
\* directory unless there are too many.
LEMMA AddKeepsEntries ==
    ASSUME EntriesKept, NEW token, evaluate_add(token), UNCHANGED <<listed, meta_chat_flag, crowded>>
    PROVE  EntriesKept'
<1>1. CASE UNCHANGED <<friends, added>>
  BY <1>1 DEF EntriesKept
<1>2. ASSUME Free # {}, friends' = friends \cup {Min(Free)},
             added' = added \cup (({Min(Free)} \cap Channels) \ listed)
      PROVE  EntriesKept'
  <2>1. friends' \subseteq FriendNumbers
    BY <1>2, LowestFree DEF EntriesKept
  <2> QED
    BY <1>2, <2>1 DEF EntriesKept
<1> QED
  BY <1>1, <1>2 DEF evaluate_add

LEMMA RequestKeepsEntries ==
    ASSUME EntriesKept, NEW left \in SUBSET Channels, cb_friend_request(left)
    PROVE  EntriesKept'
<1> DEFINE n == Cardinality(friends')
           read == 0 .. n - 1
<1>1. friends' = friends \/ (Free # {} /\ friends' = friends \cup {Min(Free)})
  BY DEF cb_friend_request
<1>2. get_relay_name_list(n, left)
  BY DEF cb_friend_request
<1>3. friends' \subseteq FriendNumbers /\ \A c \in friends' : c \in friends \/ c \in read
  <2>1. CASE friends' = friends
    BY <2>1 DEF EntriesKept
  <2>2. CASE Free # {} /\ friends' = friends \cup {Min(Free)}
    <3>1. friends' \subseteq FriendNumbers /\ Min(Free) \in read
      BY <2>2, LowestFree DEF EntriesKept
    <3> QED
      BY <2>2, <3>1
  <2> QED
    BY <1>1, <2>1, <2>2
<1> HIDE DEF n, read
<1>4. CASE n > MAX_Friend_NUM
  <2>1. crowded' /\ meta_chat_flag' = meta_chat_flag
    BY <1>2, <1>4 DEF get_relay_name_list
  <2> QED
    BY <1>3, <2>1 DEF EntriesKept
<1>5. CASE ~(n > MAX_Friend_NUM)
  <2>1. /\ listed' = listed \cup read /\ added' = added \ read /\ crowded' = crowded
        /\ meta_chat_flag' = meta_chat_flag \cup ((left \cap read) \ listed)
    BY <1>2, <1>5 DEF get_relay_name_list, read
  <2> QED
    BY <1>3, <2>1 DEF EntriesKept
<1> QED
  BY <1>4, <1>5

\* Keys, messages and commands; every line that is ended goes where it was aimed at.
LEMMA ConsoleNext == CInv /\ [CNext]_consoleVars => CInv'
<1> SUFFICES ASSUME CInv, [CNext]_consoleVars PROVE CInv'
  OBVIOUS
<1>0. AimKept /\ Len(typed) <= KeyMax /\ EntriesKept /\ Told /\ typed \in Seq(Keyboard)
  BY DEF CInv, Told, AimKept
<1>12. ASSUME friends' \subseteq friends, UNCHANGED directoryVars PROVE EntriesKept'
  BY <1>0, <1>12 DEF EntriesKept, directoryVars
<1>1. ASSUME AimKept', (Len(typed) <= KeyMax)', EntriesKept', Told' PROVE CInv'
  BY <1>1 DEF CInv, Told
<1>2. ASSUME last' = Nothing PROVE Told'
  BY <1>2, SilentTold DEF Silent, Nothing
<1>3. ASSUME NEW key \in Keyboard, Key(key) PROVE CInv'
  <2>1. typed' = Append(typed, key) /\ typed' \in Seq(Keyboard) /\ Len(typed') <= KeyMax
    <3>1. Len(typed) < KeyMax /\ typed' = Append(typed, key)
      BY <1>3 DEF Key
    <3>2. Append(typed, key) \in Seq(Keyboard) /\ Len(Append(typed, key)) = Len(typed) + 1 /\ Len(typed) \in Nat
      BY <1>0
    <3> QED
      BY <3>1, <3>2, ConsoleAssumption
  <2>2. AimKept'
    BY <1>0, <1>3, <2>1 DEF Key, AimKept
  <2>3. Told'
    BY <1>2, <1>3 DEF Key
  <2>4. EntriesKept'
    BY <1>3, <1>12 DEF Key
  <2> QED
    BY <1>1, <2>1, <2>2, <2>3, <2>4
<1>4. ASSUME Backspace PROVE CInv'
  <2>1. typed # <<>> /\ typed' = SubSeq(typed, 1, Len(typed) - 1)
    BY <1>4 DEF Backspace, Front
  <2>2. /\ typed' \in Seq(Keyboard) /\ (Len(typed) = 1 => typed' = <<>>)
        /\ Len(typed') = Len(typed) - 1 /\ Len(typed) \in Nat
    <3> DEFINE t == typed
               u == typed'
               K == Len(t) - 1
    <3>1. t \in Seq(Keyboard) /\ Len(t) \in Nat /\ Len(t) # 0
      BY <1>0, <2>1
    <3>2. K \in 0 .. Len(t) /\ u = SubSeq(t, 1, K)
      BY <2>1, <3>1
    <3> HIDE DEF t, u, K
    <3>3. u \in Seq(Keyboard) /\ Len(u) = K
      BY <3>1, <3>2, UpTo
    <3>4. Len(t) = 1 => u = <<>>
      <4>1. Len(t) = 1 => Len(u) = 0
        BY <3>1, <3>3 DEF K
      <4> QED
        BY <3>3, <4>1
    <3> QED
      BY <3>1, <3>3, <3>4 DEF t, u, K
  <2>3. AimKept'
    BY <1>0, <1>4, <2>1, <2>2 DEF Backspace, AimKept
  <2>4. /\ last' = last /\ friends' = friends
        /\ listed' = listed /\ added' = added /\ crowded' = crowded
    BY <1>4 DEF Backspace, directoryVars
  <2>5. Told'
    BY <1>0, <2>4, Zenon DEF Told, RedirectedByFriendsOnly, PeerReadsTyped, RoundTrip,
          ArgumentsAsWritten, public_key_str
  <2>7. EntriesKept'
    BY <1>4, <1>12, <2>4 DEF Backspace
  <2>6. Len(typed') <= KeyMax
    BY <1>0, <2>2, ConsoleAssumption
  <2> QED
    BY <1>1, <2>3, <2>5, <2>6, <2>7
<1>5. ASSUME NEW key \in {LF, CR}, Return(key) PROVE CInv'
  <2>1. typed' = <<>>
    BY <1>5 DEF Return
  <2>2. AimKept' /\ (Len(typed) <= KeyMax)'
    BY <2>1, ConsoleAssumption DEF AimKept
  <2>5. UNCHANGED <<listed, meta_chat_flag, crowded>>
    BY <1>5 DEF Return
  <2>3. ASSUME evaluate_input(Append(typed, key)) PROVE Told' /\ EntriesKept'
    <3>1. Told'
      BY <2>3, CommandsAreSilent, SilentTold
    <3>2. UNCHANGED <<friends, added>> \/ \E token : evaluate_add(token)
      BY <2>3, Zenon DEF evaluate_input
    <3>3. ASSUME UNCHANGED <<friends, added>> PROVE EntriesKept'
      BY <1>12, <2>5, <3>3 DEF directoryVars
    <3> QED
      BY <1>0, <2>5, <3>1, <3>2, <3>3, AddKeepsEntries
  <2>6. ASSUME NEW sn \in Serials, SendLine(Append(typed, key), sn) PROVE Told' /\ EntriesKept'
    <3>1. UNCHANGED <<friends, added>>
      BY <2>6 DEF SendLine
    <3>2. EntriesKept'
      BY <1>12, <2>5, <3>1 DEF directoryVars
    <3>3. Told'
      BY <2>5, <2>6, <3>1, SendTold
    <3> QED
      BY <3>2, <3>3
  <2>4. Told' /\ EntriesKept'
    BY <1>5, <2>3, <2>6 DEF Return
  <2> QED
    BY <1>1, <2>2, <2>4
<1>6. ASSUME NEW c, NEW blocked \in BOOLEAN, cb_friend_message(c, blocked),
             UNCHANGED typed, Told', EntriesKept'
      PROVE  CInv'
  <2>1. AimKept'
    BY <1>0, <1>6, MessageKeepsAim
  <2> QED
    BY <1>0, <1>1, <1>6, <2>1
<1>13. ASSUME NEW record, Examined(record), Told' PROVE CInv'
  <2>1. cb_friend_message(0, FALSE) /\ UNCHANGED <<typed, directoryVars>>
    BY <1>13 DEF Examined
  <2>2. friends' \subseteq friends
    BY <1>0, <2>1, MessageKeepsAim
  <2>3. EntriesKept'
    BY <1>12, <2>1, <2>2
  <2> QED
    BY <1>6, <1>13, <2>1, <2>3
<1>7. ASSUME NEW c, NEW blocked \in BOOLEAN, Interrupted(c, blocked) PROVE CInv'
  <2>1. cb_friend_message(c, blocked) /\ last' = Nothing /\ UNCHANGED <<typed, directoryVars>>
    BY <1>7 DEF Interrupted
  <2>2. friends' \subseteq friends
    BY <1>0, <2>1, MessageKeepsAim
  <2>3. EntriesKept'
    BY <1>12, <2>1, <2>2
  <2> QED
    BY <1>2, <1>6, <2>1, <2>3
<1>14. ASSUME NEW c \in Channels, Hello(c) PROVE CInv'
  <2>1. /\ cb_friend_message(c, FALSE) /\ last' = Nothing
        /\ meta_chat_flag' = meta_chat_flag \cup {c}
        /\ UNCHANGED <<typed, listed, added, crowded>>
    BY <1>14 DEF Hello
  <2>2. c \in friends /\ friends' = friends
    BY <2>1 DEF cb_friend_message
  <2>3. EntriesKept'
    BY <1>0, <2>1, <2>2 DEF EntriesKept
  <2> QED
    BY <1>2, <1>6, <2>1, <2>3
<1>15. ASSUME NEW left \in SUBSET (Channels \ listed), cb_friend_request(left) PROVE CInv'
  <2>1. last' = Nothing /\ UNCHANGED <<typed, due, pre_friendnumber>>
    BY <1>15 DEF cb_friend_request
  <2>2. AimKept' /\ (Len(typed) <= KeyMax)'
    BY <1>0, <2>1 DEF AimKept
  <2>3. EntriesKept'
    BY <1>0, <1>15, RequestKeepsEntries
  <2> QED
    BY <1>1, <1>2, <2>1, <2>2, <2>3
<1>8. ASSUME NEW text \in Bodies, TelegramArrives(text) PROVE CInv'
  <2>1. last' = [did |-> "heard", text |-> text] /\ \E record : Examined(record)
    BY <1>8 DEF TelegramArrives, Examined
  <2> QED
    BY <1>13, <2>1, HeardTold
<1>9. ASSUME NEW name \in CommandWords, NEW rest \in Arguments,
             CommandArrives(<<name>> \o rest)
      PROVE  CInv'
  <2> DEFINE line == <<name>> \o rest
             record == [did |-> "command", line |-> line, executed |-> execute(line)]
  <2>1. last' = record /\ Examined(record)
    BY <1>9, Zenon DEF CommandArrives, Examined
  <2>2. Told'
    BY <2>1, CommandTold
  <2> HIDE DEF record
  <2> QED
    BY <1>13, <2>1, <2>2
<1>10. ASSUME NEW from \in Numbers, NEW to \in Numbers, RequestArrives(from, to) PROVE CInv'
  <2>1. last' = [did |-> "request", from |-> from, to |-> to] /\ \E record : Examined(record)
    BY <1>10 DEF RequestArrives, Examined
  <2> QED
    BY <1>13, <2>1, RequestTold
<1>11. CASE UNCHANGED consoleVars
  <2>1. /\ UNCHANGED <<typed, pre_friendnumber, due, last, friends, directoryVars>>
        /\ listed' = listed /\ added' = added /\ crowded' = crowded /\ last' = last
    BY <1>11 DEF consoleVars, directoryVars
  <2>2. Told'
    BY <1>0, <2>1, Zenon DEF Told, RedirectedByFriendsOnly, PeerReadsTyped, RoundTrip,
          ArgumentsAsWritten, public_key_str
  <2>3. AimKept' /\ (Len(typed) <= KeyMax)'
    BY <1>0, <2>1 DEF AimKept
  <2>4. EntriesKept'
    BY <1>12, <2>1
  <2> QED
    BY <1>1, <2>2, <2>3, <2>4
<1> QED
  BY <1>3, <1>4, <1>5, <1>7, <1>8, <1>9, <1>10, <1>11, <1>14, <1>15 DEF CNext

\* The aim of a line under way, the entries of the directory and what is said of
\* the last step hold in every state, whatever is typed and whoever writes (the last part of the loop of main, cb_friend_message).
THEOREM ConsoleInvariance == CSpec => []CInv
<1>1. CInit => CInv
  <2> SUFFICES ASSUME CInit PROVE CInv
    OBVIOUS
  <2>1. typed = <<>> /\ last.did = "nothing"
    BY DEF CInit, Nothing
  <2>2. AimKept /\ Len(typed) <= KeyMax
    BY <2>1, ConsoleAssumption DEF AimKept
  <2>3. "nothing" \notin {"telegram", "plain", "refused", "heard", "request", "command"}
    OBVIOUS
  <2>4. RedirectedByFriendsOnly /\ PeerReadsTyped /\ RoundTrip /\ ArgumentsAsWritten
    BY <2>1, <2>3, Zenon DEF RedirectedByFriendsOnly, PeerReadsTyped, RoundTrip, ArgumentsAsWritten
  <2>5. EntriesKept
    <3>1. PICK n \in 0 .. MaxFriends :
             /\ friends = 0 .. n - 1 /\ crowded = (n > MAX_Friend_NUM)
             /\ listed = IF n > MAX_Friend_NUM THEN {} ELSE friends
      BY DEF CInit
    <3>2. friends \subseteq FriendNumbers /\ (~(n > MAX_Friend_NUM) => friends \subseteq Channels)
      BY <3>1, ConsoleAssumption DEF FriendNumbers, Channels
    <3>3. meta_chat_flag \subseteq listed
      BY DEF CInit
    <3> QED
      BY <3>1, <3>2, <3>3 DEF EntriesKept
  <2> QED
    BY <2>2, <2>4, <2>5 DEF CInv
<1> QED
  BY <1>1, ConsoleNext, PTL DEF CSpec

\* Nothing but the message of a friend that is not blocked redirects the line
\* that the operator is typing.
THEOREM LineNotAstray == CSpec => []RedirectedByFriendsOnly
<1>1. CInv => RedirectedByFriendsOnly
  BY DEF CInv
<1> QED
  BY <1>1, ConsoleInvariance, PTL

\* A telegram typed on the console is accepted by the decoder of its peer, with
\* our key and the archived serial and, if it was ended with a line feed and fits
\* the line buffer, with the text that was typed; the encoder refuses no line but
\* one that ends in the terminator, and those for a friend that has no entry in
\* the directory, because /add took it since the last refresh or because there
\* are too many friends (main, evaluate_input, tg_encode_text, tg_decode).
THEOREM PeerReadsEveryLine == CSpec => []PeerReadsTyped
<1>1. CInv => PeerReadsTyped
  BY DEF CInv
<1> QED
  BY <1>1, ConsoleInvariance, PTL

\* Encoder and decoder of src/telegram.c agree on every telegram that comes in,
\* for every capacity of field, body and line and every length of the terminator.
THEOREM CodecRoundTrip == CSpec => []RoundTrip
<1>1. CInv => RoundTrip
  BY DEF CInv
<1> QED
  BY <1>1, ConsoleInvariance, PTL

\* Of a command that a friend sends the handlers get the arguments as they were
\* written, for every limit of arguments and of their length (execute,
\* commands_parse and unquote_str, src/commands.c and src/misc.c).
THEOREM CommandsSplit == CSpec => []ArgumentsAsWritten
<1>1. CInv => ArgumentsAsWritten
  BY DEF CInv
<1> QED
  BY <1>1, ConsoleInvariance, PTL

=============================================================================
