-------------------------- MODULE GroupChatsProofs --------------------------
(***************************************************************************)
(* Proofs about the group table and toxcore's conferences, for every size  *)
(* of the table and any number of conferences, members and passwords.      *)
(***************************************************************************)
EXTENDS GroupChats, FiniteSetTheorems, SequenceTheorems, WellFoundedInduction, TLAPS

-----------------------------------------------------------------------------
(* Least numbers, induction and recursion *)

\* A set of natural numbers has a least member.
LEMMA LeastNatural ==
    ASSUME NEW S \in SUBSET Nat, S # {}
    PROVE  \E c \in S : \A d \in S : c <= d
<1>1. \E c \in S : \A d \in S : ~(<<d, c>> \in OpToRel(<, Nat))
  BY NatLessThanWellFounded, WFMin
<1>2. PICK c \in S : \A d \in S : ~(<<d, c>> \in OpToRel(<, Nat))
  BY <1>1
<1>3. \A d \in S : ~(d < c)
  BY <1>2 DEF OpToRel
<1> QED
  BY <1>3

\* Induction up to N, over the set of the numbers for which the claim holds.
LEMMA UpTo ==
    ASSUME NEW N \in Nat, NEW S, 0 \in S, \A i \in 1 .. N : i - 1 \in S => i \in S
    PROVE  \A i \in 0 .. N : i \in S
<1> DEFINE Bad == {i \in 0 .. N : i \notin S}
<1>1. SUFFICES ASSUME Bad # {} PROVE FALSE
  OBVIOUS
<1>2. PICK c \in Bad : \A d \in Bad : c <= d
  <2>1. Bad \in SUBSET Nat
    OBVIOUS
  <2> HIDE DEF Bad
  <2> QED
    BY <1>1, <2>1, LeastNatural
<1>3. c \in 1 .. N
  BY <1>2
<1>4. c - 1 \in 0 .. N /\ c - 1 \notin Bad
  BY <1>2, <1>3
<1> QED
  BY <1>2, <1>3, <1>4

\* The turns of the purge exist, so that their recursive definition has a meaning,
\* and each follows from the one before.
LEMMA PurgeTurnsDef ==
    ASSUME Len(g_chats) \in Nat
    PROVE  /\ PurgeTurns[0] = [conf |-> conf, table |-> g_chats]
           /\ \A i \in 1 .. Len(g_chats) : PurgeTurns[i] = PurgeStep(PurgeTurns[i - 1], i)
<1> DEFINE x == [conf |-> conf, table |-> g_chats]
           N == Len(g_chats)
           F(k, g) == [i \in 0 .. k |-> IF i = 0 THEN x ELSE PurgeStep(g[i - 1], i)]
           Works(k, g) == g = F(k, g)
           S == {k \in 0 .. N : \E g : Works(k, g)}
<1> HIDE DEF x
<1>1. 0 \in S
  <2>1. Works(0, [i \in 0 .. 0 |-> x])
    OBVIOUS
  <2> HIDE DEF Works
  <2> QED
    BY <2>1
<1>2. ASSUME NEW k \in 1 .. N, k - 1 \in S PROVE k \in S
  <2>1. PICK g : Works(k - 1, g)
    BY <1>2
  <2> DEFINE h == [i \in 0 .. k |-> IF i = k THEN PurgeStep(g[k - 1], k) ELSE g[i]]
  <2>2. DOMAIN g = 0 .. k - 1 /\ g[0] = x
    BY <2>1
  <2>3. \A i \in 1 .. k - 1 : g[i] = PurgeStep(g[i - 1], i)
    BY <2>1
  <2>4. h = [i \in 0 .. k |-> IF i = 0 THEN x ELSE PurgeStep(h[i - 1], i)]
    BY <2>2, <2>3
  <2>5. Works(k, h)
    BY <2>4
  <2> HIDE DEF Works, h
  <2> QED
    BY <2>5
<1>3. N \in S
  <2>1. N \in Nat
    OBVIOUS
  <2> HIDE DEF S, N
  <2> QED
    BY <1>1, <1>2, <2>1, UpTo
<1>4. PICK g : Works(N, g)
  BY <1>3
<1>5. PurgeTurns = F(N, PurgeTurns)
  <2>1. PurgeTurns = CHOOSE f : f = F(N, f)
    BY DEF PurgeTurns, x
  <2> HIDE DEF F
  <2> QED
    BY <1>4, <2>1
<1> QED
  BY <1>5 DEF x

\* Min and Max of the numbers of slots.
LEMMA MinOK ==
    ASSUME NEW N \in Nat, NEW S \in SUBSET (1 .. N), S # {}
    PROVE  Min(S) \in S /\ \A d \in S : Min(S) <= d
<1>1. \E c \in S : \A d \in S : c <= d
  <2>1. S \in SUBSET Nat
    OBVIOUS
  <2> QED
    BY <2>1, LeastNatural
<1> QED
  BY <1>1 DEF Min

\* A bounded set of positions has a last one.
LEMMA MaxOK ==
    ASSUME NEW N \in Nat, NEW S \in SUBSET (1 .. N), S # {}
    PROVE  Max(S) \in S /\ \A d \in S : d <= Max(S)
<1> DEFINE T == {N - c : c \in S}
<1>1. T \in SUBSET Nat /\ T # {}
  <2>1. \A c \in S : c \in 1 .. N /\ N - c \in Nat
    OBVIOUS
  <2> QED
    BY <2>1
<1>2. PICK m \in T : \A d \in T : m <= d
  <2> HIDE DEF T
  <2> QED
    BY <1>1, LeastNatural
<1>3. PICK c \in S : m = N - c
  BY <1>2
<1>4. ASSUME NEW d \in S PROVE d <= c
  <2>1. m <= N - d
    BY <1>2
  <2> QED
    BY <1>3, <2>1
<1>5. \E e \in S : \A d \in S : e >= d
  BY <1>4
<1>6. Max(S) \in S /\ \A d \in S : Max(S) >= d
  BY <1>5 DEF Max
<1> QED
  BY <1>6

-----------------------------------------------------------------------------
(* The table *)

\* The slots in use.
Active(table) == {i \in DOMAIN table : table[i].active}

\* No conference has two slots.
Distinct(table) ==
    \A i, j \in Active(table) : table[i].groupnum = table[j].groupnum => i = j

\* The last slot is in use.
EndsActive(table) == Len(table) > 0 => table[Len(table)].active

\* group_index finds the slot in use that has the number, if there is one.
LEMMA IndexOK ==
    ASSUME NEW table \in Seq(Slot), NEW n
    PROVE  LET i == group_index(table, n) IN
           \/ i = 0 /\ \A j \in Active(table) : table[j].groupnum # n
           \/ i \in Active(table) /\ table[i].groupnum = n
<1> DEFINE I == {i \in 1 .. Len(table) : table[i].active /\ table[i].groupnum = n}
<1>1. group_index(table, n) = IF I # {} THEN Min(I) ELSE 0
  BY DEF group_index, SelectInSeq
<1>2. DOMAIN table = 1 .. Len(table) /\ Len(table) \in Nat
  OBVIOUS
<1>3. I # {} => Min(I) \in I
  <2>1. I \in SUBSET (1 .. Len(table))
    OBVIOUS
  <2> HIDE DEF I
  <2> QED
    BY <1>2, <2>1, MinOK
<1> QED
  BY <1>1, <1>2, <1>3 DEF Active

\* Without a second slot of that number, it is the one.
LEMMA IndexIs ==
    ASSUME NEW table \in Seq(Slot), Distinct(table), NEW i \in Active(table)
    PROVE  group_index(table, table[i].groupnum) = i
<1>1. \/ /\ group_index(table, table[i].groupnum) = 0
         /\ \A j \in Active(table) : table[j].groupnum # table[i].groupnum
      \/ /\ group_index(table, table[i].groupnum) \in Active(table)
         /\ table[group_index(table, table[i].groupnum)].groupnum = table[i].groupnum
  BY IndexOK
<1> QED
  BY <1>1 DEF Distinct

\* group_add fills a slot that is not in use, or the one behind the last, and
\* leaves the others alone.
Fills(table, t, i, slot) ==
    /\ t \in Seq(Slot)
    /\ i \in DOMAIN t /\ i \notin Active(table)
    /\ DOMAIN t = DOMAIN table \cup {i}
    /\ t[i] = slot
    /\ \A j \in DOMAIN table : j # i => t[j] = table[j]
    /\ Len(table) <= Len(t) /\ Len(t) <= Len(table) + 1
    /\ Len(t) = Len(table) \/ i = Len(t)

\* The slot that group_add writes.
LEMMA AddedIsSlot ==
    ASSUME NEW n \in Numbers, NEW p \in Passwords \cup {NoPass}
    PROVE  Added(n, p) \in Slot /\ Added(n, p).active /\ Added(n, p).groupnum = n
           /\ Added(n, p).password = p /\ Added(n, p).title = NoTitle
  BY DEF Added, Slot

\* group_add fills one slot: the first free one, or a new one behind the last.
LEMMA AddOK ==
    ASSUME NEW table \in Seq(Slot), NEW n \in Numbers, NEW p \in Passwords \cup {NoPass}
    PROVE  \E i : Fills(table, group_add(table, n, p), i, Added(n, p))
<1> DEFINE I == {i \in 1 .. Len(table) : ~table[i].active}
           slot == Added(n, p)
<1>1. SelectInSeq(table, LAMBDA s : ~s.active) = IF I # {} THEN Min(I) ELSE 0
  BY DEF SelectInSeq
<1>2. DOMAIN table = 1 .. Len(table) /\ Len(table) \in Nat /\ slot \in Slot
  BY AddedIsSlot
<1> HIDE DEF slot
<1>3. CASE I = {}
  <2>1. group_add(table, n, p) = Append(table, slot)
    BY <1>1, <1>3 DEF group_add, slot
  <2>2. Fills(table, Append(table, slot), Len(table) + 1, slot)
    BY <1>2 DEF Fills, Active
  <2> QED
    BY <2>1, <2>2 DEF slot
<1>4. CASE I # {}
  <2> DEFINE i == Min(I)
  <2>1. i \in 1 .. Len(table) /\ ~table[i].active
    <3>1. I \in SUBSET (1 .. Len(table))
      OBVIOUS
    <3>2. Min(I) \in I
      <4> HIDE DEF I
      <4> QED
        BY <1>2, <1>4, <3>1, MinOK
    <3> QED
      BY <3>2
  <2>2. group_add(table, n, p) = [table EXCEPT ![i] = slot]
    <3>1. i # 0
      BY <2>1
    <3> QED
      BY <1>1, <1>4, <3>1 DEF group_add, slot
  <2> HIDE DEF i
  <2>3. Fills(table, [table EXCEPT ![i] = slot], i, slot)
    <3> DEFINE t == [table EXCEPT ![i] = slot]
    <3>1. /\ t \in Seq(Slot) /\ Len(t) = Len(table) /\ DOMAIN t = DOMAIN table
          /\ t[i] = slot /\ \A j \in DOMAIN table : j # i => t[j] = table[j]
      BY <1>2, <2>1
    <3> HIDE DEF t
    <3>2. i \in DOMAIN t /\ i \notin Active(table) /\ DOMAIN t = DOMAIN table \cup {i}
      BY <1>2, <2>1, <3>1 DEF Active
    <3> QED
      BY <1>2, <3>1, <3>2 DEF Fills, t
  <2> QED
    BY <2>2, <2>3 DEF slot
<1> QED
  BY <1>3, <1>4

\* group_leave empties the slot of group n and cuts the table off behind the last
\* slot in use; every other slot in use stays as it is.
Leaves(table, t, n) ==
    /\ t \in Seq(Slot)
    /\ Len(t) <= Len(table)
    /\ Active(t) = {i \in Active(table) : table[i].groupnum # n}
    /\ \A i \in Active(t) : t[i] = table[i]
    /\ EndsActive(t)

\* The slot that group_leave clears.
LEMMA HoleIsSlot ==
    ASSUME Numbers # {}
    PROVE  Hole \in Slot /\ ~Hole.active
  BY GroupAssumption DEF Hole, Slot, Numbers

\* group_leave clears the slot of the group and no other, and shortens the table to
\* its last active slot.
LEMMA LeaveOK ==
    ASSUME NEW table \in Seq(Slot), Distinct(table), NEW n \in Numbers
    PROVE  Leaves(table, group_leave(table, n), n)
<1> DEFINE at == group_index(table, n)
           cleared == [i \in DOMAIN table |-> IF i = at THEN Hole ELSE table[i]]
           I == {i \in 1 .. Len(cleared) : cleared[i].active}
           last == IF I # {} THEN Max(I) ELSE 0
<1>1. DOMAIN table = 1 .. Len(table) /\ Len(table) \in Nat /\ Hole \in Slot /\ ~Hole.active
  BY HoleIsSlot
<1>2. cleared \in Seq(Slot) /\ Len(cleared) = Len(table)
      /\ \A i \in 1 .. Len(table) : cleared[i] = IF i = at THEN Hole ELSE table[i]
  BY <1>1
<1>3. group_leave(table, n) = SubSeq(cleared, 1, last)
  BY DEF group_leave, SelectLastInSeq
<1>4. /\ last \in 0 .. Len(table)
      /\ last # 0 => last \in I
      /\ \A i \in I : i <= last
  <2>1. I \in SUBSET (1 .. Len(table))
    <3> HIDE DEF cleared
    <3> QED
      BY <1>2
  <2> HIDE DEF I
  <2>2. CASE I = {}
    BY <1>1, <2>2
  <2>3. CASE I # {}
    <3>1. Max(I) \in I /\ \A d \in I : d <= Max(I)
      BY <1>1, <2>1, <2>3, MaxOK
    <3>2. last = Max(I)
      BY <2>3
    <3> HIDE DEF last, cleared, at
    <3>3. last \in I /\ \A d \in I : d <= last
      BY <3>1, <3>2
    <3>4. last \in 1 .. Len(table)
      BY <2>1, <3>3
    <3> QED
      BY <1>1, <3>3, <3>4
  <2> QED
    BY <2>2, <2>3
<1>5. \A i \in 1 .. Len(table) : i \in I <=> table[i].active /\ table[i].groupnum # n
  <2>1. \A i \in 1 .. Len(table) : i \in I <=> i # at /\ table[i].active
    BY <1>1, <1>2
  <2>2. ASSUME NEW i \in Active(table) PROVE i = at <=> table[i].groupnum = n
    <3> HIDE DEF cleared, last, I
    <3>1. i # 0
      BY <1>1 DEF Active
    <3>2. i = at => table[i].groupnum = n
      BY <3>1, IndexOK
    <3>3. table[i].groupnum = n => i = at
      BY IndexIs
    <3> QED
      BY <3>2, <3>3
  <2> QED
    BY <1>1, <2>1, <2>2 DEF Active
<1> HIDE DEF last, at, cleared
<1>6. /\ SubSeq(cleared, 1, last) \in Seq(Slot) /\ Len(SubSeq(cleared, 1, last)) = last
      /\ \A i \in 1 .. last : SubSeq(cleared, 1, last)[i] = cleared[i]
  BY <1>1, <1>2, <1>4
<1> DEFINE t == SubSeq(cleared, 1, last)
<1>7. t \in Seq(Slot) /\ DOMAIN t = 1 .. last /\ Len(t) = last
  BY <1>6
<1>8. \A i \in 1 .. last : t[i] = cleared[i] /\ i \in 1 .. Len(table)
  BY <1>1, <1>4, <1>6
<1>9. Active(t) = I
  BY <1>2, <1>4, <1>7, <1>8 DEF Active
<1>10. I = {i \in Active(table) : table[i].groupnum # n}
  BY <1>1, <1>2, <1>5 DEF Active
<1>11. \A i \in I : cleared[i] = table[i]
  BY <1>1, <1>2 DEF cleared
<1> HIDE DEF I, t
<1>12. \A i \in Active(t) : t[i] = table[i]
  BY <1>7, <1>8, <1>9, <1>11 DEF Active
<1>13. EndsActive(t)
  BY <1>1, <1>4, <1>7, <1>9 DEF EndsActive, Active
<1> QED
  <2>1. group_leave(table, n) = t
    BY <1>3 DEF t, last, I, cleared, at
  <2>2. Len(t) <= Len(table)
    BY <1>1, <1>4, <1>7
  <2> QED
    BY <1>7, <1>9, <1>10, <1>12, <1>13, <2>1, <2>2 DEF Leaves

-----------------------------------------------------------------------------
(* The invariant *)

\* Table t and conferences c fit each other, given that the conferences r have no
\* slot and that d are the passwords asked for.
Fits(c, t, r, d) ==
    /\ DOMAIN c \subseteq Numbers \cap DOMAIN d
    /\ t \in Seq(Slot) /\ Distinct(t) /\ EndsActive(t) /\ Len(t) <= MAX_NUM_GROUPS
    /\ \A i \in Active(t) :
           /\ t[i].groupnum \in DOMAIN c \ r
           /\ t[i].password = d[t[i].groupnum]
           /\ t[i].title \in {NoTitle, c[t[i].groupnum].title}
    /\ \A n \in DOMAIN c \ r : \E i \in Active(t) : t[i].groupnum = n

\* The types of the state.
GroupTypes ==
    /\ running \in BOOLEAN /\ connected \in BOOLEAN
    /\ settled \in BOOLEAN /\ interval_over \in BOOLEAN
    /\ conf \in [DOMAIN conf -> Conference]
    /\ intended \in [DOMAIN conf -> Passwords \cup {NoPass}]
    /\ refused \subseteq DOMAIN conf

\* While a purge is possible nobody is missing because of our own connection.
NobodyLost ==
    /\ connected /\ settled => ~Anyone("lost")
    /\ ~running => ~connected

\* The inductive invariant: types, a table that fits the conferences, and no member
\* out of sight when a purge may run.
GInv ==
    /\ GroupTypes
    /\ Fits(conf, g_chats, refused, intended)
    /\ NobodyLost

\* A number that toxcore gives to a new conference is not in use.
LEMMA NewNumberOK ==
    ASSUME GInv, CanCreate
    PROVE  NewNumber \in Numbers \ DOMAIN conf
<1> DEFINE S == {n \in 0 .. MaxConferences : n \notin DOMAIN conf}
           Good(n) == n \notin DOMAIN conf /\ \A k \in 0 .. n - 1 : k \in DOMAIN conf
<1>1. MaxConferences \in Nat /\ DOMAIN conf \subseteq 0 .. MaxConferences - 1
  BY GroupAssumption DEF GInv, Fits, Numbers
<1>2. PICK n \in S : \A k \in S : n <= k
  <2>1. MaxConferences \in S
    BY <1>1
  <2>2. S \in SUBSET Nat
    BY <1>1
  <2> HIDE DEF S
  <2> QED
    BY <2>1, <2>2, LeastNatural
<1>3. n \in 0 .. MaxConferences /\ Good(n)
  BY <1>1, <1>2
<1> HIDE DEF Good
<1>4. NewNumber = CHOOSE m \in 0 .. MaxConferences : Good(m)
  BY DEF NewNumber, Good
<1>5. Good(NewNumber)
  BY <1>3, <1>4
<1> QED
  BY <1>5 DEF CanCreate, Good

\* A new conference with its slot, and one without.
LEMMA AddFits ==
    ASSUME NEW c, NEW t, NEW r \in SUBSET Numbers, NEW d, Fits(c, t, r, d), ~Full(t),
           NEW n \in Numbers \ DOMAIN c, n \notin r,
           NEW x \in Conference, NEW p \in Passwords \cup {NoPass}
    PROVE  Fits(With(c, n, x), group_add(t, n, p), r, With(d, n, p))
<1> DEFINE c2 == With(c, n, x)
           d2 == With(d, n, p)
           t2 == group_add(t, n, p)
<1>1. c2 = [m \in DOMAIN c \cup {n} |-> IF m = n THEN x ELSE c[m]]
  BY DEF With
<1>2. d2 = [m \in DOMAIN d \cup {n} |-> IF m = n THEN p ELSE d[m]]
  BY DEF With
<1>3. t \in Seq(Slot) /\ Len(t) \in Nat /\ DOMAIN t = 1 .. Len(t)
  BY DEF Fits
<1>4. PICK i : Fills(t, t2, i, Added(n, p))
  BY <1>3, AddOK
<1> HIDE DEF t2, c2, d2
<1>5. /\ t2 \in Seq(Slot) /\ i \in DOMAIN t2 /\ i \notin Active(t) /\ t2[i] = Added(n, p)
      /\ DOMAIN t2 = DOMAIN t \cup {i} /\ DOMAIN t2 = 1 .. Len(t2) /\ Len(t2) \in Nat
      /\ \A j \in DOMAIN t : j # i => t2[j] = t[j]
  <2>1. \A q \in Seq(Slot) : DOMAIN q = 1 .. Len(q) /\ Len(q) \in Nat
    OBVIOUS
  <2>2. /\ t2 \in Seq(Slot) /\ i \in DOMAIN t2 /\ i \notin Active(t) /\ t2[i] = Added(n, p)
        /\ DOMAIN t2 = DOMAIN t \cup {i} /\ \A j \in DOMAIN t : j # i => t2[j] = t[j]
    BY <1>4, Zenon DEF Fills
  <2> QED
    BY <2>1, <2>2, Zenon
<1>6. Added(n, p).active /\ Added(n, p).groupnum = n
      /\ Added(n, p).password = p /\ Added(n, p).title = NoTitle
  BY AddedIsSlot
<1>7. Active(t2) = Active(t) \cup {i} /\ \A j \in Active(t) : t2[j] = t[j] /\ j # i
  BY <1>5, <1>6 DEF Active
<1>8. EndsActive(t2) /\ Len(t2) <= MAX_NUM_GROUPS
  <2>1. Len(t2) <= MAX_NUM_GROUPS
    <3>1. Len(t2) <= Len(t) + 1
      BY <1>4 DEF Fills
    <3> QED
      BY <1>3, <1>5, <3>1, GroupAssumption DEF Full
  <2>2. i = Len(t2) => EndsActive(t2)
    BY <1>5, <1>6, Zenon DEF EndsActive
  <2>3. ASSUME i # Len(t2) PROVE EndsActive(t2)
    <3>1. Len(t2) = Len(t)
      BY <1>4, <2>3 DEF Fills
    <3>2. Len(t2) > 0 => t2[Len(t2)] = t[Len(t2)]
      BY <1>3, <1>5, <2>3, <3>1
    <3> QED
      BY <3>1, <3>2 DEF EndsActive, Fits
  <2>4. EndsActive(t2)
    BY <2>2, <2>3
  <2> QED
    BY <2>1, <2>4
<1>9. \A j \in Active(t) : t[j].groupnum \in DOMAIN c \ r /\ t[j].groupnum # n
  BY DEF Fits
<1>10. Distinct(t2)
  BY <1>5, <1>6, <1>7, <1>9 DEF Distinct, Fits
<1>11. \A j \in Active(t2) : /\ t2[j].groupnum \in DOMAIN c2 \ r
                             /\ t2[j].password = d2[t2[j].groupnum]
                             /\ t2[j].title \in {NoTitle, c2[t2[j].groupnum].title}
  <2> SUFFICES ASSUME NEW j \in Active(t2)
               PROVE  /\ t2[j].groupnum \in DOMAIN c2 \ r
                      /\ t2[j].password = d2[t2[j].groupnum]
                      /\ t2[j].title \in {NoTitle, c2[t2[j].groupnum].title}
    OBVIOUS
  <2>1. CASE j = i
    BY <1>1, <1>2, <1>5, <1>6, <2>1
  <2>2. CASE j # i
    <3>1. j \in Active(t) /\ t2[j] = t[j]
      BY <1>7, <2>2
    <3>2. /\ t[j].groupnum \in DOMAIN c \ r /\ t[j].groupnum # n
          /\ t[j].password = d[t[j].groupnum] /\ t[j].title \in {NoTitle, c[t[j].groupnum].title}
      BY <1>9, <3>1 DEF Fits
    <3>3. c2[t[j].groupnum] = c[t[j].groupnum]
      BY <1>1, <3>2
    <3>4. d2[t[j].groupnum] = d[t[j].groupnum]
      BY <1>2, <3>2 DEF Fits
    <3> QED
      BY <1>1, <3>1, <3>2, <3>3, <3>4
  <2> QED
    BY <2>1, <2>2
<1>12. \A m \in DOMAIN c2 \ r : \E j \in Active(t2) : t2[j].groupnum = m
  <2> SUFFICES ASSUME NEW m \in DOMAIN c2 \ r PROVE \E j \in Active(t2) : t2[j].groupnum = m
    OBVIOUS
  <2>1. CASE m = n
    BY <1>5, <1>6, <1>7, <2>1
  <2>2. CASE m # n
    BY <1>1, <1>7, <2>2 DEF Fits
  <2> QED
    BY <2>1, <2>2
<1>13. DOMAIN c2 \subseteq Numbers \cap DOMAIN d2
  BY <1>1, <1>2 DEF Fits
<1> QED
  BY <1>5, <1>8, <1>10, <1>11, <1>12, <1>13 DEF Fits, c2, d2, t2

\* A conference without a slot.
LEMMA RefuseFits ==
    ASSUME NEW c, NEW t, NEW r \in SUBSET DOMAIN c, NEW d, Fits(c, t, r, d),
           NEW n \in Numbers \ DOMAIN c, NEW x, NEW p
    PROVE  Fits(With(c, n, x), t, r \cup {n}, With(d, n, p))
<1> DEFINE c2 == With(c, n, x)
           d2 == With(d, n, p)
<1>1. c2 = [m \in DOMAIN c \cup {n} |-> IF m = n THEN x ELSE c[m]]
  BY DEF With
<1>2. d2 = [m \in DOMAIN d \cup {n} |-> IF m = n THEN p ELSE d[m]]
  BY DEF With
<1> HIDE DEF c2, d2
<1>3. DOMAIN c2 \ (r \cup {n}) = DOMAIN c \ r
  BY <1>1
<1>4. \A m \in DOMAIN c : c2[m] = c[m] /\ d2[m] = d[m]
  BY <1>1, <1>2 DEF Fits
<1>5. \A i \in Active(t) : t[i].groupnum \in DOMAIN c \ r
  BY DEF Fits
<1>6. DOMAIN c2 \subseteq Numbers \cap DOMAIN d2
  BY <1>1, <1>2 DEF Fits
<1> QED
  BY <1>3, <1>4, <1>5, <1>6 DEF Fits, c2, d2

\* A conference is given up together with its slot, if it has one.
LEMMA LeaveFits ==
    ASSUME NEW c, NEW t, NEW r, NEW d, NEW d2, Fits(c, t, r, d), NEW n \in Numbers,
           \A m \in DOMAIN c \ {n} : m \in DOMAIN d2 /\ d2[m] = d[m]
    PROVE  /\ Fits(Without(c, n), group_leave(t, n), r \ {n}, d2)
           /\ n \notin r => Fits(Without(c, n), group_leave(t, n), r, d2)
<1> DEFINE c2 == Without(c, n)
           t2 == group_leave(t, n)
<1>1. c2 = [m \in DOMAIN c \ {n} |-> c[m]]
  BY DEF Without, Restrict
<1>2. t \in Seq(Slot) /\ Distinct(t) /\ Len(t) \in Nat
  BY DEF Fits
<1>3. Leaves(t, t2, n)
  BY <1>2, LeaveOK
<1> HIDE DEF c2, t2
<1>4. /\ t2 \in Seq(Slot) /\ EndsActive(t2) /\ Len(t2) \in Nat
      /\ Active(t2) = {i \in Active(t) : t[i].groupnum # n}
      /\ \A i \in Active(t2) : t2[i] = t[i]
  BY <1>3 DEF Leaves
<1>5. Len(t2) <= MAX_NUM_GROUPS
  BY <1>2, <1>3, <1>4, GroupAssumption DEF Leaves, Fits
<1>6. Distinct(t2)
  BY <1>2, <1>4 DEF Distinct
<1>7. DOMAIN c2 \subseteq Numbers \cap DOMAIN d2
  BY <1>1 DEF Fits
<1>8. \A i \in Active(t2) : /\ t2[i].groupnum \in DOMAIN c2 \ r
                            /\ t2[i].password = d2[t2[i].groupnum]
                            /\ t2[i].title \in {NoTitle, c2[t2[i].groupnum].title}
  <2> SUFFICES ASSUME NEW i \in Active(t2)
               PROVE  /\ t2[i].groupnum \in DOMAIN c2 \ r
                      /\ t2[i].password = d2[t2[i].groupnum]
                      /\ t2[i].title \in {NoTitle, c2[t2[i].groupnum].title}
    OBVIOUS
  <2>1. i \in Active(t) /\ t[i].groupnum # n /\ t2[i] = t[i]
    BY <1>4
  <2>2. /\ t[i].groupnum \in DOMAIN c \ r /\ t[i].password = d[t[i].groupnum]
        /\ t[i].title \in {NoTitle, c[t[i].groupnum].title}
    BY <2>1 DEF Fits
  <2>3. /\ t[i].groupnum \in DOMAIN c2 \ r /\ c2[t[i].groupnum] = c[t[i].groupnum]
        /\ d2[t[i].groupnum] = d[t[i].groupnum]
    BY <1>1, <2>1, <2>2
  <2> QED
    BY <2>1, <2>2, <2>3
<1>9. \A m \in DOMAIN c2 \ r : \E i \in Active(t2) : t2[i].groupnum = m
  <2> SUFFICES ASSUME NEW m \in DOMAIN c2 \ r PROVE \E i \in Active(t2) : t2[i].groupnum = m
    OBVIOUS
  <2>1. m \in DOMAIN c \ r /\ m # n
    BY <1>1
  <2>2. PICK i \in Active(t) : t[i].groupnum = m
    BY <2>1 DEF Fits
  <2> QED
    BY <1>4, <2>1, <2>2
<1>10. DOMAIN c2 \ (r \ {n}) = DOMAIN c2 \ r
  BY <1>1
<1>11. Fits(c2, t2, r, d2) /\ Fits(c2, t2, r \ {n}, d2)
  BY <1>4, <1>5, <1>6, <1>7, <1>8, <1>9, <1>10 DEF Fits
<1> QED
  BY <1>11 DEF c2, t2

\* The contents of one slot, or of none, and of the conferences and passwords
\* change, but not which there are.
LEMMA ChangeFits ==
    ASSUME NEW c, NEW t, NEW r, NEW d, Fits(c, t, r, d), NEW c2, NEW t2, NEW d2,
           DOMAIN c2 = DOMAIN c, DOMAIN c \subseteq DOMAIN d2, t2 \in Seq(Slot), Len(t2) = Len(t),
           \A i \in DOMAIN t : /\ t2[i].active = t[i].active
                                /\ t2[i].groupnum = t[i].groupnum,
           \A i \in Active(t) :
               /\ t2[i].password = d2[t[i].groupnum]
               /\ t2[i].title \in {NoTitle, c2[t[i].groupnum].title}
    PROVE  Fits(c2, t2, r, d2)
<1>1. DOMAIN t2 = DOMAIN t /\ DOMAIN t = 1 .. Len(t) /\ Len(t) \in Nat
  BY DEF Fits
<1>2. Active(t2) = Active(t)
  BY <1>1 DEF Active
<1>3. \A i \in Active(t) : t2[i].groupnum = t[i].groupnum
  BY DEF Active
<1>4. Distinct(t2)
  BY <1>2, <1>3 DEF Distinct, Fits
<1>5. EndsActive(t2)
  BY <1>1 DEF EndsActive, Fits
<1> QED
  BY <1>1, <1>2, <1>3, <1>4, <1>5 DEF Fits

-----------------------------------------------------------------------------
(* The purge *)

\* What is left after the first i turns of the purge: the conferences without a
\* slot, those with company, and those whose slot has not been looked at.
LeftAfter(i) ==
    {n \in DOMAIN conf :
        \/ n \in refused
        \/ ~Empty(conf[n])
        \/ \E j \in Active(g_chats) : j > i /\ g_chats[j].groupnum = n}

\* After slot i of the purge, whatever has been left is gone from both sides and the
\* rest is as it was.
TurnOK(now, i) ==
    /\ now.conf = [n \in LeftAfter(i) |-> conf[n]]
    /\ Fits(now.conf, now.table, refused, intended)
    /\ Active(now.table) \subseteq Active(g_chats)
    /\ \A j \in Active(now.table) : now.table[j] = g_chats[j]

\* One turn, although the table may have been shortened by those before it.
LEMMA PurgeStepOK ==
    ASSUME GInv, NEW i \in 1 .. Len(g_chats), NEW now, TurnOK(now, i - 1)
    PROVE  TurnOK(PurgeStep(now, i), i)
<1> DEFINE c == now.conf
           t == now.table
<1>1. /\ g_chats \in Seq(Slot) /\ Len(g_chats) \in Nat /\ DOMAIN g_chats = 1 .. Len(g_chats)
      /\ Distinct(g_chats)
      /\ \A j \in Active(g_chats) : g_chats[j].groupnum \in DOMAIN conf \ refused
  BY DEF GInv, Fits
<1>2. /\ c = [n \in LeftAfter(i - 1) |-> conf[n]]
      /\ Fits(c, t, refused, intended)
      /\ Active(t) \subseteq Active(g_chats)
      /\ \A j \in Active(t) : t[j] = g_chats[j]
  BY DEF TurnOK
<1> HIDE DEF c, t
<1>3. /\ t \in Seq(Slot) /\ DOMAIN t = 1 .. Len(t) /\ Len(t) \in Nat
      /\ DOMAIN c = LeftAfter(i - 1) /\ DOMAIN c \subseteq Numbers \cap DOMAIN intended
      /\ \A n \in DOMAIN c \ refused : \E j \in Active(t) : t[j].groupnum = n
      /\ \A j \in Active(t) : t[j].groupnum \in DOMAIN c \ refused
  BY <1>2 DEF Fits
<1>4. \A j \in Active(g_chats) : j \in Int
  BY <1>1 DEF Active
<1>5. \A j \in Int : j > i - 1 <=> j = i \/ j > i
  OBVIOUS
<1>6. CASE i > Len(t) \/ ~t[i].active
  <2>1. PurgeStep(now, i) = now
    BY <1>6 DEF PurgeStep, t
  <2>2. i \notin Active(t)
    BY <1>3, <1>6 DEF Active
  <2>3. i \notin Active(g_chats)
    <3> SUFFICES ASSUME i \in Active(g_chats) PROVE FALSE
      OBVIOUS
    <3>1. g_chats[i].groupnum \in LeftAfter(i - 1) \ refused
      BY <1>1, <1>4, <1>5 DEF LeftAfter
    <3>2. PICK j \in Active(t) : t[j].groupnum = g_chats[i].groupnum
      BY <1>3, <3>1
    <3>3. j = i
      BY <1>1, <1>2, <3>2 DEF Distinct
    <3> QED
      BY <2>2, <3>3
  <2>4. LeftAfter(i) = LeftAfter(i - 1)
    BY <1>4, <1>5, <2>3 DEF LeftAfter
  <2> QED
    BY <2>1, <2>4 DEF TurnOK
<1>7. CASE ~(i > Len(t) \/ ~t[i].active)
  <2> DEFINE n == t[i].groupnum
  <2>1. i \in Active(t) /\ i \in Active(g_chats) /\ t[i] = g_chats[i]
    BY <1>2, <1>3, <1>7 DEF Active
  <2>2. n \in DOMAIN c \ refused /\ n \in DOMAIN conf /\ c[n] = conf[n] /\ n \in Numbers
    BY <1>2, <1>3, <2>1 DEF LeftAfter
  <2>3. \A j \in Active(g_chats) : g_chats[j].groupnum = n => j = i
    BY <1>1, <2>1 DEF Distinct
  <2>4. PurgeStep(now, i) = IF n \in DOMAIN c /\ ~Empty(c[n]) THEN now
                           ELSE [conf |-> Without(c, n), table |-> group_leave(t, n)]
    BY <1>7 DEF PurgeStep, t, c
  <2> HIDE DEF n
  <2>5. CASE ~Empty(c[n])
    <3>1. PurgeStep(now, i) = now
      BY <2>2, <2>4, <2>5
    <3>2. LeftAfter(i) = LeftAfter(i - 1)
      BY <1>4, <1>5, <2>1, <2>2, <2>5 DEF LeftAfter, n
    <3> QED
      BY <3>1, <3>2 DEF TurnOK
  <2>6. CASE Empty(c[n])
    <3>1. PurgeStep(now, i) = [conf |-> Without(c, n), table |-> group_leave(t, n)]
      BY <2>4, <2>6
    <3>2. LeftAfter(i) = LeftAfter(i - 1) \ {n}
      BY <1>4, <1>5, <2>1, <2>2, <2>3, <2>6 DEF LeftAfter, n
    <3>3. Without(c, n) = [m \in LeftAfter(i) |-> conf[m]]
      BY <1>2, <1>3, <3>2 DEF Without, Restrict
    <3>4. Fits(Without(c, n), group_leave(t, n), refused, intended)
      BY <1>2, <1>3, <2>2, LeaveFits
    <3>5. Leaves(t, group_leave(t, n), n)
      BY <1>2, <2>2, LeaveOK DEF Fits
    <3>6. /\ Active(group_leave(t, n)) \subseteq Active(g_chats)
          /\ \A j \in Active(group_leave(t, n)) : group_leave(t, n)[j] = g_chats[j]
      BY <1>2, <3>5 DEF Leaves
    <3> QED
      BY <3>1, <3>3, <3>4, <3>6 DEF TurnOK
  <2> QED
    BY <2>5, <2>6
<1> QED
  BY <1>6, <1>7

\* All turns: what is left in the end.
LEMMA PurgeOK ==
    ASSUME GInv
    PROVE  TurnOK(PurgeTurns[Len(g_chats)], Len(g_chats))
<1> DEFINE N == Len(g_chats)
           S == {i \in 0 .. N : TurnOK(PurgeTurns[i], i)}
<1>1. g_chats \in Seq(Slot) /\ N \in Nat /\ DOMAIN g_chats = 1 .. N
  BY DEF GInv, Fits
<1>2. /\ PurgeTurns[0] = [conf |-> conf, table |-> g_chats]
      /\ \A i \in 1 .. N : PurgeTurns[i] = PurgeStep(PurgeTurns[i - 1], i)
  BY <1>1, PurgeTurnsDef
<1>3. 0 \in S
  <2>1. \A j \in Active(g_chats) : j > 0
    BY <1>1 DEF Active
  <2>2. LeftAfter(0) = DOMAIN conf
    BY <2>1 DEF LeftAfter, GInv, Fits
  <2>3. conf = [n \in DOMAIN conf |-> conf[n]]
    BY DEF GInv, GroupTypes
  <2>4. TurnOK([conf |-> conf, table |-> g_chats], 0)
    BY <2>2, <2>3 DEF TurnOK, GInv
  <2> QED
    BY <1>1, <1>2, <2>4
<1>4. ASSUME NEW i \in 1 .. N, i - 1 \in S PROVE i \in S
  <2>1. TurnOK(PurgeTurns[i - 1], i - 1)
    BY <1>4
  <2>2. TurnOK(PurgeStep(PurgeTurns[i - 1], i), i)
    BY <2>1, PurgeStepOK
  <2> QED
    BY <1>1, <1>2, <2>2
<1>5. N \in S
  <2> HIDE DEF S, N
  <2> QED
    BY <1>1, <1>3, <1>4, UpTo
<1> QED
  BY <1>5

\* What purge_empty_groups does as a whole.
LEMMA PurgeEffect ==
    ASSUME GInv, purge_empty_groups
    PROVE  LET kept == {n \in DOMAIN conf : n \in refused \/ ~Empty(conf[n])} IN
           /\ conf' = [n \in kept |-> conf[n]]
           /\ Fits(conf', g_chats', refused, intended)
           /\ Active(g_chats') \subseteq Active(g_chats)
           /\ \A j \in Active(g_chats') : g_chats'[j] = g_chats[j]
           /\ intended' = [n \in kept |-> intended[n]]
<1> DEFINE kept == {n \in DOMAIN conf : n \in refused \/ ~Empty(conf[n])}
           after == PurgeTurns[Len(g_chats)]
<1>1. TurnOK(after, Len(g_chats))
  BY PurgeOK
<1>2. conf' = after.conf /\ g_chats' = after.table /\ intended' = Restrict(intended, DOMAIN after.conf)
  BY DEF purge_empty_groups
<1> HIDE DEF after
<1>3. \A j \in Active(g_chats) : ~(j > Len(g_chats))
  <2>1. g_chats \in Seq(Slot)
    BY DEF GInv, Fits
  <2> QED
    BY <2>1 DEF Active
<1>4. LeftAfter(Len(g_chats)) = kept
  BY <1>3 DEF LeftAfter
<1> QED
  BY <1>1, <1>2, <1>4 DEF TurnOK, Restrict

-----------------------------------------------------------------------------
(* Start-up *)

\* The turns of load_conferences exist, and each follows from the one before.
LEMMA LoadTurnsDef ==
    ASSUME NEW cs, NEW N \in Nat, Cardinality(DOMAIN cs) = N
    PROVE  /\ LoadTurns(cs)[0] = [conf |-> cs, table |-> <<>>]
           /\ \A i \in 1 .. N : LoadTurns(cs)[i] = LoadStep(LoadTurns(cs)[i - 1], i - 1)
<1> DEFINE x == [conf |-> cs, table |-> <<>>]
           F(k, g) == [i \in 0 .. k |-> IF i = 0 THEN x ELSE LoadStep(g[i - 1], i - 1)]
           Works(k, g) == g = F(k, g)
           S == {k \in 0 .. N : \E g : Works(k, g)}
<1> HIDE DEF x
<1>1. 0 \in S
  <2>1. Works(0, [i \in 0 .. 0 |-> x])
    OBVIOUS
  <2> HIDE DEF Works
  <2> QED
    BY <2>1
<1>2. ASSUME NEW k \in 1 .. N, k - 1 \in S PROVE k \in S
  <2>1. PICK g : Works(k - 1, g)
    BY <1>2
  <2> DEFINE h == [i \in 0 .. k |-> IF i = k THEN LoadStep(g[k - 1], k - 1) ELSE g[i]]
  <2>2. DOMAIN g = 0 .. k - 1 /\ g[0] = x
    BY <2>1
  <2>3. \A i \in 1 .. k - 1 : g[i] = LoadStep(g[i - 1], i - 1)
    BY <2>1
  <2>4. h = [i \in 0 .. k |-> IF i = 0 THEN x ELSE LoadStep(h[i - 1], i - 1)]
    BY <2>2, <2>3
  <2>5. Works(k, h)
    BY <2>4
  <2> HIDE DEF Works, h
  <2> QED
    BY <2>5
<1>3. N \in S
  <2> HIDE DEF S
  <2> QED
    BY <1>1, <1>2, UpTo
<1>4. PICK g : Works(N, g)
  BY <1>3
<1>5. LoadTurns(cs) = F(N, LoadTurns(cs))
  <2>1. LoadTurns(cs) = CHOOSE f : f = F(N, f)
    BY DEF LoadTurns, x
  <2> HIDE DEF F
  <2> QED
    BY <1>4, <2>1
<1> QED
  BY <1>5 DEF x

\* The table of the first k conferences.
FirstSlots(k) == [j \in 1 .. k |-> Added(j - 1, NoPass)]

\* A table without a hole grows at its end.
LEMMA AppendSlot ==
    ASSUME NEW k \in Nat, \A j \in 1 .. k + 1 : j - 1 \in Numbers
    PROVE  /\ FirstSlots(k) \in Seq(Slot) /\ Len(FirstSlots(k)) = k
           /\ group_add(FirstSlots(k), k, NoPass) = FirstSlots(k + 1)
<1>1. \A j \in 1 .. k + 1 : Added(j - 1, NoPass) \in Slot /\ Added(j - 1, NoPass).active
  BY AddedIsSlot
<1>2. FirstSlots(k) \in Seq(Slot) /\ Len(FirstSlots(k)) = k
  BY <1>1 DEF FirstSlots
<1>3. {i \in 1 .. Len(FirstSlots(k)) : ~FirstSlots(k)[i].active} = {}
  BY <1>1, <1>2 DEF FirstSlots
<1>4. group_add(FirstSlots(k), k, NoPass) = Append(FirstSlots(k), Added(k, NoPass))
  BY <1>3 DEF group_add, SelectInSeq
<1>5. Added(k, NoPass) \in Slot
  <2>1. k + 1 \in 1 .. k + 1 /\ (k + 1) - 1 = k
    OBVIOUS
  <2> QED
    BY <1>1, <2>1
<1>6. Append(FirstSlots(k), Added(k, NoPass)) = FirstSlots(k + 1)
  <2> DEFINE a == Append(FirstSlots(k), Added(k, NoPass))
             b == FirstSlots(k + 1)
  <2>1. a \in Seq(Slot) /\ Len(a) = k + 1
    BY <1>2, <1>5
  <2>2. b \in Seq(Slot) /\ Len(b) = k + 1
    BY <1>1 DEF FirstSlots
  <2>3. \A j \in 1 .. k + 1 : a[j] = b[j]
    BY <1>2, <1>5 DEF FirstSlots
  <2> HIDE DEF a, b
  <2>4. a = b
    BY <2>1, <2>2, <2>3, SeqEqual
  <2> QED
    BY <2>4 DEF a, b
<1> QED
  BY <1>2, <1>4, <1>6

\* After turn i the first conferences have a slot each, as many as there is room
\* for, and the rest of the first i are deleted.
LoadedAfter(cs, i) ==
    [conf  |-> [n \in {m \in DOMAIN cs : m < MAX_NUM_GROUPS \/ m >= i} |-> cs[n]],
     table |-> FirstSlots(IF i <= MAX_NUM_GROUPS THEN i ELSE MAX_NUM_GROUPS)]

\* One turn of the loop of load_conferences.
LEMMA LoadStepOK ==
    ASSUME NEW N \in 0 .. MaxConferences, NEW cs, DOMAIN cs = 0 .. N - 1, NEW i \in 1 .. N
    PROVE  LoadStep(LoadedAfter(cs, i - 1), i - 1) = LoadedAfter(cs, i)
<1> DEFINE M == MAX_NUM_GROUPS
           before == LoadedAfter(cs, i - 1)
           D(k) == {m \in DOMAIN cs : m < M \/ m >= k}
<1>1. M \in Nat /\ MaxConferences \in Nat /\ i \in Nat
  BY GroupAssumption
<1>2. before.conf = [n \in D(i - 1) |-> cs[n]]
      /\ before.table = FirstSlots(IF i - 1 <= M THEN i - 1 ELSE M)
  BY DEF LoadedAfter
<1> HIDE DEF before
<1>3. CASE i - 1 >= M
  <2>1. before.table = FirstSlots(M) /\ Len(before.table) = M
    <3>1. (IF i - 1 <= M THEN i - 1 ELSE M) = M
      BY <1>1, <1>3
    <3>2. \A j \in 1 .. M + 1 : j - 1 \in Numbers
      BY <1>1, <1>3 DEF Numbers
    <3> QED
      BY <1>1, <1>2, <3>1, <3>2, AppendSlot
  <2>2. Full(before.table)
    BY <1>1, <2>1 DEF Full
  <2>3. D(i - 1) \ {i - 1} = D(i)
    BY <1>1, <1>3
  <2>4. Without(before.conf, i - 1) = [n \in D(i) |-> cs[n]]
    BY <1>2, <2>3 DEF Without, Restrict
  <2>5. (IF i <= M THEN i ELSE M) = M
    BY <1>1, <1>3
  <2> QED
    BY <2>1, <2>2, <2>4, <2>5 DEF LoadStep, LoadedAfter, before
<1>4. CASE i - 1 < M
  <2>1. before.table = FirstSlots(i - 1)
    BY <1>1, <1>2, <1>4
  <2>2. i - 1 \in Nat /\ (i - 1) + 1 = i /\ \A j \in 1 .. (i - 1) + 1 : j - 1 \in Numbers
    BY <1>1 DEF Numbers
  <2>3. /\ Len(before.table) = i - 1
        /\ group_add(before.table, i - 1, NoPass) = FirstSlots(i)
    BY <2>1, <2>2, AppendSlot
  <2>4. ~Full(before.table)
    BY <1>1, <1>4, <2>3 DEF Full
  <2>5. D(i - 1) = D(i)
    BY <1>1, <1>4
  <2>6. (IF i <= M THEN i ELSE M) = i
    BY <1>1, <1>4
  <2> QED
    BY <1>2, <2>3, <2>4, <2>5, <2>6 DEF LoadStep, LoadedAfter, before
<1> QED
  BY <1>1, <1>3, <1>4

\* What load_conferences leaves.
LEMMA LoadOK ==
    ASSUME NEW N \in 0 .. MaxConferences, NEW cs, DOMAIN cs = 0 .. N - 1,
           cs = [n \in DOMAIN cs |-> cs[n]]
    PROVE  load_conferences(cs) = {LoadedAfter(cs, N), [conf |-> cs, table |-> <<>>]}
<1> DEFINE S == {i \in 0 .. N : LoadTurns(cs)[i] = LoadedAfter(cs, i)}
<1>1. N \in Nat /\ MAX_NUM_GROUPS \in Nat
  BY GroupAssumption
<1>2. Cardinality(DOMAIN cs) = N
  <2>1. 0 \in Int /\ N - 1 \in Int
    BY <1>1
  <2>2. Cardinality(0 .. N - 1) = IF 0 > N - 1 THEN 0 ELSE N - 1 - 0 + 1
    BY <2>1, FS_Interval
  <2> QED
    BY <1>1, <2>2
<1>3. /\ LoadTurns(cs)[0] = [conf |-> cs, table |-> <<>>]
      /\ \A i \in 1 .. N : LoadTurns(cs)[i] = LoadStep(LoadTurns(cs)[i - 1], i - 1)
  BY <1>1, <1>2, LoadTurnsDef
<1>4. 0 \in S
  <2>1. {m \in DOMAIN cs : m < MAX_NUM_GROUPS \/ m >= 0} = DOMAIN cs
    BY <1>1
  <2>2. FirstSlots(0) = <<>>
    BY DEF FirstSlots
  <2>3. LoadedAfter(cs, 0) = [conf |-> cs, table |-> <<>>]
    BY <1>1, <2>1, <2>2 DEF LoadedAfter
  <2> QED
    BY <1>1, <1>3, <2>3
<1>5. ASSUME NEW i \in 1 .. N, i - 1 \in S PROVE i \in S
  <2>1. LoadTurns(cs)[i - 1] = LoadedAfter(cs, i - 1)
    BY <1>5
  <2>2. LoadTurns(cs)[i] = LoadedAfter(cs, i)
    BY <1>3, <2>1, LoadStepOK
  <2> QED
    BY <1>1, <2>2
<1>6. N \in S
  <2> HIDE DEF S
  <2> QED
    BY <1>1, <1>4, <1>5, UpTo
<1> QED
  BY <1>2, <1>6 DEF load_conferences

\* Start reads conferences that nobody is in and lists them.
LEMMA StartOK ==
    ASSUME GInv, ~running, Start
    PROVE  GInv'
<1>0. PICK cs \in SavedConferences : \E now \in load_conferences(cs) :
          /\ conf' = now.conf
          /\ g_chats' = now.table
          /\ refused' = IF now.table = <<>> THEN DOMAIN now.conf ELSE {}
  BY DEF Start
<1>1. PICK now \in load_conferences(cs) :
          /\ conf' = now.conf
          /\ g_chats' = now.table
          /\ refused' = IF now.table = <<>> THEN DOMAIN now.conf ELSE {}
  BY <1>0
<1>2. PICK N \in 0 .. MaxConferences : cs \in [0 .. N - 1 -> {c \in Conference : Empty(c)}]
  BY DEF SavedConferences
<1>3. DOMAIN cs = 0 .. N - 1 /\ cs = [n \in DOMAIN cs |-> cs[n]]
      /\ \A n \in DOMAIN cs : cs[n] \in Conference
  BY <1>2
<1>4. MaxConferences \in Nat /\ MAX_NUM_GROUPS \in Nat \ {0} /\ N \in Nat
  BY GroupAssumption
<1>5. now \in {LoadedAfter(cs, N), [conf |-> cs, table |-> <<>>]}
  BY <1>1, <1>3, LoadOK
<1>6. intended' = [n \in DOMAIN conf' |-> NoPass] /\ UNCHANGED timeVars /\ running' = TRUE
  BY DEF Start
<1>7. DOMAIN conf' \subseteq DOMAIN cs /\ conf' = [n \in DOMAIN conf' |-> cs[n]]
  BY <1>1, <1>3, <1>5 DEF LoadedAfter
<1>8. DOMAIN conf' \subseteq Numbers
  BY <1>3, <1>4, <1>7 DEF Numbers
<1>9. GroupTypes'
  <2>1. refused' \subseteq DOMAIN conf'
    BY <1>1
  <2>2. conf' \in [DOMAIN conf' -> Conference]
    BY <1>3, <1>7
  <2> QED
    BY <1>6, <2>1, <2>2 DEF GroupTypes, GInv, timeVars
<1>10. NobodyLost'
  BY <1>6 DEF GInv, NobodyLost, timeVars
<1>11. CASE now.table = <<>>
  <2>1. g_chats' = <<>> /\ refused' = DOMAIN conf'
    BY <1>1, <1>11
  <2>2. <<>> \in Seq(Slot) /\ Len(<<>>) = 0 /\ Active(<<>>) = {}
    BY DEF Active
  <2> QED
    BY <1>4, <1>6, <1>8, <1>9, <1>10, <2>1, <2>2 DEF GInv, Fits, Distinct, EndsActive
<1>12. CASE now.table # <<>>
  <2> DEFINE k == IF N <= MAX_NUM_GROUPS THEN N ELSE MAX_NUM_GROUPS
  <2>1. now = LoadedAfter(cs, N)
    BY <1>5, <1>12
  <2>2. k \in Nat /\ k <= MAX_NUM_GROUPS /\ k <= N /\ (k = N \/ k = MAX_NUM_GROUPS)
    BY <1>4
  <2> HIDE DEF k
  <2>3. g_chats' = FirstSlots(k) /\ refused' = {} /\ DOMAIN conf' = 0 .. k - 1
    BY <1>1, <1>3, <1>4, <1>12, <2>1, <2>2 DEF LoadedAfter, k
  <2>4. \A j \in 1 .. k : Added(j - 1, NoPass) \in Slot /\ Added(j - 1, NoPass).active
        /\ Added(j - 1, NoPass).groupnum = j - 1 /\ Added(j - 1, NoPass).password = NoPass
        /\ Added(j - 1, NoPass).title = NoTitle
    BY <1>4, <2>2, AddedIsSlot DEF Numbers
  <2>5. /\ g_chats' \in Seq(Slot) /\ Len(g_chats') = k
        /\ \A j \in 1 .. k : g_chats'[j] = Added(j - 1, NoPass)
    BY <2>2, <2>3, <2>4 DEF FirstSlots
  <2>6. Active(g_chats') = 1 .. k
    BY <2>4, <2>5 DEF Active
  <2>7. Distinct(g_chats') /\ EndsActive(g_chats')
    BY <2>2, <2>4, <2>5, <2>6 DEF Distinct, EndsActive
  <2>8. \A j \in 1 .. k : j - 1 \in 0 .. k - 1
    BY <2>2
  <2>9. \A n \in 0 .. k - 1 : n + 1 \in 1 .. k /\ (n + 1) - 1 = n
    BY <2>2
  <2>10. Fits(conf', g_chats', refused', intended')
    <3>1. \A i \in 1 .. k : /\ g_chats'[i].groupnum = i - 1 /\ i - 1 \in DOMAIN conf'
                            /\ g_chats'[i].password = intended'[i - 1]
                            /\ g_chats'[i].title = NoTitle
      BY <1>6, <2>3, <2>4, <2>5, <2>8
    <3>2. \A n \in DOMAIN conf' : n + 1 \in Active(g_chats') /\ g_chats'[n + 1].groupnum = n
      BY <2>3, <2>6, <2>9, <3>1
    <3>3. DOMAIN conf' \subseteq Numbers \cap DOMAIN intended'
      BY <1>6, <1>8
    <3> QED
      BY <2>2, <2>3, <2>5, <2>6, <2>7, <3>1, <3>2, <3>3 DEF Fits
  <2> QED
    BY <1>9, <1>10, <2>10 DEF GInv
<1> QED
  BY <1>11, <1>12

-----------------------------------------------------------------------------
(* The steps *)

\* A conference that toxcore gets, together with its slot or not at all.
LEMMA NewGroupOK ==
    ASSUME GInv, CanCreate, NEW x \in Conference, \A a \in Members : x.who[a] # "lost",
           NEW p \in Passwords \cup {NoPass}, NewGroup(x, p), UNCHANGED <<timeVars, running>>
    PROVE  GInv'
<1>1. CASE Full(g_chats)
  BY <1>1 DEF NewGroup, GInv, GroupTypes, NobodyLost, Anyone, timeVars
<1>2. CASE ~Full(g_chats)
  <2> DEFINE n == NewNumber
  <2>1. n \in Numbers \ DOMAIN conf
    BY NewNumberOK
  <2>2. /\ conf' = With(conf, n, x) /\ g_chats' = group_add(g_chats, n, p)
        /\ intended' = With(intended, n, p) /\ refused' = refused
    BY <1>2 DEF NewGroup
  <2> HIDE DEF n
  <2>3. refused \in SUBSET Numbers /\ n \notin refused
    BY <2>1 DEF GInv, GroupTypes, Fits
  <2>4. Fits(conf', g_chats', refused', intended')
    BY <1>2, <2>1, <2>2, <2>3, AddFits DEF GInv
  <2>5. GroupTypes'
    BY <2>2 DEF GInv, GroupTypes, timeVars, With
  <2>6. NobodyLost'
    BY <2>2 DEF GInv, NobodyLost, Anyone, timeVars, With
  <2> QED
    BY <2>4, <2>5, <2>6 DEF GInv
<1> QED
  BY <1>1, <1>2

\* A conference nobody has joined yet, and one with any set of members.
LEMMA UnattendedType ==
    /\ Unattended \in Conference /\ \A a \in Members : Unattended.who[a] # "lost"
    /\ \A S \in SUBSET Members :
          LET x == [Unattended EXCEPT !.who = [a \in Members |-> IF a \in S THEN "in" ELSE "out"]]
          IN  x \in Conference /\ \A a \in Members : x.who[a] # "lost"
  BY DEF Unattended, Conference, Status

\* A conference whose password was refused stays without a slot.
LEMMA TooLongOK ==
    ASSUME GInv, cmd_group_TooLong, UNCHANGED running
    PROVE  GInv'
<1> DEFINE n == NewNumber
<1>1. n \in Numbers \ DOMAIN conf
  BY NewNumberOK DEF cmd_group_TooLong
<1>2. /\ conf' = With(conf, n, Unattended) /\ g_chats' = g_chats
      /\ intended' = With(intended, n, NoPass) /\ refused' = refused \cup {n}
      /\ UNCHANGED timeVars
  BY DEF cmd_group_TooLong
<1> HIDE DEF n
<1>3. refused \in SUBSET DOMAIN conf
  BY DEF GInv, GroupTypes
<1>4. Fits(conf', g_chats', refused', intended')
  BY <1>1, <1>2, <1>3, RefuseFits DEF GInv
<1>5. GroupTypes'
  BY <1>2, UnattendedType DEF GInv, GroupTypes, timeVars, With
<1>6. NobodyLost'
  BY <1>2, UnattendedType DEF GInv, NobodyLost, Anyone, timeVars, With
<1> QED
  BY <1>4, <1>5, <1>6 DEF GInv

\* /leave.
LEMMA LeaveStepOK ==
    ASSUME GInv, NEW n \in Numbers, cmd_leave(n), UNCHANGED running
    PROVE  GInv'
<1>1. /\ n \in DOMAIN conf /\ conf' = Without(conf, n) /\ g_chats' = group_leave(g_chats, n)
      /\ intended' = Without(intended, n) /\ refused' = refused \ {n} /\ UNCHANGED timeVars
  BY DEF cmd_leave
<1>2. \A m \in DOMAIN conf \ {n} : m \in DOMAIN intended' /\ intended'[m] = intended[m]
  BY <1>1 DEF GInv, GroupTypes, Without, Restrict
<1>3. Fits(conf', g_chats', refused', intended')
  BY <1>1, <1>2, LeaveFits DEF GInv
<1>4. GroupTypes'
  BY <1>1 DEF GInv, GroupTypes, timeVars, Without, Restrict
<1>5. NobodyLost'
  BY <1>1 DEF GInv, NobodyLost, Anyone, timeVars, Without, Restrict
<1> QED
  BY <1>3, <1>4, <1>5 DEF GInv

\* /passwd.
LEMMA PasswdOK ==
    ASSUME GInv, NEW n \in Numbers, NEW p \in Passwords \cup {NoPass, TooLong},
           cmd_passwd(n, p), UNCHANGED running
    PROVE  GInv'
<1> DEFINE i == group_index(g_chats, n)
<1>1. /\ i # 0 /\ p \in Passwords \cup {NoPass}
      /\ g_chats' = [g_chats EXCEPT ![i].password = p]
      /\ intended' = [intended EXCEPT ![n] = p] /\ UNCHANGED <<conf, refused, timeVars>>
  BY DEF cmd_passwd
<1>2. g_chats \in Seq(Slot) /\ DOMAIN g_chats = 1 .. Len(g_chats) /\ Distinct(g_chats)
  BY DEF GInv, Fits
<1>3. i \in Active(g_chats) /\ g_chats[i].groupnum = n
  BY <1>1, <1>2, IndexOK
<1> HIDE DEF i
<1>4. i \in DOMAIN g_chats /\ \A j \in DOMAIN g_chats : g_chats[j] \in Slot
  BY <1>2, <1>3 DEF Active
<1>5. [g_chats[i] EXCEPT !.password = p] \in Slot
  BY <1>1, <1>4 DEF Slot
<1>6. /\ g_chats' \in Seq(Slot) /\ Len(g_chats') = Len(g_chats)
      /\ \A j \in DOMAIN g_chats :
            g_chats'[j] = IF j = i THEN [g_chats[i] EXCEPT !.password = p] ELSE g_chats[j]
  BY <1>1, <1>2, <1>4, <1>5
<1>7. \A j \in DOMAIN g_chats : /\ g_chats'[j].active = g_chats[j].active
                               /\ g_chats'[j].groupnum = g_chats[j].groupnum
                               /\ g_chats'[j].title = g_chats[j].title
                               /\ g_chats'[j].password = IF j = i THEN p ELSE g_chats[j].password
  BY <1>4, <1>6 DEF Slot
<1>8. n \in DOMAIN conf /\ DOMAIN intended = DOMAIN conf
  BY <1>3 DEF GInv, GroupTypes, Fits
<1>9. \A j \in Active(g_chats) : j # i => g_chats[j].groupnum # n
  BY <1>2, <1>3 DEF Distinct
<1>10. \A j \in Active(g_chats) :
         /\ j \in DOMAIN g_chats /\ g_chats[j].groupnum \in DOMAIN conf
         /\ g_chats[j].password = intended[g_chats[j].groupnum]
         /\ g_chats[j].title \in {NoTitle, conf[g_chats[j].groupnum].title}
  BY DEF GInv, Fits, Active
<1>11. \A j \in Active(g_chats) :
         /\ g_chats'[j].password = intended'[g_chats[j].groupnum]
         /\ g_chats'[j].title \in {NoTitle, conf[g_chats[j].groupnum].title}
  BY <1>1, <1>3, <1>7, <1>8, <1>9, <1>10
<1>12. Fits(conf, g_chats', refused, intended')
  <2>1. Fits(conf, g_chats, refused, intended)
    BY DEF GInv
  <2>2. DOMAIN conf \subseteq DOMAIN intended'
    BY <1>1, <1>8
  <2> QED
    BY <1>6, <1>7, <1>11, <2>1, <2>2, ChangeFits
<1>13. GroupTypes'
  BY <1>1 DEF GInv, GroupTypes, timeVars
<1>14. NobodyLost'
  BY <1>1 DEF GInv, NobodyLost, Anyone, timeVars
<1> QED
  BY <1>1, <1>12, <1>13, <1>14 DEF GInv

\* A title that a member sets.
LEMMA RetitledOK ==
    ASSUME GInv, NEW n \in DOMAIN conf, NEW x \in Titles, Retitled(n, x), UNCHANGED running
    PROVE  GInv'
<1> DEFINE i == group_index(g_chats, n)
<1>1. /\ conf' = [conf EXCEPT ![n].title = x]
      /\ g_chats' = IF i = 0 THEN g_chats ELSE [g_chats EXCEPT ![i].title = x]
      /\ UNCHANGED <<intended, refused, timeVars>>
  BY DEF Retitled
<1>2. g_chats \in Seq(Slot) /\ DOMAIN g_chats = 1 .. Len(g_chats) /\ Distinct(g_chats)
  BY DEF GInv, Fits
<1>3. \/ i = 0 /\ \A j \in Active(g_chats) : g_chats[j].groupnum # n
      \/ i \in Active(g_chats) /\ g_chats[i].groupnum = n
  BY <1>2, IndexOK
<1> HIDE DEF i
<1>4. \A j \in DOMAIN g_chats : g_chats[j] \in Slot /\ j # 0
  BY <1>2
<1>5. i # 0 => i \in DOMAIN g_chats /\ [g_chats[i] EXCEPT !.title = x] \in Slot
  BY <1>3, <1>4 DEF Slot, Active
<1>6. /\ g_chats' \in Seq(Slot) /\ Len(g_chats') = Len(g_chats)
      /\ \A j \in DOMAIN g_chats :
            g_chats'[j] = IF j = i THEN [g_chats[i] EXCEPT !.title = x] ELSE g_chats[j]
  <2>1. CASE i = 0
    BY <1>1, <1>2, <1>4, <2>1
  <2>2. CASE i # 0
    BY <1>1, <1>2, <1>5, <2>2
  <2> QED
    BY <2>1, <2>2
<1>7. \A j \in DOMAIN g_chats : /\ g_chats'[j].active = g_chats[j].active
                               /\ g_chats'[j].groupnum = g_chats[j].groupnum
                               /\ g_chats'[j].password = g_chats[j].password
                               /\ g_chats'[j].title = IF j = i THEN x ELSE g_chats[j].title
  BY <1>4, <1>6 DEF Slot
<1>8. conf[n] \in Conference /\ [conf[n] EXCEPT !.title = x] \in Conference
      /\ [conf[n] EXCEPT !.title = x].who = conf[n].who /\ [conf[n] EXCEPT !.title = x].title = x
  BY DEF GInv, GroupTypes, Conference
<1>9. conf' = [m \in DOMAIN conf |-> IF m = n THEN [conf[n] EXCEPT !.title = x] ELSE conf[m]]
  BY <1>1 DEF GInv, GroupTypes
<1>10. \A j \in Active(g_chats) : j # i => g_chats[j].groupnum # n
  BY <1>2, <1>3 DEF Distinct
<1>11. \A j \in Active(g_chats) :
         /\ j \in DOMAIN g_chats /\ g_chats[j].groupnum \in DOMAIN conf
         /\ g_chats[j].password = intended[g_chats[j].groupnum]
         /\ g_chats[j].title \in {NoTitle, conf[g_chats[j].groupnum].title}
  BY DEF GInv, Fits, Active
<1>12. \A j \in Active(g_chats) :
         /\ g_chats'[j].password = intended[g_chats[j].groupnum]
         /\ g_chats'[j].title \in {NoTitle, conf'[g_chats[j].groupnum].title}
  <2> SUFFICES ASSUME NEW j \in Active(g_chats)
               PROVE  /\ g_chats'[j].password = intended[g_chats[j].groupnum]
                      /\ g_chats'[j].title \in {NoTitle, conf'[g_chats[j].groupnum].title}
    OBVIOUS
  <2>1. j \in DOMAIN g_chats /\ g_chats'[j].password = g_chats[j].password
        /\ g_chats'[j].title = IF j = i THEN x ELSE g_chats[j].title
    BY <1>7, <1>11
  <2>2. CASE j = i
    <3>1. g_chats[j].groupnum = n
      BY <1>3, <1>4, <2>1, <2>2
    <3>2. conf'[n].title = x
      BY <1>8, <1>9
    <3> QED
      BY <1>11, <2>1, <2>2, <3>1, <3>2
  <2>3. CASE j # i
    <3>1. conf'[g_chats[j].groupnum] = conf[g_chats[j].groupnum]
      BY <1>9, <1>10, <1>11, <2>3
    <3> QED
      BY <1>11, <2>1, <2>3, <3>1
  <2> QED
    BY <2>2, <2>3
<1>13. Fits(conf', g_chats', refused, intended)
  <2>1. Fits(conf, g_chats, refused, intended) /\ DOMAIN conf \subseteq DOMAIN intended
    BY DEF GInv, GroupTypes
  <2>2. DOMAIN conf' = DOMAIN conf
    BY <1>9
  <2> QED
    BY <1>6, <1>7, <1>12, <2>1, <2>2, ChangeFits
<1>14. GroupTypes'
  BY <1>1, <1>8, <1>9 DEF GInv, GroupTypes, timeVars
<1>15. NobodyLost'
  BY <1>1, <1>8, <1>9 DEF GInv, NobodyLost, Anyone, timeVars
<1> QED
  BY <1>1, <1>13, <1>14, <1>15 DEF GInv

\* Members come and go: neither titles nor the table change.
LEMMA WhoOK ==
    ASSUME GInv, DOMAIN conf' = DOMAIN conf, conf' \in [DOMAIN conf -> Conference],
           \A n \in DOMAIN conf : conf'[n].title = conf[n].title,
           UNCHANGED <<g_chats, intended, refused>>
    PROVE  Fits(conf, g_chats, refused, intended)'
<1>1. \A j \in Active(g_chats) :
         /\ g_chats[j].groupnum \in DOMAIN conf
         /\ g_chats[j].password = intended[g_chats[j].groupnum]
         /\ g_chats[j].title \in {NoTitle, conf[g_chats[j].groupnum].title}
  BY DEF GInv, Fits
<1>2. Fits(conf, g_chats, refused, intended) /\ g_chats \in Seq(Slot)
      /\ DOMAIN conf \subseteq DOMAIN intended
  BY DEF GInv, Fits
<1>3. Fits(conf', g_chats, refused, intended)
  BY <1>1, <1>2, ChangeFits
<1> QED
  BY <1>3

\* A member joins or leaves.
LEMMA MemberChangesOK ==
    ASSUME GInv, NEW n \in Numbers, NEW a \in Members, MemberChanges(n, a), UNCHANGED running
    PROVE  GInv'
<1>1. PICK s \in {"in", "out"} : conf' = [conf EXCEPT ![n].who[a] = s]
  BY DEF MemberChanges
<1>2. n \in DOMAIN conf /\ UNCHANGED <<g_chats, intended, refused, timeVars>>
  BY DEF MemberChanges
<1>3. conf[n] \in Conference
  BY <1>2 DEF GInv, GroupTypes
<1> DEFINE x == [conf[n] EXCEPT !.who[a] = s]
<1>4. /\ x \in Conference /\ x.title = conf[n].title
      /\ \A b \in Members : x.who[b] = "lost" => conf[n].who[b] = "lost"
  BY <1>3 DEF Conference, Status
<1>5. conf' = [m \in DOMAIN conf |-> IF m = n THEN x ELSE conf[m]]
  BY <1>1, <1>2 DEF GInv, GroupTypes
<1> HIDE DEF x
<1>6. conf' \in [DOMAIN conf -> Conference] /\ DOMAIN conf' = DOMAIN conf
  BY <1>4, <1>5 DEF GInv, GroupTypes
<1>7. Fits(conf, g_chats, refused, intended)'
  BY <1>2, <1>4, <1>5, <1>6, WhoOK
<1>8. GroupTypes'
  BY <1>2, <1>6 DEF GInv, GroupTypes, timeVars
<1>9. NobodyLost'
  BY <1>2, <1>4, <1>5 DEF GInv, NobodyLost, Anyone, timeVars
<1> QED
  BY <1>7, <1>8, <1>9 DEF GInv

\* The connection goes: the members are out of sight, the groups stay.
LEMMA ConnectionLostOK ==
    ASSUME GInv, ConnectionLost, UNCHANGED running
    PROVE  GInv'
<1>1. /\ connected' = FALSE /\ conf' = AllLost(conf)
      /\ UNCHANGED <<g_chats, settled, interval_over, intended, refused>>
  BY DEF ConnectionLost
<1>2. ASSUME NEW n \in DOMAIN conf
      PROVE  LET x == [conf[n] EXCEPT !.who =
                          [a \in Members |-> IF conf[n].who[a] = "in" THEN "lost" ELSE conf[n].who[a]]]
             IN  x \in Conference /\ x.title = conf[n].title
  <2>1. conf[n] \in Conference
    BY DEF GInv, GroupTypes
  <2> QED
    BY <2>1 DEF Conference, Status
<1>3. /\ conf' \in [DOMAIN conf -> Conference] /\ DOMAIN conf' = DOMAIN conf
      /\ \A n \in DOMAIN conf : conf'[n].title = conf[n].title
  BY <1>1, <1>2 DEF AllLost
<1>4. Fits(conf, g_chats, refused, intended)'
  BY <1>1, <1>3, WhoOK
<1>5. GroupTypes'
  BY <1>1, <1>3 DEF GInv, GroupTypes
<1>6. NobodyLost'
  BY <1>1 DEF GInv, NobodyLost
<1> QED
  BY <1>4, <1>5, <1>6 DEF GInv

\* The purge, with all its turns.
LEMMA PurgeStepsOK ==
    ASSUME GInv, purge_empty_groups, UNCHANGED running
    PROVE  GInv'
<1> DEFINE kept == {n \in DOMAIN conf : n \in refused \/ ~Empty(conf[n])}
<1>1. /\ conf' = [n \in kept |-> conf[n]] /\ Fits(conf', g_chats', refused, intended)
      /\ intended' = [n \in kept |-> intended[n]]
  BY PurgeEffect
<1>2. interval_over' = FALSE /\ UNCHANGED <<connected, settled, refused>>
  BY DEF purge_empty_groups
<1>3. kept \subseteq DOMAIN conf /\ refused \subseteq kept
  BY DEF GInv, GroupTypes
<1> HIDE DEF kept
<1>4. Fits(conf', g_chats', refused', intended')
  <2>1. \A j \in Active(g_chats') : g_chats'[j].groupnum \in kept
    BY <1>1 DEF Fits
  <2> QED
    BY <1>1, <1>2, <2>1 DEF Fits
<1>5. GroupTypes'
  BY <1>1, <1>2, <1>3 DEF GInv, GroupTypes
<1>6. NobodyLost'
  BY <1>1, <1>2, <1>3 DEF GInv, NobodyLost, Anyone
<1> QED
  BY <1>4, <1>5, <1>6 DEF GInv

-----------------------------------------------------------------------------
(* The theorems *)

\* The relay ends: conferences and table are gone.
LEMMA StopOK ==
    ASSUME Stop
    PROVE  GInv'
<1>1. /\ running' = FALSE /\ conf' = <<>> /\ g_chats' = <<>> /\ intended' = <<>> /\ refused' = {}
      /\ connected' = FALSE /\ settled' = FALSE /\ interval_over' = FALSE
  BY DEF Stop
<1>2. <<>> \in Seq(Slot) /\ Len(<<>>) = 0 /\ DOMAIN <<>> = {} /\ Active(<<>>) = {}
  BY DEF Active
<1>3. <<>> \in [{} -> Conference] /\ <<>> \in [{} -> Passwords \cup {NoPass}]
  OBVIOUS
<1>4. Fits(<<>>, <<>>, {}, <<>>)
  BY <1>2, GroupAssumption DEF Fits, Distinct, EndsActive
<1>5. Fits(conf', g_chats', refused', intended')
  BY <1>1, <1>4
<1>6. GroupTypes'
  BY <1>1, <1>2, <1>3 DEF GroupTypes
<1>7. NobodyLost'
  BY <1>1 DEF NobodyLost
<1> QED
  BY <1>5, <1>6, <1>7 DEF GInv

\* The first start.
LEMMA GroupInit ==
    GInit => GInv
<1> SUFFICES ASSUME GInit PROVE GInv
  OBVIOUS
<1>1. /\ running = FALSE /\ conf = <<>> /\ g_chats = <<>> /\ intended = <<>> /\ refused = {}
      /\ connected = FALSE /\ settled = FALSE /\ interval_over = FALSE
  BY DEF GInit
<1>2. <<>> \in Seq(Slot) /\ Len(<<>>) = 0 /\ DOMAIN <<>> = {} /\ Active(<<>>) = {}
  BY DEF Active
<1>3. <<>> \in [{} -> Conference] /\ <<>> \in [{} -> Passwords \cup {NoPass}]
  OBVIOUS
<1>4. Fits(<<>>, <<>>, {}, <<>>)
  BY <1>2, GroupAssumption DEF Fits, Distinct, EndsActive
<1>5. Fits(conf, g_chats, refused, intended)
  BY <1>1, <1>4
<1>6. GroupTypes
  BY <1>1, <1>2, <1>3 DEF GroupTypes
<1>7. NobodyLost
  BY <1>1 DEF NobodyLost
<1> QED
  BY <1>5, <1>6, <1>7 DEF GInv

\* Every step of the running relay.
LEMMA RunningOK ==
    ASSUME GInv, Running, running, UNCHANGED running
    PROVE  GInv'
<1>1. CASE cmd_group
  <2>1. PICK p \in Passwords \cup {NoPass} : NewGroup(Unattended, p)
    BY <1>1 DEF cmd_group
  <2> QED
    BY <1>1, <2>1, NewGroupOK, UnattendedType DEF cmd_group
<1>2. CASE cmd_group_TooLong
  BY <1>2, TooLongOK
<1>3. ASSUME NEW n \in Numbers, cmd_leave(n) PROVE GInv'
  BY <1>3, LeaveStepOK
<1>4. ASSUME NEW n \in Numbers, NEW p \in Passwords \cup {NoPass, TooLong}, cmd_passwd(n, p)
      PROVE  GInv'
  BY <1>4, PasswdOK
<1>5. ASSUME NEW n \in Numbers, NEW x \in Titles,
             cmd_title_set(n, x) \/ cb_group_titlechange(n, x)
      PROVE  GInv'
  BY <1>5, RetitledOK DEF cmd_title_set, cb_group_titlechange
<1>6. ASSUME NEW n \in Numbers, NEW a \in Members, MemberChanges(n, a) PROVE GInv'
  BY <1>6, MemberChangesOK
<1>7. CASE cb_group_invite
  <2>1. PICK S \in SUBSET Members :
            NewGroup([Unattended EXCEPT !.who =
                         [a \in Members |-> IF a \in S THEN "in" ELSE "out"]], NoPass)
    BY <1>7 DEF cb_group_invite
  <2> DEFINE x == [Unattended EXCEPT !.who = [a \in Members |-> IF a \in S THEN "in" ELSE "out"]]
  <2>2. x \in Conference /\ \A a \in Members : x.who[a] # "lost"
    BY UnattendedType
  <2> HIDE DEF x
  <2>3. CanCreate /\ NewGroup(x, NoPass) /\ UNCHANGED <<timeVars, running>>
    BY <1>7, <2>1 DEF cb_group_invite, x
  <2> QED
    BY <2>2, <2>3, NewGroupOK
<1>8. CASE ConnectionLost
  BY <1>8, ConnectionLostOK
<1>9. CASE ConnectionMade \/ IntervalPasses \/ ConnectTimeoutPasses
  <2>1. UNCHANGED <<conf, g_chats, intended, refused, running>>
        /\ connected' \in BOOLEAN /\ settled' \in BOOLEAN /\ interval_over' \in BOOLEAN
    BY <1>9 DEF ConnectionMade, IntervalPasses, ConnectTimeoutPasses, GInv, GroupTypes
  <2>2. Fits(conf, g_chats, refused, intended)' /\ GroupTypes'
    BY <2>1 DEF GInv, GroupTypes
  <2>3. Anyone("lost")' = Anyone("lost")
    BY <2>1 DEF Anyone
  <2>4. ConnectionMade => NobodyLost'
    BY <2>1 DEF ConnectionMade, NobodyLost
  <2>5. IntervalPasses => NobodyLost'
    BY <2>1, <2>3 DEF IntervalPasses, GInv, NobodyLost
  <2>6. ConnectTimeoutPasses => NobodyLost'
    BY <2>1, <2>3 DEF ConnectTimeoutPasses, GInv, NobodyLost
  <2> QED
    BY <1>9, <2>2, <2>4, <2>5, <2>6 DEF GInv
<1>10. CASE purge_empty_groups
  BY <1>10, PurgeStepsOK
<1> QED
  BY <1>1, <1>2, <1>3, <1>4, <1>5, <1>6, <1>7, <1>8, <1>9, <1>10 DEF Running

\* Every step.
LEMMA GroupStep ==
    GInv /\ [GNext]_groupVars => GInv'
<1> SUFFICES ASSUME GInv, [GNext]_groupVars PROVE GInv'
  OBVIOUS
<1>1. CASE WhileUp(Running)
  BY <1>1, RunningOK DEF WhileUp
<1>2. CASE running /\ Stop
  BY <1>2, StopOK
<1>3. CASE ~running /\ Start
  BY <1>3, StartOK
<1>4. CASE UNCHANGED groupVars
  BY <1>4 DEF groupVars, timeVars, GInv, GroupTypes, NobodyLost, Anyone
<1> QED
  BY <1>1, <1>2, <1>3, <1>4 DEF GNext

\* The group table, the conferences of toxcore and the passwords asked for fit
\* each other in every reachable state.
THEOREM GroupInvariance == GSpec => []GInv
  BY GroupInit, GroupStep, PTL DEF GSpec

\* Table and toxcore agree on which groups there are (groupchats.c,
\* purge_empty_groups, load_conferences).
THEOREM TableCorrect == GSpec => []TableMatchesToxcore
<1>1. GInv => TableMatchesToxcore
  <2> SUFFICES ASSUME GInv PROVE TableMatchesToxcore
    OBVIOUS
  <2>1. Listed = {g_chats[i].groupnum : i \in Active(g_chats)}
    BY DEF Listed, Active
  <2>2. Listed = DOMAIN conf \ refused
    BY <2>1 DEF GInv, Fits
  <2>3. Distinct(g_chats) /\ EndsActive(g_chats) /\ Len(g_chats) <= MAX_NUM_GROUPS
    BY DEF GInv, Fits
  <2> QED
    BY <2>2, <2>3 DEF TableMatchesToxcore, Distinct, EndsActive, Active
<1> QED
  BY <1>1, GroupInvariance, PTL

\* Invitations, messages and titles reach the group that is meant and ask for its
\* own password (cmd_invite, cmd_gmessage, cmd_info).
THEOREM CommandsCorrect == GSpec => []CommandsReachGroup
<1>1. GInv => CommandsReachGroup
  <2> SUFFICES ASSUME GInv PROVE CommandsReachGroup
    OBVIOUS
  <2>1. /\ g_chats \in Seq(Slot) /\ DOMAIN g_chats = 1 .. Len(g_chats)
        /\ \A i \in Active(g_chats) :
              /\ g_chats[i].groupnum \in DOMAIN conf \ refused
              /\ g_chats[i].password = intended[g_chats[i].groupnum]
              /\ g_chats[i].title \in {NoTitle, conf[g_chats[i].groupnum].title}
        /\ \A n \in DOMAIN conf \ refused : \E i \in Active(g_chats) : g_chats[i].groupnum = n
    BY DEF GInv, Fits
  <2>2. ASSUME NEW n
        PROVE  LET i == group_index(g_chats, n) IN
               \/ i = 0 /\ n \notin DOMAIN conf \ refused
               \/ i # 0 /\ i \in Active(g_chats) /\ g_chats[i].groupnum = n /\ n \in DOMAIN conf \ refused
    <3>1. \/ /\ group_index(g_chats, n) = 0
             /\ \A j \in Active(g_chats) : g_chats[j].groupnum # n
          \/ /\ group_index(g_chats, n) \in Active(g_chats)
             /\ g_chats[group_index(g_chats, n)].groupnum = n
      BY <2>1, IndexOK
    <3>2. 0 \notin Active(g_chats)
      BY <2>1 DEF Active
    <3> QED
      BY <2>1, <3>1, <3>2
  <2>3. \A n \in DOMAIN conf : cmd_info(n) \in {NoTitle, conf[n].title}
    BY <2>1, <2>2 DEF cmd_info
  <2>4. \A n \in Numbers : cmd_gmessage(n) = IF n \in DOMAIN conf \ refused THEN "sent"
                                            ELSE "invalid group number"
    BY <2>2 DEF cmd_gmessage
  <2>5. ASSUME NEW n \in Numbers, NEW p \in Passwords \cup {NoPass, TooLong}
        PROVE  cmd_invite(n, p) = IF n \notin DOMAIN conf \ refused THEN "group does not exist"
                                  ELSE IF intended[n] \in {NoPass, p} THEN "invited"
                                  ELSE "invalid password"
    <3>1. CASE group_index(g_chats, n) = 0
      BY <2>2, <3>1 DEF cmd_invite
    <3>2. CASE group_index(g_chats, n) # 0
      <4>1. /\ n \in DOMAIN conf \ refused
            /\ g_chats[group_index(g_chats, n)].password = intended[n]
        BY <2>1, <2>2, <3>2
      <4>2. CASE intended[n] \in {NoPass, p}
        BY <3>2, <4>1, <4>2 DEF cmd_invite
      <4>3. CASE intended[n] \notin {NoPass, p}
        BY <3>2, <4>1, <4>3 DEF cmd_invite
      <4> QED
        BY <4>2, <4>3
    <3> QED
      BY <3>1, <3>2
  <2> QED
    BY <2>3, <2>4, <2>5 DEF CommandsReachGroup
<1> QED
  BY <1>1, GroupInvariance, PTL

\* A purge removes the listed groups without company and nothing else, although
\* it shortens the table it walks over (purge_empty_groups).
THEOREM PurgeCorrect == GSpec => PurgeIsExact
<1> DEFINE kept == {n \in DOMAIN conf : n \in refused \/ ~Empty(conf[n])}
           Exact == purge_empty_groups =>
                        /\ conf' = Restrict(conf, kept)
                        /\ Listed' = kept \ refused
                        /\ \A i \in DOMAIN g_chats' : g_chats'[i].active => g_chats'[i] = g_chats[i]
<1>1. GInv /\ [GNext]_groupVars => [Exact]_groupVars
  <2> SUFFICES ASSUME GInv, purge_empty_groups
               PROVE  /\ conf' = Restrict(conf, kept)
                      /\ Listed' = kept \ refused
                      /\ \A i \in DOMAIN g_chats' : g_chats'[i].active => g_chats'[i] = g_chats[i]
    OBVIOUS
  <2>1. /\ conf' = [n \in kept |-> conf[n]] /\ Fits(conf', g_chats', refused, intended)
        /\ \A j \in Active(g_chats') : g_chats'[j] = g_chats[j]
    BY PurgeEffect
  <2>2. Listed' = {g_chats'[i].groupnum : i \in Active(g_chats')}
    BY DEF Listed, Active
  <2> HIDE DEF kept, Exact
  <2>3. Listed' = DOMAIN conf' \ refused
    BY <2>1, <2>2 DEF Fits
  <2> QED
    BY <2>1, <2>3 DEF Restrict, Active
<1>2. PurgeIsExact <=> [][Exact]_groupVars
  BY DEF PurgeIsExact
<1> HIDE DEF Exact
<1> QED
  BY <1>1, <1>2, GroupInvariance, PTL DEF GSpec

\* Nobody is purged because of our own outage (check_group_purge,
\* cb_self_connection_change).
THEOREM OutageHarmless == GSpec => OutageSparesGroups
<1> DEFINE Spared == purge_empty_groups =>
               \A n \in DOMAIN conf : (\E a \in Members : conf[n].who[a] = "lost") => n \in DOMAIN conf'
<1>1. GInv /\ [GNext]_groupVars => [Spared]_groupVars
  BY DEF GInv, NobodyLost, Anyone, purge_empty_groups, check_group_purge
<1>2. OutageSparesGroups <=> [][Spared]_groupVars
  BY DEF OutageSparesGroups
<1> HIDE DEF Spared
<1> QED
  BY <1>1, <1>2, GroupInvariance, PTL DEF GSpec
=============================================================================
