------------------------- MODULE DurableQueueProofs -------------------------
(***************************************************************************)
(* Proofs about the mirror of the queue on disk: whatever system call      *)
(* fails and wherever the process is killed or the power goes, the file is *)
(* never torn, a clean flag means that it mirrors the queue, and a message *)
(* that was saved is not lost.                                             *)
(***************************************************************************)
EXTENDS DurableQueue, MsgQueueProofs, SequenceTheorems

-----------------------------------------------------------------------------
(* The walk around the ring *)

\* How many steps a walk that starts at h takes to get to s.
Steps(h, s) == (s - h) % MQ_CAPACITY

\* The walk goes up to the end of the ring and on from its start.
LEMMA StepsDef ==
    ASSUME NEW h \in Slots, NEW s \in Slots
    PROVE  Steps(h, s) = IF s >= h THEN s - h ELSE (s - h) + MQ_CAPACITY
<1>1. MQ_CAPACITY \in Nat /\ MQ_CAPACITY > 0 /\ h \in Int /\ s \in Int
      /\ 0 <= h /\ h < MQ_CAPACITY /\ 0 <= s /\ s < MQ_CAPACITY
  BY CapacityAssumption DEF Slots
<1> QED
  BY <1>1 DEF Steps

\* Different slots are met at different times.
LEMMA StepsDiffer ==
    ASSUME NEW h \in Slots, NEW s \in Slots, NEW t \in Slots, s # t
    PROVE  Steps(h, s) \in Nat /\ (Steps(h, s) < Steps(h, t) \/ Steps(h, t) < Steps(h, s))
BY StepsDef, CapacityAssumption DEF Slots

\* How many slots of S are met before s.
Rank(S, h, s) == Cardinality({t \in S : Steps(h, t) < Steps(h, s)})

\* The slots of a set are met one after the other: each has a rank of its own,
\* and each rank is that of a slot.
LEMMA RankBijective ==
    ASSUME NEW S \in SUBSET Slots, NEW h \in Slots
    PROVE  /\ \A s \in S : Rank(S, h, s) \in 0 .. Cardinality(S) - 1
           /\ \A s, t \in S : Rank(S, h, s) = Rank(S, h, t) => s = t
           /\ \A i \in 0 .. Cardinality(S) - 1 : \E s \in S : Rank(S, h, s) = i
<1> DEFINE Before(s) == {t \in S : Steps(h, t) < Steps(h, s)}
<1>1. IsFiniteSet(S) /\ Cardinality(S) \in Nat
  BY SlotSets
<1>2. \A s \in S : Steps(h, s) \in Nat
  BY StepsDef, CapacityAssumption DEF Slots
<1>3. ASSUME NEW s \in S
      PROVE  IsFiniteSet(Before(s)) /\ Rank(S, h, s) = Cardinality(Before(s))
             /\ Rank(S, h, s) \in Nat
  <2>1. Before(s) \in SUBSET Slots
    OBVIOUS
  <2> QED
    BY <2>1, SlotSets DEF Rank
<1>4. ASSUME NEW s \in S
      PROVE  Rank(S, h, s) \in 0 .. Cardinality(S) - 1
  <2>1. Before(s) \subseteq S \ {s}
    BY <1>2
  <2>2. IsFiniteSet(S \ {s}) /\ Cardinality(S \ {s}) = Cardinality(S) - 1
    BY <1>1, FS_RemoveElement
  <2>3. Cardinality(Before(s)) <= Cardinality(S \ {s})
    BY <2>1, <2>2, FS_Subset
  <2> QED
    BY <1>1, <1>3, <2>2, <2>3
<1>5. ASSUME NEW s \in S, NEW t \in S, Steps(h, s) < Steps(h, t)
      PROVE  Rank(S, h, s) < Rank(S, h, t)
  <2>1. Before(s) \subseteq Before(t) \ {s} /\ s \in Before(t)
    BY <1>2, <1>5
  <2>2. IsFiniteSet(Before(t)) /\ IsFiniteSet(Before(t) \ {s})
        /\ Cardinality(Before(t) \ {s}) = Cardinality(Before(t)) - 1
    <3> HIDE DEF Before
    <3> QED
      BY <1>3, <2>1, FS_RemoveElement
  <2>3. Cardinality(Before(s)) <= Cardinality(Before(t) \ {s})
    <3> HIDE DEF Before
    <3> QED
      BY <2>1, <2>2, FS_Subset
  <2>4. Rank(S, h, s) = Cardinality(Before(s)) /\ Rank(S, h, t) = Cardinality(Before(t))
        /\ Rank(S, h, s) \in Nat /\ Rank(S, h, t) \in Nat
    BY <1>3
  <2> HIDE DEF Before
  <2> QED
    BY <2>2, <2>3, <2>4
<1>6. ASSUME NEW s \in S, NEW t \in S, Rank(S, h, s) = Rank(S, h, t)
      PROVE  s = t
  <2> SUFFICES ASSUME s # t PROVE FALSE
    OBVIOUS
  <2>1. Steps(h, s) < Steps(h, t) \/ Steps(h, t) < Steps(h, s)
    BY StepsDiffer
  <2>2. Rank(S, h, s) < Rank(S, h, t) \/ Rank(S, h, t) < Rank(S, h, s)
    BY <1>5, <2>1
  <2>3. Rank(S, h, s) \in Nat
    BY <1>3
  <2> QED
    BY <1>6, <2>2, <2>3
<1>7. \A i \in 0 .. Cardinality(S) - 1 : \E s \in S : Rank(S, h, s) = i
  <2> DEFINE T == 0 .. Cardinality(S) - 1
             f == [s \in S |-> Rank(S, h, s)]
  <2>1. IsFiniteSet(T) /\ Cardinality(T) = Cardinality(S)
    <3>1. 0 \in Int /\ Cardinality(S) - 1 \in Int
      BY <1>1
    <3>2. IsFiniteSet(0 .. Cardinality(S) - 1)
      BY <3>1, FS_Interval
    <3>3. Cardinality(0 .. Cardinality(S) - 1)
             = IF 0 > Cardinality(S) - 1 THEN 0 ELSE (Cardinality(S) - 1) - 0 + 1
      BY <3>1, FS_Interval
    <3> QED
      BY <1>1, <3>2, <3>3
  <2>2. f \in Injection(S, T)
    BY <1>4, <1>6 DEF Injection, IsInjective
  <2>3. f \in Surjection(S, T)
    BY <2>1, <2>2, FS_Injection
  <2> QED
    BY <2>3 DEF Surjection
<1> QED
  BY <1>4, <1>6, <1>7

\* The i-th slot of S that a walk from h meets.
Met(S, h, i) == CHOOSE s \in S : Rank(S, h, s) = i - 1

\* The walk meets every slot of the set and no other.
LEMMA MetAll ==
    ASSUME NEW S \in SUBSET Slots, NEW h \in Slots
    PROVE  /\ \A i \in 1 .. Cardinality(S) : Met(S, h, i) \in S
           /\ \A s \in S : \E i \in 1 .. Cardinality(S) : Met(S, h, i) = s
<1>1. Cardinality(S) \in Nat
  BY SlotSets
<1>2. ASSUME NEW i \in 1 .. Cardinality(S)
      PROVE  Met(S, h, i) \in S
  <2>1. i - 1 \in 0 .. Cardinality(S) - 1
    BY <1>1
  <2>2. \E s \in S : Rank(S, h, s) = i - 1
    BY <2>1, RankBijective
  <2> QED
    BY <2>2 DEF Met
<1>3. ASSUME NEW s \in S
      PROVE  \E i \in 1 .. Cardinality(S) : Met(S, h, i) = s
  <2> DEFINE i == Rank(S, h, s) + 1
  <2>1. Rank(S, h, s) \in 0 .. Cardinality(S) - 1
    BY RankBijective
  <2>2. i \in 1 .. Cardinality(S) /\ i - 1 = Rank(S, h, s)
    BY <1>1, <2>1
  <2>3. \A t \in S : Rank(S, h, t) = Rank(S, h, s) => t = s
    BY RankBijective
  <2>4. Met(S, h, i) = s
    BY <2>2, <2>3 DEF Met
  <2> QED
    BY <2>2, <2>4
<1> QED
  BY <1>2, <1>3

-----------------------------------------------------------------------------
(* What mq_foreach hands to mq_save_visit *)

\* The records of a ring that is walked from h, n of them.
Records(ring, h, n) ==
    [i \in 1 .. n |-> <<ring[Met(Occupied(ring), h, i)].friendnum,
                        ring[Met(Occupied(ring), h, i)].payload>>]

\* Snapshot as a function of the ring, the head and the count.
LEMMA SnapshotIs ==
    /\ Snapshot = Records(g_ring, g_head, g_count)
    /\ Snapshot' = Records(g_ring', g_head', g_count')
BY DEF Snapshot, Records, Visited, VisitedBefore, Met, Rank, Steps

\* The walk depends on which slots are occupied, and on destination and body of
\* those, but on nothing else.
LEMMA RecordsKept ==
    ASSUME NEW ring, NEW new, NEW h \in Slots,
           Occupied(new) = Occupied(ring),
           \A s \in Occupied(ring) : /\ new[s].friendnum = ring[s].friendnum
                                     /\ new[s].payload = ring[s].payload
    PROVE  Records(new, h, Cardinality(Occupied(ring)))
              = Records(ring, h, Cardinality(Occupied(ring)))
<1>1. Occupied(ring) \in SUBSET Slots
  BY DEF Occupied
<1>2. \A i \in 1 .. Cardinality(Occupied(ring)) : Met(Occupied(ring), h, i) \in Occupied(ring)
  BY <1>1, MetAll
<1> QED
  BY <1>2 DEF Records

\* A record of the file: whom a message is for, and the message.
Record == Friends \X Payloads

\* One record per message, and every message in a record.
LEMMA SnapshotOK ==
    ASSUME IInv
    PROVE  /\ Snapshot \in Seq(Record)
           /\ Len(Snapshot) = g_count
           /\ g_count \in 0 .. MQ_CAPACITY
           /\ {Snapshot[i][2] : i \in 1 .. Len(Snapshot)} = StoredPayloads
<1> DEFINE S == Occupied(g_ring)
           rec(s) == <<g_ring[s].friendnum, g_ring[s].payload>>
<1>1. S \in SUBSET Slots /\ g_head \in Slots /\ g_count = Cardinality(S)
  BY DEF IInv, RingOK, Counted, Occupied
<1>2. g_count \in 0 .. MQ_CAPACITY
  BY <1>1, SlotSets
<1>3. \A s \in S : g_ring[s].friendnum \in Friends /\ g_ring[s].payload \in Payloads
  BY DEF IInv, RingOK, EntriesConsistent, EntryConsistent, Occupied, Entry
<1>4. Snapshot = [i \in 1 .. g_count |-> rec(Met(S, g_head, i))]
  BY SnapshotIs DEF Records
<1>5. \A i \in 1 .. g_count : Met(S, g_head, i) \in S
  BY <1>1, MetAll
<1>6. \A i \in 1 .. g_count : Snapshot[i] \in Record /\ Snapshot[i][2] = g_ring[Met(S, g_head, i)].payload
  BY <1>3, <1>4, <1>5 DEF Record
<1>7. Snapshot \in Seq(Record) /\ Len(Snapshot) = g_count
  <2>1. g_count \in Nat /\ Snapshot \in [1 .. g_count -> Record]
    BY <1>2, <1>4, <1>6, CapacityAssumption
  <2> HIDE DEF S, rec
  <2>2. Snapshot \in Seq(Record)
    BY <2>1, SeqDef
  <2>3. DOMAIN Snapshot = 1 .. g_count
    BY <2>1
  <2> QED
    BY <2>1, <2>2, <2>3, LenProperties
<1>8. \A s \in S : \E i \in 1 .. g_count : Met(S, g_head, i) = s
  BY <1>1, MetAll
<1> QED
  BY <1>2, <1>5, <1>6, <1>7, <1>8 DEF StoredPayloads

-----------------------------------------------------------------------------
(* One lemma per way of changing the ring *)

\* A queue that is read back is a queue: mq_persist_load enqueues the records
\* one after the other from slot 0 on.
LEMMA RestoredOK ==
    ASSUME NEW recs \in Seq(Record), Len(recs) <= MQ_CAPACITY, Restored(recs)
    PROVE  /\ IInv'
           /\ StoredPayloads' = {recs[i][2] : i \in 1 .. Len(recs)}
           /\ recs = <<>> => Snapshot' = <<>>
<1> DEFINE n == Len(recs)
<1> USE CapacityAssumption
<1>1. n \in Nat /\ n <= MQ_CAPACITY /\ MQ_CAPACITY \in Nat /\ MQ_CAPACITY > 0
      /\ \A i \in 1 .. n : recs[i][1] \in Friends /\ recs[i][2] \in Payloads
  BY DEF Record
<1>2. ASSUME NEW s \in Slots, s < n
      PROVE  /\ g_ring'[s] = PendingEntry(recs[s + 1][1], recs[s + 1][2])
             /\ s + 1 \in 1 .. n
             /\ g_ring'[s] \in Entry
             /\ EntryConsistent(g_ring'[s])
             /\ g_ring'[s].state = "PENDING"
             /\ g_ring'[s].payload = recs[s + 1][2]
  <2>1. g_ring'[s] = PendingEntry(recs[s + 1][1], recs[s + 1][2]) /\ s + 1 \in 1 .. n
    BY <1>1, <1>2 DEF Restored, Slots
  <2>2. recs[s + 1][1] \in Friends /\ recs[s + 1][2] \in Payloads
    BY <1>1, <2>1
  <2>3. g_ring'[s] \in Entry /\ EntryConsistent(g_ring'[s])
    BY <2>1, <2>2, EntryTypes, EntryFields
  <2> QED
    BY <2>1, <2>3 DEF PendingEntry
<1>3. ASSUME NEW s \in Slots, ~(s < n)
      PROVE  /\ g_ring'[s] = FreeEntry
             /\ g_ring'[s] \in Entry
             /\ EntryConsistent(g_ring'[s])
             /\ g_ring'[s].state = "FREE"
  <2>1. g_ring'[s] = FreeEntry
    BY <1>3 DEF Restored
  <2> QED
    BY <2>1, EntryTypes, EntryFields DEF FreeEntry
<1>4. Occupied(g_ring') = 0 .. n - 1 /\ InFlight(g_ring') = {}
  <2>1. \A s \in Slots : s < n => g_ring'[s].state = "PENDING"
    BY <1>2
  <2>2. \A s \in Slots : ~(s < n) => g_ring'[s].state = "FREE"
    BY <1>3
  <2>3. \A s : s \in 0 .. n - 1 <=> s \in Slots /\ s < n
    BY <1>1 DEF Slots
  <2> QED
    BY <2>1, <2>2, <2>3 DEF Occupied, InFlight
<1>5. RingOK'
  <2>1. g_ring' \in [Slots -> Entry]
    <3>1. \A s \in Slots : g_ring'[s] \in Entry
      BY <1>2, <1>3
    <3>2. g_ring' = [s \in Slots |-> g_ring'[s]]
      BY DEF Restored
    <3> QED
      BY <3>1, <3>2
  <2>2. g_head' \in Slots /\ g_tail' \in Slots
    BY <1>1 DEF Restored, Slots
  <2> QED
    BY <2>1, <2>2 DEF RingOK
<1>6. Counted'
  <2>1. 0 \in Int /\ n - 1 \in Int
    BY <1>1
  <2>2. Cardinality(0 .. n - 1) = IF 0 > n - 1 THEN 0 ELSE (n - 1) - 0 + 1
    BY <2>1, FS_Interval
  <2>3. Cardinality(0 .. n - 1) = n
    BY <1>1, <2>2
  <2> QED
    BY <1>4, <2>3, FS_EmptySet DEF Counted, Restored
<1>7. HeadIsOccupied'
  <2>1. g_count' = n /\ g_head' = 0 /\ g_tail' = n % MQ_CAPACITY
    BY DEF Restored
  <2>2. n = 0 => n % MQ_CAPACITY = 0
    BY <1>1
  <2>3. n # 0 => 0 \in Occupied(g_ring')
    BY <1>1, <1>4
  <2> QED
    BY <2>1, <2>2, <2>3 DEF HeadIsOccupied
<1>8. EntriesConsistent'
  BY <1>2, <1>3 DEF EntriesConsistent
<1>9. StoredPayloads' = {recs[i][2] : i \in 1 .. n}
  <2>1. StoredPayloads' = {g_ring'[s].payload : s \in 0 .. n - 1}
    BY <1>4 DEF StoredPayloads
  <2>2. \A s \in 0 .. n - 1 : g_ring'[s].payload = recs[s + 1][2] /\ s + 1 \in 1 .. n
    BY <1>1, <1>2 DEF Slots
  <2>3. ASSUME NEW i \in 1 .. n
        PROVE  \E s \in 0 .. n - 1 : g_ring'[s].payload = recs[i][2]
    <3>1. i - 1 \in 0 .. n - 1 /\ (i - 1) + 1 = i
      BY <1>1
    <3> QED
      BY <2>2, <3>1
  <2>4. \A p \in StoredPayloads' : \E i \in 1 .. n : p = recs[i][2]
    BY <2>1, <2>2
  <2>5. \A i \in 1 .. n : recs[i][2] \in StoredPayloads'
    BY <2>1, <2>3
  <2> HIDE DEF n
  <2> QED
    BY <2>4, <2>5
<1>10. recs = <<>> => Snapshot' = <<>>
  <2>1. g_count' = n
    BY DEF Restored
  <2>2. recs = <<>> => 1 .. g_count' = {}
    BY <2>1
  <2> QED
    BY <2>2, SnapshotIs DEF Records
<1> QED
  BY <1>5, <1>6, <1>7, <1>8, <1>9, <1>10 DEF IInv

\* The head stays where it is as long as its slot is occupied.
LEMMA HeadStays ==
    ASSUME IInv, mq_advance_head, UNCHANGED g_count, UNCHANGED g_tail,
           Occupied(g_ring') = Occupied(g_ring)
    PROVE  g_head' = g_head
<1>1. g_head \in Slots
  BY DEF IInv, RingOK
<1>2. CASE g_count = 0
  BY <1>2 DEF IInv, HeadIsOccupied, mq_advance_head
<1>3. CASE g_count # 0
  <2>1. g_head \in Occupied(g_ring)
    BY <1>3 DEF IInv, HeadIsOccupied
  <2>2. PICK h \in Occupied(g_ring) : First(g_head, Occupied(g_ring), h) /\ g_head' = h
    BY <1>3 DEF mq_advance_head
  <2>3. h \in Slots /\ Steps(g_head, h) <= Steps(g_head, g_head)
    BY <2>1, <2>2 DEF First, Occupied, Steps
  <2>4. Steps(g_head, g_head) = 0
    BY <1>1, StepsDef, CapacityAssumption DEF Slots
  <2>5. h # g_head => Steps(g_head, h) \in Nat
                      /\ (Steps(g_head, h) < Steps(g_head, g_head)
                          \/ Steps(g_head, g_head) < Steps(g_head, h))
    BY <1>1, <2>3, StepsDiffer
  <2> QED
    BY <2>2, <2>3, <2>4, <2>5
<1> QED
  BY <1>2, <1>3

\* Nothing of what goes to disk changes: neither the walk nor the messages.
LEMMA SameMessages ==
    ASSUME IInv, UNCHANGED <<g_head, g_count>>,
           Occupied(g_ring') = Occupied(g_ring),
           \A s \in Occupied(g_ring) : /\ g_ring'[s].friendnum = g_ring[s].friendnum
                                       /\ g_ring'[s].payload = g_ring[s].payload
    PROVE  Snapshot' = Snapshot /\ StoredPayloads' = StoredPayloads
<1>1. g_head \in Slots /\ g_count = Cardinality(Occupied(g_ring))
  BY DEF IInv, RingOK, Counted
<1>2. Records(g_ring', g_head, g_count) = Records(g_ring, g_head, g_count)
  BY <1>1, RecordsKept
<1>3. Snapshot' = Snapshot
  BY <1>2, SnapshotIs
<1> QED
  BY <1>3 DEF StoredPayloads

\* Delivery attempts and the clock leave the mirror as good as it was.
LEMMA AttemptKeeps ==
    ASSUME IInv, NEW s \in Slots,
           mq_service_deferred(s) \/ \E r \in Receipts : mq_service_sent(s, r)
    PROVE  IInv' /\ Snapshot' = Snapshot /\ StoredPayloads' = StoredPayloads
<1>1. IInv'
  BY ServiceOK DEF mq_service
<1>2. s \in Occupied(g_ring) /\ g_ring \in [Slots -> Entry]
  BY ScannedOccupied DEF mq_service_deferred, mq_service_sent, Transmits, IInv, RingOK
<1>3. /\ \A t \in Slots \ {s} : g_ring'[t] = g_ring[t]
      /\ g_ring'[s].state # "FREE"
      /\ g_ring'[s].friendnum = g_ring[s].friendnum
      /\ g_ring'[s].payload = g_ring[s].payload
      /\ UNCHANGED <<g_tail, g_count>>
      /\ mq_advance_head
  BY <1>2 DEF mq_service_deferred, mq_service_sent, SentEntry, DeferredEntry
<1>4. Occupied(g_ring') = Occupied(g_ring)
  BY <1>2, <1>3 DEF Occupied
<1>5. g_head' = g_head
  BY <1>3, <1>4, HeadStays
<1>6. \A t \in Occupied(g_ring) : /\ g_ring'[t].friendnum = g_ring[t].friendnum
                                  /\ g_ring'[t].payload = g_ring[t].payload
  BY <1>3 DEF Occupied
<1> QED
  BY <1>1, <1>3, <1>4, <1>5, <1>6, SameMessages

\* A second that passes changes nothing that is saved.
LEMMA TickKeeps ==
    ASSUME IInv, ClockTick
    PROVE  IInv' /\ Snapshot' = Snapshot /\ StoredPayloads' = StoredPayloads
<1>1. \A s \in Slots : /\ g_ring'[s].state = g_ring[s].state
                       /\ g_ring'[s].friendnum = g_ring[s].friendnum
                       /\ g_ring'[s].payload = g_ring[s].payload
  BY DEF IInv, RingOK, ClockTick, Entry
<1>2. Occupied(g_ring') = Occupied(g_ring) /\ UNCHANGED <<g_head, g_count>>
  BY <1>1 DEF Occupied, ClockTick
<1>3. \A s \in Occupied(g_ring) : /\ g_ring'[s].friendnum = g_ring[s].friendnum
                                  /\ g_ring'[s].payload = g_ring[s].payload
  BY <1>1 DEF Occupied
<1> QED
  BY <1>2, <1>3, ClockTickOK, SameMessages

\* A removal takes the message of its slot with it at most.
LEMMA RemoveKeeps ==
    ASSUME IInv, NEW s \in Occupied(g_ring), Remove(s)
    PROVE  IInv' /\ StoredPayloads \ {g_ring[s].payload} \subseteq StoredPayloads'
<1>1. \A t \in Slots \ {s} : g_ring'[t] = g_ring[t]
  BY DEF Remove, mq_release_slot, IInv, RingOK
<1>2. ASSUME NEW p \in StoredPayloads, p # g_ring[s].payload
      PROVE  p \in StoredPayloads'
  <2>1. PICK t \in Occupied(g_ring) : g_ring[t].payload = p
    BY DEF StoredPayloads
  <2>2. t \in Slots \ {s}
    BY <1>2, <2>1 DEF Occupied
  <2>3. t \in Occupied(g_ring') /\ g_ring'[t].payload = p
    BY <1>1, <2>1, <2>2 DEF Occupied
  <2> QED
    BY <2>3 DEF StoredPayloads
<1> QED
  BY <1>2, RemoveOK

\* An insertion takes a free slot, so it overwrites no message.
LEMMA EnqueueKeeps ==
    ASSUME IInv, NEW f \in Friends, NEW p \in Payloads, mq_enqueue(f, p)
    PROVE  IInv' /\ StoredPayloads \subseteq StoredPayloads'
<1>1. PICK s \in Free(g_ring) : g_ring' = [g_ring EXCEPT ![s] = PendingEntry(f, p)]
  BY DEF mq_enqueue
<1>2. ASSUME NEW t \in Occupied(g_ring)
      PROVE  t \in Occupied(g_ring') /\ g_ring'[t] = g_ring[t]
  BY <1>1 DEF Occupied, Free, IInv, RingOK
<1> QED
  BY <1>2, EnqueueOK DEF StoredPayloads

\* A step that leaves the queue alone leaves its image alone.
LEMMA QueueKept ==
    ASSUME IInv, UNCHANGED queueVars
    PROVE  IInv' /\ Snapshot' = Snapshot /\ StoredPayloads' = StoredPayloads
<1>1. IInv'
  BY DEF queueVars, IInv, RingOK, Counted, HeadIsOccupied, EntriesConsistent, Occupied, InFlight
<1> QED
  BY <1>1, SnapshotIs DEF queueVars, StoredPayloads

-----------------------------------------------------------------------------
(* The inductive invariant *)

\* A file that holds no more records than the queue has slots, which is all
\* that mq_persist_save ever writes.
File ==
    {f \in [kind : {"none", "torn", "cached", "synced"}, recs : Seq(Record)] :
        Len(f.recs) <= MQ_CAPACITY}

\* The types of what DurableQueue adds to the ring.
DTypes ==
    /\ phase \in {"loop", "flush", "down"}
    /\ io \in {"idle", "opened", "written", "synced", "renamed"}
    /\ g_queue_dirty \in BOOLEAN
    /\ unread \in BOOLEAN
    /\ save_age \in 0 .. QUEUE_SAVE_INTERVAL
    /\ tmp \in File /\ file \in File /\ stable \in File

\* What a save has achieved so far: the temporary file holds the queue as it
\* is, and not as it was when the save began; only a dirty queue is saved by
\* the loop, so a failed save leaves the flag up; a stopped relay saves nothing.
SaveInProgress ==
    /\ io = "written" => tmp = Cached(Snapshot)
    /\ io = "synced" => tmp = Whole(Snapshot)
    /\ phase = "down" => io = "idle"
    /\ (io # "idle" /\ phase = "loop") => g_queue_dirty

\* The three properties are not inductive by themselves: SaveRename makes the
\* temporary file the mirror, so what that holds has to be known, and a restart
\* makes the file the queue, so it has to fit the ring.
DInv ==
    /\ IInv /\ DTypes /\ SaveInProgress
    /\ NeverTorn /\ CleanMeansMirrored /\ SavedSurvives

\* The files that occur are files.
LEMMA FileTypes ==
    /\ NoFile \in File /\ TornFile \in File
    /\ NoFile.kind = "none" /\ TornFile.recs = <<>> /\ NoFile.recs = <<>>
    /\ IInv => Cached(Snapshot) \in File /\ Whole(Snapshot) \in File
    /\ \A f \in File : AfterPowerLoss(f) \in File
    /\ \A f \in File : f.kind \in {"none", "synced"} => AfterPowerLoss(f) = f
<1>1. <<>> \in Seq(Record) /\ Len(<<>>) <= MQ_CAPACITY
  BY CapacityAssumption
<1>2. NoFile \in File /\ TornFile \in File
      /\ NoFile.kind = "none" /\ TornFile.recs = <<>> /\ NoFile.recs = <<>>
  BY <1>1 DEF NoFile, TornFile, File
<1>3. ASSUME IInv
      PROVE  Cached(Snapshot) \in File /\ Whole(Snapshot) \in File
  <2>1. Snapshot \in Seq(Record) /\ Len(Snapshot) <= MQ_CAPACITY
    BY <1>3, SnapshotOK, CapacityAssumption
  <2> QED
    BY <2>1 DEF Cached, Whole, File
<1>4. \A f \in File : AfterPowerLoss(f) \in File
  BY <1>2 DEF AfterPowerLoss
<1>5. \A f \in File : f.kind \in {"none", "synced"} => AfterPowerLoss(f) = f
  BY DEF AfterPowerLoss
<1> QED
  BY <1>2, <1>3, <1>4, <1>5

\* The relay starts with nothing in memory or on disk.
LEMMA DurableInit == DInit => DInv
<1> SUFFICES ASSUME DInit PROVE DInv
  OBVIOUS
<1>1. IInv
  BY InitOK DEF DInit, MQInit
<1>2. DTypes
  <2>1. save_age \in 0 .. QUEUE_SAVE_INTERVAL
    BY SaveIntervalAssumption DEF DInit
  <2>2. tmp \in File /\ file \in File /\ stable \in File
    BY FileTypes DEF DInit
  <2> QED
    BY <2>1, <2>2 DEF DInit, DTypes
<1>5. SaveInProgress /\ NeverTorn /\ SavedSurvives
  BY FileTypes DEF DInit, SaveInProgress, NeverTorn, SavedSurvives
<1>3. Snapshot = <<>>
  <2>1. Snapshot = Records(g_ring, g_head, 0)
    BY SnapshotIs DEF DInit, mq_init
  <2> QED
    BY <2>1 DEF Records
<1>4. CleanMeansMirrored
  BY <1>3, FileTypes DEF DInit, CleanMeansMirrored
<1> QED
  BY <1>1, <1>2, <1>4, <1>5 DEF DInv

\* The steps of the loop that change the queue raise the dirty flag, and what
\* they take from the queue is settled.
LEMMA ChangedOK ==
    ASSUME DInv, NEW gone, IInv', Changed(gone),
           StoredPayloads \ gone \subseteq StoredPayloads'
    PROVE  DInv'
<1>1. phase = "loop" /\ io = "idle" /\ g_queue_dirty' = TRUE
      /\ settled' = settled \cup gone
      /\ UNCHANGED <<phase, io, save_age, tmp, file, stable, secured, unread>>
  BY DEF Changed, Running, diskVars
<1>2. DTypes' /\ SaveInProgress' /\ NeverTorn' /\ CleanMeansMirrored'
  BY <1>1 DEF DInv, DTypes, SaveInProgress, NeverTorn, CleanMeansMirrored, Running
<1>3. SavedSurvives'
  BY <1>1 DEF DInv, SavedSurvives
<1> QED
  BY <1>2, <1>3 DEF DInv

\* A step after which queue and files are the same as before, up to the clock.
LEMMA ImageKept ==
    ASSUME DInv, IInv', Snapshot' = Snapshot, StoredPayloads' = StoredPayloads,
           io = "idle", UNCHANGED <<io, g_queue_dirty, diskVars, auditVars>>,
           phase = "loop", phase' \in {"loop", "flush"},
           save_age' \in 0 .. QUEUE_SAVE_INTERVAL
    PROVE  DInv'
<1>1. UNCHANGED <<tmp, file, stable, settled, secured, unread>>
  BY DEF diskVars, auditVars
<1>2. DTypes' /\ SaveInProgress' /\ NeverTorn' /\ CleanMeansMirrored'
  BY <1>1 DEF DInv, DTypes, SaveInProgress, NeverTorn, CleanMeansMirrored, Running
<1>3. SavedSurvives'
  BY <1>1 DEF DInv, SavedSurvives
<1> QED
  BY <1>2, <1>3 DEF DInv

\* The caller of mq_persist_save is told what became of it.
LEMMA ReturnOK ==
    ASSUME DInv, NEW ok \in BOOLEAN, SaveReturns(ok), UNCHANGED <<queueVars, file, unread>>,
           phase # "down", phase = "loop" => g_queue_dirty,
           ok => io = "renamed", tmp' \in File, stable' \in {file, stable},
           \A p \in secured' \ settled' :
               p \in StoredPayloads \cap PayloadsOf(file) \cap PayloadsOf(stable')
    PROVE  DInv'
<1>1. IInv' /\ Snapshot' = Snapshot /\ StoredPayloads' = StoredPayloads
  BY QueueKept DEF DInv
<1>2. io' = "idle" /\ phase' \in {phase, "down"}
  BY DEF SaveReturns
<1>5. DTypes'
  <2>1. save_age' \in 0 .. QUEUE_SAVE_INTERVAL
    <3>1. save_age' \in {0, save_age}
      BY DEF SaveReturns, saveVars
    <3>2. {0, save_age} \subseteq 0 .. QUEUE_SAVE_INTERVAL
      BY SaveIntervalAssumption DEF DInv, DTypes
    <3> QED
      BY <3>1, <3>2
  <2>2. g_queue_dirty' \in BOOLEAN
    BY DEF DInv, DTypes, SaveReturns, saveVars
  <2> QED
    BY <1>2, <2>1, <2>2 DEF DInv, DTypes
<1>6. SaveInProgress' /\ NeverTorn'
  BY <1>2 DEF DInv, SaveInProgress, NeverTorn
<1>3. CleanMeansMirrored'
  BY <1>1 DEF DInv, DTypes, CleanMeansMirrored, Running, SaveReturns, saveVars
<1>4. SavedSurvives'
  BY <1>1 DEF DInv, SavedSurvives
<1> QED
  BY <1>1, <1>3, <1>4, <1>5, <1>6 DEF DInv

\* Every system call of mq_persist_save, successful or not.
LEMMA SaveStepOK ==
    ASSUME DInv, SaveStep
    PROVE  DInv'
<1> USE DEF DInv
<1>1. UNCHANGED queueVars
  BY DEF SaveStep, SaveOpen, SaveOpenFails, SaveWrite, SaveSync, SaveRename, SaveFailsMidway,
         SaveFails, SaveSyncDir
<1>2. IInv' /\ Snapshot' = Snapshot /\ StoredPayloads' = StoredPayloads
  BY <1>1, QueueKept
<1>3. {Snapshot[i][2] : i \in 1 .. Len(Snapshot)} = StoredPayloads
  BY SnapshotOK
<1>4. CASE SaveOpen
  <2>1. /\ io' = "opened" /\ tmp' \in File /\ phase \in {"loop", "flush"}
        /\ (phase = "loop" => g_queue_dirty)
        /\ UNCHANGED <<phase, g_queue_dirty, save_age, file, stable, settled, secured, unread>>
    BY <1>4, FileTypes DEF SaveOpen, SaveWanted, saveVars, auditVars
  <2>2. DTypes' /\ SaveInProgress' /\ NeverTorn' /\ CleanMeansMirrored'
    BY <2>1 DEF DTypes, SaveInProgress, NeverTorn, CleanMeansMirrored, Running
  <2>3. SavedSurvives'
    BY <1>2, <2>1 DEF SavedSurvives
  <2> QED
    BY <1>2, <2>2, <2>3
<1>5. CASE SaveOpenFails
  <2>1. /\ SaveReturns(FALSE) /\ phase \in {"loop", "flush"} /\ (phase = "loop" => g_queue_dirty)
        /\ UNCHANGED <<tmp, file, stable, settled, secured, unread>>
    BY <1>5 DEF SaveOpenFails, SaveWanted, diskVars, auditVars
  <2>2. \A p \in secured' \ settled' :
            p \in StoredPayloads \cap PayloadsOf(file) \cap PayloadsOf(stable')
    BY <2>1 DEF SavedSurvives
  <2>3. tmp' \in File /\ stable' \in {file, stable}
    BY <2>1 DEF DTypes
  <2> QED
    BY <1>1, <2>1, <2>2, <2>3, ReturnOK
<1>6. CASE SaveWrite
  <2>1. /\ io = "opened" /\ io' = "written" /\ tmp' = Cached(Snapshot)
        /\ UNCHANGED <<phase, g_queue_dirty, save_age, file, stable, settled, secured, unread>>
    BY <1>6 DEF SaveWrite, saveVars, auditVars
  <2>2. tmp' \in File
    BY <2>1, FileTypes
  <2>3. DTypes' /\ NeverTorn' /\ CleanMeansMirrored'
    BY <2>1, <2>2 DEF DTypes, NeverTorn, CleanMeansMirrored, Running
  <2>4. SaveInProgress'
    BY <1>2, <2>1 DEF SaveInProgress
  <2>5. SavedSurvives'
    BY <1>2, <2>1 DEF SavedSurvives
  <2> QED
    BY <1>2, <2>3, <2>4, <2>5
<1>7. CASE SaveSync
  <2>1. /\ io = "written" /\ io' = "synced" /\ tmp' = Whole(tmp.recs)
        /\ UNCHANGED <<phase, g_queue_dirty, save_age, file, stable, settled, secured, unread>>
    BY <1>7 DEF SaveSync, saveVars, auditVars
  <2>2. tmp' = Whole(Snapshot)
    BY <2>1 DEF SaveInProgress, Cached
  <2>3. tmp' \in File
    BY <2>2, FileTypes
  <2>4. DTypes' /\ NeverTorn' /\ CleanMeansMirrored'
    BY <2>1, <2>3 DEF DTypes, NeverTorn, CleanMeansMirrored, Running
  <2>5. SaveInProgress'
    BY <1>2, <2>1, <2>2 DEF SaveInProgress
  <2>6. SavedSurvives'
    BY <1>2, <2>1 DEF SavedSurvives
  <2> QED
    BY <1>2, <2>4, <2>5, <2>6
<1>8. CASE SaveRename
  <2>1. /\ io = "synced" /\ io' = "renamed" /\ file' = tmp /\ tmp' = NoFile /\ unread' = FALSE
        /\ UNCHANGED <<phase, g_queue_dirty, save_age, stable, settled, secured>>
    BY <1>8 DEF SaveRename, saveVars
  <2>2. file' = Whole(Snapshot) /\ phase # "down"
    BY <2>1 DEF SaveInProgress
  <2>3. file'.recs = Snapshot /\ file'.kind = "synced"
    BY <2>2 DEF Whole
  <2>4. DTypes'
    BY <2>1, FileTypes DEF DTypes
  <2>5. SaveInProgress' /\ NeverTorn' /\ CleanMeansMirrored'
    BY <1>2, <2>1, <2>3 DEF SaveInProgress, NeverTorn, CleanMeansMirrored
  <2>6. SavedSurvives'
    <3>1. PayloadsOf(file') = StoredPayloads
      BY <1>3, <2>3 DEF PayloadsOf
    <3> QED
      BY <1>2, <2>1, <2>2, <3>1 DEF SavedSurvives
  <2> QED
    BY <1>2, <2>4, <2>5, <2>6
<1>9. CASE SaveFailsMidway
  <2>1. /\ io \in {"opened", "written", "synced"} /\ tmp' = NoFile /\ SaveReturns(FALSE)
        /\ UNCHANGED <<file, stable, settled, secured, unread>>
    BY <1>9 DEF SaveFailsMidway, SaveFails, auditVars
  <2>2. phase # "down" /\ (phase = "loop" => g_queue_dirty)
    BY <2>1 DEF SaveInProgress
  <2>3. \A p \in secured' \ settled' :
            p \in StoredPayloads \cap PayloadsOf(file) \cap PayloadsOf(stable')
    BY <2>1, <2>2 DEF SavedSurvives
  <2> QED
    BY <1>1, <2>1, <2>2, <2>3, FileTypes, ReturnOK
<1>10. CASE SaveSyncDir
  <2>1. /\ io = "renamed" /\ SaveReturns(TRUE) /\ UNCHANGED <<tmp, file, settled, unread>>
        /\ \/ stable' = file /\ secured' = secured \cup PayloadsOf(file)
           \/ UNCHANGED <<stable, secured>>
    BY <1>10 DEF SaveSyncDir
  <2>2. phase # "down" /\ (phase = "loop" => g_queue_dirty)
    BY <2>1 DEF SaveInProgress
  <2>3. PayloadsOf(file) = StoredPayloads
    BY <1>3, <2>1 DEF PayloadsOf, CleanMeansMirrored
  <2>4. \A p \in secured' \ settled' :
            p \in StoredPayloads \cap PayloadsOf(file) \cap PayloadsOf(stable')
    BY <2>1, <2>2, <2>3 DEF SavedSurvives
  <2>5. tmp' \in File /\ stable' \in {file, stable}
    BY <2>1 DEF DTypes
  <2> QED
    BY <1>1, <2>1, <2>2, <2>4, <2>5, ReturnOK
<1> QED
  BY <1>4, <1>5, <1>6, <1>7, <1>8, <1>9, <1>10 DEF SaveStep

\* The end of a process, and the next one.
LEMMA CrashAndStartOK ==
    ASSUME DInv, ProcessCrash \/ PowerLoss \/ Start \/ StartUnread
    PROVE  DInv'
<1> USE DEF DInv
<1>1. <<>> \in Seq(Record) /\ Len(<<>>) <= MQ_CAPACITY
  BY CapacityAssumption
<1>2. 0 \in 0 .. QUEUE_SAVE_INTERVAL
  BY SaveIntervalAssumption
<1>3. CASE ProcessCrash
  <2>1. /\ phase' = "down" /\ io' = "idle" /\ Restored(<<>>) /\ save_age' = 0
        /\ UNCHANGED <<tmp, file, stable, settled, secured, unread>>
    BY <1>3 DEF ProcessCrash, MemoryLost, diskVars, auditVars
  <2>2. IInv'
    BY <1>1, <2>1, RestoredOK
  <2>3. g_queue_dirty' \in BOOLEAN
    BY <2>1 DEF Restored
  <2>4. DTypes'
    BY <1>2, <2>1, <2>3 DEF DTypes
  <2>5. SaveInProgress' /\ NeverTorn' /\ CleanMeansMirrored' /\ SavedSurvives'
    BY <2>1 DEF SaveInProgress, NeverTorn, CleanMeansMirrored, Running, SavedSurvives
  <2> QED
    BY <2>2, <2>4, <2>5
<1>4. CASE PowerLoss
  <2>1. PICK f \in {file, stable} : file' = AfterPowerLoss(f) /\ stable' = AfterPowerLoss(f)
    BY <1>4 DEF PowerLoss
  <2>2. /\ phase' = "down" /\ io' = "idle" /\ Restored(<<>>) /\ save_age' = 0
        /\ tmp' = AfterPowerLoss(tmp) /\ UNCHANGED <<settled, secured, unread>>
    BY <1>4 DEF PowerLoss, MemoryLost, auditVars
  <2>3. IInv'
    BY <1>1, <2>2, RestoredOK
  <2>4. file' = f /\ stable' = f /\ tmp' \in File
    BY <2>1, <2>2, FileTypes DEF DTypes, NeverTorn
  <2>5. g_queue_dirty' \in BOOLEAN
    BY <2>2 DEF Restored
  <2>6. DTypes'
    BY <1>2, <2>2, <2>4, <2>5 DEF DTypes
  <2>7. SaveInProgress' /\ NeverTorn' /\ CleanMeansMirrored' /\ SavedSurvives'
    BY <2>2, <2>4 DEF SaveInProgress, NeverTorn, CleanMeansMirrored, Running, SavedSurvives
  <2> QED
    BY <2>3, <2>6, <2>7
<1>5. CASE Start
  <2>1. /\ phase = "down" /\ phase' = "loop" /\ save_age' = 0 /\ Restored(file.recs)
        /\ unread' = FALSE /\ UNCHANGED <<io, tmp, file, stable, settled, secured>>
    BY <1>5 DEF Start, diskVars
  <2>2. file.recs \in Seq(Record) /\ Len(file.recs) <= MQ_CAPACITY
    BY DEF DTypes, File
  <2>3. /\ IInv' /\ StoredPayloads' = PayloadsOf(file)
        /\ file.recs = <<>> => Snapshot' = <<>>
    BY <2>1, <2>2, RestoredOK DEF PayloadsOf
  <2>4. io = "idle" /\ g_queue_dirty' = (file.recs # <<>>)
    BY <2>1 DEF Restored, SaveInProgress
  <2>5. DTypes'
    BY <1>2, <2>1, <2>4 DEF DTypes
  <2>6. SaveInProgress' /\ NeverTorn' /\ CleanMeansMirrored'
    BY <2>1, <2>3, <2>4 DEF SaveInProgress, NeverTorn, CleanMeansMirrored, Running
  <2>7. SavedSurvives'
    BY <2>1, <2>3 DEF SavedSurvives
  <2> QED
    BY <2>3, <2>5, <2>6, <2>7
<1>6. CASE StartUnread
  <2>1. /\ phase = "down" /\ phase' = "loop" /\ save_age' = 0 /\ Restored(<<>>)
        /\ unread' = TRUE /\ UNCHANGED <<io, tmp, file, stable, settled>>
        /\ secured' = secured \ (PayloadsOf(file) \cup PayloadsOf(stable))
    BY <1>6 DEF StartUnread, diskVars
  <2>2. IInv'
    BY <1>1, <2>1, RestoredOK
  <2>3. io = "idle" /\ g_queue_dirty' \in BOOLEAN
    BY <2>1 DEF Restored, SaveInProgress
  <2>4. DTypes'
    BY <1>2, <2>1, <2>3 DEF DTypes
  <2>5. SaveInProgress' /\ NeverTorn' /\ CleanMeansMirrored'
    BY <2>1, <2>3 DEF SaveInProgress, NeverTorn, CleanMeansMirrored, Running
  <2>6. SavedSurvives'
    BY <2>1 DEF SavedSurvives
  <2> QED
    BY <2>2, <2>4, <2>5, <2>6
<1> QED
  BY <1>3, <1>4, <1>5, <1>6

\* Every step preserves the invariant.
LEMMA DurableNext == DInv /\ [DNext]_durableVars => DInv'
<1> SUFFICES ASSUME DInv, [DNext]_durableVars PROVE DInv'
  OBVIOUS
<1> USE DEF DInv
<1>1. ASSUME NEW f \in Friends, DEnqueue(f) PROVE DInv'
  <2>1. arrivals + 1 \in Payloads /\ mq_enqueue(f, arrivals + 1) /\ Changed({})
    BY <1>1 DEF DEnqueue
  <2>2. IInv' /\ StoredPayloads \subseteq StoredPayloads'
    BY <2>1, EnqueueKeeps
  <2> HIDE DEF DInv
  <2> QED
    BY <2>1, <2>2, ChangedOK
<1>2. ASSUME NEW f \in Friends, NEW r \in Receipts, DConfirm(f, r) PROVE DInv'
  <2>1. PICK s \in Slots : Confirms(f, r, s) /\ Remove(s) /\ Changed({g_ring[s].payload})
    BY <1>2 DEF DConfirm
  <2>2. s \in Occupied(g_ring)
    BY <2>1 DEF Confirms, First, Matches, InFlight, Occupied
  <2>3. IInv' /\ StoredPayloads \ {g_ring[s].payload} \subseteq StoredPayloads'
    BY <2>1, <2>2, RemoveKeeps
  <2> HIDE DEF DInv
  <2> QED
    BY <2>1, <2>3, ChangedOK
<1>3. ASSUME DRetire PROVE DInv'
  <2>1. PICK s \in Slots : Scanned(s) /\ Remove(s) /\ Changed({g_ring[s].payload})
    BY <1>3 DEF DRetire, mq_service_expire, mq_service_exhausted, mq_service_fatal, Transmits
  <2>2. s \in Occupied(g_ring)
    BY <2>1, ScannedOccupied
  <2>3. IInv' /\ StoredPayloads \ {g_ring[s].payload} \subseteq StoredPayloads'
    BY <2>1, <2>2, RemoveKeeps
  <2> HIDE DEF DInv
  <2> QED
    BY <2>1, <2>3, ChangedOK
<1>4. ASSUME DAttempt PROVE DInv'
  <2>1. PICK s \in Slots :
           mq_service_deferred(s) \/ \E r \in Receipts : mq_service_sent(s, r)
    BY <1>4 DEF DAttempt
  <2>2. IInv' /\ Snapshot' = Snapshot /\ StoredPayloads' = StoredPayloads
    BY <2>1, AttemptKeeps
  <2>3. /\ phase = "loop" /\ io = "idle" /\ save_age' \in 0 .. QUEUE_SAVE_INTERVAL
        /\ phase' = phase /\ UNCHANGED <<io, g_queue_dirty, diskVars, auditVars>>
    BY <1>4 DEF DAttempt, Running, saveVars, DTypes
  <2> HIDE DEF DInv
  <2> QED
    BY <2>2, <2>3, ImageKept
<1>5. ASSUME DTick PROVE DInv'
  <2>1. IInv' /\ Snapshot' = Snapshot /\ StoredPayloads' = StoredPayloads
    BY <1>5, TickKeeps DEF DTick
  <2>2. /\ phase = "loop" /\ io = "idle" /\ phase' = phase
        /\ UNCHANGED <<io, g_queue_dirty, diskVars, auditVars>>
    BY <1>5 DEF DTick, Running
  <2>3. save_age' \in 0 .. QUEUE_SAVE_INTERVAL
    BY <1>5, SaveIntervalAssumption DEF DTick, DTypes
  <2> HIDE DEF DInv
  <2> QED
    BY <2>1, <2>2, <2>3, ImageKept
<1>6. ASSUME Quit PROVE DInv'
  <2>1. IInv' /\ Snapshot' = Snapshot /\ StoredPayloads' = StoredPayloads
    BY <1>6, QueueKept DEF Quit
  <2>2. /\ phase = "loop" /\ io = "idle" /\ phase' = "flush"
        /\ save_age' \in 0 .. QUEUE_SAVE_INTERVAL
        /\ UNCHANGED <<io, g_queue_dirty, diskVars, auditVars>>
    BY <1>6 DEF Quit, Running, saveVars, DTypes
  <2> HIDE DEF DInv
  <2> QED
    BY <2>1, <2>2, ImageKept
<1>7. ASSUME UNCHANGED durableVars PROVE DInv'
  <2>1. IInv' /\ Snapshot' = Snapshot /\ StoredPayloads' = StoredPayloads
    BY <1>7, QueueKept DEF durableVars
  <2>2. UNCHANGED <<phase, io, g_queue_dirty, save_age, tmp, file, stable, settled, secured, unread>>
    BY <1>7 DEF durableVars, saveVars, diskVars, auditVars
  <2>3. DTypes' /\ SaveInProgress' /\ NeverTorn'
    BY <2>1, <2>2 DEF DTypes, SaveInProgress, NeverTorn
  <2>4. CleanMeansMirrored' /\ SavedSurvives'
    BY <2>1, <2>2 DEF CleanMeansMirrored, Running, SavedSurvives
  <2> QED
    BY <2>1, <2>3, <2>4
<1> HIDE DEF DInv
<1> QED
  BY <1>1, <1>2, <1>3, <1>4, <1>5, <1>6, <1>7, SaveStepOK, CrashAndStartOK DEF DNext

-----------------------------------------------------------------------------
(* Theorems *)

\* The invariant holds in every state, for every capacity, save interval and
\* sequence of failures: mq_persist_save and mq_persist_load agree with the
\* event loop about what the file stands for.
THEOREM DurableInvariance == DSpec => []DInv
<1>1. DInit => DInv
  BY DurableInit
<1>2. DInv /\ [DNext]_durableVars => DInv'
  BY DurableNext
<1> QED
  BY <1>1, <1>2, PTL DEF DSpec

\* The file that the next start reads is absent or complete, on the device too,
\* whatever call of mq_persist_save failed or was cut short.
THEOREM FileNeverTorn == DSpec => []NeverTorn
<1>1. DInv => NeverTorn
  BY DEF DInv
<1> QED
  BY <1>1, DurableInvariance, PTL

\* Whenever the loop sees no reason to save, the file holds exactly the queue,
\* in the order in which mq_foreach walks it.
THEOREM CleanFlagTrusted == DSpec => []CleanMeansMirrored
<1>1. DInv => CleanMeansMirrored
  BY DEF DInv
<1> QED
  BY <1>1, DurableInvariance, PTL

\* A message that was part of a completed save is settled, or in the queue of
\* the running relay and in every file the next start may find.
THEOREM SavedNotLost == DSpec => []SavedSurvives
<1>1. DInv => SavedSurvives
  BY DEF DInv
<1> QED
  BY <1>1, DurableInvariance, PTL

=============================================================================
