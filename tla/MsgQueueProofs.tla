--------------------------- MODULE MsgQueueProofs ---------------------------
(***************************************************************************)
(* Proofs about the delivery queue for every capacity, attempt budget,     *)
(* pair of timeouts and transport.                                         *)
(*                                                                         *)
(* The counters g_count and g_in_flight are adjusted step by step, so      *)
(* TypeOK alone does not survive a step: nothing would keep g_count - 1    *)
(* from being negative.  IInv ties both to the contents of the ring, and   *)
(* the proofs count by adding or removing one slot at a time.              *)
(***************************************************************************)
EXTENDS MsgQueue, FiniteSetTheorems, TLAPS

\* The inductive invariant: the type of the ring and of its two indices, both
\* counters recounted, the head on an occupied slot, entries consistent.
RingOK ==
    /\ g_ring \in [Slots -> Entry]
    /\ g_head \in Slots
    /\ g_tail \in Slots

\* Both counters, recounted.
Counted ==
    /\ g_count = Cardinality(Occupied(g_ring))
    /\ g_in_flight = Cardinality(InFlight(g_ring))

\* All of it.
IInv == RingOK /\ Counted /\ HeadIsOccupied /\ EntriesConsistent

-----------------------------------------------------------------------------
(* Facts about slots and entries *)

\* A set of slots is finite and has at most MQ_CAPACITY members.
LEMMA SlotSets ==
    ASSUME NEW S \in SUBSET Slots
    PROVE  IsFiniteSet(S) /\ Cardinality(S) \in 0 .. MQ_CAPACITY
<1>1. IsFiniteSet(Slots) /\ Cardinality(Slots) = MQ_CAPACITY
  <2>1. MQ_CAPACITY \in Nat /\ MQ_CAPACITY > 0
    BY CapacityAssumption
  <2>2. 0 \in Int /\ MQ_CAPACITY - 1 \in Int
    BY <2>1
  <2>3. IsFiniteSet(0 .. MQ_CAPACITY - 1)
    BY <2>2, FS_Interval
  <2>4. Cardinality(0 .. MQ_CAPACITY - 1)
           = IF 0 > MQ_CAPACITY - 1 THEN 0 ELSE (MQ_CAPACITY - 1) - 0 + 1
    BY <2>2, FS_Interval
  <2> QED
    BY <2>1, <2>3, <2>4 DEF Slots
<1>2. IsFiniteSet(S) /\ Cardinality(S) <= Cardinality(Slots)
  BY <1>1, FS_Subset
<1>3. Cardinality(S) \in Nat
  BY <1>2, FS_CardinalityType
<1> QED
  BY <1>1, <1>2, <1>3, CapacityAssumption

\* Writing entry e into slot s changes the two sets the counters stand for by
\* at most that slot.
LEMMA PutSlot ==
    ASSUME NEW ring \in [Slots -> Entry], NEW s \in Slots, NEW e \in Entry
    PROVE  LET put == [ring EXCEPT ![s] = e] IN
           /\ put \in [Slots -> Entry]
           /\ Occupied(put) = IF e.state = "FREE" THEN Occupied(ring) \ {s}
                                                  ELSE Occupied(ring) \cup {s}
           /\ InFlight(put) = IF e.state = "AWAITING_ACK" THEN InFlight(ring) \cup {s}
                                                          ELSE InFlight(ring) \ {s}
BY DEF Occupied, InFlight

\* The entries that operations write are entries.
LEMMA EntryTypes ==
    /\ FreeEntry \in Entry
    /\ \A f \in Friends, p \in Payloads : PendingEntry(f, p) \in Entry
    /\ \A e \in Entry, r \in Receipts :
          Charged(e) < MQ_MAX_ATTEMPTS => SentEntry(e, r) \in Entry
    /\ \A e \in Entry :
          Charged(e) + 1 < MQ_MAX_ATTEMPTS => DeferredEntry(e) \in Entry
<1> USE AttemptsAssumption, TimeoutsAssumption
<1>1. FreeEntry \in Entry
  BY DEF FreeEntry, Entry
<1>2. ASSUME NEW f \in Friends, NEW p \in Payloads
      PROVE  PendingEntry(f, p) \in Entry
  BY DEF FreeEntry, PendingEntry, Entry
<1>3. ASSUME NEW e \in Entry, NEW r \in Receipts, Charged(e) < MQ_MAX_ATTEMPTS
      PROVE  SentEntry(e, r) \in Entry
  <2>1. Charged(e) \in 0 .. MQ_MAX_ATTEMPTS - 1
    BY <1>3 DEF Charged, Entry
  <2> QED
    BY <2>1 DEF SentEntry, Entry
<1>4. ASSUME NEW e \in Entry, Charged(e) + 1 < MQ_MAX_ATTEMPTS
      PROVE  DeferredEntry(e) \in Entry
  <2>1. Charged(e) + 1 \in 0 .. MQ_MAX_ATTEMPTS - 1
    BY <1>4 DEF Charged, Entry
  <2> QED
    BY <2>1 DEF DeferredEntry, Entry
<1> QED
  BY <1>1, <1>2, <1>3, <1>4

\* ... and they are consistent.
LEMMA EntryFields ==
    /\ EntryConsistent(FreeEntry)
    /\ \A f \in Friends, p \in Payloads : EntryConsistent(PendingEntry(f, p))
    /\ \A e \in Entry, r \in Receipts :
          EntryConsistent(e) /\ e.state # "FREE" => EntryConsistent(SentEntry(e, r))
    /\ \A e \in Entry :
          EntryConsistent(e) /\ e.state # "FREE" => EntryConsistent(DeferredEntry(e))
<1> USE FriendsAssumption, PayloadsAssumption, ReceiptsAssumption
<1>1. EntryConsistent(FreeEntry)
  BY DEF EntryConsistent, FreeEntry, NoFriend, NoPayload, NoReceipt
<1>2. ASSUME NEW f \in Friends, NEW p \in Payloads
      PROVE  EntryConsistent(PendingEntry(f, p))
  BY DEF EntryConsistent, PendingEntry, NoFriend, NoPayload, NoReceipt
<1>3. ASSUME NEW e \in Entry, NEW r \in Receipts, EntryConsistent(e), e.state # "FREE"
      PROVE  EntryConsistent(SentEntry(e, r))
  BY <1>3 DEF EntryConsistent, SentEntry, NoReceipt
<1>4. ASSUME NEW e \in Entry, EntryConsistent(e), e.state # "FREE"
      PROVE  EntryConsistent(DeferredEntry(e))
  <2>1. Charged(e) \in Nat
    BY AttemptsAssumption DEF Charged, Entry
  <2> QED
    BY <1>4, <2>1 DEF EntryConsistent, DeferredEntry
<1> QED
  BY <1>1, <1>2, <1>3, <1>4

\* The index behind a slot is a slot.
LEMMA NextSlot == \A s \in Slots : (s + 1) % MQ_CAPACITY \in Slots
BY CapacityAssumption DEF Slots

-----------------------------------------------------------------------------
(* One lemma per way of changing the ring *)

\* mq_confirm and mq_retire: a slot is released and the head advanced.
LEMMA RemoveOK ==
    ASSUME IInv, NEW s \in Occupied(g_ring), Remove(s)
    PROVE  IInv'
<1> USE DEF IInv, RingOK, Counted
<1>1. s \in Slots /\ g_ring[s] \in Entry /\ g_ring[s].state # "FREE"
  BY DEF Occupied
<1>2. /\ g_ring' \in [Slots -> Entry]
      /\ Occupied(g_ring') = Occupied(g_ring) \ {s}
      /\ InFlight(g_ring') = InFlight(g_ring) \ {s}
  <2>1. FreeEntry \in Entry /\ FreeEntry.state = "FREE"
    BY EntryTypes DEF FreeEntry
  <2>2. g_ring' = [g_ring EXCEPT ![s] = FreeEntry]
    BY DEF Remove, mq_release_slot
  <2> QED
    BY <1>1, <2>1, <2>2, PutSlot
<1>3. Counted'
  <2>1. IsFiniteSet(Occupied(g_ring)) /\ IsFiniteSet(InFlight(g_ring))
    BY SlotSets DEF Occupied, InFlight
  <2>2. Cardinality(Occupied(g_ring')) = Cardinality(Occupied(g_ring)) - 1
    BY <1>2, <2>1, FS_RemoveElement
  <2>3. Cardinality(InFlight(g_ring')) =
           IF s \in InFlight(g_ring) THEN Cardinality(InFlight(g_ring)) - 1
                                     ELSE Cardinality(InFlight(g_ring))
    BY <1>2, <2>1, FS_RemoveElement
  <2>4. s \in InFlight(g_ring) <=> g_ring[s].state = "AWAITING_ACK"
    BY <1>1 DEF InFlight
  <2> QED
    BY <2>2, <2>3, <2>4 DEF Remove, mq_release_slot
<1>4. g_tail' = g_tail
  BY DEF Remove
<1>5. HeadIsOccupied' /\ g_head' \in Slots
  BY <1>4, <1>2 DEF Remove, mq_advance_head, HeadIsOccupied, Occupied
<1>6. EntriesConsistent'
  BY <1>1, EntryFields DEF EntriesConsistent, Remove, mq_release_slot
<1> QED
  BY <1>2, <1>3, <1>4, <1>5, <1>6

\* A delivery attempt: an occupied slot gets another occupied entry.
LEMMA RewriteOK ==
    ASSUME IInv, NEW s \in Occupied(g_ring), NEW e \in Entry,
           EntryConsistent(e), e.state # "FREE",
           g_ring' = [g_ring EXCEPT ![s] = e],
           g_in_flight' = g_in_flight
              + (IF e.state = "AWAITING_ACK" THEN 1 ELSE 0)
              - (IF g_ring[s].state = "AWAITING_ACK" THEN 1 ELSE 0),
           UNCHANGED <<g_tail, g_count>>,
           mq_advance_head
    PROVE  IInv'
<1> USE DEF IInv, RingOK, Counted
<1>1. s \in Slots /\ g_ring[s] \in Entry /\ g_ring[s].state # "FREE"
  BY DEF Occupied
<1>2. /\ g_ring' \in [Slots -> Entry]
      /\ Occupied(g_ring') = Occupied(g_ring)
      /\ InFlight(g_ring') = IF e.state = "AWAITING_ACK"
                               THEN InFlight(g_ring) \cup {s}
                               ELSE InFlight(g_ring) \ {s}
  <2>1. /\ g_ring' \in [Slots -> Entry]
        /\ Occupied(g_ring') = IF e.state = "FREE" THEN Occupied(g_ring) \ {s}
                                                   ELSE Occupied(g_ring) \cup {s}
        /\ InFlight(g_ring') = IF e.state = "AWAITING_ACK"
                                 THEN InFlight(g_ring) \cup {s}
                                 ELSE InFlight(g_ring) \ {s}
    BY <1>1, PutSlot
  <2>2. Occupied(g_ring) \cup {s} = Occupied(g_ring)
    OBVIOUS
  <2> QED
    BY <2>1, <2>2
<1>3. Counted'
  <2>1. IsFiniteSet(InFlight(g_ring)) /\ Cardinality(InFlight(g_ring)) \in Nat
    BY SlotSets DEF InFlight
  <2>2. s \in InFlight(g_ring) <=> g_ring[s].state = "AWAITING_ACK"
    BY <1>1 DEF InFlight
  <2>3. Cardinality(InFlight(g_ring) \cup {s}) =
           IF s \in InFlight(g_ring) THEN Cardinality(InFlight(g_ring))
                                     ELSE Cardinality(InFlight(g_ring)) + 1
    BY <2>1, FS_AddElement
  <2>4. Cardinality(InFlight(g_ring) \ {s}) =
           IF s \in InFlight(g_ring) THEN Cardinality(InFlight(g_ring)) - 1
                                     ELSE Cardinality(InFlight(g_ring))
    BY <2>1, FS_RemoveElement
  <2> QED
    BY <1>2, <2>1, <2>2, <2>3, <2>4
<1>4. HeadIsOccupied' /\ g_head' \in Slots
  BY <1>2 DEF mq_advance_head, HeadIsOccupied, Occupied
<1>5. EntriesConsistent'
  BY <1>1 DEF EntriesConsistent
<1> QED
  BY <1>2, <1>3, <1>4, <1>5

\* mq_enqueue: a free slot is filled.
LEMMA EnqueueOK ==
    ASSUME IInv, NEW f \in Friends, NEW p \in Payloads, mq_enqueue(f, p)
    PROVE  IInv'
<1> USE DEF IInv, RingOK, Counted
<1> DEFINE e == PendingEntry(f, p)
<1>1. PICK s \in Free(g_ring) :
         /\ g_ring' = [g_ring EXCEPT ![s] = e]
         /\ g_count' = g_count + 1
         /\ g_head' = IF g_count = 0 THEN s ELSE g_head
         /\ g_tail' = (s + 1) % MQ_CAPACITY
         /\ g_in_flight' = g_in_flight
  BY DEF mq_enqueue
<1>2. s \in Slots /\ s \notin Occupied(g_ring) /\ s \notin InFlight(g_ring)
  BY DEF Free, Occupied, InFlight
<1>3. e \in Entry /\ e.state = "PENDING"
  BY EntryTypes DEF PendingEntry
<1>4. /\ g_ring' \in [Slots -> Entry]
      /\ Occupied(g_ring') = Occupied(g_ring) \cup {s}
      /\ InFlight(g_ring') = InFlight(g_ring)
  <2> HIDE DEF e
  <2>1. /\ g_ring' \in [Slots -> Entry]
        /\ Occupied(g_ring') = IF e.state = "FREE" THEN Occupied(g_ring) \ {s}
                                                   ELSE Occupied(g_ring) \cup {s}
        /\ InFlight(g_ring') = IF e.state = "AWAITING_ACK"
                                 THEN InFlight(g_ring) \cup {s}
                                 ELSE InFlight(g_ring) \ {s}
    BY <1>1, <1>2, <1>3, PutSlot
  <2>2. InFlight(g_ring) \ {s} = InFlight(g_ring)
    BY <1>2
  <2> QED
    BY <1>3, <2>1, <2>2
<1>5. Cardinality(Occupied(g_ring)) \in Nat /\ g_count' = Cardinality(Occupied(g_ring'))
  <2>1. IsFiniteSet(Occupied(g_ring)) /\ Cardinality(Occupied(g_ring)) \in Nat
    BY SlotSets DEF Occupied
  <2>2. Cardinality(Occupied(g_ring) \cup {s}) = Cardinality(Occupied(g_ring)) + 1
    BY <1>2, <2>1, FS_AddElement
  <2> QED
    BY <1>1, <1>4, <2>1, <2>2
<1>6. HeadIsOccupied' /\ g_head' \in Slots
  <2>1. g_count' # 0
    BY <1>1, <1>5
  <2>2. g_head' \in Occupied(g_ring')
    BY <1>1, <1>4 DEF HeadIsOccupied
  <2> QED
    BY <2>1, <2>2 DEF HeadIsOccupied, Occupied
<1>7. EntriesConsistent'
  BY <1>1, <1>2, EntryFields DEF EntriesConsistent
<1> QED
  BY <1>1, <1>2, <1>4, <1>5, <1>6, <1>7, NextSlot

\* Time passes: entries age and nothing else.
LEMMA ClockTickOK ==
    ASSUME IInv, ClockTick
    PROVE  IInv'
<1> USE DEF IInv, RingOK, Counted
<1>1. ASSUME NEW s \in Slots
      PROVE  /\ g_ring'[s] \in Entry
             /\ g_ring'[s].state = g_ring[s].state
             /\ EntryConsistent(g_ring'[s])
  <2>1. g_ring[s] \in Entry /\ EntryConsistent(g_ring[s])
    BY DEF EntriesConsistent
  <2>2. CASE ~(g_ring[s].attempted /\ g_ring[s].age < MQ_ACK_TIMEOUT_SEC)
    BY <2>1, <2>2 DEF ClockTick
  <2>3. CASE g_ring[s].attempted /\ g_ring[s].age < MQ_ACK_TIMEOUT_SEC
    <3>1. g_ring'[s] = [g_ring[s] EXCEPT !.age = g_ring[s].age + 1]
      BY <2>3 DEF ClockTick
    <3>2. g_ring[s].age + 1 \in 0 .. MQ_ACK_TIMEOUT_SEC
      BY <2>1, <2>3, TimeoutsAssumption DEF Entry
    <3>3. g_ring'[s] \in Entry /\ g_ring'[s].state = g_ring[s].state
      BY <2>1, <3>1, <3>2 DEF Entry
    <3>4. g_ring[s].state # "FREE"
      BY <2>1, <2>3 DEF EntryConsistent, FreeEntry
    <3>5. EntryConsistent(g_ring'[s])
      BY <2>1, <3>1, <3>4 DEF EntryConsistent, Entry
    <3> QED
      BY <3>3, <3>5
  <2> QED
    BY <2>2, <2>3
<1>2. g_ring' \in [Slots -> Entry]
  BY <1>1 DEF ClockTick
<1>3. Occupied(g_ring') = Occupied(g_ring) /\ InFlight(g_ring') = InFlight(g_ring)
  BY <1>1 DEF Occupied, InFlight
<1>4. EntriesConsistent'
  BY <1>1 DEF EntriesConsistent
<1> QED
  BY <1>2, <1>3, <1>4 DEF ClockTick, HeadIsOccupied

-----------------------------------------------------------------------------
(* The invariant *)

\* What a scan finds due is occupied.
LEMMA ScannedOccupied == \A s \in Slots : Scanned(s) => s \in Occupied(g_ring)
BY DEF Scanned, First, Due, Occupied

\* mq_init establishes the invariant.
LEMMA InitOK == MQInit => IInv
<1> SUFFICES ASSUME mq_init PROVE IInv
  BY DEF MQInit
<1>1. RingOK
  BY CapacityAssumption, EntryTypes DEF mq_init, RingOK, Slots
<1>2. Occupied(g_ring) = {} /\ InFlight(g_ring) = {}
  BY DEF mq_init, Occupied, InFlight, FreeEntry
<1>3. Counted
  BY <1>2, FS_EmptySet DEF mq_init, Counted
<1>4. EntriesConsistent
  BY EntryFields DEF mq_init, EntriesConsistent
<1> QED
  BY <1>1, <1>3, <1>4 DEF IInv, HeadIsOccupied, mq_init

\* Every return statement of mq_service preserves it.
LEMMA ServiceOK ==
    ASSUME IInv, mq_service
    PROVE  IInv'
<1>1. PICK s \in Slots : \/ mq_service_expire(s)
                         \/ \E r \in Receipts : mq_service_sent(s, r)
                         \/ mq_service_deferred(s)
                         \/ mq_service_exhausted(s)
                         \/ mq_service_fatal(s)
  BY DEF mq_service
<1>2. s \in Occupied(g_ring)
  BY <1>1, ScannedOccupied
     DEF mq_service_expire, mq_service_sent, mq_service_deferred,
         mq_service_exhausted, mq_service_fatal, Transmits
<1>3. g_ring[s] \in Entry /\ EntryConsistent(g_ring[s]) /\ g_ring[s].state # "FREE"
  BY <1>2 DEF IInv, RingOK, EntriesConsistent, Occupied
<1>4. g_in_flight \in Int
  BY SlotSets DEF IInv, Counted, InFlight
<1>5. CASE mq_service_expire(s)
  BY <1>2, <1>5, RemoveOK DEF mq_service_expire
<1>6. ASSUME NEW r \in Receipts, mq_service_sent(s, r)
      PROVE  IInv'
  <2> DEFINE e == SentEntry(g_ring[s], r)
  <2>1. e \in Entry /\ EntryConsistent(e) /\ e.state = "AWAITING_ACK"
    BY <1>3, <1>6, EntryTypes, EntryFields
       DEF mq_service_sent, Transmits, SentEntry
  <2>2. g_ring' = [g_ring EXCEPT ![s] = e]
    BY <1>6 DEF mq_service_sent
  <2>3. g_in_flight' = g_in_flight + 1
           - (IF g_ring[s].state = "AWAITING_ACK" THEN 1 ELSE 0)
    BY <1>4, <1>6 DEF mq_service_sent
  <2>4. mq_advance_head /\ UNCHANGED <<g_tail, g_count>>
    BY <1>6 DEF mq_service_sent
  <2> QED
    BY <1>2, <2>1, <2>2, <2>3, <2>4, RewriteOK
<1>7. CASE mq_service_deferred(s)
  <2> DEFINE e == DeferredEntry(g_ring[s])
  <2>1. e \in Entry /\ EntryConsistent(e) /\ e.state = "PENDING"
    BY <1>3, <1>7, EntryTypes, EntryFields DEF mq_service_deferred, DeferredEntry
  <2>2. g_ring' = [g_ring EXCEPT ![s] = e]
    BY <1>7 DEF mq_service_deferred
  <2>3. g_in_flight' = g_in_flight + 0
           - (IF g_ring[s].state = "AWAITING_ACK" THEN 1 ELSE 0)
    BY <1>4, <1>7 DEF mq_service_deferred
  <2>4. mq_advance_head /\ UNCHANGED <<g_tail, g_count>>
    BY <1>7 DEF mq_service_deferred
  <2> QED
    BY <1>2, <2>1, <2>2, <2>3, <2>4, RewriteOK
<1>8. CASE mq_service_exhausted(s)
  BY <1>2, <1>8, RemoveOK DEF mq_service_exhausted
<1>9. CASE mq_service_fatal(s)
  BY <1>2, <1>9, RemoveOK DEF mq_service_fatal
<1> QED
  BY <1>1, <1>5, <1>6, <1>7, <1>8, <1>9

\* No step of the queue leaves the invariant.
LEMMA NextOK == IInv /\ [MQNext]_queueVars => IInv'
<1> SUFFICES ASSUME IInv, [MQNext]_queueVars PROVE IInv'
  OBVIOUS
<1>1. ASSUME NEW f \in Friends, NEW p \in Payloads, mq_enqueue(f, p)
      PROVE  IInv'
  BY <1>1, EnqueueOK
<1>2. ASSUME NEW f \in Friends, NEW r \in Receipts, mq_confirm(f, r)
      PROVE  IInv'
  <2>1. PICK s \in Slots : Confirms(f, r, s) /\ Remove(s)
    BY <1>2 DEF mq_confirm
  <2>2. s \in Occupied(g_ring)
    BY <2>1 DEF Confirms, First, Matches, InFlight, Occupied
  <2> QED
    BY <2>1, <2>2, RemoveOK
<1>3. CASE mq_service
  BY <1>3, ServiceOK
<1>4. CASE ClockTick
  BY <1>4, ClockTickOK
<1>5. CASE UNCHANGED queueVars
  BY <1>5 DEF queueVars, IInv, RingOK, Counted, HeadIsOccupied, EntriesConsistent
<1> QED
  BY <1>1, <1>2, <1>3, <1>4, <1>5 DEF MQNext

\* What the invariant says of the two counters.
LEMMA InvImplies == IInv => TypeOK /\ mq_check_invariants
<1> SUFFICES ASSUME IInv PROVE TypeOK /\ mq_check_invariants
  OBVIOUS
<1>1. /\ Cardinality(Occupied(g_ring)) \in 0 .. MQ_CAPACITY
      /\ Cardinality(InFlight(g_ring)) \in 0 .. MQ_CAPACITY
  BY SlotSets DEF Occupied, InFlight
<1> QED
  BY <1>1, CapacityAssumption DEF IInv, RingOK, Counted, TypeOK, mq_check_invariants

-----------------------------------------------------------------------------
(* Theorems *)

\* The inductive invariant holds in every reachable state.
THEOREM Invariance == MQSpec => []IInv
<1>1. MQInit => IInv
  BY InitOK
<1>2. IInv /\ [MQNext]_queueVars => IInv'
  BY NextOK
<1> QED
  BY <1>1, <1>2, PTL DEF MQSpec

\* Every variable keeps its type; no stored entry has used up its attempts.
THEOREM TypeCorrect == MQSpec => []TypeOK
<1>1. IInv => TypeOK
  BY InvImplies
<1> QED
  BY <1>1, Invariance, PTL

\* The assertions of mq_check_invariants never fire, whatever the transport
\* answers and in whatever order messages are confirmed and retired.
THEOREM AssertionsHold == MQSpec => []mq_check_invariants
<1>1. IInv => mq_check_invariants
  BY InvImplies
<1> QED
  BY <1>1, Invariance, PTL

\* The head always is on an occupied slot, or level with the tail.
THEOREM HeadCorrect == MQSpec => []HeadIsOccupied
<1>1. IInv => HeadIsOccupied
  BY DEF IInv
<1> QED
  BY <1>1, Invariance, PTL

\* The fields of every slot agree with its state.
THEOREM EntriesCorrect == MQSpec => []EntriesConsistent
<1>1. IInv => EntriesConsistent
  BY DEF IInv
<1> QED
  BY <1>1, Invariance, PTL

-----------------------------------------------------------------------------
(* The acknowledgement window *)

\* What a scan finds due is not within its acknowledgement window.
LEMMA ScannedNotWaiting ==
    ASSUME NEW s \in Slots, Scanned(s), g_ring[s] \in Entry
    PROVE  ~(g_ring[s].state = "AWAITING_ACK" /\ g_ring[s].age < MQ_ACK_TIMEOUT_SEC)
BY TimeoutsAssumption DEF Scanned, First, Due, Entry

\* A call of mq_service writes to the slot it has scanned and to no other.
LEMMA ServiceTouchesDue ==
    ASSUME IInv, mq_service
    PROVE  \E s \in Slots : /\ Scanned(s)
                            /\ \A t \in Slots \ {s} : g_ring'[t] = g_ring[t]
<1>1. PICK s \in Slots : \/ mq_service_expire(s)
                         \/ \E r \in Receipts : mq_service_sent(s, r)
                         \/ mq_service_deferred(s)
                         \/ mq_service_exhausted(s)
                         \/ mq_service_fatal(s)
  BY DEF mq_service
<1>2. Scanned(s)
  BY <1>1 DEF mq_service_expire, mq_service_sent, mq_service_deferred,
              mq_service_exhausted, mq_service_fatal, Transmits
<1>3. \E e : g_ring' = [g_ring EXCEPT ![s] = e]
  BY <1>1 DEF mq_service_expire, mq_service_sent, mq_service_deferred,
              mq_service_exhausted, mq_service_fatal, Remove, mq_release_slot
<1>4. \A t \in Slots \ {s} : g_ring'[t] = g_ring[t]
  BY <1>3 DEF IInv, RingOK
<1> QED
  BY <1>2, <1>4

\* Every step leaves a waiting entry alone, ages it or confirms it.
LEMMA NextRespectsWindow ==
    ASSUME IInv, [MQNext]_queueVars, NEW s \in Slots
    PROVE  AckWindowStep(s)
<1> DEFINE e == g_ring[s]
<1> SUFFICES ASSUME e.state = "AWAITING_ACK", e.age < MQ_ACK_TIMEOUT_SEC
             PROVE  \/ g_ring'[s] \in {e, [e EXCEPT !.age = e.age + 1]}
                    \/ mq_confirm(e.friendnum, e.receipt)
  BY DEF AckWindowStep
<1>1. e \in Entry /\ EntryConsistent(e)
  BY DEF IInv, RingOK, EntriesConsistent
<1>2. ASSUME NEW f \in Friends, NEW p \in Payloads, mq_enqueue(f, p)
      PROVE  g_ring'[s] = e
  BY <1>2 DEF mq_enqueue, Free, IInv, RingOK
<1>3. ASSUME NEW f \in Friends, NEW r \in Receipts, mq_confirm(f, r)
      PROVE  g_ring'[s] = e \/ mq_confirm(e.friendnum, e.receipt)
  <2>1. PICK t \in Slots : Confirms(f, r, t) /\ Remove(t)
    BY <1>3 DEF mq_confirm
  <2>2. CASE t = s
    <3>1. e.friendnum = f /\ e.receipt = r
      BY <2>1, <2>2 DEF Confirms, First, Matches
    <3> QED
      BY <1>3, <3>1
  <2>3. CASE t # s
    BY <2>1, <2>3 DEF Remove, mq_release_slot, IInv, RingOK
  <2> QED
    BY <2>2, <2>3
<1>4. CASE mq_service
  <2>1. PICK t \in Slots : /\ Scanned(t)
                           /\ \A u \in Slots \ {t} : g_ring'[u] = g_ring[u]
    BY <1>4, ServiceTouchesDue
  <2>2. t # s
    BY <1>1, <2>1, ScannedNotWaiting
  <2> QED
    BY <2>1, <2>2
<1>5. CASE ClockTick
  BY <1>1, <1>5 DEF ClockTick, EntryConsistent
<1>6. CASE UNCHANGED queueVars
  BY <1>6 DEF queueVars
<1> QED
  BY <1>2, <1>3, <1>4, <1>5, <1>6 DEF MQNext

\* No call made on behalf of another message disturbs a message whose
\* acknowledgement may still arrive in time.
THEOREM WindowRespected == MQSpec => AckWindowRespected
<1>1. IInv /\ [MQNext]_queueVars => [\A s \in Slots : AckWindowStep(s)]_queueVars
  BY NextRespectsWindow
<1> QED
  BY <1>1, Invariance, PTL DEF MQSpec, AckWindowRespected

=============================================================================
