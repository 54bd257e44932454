--------------------------- MODULE DeliveryProofs ---------------------------
(***************************************************************************)
(* Proofs about what becomes of a message in the delivery queue.  First    *)
(* the books of the queue over any transport: no message is lost or        *)
(* counted twice, none is given up without cause, and the ring implements  *)
(* the safety part of the contract in msg_queue.h, for every capacity,     *)
(* attempt budget and pair of timeouts.  Then the queue on toxcore: a      *)
(* receipt identifies one message in flight, and only messages that have   *)
(* arrived are confirmed, for any number of friends, messages and          *)
(* receipts, and whatever is lost, delayed or reordered.                   *)
(***************************************************************************)
EXTENDS QueueTransport, MsgQueueProofs

-----------------------------------------------------------------------------
(* The books of the queue *)

\* The counters of mq_stats.
Stats == [total_enqueued : Nat, total_sent : Nat, total_confirmed : Nat,
          total_dropped : Nat, total_full_rejections : Nat]

\* The types of what MsgQueueLedger adds to the ring.
LedgerType ==
    /\ g_stats \in Stats
    /\ calls \in [Payloads -> Nat]
    /\ confirmed \subseteq Payloads
    /\ dropped \subseteq Payloads

\* The transport has never been called for a message that is yet to come.
Untried == \A p \in Payloads : p > g_stats.total_enqueued => calls[p] = 0

\* The inductive invariant.  The parts need each other: that a settled message
\* keeps its number of calls (SettledForCause) because it is in no slot
\* (Conservation), that the number on record is right when it is settled
\* (AttemptsMatchCalls), and that it was right from the start (Untried).
LInv ==
    /\ IInv
    /\ LedgerType
    /\ Conservation
    /\ AttemptsMatchCalls
    /\ SettledForCause
    /\ Untried

-----------------------------------------------------------------------------
(* Counters *)

\* What counting one event does to the totals.
LEMMA BumpEffect ==
    ASSUME g_stats \in Stats
    PROVE  /\ Bump("total_enqueued") => g_stats' = [g_stats EXCEPT !.total_enqueued = @ + 1]
           /\ Bump("total_sent") => g_stats' = [g_stats EXCEPT !.total_sent = @ + 1]
           /\ Bump("total_confirmed") => g_stats' = [g_stats EXCEPT !.total_confirmed = @ + 1]
           /\ Bump("total_dropped") => g_stats' = [g_stats EXCEPT !.total_dropped = @ + 1]
           /\ Bump("total_full_rejections") =>
                 g_stats' = [g_stats EXCEPT !.total_full_rejections = @ + 1]
BY DEF Bump, Stats

-----------------------------------------------------------------------------
(* What the ring holds after each kind of change *)

\* No two slots hold the same message.
Distinct ==
    \A s, t \in Occupied(g_ring) : g_ring[s].payload = g_ring[t].payload => s = t

\* Both counters are numbers, and an occupied slot holds a message.
LEMMA RingFacts ==
    ASSUME IInv
    PROVE  /\ g_count \in Nat /\ g_in_flight \in Nat
           /\ \A s \in Occupied(g_ring) :
                 /\ s \in Slots /\ g_ring[s] \in Entry /\ g_ring[s].state # "FREE"
                 /\ g_ring[s].payload \in Payloads
                 /\ g_ring[s].payload \in Stored(g_ring)
                 /\ Charged(g_ring[s]) \in 0 .. MQ_MAX_ATTEMPTS
           /\ Stored(g_ring) \subseteq Payloads
<1>1. g_count \in Nat /\ g_in_flight \in Nat
  BY SlotSets DEF IInv, Counted, Occupied, InFlight
<1>2. ASSUME NEW s \in Occupied(g_ring)
      PROVE  /\ s \in Slots /\ g_ring[s] \in Entry /\ g_ring[s].state # "FREE"
             /\ g_ring[s].payload \in Payloads
             /\ g_ring[s].payload \in Stored(g_ring)
             /\ Charged(g_ring[s]) \in 0 .. MQ_MAX_ATTEMPTS
  <2>1. s \in Slots /\ g_ring[s] \in Entry /\ g_ring[s].state # "FREE"
    BY DEF IInv, RingOK, Occupied
  <2>2. g_ring[s].payload \in Payloads
    BY <2>1 DEF IInv, EntriesConsistent, EntryConsistent, Entry
  <2>3. g_ring[s].payload \in Stored(g_ring)
    BY DEF Stored
  <2>4. Charged(g_ring[s]) \in 0 .. MQ_MAX_ATTEMPTS
    BY <2>1, AttemptsAssumption DEF Charged, Entry
  <2> QED
    BY <2>1, <2>2, <2>3, <2>4
<1>3. Stored(g_ring) \subseteq Payloads
  BY <1>2 DEF Stored
<1> QED
  BY <1>1, <1>2, <1>3

\* A released slot takes its message along, and no other.
LEMMA RemoveEffect ==
    ASSUME IInv, Distinct, NEW s \in Occupied(g_ring), Remove(s)
    PROVE  /\ Occupied(g_ring') = Occupied(g_ring) \ {s}
           /\ \A t \in Occupied(g_ring') : g_ring'[t] = g_ring[t]
           /\ Stored(g_ring') = Stored(g_ring) \ {g_ring[s].payload}
           /\ g_count' = g_count - 1
           /\ g_in_flight' = IF g_ring[s].state = "AWAITING_ACK"
                               THEN g_in_flight - 1 ELSE g_in_flight
<1>1. s \in Slots /\ g_ring \in [Slots -> Entry]
  BY RingFacts DEF IInv, RingOK
<1>2. g_ring' = [g_ring EXCEPT ![s] = FreeEntry] /\ FreeEntry.state = "FREE"
  BY DEF Remove, mq_release_slot, FreeEntry
<1>3. \A t \in Slots \ {s} : g_ring'[t] = g_ring[t]
  BY <1>1, <1>2
<1>4. Occupied(g_ring') = Occupied(g_ring) \ {s}
  BY <1>1, <1>2 DEF Occupied
<1>5. \A t \in Occupied(g_ring') : g_ring'[t] = g_ring[t]
  BY <1>3, <1>4 DEF Occupied
<1>6. Stored(g_ring') = Stored(g_ring) \ {g_ring[s].payload}
  BY <1>4, <1>5 DEF Stored, Distinct
<1> QED
  BY <1>4, <1>5, <1>6 DEF Remove, mq_release_slot

\* A delivery attempt leaves every message in its slot.
LEMMA RewriteEffect ==
    ASSUME IInv, NEW s \in Occupied(g_ring), NEW e,
           e.state # "FREE", e.payload = g_ring[s].payload,
           g_ring' = [g_ring EXCEPT ![s] = e]
    PROVE  /\ Occupied(g_ring') = Occupied(g_ring)
           /\ g_ring'[s] = e
           /\ \A t \in Occupied(g_ring) \ {s} : g_ring'[t] = g_ring[t]
           /\ \A t \in Occupied(g_ring) : g_ring'[t].payload = g_ring[t].payload
           /\ Stored(g_ring') = Stored(g_ring)
<1>1. s \in Slots /\ g_ring \in [Slots -> Entry] /\ g_ring[s].state # "FREE"
  BY RingFacts DEF IInv, RingOK
<1>2. g_ring'[s] = e /\ \A t \in Slots \ {s} : g_ring'[t] = g_ring[t]
  BY <1>1
<1>3. Occupied(g_ring') = Occupied(g_ring)
  BY <1>1, <1>2 DEF Occupied
<1>4. \A t \in Occupied(g_ring) \ {s} : g_ring'[t] = g_ring[t]
  BY <1>2 DEF Occupied
<1>5. \A t \in Occupied(g_ring) : g_ring'[t].payload = g_ring[t].payload
  BY <1>2, <1>4
<1>6. Stored(g_ring') = Stored(g_ring)
  BY <1>3, <1>5 DEF Stored
<1> QED
  BY <1>2, <1>3, <1>4, <1>5, <1>6

\* A step of the ledger is a step of the queue, or none.
LEMMA LedgerQueueStep == [LNext]_ledgerVars => [MQNext]_queueVars
<1> SUFFICES ASSUME [LNext]_ledgerVars PROVE [MQNext]_queueVars
  OBVIOUS
<1>1. ASSUME NEW f \in Friends, LEnqueue(f) PROVE MQNext
  BY <1>1 DEF LEnqueue, MQNext
<1>2. CASE LEnqueueFull
  BY <1>2 DEF LEnqueueFull, mq_enqueue_full
<1>3. ASSUME NEW f \in Friends, NEW r \in Receipts, LConfirm(f, r) PROVE MQNext
  BY <1>3 DEF LConfirm, mq_confirm, MQNext
<1>4. CASE LService
  BY <1>4 DEF LService, LExpire, LSent, LDeferred, LExhausted, LFatal, mq_service, MQNext
<1>5. CASE LTick
  BY <1>5 DEF LTick, MQNext
<1>6. CASE UNCHANGED ledgerVars
  BY <1>6 DEF ledgerVars
<1> QED
  BY <1>1, <1>2, <1>3, <1>4, <1>5, <1>6 DEF LNext

-----------------------------------------------------------------------------
(* One lemma per kind of event *)

\* mq_enqueue: the next number is stored, untried.
LEMMA EnqueueKept ==
    ASSUME LInv, IInv', NEW f \in Friends, LEnqueue(f)
    PROVE  LInv'
<1> DEFINE p == g_stats.total_enqueued + 1
<1> USE DEF LInv, LedgerType
<1>1. /\ p \in Payloads
      /\ g_stats' = [g_stats EXCEPT !.total_enqueued = @ + 1]
      /\ UNCHANGED <<calls, confirmed, dropped, refused>>
  BY BumpEffect DEF LEnqueue, historyVars
<1>2. g_stats.total_enqueued \in Nat /\ g_stats.total_sent \in Nat
      /\ g_stats.total_confirmed \in Nat /\ g_stats.total_dropped \in Nat
  BY DEF Stats
<1>3. /\ g_stats' \in Stats
      /\ g_stats'.total_enqueued = p
      /\ g_stats'.total_sent = g_stats.total_sent
      /\ g_stats'.total_confirmed = g_stats.total_confirmed
      /\ g_stats'.total_dropped = g_stats.total_dropped
  BY <1>1 DEF Stats
<1>4. PICK s \in Free(g_ring) :
         /\ g_ring' = [g_ring EXCEPT ![s] = PendingEntry(f, p)]
         /\ g_count' = g_count + 1
         /\ g_in_flight' = g_in_flight
  BY DEF LEnqueue, mq_enqueue
<1>5. s \in Slots /\ s \notin Occupied(g_ring) /\ g_ring \in [Slots -> Entry]
  BY DEF Free, Occupied, IInv, RingOK
<1>6. g_ring'[s] = PendingEntry(f, p) /\ \A t \in Slots \ {s} : g_ring'[t] = g_ring[t]
  BY <1>4, <1>5
<1>7. Occupied(g_ring') = Occupied(g_ring) \cup {s}
  BY <1>5, <1>6 DEF Occupied, PendingEntry
<1>8. \A t \in Occupied(g_ring) : g_ring'[t] = g_ring[t]
  BY <1>5, <1>6 DEF Occupied
<1>9. g_ring'[s].payload = p /\ Charged(g_ring'[s]) = 0
  BY <1>6 DEF PendingEntry, Charged
<1>10. Stored(g_ring') = Stored(g_ring) \cup {p}
  BY <1>7, <1>8, <1>9 DEF Stored
<1>11. p \notin Stored(g_ring) \cup confirmed \cup dropped
  BY <1>2 DEF Conservation
<1>12. Conservation'
  <2>1. (\A a, b \in Occupied(g_ring) : g_ring[a].payload = g_ring[b].payload => a = b)'
    <3>1. \A t \in Occupied(g_ring) : g_ring'[t].payload # p
      BY <1>8, <1>11 DEF Stored
    <3> QED
      BY <1>7, <1>8, <1>9, <3>1 DEF Conservation
  <2>2. 1 .. p = (1 .. g_stats.total_enqueued) \cup {p}
    BY <1>2
  <2>3. Stored(g_ring') \cup confirmed \cup dropped = 1 .. p
    BY <1>10, <2>2 DEF Conservation
  <2>4. (Stored(g_ring) \cap (confirmed \cup dropped) = {})'
    BY <1>1, <1>10, <1>11 DEF Conservation
  <2>5. /\ g_stats'.total_enqueued =
              g_count' + g_stats'.total_confirmed + g_stats'.total_dropped
        /\ g_stats'.total_sent >= g_stats'.total_confirmed + g_in_flight'
    BY <1>2, <1>3, <1>4, RingFacts DEF Conservation
  <2> QED
    BY <1>1, <1>3, <2>1, <2>3, <2>4, <2>5 DEF Conservation
<1>13. AttemptsMatchCalls'
  <2>1. calls[p] = 0
    BY <1>1, <1>2 DEF Untried
  <2> QED
    BY <1>1, <1>7, <1>8, <1>9, <2>1 DEF AttemptsMatchCalls
<1>14. SettledForCause'
  BY <1>1 DEF SettledForCause
<1>15. Untried'
  BY <1>1, <1>2, <1>3, PayloadsAssumption DEF Untried
<1> QED
  BY <1>1, <1>3, <1>12, <1>13, <1>14, <1>15

\* A call of the transport after which the message is still in its slot.
LEMMA AttemptKept ==
    ASSUME LInv, IInv', NEW s \in Occupied(g_ring), NEW e,
           e.state # "FREE", e.payload = g_ring[s].payload,
           Charged(e) = Charged(g_ring[s]) + 1,
           g_ring' = [g_ring EXCEPT ![s] = e],
           Called(s),
           g_count' = g_count,
           \/ g_in_flight' <= g_in_flight + 1 /\ Bump("total_sent")
           \/ g_in_flight' <= g_in_flight /\ g_stats' = g_stats,
           UNCHANGED <<confirmed, dropped, refused>>
    PROVE  LInv'
<1> DEFINE p == g_ring[s].payload
<1> USE DEF LInv, LedgerType
<1>1. g_stats.total_enqueued \in Nat /\ g_stats.total_sent \in Nat
      /\ g_stats.total_confirmed \in Nat /\ g_stats.total_dropped \in Nat
  BY DEF Stats
<1>2. /\ g_stats' \in Stats
      /\ g_stats'.total_enqueued = g_stats.total_enqueued
      /\ g_stats'.total_confirmed = g_stats.total_confirmed
      /\ g_stats'.total_dropped = g_stats.total_dropped
      /\ \/ g_in_flight' <= g_in_flight + 1 /\ g_stats'.total_sent = g_stats.total_sent + 1
         \/ g_in_flight' <= g_in_flight /\ g_stats'.total_sent = g_stats.total_sent
  BY BumpEffect DEF Stats
<1>3. /\ Occupied(g_ring') = Occupied(g_ring)
      /\ g_ring'[s] = e
      /\ \A t \in Occupied(g_ring) \ {s} : g_ring'[t] = g_ring[t]
      /\ \A t \in Occupied(g_ring) : g_ring'[t].payload = g_ring[t].payload
      /\ Stored(g_ring') = Stored(g_ring)
  BY RewriteEffect
<1>4. p \in Payloads /\ p \in Stored(g_ring)
  BY RingFacts
<1>5. /\ calls' \in [Payloads -> Nat]
      /\ calls'[p] = calls[p] + 1
      /\ \A q \in Payloads \ {p} : calls'[q] = calls[q]
  BY <1>4 DEF Called
<1>6. Conservation'
  <2>1. g_in_flight \in Nat /\ g_in_flight' \in Nat
    BY RingFacts, SlotSets DEF IInv, Counted, InFlight
  <2>2. g_stats'.total_sent >= g_stats'.total_confirmed + g_in_flight'
    BY <1>1, <1>2, <2>1 DEF Conservation
  <2>3. \A t, u \in Occupied(g_ring') : g_ring'[t].payload = g_ring'[u].payload => t = u
    BY <1>3 DEF Conservation
  <2>4. /\ Stored(g_ring') \cap (confirmed' \cup dropped') = {} /\ confirmed' \cap dropped' = {}
        /\ Stored(g_ring') \cup confirmed' \cup dropped' = 1 .. g_stats'.total_enqueued
    BY <1>2, <1>3 DEF Conservation
  <2>5. g_stats'.total_enqueued = g_count' + g_stats'.total_confirmed + g_stats'.total_dropped
    BY <1>2 DEF Conservation
  <2> QED
    BY <2>2, <2>3, <2>4, <2>5 DEF Conservation
<1>7. AttemptsMatchCalls'
  <2>1. ASSUME NEW t \in Occupied(g_ring), t # s
        PROVE  calls'[g_ring'[t].payload] = Charged(g_ring'[t])
    <3>1. g_ring[t].payload # p /\ g_ring[t].payload \in Payloads
      BY <2>1, RingFacts DEF Conservation
    <3> QED
      BY <1>3, <1>5, <2>1, <3>1 DEF AttemptsMatchCalls
  <2>2. calls'[g_ring'[s].payload] = Charged(g_ring'[s])
    BY <1>3, <1>5 DEF AttemptsMatchCalls
  <2> QED
    BY <1>3, <2>1, <2>2 DEF AttemptsMatchCalls
<1>8. SettledForCause'
  BY <1>4, <1>5 DEF SettledForCause, Conservation
<1>9. Untried'
  <2>1. p \in 1 .. g_stats.total_enqueued
    BY <1>4 DEF Conservation
  <2> QED
    BY <1>1, <1>2, <1>5, <2>1 DEF Untried
<1> QED
  BY <1>2, <1>5, <1>6, <1>7, <1>8, <1>9

\* mq_confirm: a message that waits for its acknowledgement is settled.
LEMMA ConfirmKept ==
    ASSUME LInv, IInv', NEW s \in InFlight(g_ring), Remove(s),
           Bump("total_confirmed"),
           confirmed' = confirmed \cup {g_ring[s].payload},
           UNCHANGED <<calls, dropped, refused>>
    PROVE  LInv'
<1> DEFINE p == g_ring[s].payload
<1> USE DEF LInv, LedgerType
<1>1. s \in Occupied(g_ring) /\ g_ring[s].state = "AWAITING_ACK"
  BY DEF InFlight, Occupied
<1>2. g_stats.total_enqueued \in Nat /\ g_stats.total_sent \in Nat
      /\ g_stats.total_confirmed \in Nat /\ g_stats.total_dropped \in Nat
  BY DEF Stats
<1>3. /\ g_stats' \in Stats
      /\ g_stats'.total_enqueued = g_stats.total_enqueued
      /\ g_stats'.total_sent = g_stats.total_sent
      /\ g_stats'.total_confirmed = g_stats.total_confirmed + 1
      /\ g_stats'.total_dropped = g_stats.total_dropped
  BY BumpEffect DEF Stats
<1>4. /\ Occupied(g_ring') = Occupied(g_ring) \ {s}
      /\ \A t \in Occupied(g_ring') : g_ring'[t] = g_ring[t]
      /\ Stored(g_ring') = Stored(g_ring) \ {p}
      /\ g_count' = g_count - 1
      /\ g_in_flight' = g_in_flight - 1
  BY <1>1, RemoveEffect DEF Conservation, Distinct
<1>5. p \in Payloads /\ p \in Stored(g_ring) /\ g_count \in Nat /\ g_in_flight \in Nat
  BY <1>1, RingFacts
<1>6. Conservation'
  <2>1. (\A a, b \in Occupied(g_ring) : g_ring[a].payload = g_ring[b].payload => a = b)'
    BY <1>4 DEF Conservation
  <2>2. /\ (Stored(g_ring) \cap (confirmed \cup dropped) = {})'
        /\ (confirmed \cap dropped = {})'
        /\ (Stored(g_ring) \cup confirmed \cup dropped)'
              = Stored(g_ring) \cup confirmed \cup dropped
    BY <1>4, <1>5 DEF Conservation
  <2>3. /\ g_stats'.total_enqueued =
              g_count' + g_stats'.total_confirmed + g_stats'.total_dropped
        /\ g_stats'.total_sent >= g_stats'.total_confirmed + g_in_flight'
    BY <1>2, <1>3, <1>4, <1>5 DEF Conservation
  <2> QED
    BY <1>3, <2>1, <2>2, <2>3 DEF Conservation
<1>7. AttemptsMatchCalls'
  BY <1>4 DEF AttemptsMatchCalls
<1>8. SettledForCause'
  <2>1. calls[p] = Charged(g_ring[s])
    BY <1>1 DEF AttemptsMatchCalls
  <2>2. Charged(g_ring[s]) \in 1 .. MQ_MAX_ATTEMPTS
    BY <1>1, RingFacts, AttemptsAssumption DEF Charged, Entry
  <2> QED
    BY <2>1, <2>2 DEF SettledForCause
<1>9. Untried'
  BY <1>3 DEF Untried
<1> QED
  BY <1>3, <1>5, <1>6, <1>7, <1>8, <1>9

\* mq_retire: a message is given up, after a last call or without one.
LEMMA RetireKept ==
    ASSUME LInv, IInv', NEW s \in Occupied(g_ring), Remove(s), Retired(s),
           Called(s) \/ calls' = calls,
           refused \subseteq refused',
           g_ring[s].payload \in refused'
              \/ calls'[g_ring[s].payload] = MQ_MAX_ATTEMPTS,
           UNCHANGED confirmed
    PROVE  LInv'
<1> DEFINE p == g_ring[s].payload
<1> USE DEF LInv, LedgerType
<1>1. g_stats.total_enqueued \in Nat /\ g_stats.total_sent \in Nat
      /\ g_stats.total_confirmed \in Nat /\ g_stats.total_dropped \in Nat
  BY DEF Stats
<1>2. /\ g_stats' \in Stats
      /\ g_stats'.total_enqueued = g_stats.total_enqueued
      /\ g_stats'.total_sent = g_stats.total_sent
      /\ g_stats'.total_confirmed = g_stats.total_confirmed
      /\ g_stats'.total_dropped = g_stats.total_dropped + 1
      /\ dropped' = dropped \cup {p}
  BY BumpEffect DEF Stats, Retired
<1>3. /\ Occupied(g_ring') = Occupied(g_ring) \ {s}
      /\ \A t \in Occupied(g_ring') : g_ring'[t] = g_ring[t]
      /\ Stored(g_ring') = Stored(g_ring) \ {p}
      /\ g_count' = g_count - 1
      /\ g_in_flight' = IF g_ring[s].state = "AWAITING_ACK"
                          THEN g_in_flight - 1 ELSE g_in_flight
  BY RemoveEffect DEF Conservation, Distinct
<1>4. p \in Payloads /\ p \in Stored(g_ring) /\ g_count \in Nat /\ g_in_flight \in Nat
  BY RingFacts
<1>5. calls' \in [Payloads -> Nat] /\ \A q \in Payloads \ {p} : calls'[q] = calls[q]
  BY <1>4 DEF Called
<1>6. Conservation'
  <2>1. (\A a, b \in Occupied(g_ring) : g_ring[a].payload = g_ring[b].payload => a = b)'
    BY <1>3 DEF Conservation
  <2>2. /\ (Stored(g_ring) \cap (confirmed \cup dropped) = {})'
        /\ (confirmed \cap dropped = {})'
        /\ (Stored(g_ring) \cup confirmed \cup dropped)'
              = Stored(g_ring) \cup confirmed \cup dropped
    BY <1>2, <1>3, <1>4 DEF Conservation
  <2>3. /\ g_stats'.total_enqueued =
              g_count' + g_stats'.total_confirmed + g_stats'.total_dropped
        /\ g_stats'.total_sent >= g_stats'.total_confirmed + g_in_flight'
    BY <1>1, <1>2, <1>3, <1>4 DEF Conservation
  <2> QED
    BY <1>2, <2>1, <2>2, <2>3 DEF Conservation
<1>7. AttemptsMatchCalls'
  <2>1. ASSUME NEW t \in Occupied(g_ring) \ {s}
        PROVE  g_ring[t].payload # p /\ g_ring[t].payload \in Payloads
    BY <2>1, RingFacts DEF Conservation
  <2> QED
    BY <1>3, <1>5, <2>1 DEF AttemptsMatchCalls
<1>8. SettledForCause'
  <2>1. \A q \in confirmed \cup dropped : calls'[q] = calls[q]
    BY <1>4, <1>5 DEF Conservation
  <2> QED
    BY <1>2, <2>1 DEF SettledForCause
<1>9. Untried'
  <2>1. p \in 1 .. g_stats.total_enqueued
    BY <1>4 DEF Conservation
  <2> QED
    BY <1>1, <1>2, <1>5, <2>1 DEF Untried
<1> QED
  BY <1>2, <1>4, <1>5, <1>6, <1>7, <1>8, <1>9

\* Nothing that the ledger is about changes when time passes.
LEMMA TickKept ==
    ASSUME LInv, IInv', LTick
    PROVE  LInv' /\ Stored(g_ring') = Stored(g_ring)
<1> USE DEF LInv, LedgerType
<1>1. UNCHANGED <<g_count, g_in_flight, g_stats, calls, confirmed, dropped, refused>>
  BY DEF LTick, ClockTick, historyVars
<1>2. ASSUME NEW s \in Slots
      PROVE  /\ g_ring'[s].state = g_ring[s].state
             /\ g_ring'[s].payload = g_ring[s].payload
             /\ g_ring'[s].attempts = g_ring[s].attempts
  <2>1. g_ring[s] \in Entry
    BY DEF IInv, RingOK
  <2>2. g_ring'[s] = g_ring[s]
        \/ g_ring'[s] = [g_ring[s] EXCEPT !.age = g_ring[s].age + 1]
    BY DEF LTick, ClockTick
  <2> QED
    BY <2>1, <2>2 DEF Entry
<1>3. Occupied(g_ring') = Occupied(g_ring)
  BY <1>2 DEF Occupied
<1>4. \A s \in Occupied(g_ring) : /\ g_ring'[s].payload = g_ring[s].payload
                                  /\ Charged(g_ring'[s]) = Charged(g_ring[s])
  BY <1>2 DEF Occupied, Charged
<1>5. Stored(g_ring') = Stored(g_ring)
  BY <1>3, <1>4 DEF Stored
<1> QED
  BY <1>1, <1>3, <1>4, <1>5
     DEF Conservation, AttemptsMatchCalls, SettledForCause, Untried

-----------------------------------------------------------------------------
(* The invariant *)

\* Nothing is stored, called or settled at the start.
LEMMA LedgerInit == LInit => LInv
<1> SUFFICES ASSUME LInit PROVE LInv
  OBVIOUS
<1>1. IInv
  BY InitOK DEF LInit, MQInit
<1>2. LedgerType
  BY DEF LInit, LedgerType, Stats
<1>3. Occupied(g_ring) = {} /\ Stored(g_ring) = {}
  BY DEF LInit, mq_init, Occupied, FreeEntry, Stored
<1>4. Conservation
  BY <1>3 DEF LInit, mq_init, Conservation
<1> QED
  BY <1>1, <1>2, <1>3, <1>4
     DEF LInv, LInit, AttemptsMatchCalls, SettledForCause, Untried

\* What is known of the entry that mq_service acts upon.
LEMMA ScannedFacts ==
    ASSUME LInv, NEW s \in Slots, Scanned(s)
    PROVE  /\ s \in Occupied(g_ring)
           /\ g_ring[s].payload \in Payloads
           /\ g_ring[s].payload \in Stored(g_ring)
           /\ calls[g_ring[s].payload] = Charged(g_ring[s])
           /\ Charged(g_ring[s]) \in 0 .. MQ_MAX_ATTEMPTS
BY ScannedOccupied, RingFacts DEF LInv, AttemptsMatchCalls

\* A call that goes well, or is to be repeated.
LEMMA SentKept ==
    ASSUME LInv, IInv', NEW s \in Slots, NEW r \in Receipts, LSent(s, r)
    PROVE  LInv' /\ Stored(g_ring') = Stored(g_ring)
<1> DEFINE e == SentEntry(g_ring[s], r)
<1>1. mq_service_sent(s, r) /\ Called(s) /\ Bump("total_sent")
      /\ UNCHANGED <<confirmed, dropped, refused>>
  BY DEF LSent
<1>2. s \in Occupied(g_ring) /\ Charged(g_ring[s]) \in Nat
  BY <1>1, ScannedFacts DEF mq_service_sent, Transmits
<1>3. e.state = "AWAITING_ACK" /\ e.payload = g_ring[s].payload
      /\ Charged(e) = Charged(g_ring[s]) + 1
  BY <1>2 DEF SentEntry, Charged
<1>4. /\ g_ring' = [g_ring EXCEPT ![s] = e]
      /\ g_in_flight' = IF g_ring[s].state = "AWAITING_ACK"
                          THEN g_in_flight ELSE g_in_flight + 1
      /\ g_count' = g_count
  BY <1>1 DEF mq_service_sent
<1>5. g_in_flight' <= g_in_flight + 1
  BY <1>4, RingFacts DEF LInv
<1> HIDE DEF e
<1>6. LInv'
  BY <1>1, <1>2, <1>3, <1>4, <1>5, AttemptKept
<1>7. Stored(g_ring') = Stored(g_ring)
  BY <1>2, <1>3, <1>4, RewriteEffect DEF LInv
<1> QED
  BY <1>6, <1>7

\* A call that is answered "later" counts, and the message stays.
LEMMA DeferredKept ==
    ASSUME LInv, IInv', NEW s \in Slots, LDeferred(s)
    PROVE  LInv' /\ Stored(g_ring') = Stored(g_ring)
<1> DEFINE e == DeferredEntry(g_ring[s])
<1>1. mq_service_deferred(s) /\ Called(s)
      /\ UNCHANGED <<g_stats, confirmed, dropped, refused>>
  BY DEF LDeferred
<1>2. s \in Occupied(g_ring) /\ Charged(g_ring[s]) \in Nat
  BY <1>1, ScannedFacts DEF mq_service_deferred, Transmits
<1>3. e.state = "PENDING" /\ e.payload = g_ring[s].payload
      /\ Charged(e) = Charged(g_ring[s]) + 1
  BY <1>2 DEF DeferredEntry, Charged
<1>4. /\ g_ring' = [g_ring EXCEPT ![s] = e]
      /\ g_in_flight' = IF g_ring[s].state = "AWAITING_ACK"
                          THEN g_in_flight - 1 ELSE g_in_flight
      /\ g_count' = g_count
  BY <1>1 DEF mq_service_deferred
<1>5. g_in_flight' <= g_in_flight
  BY <1>4, RingFacts DEF LInv
<1> HIDE DEF e
<1>6. LInv'
  BY <1>1, <1>2, <1>3, <1>4, <1>5, AttemptKept
<1>7. Stored(g_ring') = Stored(g_ring)
  BY <1>2, <1>3, <1>4, RewriteEffect DEF LInv
<1> QED
  BY <1>6, <1>7

\* The three ways of giving a message up: its calls are used up, or it was
\* refused for good.
LEMMA GivenUpKept ==
    ASSUME LInv, IInv', NEW s \in Slots, LExpire(s) \/ LExhausted(s) \/ LFatal(s)
    PROVE  LInv'
<1>1. s \in Occupied(g_ring) /\ g_ring[s].payload \in Payloads
      /\ calls[g_ring[s].payload] = Charged(g_ring[s])
      /\ Charged(g_ring[s]) \in 0 .. MQ_MAX_ATTEMPTS
  BY ScannedFacts DEF LExpire, LExhausted, LFatal, mq_service_expire,
                      mq_service_exhausted, mq_service_fatal, Transmits
<1>2. calls \in [Payloads -> Nat]
  BY DEF LInv, LedgerType
<1>3. CASE LExpire(s)
  <2>1. calls'[g_ring[s].payload] = MQ_MAX_ATTEMPTS
    BY <1>1, <1>3, AttemptsAssumption DEF LExpire, mq_service_expire
  <2> QED
    BY <1>1, <1>3, <2>1, RetireKept DEF LExpire, mq_service_expire
<1>4. CASE LExhausted(s)
  <2>1. calls'[g_ring[s].payload] = MQ_MAX_ATTEMPTS
    BY <1>1, <1>2, <1>4, AttemptsAssumption
       DEF LExhausted, mq_service_exhausted, Transmits, Called
  <2> QED
    BY <1>1, <1>4, <2>1, RetireKept DEF LExhausted, mq_service_exhausted
<1>5. CASE LFatal(s)
  BY <1>1, <1>5, RetireKept DEF LFatal, mq_service_fatal
<1> QED
  BY <1>3, <1>4, <1>5

\* Every step of the queue keeps the ledger.
LEMMA LedgerNext == LInv /\ [LNext]_ledgerVars => LInv'
<1> SUFFICES ASSUME LInv, [LNext]_ledgerVars PROVE LInv'
  OBVIOUS
<1>1. IInv'
  BY LedgerQueueStep, NextOK DEF LInv
<1>2. ASSUME NEW f \in Friends, LEnqueue(f) PROVE LInv'
  BY <1>1, <1>2, EnqueueKept
<1>3. CASE LEnqueueFull
  <2>1. UNCHANGED <<g_ring, g_count, g_in_flight, calls, confirmed, dropped, refused>>
    BY <1>3 DEF LEnqueueFull, mq_enqueue_full, queueVars, historyVars
  <2>2. /\ g_stats' \in Stats
        /\ g_stats'.total_enqueued = g_stats.total_enqueued
        /\ g_stats'.total_sent = g_stats.total_sent
        /\ g_stats'.total_confirmed = g_stats.total_confirmed
        /\ g_stats'.total_dropped = g_stats.total_dropped
    BY <1>3, BumpEffect DEF LEnqueueFull, LInv, LedgerType, Stats
  <2> QED
    BY <1>1, <2>1, <2>2
       DEF LInv, LedgerType, Conservation, AttemptsMatchCalls, SettledForCause,
           Untried, Occupied, Stored
<1>4. ASSUME NEW f \in Friends, NEW r \in Receipts, LConfirm(f, r) PROVE LInv'
  <2>1. PICK s \in Slots :
           /\ Confirms(f, r, s)
           /\ Remove(s)
           /\ Bump("total_confirmed")
           /\ confirmed' = confirmed \cup {g_ring[s].payload}
           /\ UNCHANGED <<calls, dropped, refused>>
    BY <1>4 DEF LConfirm
  <2>2. s \in InFlight(g_ring)
    BY <2>1 DEF Confirms, First, Matches
  <2> QED
    BY <1>1, <2>1, <2>2, ConfirmKept
<1>5. CASE LService
  BY <1>1, <1>5, SentKept, DeferredKept, GivenUpKept DEF LService
<1>6. CASE LTick
  BY <1>1, <1>6, TickKept
<1>7. CASE UNCHANGED ledgerVars
  BY <1>1, <1>7 DEF ledgerVars, queueVars, historyVars, LInv, LedgerType, Conservation,
                    AttemptsMatchCalls, SettledForCause, Untried, Occupied, Stored
<1> QED
  BY <1>2, <1>3, <1>4, <1>5, <1>6, <1>7 DEF LNext

-----------------------------------------------------------------------------
(* Theorems *)

\* The inductive invariant of the ledger holds in every reachable state.
THEOREM LedgerInvariance == LSpec => []LInv
<1>1. LInit => LInv
  BY LedgerInit
<1>2. LInv /\ [LNext]_ledgerVars => LInv'
  BY LedgerNext
<1> QED
  BY <1>1, <1>2, PTL DEF LSpec

\* No message is lost, none is counted twice, and the totals of mq_stats add up.
THEOREM NothingLost == LSpec => []Conservation
<1>1. LInv => Conservation
  BY DEF LInv
<1> QED
  BY <1>1, LedgerInvariance, PTL

\* The attempt counter tells the number of calls of the transport.
THEOREM AttemptsCounted == LSpec => []AttemptsMatchCalls
<1>1. LInv => AttemptsMatchCalls
  BY DEF LInv
<1> QED
  BY <1>1, LedgerInvariance, PTL

\* A message is given up only for cause, after exactly its budget of calls.
THEOREM GivenUpForCause == LSpec => []SettledForCause
<1>1. LInv => SettledForCause
  BY DEF LInv
<1> QED
  BY <1>1, LedgerInvariance, PTL

-----------------------------------------------------------------------------
(* The contract *)

\* While a slot is free, fewer than MQ_CAPACITY messages are held.
LEMMA RoomForOne ==
    ASSUME IInv, NEW s \in Free(g_ring)
    PROVE  Cardinality(Stored(g_ring)) < MQ_CAPACITY
<1> DEFINE held == [t \in Occupied(g_ring) |-> g_ring[t].payload]
<1>1. Occupied(g_ring) \subseteq Slots \ {s} /\ s \in Slots
  BY DEF Occupied, Free
<1>2. IsFiniteSet(Slots) /\ Cardinality(Slots) \in 0 .. MQ_CAPACITY
  BY SlotSets
<1>3. IsFiniteSet(Slots \ {s}) /\ Cardinality(Slots \ {s}) = Cardinality(Slots) - 1
  BY <1>1, <1>2, FS_RemoveElement
<1>4. /\ IsFiniteSet(Occupied(g_ring))
      /\ Cardinality(Occupied(g_ring)) <= Cardinality(Slots \ {s})
  BY <1>1, <1>3, FS_Subset
<1>5. held \in Surjection(Occupied(g_ring), Stored(g_ring))
  BY DEF Surjection, Stored
<1>6. /\ IsFiniteSet(Stored(g_ring))
      /\ Cardinality(Stored(g_ring)) <= Cardinality(Occupied(g_ring))
  BY <1>4, <1>5, FS_Surjection
<1>7. Cardinality(Stored(g_ring)) \in Nat /\ Cardinality(Occupied(g_ring)) \in Nat
  BY <1>4, <1>6, FS_CardinalityType
<1> QED
  BY <1>2, <1>3, <1>4, <1>6, <1>7, CapacityAssumption

\* The contract counts the messages held as the queue does.
LEMMA SameCardinality == \A S : Contract!Cardinality(S) = Cardinality(S)
BY DEF Contract!Cardinality, Cardinality, Contract!IsFiniteSet, IsFiniteSet

\* Every step of the queue is a step of the contract, or none.
LEMMA StepImplements ==
    ASSUME LInv, [LNext]_ledgerVars
    PROVE  [Contract!DQNext]_(Contract!dqVars)
<1>1. IInv /\ IInv'
  BY LedgerQueueStep, NextOK DEF LInv
<1>2. ASSUME NEW f \in Friends, LEnqueue(f)
      PROVE  Contract!DQNext
  <2> DEFINE p == g_stats.total_enqueued + 1
  <2>1. p \in Payloads /\ UNCHANGED <<calls, confirmed, dropped>>
    BY <1>2 DEF LEnqueue, historyVars
  <2>2. PICK s \in Free(g_ring) : g_ring' = [g_ring EXCEPT ![s] = PendingEntry(f, p)]
    BY <1>2 DEF LEnqueue, mq_enqueue
  <2>3. Stored(g_ring') = Stored(g_ring) \cup {p}
    <3>1. s \in Slots /\ g_ring[s].state = "FREE" /\ g_ring \in [Slots -> Entry]
      BY <1>1 DEF Free, IInv, RingOK
    <3>2. g_ring'[s] = PendingEntry(f, p) /\ \A t \in Slots \ {s} : g_ring'[t] = g_ring[t]
      BY <2>2, <3>1
    <3>3. Occupied(g_ring') = Occupied(g_ring) \cup {s}
      BY <3>1, <3>2 DEF Occupied, PendingEntry
    <3>4. \A t \in Occupied(g_ring) : g_ring'[t].payload = g_ring[t].payload
      BY <3>1, <3>2 DEF Occupied
    <3>5. g_ring'[s].payload = p
      BY <3>2 DEF PendingEntry
    <3> QED
      BY <3>3, <3>4, <3>5 DEF Stored
  <2>4. p \notin Stored(g_ring) \cup confirmed \cup dropped
    <3>1. g_stats.total_enqueued \in Nat
      BY DEF LInv, LedgerType, Stats
    <3> QED
      BY <3>1 DEF LInv, Conservation
  <2>5. Cardinality(Stored(g_ring)) < MQ_CAPACITY
    BY <1>1, RoomForOne
  <2>6. Contract!Accept(p)
    BY <2>1, <2>3, <2>4, <2>5, SameCardinality DEF Contract!Accept
  <2> QED
    BY <2>1, <2>6 DEF Contract!DQNext
<1>3. ASSUME NEW f \in Friends, NEW r \in Receipts, LConfirm(f, r)
      PROVE  Contract!DQNext
  <2>1. PICK s \in Slots :
           /\ Confirms(f, r, s)
           /\ Remove(s)
           /\ confirmed' = confirmed \cup {g_ring[s].payload}
           /\ UNCHANGED <<calls, dropped>>
    BY <1>3 DEF LConfirm
  <2> DEFINE p == g_ring[s].payload
  <2>2. s \in Occupied(g_ring) /\ g_ring[s].state = "AWAITING_ACK"
    BY <2>1 DEF Confirms, First, Matches, InFlight, Occupied
  <2>3. Stored(g_ring') = Stored(g_ring) \ {p}
    BY <1>1, <2>1, <2>2, RemoveEffect DEF LInv, Conservation, Distinct
  <2>4. p \in Payloads /\ p \in Stored(g_ring) /\ g_ring[s] \in Entry
    BY <1>1, <2>2, RingFacts
  <2>5. calls[p] > 0
    BY <2>2, <2>4 DEF LInv, AttemptsMatchCalls, Charged, Entry
  <2>6. Contract!Confirm(p)
    BY <2>1, <2>3, <2>4, <2>5 DEF Contract!Confirm
  <2> QED
    BY <2>4, <2>6 DEF Contract!DQNext, Contract!Settle
<1>4. ASSUME NEW s \in Slots, NEW r \in Receipts, LSent(s, r)
      PROVE  Contract!DQNext
  <2> DEFINE p == g_ring[s].payload
  <2>1. Scanned(s) /\ Charged(g_ring[s]) < MQ_MAX_ATTEMPTS
    BY <1>4 DEF LSent, mq_service_sent, Transmits
  <2>2. Stored(g_ring') = Stored(g_ring)
    BY <1>1, <1>4, SentKept
  <2>3. Contract!Transmit(p)
    BY <1>4, <2>1, <2>2, ScannedFacts DEF LSent, Called, Contract!Transmit
  <2> QED
    BY <2>1, <2>3, ScannedFacts DEF Contract!DQNext
<1>5. ASSUME NEW s \in Slots, LDeferred(s)
      PROVE  Contract!DQNext
  <2> DEFINE p == g_ring[s].payload
  <2>1. Scanned(s) /\ Charged(g_ring[s]) < MQ_MAX_ATTEMPTS
    BY <1>5 DEF LDeferred, mq_service_deferred, Transmits
  <2>2. Stored(g_ring') = Stored(g_ring)
    BY <1>1, <1>5, DeferredKept
  <2>3. Contract!Transmit(p)
    BY <1>5, <2>1, <2>2, ScannedFacts DEF LDeferred, Called, Contract!Transmit
  <2> QED
    BY <2>1, <2>3, ScannedFacts DEF Contract!DQNext
<1>6. ASSUME NEW s \in Slots, LExhausted(s) \/ LFatal(s)
      PROVE  Contract!DQNext
  <2> DEFINE p == g_ring[s].payload
  <2>1. /\ Scanned(s) /\ Charged(g_ring[s]) < MQ_MAX_ATTEMPTS
        /\ Remove(s) /\ Called(s) /\ Retired(s) /\ UNCHANGED confirmed
    BY <1>6 DEF LExhausted, LFatal, mq_service_exhausted, mq_service_fatal, Transmits
  <2>2. Stored(g_ring') = Stored(g_ring) \ {p}
    BY <1>1, <2>1, ScannedFacts, RemoveEffect DEF LInv, Conservation, Distinct
  <2>3. Contract!Refuse(p)
    BY <2>1, <2>2, ScannedFacts DEF Called, Retired, Contract!Refuse
  <2> QED
    BY <2>1, <2>3, ScannedFacts DEF Contract!DQNext, Contract!Settle
<1>7. ASSUME NEW s \in Slots, LExpire(s)
      PROVE  Contract!DQNext
  <2> DEFINE p == g_ring[s].payload
  <2>1. /\ Scanned(s) /\ Charged(g_ring[s]) >= MQ_MAX_ATTEMPTS
        /\ Remove(s) /\ Retired(s) /\ UNCHANGED <<calls, confirmed>>
    BY <1>7 DEF LExpire, mq_service_expire
  <2>2. Stored(g_ring') = Stored(g_ring) \ {p}
    BY <1>1, <2>1, ScannedFacts, RemoveEffect DEF LInv, Conservation, Distinct
  <2>3. calls[p] = MQ_MAX_ATTEMPTS
    BY <2>1, ScannedFacts, AttemptsAssumption
  <2>4. Contract!GiveUp(p)
    BY <2>1, <2>2, <2>3, ScannedFacts DEF Retired, Contract!GiveUp
  <2> QED
    BY <2>1, <2>4, ScannedFacts DEF Contract!DQNext, Contract!Settle
<1>8. CASE LEnqueueFull \/ UNCHANGED ledgerVars
  BY <1>8 DEF LEnqueueFull, mq_enqueue_full, queueVars, historyVars, ledgerVars,
              Contract!dqVars, Stored, Occupied
<1>9. CASE LTick
  BY <1>1, <1>9, TickKept DEF LTick, historyVars, Contract!dqVars
<1>10. CASE LService
  BY <1>10, <1>4, <1>5, <1>6, <1>7 DEF LService
<1> QED
  BY <1>2, <1>3, <1>8, <1>9, <1>10 DEF LNext

\* The ring, its scans, counters and timeouts implement what msg_queue.h
\* promises: a message is held until it is confirmed or given up, never both,
\* never twice, and the transport is called for it MQ_MAX_ATTEMPTS times at most.
THEOREM RingImplementsContract == LSpec => Contract!DQSpec
<1>1. LInit => Contract!DQInit
  BY DEF LInit, mq_init, Contract!DQInit, Stored, Occupied, FreeEntry
<1>2. LInv /\ [LNext]_ledgerVars => [Contract!DQNext]_(Contract!dqVars)
  BY StepImplements
<1> QED
  BY <1>1, <1>2, LedgerInvariance, PTL DEF LSpec, Contract!DQSpec

-----------------------------------------------------------------------------
(* The queue on toxcore *)

\* The types of what QueueTransport adds to the ledger.
NetType ==
    /\ online \subseteq Friends
    /\ last_receipt \in [Friends -> 0 .. MaxReceipt]
    /\ transit \subseteq [friendnum : Friends, receipt : 1 .. MaxReceipt,
                          payload : Payloads \cup {NoPayload}]
    /\ acks \subseteq [friendnum : Friends, receipt : 1 .. MaxReceipt]

\* A slot and a message or acknowledgement with the same friend and receipt.
SameReceipt(s, m) ==
    g_ring[s].friendnum = m.friendnum /\ g_ring[s].receipt = m.receipt

\* Receipts that are about come from toxcore's counter, so the next is new.
ReceiptsIssued ==
    /\ \A s \in InFlight(g_ring) : g_ring[s].receipt <= last_receipt[g_ring[s].friendnum]
    /\ \A m \in transit \cup acks : m.receipt <= last_receipt[m.friendnum]

\* What is on its way under a receipt that a slot waits for is that slot's
\* message, and what was acknowledged under it has arrived.
TransitMatches ==
    \A s \in InFlight(g_ring), m \in transit :
        SameReceipt(s, m) => m.payload = g_ring[s].payload

\* A slot whose receipt is acknowledged has reached its friend.
AcksMatch ==
    \A s \in InFlight(g_ring), a \in acks :
        SameReceipt(s, a) => g_ring[s].payload \in received

\* The inductive invariant.
TInv ==
    /\ LInv
    /\ NetType
    /\ ReceiptsIssued
    /\ ReceiptsUnambiguous
    /\ TransitMatches
    /\ AcksMatch
    /\ ConfirmedWasReceived

-----------------------------------------------------------------------------
(* Slots that wait for an acknowledgement *)

\* No slot begins to wait, and none that goes on waiting is changed.
NoNewWaiter ==
    \A s \in InFlight(g_ring') :
        /\ s \in InFlight(g_ring)
        /\ g_ring'[s].friendnum = g_ring[s].friendnum
        /\ g_ring'[s].receipt = g_ring[s].receipt
        /\ g_ring'[s].payload = g_ring[s].payload

\* An entry that is written in any other state does not wait.
LEMMA WriteNoWaiter ==
    ASSUME IInv, NEW s \in Slots, NEW e, e.state # "AWAITING_ACK",
           g_ring' = [g_ring EXCEPT ![s] = e]
    PROVE  NoNewWaiter
BY DEF NoNewWaiter, InFlight, IInv, RingOK

\* Of all steps of the ledger, only a successful call makes a slot wait.
LEMMA OnlySentWaits ==
    ASSUME LInv,
           \/ \E f \in Friends : LEnqueue(f)
           \/ LEnqueueFull
           \/ \E f \in Friends, r \in Receipts : LConfirm(f, r)
           \/ \E s \in Slots : LExpire(s) \/ LDeferred(s) \/ LExhausted(s) \/ LFatal(s)
           \/ LTick
           \/ UNCHANGED ledgerVars
    PROVE  NoNewWaiter
<1>1. IInv
  BY DEF LInv
<1>2. ASSUME NEW s \in Slots, Remove(s) PROVE NoNewWaiter
  <2>1. g_ring' = [g_ring EXCEPT ![s] = FreeEntry] /\ FreeEntry.state # "AWAITING_ACK"
    BY <1>2 DEF Remove, mq_release_slot, FreeEntry
  <2> QED
    BY <1>1, <2>1, WriteNoWaiter
<1>3. ASSUME NEW f \in Friends, LEnqueue(f) PROVE NoNewWaiter
  <2> DEFINE e == PendingEntry(f, g_stats.total_enqueued + 1)
  <2>1. e.state # "AWAITING_ACK"
    BY DEF PendingEntry
  <2>2. \E s \in Slots : g_ring' = [g_ring EXCEPT ![s] = e]
    BY <1>3 DEF LEnqueue, mq_enqueue, Free
  <2> HIDE DEF e
  <2> QED
    BY <1>1, <2>1, <2>2, WriteNoWaiter
<1>4. ASSUME NEW s \in Slots, LDeferred(s) PROVE NoNewWaiter
  <2> DEFINE e == DeferredEntry(g_ring[s])
  <2>1. e.state # "AWAITING_ACK"
    BY DEF DeferredEntry
  <2>2. g_ring' = [g_ring EXCEPT ![s] = e]
    BY <1>4 DEF LDeferred, mq_service_deferred
  <2> HIDE DEF e
  <2> QED
    BY <1>1, <2>1, <2>2, WriteNoWaiter
<1>5. CASE \E f \in Friends, r \in Receipts : LConfirm(f, r)
  BY <1>2, <1>5 DEF LConfirm
<1>6. ASSUME NEW s \in Slots, LExpire(s) \/ LExhausted(s) \/ LFatal(s) PROVE NoNewWaiter
  BY <1>2, <1>6 DEF LExpire, LExhausted, LFatal, mq_service_expire,
                    mq_service_exhausted, mq_service_fatal
<1>7. CASE LTick
  <2>1. ASSUME NEW s \in Slots
        PROVE  /\ g_ring'[s].state = g_ring[s].state
               /\ g_ring'[s].friendnum = g_ring[s].friendnum
               /\ g_ring'[s].receipt = g_ring[s].receipt
               /\ g_ring'[s].payload = g_ring[s].payload
    <3>1. g_ring[s] \in Entry
      BY <1>1 DEF IInv, RingOK
    <3>2. g_ring'[s] = g_ring[s]
          \/ g_ring'[s] = [g_ring[s] EXCEPT !.age = g_ring[s].age + 1]
      BY <1>7 DEF LTick, ClockTick
    <3> QED
      BY <3>1, <3>2 DEF Entry
  <2> QED
    BY <2>1 DEF NoNewWaiter, InFlight
<1>8. CASE LEnqueueFull \/ UNCHANGED ledgerVars
  BY <1>8 DEF LEnqueueFull, mq_enqueue_full, ledgerVars, queueVars, NoNewWaiter, InFlight
<1> QED
  BY <1>3, <1>4, <1>5, <1>6, <1>7, <1>8

\* A slot that waits has a friend, a receipt and a message.
LEMMA WaiterTypes ==
    ASSUME IInv, NEW s \in Occupied(g_ring)
    PROVE  /\ g_ring[s].friendnum \in Friends
           /\ g_ring[s].payload \in Payloads /\ g_ring[s].payload # NoPayload
           /\ s \in InFlight(g_ring) => g_ring[s].receipt \in Receipts
<1>1. g_ring[s] \in Entry /\ g_ring[s].state # "FREE" /\ EntryConsistent(g_ring[s])
  BY DEF IInv, RingOK, EntriesConsistent, Occupied
<1> QED
  BY <1>1 DEF EntryConsistent, Entry, InFlight

-----------------------------------------------------------------------------
(* One lemma per kind of step *)

\* The queue moves on without the network, and confirms nothing.
LEMMA QueueStepKept ==
    ASSUME TInv, LInv', NoNewWaiter, UNCHANGED netVars, UNCHANGED confirmed
    PROVE  TInv'
<1> USE DEF TInv, netVars
<1>1. NetType'
  BY DEF NetType
<1>2. ReceiptsIssued'
  BY DEF ReceiptsIssued, NoNewWaiter
<1>3. ReceiptsUnambiguous'
  BY DEF ReceiptsUnambiguous, NoNewWaiter
<1>4. TransitMatches' /\ AcksMatch'
  BY DEF TransitMatches, AcksMatch, SameReceipt, NoNewWaiter
<1>5. ConfirmedWasReceived'
  BY DEF ConfirmedWasReceived
<1> QED
  BY <1>1, <1>2, <1>3, <1>4, <1>5

\* The network loses things, hands nothing out and delivers nothing new.
LEMMA LossKept ==
    ASSUME TInv, LInv', NoNewWaiter,
           online' \subseteq Friends, transit' \subseteq transit, acks' \subseteq acks,
           UNCHANGED <<last_receipt, received>>,
           confirmed' \subseteq received
    PROVE  TInv'
<1> USE DEF TInv
<1>1. NetType'
  BY DEF NetType
<1>2. ReceiptsIssued'
  BY DEF ReceiptsIssued, NoNewWaiter
<1>3. ReceiptsUnambiguous'
  BY DEF ReceiptsUnambiguous, NoNewWaiter
<1>4. TransitMatches' /\ AcksMatch'
  BY DEF TransitMatches, AcksMatch, SameReceipt, NoNewWaiter
<1>5. ConfirmedWasReceived'
  BY DEF ConfirmedWasReceived
<1> QED
  BY <1>1, <1>2, <1>3, <1>4, <1>5

\* A message arrives and is acknowledged.
LEMMA ArrivalKept ==
    ASSUME TInv, LInv', NEW m \in transit, PeerReceives(m)
    PROVE  TInv'
<1> DEFINE a == [friendnum |-> m.friendnum, receipt |-> m.receipt]
<1> USE DEF TInv
<1>1. /\ transit' = transit \ {m} /\ acks' = acks \cup {a}
      /\ received' = received \cup ({m.payload} \ {NoPayload})
      /\ UNCHANGED <<g_ring, confirmed, online, last_receipt>>
  BY DEF PeerReceives, ledgerVars, queueVars, historyVars
<1>2. a \in [friendnum : Friends, receipt : 1 .. MaxReceipt]
      /\ a.receipt <= last_receipt[a.friendnum]
  BY DEF NetType, ReceiptsIssued
<1>3. NetType' /\ ReceiptsIssued'
  BY <1>1, <1>2 DEF NetType, ReceiptsIssued, InFlight
<1>4. ReceiptsUnambiguous' /\ TransitMatches'
  BY <1>1 DEF ReceiptsUnambiguous, TransitMatches, SameReceipt, InFlight
<1>5. AcksMatch'
  <2>1. ASSUME NEW s \in InFlight(g_ring), SameReceipt(s, a)
        PROVE  g_ring[s].payload \in received'
    <3>1. m.payload = g_ring[s].payload
      BY <2>1 DEF TransitMatches, SameReceipt
    <3>2. s \in Occupied(g_ring) /\ IInv
      BY DEF InFlight, Occupied, LInv
    <3> QED
      BY <1>1, <3>1, <3>2, WaiterTypes
  <2> HIDE DEF a
  <2> QED
    BY <1>1, <2>1 DEF AcksMatch, SameReceipt, InFlight
<1>6. ConfirmedWasReceived'
  BY <1>1 DEF ConfirmedWasReceived
<1> QED
  BY <1>3, <1>4, <1>5, <1>6

\* A message that does not come from the queue is sent: its receipt is new.
LEMMA DirectKept ==
    ASSUME TInv, LInv', NEW f \in Friends, DirectSend(f)
    PROVE  TInv'
<1> DEFINE m == [friendnum |-> f, receipt |-> last_receipt[f] + 1, payload |-> NoPayload]
<1> USE DEF TInv
<1>1. /\ last_receipt[f] < MaxReceipt
      /\ last_receipt' = [last_receipt EXCEPT ![f] = @ + 1]
      /\ transit' = transit \cup {m}
      /\ UNCHANGED <<g_ring, confirmed, online, acks, received>>
  BY DEF DirectSend, ToxSend, ledgerVars, queueVars, historyVars
<1>2. last_receipt[f] \in 0 .. MaxReceipt /\ MaxReceipt \in Nat
  BY MaxReceiptAssumption DEF NetType
<1>3. \A g \in Friends : last_receipt[g] <= last_receipt'[g]
  BY <1>1, <1>2, MaxReceiptAssumption DEF NetType
<1>4. NetType'
  BY <1>1, <1>2 DEF NetType
<1>5. ASSUME NEW s \in InFlight(g_ring)
      PROVE  /\ g_ring[s].friendnum \in Friends /\ g_ring[s].receipt \in Nat
             /\ ~SameReceipt(s, m)
  <2>1. g_ring[s].friendnum \in Friends /\ g_ring[s].receipt \in Nat
    BY WaiterTypes, ReceiptsAssumption DEF LInv, InFlight, Occupied
  <2> QED
    BY <1>2, <2>1 DEF SameReceipt, ReceiptsIssued
<1>6. ReceiptsIssued'
  <2>1. \A s \in InFlight(g_ring) : g_ring[s].receipt <= last_receipt'[g_ring[s].friendnum]
    <3> SUFFICES ASSUME NEW s \in InFlight(g_ring)
                 PROVE  g_ring[s].receipt <= last_receipt'[g_ring[s].friendnum]
      OBVIOUS
    <3>1. last_receipt'[g_ring[s].friendnum] \in Nat /\ last_receipt[g_ring[s].friendnum] \in Nat
      BY <1>4, <1>5 DEF NetType
    <3> QED
      BY <1>3, <1>5, <3>1 DEF ReceiptsIssued
  <2>2. \A n \in transit \cup acks : n.receipt <= last_receipt'[n.friendnum]
    <3> SUFFICES ASSUME NEW n \in transit \cup acks
                 PROVE  n.receipt <= last_receipt'[n.friendnum]
      OBVIOUS
    <3>1. n.receipt \in Nat /\ n.friendnum \in Friends
      BY DEF NetType
    <3>2. last_receipt'[n.friendnum] \in Nat /\ last_receipt[n.friendnum] \in Nat
      BY <1>4, <3>1 DEF NetType
    <3> QED
      BY <1>3, <3>1, <3>2 DEF ReceiptsIssued
  <2>3. m.receipt <= last_receipt'[m.friendnum]
    BY <1>1, <1>2 DEF NetType
  <2> QED
    BY <1>1, <2>1, <2>2, <2>3 DEF ReceiptsIssued, InFlight
<1>7. TransitMatches'
  <2> HIDE DEF m
  <2> QED
    BY <1>1, <1>5 DEF TransitMatches, SameReceipt, InFlight
<1>8. ReceiptsUnambiguous' /\ AcksMatch' /\ ConfirmedWasReceived'
  BY <1>1 DEF ReceiptsUnambiguous, AcksMatch, SameReceipt, InFlight, ConfirmedWasReceived
<1> QED
  BY <1>4, <1>6, <1>7, <1>8

\* tox_transport sends a message of the queue: its receipt is new, and the slot
\* that now waits for it is the only one.
LEMMA SendKept ==
    ASSUME TInv, LInv', NEW s \in Slots, TSent(s)
    PROVE  TInv'
<1> DEFINE f == g_ring[s].friendnum
           r == last_receipt[f] + 1
           m == [friendnum |-> f, receipt |-> r, payload |-> g_ring[s].payload]
<1> USE DEF TInv
<1>1. s \in Occupied(g_ring) /\ IInv /\ g_ring \in [Slots -> Entry]
  BY ScannedFacts DEF TSent, LSent, mq_service_sent, Transmits, LInv, IInv, RingOK
<1>2. f \in Friends /\ g_ring[s].payload \in Payloads
  BY <1>1, WaiterTypes
<1>3. /\ last_receipt[f] < MaxReceipt
      /\ last_receipt' = [last_receipt EXCEPT ![f] = @ + 1]
      /\ transit' = transit \cup {m}
      /\ UNCHANGED <<online, acks, received, confirmed>>
  BY DEF TSent, ToxSend, LSent
<1>4. last_receipt[f] \in 0 .. MaxReceipt /\ MaxReceipt \in Nat
  BY <1>2, MaxReceiptAssumption DEF NetType
<1>5. last_receipt'[f] = r /\ \A g \in Friends : last_receipt[g] <= last_receipt'[g]
  BY <1>2, <1>3, <1>4, MaxReceiptAssumption DEF NetType
<1>6. NetType'
  BY <1>2, <1>3, <1>4 DEF NetType
<1>7. g_ring' = [g_ring EXCEPT ![s] = SentEntry(g_ring[s], r)]
  BY <1>5 DEF TSent, LSent, mq_service_sent
<1>8. /\ g_ring'[s].friendnum = f /\ g_ring'[s].receipt = r
      /\ g_ring'[s].payload = g_ring[s].payload
      /\ \A t \in Slots \ {s} : g_ring'[t] = g_ring[t]
  BY <1>1, <1>7 DEF SentEntry
<1>9. \A t \in InFlight(g_ring') \ {s} : t \in InFlight(g_ring) /\ g_ring'[t] = g_ring[t]
  BY <1>8 DEF InFlight
<1>10. ASSUME NEW t \in InFlight(g_ring)
       PROVE  /\ g_ring[t].friendnum \in Friends /\ g_ring[t].receipt \in Nat
              /\ ~(g_ring[t].friendnum = f /\ g_ring[t].receipt = r)
  <2>1. g_ring[t].friendnum \in Friends /\ g_ring[t].receipt \in Nat
    BY <1>1, WaiterTypes, ReceiptsAssumption DEF InFlight, Occupied
  <2> QED
    BY <1>4, <2>1 DEF ReceiptsIssued
<1>11. ASSUME NEW n \in transit \cup acks
       PROVE  /\ n.friendnum \in Friends /\ n.receipt \in Nat
              /\ ~(n.friendnum = f /\ n.receipt = r)
  <2>1. n.friendnum \in Friends /\ n.receipt \in Nat
    BY DEF NetType
  <2> QED
    BY <1>4, <2>1 DEF ReceiptsIssued
<1>12. ReceiptsIssued'
  <2>1. ASSUME NEW g \in Friends, NEW x \in Nat, x <= last_receipt[g]
        PROVE  x <= last_receipt'[g]
    <3>1. last_receipt'[g] \in Nat /\ last_receipt[g] \in Nat
      BY <1>6 DEF NetType
    <3> QED
      BY <1>5, <2>1, <3>1
  <2>2. \A t \in InFlight(g_ring') : g_ring'[t].receipt <= last_receipt'[g_ring'[t].friendnum]
    BY <1>4, <1>5, <1>8, <1>9, <1>10, <2>1 DEF ReceiptsIssued
  <2>3. \A n \in transit \cup acks : n.receipt <= last_receipt'[n.friendnum]
    BY <1>11, <2>1 DEF ReceiptsIssued
  <2>4. m.receipt <= last_receipt'[m.friendnum]
    BY <1>4, <1>5
  <2> QED
    BY <1>3, <2>2, <2>3, <2>4 DEF ReceiptsIssued
<1>13. ReceiptsUnambiguous'
  BY <1>8, <1>9, <1>10 DEF ReceiptsUnambiguous
<1>14. TransitMatches'
  <2>1. m.friendnum = f /\ m.receipt = r /\ m.payload = g_ring[s].payload
    OBVIOUS
  <2> HIDE DEF f, r, m
  <2>2. ASSUME NEW t \in InFlight(g_ring'), NEW n \in transit',
               g_ring'[t].friendnum = n.friendnum, g_ring'[t].receipt = n.receipt
        PROVE  n.payload = g_ring'[t].payload
    <3>1. CASE t = s
      BY <1>3, <1>8, <1>11, <2>1, <2>2, <3>1
    <3>2. CASE t # s
      BY <1>3, <1>9, <1>10, <2>1, <2>2, <3>2 DEF TransitMatches, SameReceipt
    <3> QED
      BY <3>1, <3>2
  <2> QED
    BY <2>2 DEF TransitMatches, SameReceipt
<1>15. AcksMatch'
  <2> HIDE DEF f, r, m
  <2> QED
    BY <1>3, <1>8, <1>9, <1>11 DEF AcksMatch, SameReceipt
<1>16. ConfirmedWasReceived'
  BY <1>3 DEF ConfirmedWasReceived
<1> QED
  BY <1>6, <1>12, <1>13, <1>14, <1>15, <1>16

-----------------------------------------------------------------------------
(* The invariant *)

\* toxcore is one of the transports that the ledger allows: receipts are within
\* range, and acknowledgements name friends and receipts.
LEMMA TransportStep ==
    ASSUME TInv, [TNext]_transportVars
    PROVE  [LNext]_ledgerVars
<1> USE DEF TInv
<1>1. ASSUME NEW s \in Slots, TSent(s)
      PROVE  \E r \in Receipts : LSent(s, r)
  <2> DEFINE f == g_ring[s].friendnum
  <2>1. LSent(s, last_receipt'[f]) /\ ToxSend(f, g_ring[s].payload)
    BY <1>1 DEF TSent
  <2>2. s \in Occupied(g_ring) /\ IInv
    BY <2>1, ScannedFacts DEF LSent, mq_service_sent, Transmits, LInv
  <2>3. f \in Friends
    BY <2>2, WaiterTypes
  <2>4. last_receipt'[f] \in 1 .. MaxReceipt
    BY <2>1, <2>3, MaxReceiptAssumption DEF ToxSend, NetType
  <2> QED
    BY <2>1, <2>4, MaxReceiptAssumption
<1>2. CASE TService
  BY <1>1, <1>2 DEF TService, TExpire, TDeferred, TExhausted, TFatal, LService, LNext
<1>3. ASSUME NEW a \in acks, AckConfirms(a)
      PROVE  LNext
  <2>1. a.friendnum \in Friends /\ a.receipt \in Receipts
    BY MaxReceiptAssumption DEF NetType
  <2> QED
    BY <1>3, <2>1 DEF AckConfirms, LNext
<1>4. ASSUME NEW a \in acks, AckIgnored(a)
      PROVE  UNCHANGED ledgerVars
  BY <1>4 DEF AckIgnored, mq_confirm_notfound, ledgerVars
<1>5. ASSUME NEW m \in transit, PeerReceives(m)
      PROVE  UNCHANGED ledgerVars
  BY <1>5 DEF PeerReceives
<1>6. ASSUME NEW f \in Friends, Connect(f) \/ Disconnect(f) \/ DirectSend(f)
      PROVE  UNCHANGED ledgerVars
  BY <1>6 DEF Connect, Disconnect, DirectSend
<1>7. CASE \/ \E f \in Friends : LEnqueue(f) /\ UNCHANGED netVars
           \/ LEnqueueFull /\ UNCHANGED netVars
           \/ LTick /\ UNCHANGED netVars
  BY <1>7 DEF LNext
<1>8. CASE UNCHANGED transportVars
  BY <1>8 DEF transportVars
<1> QED
  BY <1>2, <1>3, <1>4, <1>5, <1>6, <1>7, <1>8 DEF TNext

\* Nothing is under way at the start.
LEMMA TransportInit == TInit => TInv
<1> SUFFICES ASSUME TInit PROVE TInv
  OBVIOUS
<1>1. LInv
  BY LedgerInit DEF TInit
<1>2. InFlight(g_ring) = {} /\ confirmed = {}
  BY DEF TInit, LInit, mq_init, InFlight, FreeEntry
<1>3. NetType
  BY MaxReceiptAssumption DEF TInit, NetType
<1> QED
  BY <1>1, <1>2, <1>3 DEF TInv, TInit, ReceiptsIssued, ReceiptsUnambiguous,
                          TransitMatches, AcksMatch, ConfirmedWasReceived

\* Every step of the queue and of toxcore keeps the invariant.
LEMMA TransportNext == TInv /\ [TNext]_transportVars => TInv'
<1> SUFFICES ASSUME TInv, [TNext]_transportVars PROVE TInv'
  OBVIOUS
<1>1. LInv /\ LInv'
  BY TransportStep, LedgerNext DEF TInv
<1>2. CASE \/ \E f \in Friends : LEnqueue(f) /\ UNCHANGED netVars
           \/ LEnqueueFull /\ UNCHANGED netVars
           \/ LTick /\ UNCHANGED netVars
           \/ UNCHANGED transportVars
  <2>1. NoNewWaiter
    BY <1>1, <1>2, OnlySentWaits DEF transportVars
  <2>2. UNCHANGED netVars /\ UNCHANGED confirmed
    BY <1>2 DEF LEnqueue, LEnqueueFull, LTick, transportVars, ledgerVars, historyVars
  <2> QED
    BY <1>1, <2>1, <2>2, QueueStepKept
<1>3. ASSUME NEW s \in Slots, TExpire(s) \/ TDeferred(s) \/ TExhausted(s) \/ TFatal(s)
      PROVE  TInv'
  <2>1. /\ LExpire(s) \/ LDeferred(s) \/ LExhausted(s) \/ LFatal(s)
        /\ UNCHANGED netVars
    BY <1>3 DEF TExpire, TDeferred, TExhausted, TFatal
  <2>2. NoNewWaiter
    BY <1>1, <2>1, OnlySentWaits
  <2>3. UNCHANGED confirmed
    BY <2>1 DEF LExpire, LDeferred, LExhausted, LFatal
  <2> QED
    BY <1>1, <2>1, <2>2, <2>3, QueueStepKept
<1>4. ASSUME NEW s \in Slots, TSent(s)
      PROVE  TInv'
  BY <1>1, <1>4, SendKept
<1>5. ASSUME NEW a \in acks, AckConfirms(a)
      PROVE  TInv'
  <2>1. a.friendnum \in Friends /\ a.receipt \in Receipts
    BY MaxReceiptAssumption DEF TInv, NetType
  <2>2. /\ LConfirm(a.friendnum, a.receipt) /\ acks' \subseteq acks
        /\ UNCHANGED <<online, last_receipt, transit, received>>
    BY <1>5 DEF AckConfirms
  <2>3. NoNewWaiter
    BY <1>1, <2>1, <2>2, OnlySentWaits
  <2>4. confirmed' \subseteq received
    <3>1. PICK s \in Slots : /\ Confirms(a.friendnum, a.receipt, s)
                             /\ confirmed' = confirmed \cup {g_ring[s].payload}
      BY <2>2 DEF LConfirm
    <3>2. s \in InFlight(g_ring) /\ SameReceipt(s, a)
      BY <3>1 DEF Confirms, First, Matches, SameReceipt
    <3>3. g_ring[s].payload \in received
      BY <3>2 DEF TInv, AcksMatch
    <3> QED
      BY <3>1, <3>3 DEF TInv, ConfirmedWasReceived
  <2> QED
    BY <1>1, <2>2, <2>3, <2>4, LossKept DEF TInv, NetType
<1>6. ASSUME NEW a \in acks, AckIgnored(a)
      PROVE  TInv'
  <2>1. /\ UNCHANGED ledgerVars /\ acks' \subseteq acks
        /\ UNCHANGED <<online, last_receipt, transit, received>>
    BY <1>6 DEF AckIgnored, mq_confirm_notfound, ledgerVars
  <2>2. NoNewWaiter
    BY <1>1, <2>1, OnlySentWaits
  <2>3. confirmed' \subseteq received
    BY <2>1 DEF ledgerVars, historyVars, TInv, ConfirmedWasReceived
  <2> QED
    BY <1>1, <2>1, <2>2, <2>3, LossKept DEF TInv, NetType
<1>7. ASSUME NEW m \in transit, PeerReceives(m)
      PROVE  TInv'
  BY <1>1, <1>7, ArrivalKept
<1>8. ASSUME NEW f \in Friends, Connect(f) \/ Disconnect(f)
      PROVE  TInv'
  <2>1. /\ UNCHANGED ledgerVars /\ UNCHANGED <<last_receipt, received>>
        /\ online' \subseteq online \cup {f}
        /\ transit' \subseteq transit /\ acks' \subseteq acks
    BY <1>8 DEF Connect, Disconnect
  <2>2. NoNewWaiter
    BY <1>1, <2>1, OnlySentWaits
  <2>3. confirmed' \subseteq received
    BY <2>1 DEF ledgerVars, historyVars, TInv, ConfirmedWasReceived
  <2>4. online' \subseteq Friends
    BY <2>1 DEF TInv, NetType
  <2> QED
    BY <1>1, <2>1, <2>2, <2>3, <2>4, LossKept
<1>9. ASSUME NEW f \in Friends, DirectSend(f)
      PROVE  TInv'
  BY <1>1, <1>9, DirectKept
<1> QED
  BY <1>2, <1>3, <1>4, <1>5, <1>6, <1>7, <1>8, <1>9 DEF TNext, TService

-----------------------------------------------------------------------------
(* Theorems *)

\* The inductive invariant of the queue on toxcore holds in every reachable state.
THEOREM TransportInvariance == TSpec => []TInv
<1>1. TInit => TInv
  BY TransportInit
<1>2. TInv /\ [TNext]_transportVars => TInv'
  BY TransportNext
<1> QED
  BY <1>1, <1>2, PTL DEF TSpec

\* The queue on toxcore behaves as the queue on a transport that answers
\* arbitrarily: whatever is proved of the ledger holds for it.
THEOREM ToxcoreIsATransport == TSpec => LSpec
<1>1. TInit => LInit
  BY DEF TInit
<1>2. TInv /\ [TNext]_transportVars => [LNext]_ledgerVars
  BY TransportStep
<1> QED
  BY <1>1, <1>2, TransportInvariance, PTL DEF TSpec, LSpec

\* mq_confirm never has a choice: a receipt belongs to one message in flight.
THEOREM ReceiptsIdentify == TSpec => []ReceiptsUnambiguous
<1>1. TInv => ReceiptsUnambiguous
  BY DEF TInv
<1> QED
  BY <1>1, TransportInvariance, PTL

\* Only telegrams that have reached their friend are confirmed.
THEOREM NoFalseConfirmation == TSpec => []ConfirmedWasReceived
<1>1. TInv => ConfirmedWasReceived
  BY DEF TInv
<1> QED
  BY <1>1, TransportInvariance, PTL

=============================================================================
