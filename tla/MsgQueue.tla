------------------------------ MODULE MsgQueue ------------------------------
(***************************************************************************)
(* The store-and-forward delivery queue of src/msg_queue.c: a ring of      *)
(* slots in which released slots leave holes, a head that is advanced past *)
(* the holes, a tail that searches for a free slot, and mq_service, which  *)
(* takes one action per call on the first message that is due.             *)
(*                                                                         *)
(* The transport handed to mq_service is any transport: it may accept a    *)
(* message with any receipt, ask for a retry or refuse for good, and any   *)
(* (friend, receipt) pair may be confirmed at any time.  MsgQueueLedger    *)
(* adds the counters of mq_stats, QueueTransport adds toxcore's receipts,  *)
(* DurableQueue adds the mirror on disk.                                   *)
(*                                                                         *)
(* Data.  A payload is a number; len and enqueued_at are never read back   *)
(* by the queue and are left out.  The code compares now - last_attempt    *)
(* with the two timeouts only, so an entry keeps that difference, "age",   *)
(* saturated at MQ_ACK_TIMEOUT_SEC.  Calls outside the preconditions of    *)
(* mq_enqueue and mq_confirm return MQ_ERR_RANGE and change nothing: they  *)
(* are stuttering steps.                                                   *)
(***************************************************************************)
EXTENDS Integers, FiniteSets

CONSTANTS
    Friends,                \* friend numbers used as destinations
    Payloads,               \* message bodies
    Receipts,               \* receipt numbers the transport hands out
    MQ_CAPACITY,
    MQ_ACK_TIMEOUT_SEC,
    MQ_RETRY_BACKOFF_SEC,
    MQ_MAX_ATTEMPTS

ASSUME FriendsAssumption  == Friends \subseteq Nat
ASSUME PayloadsAssumption == Payloads \subseteq Nat \ {0}
ASSUME ReceiptsAssumption == Receipts \subseteq Nat
ASSUME CapacityAssumption == MQ_CAPACITY \in Nat \ {0}
ASSUME AttemptsAssumption == MQ_MAX_ATTEMPTS \in Nat \ {0}
\* An expired acknowledgement falls through to the backoff test of the same
\* pass, which it passes because the shipped values are 25 and 1 seconds.
ASSUME TimeoutsAssumption ==
    /\ MQ_ACK_TIMEOUT_SEC \in Nat
    /\ MQ_RETRY_BACKOFF_SEC \in Nat
    /\ MQ_RETRY_BACKOFF_SEC <= MQ_ACK_TIMEOUT_SEC

VARIABLES
    g_ring,         \* the slots
    g_head,         \* where a scan starts
    g_tail,         \* where the search for a free slot starts
    g_count,        \* occupied slots
    g_in_flight     \* slots waiting for an acknowledgement

queueVars == <<g_ring, g_head, g_tail, g_count, g_in_flight>>

Slots == 0 .. MQ_CAPACITY - 1

\* Values of the fields of a slot that carries no message.
NoFriend  == -1
NoPayload == 0
NoReceipt == -1

Entry ==
    [state     : {"FREE", "PENDING", "AWAITING_ACK"},
     friendnum : Friends \cup {NoFriend},
     payload   : Payloads \cup {NoPayload},
     attempts  : 0 .. MQ_MAX_ATTEMPTS - 1,
     attempted : BOOLEAN,
     receipt   : Receipts \cup {NoReceipt},
     age       : 0 .. MQ_ACK_TIMEOUT_SEC]

\* mq_release_slot leaves friendnum and last_attempt behind, but no reader
\* looks at them before mq_enqueue overwrites them: one value stands for all.
FreeEntry ==
    [state |-> "FREE", friendnum |-> NoFriend, payload |-> NoPayload,
     attempts |-> 0, attempted |-> FALSE, receipt |-> NoReceipt, age |-> 0]

PendingEntry(f, p) ==
    [state |-> "PENDING", friendnum |-> f, payload |-> p,
     attempts |-> 0, attempted |-> FALSE, receipt |-> NoReceipt, age |-> 0]

Occupied(ring) == {s \in Slots : ring[s].state # "FREE"}
Free(ring)     == {s \in Slots : ring[s].state = "FREE"}
InFlight(ring) == {s \in Slots : ring[s].state = "AWAITING_ACK"}

\* s is the first member of S met by a walk around the ring that starts at from.
First(from, S, s) ==
    /\ s \in S
    /\ \A t \in S : (s - from) % MQ_CAPACITY <= (t - from) % MQ_CAPACITY

-----------------------------------------------------------------------------
(* Internal helpers *)

mq_advance_head_eager == g_head' = (g_head + 1) % MQ_CAPACITY

\* Move the head past the holes, or onto the tail when nothing is left.
mq_advance_head ==
    IF g_count' = 0
      THEN g_head' = g_tail
      ELSE \E h \in Occupied(g_ring') :
             First(g_head, Occupied(g_ring'), h) /\ g_head' = h

mq_release_slot_uncounted(s) ==
    /\ g_ring' = [g_ring EXCEPT ![s] = FreeEntry]
    /\ g_count' = g_count - 1
    /\ UNCHANGED g_in_flight

\* Free a slot.  A caller that found the entry expired has already taken it
\* out of g_in_flight and made it PENDING; the sum of both is the same.
mq_release_slot(s) ==
    /\ g_ring' = [g_ring EXCEPT ![s] = FreeEntry]
    /\ g_count' = g_count - 1
    /\ g_in_flight' = IF g_ring[s].state = "AWAITING_ACK"
                        THEN g_in_flight - 1 ELSE g_in_flight

\* Both ways out of the queue end with the head on an occupied slot.
Remove(s) == mq_release_slot(s) /\ mq_advance_head /\ UNCHANGED g_tail

-----------------------------------------------------------------------------
(* Public interface *)

mq_init ==
    /\ g_ring = [s \in Slots |-> FreeEntry]
    /\ g_head = 0
    /\ g_tail = 0
    /\ g_count = 0
    /\ g_in_flight = 0

mq_enqueue_at_tail(f, p) ==
    /\ g_count < MQ_CAPACITY
    /\ g_ring' = [g_ring EXCEPT ![g_tail] = PendingEntry(f, p)]
    /\ g_count' = g_count + 1
    /\ g_head' = IF g_count = 0 THEN g_tail ELSE g_head
    /\ g_tail' = (g_tail + 1) % MQ_CAPACITY
    /\ UNCHANGED g_in_flight

\* The tail walks to the first free slot, hole or not, and ends behind it.
mq_enqueue(f, p) ==
    \E s \in Free(g_ring) :
        /\ First(g_tail, Free(g_ring), s)
        /\ g_ring' = [g_ring EXCEPT ![s] = PendingEntry(f, p)]
        /\ g_count' = g_count + 1
        /\ g_head' = IF g_count = 0 THEN s ELSE g_head
        /\ g_tail' = (s + 1) % MQ_CAPACITY
        /\ UNCHANGED g_in_flight

\* MQ_ERR_FULL: the tail has walked the whole ring and is back where it was.
mq_enqueue_full == Free(g_ring) = {} /\ UNCHANGED queueVars

Matches_AnyFriend(f, r) == {s \in InFlight(g_ring) : g_ring[s].receipt = r}

Matches(f, r) ==
    {s \in InFlight(g_ring) : g_ring[s].friendnum = f /\ g_ring[s].receipt = r}

\* The slots are searched from index 0, not from the head.
Confirms(f, r, s) == First(0, Matches(f, r), s)
mq_confirm(f, r) == \E s \in Slots : Confirms(f, r, s) /\ Remove(s)

\* MQ_ERR_NOTFOUND: a receipt nobody waits for (any more).
mq_confirm_notfound(f, r) == Matches(f, r) = {} /\ UNCHANGED queueVars

-----------------------------------------------------------------------------
(* mq_service: one action on the first entry of the scan that is due.  The    *)
(* disjuncts below are its return statements; with nothing due it returns     *)
(* MQ_OUTCOME_IDLE and changes nothing.                                       *)

Due_NoWindow(e) ==
    \/ e.state = "AWAITING_ACK"
    \/ e.state = "PENDING" /\ (e.attempted => e.age >= MQ_RETRY_BACKOFF_SEC)

Due(e) ==
    \/ e.state = "AWAITING_ACK" /\ e.age >= MQ_ACK_TIMEOUT_SEC
    \/ e.state = "PENDING" /\ (e.attempted => e.age >= MQ_RETRY_BACKOFF_SEC)

Scanned_Newest(s) ==
    /\ Due(g_ring[s])
    /\ \A t \in Slots : Due(g_ring[t]) =>
          (s - g_tail) % MQ_CAPACITY >= (t - g_tail) % MQ_CAPACITY

Scanned(s) == First(g_head, {t \in Slots : Due(g_ring[t])}, s)

\* Attempts on record once a lost acknowledgement has been charged.
Charged(e) == e.attempts + (IF e.state = "AWAITING_ACK" THEN 1 ELSE 0)

\* The last permitted attempt went unanswered: retire without calling tx.
mq_service_expire(s) ==
    /\ Scanned(s)
    /\ g_ring[s].state = "AWAITING_ACK"
    /\ Charged(g_ring[s]) >= MQ_MAX_ATTEMPTS
    /\ Remove(s)

\* The scan ends in a call of the transport for this entry.
Transmits(s) == Scanned(s) /\ Charged(g_ring[s]) < MQ_MAX_ATTEMPTS

SentEntry_Uncharged(e, r) ==
    [e EXCEPT !.state = "AWAITING_ACK", !.receipt = r,
              !.attempted = TRUE, !.age = 0]

SentEntry(e, r) ==
    [state |-> "AWAITING_ACK", friendnum |-> e.friendnum, payload |-> e.payload,
     attempts |-> Charged(e), attempted |-> TRUE, receipt |-> r, age |-> 0]

DeferredEntry_StaleReceipt(e) ==
    [e EXCEPT !.state = "PENDING", !.attempts = Charged(e) + 1,
              !.attempted = TRUE, !.age = 0]

DeferredEntry(e) ==
    [state |-> "PENDING", friendnum |-> e.friendnum, payload |-> e.payload,
     attempts |-> Charged(e) + 1, attempted |-> TRUE, receipt |-> NoReceipt, age |-> 0]

\* The transport accepted the message with receipt r.
mq_service_sent(s, r) ==
    /\ Transmits(s)
    /\ g_ring' = [g_ring EXCEPT ![s] = SentEntry(@, r)]
    /\ g_in_flight' = IF g_ring[s].state = "AWAITING_ACK"
                        THEN g_in_flight ELSE g_in_flight + 1
    /\ UNCHANGED <<g_tail, g_count>>
    /\ mq_advance_head

mq_service_deferred_unbounded(s) ==
    /\ Transmits(s)
    /\ g_ring' = [g_ring EXCEPT ![s] = DeferredEntry(@)]
    /\ g_in_flight' = IF g_ring[s].state = "AWAITING_ACK"
                        THEN g_in_flight - 1 ELSE g_in_flight
    /\ UNCHANGED <<g_tail, g_count>>
    /\ mq_advance_head

\* MQ_SEND_RETRYABLE with budget left: the entry stays and backs off.
mq_service_deferred(s) ==
    /\ Transmits(s)
    /\ Charged(g_ring[s]) + 1 < MQ_MAX_ATTEMPTS
    /\ g_ring' = [g_ring EXCEPT ![s] = DeferredEntry(@)]
    /\ g_in_flight' = IF g_ring[s].state = "AWAITING_ACK"
                        THEN g_in_flight - 1 ELSE g_in_flight
    /\ UNCHANGED <<g_tail, g_count>>
    /\ mq_advance_head

mq_service_exhausted_early(s) ==
    /\ Transmits(s)
    /\ Charged(g_ring[s]) + 2 >= MQ_MAX_ATTEMPTS
    /\ Remove(s)

\* MQ_SEND_RETRYABLE on the last permitted attempt.
mq_service_exhausted(s) ==
    /\ Transmits(s)
    /\ Charged(g_ring[s]) + 1 >= MQ_MAX_ATTEMPTS
    /\ Remove(s)

\* MQ_SEND_FATAL: the destination is not a friend of ours.
mq_service_fatal(s) == Transmits(s) /\ Remove(s)

mq_service ==
    \E s \in Slots :
        \/ mq_service_expire(s)
        \/ \E r \in Receipts : mq_service_sent(s, r)
        \/ mq_service_deferred(s)
        \/ mq_service_exhausted(s)
        \/ mq_service_fatal(s)

\* Entries in their order of mq_foreach: s is visited before t.
VisitedBefore(s, t) ==
    (s - g_head) % MQ_CAPACITY < (t - g_head) % MQ_CAPACITY

-----------------------------------------------------------------------------
(* Time and the specification *)

\* One second passes: every entry that was tried gets older.
ClockTick ==
    /\ g_ring' = [s \in Slots |->
                    IF g_ring[s].attempted /\ g_ring[s].age < MQ_ACK_TIMEOUT_SEC
                      THEN [g_ring[s] EXCEPT !.age = @ + 1]
                      ELSE g_ring[s]]
    /\ UNCHANGED <<g_head, g_tail, g_count, g_in_flight>>

MQInit == mq_init

MQNext ==
    \/ \E f \in Friends, p \in Payloads : mq_enqueue(f, p)
    \/ \E f \in Friends, r \in Receipts : mq_confirm(f, r)
    \/ mq_service
    \/ ClockTick

MQSpec == MQInit /\ [][MQNext]_queueVars

\* The main loop calls mq_service again and again and the clock does not stop.
\* Nobody owes the queue a new message, a receipt or an answer of a kind.
MQFairSpec == MQSpec /\ WF_queueVars(mq_service) /\ WF_queueVars(ClockTick)

-----------------------------------------------------------------------------
(* Properties *)

\* Every variable stays in its type.  The bound on attempts is part of it: no
\* stored entry has used up its budget.
TypeOK ==
    /\ g_ring \in [Slots -> Entry]
    /\ g_head \in Slots
    /\ g_tail \in Slots
    /\ g_count \in 0 .. MQ_CAPACITY
    /\ g_in_flight \in 0 .. MQ_CAPACITY

\* The assertions of mq_check_invariants (I1 to I4), which compare the counters
\* that every operation adjusts by hand with a recount of the ring.
mq_check_invariants ==
    /\ g_head \in Slots /\ g_tail \in Slots
    /\ g_count <= MQ_CAPACITY
    /\ g_count = Cardinality(Occupied(g_ring))
    /\ g_in_flight = Cardinality(InFlight(g_ring))

\* mq_foreach and mq_service start at the head without looking back: it is on
\* an occupied slot, or level with the tail when the queue is empty, whatever
\* holes confirmations out of order and retirements have left behind.
HeadIsOccupied ==
    IF g_count = 0 THEN g_head = g_tail ELSE g_head \in Occupied(g_ring)

\* A slot's fields agree with its state: a receipt exactly while an
\* acknowledgement is awaited (a stale one would let mq_confirm release the
\* wrong message), a destination and a body exactly while occupied, and a
\* clean record once free.
EntryConsistent(e) ==
    /\ (e.state = "AWAITING_ACK") <=> (e.receipt # NoReceipt)
    /\ (e.state # "FREE") <=> (e.friendnum # NoFriend)
    /\ (e.state # "FREE") <=> (e.payload # NoPayload)
    /\ e.state = "FREE" => e = FreeEntry
    /\ e.state = "AWAITING_ACK" => e.attempted
    /\ e.state = "PENDING" => (e.attempted <=> e.attempts > 0)
EntriesConsistent == \A s \in Slots : EntryConsistent(g_ring[s])

\* While an acknowledgement may still arrive in time, the entry is left alone by
\* every call that is made on behalf of other messages: it only ages, or a
\* confirmation of its own friend and receipt frees it.
AckWindowStep(s) ==
    LET e == g_ring[s] IN
    (e.state = "AWAITING_ACK" /\ e.age < MQ_ACK_TIMEOUT_SEC) =>
        \/ g_ring'[s] \in {e, [e EXCEPT !.age = @ + 1]}
        \/ mq_confirm(e.friendnum, e.receipt)
AckWindowRespected == [][\A s \in Slots : AckWindowStep(s)]_queueVars

\* No message is stuck: however many messages keep arriving, and however the
\* transport answers, every stored message leaves its slot.
NoStarvation ==
    \A s \in Slots : g_ring[s].state # "FREE" ~> g_ring[s].state = "FREE"

=============================================================================
