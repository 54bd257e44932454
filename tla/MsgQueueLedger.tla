--------------------------- MODULE MsgQueueLedger ---------------------------
(***************************************************************************)
(* The delivery queue together with its books: the counters of mq_stats,   *)
(* and what became of every single message.  Each accepted message gets    *)
(* the number of its acceptance as its payload, so messages can be told    *)
(* apart and compared by age.                                              *)
(***************************************************************************)
EXTENDS MsgQueue

CONSTANT MaxRejections      \* bound on calls of mq_enqueue that find no slot

ASSUME MaxRejectionsAssumption == MaxRejections \in Nat

VARIABLES
    g_stats,        \* the five totals of mq_stats
    calls,          \* history: calls of the transport made for each message
    confirmed,      \* history: messages released by mq_confirm
    dropped,        \* history: messages released by mq_retire
    refused         \* history: messages the transport refused with MQ_SEND_FATAL

historyVars == <<calls, confirmed, dropped, refused>>
ledgerVars  == <<queueVars, g_stats, historyVars>>

Bump(field) == g_stats' = [g_stats EXCEPT ![field] = @ + 1]

Stored(ring) == {ring[s].payload : s \in Occupied(ring)}

Called(s) == calls' = [calls EXCEPT ![g_ring[s].payload] = @ + 1]

\* mq_retire: release, count, and report through the drop hook.
Retired(s) ==
    /\ Bump("total_dropped")
    /\ dropped' = dropped \cup {g_ring[s].payload}

-----------------------------------------------------------------------------
LInit ==
    /\ mq_init
    /\ g_stats = [total_enqueued |-> 0, total_sent |-> 0, total_confirmed |-> 0,
                  total_dropped |-> 0, total_full_rejections |-> 0]
    /\ calls = [p \in Payloads |-> 0]
    /\ confirmed = {} /\ dropped = {} /\ refused = {}

LEnqueue(f) ==
    LET p == g_stats.total_enqueued + 1 IN
    /\ p \in Payloads
    /\ mq_enqueue(f, p)
    /\ Bump("total_enqueued")
    /\ UNCHANGED historyVars

LEnqueueFull ==
    /\ g_stats.total_full_rejections < MaxRejections
    /\ mq_enqueue_full
    /\ Bump("total_full_rejections")
    /\ UNCHANGED historyVars

LConfirm(f, r) ==
    \E s \in Slots :
        /\ Confirms(f, r, s)
        /\ Remove(s)
        /\ Bump("total_confirmed")
        /\ confirmed' = confirmed \cup {g_ring[s].payload}
        /\ UNCHANGED <<calls, dropped, refused>>

LExpire(s) ==
    /\ mq_service_expire(s)
    /\ Retired(s)
    /\ UNCHANGED <<calls, confirmed, refused>>

LSent(s, r) ==
    /\ mq_service_sent(s, r)
    /\ Called(s)
    /\ Bump("total_sent")
    /\ UNCHANGED <<confirmed, dropped, refused>>

LDeferred(s) ==
    /\ mq_service_deferred(s)
    /\ Called(s)
    /\ UNCHANGED <<g_stats, confirmed, dropped, refused>>

LExhausted(s) ==
    /\ mq_service_exhausted(s)
    /\ Called(s)
    /\ Retired(s)
    /\ UNCHANGED <<confirmed, refused>>

LFatal(s) ==
    /\ mq_service_fatal(s)
    /\ Called(s)
    /\ Retired(s)
    /\ refused' = refused \cup {g_ring[s].payload}
    /\ UNCHANGED confirmed

LService ==
    \E s \in Slots :
        \/ LExpire(s)
        \/ \E r \in Receipts : LSent(s, r)
        \/ LDeferred(s)
        \/ LExhausted(s)
        \/ LFatal(s)

LTick == ClockTick /\ UNCHANGED <<g_stats, historyVars>>

LNext ==
    \/ \E f \in Friends : LEnqueue(f)
    \/ LEnqueueFull
    \/ \E f \in Friends, r \in Receipts : LConfirm(f, r)
    \/ LService
    \/ LTick

LSpec == LInit /\ [][LNext]_ledgerVars
LFairSpec == LSpec /\ WF_ledgerVars(LService) /\ WF_ledgerVars(LTick)

-----------------------------------------------------------------------------
(* Properties *)

\* No message is lost and none is counted twice: each accepted message is in
\* exactly one slot, or was confirmed, or was retired, never two of these; and
\* the totals that mq_stats_get reports add up.
Conservation ==
    /\ \A s, t \in Occupied(g_ring) :
          g_ring[s].payload = g_ring[t].payload => s = t
    /\ Stored(g_ring) \cap (confirmed \cup dropped) = {}
    /\ confirmed \cap dropped = {}
    /\ Stored(g_ring) \cup confirmed \cup dropped = 1 .. g_stats.total_enqueued
    /\ g_stats.total_enqueued =
          g_count + g_stats.total_confirmed + g_stats.total_dropped
    /\ g_stats.total_sent >= g_stats.total_confirmed + g_in_flight

\* The attempt counter, which is charged in two places (a refused call, and an
\* acknowledgement that never came), tells the number of transport calls: the
\* calls made are the charged ones plus the one still unanswered.
AttemptsMatchCalls ==
    \A s \in Occupied(g_ring) :
        calls[g_ring[s].payload] = Charged(g_ring[s])

\* A message is given up only for cause: the transport refused it for good, or
\* it was tried exactly MQ_MAX_ATTEMPTS times.  A confirmed one was tried.
SettledForCause ==
    /\ \A p \in dropped \ refused : calls[p] = MQ_MAX_ATTEMPTS
    /\ \A p \in confirmed : calls[p] \in 1 .. MQ_MAX_ATTEMPTS

\* The ring implements the contract of msg_queue.h, the promise that every
\* accepted message is confirmed or retired included.
Contract == INSTANCE DeliveryQueue WITH
    Messages <- Payloads, Capacity <- MQ_CAPACITY, MaxCalls <- MQ_MAX_ATTEMPTS,
    held <- Stored(g_ring)
ImplementsContract == Contract!DQFairSpec

\* msg_queue.h says of mq_foreach: "Visit every stored message exactly once,
\* oldest first (FIFO order)".  The walk from the head, which mq_service shares
\* and mq_persist_save writes to disk, would then meet ascending numbers.
FifoOrder ==
    \A s, t \in Occupied(g_ring) :
        VisitedBefore(s, t) => g_ring[s].payload < g_ring[t].payload

=============================================================================
