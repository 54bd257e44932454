--------------------------- MODULE QueueTransport ---------------------------
(***************************************************************************)
(* The delivery queue on toxcore: tox_transport hands a message to         *)
(* toxcore, cb_friend_read_receipt hands the acknowledgement back, and the *)
(* main loop and the command handlers send messages of their own on the    *)
(* same friend connections, past the queue.                                *)
(*                                                                         *)
(* toxcore is external.  What the code relies on: a message to a connected *)
(* friend gets a receipt number from a counter of that friend; messages    *)
(* and acknowledgements arrive late or never; a lost connection loses what *)
(* is in transit.                                                          *)
(***************************************************************************)
EXTENDS MsgQueueLedger

CONSTANTS
    MAX_Friend_NUM,     \* size of the tables indexed by friend number
    MaxReceipt          \* bound on the messages sent to one friend

ASSUME MaxFriendAssumption == MAX_Friend_NUM \in Nat
ASSUME MaxReceiptAssumption == MaxReceipt \in Nat /\ 1 .. MaxReceipt \subseteq Receipts

VARIABLES
    online,         \* friends with a connection
    last_receipt,   \* per friend, the last receipt number toxcore gave out
    transit,        \* messages on their way to a friend
    acks,           \* acknowledgements on their way back
    received        \* history: telegrams a friend has got

netVars == <<online, last_receipt, transit, acks, received>>
transportVars == <<ledgerVars, netVars>>

friend_number_valid(f) == f < MAX_Friend_NUM

-----------------------------------------------------------------------------
(* toxcore *)

\* tox_friend_send_message succeeds and returns the next receipt number.
ToxSend(f, p) ==
    /\ f \in online
    /\ last_receipt[f] < MaxReceipt
    /\ last_receipt' = [last_receipt EXCEPT ![f] = @ + 1]
    /\ transit' = transit \cup
          {[friendnum |-> f, receipt |-> last_receipt[f] + 1, payload |-> p]}
    /\ UNCHANGED <<online, acks, received>>

Connect(f) ==
    /\ friend_number_valid(f)
    /\ f \notin online
    /\ online' = online \cup {f}
    /\ UNCHANGED <<ledgerVars, last_receipt, transit, acks, received>>

Disconnect(f) ==
    /\ f \in online
    /\ online' = online \ {f}
    /\ transit' = {m \in transit : m.friendnum # f}
    /\ acks' = {a \in acks : a.friendnum # f}
    /\ UNCHANGED <<ledgerVars, last_receipt, received>>

\* The friend gets a message and acknowledges it.
PeerReceives(m) ==
    /\ transit' = transit \ {m}
    /\ acks' = acks \cup {[friendnum |-> m.friendnum, receipt |-> m.receipt]}
    /\ received' = received \cup ({m.payload} \ {NoPayload})
    /\ UNCHANGED <<ledgerVars, online, last_receipt>>

-----------------------------------------------------------------------------
(* tox_transport, called by mq_service *)

TSent_ReceiptUnset(s) ==
    LET e == g_ring[s] IN
    /\ friend_number_valid(e.friendnum)
    /\ ToxSend(e.friendnum, e.payload)
    /\ LSent(s, 1)

TSent(s) ==
    LET e == g_ring[s] IN
    /\ friend_number_valid(e.friendnum)
    /\ ToxSend(e.friendnum, e.payload)
    /\ LSent(s, last_receipt'[e.friendnum])

\* MQ_SEND_RETRYABLE: no connection, or toxcore has no room.
TDeferred(s) ==
    /\ friend_number_valid(g_ring[s].friendnum)
    /\ LDeferred(s)
    /\ UNCHANGED netVars

TExhausted(s) ==
    /\ friend_number_valid(g_ring[s].friendnum)
    /\ LExhausted(s)
    /\ UNCHANGED netVars

TFatal(s) ==
    /\ ~friend_number_valid(g_ring[s].friendnum)
    /\ LFatal(s)
    /\ UNCHANGED netVars

TExpire(s) == LExpire(s) /\ UNCHANGED netVars

TService ==
    \E s \in Slots :
        TExpire(s) \/ TSent(s) \/ TDeferred(s) \/ TExhausted(s) \/ TFatal(s)

\* cb_friend_read_receipt for a telegram that still waits for this receipt ...
AckConfirms(a) ==
    /\ LConfirm(a.friendnum, a.receipt)
    /\ acks' = acks \ {a}
    /\ UNCHANGED <<online, last_receipt, transit, received>>

\* ... and for one that nobody waits for: it came after the timeout, or it
\* answers a message that did not come from the queue.
AckIgnored(a) ==
    /\ mq_confirm_notfound(a.friendnum, a.receipt)
    /\ acks' = acks \ {a}
    /\ UNCHANGED <<g_stats, historyVars, online, last_receipt, transit, received>>

\* A hello signal or the answer to a command.
DirectSend(f) ==
    /\ ToxSend(f, NoPayload)
    /\ UNCHANGED ledgerVars

-----------------------------------------------------------------------------
TInit ==
    /\ LInit
    /\ online = {}
    /\ last_receipt = [f \in Friends |-> 0]
    /\ transit = {} /\ acks = {} /\ received = {}

TNext ==
    \/ \E f \in Friends : LEnqueue(f) /\ UNCHANGED netVars
    \/ LEnqueueFull /\ UNCHANGED netVars
    \/ TService
    \/ LTick /\ UNCHANGED netVars
    \/ \E a \in acks : AckConfirms(a) \/ AckIgnored(a)
    \/ \E m \in transit : PeerReceives(m)
    \/ \E f \in Friends : Connect(f) \/ Disconnect(f) \/ DirectSend(f)

TSpec == TInit /\ [][TNext]_transportVars

-----------------------------------------------------------------------------
(* Properties *)

\* mq_confirm takes the first slot that matches a receipt: no two messages in
\* flight ever share one, so it is never the wrong slot.
ReceiptsUnambiguous ==
    \A s, t \in InFlight(g_ring) :
        /\ g_ring[s].friendnum = g_ring[t].friendnum
        /\ g_ring[s].receipt = g_ring[t].receipt
        => s = t

\* A telegram is confirmed only if its friend has got it: acknowledgements that
\* are late, that answer an earlier attempt of another telegram or that answer
\* a hello signal never settle a telegram that has not arrived.
ConfirmedWasReceived == confirmed \subseteq received

\* The comment in tox_transport says of a friend without a connection:
\* "peer offline: keep the telegram queued".
OfflineKeepsQueued ==
    [][\A s \in Slots :
         (g_ring[s].state = "PENDING" /\ g_ring[s].friendnum \notin online
            /\ friend_number_valid(g_ring[s].friendnum))
         => g_ring[s].payload \notin dropped']_transportVars

=============================================================================
