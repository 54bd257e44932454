----------------------------- MODULE ReplayLink -----------------------------
(***************************************************************************)
(* One direction of a metaCom channel: the telegrams a sending relay types *)
(* into its channel, the receiving relay's sequence accounting and archive *)
(* (relay_deliver of src/relay.c), its requests for a replay of a gap      *)
(* (relay_request_gap), and the sender's answers out of its own archive    *)
(* (relay_serve_replay, src/msg_database.c).                               *)
(*                                                                         *)
(* Data.  A telegram is the number of its sending, 1, 2, 3 ...; its serial *)
(* on the wire wraps, so two telegrams may carry the same serial.  Its     *)
(* timestamp is in seconds and never decreases.  A row of either database  *)
(* is a telegram; the rows of other friends are left out, except that one  *)
(* of them may take the place of a row of this channel.  What lies between *)
(* the relays (two delivery queues and toxcore) loses, duplicates, delays  *)
(* and reorders: a queue that is full, or that gives a record up, is one   *)
(* more way of losing it.                                                  *)
(***************************************************************************)
EXTENDS SnTracker, FiniteSets

CONSTANTS
    MaxSent,            \* bound: telegrams sent
    FirstSerial,        \* serial of the first of them
    RELAY_MAX_REPLAY,   \* most telegrams one request is answered with
    OnePerSecond,       \* whether no two rows of an archive share a second
    LossyReplay,        \* whether requests, replays and late copies may be lost
    MaxRefused,         \* bound: lines that the encoder refuses
    MaxFaults,          \* bound: rows that are not written or are overwritten
    MaxRestarts         \* bound: restarts of the receiver

ASSUME LinkAssumption ==
    /\ MaxSent \in Nat
    /\ FirstSerial \in Serials
    /\ RELAY_MAX_REPLAY \in Nat \ {0}
    /\ {OnePerSecond, LossyReplay} \subseteq BOOLEAN
    /\ {MaxRefused, MaxFaults, MaxRestarts} \subseteq Nat

VARIABLES
    send_sn,        \* sender: serial of the last telegram
    stamp,          \* sender: timestamp of each telegram sent so far
    outgoing,       \* sender: rows of its archive, direction "outgoing"
    refused,        \* telegrams that tg_encode_text refuses to encode
    toReceiver,     \* telegrams under way
    requests,       \* requests for a replay under way: serials <<from, to>>
    incoming,       \* receiver: rows of its archive, direction "incoming"
    ini_recev,      \* receiver: incoming_sn of the INI file
    accepted,       \* history: how often each telegram was accepted
    discarded,      \* history: telegrams rejected as duplicates
    base,           \* history: the first telegram the tracker accounts for
    faults,         \* history: rows lost for no fault of this channel
    restarts,       \* history: how often the receiver was restarted
    setBack         \* history: some restart did not find the highest telegram

senderVars   == <<send_sn, stamp, outgoing, refused>>
receiverVars == <<trackerVars, incoming, ini_recev, accepted, discarded, base, restarts, setBack>>
linkVars     == <<senderVars, toReceiver, requests, receiverVars, faults>>

Telegrams == 1 .. MaxSent
Sent      == DOMAIN stamp
LastSent  == Cardinality(Sent)

\* The serial that telegram n carries.
SerialOf(n) == ((FirstSerial - 1 + n - 1) % TG_SN_MAX) + 1

-----------------------------------------------------------------------------
(* msg_database.c.  UTC_DateTime is the primary key and the statement is      *)
(* INSERT OR REPLACE: a row of the same second is replaced.                   *)

msg_database_add(rows, n, st) == {m \in rows : st[m] # st[n]} \cup {n}

\* A statement fails, or a row of another channel takes the place of one of this.
Fault == faults < MaxFaults /\ faults' = faults + 1

msg_database_last_sn_Oldest(rows) ==
    LET sns == {SerialOf(n) : n \in rows}
    IN  IF rows = {} THEN 0 ELSE CHOOSE x \in sns : \A y \in sns : y >= x

\* COALESCE(MAX(Msg_SN), 0)
msg_database_last_sn(rows) ==
    LET sns == {SerialOf(n) : n \in rows}
    IN  IF rows = {} THEN 0 ELSE CHOOSE x \in sns : \A y \in sns : y <= x

InRange(sn, from, to) ==
    IF from <= to THEN sn >= from /\ sn <= to ELSE sn >= from \/ sn <= to

msg_database_range_Short(rows, from, to, max) ==
    LET hits == {n \in rows : InRange(SerialOf(n), from, to) /\ SerialOf(n) # to}
    IN  {n \in hits : Cardinality({m \in hits : stamp[m] < stamp[n]}) < max}

\* ORDER BY UTC_DateTime ASC LIMIT max: the oldest rows come first.
msg_database_range(rows, from, to, max) ==
    LET hits == {n \in rows : InRange(SerialOf(n), from, to)}
    IN  {n \in hits : Cardinality({m \in hits : stamp[m] < stamp[n]}) < max}

-----------------------------------------------------------------------------
(* The sender *)

\* A line typed on the console: next serial, encode, enqueue, archive.  A line
\* that the encoder refuses is not queued, and a copy that is queued may be
\* lost on the way; the serial is used up and the row written regardless.  That
\* the archive failed is only logged.
Send ==
    LET n == LastSent + 1
        t == IF LastSent = 0 THEN 1 ELSE stamp[LastSent]
    IN
    /\ n \in Telegrams
    /\ send_sn' = tg_sn_next(send_sn)
    /\ \E second \in {t, t + 1} :
          /\ OnePerSecond => second = n
          /\ stamp' = [m \in 1 .. n |-> IF m = n THEN second ELSE stamp[m]]
    /\ \/ outgoing' = msg_database_add(outgoing, n, stamp') /\ UNCHANGED faults
       \/ Fault /\ UNCHANGED outgoing
    /\ \/ /\ Cardinality(refused) < MaxRefused
          /\ refused' = refused \cup {n}
          /\ UNCHANGED toReceiver
       \/ UNCHANGED refused /\ toReceiver' \in {toReceiver, toReceiver \cup {n}}
    /\ UNCHANGED <<requests, receiverVars>>

\* relay_serve_replay: every stored telegram of the range that can be encoded
\* is sent again.
relay_serve_replay(q) ==
    /\ toReceiver' = toReceiver \cup
          (msg_database_range(outgoing, q[1], q[2], RELAY_MAX_REPLAY) \ refused)
    /\ requests' = requests \ {q}
    /\ UNCHANGED <<senderVars, receiverVars, faults>>

-----------------------------------------------------------------------------
(* The receiver *)

\* The telegram was delivered; the copy is gone, or a retry brings it again.
Consumed(n) == toReceiver' \in {toReceiver, toReceiver \ {n}}

\* What relay_deliver does with every telegram that is not a duplicate.  That
\* the archive failed is not looked at.
Store(n) ==
    /\ \/ incoming' = msg_database_add(incoming, n, stamp) /\ UNCHANGED faults
       \/ Fault /\ UNCHANGED incoming
    /\ ini_recev' = SerialOf(n)
    /\ accepted' = [accepted EXCEPT ![n] = @ + 1]
    /\ UNCHANGED <<discarded, restarts, setBack>>

\* Telegrams the tracker still accounts for when n opens a new sequence.
Since(n, fresh) == base' = IF fresh THEN n ELSE base

DeliverInOrder(n) ==
    /\ sn_in_order(SerialOf(n))
    /\ Store(n)
    /\ Since(n, ~synced)
    /\ Consumed(n)
    /\ UNCHANGED <<senderVars, requests>>

DeliverRecovered(n) ==
    /\ sn_recovered(SerialOf(n))
    /\ Store(n)
    /\ Since(n, FALSE)
    /\ Consumed(n)
    /\ UNCHANGED <<senderVars, requests>>

\* The request is queued, or finds the queue full (RELAY_STORED).
DeliverGap(n) ==
    /\ sn_gap(SerialOf(n))
    /\ Store(n)
    /\ Since(n, FALSE)
    /\ Consumed(n)
    /\ \/ requests' = requests \cup {<<expected, tg_sn_prev(SerialOf(n))>>}
       \/ LossyReplay /\ UNCHANGED requests
    /\ UNCHANGED senderVars

DeliverResync(n) ==
    /\ sn_resync(SerialOf(n))
    /\ Store(n)
    /\ Since(n, TRUE)
    /\ Consumed(n)
    /\ UNCHANGED <<senderVars, requests>>

DeliverDuplicate(n) ==
    /\ sn_duplicate(SerialOf(n))
    /\ discarded' = discarded \cup {n}
    /\ Consumed(n)
    /\ UNCHANGED <<senderVars, requests, incoming, ini_recev, accepted, base, restarts,
                   setBack, faults>>

relay_deliver(n) ==
    \/ DeliverInOrder(n) \/ DeliverRecovered(n) \/ DeliverGap(n)
    \/ DeliverResync(n) \/ DeliverDuplicate(n)

Highest ==
    IF \E n \in Telegrams : accepted[n] > 0
      THEN CHOOSE n \in Telegrams :
              accepted[n] > 0 /\ \A m \in Telegrams : accepted[m] > 0 => m <= n
      ELSE 0

\* A restart: the outstanding set is lost, relay_recover_trackers resumes from
\* the highest serial in the archive.
Restart ==
    /\ restarts < MaxRestarts
    /\ restarts' = restarts + 1
    /\ sn_tracker_resume(msg_database_last_sn(incoming))
    /\ base' = Highest + 1
    /\ setBack' = (setBack \/ (Highest > 0 /\ Highest \notin incoming))
    /\ UNCHANGED <<senderVars, toReceiver, requests, incoming, ini_recev,
                   accepted, discarded, faults>>

-----------------------------------------------------------------------------
(* The surroundings *)

\* The table is shared by all channels and both directions: a row of another
\* channel with the same second replaces that of telegram n.
OverwriteOutgoing(n) ==
    /\ ~OnePerSecond /\ Fault
    /\ outgoing' = outgoing \ {n}
    /\ UNCHANGED <<send_sn, stamp, refused, toReceiver, requests, receiverVars>>

OverwriteIncoming(n) ==
    /\ ~OnePerSecond /\ Fault
    /\ incoming' = incoming \ {n}
    /\ UNCHANGED <<senderVars, toReceiver, requests, trackerVars, ini_recev, accepted,
                   discarded, base, restarts, setBack>>

LoseTelegram(n) ==
    /\ LossyReplay
    /\ toReceiver' = toReceiver \ {n}
    /\ UNCHANGED <<senderVars, requests, receiverVars, faults>>

LoseRequest(q) ==
    /\ LossyReplay
    /\ requests' = requests \ {q}
    /\ UNCHANGED <<senderVars, toReceiver, receiverVars, faults>>

-----------------------------------------------------------------------------
RInit ==
    /\ send_sn = tg_sn_prev(FirstSerial)
    /\ stamp = [n \in {} |-> 0]
    /\ outgoing = {} /\ refused = {} /\ toReceiver = {} /\ requests = {}
    /\ TrackerInit(TrackerReset(TG_SN_MIN))
    /\ incoming = {} /\ ini_recev = 0
    /\ accepted = [n \in Telegrams |-> 0]
    /\ discarded = {} /\ base = 1 /\ restarts = 0 /\ setBack = FALSE /\ faults = 0

RNext ==
    \/ Send
    \/ \E n \in toReceiver : relay_deliver(n) \/ LoseTelegram(n)
    \/ \E q \in requests : relay_serve_replay(q) \/ LoseRequest(q)
    \/ \E n \in outgoing : OverwriteOutgoing(n)
    \/ \E n \in incoming : OverwriteIncoming(n)
    \/ Restart

RSpec == RInit /\ [][RNext]_linkVars

\* Copies and requests that are not lost arrive, each of them in the end.
RFairSpec ==
    /\ RSpec
    /\ \A n \in Telegrams : WF_linkVars(n \in toReceiver /\ relay_deliver(n))
    /\ WF_linkVars(\E q \in requests : relay_serve_replay(q))

-----------------------------------------------------------------------------
(* Properties *)

\* Telegrams the tracker should know to be missing.
Missing == {n \in base .. Highest : accepted[n] = 0}

\* The outstanding set holds exactly the serials of the missing telegrams, each
\* once, and pending_count is its size: gaps opened out of order, overlapping
\* replays and late originals neither forget a telegram nor count it twice, and
\* a gap that does not fit the array is not taken down in part.
OutstandingExact ==
    /\ \A sn \in Serials :
          pending[sn] = Cardinality({n \in Missing : SerialOf(n) = sn})
    /\ pending_count = Cardinality(Missing) /\ pending_count <= SN_MAX_PENDING

\* However often copies of it arrive (retries of the delivery queue, a replay
\* that crosses the late original), a telegram is accepted at most once.
AcceptedAtMostOnce == \A n \in Telegrams : accepted[n] <= 1

\* telegram.h: SN_DUPLICATE means "the serial was already seen".  A telegram is
\* rejected only if it was accepted before, or if it is older than the point
\* where the tracker started, resumed or resynchronised.
RejectedWasSeen == \A n \in discarded : accepted[n] > 0 \/ n < base

\* telegram.h, postcondition of sn_tracker_accept: "t->expected always ends up
\* one step past the highest serial accepted so far", over restarts too, unless
\* one of them did not find the highest telegram in the archive.
ExpectedFollowsHighest == synced /\ ~setBack => expected = SerialOf(Highest + 1)

\* relay.h: after a restart "the tracker is advanced past it, so the first
\* telegram after a restart is not mistaken for a gap".
ResumesPastHighest ==
    [][Restart /\ Highest > 0 => expected' = SerialOf(Highest + 1)]_linkVars

\* relay.h on the archive a restart reads: a telegram whose row is there is not
\* accepted again.  Rows fail to be written and replace each other, so a restart
\* may resume too low, and telegrams that lost their rows do come in twice; but
\* neither that, nor the gaps the tracker then reports and asks for again, makes
\* relay_deliver take a telegram that is stored.
StoredNotAcceptedAgain ==
    [][\A n \in incoming : accepted'[n] = accepted[n]]_linkVars

\* relay.h: remember_serial is a "mirror of the highest received serial".
IniMirrorsHighest == Highest > 0 => ini_recev = SerialOf(Highest)

\* The tracker waits for telegram n, and the sender's archive can answer for it.
AwaitedAndStored(n) ==
    pending[SerialOf(n)] > 0 /\ n \in outgoing /\ n \notin refused

\* A telegram noted as missing comes in by the replay, or is given up by a
\* resynchronisation or a restart, or the sender cannot replay it: its row was
\* not written, was replaced, or holds a line that does not encode.  Gaps that
\* stay open for good are of the last kind.
GapsClose == \A n \in Telegrams : AwaitedAndStored(n) ~> ~AwaitedAndStored(n)

=============================================================================
