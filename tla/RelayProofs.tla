---------------------------- MODULE RelayProofs -----------------------------
(***************************************************************************)
(* Proofs about the relay policy: a channel between two relays, and the    *)
(* directory by which a relay finds the channel of a peer.                 *)
(*                                                                         *)
(* The channel: sequence tracking and replay over a network that loses,    *)
(* duplicates, delays and reorders, for every size of the serial space,    *)
(* of the outstanding set and of the gap that is worth a replay.  A serial *)
(* tells telegrams apart only near each other.  The theorems hold for any  *)
(* number of telegrams and of laps of the serials, as long as what         *)
(* arrives, and what is missing, is less than half the serial space away   *)
(* from the telegram expected (Fresh).  A restart looks for the greatest   *)
(* serial in the archive, so what is proved with restarts also asks for    *)
(* serials that have not yet wrapped, and holds until a restart that does  *)
(* not find the highest telegram there (setBack).  That a stored telegram  *)
(* is not accepted again needs no such thing of the archive.               *)
(*                                                                         *)
(* The directory: for every number of friends and of channels, as long as  *)
(* a number has not lost its friend (vacated), the number, the entry of    *)
(* the directory, the flag in the INI file and the records of the queue    *)
(* all speak of the same peer.                                             *)
(***************************************************************************)
EXTENDS ReplayLink, RelayNode, FiniteSetTheorems, WellFoundedInduction, TLAPS

-----------------------------------------------------------------------------
(* The channel *)

\* Less than half the serial space away from the telegram expected.
Near(n) ==
    /\ 2 * (n - (Highest + 1)) < TG_SN_MAX
    /\ 2 * ((Highest + 1) - n) < TG_SN_MAX

\* No copy under way, and no telegram that is waited for, is older or newer than
\* that.
Fresh == synced => \A n \in toReceiver \cup Missing : Near(n)

\* The greatest serial is the latest.
NotWrapped == FirstSerial + MaxSent - 1 <= TG_SN_MAX

\* What the theorems on the tracker assume of the constants.
RestartsUnwrapped == MaxRestarts > 0 => NotWrapped

-----------------------------------------------------------------------------
(* Serial numbers *)

\* The remainder is unique.
LEMMA ModUnique ==
    ASSUME NEW M \in Nat, M > 0, NEW q \in Int, NEW r \in 0 .. M - 1,
           NEW x \in Int, x = M * q + r
    PROVE  x % M = r
OBVIOUS

\* The remainder of a sum.
LEMMA ModStep ==
    ASSUME NEW M \in Nat, M > 0, NEW x \in Nat, NEW d \in 0 .. M - 1
    PROVE  /\ x % M \in 0 .. M - 1
           /\ (x + d) % M = IF (x % M) + d < M THEN (x % M) + d ELSE (x % M) + d - M
<1> DEFINE q == x \div M
           r == x % M
<1>1. q \in Int /\ r \in 0 .. M - 1 /\ x = M * q + r
  OBVIOUS
<1>2. (x + d) % M = IF r + d < M THEN r + d ELSE r + d - M
  <2> HIDE DEF q, r
  <2>1. CASE r + d < M
    <3>1. x + d = M * q + (r + d) /\ r + d \in 0 .. M - 1
      BY <1>1, <2>1
    <3>2. (x + d) % M = r + d
      BY <1>1, <3>1, ModUnique
    <3> QED
      BY <2>1, <3>2
  <2>2. CASE ~(r + d < M)
    <3> DEFINE next == q + 1
               left == r + d - M
    <3>1. x + d = M * next + left /\ left \in 0 .. M - 1 /\ next \in Int /\ x + d \in Int
      BY <1>1, <2>2
    <3> HIDE DEF next
    <3>2. (x + d) % M = left
      <4> HIDE DEF left
      <4> QED
        BY <3>1, ModUnique
    <3> QED
      BY <2>2, <3>2
  <2> QED
    BY <2>1, <2>2
<1> QED
  BY <1>1, <1>2

\* Serials grow with the telegrams, and wrap.
LEMMA SerialStep ==
    ASSUME NEW n \in Nat, 1 <= n, NEW d \in 0 .. TG_SN_MAX - 1
    PROVE  /\ SerialOf(n) \in Serials
           /\ SerialOf(n + d) = IF SerialOf(n) + d <= TG_SN_MAX THEN SerialOf(n) + d
                                ELSE SerialOf(n) + d - TG_SN_MAX
<1> DEFINE x == FirstSerial - 1 + n - 1
<1>1. /\ TG_SN_MAX \in Nat /\ TG_SN_MAX > 0 /\ FirstSerial \in Nat /\ 1 <= FirstSerial
      /\ FirstSerial - 1 + (n + d) - 1 = x + d /\ x \in Nat /\ d \in Nat
  BY SerialAssumption, LinkAssumption DEF Serials, TG_SN_MIN
<1>2. SerialOf(n) = (x % TG_SN_MAX) + 1 /\ SerialOf(n + d) = ((x + d) % TG_SN_MAX) + 1
  BY <1>1 DEF SerialOf
<1> HIDE DEF x
<1>3. /\ x % TG_SN_MAX \in 0 .. TG_SN_MAX - 1
      /\ (x + d) % TG_SN_MAX = IF (x % TG_SN_MAX) + d < TG_SN_MAX THEN (x % TG_SN_MAX) + d
                                ELSE (x % TG_SN_MAX) + d - TG_SN_MAX
  BY <1>1, ModStep
<1> QED
  BY <1>1, <1>2, <1>3 DEF Serials, TG_SN_MIN

\* A telegram carries a serial.
LEMMA SerialIs ==
    /\ TG_SN_MAX \in Nat /\ TG_SN_MAX > 1
    /\ \A n \in Nat : 1 <= n => SerialOf(n) \in Serials
    /\ \A n \in Telegrams : n \in Nat /\ 1 <= n /\ n <= MaxSent
<1>1. TG_SN_MAX \in Nat /\ TG_SN_MAX > 1 /\ 0 \in 0 .. TG_SN_MAX - 1
  BY SerialAssumption
<1> QED
  BY <1>1, SerialStep, LinkAssumption, SMTT(30) DEF Telegrams

\* The distance of two serials, whichever is the greater number.
LEMMA DistanceIs ==
    ASSUME NEW a \in Serials, NEW b \in Serials
    PROVE  tg_sn_distance(a, b) = IF b >= a THEN b - a ELSE b - a + TG_SN_MAX
<1>1. /\ TG_SN_MAX \in Nat /\ TG_SN_MAX > 1 /\ TG_SN_RANGE = TG_SN_MAX
      /\ a \in Nat /\ 1 <= a /\ a <= TG_SN_MAX /\ b \in Nat /\ 1 <= b /\ b <= TG_SN_MAX
  BY SerialAssumption DEF Serials, TG_SN_MIN, TG_SN_RANGE
<1>2. CASE b >= a
  <2>1. (b - a) % TG_SN_MAX = b - a
    BY <1>1, <1>2
  <2> QED
    BY <1>1, <1>2, <2>1 DEF tg_sn_distance, CRemainder
<1>3. CASE ~(b >= a)
  <2>1. (-(b - a)) % TG_SN_MAX = a - b
    BY <1>1, <1>3
  <2>2. CRemainder(b - a, TG_SN_MAX) = b - a
    BY <1>1, <1>3, <2>1 DEF CRemainder
  <2> QED
    BY <1>1, <1>3, <2>2 DEF tg_sn_distance
<1> QED
  BY <1>2, <1>3

\* The distance between the serials of two telegrams is the number of
\* telegrams between them, counted forward around the serial space.
LEMMA TelegramDistance ==
    ASSUME NEW a \in Nat, 1 <= a, NEW b \in Nat, 1 <= b,
           b - a < TG_SN_MAX, a - b < TG_SN_MAX
    PROVE  tg_sn_distance(SerialOf(a), SerialOf(b))
              = IF b >= a THEN b - a ELSE b - a + TG_SN_MAX
<1>1. TG_SN_MAX \in Nat /\ TG_SN_MAX > 1 /\ SerialOf(a) \in Serials /\ SerialOf(b) \in Serials
  BY SerialIs
<1>2. /\ SerialOf(a) \in Nat /\ 1 <= SerialOf(a) /\ SerialOf(a) <= TG_SN_MAX
      /\ SerialOf(b) \in Nat /\ 1 <= SerialOf(b) /\ SerialOf(b) <= TG_SN_MAX
  BY <1>1 DEF Serials, TG_SN_MIN
<1>3. tg_sn_distance(SerialOf(a), SerialOf(b))
         = IF SerialOf(b) >= SerialOf(a) THEN SerialOf(b) - SerialOf(a)
           ELSE SerialOf(b) - SerialOf(a) + TG_SN_MAX
  BY <1>1, DistanceIs
<1>4. CASE b >= a
  <2>1. b - a \in 0 .. TG_SN_MAX - 1 /\ a + (b - a) = b
    BY <1>1, <1>4
  <2>2. SerialOf(b) = IF SerialOf(a) + (b - a) <= TG_SN_MAX THEN SerialOf(a) + (b - a)
                      ELSE SerialOf(a) + (b - a) - TG_SN_MAX
    BY <2>1, SerialStep
  <2> QED
    BY <1>1, <1>2, <1>3, <1>4, <2>1, <2>2
<1>5. CASE ~(b >= a)
  <2>1. a - b \in 0 .. TG_SN_MAX - 1 /\ b + (a - b) = a
    BY <1>1, <1>5
  <2>2. SerialOf(a) = IF SerialOf(b) + (a - b) <= TG_SN_MAX THEN SerialOf(b) + (a - b)
                      ELSE SerialOf(b) + (a - b) - TG_SN_MAX
    BY <2>1, SerialStep
  <2> QED
    BY <1>1, <1>2, <1>3, <1>5, <2>1, <2>2
<1> QED
  BY <1>4, <1>5

\* Telegrams within one lap have different serials.
LEMMA SerialsDiffer ==
    ASSUME NEW a \in Nat, 1 <= a, NEW b \in Nat, 1 <= b,
           b - a < TG_SN_MAX, a - b < TG_SN_MAX, SerialOf(a) = SerialOf(b)
    PROVE  a = b
<1>1. tg_sn_distance(SerialOf(a), SerialOf(b)) = IF b >= a THEN b - a ELSE b - a + TG_SN_MAX
  BY TelegramDistance
<1>2. tg_sn_distance(SerialOf(a), SerialOf(b)) = 0
  <2>1. SerialOf(a) \in Serials /\ SerialOf(a) \in Nat
    BY SerialIs DEF Serials, TG_SN_MIN
  <2> QED
    BY <2>1, DistanceIs
<1> QED
  BY <1>1, <1>2, SerialAssumption

\* Successive telegrams have successive serials.
LEMMA NextSerial ==
    ASSUME NEW n \in Nat, 1 <= n
    PROVE  tg_sn_next(SerialOf(n)) = SerialOf(n + 1)
<1>1. 1 \in 0 .. TG_SN_MAX - 1 /\ TG_SN_MAX \in Nat
  BY SerialAssumption
<1>2. /\ SerialOf(n) \in Serials
      /\ SerialOf(n + 1) = IF SerialOf(n) + 1 <= TG_SN_MAX THEN SerialOf(n) + 1
                           ELSE SerialOf(n) + 1 - TG_SN_MAX
  BY <1>1, SerialStep
<1> QED
  BY <1>1, <1>2 DEF tg_sn_next, tg_sn_valid, TG_SN_MIN, Serials

\* A range of serials is that of a range of telegrams.
LEMMA RangeIs ==
    ASSUME NEW a \in Nat, 1 <= a, NEW b \in Nat, a <= b, b - a < TG_SN_MAX
    PROVE  SerialRange(SerialOf(a), b - a) = {SerialOf(n) : n \in a .. b - 1}
<1>1. TG_SN_MAX \in Nat /\ SerialOf(a) \in Serials
  BY SerialIs
<1>2. ASSUME NEW n \in a .. b - 1 PROVE SerialOf(n) \in SerialRange(SerialOf(a), b - a)
  <2>1. n \in Nat /\ 1 <= n /\ n >= a /\ n - a < TG_SN_MAX /\ a - n < TG_SN_MAX /\ n - a < b - a
    BY <1>1
  <2>2. tg_sn_distance(SerialOf(a), SerialOf(n)) = n - a
    BY <2>1, TelegramDistance
  <2>3. SerialOf(n) \in Serials
    BY <2>1, SerialIs
  <2> QED
    BY <2>1, <2>2, <2>3 DEF SerialRange
<1>3. ASSUME NEW sn \in SerialRange(SerialOf(a), b - a)
      PROVE  \E n \in a .. b - 1 : SerialOf(n) = sn
  <2> DEFINE d == tg_sn_distance(SerialOf(a), sn)
  <2>1. sn \in Serials /\ d < b - a
    BY DEF SerialRange
  <2>2. d = IF sn >= SerialOf(a) THEN sn - SerialOf(a) ELSE sn - SerialOf(a) + TG_SN_MAX
    BY <1>1, <2>1, DistanceIs
  <2> HIDE DEF d
  <2>3. /\ sn \in Nat /\ 1 <= sn /\ sn <= TG_SN_MAX
        /\ SerialOf(a) \in Nat /\ 1 <= SerialOf(a) /\ SerialOf(a) <= TG_SN_MAX
    BY <1>1, <2>1 DEF Serials, TG_SN_MIN
  <2>4. d \in 0 .. TG_SN_MAX - 1 /\ a + d \in a .. b - 1
    BY <1>1, <2>1, <2>2, <2>3
  <2>5. SerialOf(a + d) = IF SerialOf(a) + d <= TG_SN_MAX THEN SerialOf(a) + d
                          ELSE SerialOf(a) + d - TG_SN_MAX
    BY <2>4, SerialStep
  <2>6. SerialOf(a + d) = sn
    BY <1>1, <2>2, <2>3, <2>4, <2>5
  <2> QED
    BY <2>4, <2>6
<1> QED
  BY <1>2, <1>3

-----------------------------------------------------------------------------
(* The archives *)

\* What is known of the archives, whatever the serials do and whatever rows are
\* lost: telegrams are numbered from 1 on, only telegrams that were sent are
\* anywhere, and only accepted ones have a row with the receiver.
ArchivesOK ==
    /\ \E k \in 0 .. MaxSent : Sent = 1 .. k
    /\ toReceiver \subseteq Sent /\ outgoing \subseteq Sent /\ incoming \subseteq Sent
    /\ accepted \in [Telegrams -> Nat]
    /\ \A n \in incoming : accepted[n] > 0
    /\ restarts \in Nat

\* Telegrams sent so far are telegrams, and counting them gives the last one.
LEMMA SentFacts ==
    ASSUME NEW k \in 0 .. MaxSent, Sent = 1 .. k
    PROVE  LastSent = k /\ Sent \subseteq Telegrams
<1>1. MaxSent \in Nat /\ k \in Nat /\ 1 \in Int /\ k \in Int
  BY LinkAssumption
<1>2. Cardinality(1 .. k) = IF 1 > k THEN 0 ELSE k - 1 + 1
  BY <1>1, FS_Interval
<1> QED
  BY <1>1, <1>2 DEF LastSent, Telegrams

\* Both archives start empty.
LEMMA ArchivesInit == RInit => ArchivesOK
<1> SUFFICES ASSUME RInit PROVE ArchivesOK
  OBVIOUS
<1>1. 0 \in 0 .. MaxSent /\ Sent = 1 .. 0
  BY LinkAssumption DEF RInit, Sent
<1>2. Sent = {}
  BY <1>1
<1> QED
  BY <1>1, <1>2 DEF RInit, ArchivesOK

\* A typed line is one more telegram.
LEMMA SendOK ==
    ASSUME ArchivesOK, Send
    PROVE  ArchivesOK'
<1>1. PICK k \in 0 .. MaxSent : Sent = 1 .. k
  BY DEF ArchivesOK
<1>2. LastSent = k /\ Sent \subseteq Telegrams
  BY <1>1, SentFacts
<1>3. MaxSent \in Nat /\ k \in Nat /\ k + 1 \in Telegrams
  BY <1>2, LinkAssumption DEF Send
<1>4. PICK second :
         stamp' = [m \in 1 .. k + 1 |-> IF m = k + 1 THEN second ELSE stamp[m]]
  BY <1>2 DEF Send
<1>5. /\ outgoing' \subseteq outgoing \cup {k + 1}
      /\ toReceiver' \subseteq toReceiver \cup {k + 1}
      /\ UNCHANGED <<incoming, accepted, restarts>>
  BY <1>2 DEF Send, msg_database_add, receiverVars
<1>6. Sent' = 1 .. k + 1 /\ k + 1 \in 0 .. MaxSent
  BY <1>3, <1>4 DEF Sent, Telegrams
<1>7. Sent \subseteq Sent' /\ k + 1 \in Sent'
  BY <1>1, <1>3, <1>6
<1>8. toReceiver' \subseteq Sent' /\ outgoing' \subseteq Sent' /\ incoming' \subseteq Sent'
  BY <1>5, <1>7 DEF ArchivesOK
<1> QED
  BY <1>5, <1>6, <1>8 DEF ArchivesOK

\* A telegram that is accepted gets its row, or none.
LEMMA StoreOK ==
    ASSUME ArchivesOK, NEW n \in toReceiver, Store(n), Consumed(n), UNCHANGED senderVars
    PROVE  ArchivesOK'
<1>1. /\ n \in Sent /\ n \in Telegrams /\ accepted \in [Telegrams -> Nat]
      /\ accepted' = [accepted EXCEPT ![n] = accepted[n] + 1]
      /\ UNCHANGED <<stamp, outgoing, Sent, restarts>> /\ toReceiver' \subseteq toReceiver
  BY SentFacts DEF ArchivesOK, Store, Consumed, senderVars, Sent
<1>2. incoming' \subseteq incoming \cup {n}
  BY DEF Store, msg_database_add
<1>3. accepted' \in [Telegrams -> Nat]
  BY <1>1
<1>4. \A m \in incoming' : accepted'[m] > 0
  <2>1. \A m \in Telegrams : accepted[m] > 0 \/ m = n => accepted'[m] > 0
    BY <1>1
  <2>2. \A m \in incoming' : m \in Telegrams /\ (accepted[m] > 0 \/ m = n)
    BY <1>1, <1>2, SentFacts DEF ArchivesOK
  <2> QED
    BY <2>1, <2>2
<1> QED
  BY <1>1, <1>2, <1>3, <1>4 DEF ArchivesOK

\* Every step keeps the archives in order.
LEMMA ArchivesNext == ArchivesOK /\ [RNext]_linkVars => ArchivesOK'
<1> SUFFICES ASSUME ArchivesOK, [RNext]_linkVars PROVE ArchivesOK'
  OBVIOUS
<1>1. ASSUME toReceiver' \subseteq Sent, outgoing' \subseteq outgoing, incoming' \subseteq incoming,
             restarts' \in Nat, UNCHANGED <<stamp, accepted>>
      PROVE  ArchivesOK'
  BY <1>1 DEF ArchivesOK, Sent
<1>2. ASSUME NEW n \in toReceiver, relay_deliver(n) PROVE ArchivesOK'
  <2>1. CASE DeliverDuplicate(n)
    BY <1>1, <2>1 DEF DeliverDuplicate, Consumed, senderVars, ArchivesOK
  <2>2. CASE ~DeliverDuplicate(n)
    <3>1. Store(n) /\ Consumed(n) /\ UNCHANGED senderVars
      BY <1>2, <2>2 DEF relay_deliver, DeliverInOrder, DeliverRecovered, DeliverGap, DeliverResync
    <3> QED
      BY <3>1, StoreOK
  <2> QED
    BY <2>1, <2>2
<1>3. ASSUME NEW n \in toReceiver, LoseTelegram(n) PROVE ArchivesOK'
  BY <1>1, <1>3 DEF LoseTelegram, senderVars, receiverVars, ArchivesOK
<1>4. ASSUME NEW q \in requests, relay_serve_replay(q) PROVE ArchivesOK'
  BY <1>1, <1>4 DEF relay_serve_replay, msg_database_range, senderVars, receiverVars, ArchivesOK
<1>5. ASSUME NEW q \in requests, LoseRequest(q) PROVE ArchivesOK'
  BY <1>1, <1>5 DEF LoseRequest, senderVars, receiverVars, ArchivesOK
<1>6. CASE Restart
  BY <1>1, <1>6 DEF Restart, senderVars, ArchivesOK
<1>7. CASE UNCHANGED linkVars
  BY <1>1, <1>7 DEF linkVars, senderVars, receiverVars, ArchivesOK
<1>8. ASSUME NEW n, OverwriteOutgoing(n) \/ OverwriteIncoming(n) PROVE ArchivesOK'
  BY <1>1, <1>8 DEF OverwriteOutgoing, OverwriteIncoming, senderVars, receiverVars, ArchivesOK
<1> QED
  BY <1>2, <1>3, <1>4, <1>5, <1>6, <1>7, <1>8, SendOK DEF RNext

-----------------------------------------------------------------------------
(* The inductive invariant *)

\* h is the highest telegram that acc counts, or 0 if it counts none.
IsHighest(acc, h) ==
    \/ h = 0 /\ \A n \in Telegrams : acc[n] = 0
    \/ h \in Telegrams /\ acc[h] > 0 /\ \A n \in Telegrams : acc[n] > 0 => n <= h

\* The tracker expects the telegram after the highest one it has accepted, and
\* accounts for telegrams from its starting point up to that one.
TrackerOK ==
    /\ pending \in [Serials -> Nat] /\ synced \in BOOLEAN
    /\ base \in Nat /\ 1 <= base /\ base <= Highest + 1
    /\ discarded \subseteq Telegrams
    /\ IsHighest(accepted, Highest)
    /\ synced <=> Highest > 0
    /\ synced => expected = SerialOf(Highest + 1)

\* OutstandingExact without counting the telegrams of a serial: they have
\* different serials.
OutstandingOK ==
    /\ \A sn \in Serials : pending[sn] = IF \E n \in Missing : SerialOf(n) = sn THEN 1 ELSE 0
    /\ pending_count = Cardinality(Missing) /\ pending_count <= SN_MAX_PENDING

\* A telegram is accepted again only if it is taken for a new one, so that it
\* is accepted once rests on what the tracker expects and on what is outstanding.
Accounted ==
    /\ TrackerOK /\ OutstandingOK
    /\ AcceptedAtMostOnce /\ RejectedWasSeen

\* The inductive invariant.
RInv == ArchivesOK /\ Accounted

\* Highest is the highest, in this state and in the next.
LEMMA HighestIs ==
    /\ \A h : IsHighest(accepted, h) => Highest = h
    /\ \A h : IsHighest(accepted', h) => Highest' = h
<1>1. MaxSent \in Nat /\ \A n \in Telegrams : n \in Int
  BY LinkAssumption DEF Telegrams
<1> DEFINE TheHighest(acc) ==
             IF \E n \in Telegrams : acc[n] > 0
               THEN CHOOSE n \in Telegrams :
                       acc[n] > 0 /\ \A m \in Telegrams : acc[m] > 0 => m <= n
               ELSE 0
<1>2. ASSUME NEW acc, NEW h, IsHighest(acc, h) PROVE TheHighest(acc) = h
  <2>1. CASE h = 0 /\ \A n \in Telegrams : acc[n] = 0
    BY <2>1
  <2>2. CASE h \in Telegrams /\ acc[h] > 0 /\ \A n \in Telegrams : acc[n] > 0 => n <= h
    <3>1. \A n \in Telegrams : acc[n] > 0 /\ (\A m \in Telegrams : acc[m] > 0 => m <= n) => n = h
      BY <1>1, <2>2
    <3> QED
      BY <2>2, <3>1
  <2> QED
    BY <1>2, <2>1, <2>2 DEF IsHighest
<1>3. Highest = TheHighest(accepted) /\ Highest' = TheHighest(accepted')
  BY DEF Highest
<1> QED
  BY <1>2, <1>3

\* Basic facts that hold in every state of the invariant.
LEMMA HighestFacts ==
    ASSUME RInv
    PROVE  /\ MaxSent \in Nat /\ Highest \in 0 .. MaxSent
           /\ accepted \in [Telegrams -> Nat]
           /\ \A n \in Telegrams : n \in 1 .. MaxSent + 1 /\ n \in Nat
           /\ \A n \in Telegrams : n > Highest => accepted[n] = 0
           /\ Highest + 1 \in 1 .. MaxSent + 1
           /\ toReceiver \subseteq Telegrams
<1>1. MaxSent \in Nat /\ \A n \in Telegrams : n \in 1 .. MaxSent + 1 /\ n \in Nat
  BY LinkAssumption DEF Telegrams
<1>2. accepted \in [Telegrams -> Nat]
  BY DEF RInv, Accounted, ArchivesOK
<1>3. toReceiver \subseteq Telegrams
  BY SentFacts DEF RInv, Accounted, ArchivesOK
<1>4. Highest \in 0 .. MaxSent
  BY <1>1 DEF RInv, Accounted, TrackerOK, IsHighest, Telegrams
<1>5. \A n \in Telegrams : n > Highest => accepted[n] = 0
  BY <1>1, <1>2, <1>4 DEF RInv, Accounted, TrackerOK, IsHighest
<1> QED
  BY <1>1, <1>2, <1>3, <1>4, <1>5

\* The set of missing telegrams is finite.
LEMMA MissingFinite ==
    ASSUME RInv
    PROVE  IsFiniteSet(Missing) /\ Cardinality(Missing) \in Nat /\ Missing \subseteq Telegrams
<1>1. base \in Nat /\ 1 <= base /\ Highest \in 0 .. MaxSent /\ MaxSent \in Nat
  BY HighestFacts DEF RInv, Accounted, TrackerOK
<1>2. base .. Highest \subseteq Telegrams /\ base \in Int /\ Highest \in Int
  BY <1>1 DEF Telegrams
<1>3. IsFiniteSet(base .. Highest)
  BY <1>2, FS_Interval
<1>4. Missing \subseteq base .. Highest
  BY DEF Missing
<1>5. IsFiniteSet(Missing)
  BY <1>3, <1>4, FS_Subset
<1> QED
  BY <1>2, <1>4, <1>5, FS_CardinalityType

\* A telegram that is accepted for the first time.
LEMMA FirstTime ==
    ASSUME RInv, NEW n \in Telegrams, accepted[n] = 0, Store(n),
           NEW h, h = IF Highest < n THEN n ELSE Highest,
           base' \in Nat, base <= base'
    PROVE  /\ Highest' = h /\ IsHighest(accepted', h)
           /\ accepted'[n] = 1 /\ \A m \in Telegrams : m # n => accepted'[m] = accepted[m]
           /\ discarded' = discarded
           /\ AcceptedAtMostOnce' /\ RejectedWasSeen'
<1>1. /\ accepted \in [Telegrams -> Nat] /\ Highest \in 0 .. MaxSent /\ MaxSent \in Nat
      /\ \A m \in Telegrams : m \in Nat
  BY HighestFacts
<1>2. accepted' = [accepted EXCEPT ![n] = accepted[n] + 1] /\ discarded' = discarded
  BY DEF Store
<1>3. accepted'[n] = 1 /\ \A m \in Telegrams : m # n => accepted'[m] = accepted[m]
  BY <1>1, <1>2
<1>4. IsHighest(accepted', h)
  <2>1. h \in Telegrams /\ accepted'[h] > 0
    BY <1>1, <1>3 DEF RInv, Accounted, TrackerOK, IsHighest
  <2>2. ASSUME NEW m \in Telegrams, accepted'[m] > 0 PROVE m <= h
    <3>1. CASE m = n
      BY <1>1, <3>1
    <3>2. CASE m # n
      <4>1. accepted[m] > 0
        BY <1>3, <2>2, <3>2
      <4>2. m <= Highest
        BY <1>1, <4>1 DEF RInv, Accounted, TrackerOK, IsHighest
      <4> QED
        BY <1>1, <4>2
    <3> QED
      BY <3>1, <3>2
  <2> QED
    BY <2>1, <2>2 DEF IsHighest
<1>5. Highest' = h
  BY <1>4, HighestIs
<1>6. AcceptedAtMostOnce'
  BY <1>3 DEF RInv, Accounted, AcceptedAtMostOnce
<1>7. RejectedWasSeen'
  <2>1. ASSUME NEW m \in discarded PROVE accepted'[m] > 0 \/ m < base'
    <3>1. m \in Telegrams /\ (accepted[m] > 0 \/ m < base) /\ base \in Nat /\ m \in Nat
      BY <1>1 DEF RInv, Accounted, TrackerOK, RejectedWasSeen
    <3> QED
      BY <1>3, <3>1
  <2> QED
    BY <1>2, <2>1 DEF RejectedWasSeen
<1> QED
  BY <1>2, <1>3, <1>4, <1>5, <1>6, <1>7

\* Where a telegram stands relative to the one expected.
LEMMA Standing ==
    ASSUME RInv, synced, NEW n \in Telegrams, Near(n)
    PROVE  LET d == tg_sn_distance(expected, SerialOf(n)) IN
           /\ d = 0 <=> n = Highest + 1
           /\ Behind(SerialOf(n)) <=> n <= Highest
           /\ n > Highest => d = n - (Highest + 1)
           /\ d >= 0
<1>1. /\ MaxSent \in Nat /\ Highest \in 0 .. MaxSent /\ n \in Nat /\ 1 <= n
      /\ Highest + 1 \in Nat /\ 1 <= Highest + 1
  BY HighestFacts, SerialIs
<1>2. expected = SerialOf(Highest + 1)
  BY DEF RInv, Accounted, TrackerOK
<1>3. /\ TG_SN_MAX \in Nat /\ TG_SN_RANGE = TG_SN_MAX
      /\ 2 * (n - (Highest + 1)) < TG_SN_MAX /\ 2 * ((Highest + 1) - n) < TG_SN_MAX
      /\ n - (Highest + 1) < TG_SN_MAX /\ (Highest + 1) - n < TG_SN_MAX
  BY <1>1, SerialAssumption DEF Near, TG_SN_RANGE, TG_SN_MIN
<1>4. tg_sn_distance(expected, SerialOf(n))
         = IF n >= Highest + 1 THEN n - (Highest + 1) ELSE n - (Highest + 1) + TG_SN_MAX
  BY <1>1, <1>2, <1>3, TelegramDistance
<1>5. /\ TG_SN_MAX \div 2 \in Nat /\ 2 * (TG_SN_MAX \div 2) <= TG_SN_MAX
      /\ TG_SN_MAX < 2 * (TG_SN_MAX \div 2) + 2
  BY <1>3
<1>6. Behind(SerialOf(n)) <=> n <= Highest
  BY <1>1, <1>4, <1>3, <1>5 DEF Behind
<1> QED
  BY <1>1, <1>4, <1>3, <1>6

\* A telegram near the one expected is no missing one, unless it is that one.
LEMMA NotConfused ==
    ASSUME RInv, synced, NEW m \in Missing, Near(m), NEW n \in Nat, 1 <= n, Near(n),
           SerialOf(m) = SerialOf(n)
    PROVE  m = n
<1>1. Highest \in Nat /\ m \in Nat /\ 1 <= m /\ TG_SN_MAX \in Nat
  BY HighestFacts, MissingFinite, SerialIs
<1>2. m - n < TG_SN_MAX /\ n - m < TG_SN_MAX
  BY <1>1 DEF Near
<1> QED
  BY <1>1, <1>2, SerialsDiffer

-----------------------------------------------------------------------------
(* One lemma for each verdict *)

\* The expected telegram, or the first one of all: nothing becomes missing.
LEMMA InOrderOK ==
    ASSUME RInv, NEW n \in Telegrams, synced => Near(n), DeliverInOrder(n)
    PROVE  Accounted'
<1>1. /\ accepted \in [Telegrams -> Nat] /\ Highest \in 0 .. MaxSent /\ MaxSent \in Nat
      /\ (\A m \in Telegrams : m \in Nat) /\ \A m \in Telegrams : m > Highest => accepted[m] = 0
  BY HighestFacts
<1>2. /\ pending \in [Serials -> Nat] /\ base \in Nat /\ 1 <= base /\ base <= Highest + 1
      /\ discarded \subseteq Telegrams /\ synced \in BOOLEAN /\ (synced <=> Highest > 0)
  BY DEF RInv, Accounted, TrackerOK
<1>3. /\ ~synced \/ tg_sn_distance(expected, SerialOf(n)) = 0
      /\ synced' = TRUE /\ expected' = tg_sn_next(SerialOf(n))
      /\ pending' = pending /\ pending_count' = pending_count
      /\ base' = IF ~synced THEN n ELSE base
      /\ Store(n)
  BY DEF DeliverInOrder, sn_in_order, Since
<1>4. n \in Nat /\ 1 <= n /\ n <= MaxSent /\ n + 1 \in Nat
  BY SerialIs
<1>5. /\ n > Highest /\ (synced => n = Highest + 1) /\ base' \in Nat /\ base <= base'
      /\ 1 <= base' /\ base' <= n
  <2>1. CASE synced
    <3>1. n = Highest + 1
      BY <1>3, <2>1, Standing
    <3> QED
      BY <1>1, <1>2, <1>3, <2>1, <3>1
  <2>2. CASE ~synced
    BY <1>1, <1>2, <1>3, <1>4, <2>2
  <2> QED
    BY <2>1, <2>2
<1>6. accepted[n] = 0 /\ n = IF Highest < n THEN n ELSE Highest
  BY <1>1, <1>4, <1>5
<1>7. /\ Highest' = n /\ IsHighest(accepted', n)
      /\ accepted'[n] = 1 /\ (\A m \in Telegrams : m # n => accepted'[m] = accepted[m])
      /\ discarded' = discarded /\ AcceptedAtMostOnce' /\ RejectedWasSeen'
  BY <1>3, <1>5, <1>6, FirstTime
<1>8. expected' = SerialOf(n + 1)
  BY <1>3, <1>4, NextSerial
<1>9. TrackerOK'
  BY <1>2, <1>3, <1>4, <1>5, <1>7, <1>8 DEF TrackerOK
<1>10. Missing' = Missing
  <2>1. Missing' = {m \in base' .. n : accepted'[m] = 0}
    BY <1>7 DEF Missing
  <2>2. ASSUME NEW m \in base' .. n, accepted'[m] = 0 PROVE m \in Missing
    <3>1. m \in Nat /\ 1 <= m /\ m <= n /\ m \in Telegrams
      BY <1>1, <1>4, <1>5 DEF Telegrams
    <3>2. m # n /\ accepted[m] = 0
      BY <1>7, <2>2, <3>1
    <3>3. synced
      BY <1>3, <1>4, <3>1, <3>2, <2>2
    <3> QED
      BY <1>1, <1>2, <1>3, <1>5, <3>1, <3>2, <3>3 DEF Missing
  <2>3. ASSUME NEW m \in Missing PROVE m \in base' .. n /\ accepted'[m] = 0
    <3>1. m \in base .. Highest /\ accepted[m] = 0 /\ m \in Telegrams
      BY MissingFinite DEF Missing
    <3>2. synced
      BY <1>1, <1>2, <3>1
    <3> QED
      BY <1>1, <1>2, <1>3, <1>4, <1>5, <1>7, <3>1, <3>2
  <2> QED
    BY <2>1, <2>2, <2>3
<1>11. OutstandingOK'
  BY <1>3, <1>10 DEF RInv, Accounted, OutstandingOK
<1> QED
  BY <1>7, <1>9, <1>11 DEF Accounted

\* A telegram that was asked for: it is no longer missing.
LEMMA RecoveredOK ==
    ASSUME RInv, Fresh, NEW n \in Telegrams, synced => Near(n), DeliverRecovered(n)
    PROVE  Accounted'
<1>1. /\ accepted \in [Telegrams -> Nat] /\ Highest \in 0 .. MaxSent /\ MaxSent \in Nat
      /\ (\A m \in Telegrams : m \in Nat) /\ \A m \in Telegrams : m > Highest => accepted[m] = 0
  BY HighestFacts
<1>2. /\ pending \in [Serials -> Nat] /\ base \in Nat /\ 1 <= base /\ base <= Highest + 1
      /\ discarded \subseteq Telegrams /\ synced \in BOOLEAN /\ (synced <=> Highest > 0)
      /\ (synced => expected = SerialOf(Highest + 1))
  BY DEF RInv, Accounted, TrackerOK
<1>3. /\ pending[SerialOf(n)] > 0
      /\ pending' = [pending EXCEPT ![SerialOf(n)] = pending[SerialOf(n)] - 1]
      /\ pending_count' = pending_count - 1
      /\ expected' = expected /\ synced' = synced /\ base' = base
      /\ Store(n)
  BY DEF DeliverRecovered, sn_recovered, Since
<1>4. n \in Nat /\ 1 <= n /\ SerialOf(n) \in Serials
  BY SerialIs
<1>5. /\ n \in Missing /\ pending[SerialOf(n)] = 1
      /\ \A m \in Missing : SerialOf(m) = SerialOf(n) => m = n
  <2>1. PICK m \in Missing : SerialOf(m) = SerialOf(n)
    BY <1>3, <1>4 DEF RInv, Accounted, OutstandingOK
  <2>2. synced = TRUE
    BY <1>1, <1>2 DEF Missing
  <2>3. Near(n) /\ \A k \in Missing : Near(k)
    BY <2>2 DEF Fresh
  <2>4. \A k \in Missing : SerialOf(k) = SerialOf(n) => k = n
    BY <1>4, <2>2, <2>3, NotConfused
  <2> QED
    BY <1>4, <2>1, <2>4 DEF RInv, Accounted, OutstandingOK
<1>6. accepted[n] = 0 /\ Highest = IF Highest < n THEN n ELSE Highest
  BY <1>1, <1>2, <1>5 DEF Missing
<1>7. /\ Highest' = Highest /\ IsHighest(accepted', Highest)
      /\ accepted'[n] = 1 /\ (\A m \in Telegrams : m # n => accepted'[m] = accepted[m])
      /\ discarded' = discarded /\ AcceptedAtMostOnce' /\ RejectedWasSeen'
  BY <1>2, <1>3, <1>6, FirstTime
<1>8. pending' \in [Serials -> Nat]
  BY <1>2, <1>3, <1>4
<1>9. TrackerOK'
  BY <1>2, <1>3, <1>7, <1>8 DEF TrackerOK
<1>10. Missing' = Missing \ {n}
  <2>1. Missing' = {m \in base .. Highest : accepted'[m] = 0}
    BY <1>3, <1>7 DEF Missing
  <2>2. base .. Highest \subseteq Telegrams
    BY <1>1, <1>2 DEF Telegrams
  <2>3. \A m \in base .. Highest : accepted'[m] = 0 <=> accepted[m] = 0 /\ m # n
    BY <1>7, <2>2
  <2> QED
    BY <2>1, <2>3 DEF Missing
<1>11. pending_count' = Cardinality(Missing') /\ pending_count' <= SN_MAX_PENDING
  <2>1. IsFiniteSet(Missing) /\ Cardinality(Missing) \in Nat
    BY MissingFinite
  <2>2. Cardinality(Missing \ {n}) = Cardinality(Missing) - 1
    BY <1>5, <2>1, FS_RemoveElement
  <2>3. pending_count = Cardinality(Missing) /\ pending_count <= SN_MAX_PENDING /\ SN_MAX_PENDING \in Nat
    BY PendingAssumption DEF RInv, Accounted, OutstandingOK
  <2> QED
    BY <1>3, <1>10, <2>1, <2>2, <2>3
<1>12. ASSUME NEW sn \in Serials
       PROVE  pending'[sn] = IF \E m \in Missing' : SerialOf(m) = sn THEN 1 ELSE 0
  <2>1. pending[sn] = IF \E m \in Missing : SerialOf(m) = sn THEN 1 ELSE 0
    BY DEF RInv, Accounted, OutstandingOK
  <2>2. CASE sn = SerialOf(n)
    <3>1. ~\E m \in Missing' : SerialOf(m) = sn
      BY <1>5, <1>10, <2>2
    <3> QED
      BY <1>2, <1>3, <1>5, <2>2, <3>1
  <2>3. CASE sn # SerialOf(n)
    <3>1. (\E m \in Missing' : SerialOf(m) = sn) <=> \E m \in Missing : SerialOf(m) = sn
      BY <1>10, <2>3
    <3> QED
      BY <1>2, <1>3, <2>1, <2>3, <3>1
  <2> QED
    BY <2>2, <2>3
<1>13. OutstandingOK'
  BY <1>11, <1>12 DEF OutstandingOK
<1> QED
  BY <1>7, <1>9, <1>13 DEF Accounted

\* A telegram beyond the expected one, and few enough between: those between
\* become missing.
LEMMA GapOK ==
    ASSUME RInv, Fresh, NEW n \in Telegrams, synced => Near(n), DeliverGap(n)
    PROVE  Accounted'
<1> DEFINE Between == Highest + 1 .. n - 1
<1>1. /\ accepted \in [Telegrams -> Nat] /\ Highest \in 0 .. MaxSent /\ MaxSent \in Nat
      /\ (\A m \in Telegrams : m \in Nat) /\ \A m \in Telegrams : m > Highest => accepted[m] = 0
  BY HighestFacts
<1>2. /\ pending \in [Serials -> Nat] /\ base \in Nat /\ 1 <= base /\ base <= Highest + 1
      /\ discarded \subseteq Telegrams /\ synced \in BOOLEAN
      /\ (synced => expected = SerialOf(Highest + 1))
  BY DEF RInv, Accounted, TrackerOK
<1> DEFINE dist == tg_sn_distance(expected, SerialOf(n))
<1>3. /\ synced /\ dist > 0 /\ ~Behind(SerialOf(n)) /\ pending_count + dist <= SN_MAX_PENDING
      /\ pending' = [x \in Serials |->
            pending[x] + (IF x \in SerialRange(expected, dist) THEN 1 ELSE 0)]
      /\ pending_count' = pending_count + dist
      /\ expected' = tg_sn_next(SerialOf(n)) /\ synced' = synced /\ base' = base
      /\ Store(n)
  BY DEF DeliverGap, sn_gap, Surprising, Recoverable, Since
<1>4. n > Highest /\ n # Highest + 1 /\ dist = n - (Highest + 1)
  <2>1. /\ dist = 0 <=> n = Highest + 1
        /\ Behind(SerialOf(n)) <=> n <= Highest
        /\ n > Highest => dist = n - (Highest + 1)
    BY <1>3, Standing
  <2> HIDE DEF dist
  <2> QED
    BY <1>1, <1>3, <2>1
<1>5. /\ n \in Nat /\ 1 <= n /\ n <= MaxSent
      /\ Highest + 1 \in Nat /\ 1 <= Highest + 1 /\ Highest + 1 <= n
  BY <1>1, <1>4, SerialIs
<1>6. accepted[n] = 0 /\ n = (IF Highest < n THEN n ELSE Highest) /\ base <= base'
  BY <1>1, <1>2, <1>3, <1>4
<1>7. /\ Highest' = n /\ IsHighest(accepted', n)
      /\ accepted'[n] = 1 /\ (\A m \in Telegrams : m # n => accepted'[m] = accepted[m])
      /\ discarded' = discarded /\ AcceptedAtMostOnce' /\ RejectedWasSeen'
  BY <1>2, <1>3, <1>6, FirstTime
<1>8. expected' = SerialOf(n + 1) /\ expected = SerialOf(Highest + 1)
  BY <1>2, <1>3, <1>5, NextSerial
<1>9. TrackerOK'
  <2>1. pending' \in [Serials -> Nat]
    BY <1>2, <1>3
  <2> QED
    BY <1>1, <1>2, <1>3, <1>4, <1>5, <1>7, <1>8, <2>1 DEF TrackerOK
<1>10. /\ Missing' = Missing \cup Between /\ Missing \cap Between = {}
       /\ Between \subseteq Telegrams
  <2>1. Missing' = {m \in base .. n : accepted'[m] = 0}
    BY <1>3, <1>7 DEF Missing
  <2>2. base .. n \subseteq Telegrams
    BY <1>1, <1>2, <1>5 DEF Telegrams
  <2>3. ASSUME NEW m \in base .. n, accepted'[m] = 0 PROVE m \in Missing \cup Between
    <3>1. m \in Nat /\ m # n /\ accepted[m] = 0
      BY <1>1, <1>7, <2>2, <2>3
    <3> QED
      BY <1>1, <1>2, <1>5, <3>1 DEF Missing
  <2>4. ASSUME NEW m \in Missing PROVE m \in base .. n /\ accepted'[m] = 0 /\ m \notin Between
    <3>1. m \in base .. Highest /\ accepted[m] = 0
      BY DEF Missing
    <3>2. m \in base .. n /\ m # n /\ m \notin Between
      BY <1>1, <1>2, <1>5, <3>1
    <3> QED
      BY <1>7, <2>2, <3>1, <3>2
  <2>5. ASSUME NEW m \in Between PROVE m \in base .. n /\ accepted'[m] = 0 /\ m \in Telegrams
    <3>1. m \in base .. n /\ m # n /\ m > Highest
      BY <1>1, <1>2, <1>5
    <3> QED
      BY <1>1, <1>7, <2>2, <3>1
  <2> HIDE DEF Between
  <2> QED
    BY <2>1, <2>3, <2>4, <2>5
<1>11. pending_count' = Cardinality(Missing') /\ pending_count' <= SN_MAX_PENDING
  <2>1. IsFiniteSet(Missing) /\ Cardinality(Missing) \in Nat
    BY MissingFinite
  <2>2. Highest + 1 \in Int /\ n - 1 \in Int
    BY <1>1, <1>5
  <2>3. IsFiniteSet(Between) /\ Cardinality(Between) = n - (Highest + 1)
    <3>1. /\ IsFiniteSet(Between)
          /\ Cardinality(Between)
               = IF Highest + 1 > n - 1 THEN 0 ELSE n - 1 - (Highest + 1) + 1
      BY <2>2, FS_Interval
    <3> HIDE DEF Between, dist
    <3> QED
      BY <1>1, <1>4, <1>5, <3>1
  <2> HIDE DEF Between, dist
  <2>4. Cardinality(Missing \cup Between)
           = Cardinality(Missing) + Cardinality(Between) - Cardinality(Missing \cap Between)
    BY <2>1, <2>3, FS_Union
  <2>5. Cardinality(Missing \cap Between) = 0
    BY <1>10, FS_EmptySet
  <2>6. pending_count = Cardinality(Missing)
    BY DEF RInv, Accounted, OutstandingOK
  <2> QED
    BY <1>1, <1>3, <1>4, <1>5, <1>10, <2>1, <2>3, <2>4, <2>5, <2>6
<1>12. Near(n) /\ TG_SN_MAX \in Nat /\ \A m \in Missing : Near(m)
  BY <1>3, SerialIs DEF Fresh
<1>13. SerialRange(expected, dist) = {SerialOf(k) : k \in Between}
  <2>1. n - (Highest + 1) < TG_SN_MAX
    BY <1>1, <1>5, <1>12 DEF Near
  <2> QED
    BY <1>4, <1>5, <1>8, <2>1, RangeIs
<1>14. \A m \in Missing, k \in Between : SerialOf(m) # SerialOf(k)
  <2> SUFFICES ASSUME NEW m \in Missing, NEW k \in Between, SerialOf(m) = SerialOf(k)
               PROVE  FALSE
    OBVIOUS
  <2>1. k \in Nat /\ 1 <= k /\ Near(k)
    BY <1>1, <1>5, <1>12 DEF Near
  <2>2. m = k
    BY <1>3, <1>12, <2>1, NotConfused
  <2> QED
    BY <1>10, <2>2
<1> HIDE DEF dist, Between
<1>15. ASSUME NEW sn \in Serials
       PROVE  pending'[sn] = IF \E m \in Missing' : SerialOf(m) = sn THEN 1 ELSE 0
  <2>1. pending[sn] = IF \E m \in Missing : SerialOf(m) = sn THEN 1 ELSE 0
    BY DEF RInv, Accounted, OutstandingOK
  <2>2. pending'[sn] = pending[sn] + (IF \E k \in Between : SerialOf(k) = sn THEN 1 ELSE 0)
    <3>1. sn \in SerialRange(expected, dist) <=> \E k \in Between : SerialOf(k) = sn
      BY <1>13
    <3> QED
      BY <1>3, <3>1
  <2>3. (\E m \in Missing' : SerialOf(m) = sn)
           <=> (\E m \in Missing : SerialOf(m) = sn) \/ \E k \in Between : SerialOf(k) = sn
    BY <1>10
  <2>4. ~((\E m \in Missing : SerialOf(m) = sn) /\ \E k \in Between : SerialOf(k) = sn)
    BY <1>14
  <2> QED
    BY <2>1, <2>2, <2>3, <2>4
<1>16. OutstandingOK'
  BY <1>11, <1>15 DEF OutstandingOK
<1> QED
  BY <1>7, <1>9, <1>16 DEF Accounted

\* An empty outstanding set goes with no telegram missing.
LEMMA NothingOutstanding ==
    ASSUME Missing' = {}, pending' = NonePending, pending_count' = 0
    PROVE  OutstandingOK'
<1>1. Cardinality({}) = 0 /\ 0 <= SN_MAX_PENDING
  BY FS_EmptySet, PendingAssumption
<1> QED
  BY <1>1 DEF OutstandingOK, NonePending

\* A telegram too far ahead: what was missing is given up, and the tracker
\* accounts for telegrams from this one on.
LEMMA ResyncOK ==
    ASSUME RInv, NEW n \in Telegrams, synced => Near(n), DeliverResync(n)
    PROVE  Accounted'
<1>1. /\ accepted \in [Telegrams -> Nat] /\ Highest \in 0 .. MaxSent /\ MaxSent \in Nat
      /\ (\A m \in Telegrams : m \in Nat) /\ \A m \in Telegrams : m > Highest => accepted[m] = 0
  BY HighestFacts
<1>2. /\ base \in Nat /\ 1 <= base /\ base <= Highest + 1
      /\ discarded \subseteq Telegrams /\ synced \in BOOLEAN
  BY DEF RInv, Accounted, TrackerOK
<1>3. /\ synced /\ ~Behind(SerialOf(n))
      /\ pending' = NonePending /\ pending_count' = 0
      /\ expected' = tg_sn_next(SerialOf(n)) /\ synced' = synced /\ base' = n
      /\ Store(n)
  BY DEF DeliverResync, sn_resync, Surprising, Since
<1>4. ~(n <= Highest)
  BY <1>3, Standing
<1>5. n \in Nat /\ 1 <= n /\ n <= MaxSent /\ n > Highest
  BY <1>1, <1>4, SerialIs
<1>6. /\ accepted[n] = 0 /\ n = (IF Highest < n THEN n ELSE Highest)
      /\ base' \in Nat /\ base <= base'
  BY <1>1, <1>2, <1>3, <1>5
<1>7. /\ Highest' = n /\ IsHighest(accepted', n)
      /\ accepted'[n] = 1 /\ discarded' = discarded /\ AcceptedAtMostOnce' /\ RejectedWasSeen'
  BY <1>3, <1>6, FirstTime
<1>8. expected' = SerialOf(n + 1)
  BY <1>3, <1>5, NextSerial
<1>9. TrackerOK'
  <2>1. pending' \in [Serials -> Nat]
    BY <1>3 DEF NonePending
  <2> QED
    BY <1>2, <1>3, <1>5, <1>7, <1>8, <2>1 DEF TrackerOK
<1>10. Missing' = {}
  BY <1>3, <1>5, <1>7 DEF Missing
<1>11. OutstandingOK'
  BY <1>3, <1>10, NothingOutstanding
<1> QED
  BY <1>7, <1>9, <1>11 DEF Accounted

\* A telegram that lies behind and is not missing: it was accepted, or came
\* before the tracker's starting point.
LEMMA DuplicateOK ==
    ASSUME RInv, NEW n \in Telegrams, synced => Near(n), DeliverDuplicate(n)
    PROVE  Accounted'
<1>1. /\ synced /\ pending[SerialOf(n)] = 0 /\ Behind(SerialOf(n))
      /\ UNCHANGED <<expected, synced, pending, pending_count, accepted, base>>
      /\ discarded' = discarded \cup {n}
  BY DEF DeliverDuplicate, sn_duplicate, Surprising, trackerVars
<1>2. Highest' = Highest /\ Missing' = Missing
  BY <1>1 DEF Highest, Missing
<1>3. n <= Highest
  BY <1>1, Standing
<1>4. n \notin Missing
  BY <1>1, SerialIs DEF RInv, Accounted, OutstandingOK
<1>5. /\ accepted \in [Telegrams -> Nat] /\ Highest \in Nat /\ base \in Nat /\ n \in Nat
  BY HighestFacts DEF RInv, Accounted, TrackerOK
<1>6. accepted[n] > 0 \/ n < base
  BY <1>3, <1>4, <1>5 DEF Missing
<1> QED
  BY <1>1, <1>2, <1>6 DEF RInv, Accounted, TrackerOK, OutstandingOK, AcceptedAtMostOnce, RejectedWasSeen

-----------------------------------------------------------------------------
(* A restart *)

\* As long as serials have not wrapped, a later telegram has a greater one.
LEMMA SerialGrows ==
    ASSUME NotWrapped, NEW m \in Telegrams
    PROVE  m \in Nat /\ SerialOf(m) = FirstSerial + m - 1
<1>1. /\ FirstSerial \in Nat /\ 1 <= FirstSerial /\ TG_SN_MAX \in Nat /\ MaxSent \in Nat
      /\ FirstSerial + MaxSent - 1 <= TG_SN_MAX
  BY SerialAssumption, LinkAssumption DEF NotWrapped, Serials, TG_SN_MIN
<1> DEFINE x == FirstSerial - 1 + m - 1
<1>2. m \in Nat /\ x \in 0 .. TG_SN_MAX - 1 /\ x = TG_SN_MAX * 0 + x /\ TG_SN_MAX > 0
  BY <1>1 DEF Telegrams
<1>3. x % TG_SN_MAX = x
  <2> HIDE DEF x
  <2> QED
    BY <1>1, <1>2, ModUnique
<1> QED
  BY <1>1, <1>2, <1>3 DEF SerialOf

\* The greatest serial of an archive is that of its latest row.
LEMMA LastSnIs ==
    ASSUME NotWrapped, NEW rows \in SUBSET Telegrams, NEW h \in rows, \A m \in rows : m <= h
    PROVE  msg_database_last_sn(rows) = SerialOf(h)
<1> DEFINE sns == {SerialOf(m) : m \in rows}
<1>1. FirstSerial \in Nat /\ \A m \in rows : m \in Nat /\ SerialOf(m) = FirstSerial + m - 1
  BY SerialGrows, LinkAssumption DEF Serials, TG_SN_MIN
<1>2. SerialOf(h) \in sns /\ \A y \in sns : y <= SerialOf(h) /\ y \in Int
  BY <1>1
<1>3. \A x \in sns : (\A y \in sns : y <= x) => x = SerialOf(h)
  <2>1. \A x \in sns : (\A y \in sns : y <= x) => SerialOf(h) <= x /\ x <= SerialOf(h)
    BY <1>2
  <2> HIDE DEF sns
  <2> QED
    BY <1>2, <2>1
<1>4. (CHOOSE x \in sns : \A y \in sns : y <= x) = SerialOf(h)
  <2> HIDE DEF sns
  <2> QED
    BY <1>2, <1>3
<1> QED
  BY <1>4 DEF msg_database_last_sn

\* Unless the restart is one that sets back, that is the highest telegram.
LEMMA FoundHighest ==
    ASSUME NotWrapped, RInv, Highest > 0 => Highest \in incoming
    PROVE  msg_database_last_sn(incoming) = IF Highest > 0 THEN SerialOf(Highest) ELSE 0
<1>1. /\ accepted \in [Telegrams -> Nat] /\ Highest \in 0 .. MaxSent /\ MaxSent \in Nat
      /\ (\A m \in Telegrams : m \in Nat) /\ \A m \in Telegrams : m > Highest => accepted[m] = 0
  BY HighestFacts
<1>2. incoming \subseteq Telegrams /\ \A m \in incoming : accepted[m] > 0
  BY SentFacts DEF RInv, ArchivesOK
<1>3. \A m \in incoming : m <= Highest /\ m >= 1
  BY <1>1, <1>2 DEF Telegrams
<1>4. CASE Highest = 0
  <2>1. incoming = {}
    BY <1>2, <1>3, <1>4, <1>1
  <2> QED
    BY <1>4, <2>1 DEF msg_database_last_sn
<1>5. CASE Highest > 0
  BY <1>2, <1>3, <1>5, LastSnIs
<1> QED
  BY <1>1, <1>4, <1>5

\* The tracker resumes past the highest telegram and forgets what was missing.
LEMMA RestartOK ==
    ASSUME RestartsUnwrapped, RInv, Restart, ~setBack'
    PROVE  Accounted'
<1>1. NotWrapped /\ (Highest > 0 => Highest \in incoming)
  <2>1. MaxRestarts > 0
    BY LinkAssumption DEF Restart, RInv, ArchivesOK
  <2> QED
    BY <2>1 DEF RestartsUnwrapped, Restart
<1>2. /\ accepted \in [Telegrams -> Nat] /\ Highest \in 0 .. MaxSent /\ MaxSent \in Nat
      /\ (\A m \in Telegrams : m \in Nat) /\ \A m \in Telegrams : m > Highest => accepted[m] = 0
  BY HighestFacts
<1>3. /\ base \in Nat /\ 1 <= base /\ base <= Highest + 1 /\ discarded \subseteq Telegrams
      /\ IsHighest(accepted, Highest)
  BY DEF RInv, Accounted, TrackerOK
<1> DEFINE last == msg_database_last_sn(incoming)
<1>4. /\ expected' = TrackerResumed(last).expected /\ synced' = TrackerResumed(last).synced
      /\ pending' = NonePending /\ pending_count' = 0
      /\ base' = Highest + 1 /\ accepted' = accepted /\ discarded' = discarded
  BY DEF Restart, sn_tracker_resume
<1>5. Highest' = Highest
  BY <1>4 DEF Highest
<1>6. last = IF Highest > 0 THEN SerialOf(Highest) ELSE 0
  BY <1>1, FoundHighest
<1> HIDE DEF last
<1>7. /\ Highest = 0 => synced' = FALSE
      /\ Highest > 0 => synced' = TRUE /\ expected' = SerialOf(Highest + 1)
  <2>1. ASSUME Highest = 0 PROVE synced' = FALSE
    <3>1. ~tg_sn_valid(last)
      BY <1>6, <2>1 DEF tg_sn_valid, TG_SN_MIN
    <3> QED
      BY <1>4, <2>1, <3>1 DEF TrackerResumed, TrackerReset
  <2>2. ASSUME Highest > 0 PROVE synced' = TRUE /\ expected' = SerialOf(Highest + 1)
    <3>1. Highest \in Nat /\ 1 <= Highest /\ Highest + 1 \in Nat /\ 1 <= Highest + 1
      BY <1>2, <2>2
    <3>2. last \in Serials /\ tg_sn_next(last) = SerialOf(Highest + 1) /\ SerialOf(Highest + 1) \in Serials
      BY <1>6, <2>2, <3>1, SerialIs, NextSerial
    <3>3. tg_sn_valid(last) /\ tg_sn_valid(SerialOf(Highest + 1))
      BY <3>2, SerialAssumption DEF tg_sn_valid, Serials, TG_SN_MIN
    <3> QED
      BY <1>4, <2>2, <3>2, <3>3 DEF TrackerResumed, TrackerReset
  <2> QED
    BY <1>2, <2>1, <2>2
<1>8. TrackerOK'
  <2>1. pending' \in [Serials -> Nat]
    BY <1>4 DEF NonePending
  <2>2. base' \in Nat /\ 1 <= base' /\ base' <= Highest' + 1 /\ discarded' \subseteq Telegrams
    BY <1>2, <1>3, <1>4, <1>5
  <2>3. IsHighest(accepted', Highest')
    BY <1>3, <1>4, <1>5
  <2>4. synced' \in BOOLEAN /\ (synced' <=> Highest' > 0)
    <3>1. Highest = 0 \/ Highest > 0
      BY <1>2
    <3>2. CASE Highest = 0
      BY <1>5, <1>7, <3>2
    <3>3. CASE Highest > 0
      BY <1>5, <1>7, <3>3
    <3> QED
      BY <3>1, <3>2, <3>3
  <2>5. synced' => expected' = SerialOf(Highest' + 1)
    BY <1>5, <1>7, <2>4
  <2> QED
    BY <2>1, <2>2, <2>3, <2>4, <2>5 DEF TrackerOK
<1>9. Missing' = {}
  <2>1. base' .. Highest' = {}
    BY <1>2, <1>4, <1>5
  <2> QED
    BY <2>1 DEF Missing
<1>10. OutstandingOK'
  BY <1>4, <1>9, NothingOutstanding
<1>11. RejectedWasSeen'
  <2>1. ASSUME NEW m \in discarded PROVE accepted[m] > 0 \/ m < Highest + 1
    <3>1. m \in Nat /\ (accepted[m] > 0 \/ m < base)
      BY <1>2, <1>3 DEF RInv, Accounted, RejectedWasSeen
    <3> QED
      BY <1>2, <1>3, <3>1
  <2> QED
    BY <1>4, <2>1 DEF RejectedWasSeen
<1>12. AcceptedAtMostOnce'
  BY <1>4 DEF RInv, Accounted, AcceptedAtMostOnce
<1> QED
  BY <1>8, <1>10, <1>11, <1>12 DEF Accounted

-----------------------------------------------------------------------------
(* The theorems *)

\* Nothing is accepted, outstanding or rejected at the start.
LEMMA LinkInit == RInit => RInv
<1> SUFFICES ASSUME RInit PROVE RInv
  OBVIOUS
<1>1. /\ accepted = [n \in Telegrams |-> 0] /\ discarded = {} /\ base = 1 /\ synced = FALSE
      /\ pending = NonePending /\ pending_count = 0
  BY DEF RInit, TrackerInit, TrackerReset
<1>2. IsHighest(accepted, 0)
  BY <1>1 DEF IsHighest
<1>3. Highest = 0
  BY <1>2, HighestIs
<1>4. TrackerOK
  <2>1. pending \in [Serials -> Nat] /\ ~(Highest > 0)
    BY <1>1, <1>3 DEF NonePending
  <2>2. base \in Nat /\ 1 <= base /\ base <= Highest + 1 /\ discarded \subseteq Telegrams
    BY <1>1, <1>3
  <2>3. IsHighest(accepted, Highest)
    BY <1>2, <1>3
  <2>4. synced \in BOOLEAN /\ ~synced
    BY <1>1
  <2> QED
    BY <2>1, <2>2, <2>3, <2>4 DEF TrackerOK
<1>5. Missing = {}
  BY <1>1, <1>3 DEF Missing
<1>6. OutstandingOK
  BY <1>1, <1>5, FS_EmptySet, PendingAssumption DEF OutstandingOK, NonePending
<1> QED
  BY <1>1, <1>4, <1>6, ArchivesInit
     DEF RInv, Accounted, AcceptedAtMostOnce, RejectedWasSeen

\* Every step keeps the account, except a restart that sets back.
LEMMA LinkNext ==
    ASSUME RestartsUnwrapped, RInv, Fresh, [RNext]_linkVars, ~setBack'
    PROVE  RInv'
<1>1. ArchivesOK'
  BY ArchivesNext DEF RInv
<1>2. ASSUME UNCHANGED <<trackerVars, accepted, discarded, base>> PROVE Accounted'
  <2>1. UNCHANGED <<expected, synced, pending, pending_count, accepted, discarded, base>>
    BY <1>2 DEF trackerVars
  <2>2. Highest' = Highest /\ Missing' = Missing
    BY <2>1 DEF Highest, Missing
  <2> QED
    BY <2>1, <2>2 DEF RInv, Accounted, TrackerOK, OutstandingOK, AcceptedAtMostOnce, RejectedWasSeen
<1>3. ASSUME NEW n \in toReceiver, relay_deliver(n) PROVE Accounted'
  <2>1. n \in Telegrams /\ (synced => Near(n))
    BY SentFacts DEF RInv, ArchivesOK, Fresh
  <2> QED
    BY <1>3, <2>1, InOrderOK, RecoveredOK, GapOK, ResyncOK, DuplicateOK DEF relay_deliver
<1>4. ASSUME Restart PROVE Accounted'
  BY <1>4, RestartOK
<1>5. ASSUME Send \/ UNCHANGED linkVars PROVE Accounted'
  BY <1>2, <1>5 DEF Send, linkVars, receiverVars
<1>6. ASSUME NEW n, LoseTelegram(n) \/ OverwriteOutgoing(n) \/ OverwriteIncoming(n) PROVE Accounted'
  BY <1>2, <1>6 DEF LoseTelegram, OverwriteOutgoing, OverwriteIncoming, receiverVars
<1>7. ASSUME NEW q \in requests, relay_serve_replay(q) \/ LoseRequest(q) PROVE Accounted'
  BY <1>2, <1>7 DEF relay_serve_replay, LoseRequest, receiverVars
<1> QED
  BY <1>1, <1>3, <1>4, <1>5, <1>6, <1>7 DEF RInv, RNext

\* A restart that sets back is remembered.
LEMMA SetBackStays == [RNext]_linkVars /\ setBack => setBack'
<1> SUFFICES ASSUME [RNext]_linkVars, setBack PROVE setBack'
  OBVIOUS
<1>1. UNCHANGED setBack \/ Restart
  BY DEF RNext, linkVars, receiverVars, Send, relay_deliver, DeliverInOrder, DeliverRecovered,
         DeliverGap, DeliverResync, DeliverDuplicate, Store, LoseTelegram, LoseRequest,
         relay_serve_replay, OverwriteOutgoing, OverwriteIncoming
<1> QED
  BY <1>1 DEF Restart

\* Sequence accounting of relay_deliver: the inductive invariant holds over any
\* number of telegrams, laps and replays, as long as copies are fresh, and over
\* restarts until one of them does not find the highest telegram in the archive.
THEOREM LinkInvariance ==
    ASSUME RestartsUnwrapped
    PROVE  RSpec /\ []Fresh => [](~setBack => RInv)
<1>1. (~setBack => RInv) /\ Fresh /\ [RNext]_linkVars => (~setBack' => RInv')
  BY LinkNext, SetBackStays
<1> QED
  BY <1>1, LinkInit, PTL DEF RSpec

\* sn_pending of telegram.c: the outstanding set holds exactly the serials of
\* the telegrams that are missing, each once, and never outgrows its array,
\* restarts that find the highest telegram in the archive included.
THEOREM OutstandingCorrect ==
    ASSUME RestartsUnwrapped
    PROVE  RSpec /\ []Fresh => [](~setBack => OutstandingExact)
<1>1. ASSUME RInv, Fresh PROVE OutstandingExact
  <2>1. OutstandingOK /\ Missing \subseteq Telegrams
    BY <1>1, MissingFinite DEF RInv, Accounted
  <2>2. ASSUME NEW sn \in Serials
        PROVE  pending[sn] = Cardinality({n \in Missing : SerialOf(n) = sn})
    <3>1. CASE \E n \in Missing : SerialOf(n) = sn
      <4>1. PICK n \in Missing : SerialOf(n) = sn
        BY <3>1
      <4>2. synced = TRUE /\ n \in Nat /\ 1 <= n
        <5>1. Highest > 0 /\ synced \in BOOLEAN /\ (synced <=> Highest > 0)
          BY <1>1, <4>1, HighestFacts DEF Missing, RInv, Accounted, TrackerOK
        <5> QED
          BY <2>1, <5>1, SerialIs
      <4>3. \A m \in Missing : SerialOf(m) = SerialOf(n) => m = n
        BY <1>1, <4>2, NotConfused DEF Fresh
      <4>4. {m \in Missing : SerialOf(m) = sn} = {n}
        BY <4>1, <4>3
      <4> QED
        BY <2>1, <4>1, <4>4, FS_Singleton DEF OutstandingOK
    <3>2. CASE ~\E n \in Missing : SerialOf(n) = sn
      <4>1. {m \in Missing : SerialOf(m) = sn} = {}
        BY <3>2
      <4>2. pending[sn] = 0
        BY <2>1, <3>2 DEF OutstandingOK
      <4> QED
        BY <4>1, <4>2, FS_EmptySet
    <3> QED
      BY <3>1, <3>2
  <2> QED
    BY <2>1, <2>2 DEF OutstandingExact, OutstandingOK
<1> QED
  BY <1>1, LinkInvariance, PTL

\* relay_deliver takes no telegram twice, however many copies of it arrive, and
\* whatever rows the archive loses, as long as each restart finds the highest.
THEOREM NoTelegramTwice ==
    ASSUME RestartsUnwrapped
    PROVE  RSpec /\ []Fresh => [](~setBack => AcceptedAtMostOnce)
<1>1. RInv => AcceptedAtMostOnce
  BY DEF RInv, Accounted
<1> QED
  BY <1>1, LinkInvariance, PTL

\* SN_DUPLICATE is the verdict only on telegrams that were accepted before, or
\* are older than the tracker's starting point.
THEOREM NoFalseDuplicate ==
    ASSUME RestartsUnwrapped
    PROVE  RSpec /\ []Fresh => [](~setBack => RejectedWasSeen)
<1>1. RInv => RejectedWasSeen
  BY DEF RInv, Accounted
<1> QED
  BY <1>1, LinkInvariance, PTL

\* t->expected is one step past the highest serial accepted, also after restarts
\* that find it in the archive.
THEOREM TrackerFollows ==
    ASSUME RestartsUnwrapped
    PROVE  RSpec /\ []Fresh => []ExpectedFollowsHighest
<1>1. (~setBack => RInv) => ExpectedFollowsHighest
  BY DEF RInv, Accounted, TrackerOK, ExpectedFollowsHighest
<1> QED
  BY <1>1, LinkInvariance, PTL

\* Copies are fresh, whatever the network does, as long as less than half the
\* serial space was sent: until then the theorems above hold of RSpec alone.
THEOREM FreshAtFirst ==
    ASSUME RestartsUnwrapped, 2 * MaxSent < TG_SN_MAX
    PROVE  RSpec => [](~setBack => Fresh /\ RInv)
<1>1. RInv => Fresh
  <2> SUFFICES ASSUME RInv, NEW n \in toReceiver \cup Missing PROVE Near(n)
    BY DEF Fresh
  <2>1. n \in Telegrams
    BY MissingFinite, SentFacts DEF RInv, ArchivesOK
  <2>2. /\ n \in Nat /\ 1 <= n /\ n <= MaxSent /\ MaxSent \in Nat /\ TG_SN_MAX \in Nat
        /\ Highest \in Nat /\ Highest <= MaxSent
    BY <2>1, SerialIs, HighestFacts
  <2> QED
    BY <2>2 DEF Near
<1>2. (~setBack => RInv) /\ [RNext]_linkVars => (~setBack' => RInv')
  BY <1>1, LinkNext, SetBackStays
<1> QED
  BY <1>1, <1>2, LinkInit, PTL DEF RSpec

-----------------------------------------------------------------------------
(* What the archive protects *)

\* A set of natural numbers has a least member, or it is empty.
LEMMA LeastNatural ==
    ASSUME NEW S \in SUBSET Nat, S # {}
    PROVE  \E c \in S : \A d \in S : c <= d
<1>1. \E c \in S : \A d \in S : ~(<<d, c>> \in OpToRel(<, Nat))
  BY NatLessThanWellFounded, WFMin
<1>2. PICK c \in S : \A d \in S : ~(<<d, c>> \in OpToRel(<, Nat))
  BY <1>1
<1>3. \A d \in S : ~(d < c)
  BY <1>2 DEF OpToRel
<1> QED
  BY <1>3

\* A set of telegrams has a last member, or it is empty.
LEMMA LastTelegram ==
    ASSUME NEW S \in SUBSET Telegrams, S # {}
    PROVE  \E h \in S : \A m \in S : m <= h
<1>1. MaxSent \in Nat /\ \A m \in S : m \in Nat /\ m <= MaxSent
  BY LinkAssumption DEF Telegrams
<1> DEFINE T == {MaxSent - m : m \in S}
<1>2. T \in SUBSET Nat /\ T # {}
  BY <1>1
<1>3. PICK c \in T : \A d \in T : c <= d
  <2> HIDE DEF T
  <2> QED
    BY <1>2, LeastNatural
<1>4. PICK h \in S : c = MaxSent - h
  OBVIOUS
<1>5. \A m \in S : MaxSent - h <= MaxSent - m
  BY <1>3, <1>4
<1> QED
  BY <1>1, <1>5

\* Telegram e is expected; every telegram that has a row is older and is not
\* outstanding, and no telegram from e on is outstanding.
Past(e) ==
    /\ e \in 1 .. MaxSent + 1 /\ expected = SerialOf(e)
    /\ \A n \in incoming : n < e /\ pending[SerialOf(n)] = 0
    /\ \A n \in Telegrams : n >= e => pending[SerialOf(n)] = 0

\* The invariant behind StoredNotAcceptedAgain.  It says nothing of the rows the
\* archive has lost.
StoredOK ==
    /\ ArchivesOK
    /\ pending \in [Serials -> 0 .. 1] /\ synced \in BOOLEAN
    /\ ~synced => incoming = {} /\ pending = NonePending
    /\ synced => \E e \in 1 .. MaxSent + 1 : Past(e)

\* Where a telegram stands relative to e, while less than half of the serials
\* is in use.
LEMMA Placed ==
    ASSUME 2 * MaxSent < TG_SN_MAX, NEW e \in 1 .. MaxSent + 1, expected = SerialOf(e),
           NEW n \in Telegrams
    PROVE  LET d == tg_sn_distance(expected, SerialOf(n)) IN
           /\ d = (IF n >= e THEN n - e ELSE n - e + TG_SN_MAX)
           /\ d = 0 <=> n = e
           /\ Behind(SerialOf(n)) <=> n < e
<1>1. /\ MaxSent \in Nat /\ TG_SN_MAX \in Nat /\ TG_SN_RANGE = TG_SN_MAX
      /\ n \in Nat /\ 1 <= n /\ n <= MaxSent /\ e \in Nat /\ 1 <= e /\ e <= MaxSent + 1
  BY LinkAssumption, SerialIs DEF TG_SN_RANGE, TG_SN_MIN
<1>2. n - e < TG_SN_MAX /\ e - n < TG_SN_MAX
  BY <1>1
<1>3. tg_sn_distance(expected, SerialOf(n)) = IF n >= e THEN n - e ELSE n - e + TG_SN_MAX
  BY <1>1, <1>2, TelegramDistance
<1>4. /\ TG_SN_MAX \div 2 \in Nat /\ 2 * (TG_SN_MAX \div 2) <= TG_SN_MAX
      /\ TG_SN_MAX < 2 * (TG_SN_MAX \div 2) + 2
  BY <1>1
<1> QED
  BY <1>1, <1>3, <1>4 DEF Behind

\* Telegrams have different serials, and all of them are serials.
LEMMA TelegramsDiffer ==
    ASSUME 2 * MaxSent < TG_SN_MAX, NEW m \in Telegrams, NEW n \in Telegrams
    PROVE  SerialOf(m) \in Serials /\ (SerialOf(m) = SerialOf(n) => m = n)
<1>1. /\ MaxSent \in Nat /\ TG_SN_MAX \in Nat /\ m \in Nat /\ 1 <= m /\ m <= MaxSent
      /\ n \in Nat /\ 1 <= n /\ n <= MaxSent
  BY LinkAssumption, SerialIs
<1>2. m - n < TG_SN_MAX /\ n - m < TG_SN_MAX
  BY <1>1
<1> QED
  BY <1>1, <1>2, SerialsDiffer, SerialIs

\* A copy of a telegram that has its row is a duplicate.
LEMMA StoredIsDuplicate ==
    ASSUME 2 * MaxSent < TG_SN_MAX, StoredOK, NEW n \in toReceiver, n \in incoming, relay_deliver(n)
    PROVE  DeliverDuplicate(n)
<1>1. synced /\ n \in Telegrams
  BY SentFacts DEF StoredOK, ArchivesOK
<1>2. PICK e \in 1 .. MaxSent + 1 : Past(e)
  BY <1>1 DEF StoredOK
<1>3. n < e /\ pending[SerialOf(n)] = 0 /\ e \in Nat /\ n \in Nat
  BY <1>1, <1>2, LinkAssumption, SerialIs DEF Past
<1>4. Behind(SerialOf(n)) /\ tg_sn_distance(expected, SerialOf(n)) # 0
  BY <1>1, <1>2, <1>3, Placed DEF Past
<1>5. ~DeliverRecovered(n) /\ ~DeliverGap(n) /\ ~DeliverResync(n) /\ ~DeliverInOrder(n)
  BY <1>1, <1>3, <1>4 DEF DeliverRecovered, sn_recovered, DeliverGap, sn_gap, DeliverResync,
     sn_resync, DeliverInOrder, sn_in_order
<1> QED
  BY <1>5 DEF relay_deliver

\* An accepted telegram: the tracker is past its row.
LEMMA AcceptedStoredOK ==
    ASSUME 2 * MaxSent < TG_SN_MAX, StoredOK, NEW n \in toReceiver,
           DeliverInOrder(n) \/ DeliverRecovered(n) \/ DeliverGap(n) \/ DeliverResync(n)
    PROVE  StoredOK'
<1>1. Store(n) /\ Consumed(n) /\ UNCHANGED senderVars
  BY DEF DeliverInOrder, DeliverRecovered, DeliverGap, DeliverResync
<1>2. ArchivesOK' /\ incoming' \subseteq incoming \cup {n}
  BY <1>1, StoreOK DEF StoredOK, Store, msg_database_add
<1>3. /\ n \in Telegrams /\ n \in Nat /\ 1 <= n /\ n <= MaxSent /\ MaxSent \in Nat
      /\ SerialOf(n) \in Serials /\ n + 1 \in 1 .. MaxSent + 1
      /\ incoming \subseteq Telegrams /\ \A m \in Telegrams : m \in Nat
  BY SentFacts, SerialIs, LinkAssumption DEF StoredOK, ArchivesOK
<1>4. pending \in [Serials -> 0 .. 1] /\ synced \in BOOLEAN
  BY DEF StoredOK
<1>5. tg_sn_next(SerialOf(n)) = SerialOf(n + 1)
  BY <1>3, NextSerial
<1>6. CASE ~synced
  <2>1. incoming = {} /\ pending = NonePending /\ pending[SerialOf(n)] = 0
    BY <1>3, <1>6 DEF StoredOK, NonePending
  <2>2. DeliverInOrder(n)
    <3>1. ~DeliverRecovered(n)
      BY <2>1 DEF DeliverRecovered, sn_recovered
    <3>2. ~DeliverGap(n) /\ ~DeliverResync(n)
      BY <1>6, Zenon DEF DeliverGap, sn_gap, DeliverResync, sn_resync, Surprising
    <3> QED
      BY <3>1, <3>2
  <2>3. synced' = TRUE /\ expected' = SerialOf(n + 1) /\ pending' = NonePending
    BY <1>5, <2>1, <2>2 DEF DeliverInOrder, sn_in_order
  <2>4. \A m \in Telegrams : pending'[SerialOf(m)] = 0
    BY <2>3, TelegramsDiffer DEF NonePending
  <2>5. \A m \in incoming' : m < n + 1 /\ pending'[SerialOf(m)] = 0
    BY <1>2, <1>3, <2>1, <2>4
  <2>6. Past(n + 1)'
    BY <1>3, <2>3, <2>4, <2>5 DEF Past
  <2> QED
    BY <1>2, <1>3, <1>4, <2>1, <2>3, <2>6 DEF StoredOK
<1>7. CASE synced
  <2>1. PICK e \in 1 .. MaxSent + 1 : Past(e)
    BY <1>7 DEF StoredOK
  <2>2. /\ e \in Nat /\ expected = SerialOf(e)
        /\ \A m \in incoming : m < e /\ pending[SerialOf(m)] = 0
        /\ \A m \in Telegrams : m >= e => pending[SerialOf(m)] = 0
    BY <1>3, <2>1 DEF Past
  <2>3. /\ tg_sn_distance(expected, SerialOf(n)) = (IF n >= e THEN n - e ELSE n - e + TG_SN_MAX)
        /\ tg_sn_distance(expected, SerialOf(n)) = 0 <=> n = e
        /\ Behind(SerialOf(n)) <=> n < e
    BY <2>2, <1>3, Placed
  <2>4. synced' = TRUE
    BY <1>7, <1>4 DEF DeliverInOrder, sn_in_order, DeliverRecovered, sn_recovered,
       DeliverGap, sn_gap, DeliverResync, sn_resync
  <2>5. CASE DeliverRecovered(n)
    <3>1. /\ pending[SerialOf(n)] > 0 /\ expected' = expected
          /\ pending' = [pending EXCEPT ![SerialOf(n)] = pending[SerialOf(n)] - 1]
      BY <2>5 DEF DeliverRecovered, sn_recovered
    <3>2. n < e
      BY <1>3, <2>2, <3>1
    <3>3. /\ pending' \in [Serials -> 0 .. 1] /\ pending'[SerialOf(n)] = 0
          /\ \A sn \in Serials : sn # SerialOf(n) => pending'[sn] = pending[sn]
      BY <1>3, <1>4, <3>1
    <3>4. \A m \in Telegrams : pending[SerialOf(m)] = 0 => pending'[SerialOf(m)] = 0
      BY <3>3, TelegramsDiffer
    <3>5. \A m \in incoming' : m < e /\ pending'[SerialOf(m)] = 0
      BY <1>2, <1>3, <2>2, <3>2, <3>3, <3>4
    <3>6. Past(e)'
      BY <2>1, <2>2, <3>1, <3>4, <3>5 DEF Past
    <3> QED
      BY <1>2, <2>4, <3>3, <3>6 DEF StoredOK
  <2>6. CASE ~DeliverRecovered(n)
    <3>1. /\ expected' = SerialOf(n + 1) /\ n >= e
          /\ DeliverInOrder(n) \/ DeliverGap(n) \/ DeliverResync(n)
      <4>1. DeliverInOrder(n) => tg_sn_distance(expected, SerialOf(n)) = 0
        BY <1>7 DEF DeliverInOrder, sn_in_order
      <4>2. DeliverGap(n) \/ DeliverResync(n) => ~Behind(SerialOf(n))
        BY DEF DeliverGap, sn_gap, DeliverResync, sn_resync
      <4>3. expected' = SerialOf(n + 1)
        BY <1>5, <2>6 DEF DeliverInOrder, sn_in_order, DeliverGap, sn_gap, DeliverResync, sn_resync
      <4> QED
        BY <1>3, <2>2, <2>3, <2>6, <4>1, <4>2, <4>3
    <3>2. /\ pending' \in [Serials -> 0 .. 1]
          /\ \A m \in Telegrams : m < e /\ pending[SerialOf(m)] = 0 => pending'[SerialOf(m)] = 0
          /\ \A m \in Telegrams : m >= n => pending'[SerialOf(m)] = 0
      <4>1. CASE DeliverInOrder(n)
        BY <1>3, <1>4, <2>2, <3>1, <4>1 DEF DeliverInOrder, sn_in_order
      <4>2. CASE DeliverResync(n)
        BY <4>2, TelegramsDiffer DEF DeliverResync, sn_resync, NonePending
      <4>3. CASE DeliverGap(n)
        <5>1. pending' = [x \in Serials |->
                 pending[x] + (IF x \in SerialRange(expected, n - e) THEN 1 ELSE 0)]
          BY <2>3, <3>1, <4>3 DEF DeliverGap, sn_gap
        <5>2. n - e < TG_SN_MAX /\ e <= n /\ 1 <= e /\ TG_SN_MAX \in Nat
          BY <1>3, <2>2, <3>1, SerialIs
        <5>3. SerialRange(expected, n - e) = {SerialOf(m) : m \in e .. n - 1}
          BY <1>3, <2>2, <5>2, RangeIs
        <5>4. \A m \in e .. n - 1 : m \in Telegrams /\ m >= e /\ m < n
          BY <1>3, <2>2, <5>2 DEF Telegrams
        <5>5. \A x \in SerialRange(expected, n - e) : pending[x] = 0
          BY <2>2, <5>3, <5>4
        <5>6. pending' \in [Serials -> 0 .. 1]
          BY <1>4, <5>1, <5>5
        <5>7. ASSUME NEW m \in Telegrams, m < e \/ m >= n
              PROVE  SerialOf(m) \notin SerialRange(expected, n - e)
          BY <1>3, <2>2, <5>3, <5>4, <5>7, TelegramsDiffer
        <5>8. \A m \in Telegrams : m < e \/ m >= n => pending'[SerialOf(m)] = pending[SerialOf(m)]
          BY <1>4, <5>1, <5>7, TelegramsDiffer
        <5> QED
          BY <1>3, <2>2, <3>1, <5>6, <5>8
      <4> QED
        BY <3>1, <4>1, <4>2, <4>3
    <3>3. \A m \in incoming' : m < n + 1 /\ pending'[SerialOf(m)] = 0
      BY <1>2, <1>3, <2>2, <3>1, <3>2
    <3>4. \A m \in Telegrams : m >= n + 1 => pending'[SerialOf(m)] = 0
      BY <1>3, <3>2
    <3>5. Past(n + 1)'
      BY <1>3, <3>1, <3>3, <3>4 DEF Past
    <3> QED
      BY <1>2, <1>3, <2>4, <3>2, <3>5 DEF StoredOK
  <2> QED
    BY <2>5, <2>6
<1> QED
  BY <1>4, <1>6, <1>7

\* A restart resumes past the last row there is.
LEMMA RestartStoredOK ==
    ASSUME NotWrapped, StoredOK, ArchivesOK', Restart
    PROVE  StoredOK'
<1> DEFINE last == msg_database_last_sn(incoming)
<1>1. /\ expected' = TrackerResumed(last).expected /\ synced' = TrackerResumed(last).synced
      /\ pending' = NonePending /\ incoming' = incoming
  BY DEF Restart, sn_tracker_resume
<1>2. pending' \in [Serials -> 0 .. 1] /\ \A n \in Telegrams : pending'[SerialOf(n)] = 0
  BY <1>1, SerialIs DEF NonePending
<1>3. CASE incoming = {}
  <2>1. ~tg_sn_valid(last)
    BY <1>3 DEF msg_database_last_sn, tg_sn_valid, TG_SN_MIN
  <2> HIDE DEF last
  <2>2. synced' = FALSE
    BY <1>1, <2>1 DEF TrackerResumed, TrackerReset
  <2> QED
    BY <1>1, <1>2, <1>3, <2>2 DEF StoredOK
<1>4. CASE incoming # {}
  <2>1. incoming \in SUBSET Telegrams
    BY SentFacts DEF StoredOK, ArchivesOK
  <2>2. PICK h \in incoming : \A m \in incoming : m <= h
    BY <1>4, <2>1, LastTelegram
  <2>3. last = SerialOf(h)
    BY <2>1, <2>2, LastSnIs
  <2> HIDE DEF last
  <2>4. h \in Nat /\ 1 <= h /\ h + 1 \in 1 .. MaxSent + 1 /\ h + 1 \in Nat /\ \A m \in incoming : m \in Nat
    BY <2>1, SerialIs, LinkAssumption
  <2>5. last \in Serials /\ tg_sn_next(last) = SerialOf(h + 1) /\ SerialOf(h + 1) \in Serials
    BY <2>3, <2>4, SerialIs, NextSerial
  <2>6. tg_sn_valid(last) /\ tg_sn_valid(SerialOf(h + 1))
    BY <2>5, SerialAssumption DEF tg_sn_valid, Serials, TG_SN_MIN
  <2>7. synced' = TRUE /\ expected' = SerialOf(h + 1)
    BY <1>1, <2>5, <2>6 DEF TrackerResumed, TrackerReset
  <2>8. \A m \in incoming' : m < h + 1 /\ pending'[SerialOf(m)] = 0
    <3>1. incoming' = incoming /\ \A m \in incoming : pending'[SerialOf(m)] = 0
      BY <1>1, <1>2, <2>1
    <3>2. \A m \in incoming : m < h + 1
      BY <2>2, <2>4
    <3> QED
      BY <3>1, <3>2
  <2>9. Past(h + 1)'
    BY <1>2, <2>4, <2>7, <2>8 DEF Past
  <2> QED
    BY <1>2, <2>4, <2>7, <2>9 DEF StoredOK
<1> QED
  BY <1>3, <1>4

\* The invariant behind StoredNotAcceptedAgain is inductive.
LEMMA StoredNext ==
    ASSUME RestartsUnwrapped, 2 * MaxSent < TG_SN_MAX, StoredOK, [RNext]_linkVars
    PROVE  StoredOK'
<1>1. ArchivesOK'
  BY ArchivesNext DEF StoredOK
<1>2. ASSUME UNCHANGED trackerVars, incoming' \subseteq incoming PROVE StoredOK'
  <2>1. UNCHANGED <<expected, synced, pending>>
    BY <1>2 DEF trackerVars
  <2>2. \A e : Past(e) => Past(e)'
    BY <1>2, <2>1 DEF Past
  <2> QED
    BY <1>1, <1>2, <2>1, <2>2 DEF StoredOK
<1>3. ASSUME NEW n \in toReceiver, relay_deliver(n) PROVE StoredOK'
  <2>1. CASE DeliverDuplicate(n)
    BY <1>2, <2>1 DEF DeliverDuplicate, sn_duplicate
  <2> QED
    BY <1>3, <2>1, AcceptedStoredOK DEF relay_deliver
<1>4. ASSUME Restart PROVE StoredOK'
  <2>1. MaxRestarts > 0
    BY <1>4, LinkAssumption DEF Restart, StoredOK, ArchivesOK
  <2> QED
    BY <1>1, <1>4, <2>1, RestartStoredOK DEF RestartsUnwrapped
<1>5. ASSUME Send \/ UNCHANGED linkVars PROVE StoredOK'
  BY <1>2, <1>5 DEF Send, linkVars, receiverVars
<1>6. ASSUME NEW n, LoseTelegram(n) \/ OverwriteOutgoing(n) \/ OverwriteIncoming(n) PROVE StoredOK'
  BY <1>2, <1>6 DEF LoseTelegram, OverwriteOutgoing, OverwriteIncoming, receiverVars
<1>7. ASSUME NEW q \in requests, relay_serve_replay(q) \/ LoseRequest(q) PROVE StoredOK'
  BY <1>2, <1>7 DEF relay_serve_replay, LoseRequest, receiverVars
<1> QED
  BY <1>3, <1>4, <1>5, <1>6, <1>7 DEF RNext

\* relay_deliver and relay_recover_trackers over an archive that fails to write
\* rows and replaces them: a telegram that is stored is not accepted again, until
\* half the serial space was sent.
THEOREM StoredAreSafe ==
    ASSUME RestartsUnwrapped, 2 * MaxSent < TG_SN_MAX
    PROVE  RSpec => StoredNotAcceptedAgain
<1>1. RInit => StoredOK
  <2> SUFFICES ASSUME RInit PROVE StoredOK
    OBVIOUS
  <2>1. ArchivesOK
    BY ArchivesInit
  <2>2. synced = FALSE /\ incoming = {} /\ pending = NonePending
    BY DEF RInit, TrackerInit, TrackerReset
  <2>3. pending \in [Serials -> 0 .. 1]
    BY <2>2 DEF NonePending
  <2> QED
    BY <2>1, <2>2, <2>3 DEF StoredOK
<1>2. StoredOK /\ [RNext]_linkVars => StoredOK'
  BY StoredNext
<1>3. StoredOK /\ [RNext]_linkVars => [\A n \in incoming : accepted'[n] = accepted[n]]_linkVars
  <2> SUFFICES ASSUME StoredOK, RNext, NEW n \in incoming PROVE accepted'[n] = accepted[n]
    OBVIOUS
  <2>1. ASSUME NEW m \in toReceiver, relay_deliver(m) PROVE accepted'[n] = accepted[n]
    <3>1. CASE DeliverDuplicate(m)
      BY <3>1 DEF DeliverDuplicate
    <3>2. CASE ~DeliverDuplicate(m)
      <4>1. m # n
        BY <2>1, <3>2, StoredIsDuplicate
      <4>2. accepted' = [accepted EXCEPT ![m] = accepted[m] + 1]
        BY <2>1, <3>2 DEF relay_deliver, DeliverInOrder, DeliverRecovered, DeliverGap,
           DeliverResync, Store
      <4>3. n \in Telegrams /\ accepted \in [Telegrams -> Nat]
        BY SentFacts DEF StoredOK, ArchivesOK
      <4> QED
        BY <4>1, <4>2, <4>3
    <3> QED
      BY <3>1, <3>2
  <2>2. CASE ~\E m \in toReceiver : relay_deliver(m)
    BY <2>2 DEF RNext, Send, receiverVars, LoseTelegram, LoseRequest, relay_serve_replay,
       OverwriteOutgoing, OverwriteIncoming, Restart
  <2> QED
    BY <2>1, <2>2
<1> QED
  BY <1>1, <1>2, <1>3, PTL DEF RSpec, StoredNotAcceptedAgain

-----------------------------------------------------------------------------
(* The directory of peers *)

-----------------------------------------------------------------------------
(* The lowest and the greatest of a set of numbers *)

\* Lowest picks the least member.
LEMMA LowestOK ==
    ASSUME NEW S \in SUBSET Nat, S # {}
    PROVE  Lowest(S) \in S /\ \A d \in S : Lowest(S) <= d
<1>1. \E c \in S : \A d \in S : c <= d
  BY LeastNatural
<1> QED
  BY <1>1 DEF Lowest

\* Greatest picks the greatest member: what is left to the number of friends
\* is least.
LEMMA GreatestOK ==
    ASSUME NEW S \in SUBSET Numbers, S # {}
    PROVE  Greatest(S) \in S /\ \A d \in S : d <= Greatest(S)
<1> DEFINE T == {MaxFriends - c : c \in S}
<1>1. MaxFriends \in Nat /\ \A c \in S : c \in Nat /\ MaxFriends - c \in Nat
  BY NodeAssumption DEF Numbers
<1>2. T \in SUBSET Nat /\ T # {}
  BY <1>1
<1>3. PICK m \in T : \A d \in T : m <= d
  <2> HIDE DEF T
  <2> QED
    BY <1>2, LeastNatural
<1>4. PICK c \in S : m = MaxFriends - c
  BY <1>3
<1>5. ASSUME NEW d \in S PROVE d <= c
  <2>1. m <= MaxFriends - d
    BY <1>3
  <2> QED
    BY <1>1, <1>4, <2>1
<1> QED
  BY <1>5 DEF Greatest

\* A member that is greatest is the one picked.
LEMMA GreatestIs ==
    ASSUME NEW S \in SUBSET Numbers, NEW c \in S, \A d \in S : d <= c
    PROVE  Greatest(S) = c
<1>1. Greatest(S) \in S /\ \A d \in S : d <= Greatest(S)
  BY GreatestOK
<1>2. Greatest(S) <= c /\ c <= Greatest(S)
  BY <1>1
<1>3. \A d \in S : d \in Int
  BY NodeAssumption DEF Numbers
<1> QED
  BY <1>1, <1>2, <1>3

-----------------------------------------------------------------------------
(* Friend numbers *)

\* The friend list of toxcore, and the directory, by number.
Peers       == Keys \cup {NoKey}
FriendTable == [Numbers -> Peers]
Table       == [Channels -> Peers]

\* No unused number lies below one in use.
NoGaps(fr) == \A c, d \in Numbers : fr[c] # NoKey /\ d < c => fr[d] # NoKey

\* toxcore has every key at most once.
Distinct(fr) == \A c, d \in Numbers : fr[c] = fr[d] /\ fr[c] # NoKey => c = d

\* Channels are numbers, and there are finitely many of either.
LEMMA NumberFacts ==
    /\ MAX_Friend_NUM \in Nat /\ MaxFriends \in Nat /\ 0 \in Channels
    /\ Channels \subseteq Numbers /\ Numbers \subseteq Nat
    /\ \A S \in SUBSET Numbers : IsFiniteSet(S) /\ Cardinality(S) \in Nat
    /\ \A n \in Nat : IsFiniteSet(0 .. n - 1) /\ Cardinality(0 .. n - 1) = n
<1>1. /\ MAX_Friend_NUM \in Nat /\ MaxFriends \in Nat /\ 0 \in Channels
      /\ Channels \subseteq Numbers /\ Numbers \subseteq Nat
  BY NodeAssumption DEF Channels, Numbers
<1>2. ASSUME NEW n \in Nat PROVE IsFiniteSet(0 .. n - 1) /\ Cardinality(0 .. n - 1) = n
  <2>1. 0 \in Int /\ n - 1 \in Int
    OBVIOUS
  <2>2. IsFiniteSet(0 .. n - 1)
    BY <2>1, FS_Interval
  <2>3. Cardinality(0 .. n - 1) = IF 0 > n - 1 THEN 0 ELSE (n - 1) - 0 + 1
    BY <2>1, FS_Interval
  <2> QED
    BY <2>2, <2>3
<1>3. IsFiniteSet(Numbers)
  BY <1>1, <1>2 DEF Numbers
<1>4. \A S \in SUBSET Numbers : IsFiniteSet(S) /\ Cardinality(S) \in Nat
  BY <1>3, FS_Subset, FS_CardinalityType
<1> QED
  BY <1>1, <1>2, <1>4

\* A new friend takes the lowest unused number.
LEMMA AddedOK ==
    ASSUME NEW fr \in FriendTable, NEW k \in Keys, Unused(fr) # {}
    PROVE  /\ Added(fr, k) \in FriendTable
           /\ \E n \in Numbers : /\ fr[n] = NoKey /\ Added(fr, k) = [fr EXCEPT ![n] = k]
                                 /\ \A d \in Numbers : fr[d] = NoKey => n <= d
<1> DEFINE n == Lowest(Unused(fr))
<1>1. Unused(fr) \in SUBSET Nat
  BY NumberFacts DEF Unused
<1>2. n \in Unused(fr) /\ \A d \in Unused(fr) : n <= d
  BY <1>1, LowestOK
<1> HIDE DEF n
<1>3. n \in Numbers /\ fr[n] = NoKey /\ \A d \in Numbers : fr[d] = NoKey => n <= d
  BY <1>2 DEF Unused, InUse
<1>4. Added(fr, k) = [fr EXCEPT ![n] = k]
  BY DEF Added, n
<1>5. Added(fr, k) \in FriendTable
  BY <1>4 DEF FriendTable, Peers
<1> QED
  BY <1>3, <1>4, <1>5

\* How many friends come before number d.
Rank(fr, d) == Cardinality({e \in InUse(fr) : e < d})
WithRank(fr, c) == {d \in InUse(fr) : Rank(fr, d) = c}

\* A rank that is taken has a friend of the rank below.
LEMMA RankBelow ==
    ASSUME NEW fr \in FriendTable, NEW x \in Nat, WithRank(fr, x + 1) # {}
    PROVE  WithRank(fr, x) # {}
<1>1. PICK d \in InUse(fr) : Rank(fr, d) = x + 1
  BY DEF WithRank
<1> DEFINE S == {e \in InUse(fr) : e < d}
<1>2. S \in SUBSET Numbers /\ Cardinality(S) = x + 1 /\ d \in Numbers
  BY <1>1 DEF InUse, Rank
<1>3. S # {}
  BY <1>2, FS_EmptySet
<1> HIDE DEF S
<1>4. Greatest(S) \in S /\ \A e \in S : e <= Greatest(S)
  BY <1>2, <1>3, GreatestOK
<1> DEFINE g == Greatest(S)
<1> HIDE DEF g
<1>5. g \in S /\ (\A e \in S : e <= g) /\ g \in InUse(fr) /\ g \in Nat /\ g < d /\ d \in Nat
  BY <1>2, <1>4, NumberFacts DEF g, S, InUse
<1>6. {e \in InUse(fr) : e < g} = S \ {g}
  <2>1. \A e \in InUse(fr) : e \in Nat
    BY NumberFacts DEF InUse
  <2>2. \A e \in InUse(fr) : e < g <=> e \in S /\ e # g
    <3>1. ASSUME NEW e \in InUse(fr), e < g PROVE e \in S /\ e # g
      BY <1>5, <2>1, <3>1 DEF S
    <3>2. ASSUME NEW e \in InUse(fr), e \in S, e # g PROVE e < g
      BY <1>5, <2>1, <3>2
    <3> QED
      BY <3>1, <3>2
  <2>3. S \subseteq InUse(fr)
    BY DEF S
  <2> QED
    BY <2>2, <2>3
<1>7. IsFiniteSet(S)
  BY <1>2, NumberFacts
<1>8. Cardinality(S \ {g}) = Cardinality(S) - 1
  BY <1>5, <1>7, FS_RemoveElement
<1>9. Rank(fr, g) = x
  BY <1>2, <1>6, <1>8 DEF Rank
<1> QED
  BY <1>5, <1>9 DEF WithRank

\* A profile lists the friends without gaps and each of them once.
LEMMA PackedOK ==
    ASSUME NEW fr \in FriendTable
    PROVE  /\ Packed(fr) \in FriendTable /\ NoGaps(Packed(fr))
           /\ Distinct(fr) => Distinct(Packed(fr))
<1>1. \A c \in Numbers :
         Packed(fr)[c] = IF WithRank(fr, c) = {} THEN NoKey ELSE fr[Lowest(WithRank(fr, c))]
  BY DEF Packed, WithRank, Rank
<1>2. ASSUME NEW c \in Numbers, WithRank(fr, c) # {}
      PROVE  /\ Lowest(WithRank(fr, c)) \in InUse(fr)
             /\ Rank(fr, Lowest(WithRank(fr, c))) = c
             /\ Packed(fr)[c] \in Keys /\ Packed(fr)[c] # NoKey
  <2>1. WithRank(fr, c) \in SUBSET Nat
    BY NumberFacts DEF WithRank, InUse
  <2>2. Lowest(WithRank(fr, c)) \in WithRank(fr, c)
    BY <1>2, <2>1, LowestOK
  <2>3. Lowest(WithRank(fr, c)) \in InUse(fr) /\ Rank(fr, Lowest(WithRank(fr, c))) = c
    BY <2>2 DEF WithRank
  <2>4. fr[Lowest(WithRank(fr, c))] \in Keys /\ fr[Lowest(WithRank(fr, c))] # NoKey
    BY <2>3 DEF InUse, FriendTable, Peers
  <2> QED
    BY <1>1, <1>2, <2>3, <2>4
<1>3. Packed(fr) \in FriendTable
  <2>1. \A c \in Numbers : Packed(fr)[c] \in Peers
    BY <1>1, <1>2 DEF Peers
  <2>2. Packed(fr) = [c \in Numbers |-> Packed(fr)[c]]
    BY DEF Packed
  <2> QED
    BY <2>1, <2>2 DEF FriendTable
<1>4. ASSUME NEW c \in Numbers, NEW d \in Numbers, Packed(fr)[c] # NoKey, d < c
      PROVE  Packed(fr)[d] # NoKey
  <2>1. WithRank(fr, c) # {} /\ c \in Nat /\ d \in Nat
    BY <1>1, <1>4, NumberFacts
  <2>2. ASSUME WithRank(fr, d) = {} PROVE FALSE
    <3> DEFINE S == {x \in Nat : d < x /\ WithRank(fr, x) # {}}
    <3>1. S \in SUBSET Nat /\ c \in S
      BY <1>4, <2>1
    <3>2. PICK x \in S : \A y \in S : x <= y
      <4> HIDE DEF S
      <4> QED
        BY <3>1, LeastNatural
    <3>3. x \in Nat /\ d < x /\ WithRank(fr, x) # {} /\ x - 1 \in Nat /\ (x - 1) + 1 = x
      BY <2>1, <3>2
    <3>4. WithRank(fr, x - 1) # {}
      BY <3>3, RankBelow
    <3>5. x - 1 # d /\ d < x - 1
      BY <2>1, <2>2, <3>3, <3>4
    <3>6. x - 1 \in S
      BY <3>3, <3>4, <3>5
    <3> QED
      BY <3>2, <3>3, <3>6
  <2> QED
    BY <1>2, <2>2
<1>5. ASSUME Distinct(fr), NEW c \in Numbers, NEW d \in Numbers,
             Packed(fr)[c] = Packed(fr)[d], Packed(fr)[c] # NoKey
      PROVE  c = d
  <2>1. WithRank(fr, c) # {} /\ WithRank(fr, d) # {}
    BY <1>1, <1>5
  <2>2. fr[Lowest(WithRank(fr, c))] = fr[Lowest(WithRank(fr, d))]
    BY <1>1, <1>5, <2>1
  <2>3. Lowest(WithRank(fr, c)) = Lowest(WithRank(fr, d))
    BY <1>2, <1>5, <2>1, <2>2 DEF Distinct, InUse
  <2> QED
    BY <1>2, <2>1, <2>3
<1> QED
  BY <1>3, <1>4, <1>5 DEF NoGaps, Distinct

-----------------------------------------------------------------------------
(* The directory *)

\* No empty entry lies before a listed one: it would match every key.
Prefix(list) == \A c, d \in Channels : list[c] # NoKey /\ d < c => list[d] # NoKey

\* tox_friend_get_public_key leaves a key behind, never the empty string, and
\* for a number in use it is the right one.
LEMMA KeyBufferOK ==
    ASSUME NEW fr \in FriendTable, NEW i \in Channels, NEW junk \in Keys
    PROVE  /\ KeyBuffer(fr, i, junk) \in Keys
           /\ i \in InUse(fr) => KeyBuffer(fr, i, junk) = fr[i]
<1> DEFINE before == {j \in InUse(fr) : j <= i}
<1>1. before \in SUBSET Numbers
  BY DEF InUse
<1>2. ASSUME before # {} PROVE fr[Greatest(before)] \in Keys
  <2>1. Greatest(before) \in before
    BY <1>1, <1>2, GreatestOK
  <2> QED
    BY <2>1 DEF InUse, FriendTable, Peers
<1>3. ASSUME i \in InUse(fr) PROVE before # {} /\ Greatest(before) = i
  <2>1. i \in before
    BY <1>3, NumberFacts
  <2>2. \A d \in before : d <= i
    OBVIOUS
  <2> HIDE DEF before
  <2> QED
    BY <1>1, <2>1, <2>2, GreatestIs
<1> QED
  BY <1>2, <1>3 DEF KeyBuffer

\* What a refresh reads for number i: its friend, or a wrong key if the number is
\* unused, but then there is a friend with a greater number.
Read(fr, i) ==
    /\ public_key_str'[i] \in Keys /\ meta_chat_flag'[i] = ini_meta[i]
    /\ fr[i] # NoKey => public_key_str'[i] = fr[i]
    /\ fr[i] = NoKey => \E d \in Numbers : i < d /\ fr[d] # NoKey

\* A refresh reads the entries below the number of friends, or none, and leaves
\* no hole.
LEMMA RefreshOK ==
    ASSUME NEW fr \in FriendTable, NEW list \in Table, NEW meta \in [Channels -> BOOLEAN],
           NEW junk \in Keys, ini_meta \in [Channels -> BOOLEAN], Prefix(list),
           get_relay_name_list(fr, list, meta, junk)
    PROVE  /\ public_key_str' \in Table
           /\ meta_chat_flag' \in [Channels -> BOOLEAN]
           /\ Prefix(public_key_str')
           /\ \A i \in Channels :
                 \/ public_key_str'[i] = list[i] /\ meta_chat_flag'[i] = meta[i]
                 \/ Read(fr, i)
<1> DEFINE n == Cardinality(InUse(fr))
           Fits(i) == n <= MAX_Friend_NUM /\ i < n
<1>1. /\ public_key_str' = [i \in Channels |->
                              IF Fits(i) THEN KeyBuffer(fr, i, junk) ELSE list[i]]
      /\ meta_chat_flag' = [i \in Channels |-> IF Fits(i) THEN ini_meta[i] ELSE meta[i]]
  BY DEF get_relay_name_list
<1>2. n \in Nat /\ InUse(fr) \in SUBSET Numbers /\ IsFiniteSet(InUse(fr))
  BY NumberFacts DEF InUse
<1>3. \A i \in Channels : KeyBuffer(fr, i, junk) \in Keys /\ i \in Nat /\ i \in Numbers
  BY KeyBufferOK, NumberFacts
<1>4. ASSUME NEW i \in Channels, i < n, fr[i] = NoKey
      PROVE  \E d \in Numbers : i < d /\ fr[d] # NoKey
  <2> SUFFICES ASSUME \A d \in Numbers : fr[d] # NoKey => ~(i < d) PROVE FALSE
    OBVIOUS
  <2>1. \A d \in InUse(fr) : d \in 0 .. i - 1
    <3>1. \A d \in InUse(fr) : d \in Nat /\ d # i /\ ~(i < d)
      BY <1>4, NumberFacts DEF InUse
    <3> QED
      BY <1>3, <3>1
  <2>2. IsFiniteSet(0 .. i - 1) /\ Cardinality(0 .. i - 1) = i
    BY <1>3, NumberFacts
  <2>3. InUse(fr) \subseteq 0 .. i - 1
    BY <2>1
  <2>4. Cardinality(InUse(fr)) <= Cardinality(0 .. i - 1)
    BY <2>2, <2>3, FS_Subset
  <2> QED
    BY <1>2, <1>3, <1>4, <2>2, <2>4
<1> HIDE DEF n
<1>5. public_key_str' \in Table
  BY <1>1, <1>3 DEF Table, Peers
<1>6. meta_chat_flag' \in [Channels -> BOOLEAN]
  BY <1>1
<1>7. Prefix(public_key_str')
  <2> SUFFICES ASSUME NEW c \in Channels, NEW d \in Channels,
                      public_key_str'[c] # NoKey, d < c
               PROVE  public_key_str'[d] # NoKey
    BY DEF Prefix
  <2>1. CASE Fits(d)
    BY <1>1, <1>3, <2>1, NodeAssumption
  <2>2. CASE ~Fits(d)
    <3>1. ~Fits(c)
      BY <1>2, <1>3, <2>2, NumberFacts
    <3>2. list[c] # NoKey
      BY <1>1, <3>1
    <3> QED
      BY <1>1, <2>2, <3>2 DEF Prefix
  <2> QED
    BY <2>1, <2>2
<1>8. ASSUME NEW i \in Channels, Fits(i) PROVE Read(fr, i)
  <2>1. public_key_str'[i] = KeyBuffer(fr, i, junk) /\ meta_chat_flag'[i] = ini_meta[i]
    BY <1>1, <1>8
  <2>2. fr[i] # NoKey => i \in InUse(fr)
    BY <1>3 DEF InUse
  <2> QED
    BY <1>4, <1>8, <2>1, <2>2, KeyBufferOK DEF Read
<1>9. ASSUME NEW i \in Channels, ~Fits(i)
      PROVE  public_key_str'[i] = list[i] /\ meta_chat_flag'[i] = meta[i]
  BY <1>1, <1>9
<1> QED
  BY <1>5, <1>6, <1>7, <1>8, <1>9

\* A listed key leads to an entry that holds it, at its own or a lower number.
LEMMA LookupOK ==
    ASSUME public_key_str \in Table, Prefix(public_key_str),
           NEW c \in Channels, public_key_str[c] # NoKey
    PROVE  LET found == lookup_ch_num(public_key_str[c]) IN
           /\ found \in Channels /\ found <= c
           /\ public_key_str[found] = public_key_str[c]
<1> DEFINE key == public_key_str[c]
           hits == {i \in Channels : public_key_str[i] \in {key, NoKey}}
<1>1. hits \in SUBSET Nat /\ c \in hits
  BY NumberFacts
<1>2. Lowest(hits) \in hits /\ Lowest(hits) <= c
  <2> HIDE DEF hits
  <2> QED
    BY <1>1, LowestOK
<1>3. lookup_ch_num(key) = Lowest(hits)
  BY <1>1 DEF lookup_ch_num
<1> HIDE DEF hits
<1>4. Lowest(hits) \in Channels /\ public_key_str[Lowest(hits)] \in {key, NoKey}
  BY <1>2 DEF hits
<1>5. public_key_str[Lowest(hits)] # NoKey
  <2>1. CASE Lowest(hits) = c
    BY <2>1
  <2>2. CASE Lowest(hits) # c
    <3> DEFINE low == Lowest(hits)
    <3>0. low \in Nat /\ c \in Nat /\ low <= c /\ low # c
      BY <1>2, <1>4, <2>2, NumberFacts
    <3> HIDE DEF low
    <3>1. low < c
      BY <3>0
    <3> USE DEF low
    <3> QED
      BY <1>4, <3>1 DEF Prefix
  <2> QED
    BY <2>1, <2>2
<1>6. lookup_ch_num(key) \in Channels /\ lookup_ch_num(key) <= c
  BY <1>2, <1>3, <1>4
<1>7. public_key_str[lookup_ch_num(key)] = key
  BY <1>3, <1>4, <1>5
<1> QED
  BY <1>6, <1>7

-----------------------------------------------------------------------------
(* The inductive invariant *)

\* The types of the variables.
NTypes ==
    /\ friends \in FriendTable /\ saved \in FriendTable /\ public_key_str \in Table
    /\ meta_chat_flag \in [Channels -> BOOLEAN]
    /\ ini_meta \in [Channels -> BOOLEAN]
    /\ pre_friendnumber \in Channels
    /\ held \subseteq Record

\* toxcore has every key once, and so has the profile, which has no gaps.
FriendsOK == Distinct(friends) /\ Distinct(saved) /\ NoGaps(saved)

\* A gap in the friend numbers is where a friend was lost.
GapsOK ==
    \A c \in Channels : \A d \in Numbers :
        c < d /\ friends[c] = NoKey /\ friends[d] # NoKey => c \in vacated

\* What holds of a number that has lost no friend: its entry is empty or right,
\* the INI file has the flag of a friend that said hello, the table has no other
\* and has it if the friend is listed, and a record waits for the friend it was
\* routed to.
NumberOK(c) ==
    /\ public_key_str[c] \in {NoKey, friends[c]}
    /\ ini_meta[c] <=> c \in greeted
    /\ c \in greeted => friends[c] # NoKey
    /\ meta_chat_flag[c] => ini_meta[c]
    /\ public_key_str[c] # NoKey => meta_chat_flag[c] = ini_meta[c]
    /\ \A r \in held : r.known /\ r.channel = c => r.to # NoKey /\ friends[c] = r.to

\* The inductive invariant.
NInv ==
    /\ NTypes /\ Prefix(public_key_str) /\ FriendsOK /\ GapsOK
    /\ \A c \in Channels \ vacated : NumberOK(c)

\* Looking up a key that leads to a number that has lost no friend finds the
\* friend that has it.
LEMMA LookupFindsFriend ==
    ASSUME NInv, NEW c \in Channels, public_key_str[c] # NoKey
    PROVE  LET found == lookup_ch_num(public_key_str[c]) IN
           found \notin vacated => friends[found] = public_key_str[c]
<1> DEFINE found == lookup_ch_num(public_key_str[c])
<1>1. found \in Channels /\ public_key_str[found] = public_key_str[c]
  BY LookupOK DEF NInv, NTypes
<1> HIDE DEF found
<1>2. found \notin vacated => friends[found] = public_key_str[c]
  BY <1>1 DEF NInv, NumberOK
<1> QED
  BY <1>2 DEF found

\* The invariant implies what the run checks.
LEMMA InvariantImplies ==
    NInv => DirectoryResolves /\ HelloRemembered /\ KnownGetTheirs
<1> SUFFICES ASSUME NInv PROVE DirectoryResolves /\ HelloRemembered /\ KnownGetTheirs
  OBVIOUS
<1>1. DirectoryResolves
  <2> SUFFICES ASSUME NEW c \in Channels, public_key_str[c] # NoKey
               PROVE  /\ public_key_str[lookup_ch_num(public_key_str[c])] = public_key_str[c]
                      /\ (0 .. c) \cap vacated = {} =>
                            /\ public_key_str[c] = friends[c]
                            /\ lookup_ch_num(public_key_str[c]) = c
    BY DEF DirectoryResolves
  <2> DEFINE found == lookup_ch_num(public_key_str[c])
  <2>1. found \in Channels /\ found <= c /\ public_key_str[found] = public_key_str[c]
    BY LookupOK DEF NInv, NTypes
  <2> HIDE DEF found
  <2>2. ASSUME (0 .. c) \cap vacated = {} PROVE public_key_str[c] = friends[c] /\ found = c
    <3>1. c \in Nat /\ found \in Nat /\ c \in Numbers /\ found \in Numbers
      BY <2>1, NumberFacts
    <3>2. c \notin vacated /\ found \notin vacated
      BY <2>1, <2>2, <3>1
    <3>3. public_key_str[c] = friends[c] /\ public_key_str[found] = friends[found]
      BY <2>1, <3>2 DEF NInv, NumberOK
    <3> QED
      BY <2>1, <3>1, <3>3 DEF NInv, FriendsOK, Distinct
  <2> QED
    BY <2>1, <2>2 DEF found
<1>2. HelloRemembered
  BY DEF NInv, NTypes, NumberOK, HelloRemembered
<1>3. KnownGetTheirs
  <2>1. \A r \in held : r.channel \in Channels
    BY DEF NInv, NTypes, Record
  <2> QED
    BY <2>1 DEF NInv, NumberOK, KnownGetTheirs
<1> QED
  BY <1>1, <1>2, <1>3

\* Nobody is a friend at the start.
LEMMA NodeInit == NInit => NInv
<1> SUFFICES ASSUME NInit PROVE NInv
  OBVIOUS
<1>1. NTypes
  BY NumberFacts DEF NInit, NTypes, FriendTable, Table, Peers
<1>2. Prefix(public_key_str) /\ FriendsOK /\ GapsOK
  BY NumberFacts DEF NInit, Prefix, FriendsOK, Distinct, NoGaps, GapsOK
<1>3. \A c \in Channels : NumberOK(c)
  BY DEF NInit, NumberOK
<1> QED
  BY <1>1, <1>2, <1>3 DEF NInv

-----------------------------------------------------------------------------
(* Steps *)

\* The friends change to fr, and every entry of the directory stays, is emptied,
\* or is read from fr.
LEMMA FriendsStepOK ==
    ASSUME NInv, NEW fr \in FriendTable, Distinct(fr), FriendsBecome(fr),
           \A c \in Channels : \A d \in Numbers :
              c < d /\ fr[c] = NoKey /\ fr[d] # NoKey => c \in vacated',
           saved' \in FriendTable, Distinct(saved'), NoGaps(saved'),
           public_key_str' \in Table, meta_chat_flag' \in [Channels -> BOOLEAN],
           Prefix(public_key_str'),
           \A i \in Channels :
              \/ public_key_str'[i] = public_key_str[i] /\ meta_chat_flag'[i] = meta_chat_flag[i]
              \/ public_key_str'[i] = NoKey /\ meta_chat_flag'[i] = FALSE
              \/ Read(fr, i),
           pre_friendnumber' \in Channels, UNCHANGED <<ini_meta, held>>
    PROVE  NInv'
<1>1. /\ friends' = fr
      /\ vacated' = vacated \cup {c \in Channels \cap InUse(friends) : fr[c] # friends[c]}
      /\ greeted' = greeted \ {c \in Channels \cap InUse(friends) : fr[c] # friends[c]}
  BY DEF FriendsBecome
<1>2. NTypes'
  BY <1>1 DEF NInv, NTypes
<1>3. FriendsOK' /\ GapsOK'
  BY <1>1 DEF FriendsOK, GapsOK
<1>4. ASSUME NEW c \in Channels \ vacated' PROVE NumberOK(c)'
  <2>1. c \in Channels /\ c \in Numbers /\ c \notin vacated /\ NumberOK(c)
    BY <1>1, NumberFacts DEF NInv
  <2>2. friends[c] = NoKey \/ fr[c] = friends[c]
    BY <1>1, <2>1 DEF InUse
  <2>3. c \in greeted' <=> c \in greeted
    BY <1>1, <2>2 DEF InUse
  <2>4. ASSUME Read(fr, c) PROVE public_key_str'[c] = fr[c] /\ meta_chat_flag'[c] = ini_meta[c]
    BY <1>4, <2>1, <2>4 DEF Read
  <2>5. public_key_str'[c] \in {NoKey, fr[c]}
    BY <2>1, <2>2, <2>4 DEF NumberOK
  <2>6. ini_meta'[c] <=> c \in greeted'
    BY <2>1, <2>3 DEF NumberOK
  <2>7. c \in greeted' => fr[c] # NoKey
    BY <2>1, <2>2, <2>3 DEF NumberOK
  <2>8. /\ meta_chat_flag'[c] => ini_meta'[c]
        /\ public_key_str'[c] # NoKey => meta_chat_flag'[c] = ini_meta'[c]
    BY <2>1, <2>4 DEF NumberOK
  <2>9. \A r \in held' : r.known /\ r.channel = c => r.to # NoKey /\ fr[c] = r.to
    BY <2>1, <2>2 DEF NumberOK
  <2> QED
    BY <1>1, <2>5, <2>6, <2>7, <2>8, <2>9 DEF NumberOK
<1> QED
  BY <1>2, <1>3, <1>4 DEF NInv

\* Saving the profile, or failing to.
LEMMA SavedOK ==
    ASSUME NInv, friends' \in FriendTable, Distinct(friends'), save_data
    PROVE  saved' \in FriendTable /\ Distinct(saved') /\ NoGaps(saved')
<1>1. CASE saved' = saved
  BY <1>1 DEF NInv, NTypes, FriendsOK
<1>2. CASE saved' = Packed(friends')
  BY <1>2, PackedOK
<1> QED
  BY <1>1, <1>2 DEF save_data

\* A new friend: no number loses its friend, and no gap appears.
LEMMA GrowOK ==
    ASSUME NInv, NEW k \in Keys, CanAdd(k)
    PROVE  LET fr == Added(friends, k) IN
           /\ fr \in FriendTable /\ Distinct(fr)
           /\ \A c \in Channels : \A d \in Numbers :
                 c < d /\ fr[c] = NoKey /\ fr[d] # NoKey => c \in vacated
<1> DEFINE fr == Added(friends, k)
<1>1. friends \in FriendTable /\ Unused(friends) # {} /\ \A c \in Numbers : friends[c] # k
  BY DEF NInv, NTypes, CanAdd
<1>2. fr \in FriendTable
  BY <1>1, AddedOK
<1>3. PICK n \in Numbers : /\ friends[n] = NoKey /\ fr = [friends EXCEPT ![n] = k]
                           /\ \A d \in Numbers : friends[d] = NoKey => n <= d
  BY <1>1, AddedOK
<1> HIDE DEF fr
<1>4. fr[n] = k /\ k # NoKey /\ \A c \in Numbers : c # n => fr[c] = friends[c]
  BY <1>1, <1>3, NodeAssumption DEF FriendTable
<1>5. Distinct(fr)
  BY <1>1, <1>4 DEF NInv, FriendsOK, Distinct
<1>6. ASSUME NEW c \in Channels, NEW d \in Numbers, c < d, fr[c] = NoKey, fr[d] # NoKey
      PROVE  c \in vacated
  <2>1. c \in Numbers /\ c \in Nat /\ d \in Nat /\ n \in Nat
    BY NumberFacts
  <2>2. c # n /\ friends[c] = NoKey /\ n <= c
    BY <1>3, <1>4, <1>6, <2>1
  <2>3. d # n /\ friends[d] # NoKey
    BY <1>4, <1>6, <2>1, <2>2
  <2> QED
    BY <1>6, <2>2, <2>3 DEF NInv, GapsOK
<1> QED
  BY <1>2, <1>5, <1>6 DEF fr

\* A friend request, granted or not.
LEMMA FriendRequestOK ==
    ASSUME NInv, NEW k \in Keys, cb_friend_request(k)
    PROVE  NInv'
<1>1. PICK fr \in FriendTable :
         /\ Distinct(fr) /\ FriendsBecome(fr)
         /\ \A c \in Channels : \A d \in Numbers :
               c < d /\ fr[c] = NoKey /\ fr[d] # NoKey => c \in vacated
  <2>1. CASE CanAdd(k) /\ FriendsBecome(Added(friends, k))
    BY <2>1, GrowOK
  <2>2. CASE FriendsBecome(friends)
    BY <2>2 DEF NInv, NTypes, FriendsOK, GapsOK
  <2> QED
    BY <2>1, <2>2 DEF cb_friend_request
<1>2. friends' = fr /\ vacated \subseteq vacated'
  BY <1>1 DEF FriendsBecome
<1>3. saved' \in FriendTable /\ Distinct(saved') /\ NoGaps(saved')
  BY <1>1, <1>2, SavedOK DEF cb_friend_request
<1>4. PICK junk \in Keys : get_relay_name_list(fr, public_key_str, meta_chat_flag, junk)
  BY <1>2 DEF cb_friend_request
<1>5. /\ public_key_str' \in Table /\ meta_chat_flag' \in [Channels -> BOOLEAN]
      /\ Prefix(public_key_str')
      /\ \A i \in Channels :
            \/ public_key_str'[i] = public_key_str[i] /\ meta_chat_flag'[i] = meta_chat_flag[i]
            \/ Read(fr, i)
  BY <1>4, RefreshOK DEF NInv, NTypes
<1>6. pre_friendnumber' \in Channels /\ UNCHANGED <<ini_meta, held>>
  BY DEF NInv, NTypes, cb_friend_request
<1> QED
  BY <1>1, <1>2, <1>3, <1>5, <1>6, FriendsStepOK

\* /add on the console.
LEMMA AddOK ==
    ASSUME NInv, NEW k \in Keys, evaluate_add(k)
    PROVE  NInv'
<1>1. /\ CanAdd(k) /\ FriendsBecome(Added(friends, k)) /\ vacated \subseteq vacated'
      /\ UNCHANGED <<saved, public_key_str, meta_chat_flag, ini_meta, pre_friendnumber, held>>
  BY DEF evaluate_add, directoryVars, FriendsBecome
<1> DEFINE fr == Added(friends, k)
<1>2. /\ fr \in FriendTable /\ Distinct(fr)
      /\ \A c \in Channels : \A d \in Numbers :
            c < d /\ fr[c] = NoKey /\ fr[d] # NoKey => c \in vacated
  BY <1>1, GrowOK
<1> HIDE DEF fr
<1>3. /\ saved' \in FriendTable /\ Distinct(saved') /\ NoGaps(saved')
      /\ public_key_str' \in Table /\ meta_chat_flag' \in [Channels -> BOOLEAN]
      /\ Prefix(public_key_str') /\ pre_friendnumber' \in Channels
  BY <1>1 DEF NInv, NTypes, FriendsOK
<1>4. FriendsBecome(fr)
  BY <1>1 DEF fr
<1> QED
  BY <1>1, <1>2, <1>3, <1>4, FriendsStepOK

\* Friends are deleted: their numbers are noted, and so are the gaps.
LEMMA DeletionOK ==
    ASSUME NInv,
           \/ \E gone \in SUBSET InUse(friends) : purge_inactive_friends(gone)
           \/ \E c \in Channels : FromBlocked(c)
    PROVE  NInv'
<1>1. PICK fr \in FriendTable :
         /\ FriendsBecome(fr) /\ \A c \in Numbers : fr[c] \in {NoKey, friends[c]}
  <2>1. ASSUME NEW gone \in SUBSET InUse(friends), purge_inactive_friends(gone)
        PROVE  \E fr \in FriendTable :
                  FriendsBecome(fr) /\ \A c \in Numbers : fr[c] \in {NoKey, friends[c]}
    <3> DEFINE fr == [c \in Numbers |-> IF c \in gone THEN NoKey ELSE friends[c]]
    <3>1. fr \in FriendTable /\ \A c \in Numbers : fr[c] \in {NoKey, friends[c]}
      BY DEF NInv, NTypes, FriendTable, Peers
    <3>2. FriendsBecome(fr)
      BY <2>1 DEF purge_inactive_friends
    <3> HIDE DEF fr
    <3> QED
      BY <3>1, <3>2
  <2>2. ASSUME NEW b \in Channels, FromBlocked(b)
        PROVE  \E fr \in FriendTable :
                  FriendsBecome(fr) /\ \A c \in Numbers : fr[c] \in {NoKey, friends[c]}
    <3> DEFINE fr == [friends EXCEPT ![b] = NoKey]
    <3>1. fr \in FriendTable /\ \A c \in Numbers : fr[c] \in {NoKey, friends[c]}
      BY DEF NInv, NTypes, FriendTable, Peers
    <3>2. FriendsBecome(fr)
      BY <2>2 DEF FromBlocked
    <3> HIDE DEF fr
    <3> QED
      BY <3>1, <3>2
  <2> QED
    BY <2>1, <2>2
<1>2. friends' = fr /\ vacated \subseteq vacated'
      /\ \A c \in Channels : friends[c] # NoKey /\ fr[c] # friends[c] => c \in vacated'
  BY <1>1, NumberFacts DEF FriendsBecome, InUse
<1>3. Distinct(fr)
  BY <1>1 DEF NInv, FriendsOK, Distinct
<1>4. \A c \in Channels : \A d \in Numbers :
         c < d /\ fr[c] = NoKey /\ fr[d] # NoKey => c \in vacated'
  <2> SUFFICES ASSUME NEW c \in Channels, NEW d \in Numbers, c < d, fr[c] = NoKey, fr[d] # NoKey
               PROVE  c \in vacated'
    OBVIOUS
  <2>1. friends[d] # NoKey
    BY <1>1
  <2>2. CASE friends[c] = NoKey
    BY <1>2, <2>1, <2>2 DEF NInv, GapsOK
  <2>3. CASE friends[c] # NoKey
    BY <1>2, <2>3
  <2> QED
    BY <2>2, <2>3
<1>5. saved' \in FriendTable /\ Distinct(saved') /\ NoGaps(saved')
  <2>1. CASE save_data
    BY <1>1, <1>2, <1>3, <2>1, SavedOK
  <2>2. CASE UNCHANGED saved
    BY <2>2 DEF NInv, NTypes, FriendsOK
  <2> QED
    BY <2>1, <2>2 DEF purge_inactive_friends, FromBlocked
<1>6. UNCHANGED <<public_key_str, meta_chat_flag, ini_meta, pre_friendnumber, held>>
  BY DEF purge_inactive_friends, FromBlocked, directoryVars
<1>7. /\ public_key_str' \in Table /\ meta_chat_flag' \in [Channels -> BOOLEAN]
      /\ Prefix(public_key_str') /\ pre_friendnumber' \in Channels
  BY <1>6 DEF NInv, NTypes
<1> QED
  BY <1>1, <1>3, <1>4, <1>5, <1>6, <1>7, FriendsStepOK

\* A restart: the profile has no gaps, and an empty table is filled.
LEMMA RestartedNodeOK ==
    ASSUME NInv, NodeRestart
    PROVE  NInv'
<1> DEFINE blank == [c \in Channels |-> NoKey]
           unset == [c \in Channels |-> FALSE]
<1>1. PICK fr \in FriendTable : Distinct(fr) /\ NoGaps(fr) /\ FriendsBecome(fr)
  <2>1. /\ saved \in FriendTable /\ Distinct(saved) /\ NoGaps(saved)
        /\ Packed(friends) \in FriendTable /\ Distinct(Packed(friends)) /\ NoGaps(Packed(friends))
    BY PackedOK DEF NInv, NTypes, FriendsOK
  <2> QED
    BY <2>1 DEF NodeRestart
<1>2. friends' = fr
  BY <1>1 DEF FriendsBecome
<1>3. saved' = fr /\ pre_friendnumber' = 0 /\ UNCHANGED <<ini_meta, held>>
  BY <1>2 DEF NodeRestart
<1>4. PICK junk \in Keys : get_relay_name_list(fr, blank, unset, junk)
  BY <1>2 DEF NodeRestart
<1>5. blank \in Table /\ unset \in [Channels -> BOOLEAN] /\ Prefix(blank)
      /\ \A c \in Channels : blank[c] = NoKey /\ unset[c] = FALSE
  BY DEF Table, Peers, Prefix
<1> HIDE DEF blank, unset
<1>6. /\ public_key_str' \in Table /\ meta_chat_flag' \in [Channels -> BOOLEAN]
      /\ Prefix(public_key_str')
      /\ \A i \in Channels :
            \/ public_key_str'[i] = blank[i] /\ meta_chat_flag'[i] = unset[i]
            \/ Read(fr, i)
  BY <1>4, <1>5, RefreshOK DEF NInv, NTypes
<1>7. \A i \in Channels :
         (public_key_str'[i] = NoKey /\ meta_chat_flag'[i] = FALSE) \/ Read(fr, i)
  BY <1>5, <1>6
<1>8. \A c \in Channels : \A d \in Numbers :
         c < d /\ fr[c] = NoKey /\ fr[d] # NoKey => c \in vacated'
  BY <1>1, NumberFacts DEF NoGaps
<1>9. pre_friendnumber' \in Channels
  BY <1>3, NumberFacts
<1> QED
  BY <1>1, <1>3, <1>6, <1>7, <1>8, <1>9, FriendsStepOK

\* A hello signal is remembered in the table and in the INI file.
LEMMA HelloOK ==
    ASSUME NInv, NEW c \in Channels, HelloSignal(c)
    PROVE  NInv'
<1>1. /\ friends[c] # NoKey /\ pre_friendnumber' = c
      /\ meta_chat_flag' = [meta_chat_flag EXCEPT ![c] = TRUE]
      /\ ini_meta' = [ini_meta EXCEPT ![c] = TRUE]
      /\ greeted' = greeted \cup {c}
      /\ UNCHANGED <<friends, saved, public_key_str, held, vacated>>
  BY DEF HelloSignal, Heard
<1>2. NTypes'
  BY <1>1 DEF NInv, NTypes
<1>3. Prefix(public_key_str') /\ FriendsOK' /\ GapsOK'
  BY <1>1 DEF NInv, FriendsOK, GapsOK
<1>4. ASSUME NEW d \in Channels \ vacated' PROVE NumberOK(d)'
  <2>1. NumberOK(d)
    BY <1>1 DEF NInv
  <2>2. CASE d = c
    <3>1. ini_meta'[d] = TRUE /\ meta_chat_flag'[d] = TRUE
      BY <1>1, <2>2 DEF NInv, NTypes
    <3> QED
      BY <1>1, <2>1, <2>2, <3>1 DEF NumberOK
  <2>3. CASE d # c
    <3>1. ini_meta'[d] = ini_meta[d] /\ meta_chat_flag'[d] = meta_chat_flag[d]
      BY <1>1, <2>3 DEF NInv, NTypes
    <3> QED
      BY <1>1, <2>1, <2>3, <3>1 DEF NumberOK
  <2> QED
    BY <2>2, <2>3
<1> QED
  BY <1>2, <1>3, <1>4 DEF NInv

\* The queue changes, by records that are for the friend they are routed to.
LEMMA QueuedOK ==
    ASSUME NInv, held' \subseteq Record,
           \A r \in held' \ held :
              r.known /\ r.channel \notin vacated => r.to # NoKey /\ friends[r.channel] = r.to,
           pre_friendnumber' \in Channels,
           saved' \in FriendTable, Distinct(saved'), NoGaps(saved'),
           UNCHANGED <<friends, public_key_str, meta_chat_flag, ini_meta, greeted, vacated>>
    PROVE  NInv'
<1>1. NTypes'
  BY DEF NInv, NTypes
<1>2. Prefix(public_key_str') /\ FriendsOK' /\ GapsOK'
  BY DEF NInv, FriendsOK, GapsOK
<1>3. ASSUME NEW d \in Channels \ vacated' PROVE NumberOK(d)'
  <2>1. NumberOK(d) /\ d \notin vacated
    BY DEF NInv
  <2>2. \A r \in held' : r.known /\ r.channel = d => r.to # NoKey /\ friends[d] = r.to
    BY <2>1 DEF NumberOK
  <2> QED
    BY <2>1, <2>2 DEF NumberOK
<1> QED
  BY <1>1, <1>2, <1>3 DEF NInv

\* A telegram that passes through: the channel that the directory finds is that
\* of the addressee, if it lists the addressee at all.
LEMMA TelegramOK ==
    ASSUME NInv, NEW c \in Channels, NEW to \in Keys \cup {SelfKey}, TextTelegram(c, to)
    PROVE  NInv'
<1> DEFINE destination == lookup_ch_num(to)
           known == \E i \in Channels : public_key_str[i] = to
           r == [channel |-> destination, to |-> to, raw |-> meta_chat_flag[c], known |-> known]
<1>1. /\ pre_friendnumber' \in Channels
      /\ UNCHANGED <<friends, saved, public_key_str, meta_chat_flag, ini_meta, greeted, vacated>>
  BY DEF TextTelegram, Heard
<1>2. saved' \in FriendTable /\ Distinct(saved') /\ NoGaps(saved') /\ held \subseteq Record
  BY <1>1 DEF NInv, NTypes, FriendsOK
<1>3. CASE UNCHANGED held
  BY <1>1, <1>2, <1>3, QueuedOK
<1>4. CASE destination >= 0 /\ held' = held \cup {r}
  <2>1. destination \in Channels
    <3> DEFINE hits == {i \in Channels : public_key_str[i] \in {to, NoKey}}
    <3>1. hits # {}
      BY <1>4 DEF lookup_ch_num
    <3>2. hits \in SUBSET Nat /\ hits \subseteq Channels
      BY NumberFacts
    <3>3. destination = Lowest(hits)
      BY <3>1 DEF lookup_ch_num
    <3> HIDE DEF hits, destination
    <3> QED
      BY <3>1, <3>2, <3>3, LowestOK
  <2>2. meta_chat_flag[c] \in BOOLEAN /\ to # NoKey
    BY NodeAssumption DEF NInv, NTypes
  <2>3. r \in Record
    BY <2>1, <2>2 DEF Record
  <2>4. ASSUME known, destination \notin vacated PROVE friends[destination] = to
    <3>1. PICK i \in Channels : public_key_str[i] = to
      BY <2>4
    <3> QED
      BY <2>2, <2>4, <3>1, LookupFindsFriend
  <2>5. r.known = known /\ r.to = to /\ r.channel = destination
    OBVIOUS
  <2> HIDE DEF r, known, destination
  <2>6. held' \subseteq Record /\ \A q \in held' \ held : q = r
    BY <1>2, <1>4, <2>3
  <2> QED
    BY <1>1, <1>2, <2>2, <2>4, <2>5, <2>6, QueuedOK
<1> QED
  BY <1>3, <1>4 DEF TextTelegram, relay_forward

\* A line of text goes to the partner of the moment.
LEMMA ConsoleSendOK ==
    ASSUME NInv, ConsoleSend
    PROVE  NInv'
<1> DEFINE c == pre_friendnumber
           r == [channel |-> c, to |-> friends[c], raw |-> meta_chat_flag[c],
                 known |-> friends[c] # NoKey]
<1>1. /\ held' = held \cup {r}
      /\ UNCHANGED <<friends, saved, public_key_str, meta_chat_flag, ini_meta, pre_friendnumber,
                     greeted, vacated>>
  BY DEF ConsoleSend, directoryVars, historyVars
<1>2. /\ c \in Channels /\ friends[c] \in Peers /\ meta_chat_flag[c] \in BOOLEAN
      /\ saved \in FriendTable /\ Distinct(saved) /\ NoGaps(saved) /\ held \subseteq Record
  BY NumberFacts DEF NInv, NTypes, FriendTable, FriendsOK
<1>3. r \in Record
  BY <1>2 DEF Record, Peers
<1>4. r.known => r.to # NoKey /\ friends[r.channel] = r.to
  OBVIOUS
<1> HIDE DEF r
<1>5. held' \subseteq Record /\ \A q \in held' \ held : q = r
  BY <1>1, <1>2, <1>3
<1> QED
  BY <1>1, <1>2, <1>4, <1>5, QueuedOK

\* Every step preserves the invariant.
LEMMA NodeNext == NInv /\ [NNext]_nodeVars => NInv'
<1> SUFFICES ASSUME NInv, [NNext]_nodeVars PROVE NInv'
  OBVIOUS
<1>1. /\ saved \in FriendTable /\ Distinct(saved) /\ NoGaps(saved) /\ held \subseteq Record
      /\ friends \in FriendTable /\ Distinct(friends) /\ pre_friendnumber \in Channels
  BY DEF NInv, NTypes, FriendsOK
<1>2. ASSUME NEW c \in Channels, CommandOrText(c) \/ evaluate_channel(c) PROVE NInv'
  <2>1. /\ pre_friendnumber' = c
        /\ UNCHANGED <<friends, public_key_str, meta_chat_flag, ini_meta, held, greeted, vacated>>
    BY <1>2 DEF CommandOrText, Heard, evaluate_channel, directoryVars, historyVars
  <2>2. saved' \in FriendTable /\ Distinct(saved') /\ NoGaps(saved')
    <3>1. CASE save_data
      BY <1>1, <2>1, <3>1, SavedOK
    <3>2. CASE UNCHANGED saved
      BY <1>1, <3>2
    <3> QED
      BY <1>2, <3>1, <3>2 DEF CommandOrText, evaluate_channel
  <2> QED
    BY <1>1, <2>1, <2>2, QueuedOK
<1>3. ASSUME (\E r \in held : Settled(r)) \/ UNCHANGED nodeVars PROVE NInv'
  <2>1. /\ held' \subseteq held
        /\ UNCHANGED <<friends, saved, public_key_str, meta_chat_flag, ini_meta, pre_friendnumber,
                       greeted, vacated>>
    BY <1>3 DEF Settled, nodeVars, directoryVars, historyVars
  <2> QED
    BY <1>1, <2>1, QueuedOK
<1> QED
  BY <1>2, <1>3, FriendRequestOK, AddOK, DeletionOK, HelloOK, TelegramOK, ConsoleSendOK,
     RestartedNodeOK DEF NNext

-----------------------------------------------------------------------------
(* Theorems *)

\* The invariant holds in every state, for every number of channels and peers:
\* friends that are deleted, renumbered or forgotten by a kill before save_data,
\* and more friends than the tables have entries, included.
THEOREM NodeInvariance == NSpec => []NInv
<1>1. NInit => NInv
  BY NodeInit
<1>2. NInv /\ [NNext]_nodeVars => NInv'
  BY NodeNext
<1> QED
  BY <1>1, <1>2, PTL DEF NSpec

\* lookup_ch_num leads from a listed key to an entry that holds this key, and
\* to the friend that has it as long as no number up to it has lost a friend.
THEOREM DirectoryCorrect == NSpec => []DirectoryResolves
<1>1. NInv => DirectoryResolves
  BY InvariantImplies
<1> QED
  BY <1>1, NodeInvariance, PTL

\* As long as a number keeps its friend, meta_chat_flag says of a listed friend
\* whether it has said hello, over every refresh and every restart.
THEOREM HelloKept == NSpec => []HelloRemembered
<1>1. NInv => HelloRemembered
  BY InvariantImplies
<1> QED
  BY <1>1, NodeInvariance, PTL

\* A record for a peer that the directory knew waits on that peer's number and on
\* nobody else's, over every restart, as long as the number keeps its friend.
THEOREM AddresseeReached == NSpec => []KnownGetTheirs
<1>1. NInv => KnownGetTheirs
  BY InvariantImplies
<1> QED
  BY <1>1, NodeInvariance, PTL

=============================================================================
