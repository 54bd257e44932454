----------------------------- MODULE SnTracker -----------------------------
(***************************************************************************)
(* Receive sequence tracking of src/telegram.c: sn_tracker, which          *)
(* classifies an arriving serial as in order, duplicate, gap, recovered or *)
(* out of reach.                                                           *)
(*                                                                         *)
(* Data.  The array of outstanding serials is searched and rearranged      *)
(* without regard to order (sn_pending_take fills the hole with the last   *)
(* element), so it is a bag: pending[sn] copies of each serial, together   *)
(* with the array's length pending_count.  A result is a record of the     *)
(* verdict and, for a gap, the range that is to be replayed.               *)
(***************************************************************************)
EXTENDS SerialNumbers

CONSTANTS
    SN_MAX_PENDING,     \* size of the outstanding set
    RELAY_MAX_GAP       \* the max_gap that relay.c passes

ASSUME PendingAssumption == SN_MAX_PENDING \in Nat
\* telegram.h: the outstanding set "must be at least as large as the max_gap".
ASSUME GapAssumption == RELAY_MAX_GAP \in Nat /\ RELAY_MAX_GAP <= SN_MAX_PENDING

-----------------------------------------------------------------------------
(* The tracker *)

VARIABLES expected, synced, pending, pending_count
trackerVars == <<expected, synced, pending, pending_count>>

NonePending == [sn \in Serials |-> 0]

\* sn_tracker_init, as part of the initial state and as a step.
TrackerReset(first) ==
    [expected |-> IF tg_sn_valid(first) THEN first ELSE TG_SN_MIN, synced |-> FALSE]

TrackerResumed_AtLast(last) ==
    IF tg_sn_valid(last)
      THEN [TrackerReset(last) EXCEPT !.synced = TRUE]
      ELSE TrackerReset(TG_SN_MIN)

\* sn_tracker_resume: one past the last serial received, and synchronised; a
\* last serial that is none leaves a tracker that takes the first one it sees.
TrackerResumed(last) ==
    IF tg_sn_valid(last)
      THEN [TrackerReset(tg_sn_next(last)) EXCEPT !.synced = TRUE]
      ELSE TrackerReset(TG_SN_MIN)

TrackerInit(t) ==
    /\ expected = t.expected
    /\ synced = t.synced
    /\ pending = NonePending
    /\ pending_count = 0

sn_tracker_resume(last) ==
    LET t == TrackerResumed(last) IN
    /\ expected' = t.expected
    /\ synced' = t.synced
    /\ pending' = NonePending
    /\ pending_count' = 0

\* The serials [from .. from + n - 1], wrapping.
SerialRange(from, n) == {sn \in Serials : tg_sn_distance(from, sn) < n}

(* sn_tracker_accept(sn): one action for each verdict, in the order of the    *)
(* tests.  A serial that is not valid changes nothing.                        *)

\* A telegram we had asked for: taken out of the outstanding set, and nothing
\* else changes.
sn_recovered(sn) ==
    /\ pending[sn] > 0
    /\ pending' = [pending EXCEPT ![sn] = @ - 1]
    /\ pending_count' = pending_count - 1
    /\ UNCHANGED <<expected, synced>>

\* The first serial ever, or the expected one.
sn_in_order(sn) ==
    /\ pending[sn] = 0
    /\ ~synced \/ tg_sn_distance(expected, sn) = 0
    /\ synced' = TRUE
    /\ expected' = tg_sn_next(sn)
    /\ UNCHANGED <<pending, pending_count>>

\* A serial that is neither outstanding nor expected.
Surprising(sn) == synced /\ pending[sn] = 0 /\ tg_sn_distance(expected, sn) > 0

Behind_Never(sn) == tg_sn_distance(expected, sn) >= TG_SN_RANGE

Behind_BeyondGap(sn) == tg_sn_distance(expected, sn) > RELAY_MAX_GAP

\* More than half the sequence space behind us.
Behind(sn) == tg_sn_distance(expected, sn) > TG_SN_RANGE \div 2

sn_duplicate(sn) == Surprising(sn) /\ Behind(sn) /\ UNCHANGED trackerVars

\* The missing serials fit the budget and the outstanding set.
Recoverable(sn) ==
    LET dist == tg_sn_distance(expected, sn) IN
    dist <= RELAY_MAX_GAP /\ pending_count + dist <= SN_MAX_PENDING

sn_gap_Short(sn) ==
    LET dist == tg_sn_distance(expected, sn) IN
    /\ Surprising(sn) /\ ~Behind(sn) /\ Recoverable(sn)
    /\ pending' = [x \in Serials |->
          pending[x] + (IF x \in SerialRange(expected, dist - 1) THEN 1 ELSE 0)]
    /\ pending_count' = pending_count + dist
    /\ expected' = tg_sn_next(sn)
    /\ UNCHANGED synced

\* SN_GAP with gap_from = expected and gap_to = tg_sn_prev(sn).
sn_gap(sn) ==
    LET dist == tg_sn_distance(expected, sn) IN
    /\ Surprising(sn) /\ ~Behind(sn) /\ Recoverable(sn)
    /\ pending' = [x \in Serials |->
          pending[x] + (IF x \in SerialRange(expected, dist) THEN 1 ELSE 0)]
    /\ pending_count' = pending_count + dist
    /\ expected' = tg_sn_next(sn)
    /\ UNCHANGED synced

\* SN_RESYNC: what is outstanding is given up, and what a failed
\* sn_pending_add_range had already appended goes with it.
sn_resync(sn) ==
    /\ Surprising(sn) /\ ~Behind(sn) /\ ~Recoverable(sn)
    /\ pending' = NonePending
    /\ pending_count' = 0
    /\ expected' = tg_sn_next(sn)
    /\ UNCHANGED synced

=============================================================================
