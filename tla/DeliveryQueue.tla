--------------------------- MODULE DeliveryQueue ---------------------------
(***************************************************************************)
(* What the delivery queue promises its callers (the contract in           *)
(* msg_queue.h), without slots, scans, receipts or clocks: an accepted     *)
(* message is held until exactly one of two things happens to it, and no   *)
(* message is handed to the transport more often than the budget allows.   *)
(***************************************************************************)
EXTENDS Naturals, FiniteSets

CONSTANTS Messages, Capacity, MaxCalls

VARIABLES
    held,           \* accepted and not settled
    calls,          \* how often each message was handed to the transport
    confirmed,      \* settled: acknowledged
    dropped         \* settled: given up

dqVars == <<held, calls, confirmed, dropped>>

DQInit ==
    /\ held = {}
    /\ calls = [m \in Messages |-> 0]
    /\ confirmed = {}
    /\ dropped = {}

Accept(m) ==
    /\ m \notin held \cup confirmed \cup dropped
    /\ Cardinality(held) < Capacity
    /\ held' = held \cup {m}
    /\ UNCHANGED <<calls, confirmed, dropped>>

\* One more call of the transport; the message stays.
Transmit(m) ==
    /\ m \in held
    /\ calls[m] < MaxCalls
    /\ calls' = [calls EXCEPT ![m] = @ + 1]
    /\ UNCHANGED <<held, confirmed, dropped>>

\* An acknowledgement settles a message that was sent.
Confirm(m) ==
    /\ m \in held
    /\ calls[m] > 0
    /\ held' = held \ {m}
    /\ confirmed' = confirmed \cup {m}
    /\ UNCHANGED <<calls, dropped>>

\* A refused call settles the message if it was the last one or was refused
\* for good.
Refuse(m) ==
    /\ m \in held
    /\ calls[m] < MaxCalls
    /\ calls' = [calls EXCEPT ![m] = @ + 1]
    /\ held' = held \ {m}
    /\ dropped' = dropped \cup {m}
    /\ UNCHANGED confirmed

\* The last permitted call was never acknowledged.
GiveUp(m) ==
    /\ m \in held
    /\ calls[m] = MaxCalls
    /\ held' = held \ {m}
    /\ dropped' = dropped \cup {m}
    /\ UNCHANGED <<calls, confirmed>>

Settle(m) == Confirm(m) \/ Refuse(m) \/ GiveUp(m)

DQNext == \E m \in Messages : Accept(m) \/ Transmit(m) \/ Settle(m)

\* Safety, and the promise that every accepted message is settled.
DQSpec == DQInit /\ [][DQNext]_dqVars
DQFairSpec == DQSpec /\ \A m \in Messages : WF_dqVars(Settle(m))

=============================================================================
