----------------------------- MODULE GroupChats -----------------------------
(***************************************************************************)
(* The group table of src/groupchats.c and everything that keeps it in     *)
(* step with toxcore's conferences: the commands /group, /invite,          *)
(* /gmessage, /info, /leave, /passwd and /title of src/commands.c, and the *)
(* conference callbacks, the autoload and the purge of empty groups of     *)
(* src/toxrelayer.c.                                                       *)
(*                                                                         *)
(* toxcore is external.  What the code depends on: a new conference takes  *)
(* the lowest unused number, a deleted one leaves a gap, a restart numbers *)
(* the saved conferences from zero; a call that fails changes nothing.     *)
(* Members of a conference that are online are counted by                  *)
(* tox_conference_peer_count, as are we.  When our own connection breaks   *)
(* they drop out of the count; after it is back they return, if they are   *)
(* still there, within GROUP_PURGE_CONNECT_TIMEOUT.                        *)
(*                                                                         *)
(* Data.  A slot of the table is a record, a hole the all-zero record; the *)
(* table is a sequence whose length is chats_idx.  A password that is too  *)
(* long is a password of its own.  The conference type, which nothing      *)
(* reads back, is left out, and so is default_groupnum: it only supplies   *)
(* the number of an /invite without one, and the properties speak about    *)
(* every number.  Master commands of somebody who is no master change      *)
(* nothing.  Times are two flags that say whether the timeouts of          *)
(* check_group_purge have elapsed.                                         *)
(***************************************************************************)
EXTENDS Integers, FiniteSets, SequencesExt

CONSTANTS
    MAX_NUM_GROUPS,
    MaxConferences,     \* bound: conferences in toxcore at one time
    Members,            \* other people
    Titles, NoTitle,
    Passwords, NoPass, TooLong

ASSUME GroupAssumption ==
    /\ MAX_NUM_GROUPS \in Nat \ {0}
    /\ MaxConferences \in Nat
    /\ NoTitle \notin Titles
    /\ NoPass \notin Passwords /\ TooLong \notin Passwords /\ NoPass # TooLong

VARIABLES
    running,            \* the process is up
    conf,               \* toxcore: its conferences, by number
    g_chats,            \* the table
    connected,          \* toxcore: our connection to the network
    settled,            \* GROUP_PURGE_CONNECT_TIMEOUT elapsed since last_connected
    interval_over,      \* GROUP_PURGE_INTERVAL elapsed since last_group_purge
    intended,           \* history: the password last asked for, by conference
    refused             \* history: conferences whose owner was told they failed

timeVars  == <<connected, settled, interval_over>>
groupVars == <<running, conf, g_chats, timeVars, intended, refused>>

Numbers == 0 .. MaxConferences - 1

\* A member is in the conference, out of it, or lost with our connection.
Status == {"in", "out", "lost"}
Conference == [title : Titles \cup {NoTitle}, who : [Members -> Status]]

-----------------------------------------------------------------------------
(* toxcore *)

NewNumber == CHOOSE n \in 0 .. MaxConferences :
                 n \notin DOMAIN conf /\ \A k \in 0 .. n - 1 : k \in DOMAIN conf

CanCreate == NewNumber \in Numbers

Empty(c) == \A a \in Members : c.who[a] # "in"

\* tox_conference_new and tox_conference_join
With(cs, n, c) == [m \in DOMAIN cs \cup {n} |-> IF m = n THEN c ELSE cs[m]]

\* tox_conference_delete
Without(cs, n) == Restrict(cs, DOMAIN cs \ {n})

Anyone(status) == \E n \in DOMAIN conf : \E a \in Members : conf[n].who[a] = status

-----------------------------------------------------------------------------
(* The table: groupchats.c *)

Slot == [active : BOOLEAN, groupnum : Numbers,
         title : Titles \cup {NoTitle}, password : Passwords \cup {NoPass}]

Hole == [active |-> FALSE, groupnum |-> 0, title |-> NoTitle, password |-> NoPass]

Added(n, password) ==
    [active |-> TRUE, groupnum |-> n, title |-> NoTitle, password |-> password]

\* The slot of group n, or 0: slots count from one here, from zero in the code.
group_index_BySlot(table, n) ==
    IF n + 1 \in DOMAIN table /\ table[n + 1].active THEN n + 1 ELSE 0

group_index(table, n) ==
    SelectInSeq(table, LAMBDA s : s.active /\ s.groupnum = n)

\* group_add returns -1.
Full(table) == Len(table) >= MAX_NUM_GROUPS

group_add(table, n, password) ==
    LET i == SelectInSeq(table, LAMBDA s : ~s.active)
    IN  IF i = 0 THEN Append(table, Added(n, password))
                 ELSE [table EXCEPT ![i] = Added(n, password)]

group_leave(table, n) ==
    LET cleared == [i \in DOMAIN table |->
                        IF i = group_index(table, n) THEN Hole ELSE table[i]]
    IN  SubSeq(cleared, 1, SelectLastInSeq(cleared, LAMBDA s : s.active))

Listed == {g_chats[i].groupnum : i \in {j \in DOMAIN g_chats : g_chats[j].active}}

-----------------------------------------------------------------------------
(* Commands: commands.c *)

\* Of /group and of an invitation that is accepted: toxcore has the conference,
\* and it is deleted again if the table has no room.
NewGroup(c, password) ==
    IF Full(g_chats)
    THEN UNCHANGED <<conf, g_chats, intended, refused>>
    ELSE /\ conf' = With(conf, NewNumber, c)
         /\ g_chats' = group_add(g_chats, NewNumber, password)
         /\ intended' = With(intended, NewNumber, password)
         /\ UNCHANGED refused

Unattended == [title |-> NoTitle, who |-> [a \in Members |-> "out"]]

\* /group, with a password or without.
cmd_group ==
    /\ CanCreate
    /\ \E password \in Passwords \cup {NoPass} : NewGroup(Unattended, password)
    /\ UNCHANGED timeVars

\* /group with a password that is too long: the conference stays behind.
cmd_group_TooLong ==
    /\ CanCreate
    /\ conf' = With(conf, NewNumber, Unattended)
    /\ intended' = With(intended, NewNumber, NoPass)
    /\ refused' = refused \cup {NewNumber}
    /\ UNCHANGED <<g_chats, timeVars>>

\* /leave: fails if toxcore has no such conference.
cmd_leave(n) ==
    /\ n \in DOMAIN conf
    /\ conf' = Without(conf, n)
    /\ g_chats' = group_leave(g_chats, n)
    /\ intended' = Without(intended, n)
    /\ refused' = refused \ {n}
    /\ UNCHANGED timeVars

\* /passwd: sets or clears; one that is too long changes nothing.
cmd_passwd_BySlot(n, password) ==
    LET i == group_index_BySlot(g_chats, n)
    IN  /\ i # 0
        /\ password # TooLong
        /\ g_chats' = [g_chats EXCEPT ![i].password = password]
        /\ intended' = [intended EXCEPT ![n] = password]
        /\ UNCHANGED <<conf, refused, timeVars>>

cmd_passwd(n, password) ==
    LET i == group_index(g_chats, n)
    IN  /\ i # 0
        /\ password # TooLong
        /\ g_chats' = [g_chats EXCEPT ![i].password = password]
        /\ intended' = [intended EXCEPT ![n] = password]
        /\ UNCHANGED <<conf, refused, timeVars>>

Retitled(n, title) ==
    LET i == group_index(g_chats, n)
    IN  /\ conf' = [conf EXCEPT ![n].title = title]
        /\ g_chats' = IF i = 0 THEN g_chats ELSE [g_chats EXCEPT ![i].title = title]
        /\ UNCHANGED <<intended, refused, timeVars>>

\* /title: toxcore first, then the table if the group is in it.
cmd_title_set(n, title) ==
    /\ n \in DOMAIN conf
    /\ Retitled(n, title)

\* The answers to /invite and /gmessage, and the title that /info shows.
cmd_invite(n, password) ==
    LET i == group_index(g_chats, n)
    IN  CASE i = 0 -> "group does not exist"
          [] i # 0 /\ g_chats[i].password \notin {NoPass, password} -> "invalid password"
          [] i # 0 /\ g_chats[i].password \in {NoPass, password} ->
                 IF n \in DOMAIN conf THEN "invited" ELSE "invite failed"

cmd_gmessage(n) ==
    IF group_index(g_chats, n) = 0 THEN "invalid group number"
    ELSE IF n \in DOMAIN conf THEN "sent" ELSE "failed to send"

cmd_info(n) ==
    LET i == group_index(g_chats, n)
    IN  IF i = 0 THEN NoTitle ELSE g_chats[i].title

-----------------------------------------------------------------------------
(* Callbacks and the main loop: toxrelayer.c *)

\* An invitation of a friend, who is in the conference.
cb_group_invite_Kept ==
    /\ connected
    /\ CanCreate
    /\ conf' = With(conf, NewNumber, [Unattended EXCEPT !.who = [a \in Members |-> "in"]])
    /\ g_chats' = IF Full(g_chats) THEN g_chats ELSE group_add(g_chats, NewNumber, NoPass)
    /\ intended' = With(intended, NewNumber, NoPass)
    /\ UNCHANGED <<refused, timeVars>>

cb_group_invite ==
    /\ connected
    /\ CanCreate
    /\ \E inviters \in SUBSET Members \ {{}} :
           NewGroup([Unattended EXCEPT !.who =
                        [a \in Members |-> IF a \in inviters THEN "in" ELSE "out"]], NoPass)
    /\ UNCHANGED timeVars

\* A member sets the title.
cb_group_titlechange(n, title) ==
    /\ connected
    /\ n \in DOMAIN conf
    /\ Retitled(n, title)

\* A member comes, goes, or turns out to be still there after an outage.
MemberChanges(n, a) ==
    /\ connected
    /\ n \in DOMAIN conf
    /\ \E s \in {"in", "out"} \ {conf[n].who[a]} : conf' = [conf EXCEPT ![n].who[a] = s]
    /\ UNCHANGED <<g_chats, intended, refused, timeVars>>

LostReturns ==
    \E n \in DOMAIN conf, a \in Members : conf[n].who[a] = "lost" /\ MemberChanges(n, a)

AllLost(cs) ==
    [n \in DOMAIN cs |-> [cs[n] EXCEPT !.who =
        [a \in Members |-> IF cs[n].who[a] = "in" THEN "lost" ELSE cs[n].who[a]]]]

\* cb_self_connection_change: last_connected is set when the connection is made
\* and when it changes between TCP and UDP.
ConnectionLost ==
    /\ connected
    /\ connected' = FALSE
    /\ conf' = AllLost(conf)
    /\ UNCHANGED <<g_chats, settled, interval_over, intended, refused>>

ConnectionMade_NotNoted ==
    /\ connected' = TRUE
    /\ UNCHANGED <<conf, g_chats, settled, interval_over, intended, refused>>

ConnectionMade ==
    /\ connected' = TRUE
    /\ settled' = FALSE
    /\ UNCHANGED <<conf, g_chats, interval_over, intended, refused>>

\* Time passes.  Of the network: whoever is still there is back by the time the
\* longer timeout has elapsed with us connected.
IntervalPasses ==
    /\ ~interval_over
    /\ interval_over' = TRUE
    /\ UNCHANGED <<conf, g_chats, connected, settled, intended, refused>>

ConnectTimeoutPasses ==
    /\ ~settled
    /\ connected => ~Anyone("lost")
    /\ settled' = TRUE
    /\ UNCHANGED <<conf, g_chats, connected, interval_over, intended, refused>>

check_group_purge_Offline == interval_over /\ settled /\ ~connected
check_group_purge == interval_over /\ connected /\ settled

\* One turn of the loop of purge_empty_groups.  group_leave may shorten the
\* table, which ends the loop.
PurgeStep_SlotForNumber(now, i) ==
    IF i > Len(now.table) \/ ~now.table[i].active THEN now
    ELSE LET n == now.table[i].groupnum
         IN  IF n \in DOMAIN now.conf /\ ~Empty(now.conf[n]) THEN now
             ELSE [conf |-> Without(now.conf, n), table |-> group_leave(now.table, i - 1)]

PurgeStep(now, i) ==
    IF i > Len(now.table) \/ ~now.table[i].active THEN now
    ELSE LET n == now.table[i].groupnum
         IN  IF n \in DOMAIN now.conf /\ ~Empty(now.conf[n]) THEN now
             ELSE [conf |-> Without(now.conf, n), table |-> group_leave(now.table, n)]

\* The loop: what toxcore and the table hold after its i-th turn.
PurgeTurns[i \in 0 .. Len(g_chats)] ==
    IF i = 0 THEN [conf |-> conf, table |-> g_chats]
             ELSE PurgeStep(PurgeTurns[i - 1], i)

purge_empty_groups ==
    /\ check_group_purge
    /\ \E after \in {PurgeTurns[Len(g_chats)]} :
           /\ conf' = after.conf
           /\ g_chats' = after.table
           /\ intended' = Restrict(intended, DOMAIN after.conf)
    /\ interval_over' = FALSE
    /\ UNCHANGED <<connected, settled, refused>>

-----------------------------------------------------------------------------
(* Start-up *)

LoadStep(now, n) ==
    IF Full(now.table)
    THEN [conf |-> Without(now.conf, n), table |-> now.table]
    ELSE [conf |-> now.conf, table |-> group_add(now.table, n, NoPass)]

\* The loop of load_conferences over the conferences cs of the save file, which
\* are numbered from zero.
LoadTurns(cs) ==
    LET turn[i \in 0 .. Cardinality(DOMAIN cs)] ==
            IF i = 0 THEN [conf |-> cs, table |-> <<>>]
                     ELSE LoadStep(turn[i - 1], i - 1)
    IN  turn

\* What load_conferences may leave.  Without memory for the list of conferences
\* the table stays empty.
load_conferences(cs) ==
    {LoadTurns(cs)[Cardinality(DOMAIN cs)], [conf |-> cs, table |-> <<>>]}

\* The save file is as old as the last save_data, so any conferences may come
\* back; nobody is connected yet.
SavedConferences ==
    UNION {[0 .. k - 1 -> {c \in Conference : Empty(c)}] : k \in 0 .. MaxConferences}

\* All variables of a process that has not started.
GInit ==
    /\ running = FALSE
    /\ conf = <<>> /\ g_chats = <<>> /\ intended = <<>> /\ refused = {}
    /\ connected = FALSE /\ settled = FALSE /\ interval_over = FALSE

\* main: init_tox reads the save file, init_toxrelayer_state clears the table and
\* starts the timeouts, load_conferences fills the table.
Start ==
    /\ running' = TRUE
    /\ \E cs \in SavedConferences : \E now \in load_conferences(cs) :
           /\ conf' = now.conf
           /\ g_chats' = now.table
           /\ refused' = IF now.table = <<>> THEN DOMAIN now.conf ELSE {}
    /\ intended' = [n \in DOMAIN conf' |-> NoPass]
    /\ UNCHANGED timeVars

\* An exit or a crash; the table, passwords included, is not saved.
Stop ==
    /\ running' = FALSE
    /\ conf' = <<>> /\ g_chats' = <<>> /\ intended' = <<>> /\ refused' = {}
    /\ connected' = FALSE /\ settled' = FALSE /\ interval_over' = FALSE

-----------------------------------------------------------------------------
Running ==
    \/ cmd_group
    \/ cmd_group_TooLong
    \/ \E n \in Numbers :
           \/ cmd_leave(n)
           \/ \E p \in Passwords \cup {NoPass, TooLong} : cmd_passwd(n, p)
           \/ \E t \in Titles : cmd_title_set(n, t)
           \/ \E t \in Titles : cb_group_titlechange(n, t)
           \/ \E a \in Members : MemberChanges(n, a)
    \/ cb_group_invite
    \/ ConnectionLost
    \/ ConnectionMade
    \/ IntervalPasses
    \/ ConnectTimeoutPasses
    \/ purge_empty_groups

WhileUp(A) == running /\ A /\ UNCHANGED running

GNext ==
    \/ WhileUp(Running)
    \/ running /\ Stop
    \/ ~running /\ Start

GSpec == GInit /\ [][GNext]_groupVars

-----------------------------------------------------------------------------
(* Properties *)

\* The table and toxcore agree on which groups there are (groupchats.c,
\* purge_empty_groups, load_conferences): after any sequence of creations,
\* refusals, leaves, purges and restarts no conference is in two slots, every
\* slot in use stands for a live conference, and the only conferences without a
\* slot are those whose creation was reported as failed or that could not be
\* loaded.  The table ends at a slot in use, so group_add never refuses a group
\* because of slots that were given up at the end, and never outgrows the limit.
TableMatchesToxcore ==
    /\ \A i, j \in DOMAIN g_chats :
           g_chats[i].active /\ g_chats[j].active /\ g_chats[i].groupnum = g_chats[j].groupnum
               => i = j
    /\ Listed = DOMAIN conf \ refused
    /\ Len(g_chats) > 0 => g_chats[Len(g_chats)].active
    /\ Len(g_chats) <= MAX_NUM_GROUPS

\* Invitations and messages (cmd_invite, cmd_gmessage) reach exactly the groups
\* of the table, and an invitation is granted if and only if the group has no
\* password or the one that was last set for that group since the start, however
\* slots and numbers have been reused.  /info shows for a conference its present
\* title or none, never the title of another group or of one that had the slot or
\* the number before (cb_group_titlechange, cmd_title_set, group_add).
CommandsReachGroup ==
    /\ \A n \in DOMAIN conf : cmd_info(n) \in {NoTitle, conf[n].title}
    /\ \A n \in Numbers :
        /\ cmd_gmessage(n) = IF n \in DOMAIN conf \ refused THEN "sent"
                             ELSE "invalid group number"
        /\ \A p \in Passwords \cup {NoPass, TooLong} :
               cmd_invite(n, p) = IF n \notin DOMAIN conf \ refused THEN "group does not exist"
                                  ELSE IF intended[n] \in {NoPass, p} THEN "invited"
                                  ELSE "invalid password"

\* One purge removes all listed groups without company and nothing else, from the
\* table and from toxcore, although it shortens the table it walks over
\* (purge_empty_groups).
PurgeIsExact ==
    [][purge_empty_groups =>
        LET kept == {n \in DOMAIN conf : n \in refused \/ ~Empty(conf[n])}
        IN  /\ conf' = Restrict(conf, kept)
            /\ Listed' = kept \ refused
            /\ \A i \in DOMAIN g_chats' : g_chats'[i].active => g_chats'[i] = g_chats[i]]_groupVars

\* A group is not purged because of our own outage: while members that dropped
\* out with our connection may still come back, the group stays
\* (check_group_purge, cb_self_connection_change, init_toxrelayer_state).
OutageSparesGroups ==
    [][purge_empty_groups =>
        \A n \in DOMAIN conf : (\E a \in Members : conf[n].who[a] = "lost") =>
            n \in DOMAIN conf']_groupVars

\* The main loop turns and so purges when it may, which only a purge or a stop
\* undoes; time passes; and after an outage members come back or turn out to have
\* gone.
GFairSpec ==
    /\ GSpec
    /\ WF_interval_over(check_group_purge /\ interval_over' = FALSE)
    /\ WF_groupVars(WhileUp(IntervalPasses))
    /\ WF_groupVars(WhileUp(ConnectTimeoutPasses))
    /\ WF_groupVars(WhileUp(LostReturns))

\* Once the connection is stable, no group of the table stays empty for ever
\* (check_group_purge, purge_empty_groups).
EmptyGroupsGo ==
    <>[][~ConnectionMade]_groupVars =>
        \A n \in Numbers : ~<>[](connected /\ n \in Listed /\ Empty(conf[n]))

\* What the answer to /group says of a password that is too long: the group
\* "failed to initialize".  It does not hold (cmd_group, line 238 of commands.c).
RefusedGroupGone == [][cmd_group_TooLong => DOMAIN conf' = DOMAIN conf]_groupVars
=============================================================================
