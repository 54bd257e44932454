----------------------------- MODULE RelayNode -----------------------------
(***************************************************************************)
(* One relay and its directory of peers (src/toxrelayer.c): who is behind  *)
(* which friend number, who speaks metaCom, where a telegram is routed     *)
(* (relay_receive and relay_forward of src/relay.c) and to whom a line     *)
(* typed on the console goes.  Friends come and go while all of this, the  *)
(* INI file and the delivery queue are indexed by friend number.           *)
(*                                                                         *)
(* toxcore is external.  What the code depends on: a new friend takes the  *)
(* lowest unused number, a deleted friend leaves a gap, and a profile, and *)
(* so a restart, numbers the friends afresh and without gaps.  toxcore     *)
(* has as many friends as it likes, the tables MAX_Friend_NUM entries.     *)
(*                                                                         *)
(* Data.  A peer is its public key.  A hexadecimal string that names a     *)
(* peer is either the key alone or the longer address, which begins with   *)
(* the key.  The delivery queue is a set of records: it delivers a record  *)
(* or gives it up (MsgQueue), and it survives a restart (DurableQueue).    *)
(***************************************************************************)
EXTENDS Integers, FiniteSets

CONSTANTS
    Keys,               \* public keys of other people
    SelfKey,            \* our own
    NoKey,              \* the empty string of an unused directory entry
    MAX_Friend_NUM,
    MaxFriends,         \* bound: friends of toxcore
    MaxHeld             \* bound: records in the delivery queue

ASSUME NodeAssumption ==
    /\ SelfKey \notin Keys /\ NoKey \notin Keys /\ SelfKey # NoKey
    /\ MAX_Friend_NUM \in Nat \ {0}
    /\ MaxFriends \in Nat /\ MAX_Friend_NUM <= MaxFriends
    /\ MaxHeld \in Nat

VARIABLES
    friends,            \* toxcore: the friend behind each number, or NoKey
    saved,              \* the friends in the profile on disk, as it numbers them
    public_key_str,     \* relay_name_list: key of each channel
    meta_chat_flag,     \* relay_name_list: speaks metaCom
    ini_meta,           \* the section meta_chat_flag of the INI file
    pre_friendnumber,   \* channel that the operator's lines go to
    held,               \* records in the delivery queue
    greeted,            \* history: numbers whose friend has sent a hello signal
    vacated             \* history: numbers that have lost a friend

directoryVars == <<public_key_str, meta_chat_flag, ini_meta>>
historyVars   == <<greeted, vacated>>
nodeVars == <<friends, saved, directoryVars, pre_friendnumber, held, historyVars>>

Channels == 0 .. MAX_Friend_NUM - 1
Numbers  == 0 .. MaxFriends - 1

\* A record of the queue: its channel, whom it is for, whether it still has its
\* framing, and whether the directory knew that peer.
Record == [channel : Channels, to : Keys \cup {SelfKey, NoKey},
           raw : BOOLEAN, known : BOOLEAN]

Lowest(S) == CHOOSE c \in S : \A d \in S : c <= d
Greatest(S) == CHOOSE c \in S : \A d \in S : d <= c

-----------------------------------------------------------------------------
(* toxcore *)

InUse(fr) == {c \in Numbers : fr[c] # NoKey}
Unused(fr) == Numbers \ InUse(fr)

\* tox_friend_add and tox_friend_add_norequest.
Added(fr, k) == [fr EXCEPT ![Lowest(Unused(fr))] = k]
CanAdd(k) == Unused(friends) # {} /\ \A c \in Numbers : friends[c] # k

\* The friends as a profile lists them and a restarted toxcore numbers them.
Packed(fr) ==
    [c \in Numbers |->
       LET here == {d \in InUse(fr) :
                      Cardinality({e \in InUse(fr) : e < d}) = c}
       IN  IF here = {} THEN NoKey ELSE fr[Lowest(here)]]

\* The friends are those of fr from now on.  A number that loses its friend,
\* deleted, renumbered or never saved, is noted.
FriendsBecome(fr) ==
    LET lost == {c \in Channels \cap InUse(friends) : fr[c] # friends[c]} IN
    /\ friends' = fr
    /\ vacated' = vacated \cup lost
    /\ greeted' = greeted \ lost

\* save_data writes the profile, or fails to; nobody looks at the result.
save_data == saved' \in {saved, Packed(friends')}

-----------------------------------------------------------------------------
(* The directory *)

\* tox_friend_get_public_key leaves the buffer alone for a number that is not
\* in use, so the entry gets the key of the friend before it, or what happens
\* to be on the stack.
KeyBuffer(fr, i, junk) ==
    LET before == {j \in InUse(fr) : j <= i}
    IN  IF before = {} THEN junk ELSE fr[Greatest(before)]

get_relay_name_list_FlagCleared(fr, list, meta, junk) ==
    LET n      == Cardinality(InUse(fr))
        Read(i) == n <= MAX_Friend_NUM /\ i < n
    IN
    /\ public_key_str' = [i \in Channels |->
                            IF Read(i) THEN KeyBuffer(fr, i, junk) ELSE list[i]]
    /\ meta_chat_flag' = [i \in Channels |-> IF Read(i) THEN FALSE ELSE meta[i]]

get_relay_name_list_GapCleared(fr, list, meta, junk) ==
    LET n      == Cardinality(InUse(fr))
        Read(i) == n <= MAX_Friend_NUM /\ i < n
    IN
    /\ public_key_str' = [i \in Channels |-> IF Read(i) THEN fr[i] ELSE list[i]]
    /\ meta_chat_flag' = [i \in Channels |-> IF Read(i) THEN ini_meta[i] ELSE meta[i]]

\* With more friends than entries nothing is read.  Otherwise the entries below
\* the number of friends are read afresh, the flag from the INI file; the
\* others stay.
get_relay_name_list(fr, list, meta, junk) ==
    LET n      == Cardinality(InUse(fr))
        Read(i) == n <= MAX_Friend_NUM /\ i < n
    IN
    /\ public_key_str' = [i \in Channels |->
                            IF Read(i) THEN KeyBuffer(fr, i, junk) ELSE list[i]]
    /\ meta_chat_flag' = [i \in Channels |-> IF Read(i) THEN ini_meta[i] ELSE meta[i]]

\* strstr: the first entry that is contained in the key, and the empty string
\* of an unused entry is contained in every key.
lookup_ch_num(key) ==
    LET hits == {i \in Channels : public_key_str[i] \in {key, NoKey}}
    IN  IF hits = {} THEN -1 ELSE Lowest(hits)

\* Unless the key is blocked, the request is granted if toxcore can, and the
\* profile saved and the directory refreshed anyway.
cb_friend_request(k) ==
    /\ \/ CanAdd(k) /\ FriendsBecome(Added(friends, k))
       \/ FriendsBecome(friends)
    /\ save_data
    /\ \E junk \in Keys : get_relay_name_list(friends', public_key_str, meta_chat_flag, junk)
    /\ UNCHANGED <<ini_meta, pre_friendnumber, held>>

\* /add on the console: neither is the profile saved nor the directory refreshed.
evaluate_add(k) ==
    /\ CanAdd(k)
    /\ FriendsBecome(Added(friends, k))
    /\ UNCHANGED <<saved, directoryVars, pre_friendnumber, held>>

\* Friends that have been away for longer than the limit, often none.  main
\* saves the profile after it.
purge_inactive_friends(gone) ==
    /\ FriendsBecome([c \in Numbers |-> IF c \in gone THEN NoKey ELSE friends[c]])
    /\ save_data
    /\ UNCHANGED <<directoryVars, pre_friendnumber, held>>

-----------------------------------------------------------------------------
(* cb_friend_message: a message from friend c.  Friends beyond the tables are *)
(* not heard.  The operator edits the file of blocked keys at any time, and   *)
(* it is read for every message: each may find its sender blocked.            *)

\* The sender was blocked since: the friend is deleted, and not from the profile.
FromBlocked(c) ==
    /\ friends[c] # NoKey
    /\ FriendsBecome([friends EXCEPT ![c] = NoKey])
    /\ UNCHANGED <<saved, directoryVars, pre_friendnumber, held>>

\* Every message that is not thrown away makes its sender the operator's
\* partner.
Heard(c) ==
    /\ friends[c] # NoKey
    /\ pre_friendnumber' = c
    /\ UNCHANGED <<friends, public_key_str, vacated>>

HelloSignal(c) ==
    /\ Heard(c)
    /\ meta_chat_flag' = [meta_chat_flag EXCEPT ![c] = TRUE]
    /\ ini_meta' = [ini_meta EXCEPT ![c] = TRUE]
    /\ greeted' = greeted \cup {c}
    /\ UNCHANGED <<saved, held>>

\* A command, some of which save the profile, or text that is not a telegram.
CommandOrText(c) ==
    /\ Heard(c)
    /\ save_data
    /\ UNCHANGED <<meta_chat_flag, ini_meta, held, greeted>>

\* self_public_key_str is our address, and a telegram carries the key.
self_public_key_str == <<SelfKey, "address">>
Receiver(to) == <<to, "key">>

QueueFull == Cardinality(held) >= MaxHeld

relay_forward_Destination(c, to) ==
    LET destination == lookup_ch_num(to) IN
    /\ destination >= 0
    /\ ~QueueFull
    /\ held' = held \cup
          {[channel |-> c, to |-> to, raw |-> meta_chat_flag[c],
            known |-> \E i \in Channels : public_key_str[i] = to]}

\* relay_forward: to the channel found, with or without its framing.  The flag
\* is that of channel c, where the telegram came from.
relay_forward(c, to) ==
    LET destination == lookup_ch_num(to) IN
    \/ /\ destination >= 0
       /\ ~QueueFull
       /\ held' = held \cup
             {[channel |-> destination, to |-> to, raw |-> meta_chat_flag[c],
               known |-> \E i \in Channels : public_key_str[i] = to]}
    \/ /\ destination < 0           \* RELAY_NO_ROUTE
       /\ UNCHANGED held
    \/ QueueFull /\ UNCHANGED held  \* RELAY_DISCARDED

\* relay_receive on a text telegram.  What relay_deliver does with our own is
\* the subject of ReplayLink.
TextTelegram(c, to) ==
    /\ Heard(c)
    /\ IF Receiver(to) = self_public_key_str
         THEN UNCHANGED held
         ELSE relay_forward(c, to)
    /\ UNCHANGED <<saved, meta_chat_flag, ini_meta, greeted>>

-----------------------------------------------------------------------------
(* The console *)

\* /#c, if it is understood (see Console).
evaluate_channel(c) ==
    /\ pre_friendnumber' = c
    /\ UNCHANGED <<friends, saved, directoryVars, held, historyVars>>

\* A line of text.  A metaCom channel without a key cannot be encoded.
ConsoleSend ==
    LET c == pre_friendnumber IN
    /\ meta_chat_flag[c] => public_key_str[c] # NoKey
    /\ ~QueueFull
    /\ held' = held \cup
          {[channel |-> c, to |-> friends[c], raw |-> meta_chat_flag[c],
            known |-> friends[c] # NoKey]}
    /\ UNCHANGED <<friends, saved, directoryVars, pre_friendnumber, historyVars>>

-----------------------------------------------------------------------------
(* Delivery and restart *)

\* The queue hands a record to the friend that now has the number, or gives it
\* up: it is gone.
Settled(r) ==
    /\ held' = held \ {r}
    /\ UNCHANGED <<friends, saved, directoryVars, pre_friendnumber, historyVars>>

\* main: toxcore has the friends of the profile, as they were saved last (a
\* kill) or as they are (exit_toxrelayer saves them), and an empty table is
\* filled from toxcore and the INI file.
NodeRestart ==
    /\ \E profile \in {saved, Packed(friends)} : FriendsBecome(profile)
    /\ saved' = friends'
    /\ \E junk \in Keys :
          get_relay_name_list(friends', [c \in Channels |-> NoKey],
                              [c \in Channels |-> FALSE], junk)
    /\ pre_friendnumber' = 0
    /\ UNCHANGED <<ini_meta, held>>

-----------------------------------------------------------------------------
NInit ==
    /\ friends = [c \in Numbers |-> NoKey]
    /\ saved = friends
    /\ public_key_str = [c \in Channels |-> NoKey]
    /\ meta_chat_flag = [c \in Channels |-> FALSE]
    /\ ini_meta = [c \in Channels |-> FALSE]
    /\ pre_friendnumber = 0
    /\ held = {}
    /\ greeted = {} /\ vacated = {}

NNext ==
    \/ \E k \in Keys : cb_friend_request(k) \/ evaluate_add(k)
    \/ \E gone \in SUBSET InUse(friends) : purge_inactive_friends(gone)
    \/ \E c \in Channels :
          \/ FromBlocked(c)
          \/ HelloSignal(c)
          \/ CommandOrText(c)
          \/ \E to \in Keys \cup {SelfKey} : TextTelegram(c, to)
          \/ evaluate_channel(c)
    \/ ConsoleSend
    \/ \E r \in held : Settled(r)
    \/ NodeRestart

NSpec == NInit /\ [][NNext]_nodeVars

-----------------------------------------------------------------------------
(* Properties *)

\* As long as no number up to c has lost a friend, the loop over 0 ..
\* numfriends - 1 and the first match of strstr do find the right number: a
\* listed key is that of the friend with this number, and looking it up leads
\* back to it, unlisted friends, unused entries, more friends than entries and
\* kills before the profile is saved notwithstanding.  Because an unused entry
\* matches every key, one that lies before a listed friend would take over its
\* telegrams.  Even when friends are deleted, their numbers reused and the table
\* refreshed with fewer friends than it lists, a listed key leads to an entry
\* that holds this key.
DirectoryResolves ==
    \A c \in Channels : public_key_str[c] # NoKey =>
        /\ public_key_str[lookup_ch_num(public_key_str[c])] = public_key_str[c]
        /\ (0 .. c) \cap vacated = {} =>
              /\ public_key_str[c] = friends[c]
              /\ lookup_ch_num(public_key_str[c]) = c

\* As long as a number keeps its friend, only a friend that has said hello is
\* treated as a metaCom peer, and if the directory lists it, it is treated as
\* one from then on, over every refresh of the directory and every restart.
HelloRemembered ==
    \A c \in Channels \cap InUse(friends) : c \notin vacated =>
        /\ meta_chat_flag[c] => c \in greeted
        /\ c \in greeted /\ public_key_str[c] # NoKey => meta_chat_flag[c]

\* A record for a peer that the directory knew when it was queued waits on the
\* number of that peer and of nobody else, however long it waits and whatever
\* is restarted; as long as that number keeps its friend.
KnownGetTheirs ==
    \A r \in held : r.known /\ r.channel \notin vacated => friends[r.channel] = r.to

\* README: a telegram is delivered to the contact it is addressed to; also when
\* numbers change hands.
AddresseeGetsIt ==
    \A r \in held : r.known => friends[r.channel] \in {r.to, NoKey}

\* relay.h: "Our own public key in hexadecimal. A telegram addressed to it is
\* ours."  It is not queued for another peer.
OwnTelegramsKept == \A r \in held : r.to # SelfKey

\* relay.h: resolve_peer returns "-1 when unknown", and the telegram is then
\* reported as RELAY_NO_ROUTE instead of being queued.
UnknownNotQueued == \A r \in held : r.to \in Keys => r.known

\* relay.c: "A metaCom peer receives the record unchanged, [...] a plain peer
\* receives only the body."  Framing is kept only for peers that said hello.
FramingFitsPeer ==
    \A r \in held : r.known /\ r.raw /\ friends[r.channel] = r.to => r.channel \in greeted

\* toxrelayer.c: "assuming a peer speaks the protocol would send it a record it
\* cannot parse".  Only a peer that said hello is assumed to.
MetaFlagOwned ==
    \A c \in Channels \cap InUse(friends) : meta_chat_flag[c] => c \in greeted

=============================================================================
