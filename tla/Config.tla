------------------------------- MODULE Config -------------------------------
(***************************************************************************)
(* The relay and its configuration file metaCom.config (src/toxrelayer.c): *)
(* the serial of the last telegram to each friend, the mirror of the last  *)
(* serial received, which friends speak metaCom, and the key of the relay, *)
(* all kept with the INI library (IniFile), whose answers are ignored.     *)
(* The relay is one thread: it does nothing else while a call lasts.  It   *)
(* may be killed at any step and is started again.  Which settings it      *)
(* reads depends on the number of friends, which is left open here.        *)
(***************************************************************************)
EXTENDS IniFile, SerialNumbers, TLC

CONSTANTS
    Friends,        \* friends that are written to
    Writers,        \* friends that write
    KeySymbols,     \* what is entered after /relay consists of these ...
    KeyLength,      \* ... bound: and has this length at most
    MAX_Friend_NUM, \* entries of the directory
    MaxCalls,       \* bound: calls of ini_puts
    MaxMishaps      \* bound: calls to the system that fail

ASSUME ConfigAssumption ==
    /\ Friends \subseteq Nat /\ Writers \subseteq Nat
    /\ KeyLength \in Nat /\ MaxCalls \in Nat
    /\ MAX_Friend_NUM \in Nat /\ MaxMishaps \in Nat

VARIABLES
    known,      \* what the relay goes by: the value of each setting, Unset,
                \* or Unread
    calls,      \* calls of ini_puts so far
    sending,    \* the friend whose telegram is about to be queued, or None
    used,       \* history: the serials sent to each friend
    reused,     \* history: the friends that were sent a serial twice
    blind,      \* history: the friends written to before their serial was read
    mishaps     \* history: calls that failed, and kills that lost the file

historyVars == <<used, reused, blind>>
configVars  == <<iniVars, known, calls, sending, historyVars, mishaps>>

None == -1

outgoing_sn(c) == <<"outgoing_sn", "send" \o ToString(c)>>
incoming_sn(c)    == <<"incoming_sn", "recev" \o ToString(c)>>
meta_chat_flag(c) == <<"meta_chat_flag", "meta" \o ToString(c)>>
relay_public_key == <<"metaCom_Relayer", "relay_public_key">>

SettingNames ==
    {outgoing_sn(c) : c \in Friends}
        \cup (UNION {{incoming_sn(c), meta_chat_flag(c)} : c \in Writers})
        \cup {relay_public_key}

\* Not read since the relay was started.
Unread == <<"unread">>

\* A serial is written with "%04d"; one that is not there is read as 1.
Format(sn) == <<"0", "0", "0", ToString(sn)>>

\* The symbols of the lines that are written.
Text ==
    {LF, QuoteMark, Backslash, "[", "]", "=", "0", "1"} \cup KeySymbols
        \cup {ToString(sn) : sn \in Serials}
        \cup (UNION {{n[1], n[2]} : n \in SettingNames})

\* No key looks like a heading, different friends and different serials look
\* different, and a file that is there is not missing.
ASSUME TextAssumption ==
    /\ \A n \in SettingNames : n[2] # "["
    /\ \A c, d \in Friends : outgoing_sn(c) = outgoing_sn(d) => c = d
    /\ \A sn, other \in Serials : Format(sn) = Format(other) => sn = other
    /\ Missing \notin Seq(Seq(Text))

\* Before it is read, send_sn is 0.
ReadSerial(v) ==
    IF v = Unread THEN 0
    ELSE IF \E sn \in Serials : v = Format(sn)
      THEN CHOOSE sn \in Serials : v = Format(sn) ELSE TG_SN_MIN

-----------------------------------------------------------------------------
Ready == AtRest /\ sending = None

MayFail == mishaps < MaxMishaps /\ mishaps' = mishaps + 1

\* The answer of ini_puts is ignored.
Keep(n, v) ==
    /\ calls < MaxCalls /\ calls' = calls + 1
    /\ known' = [known EXCEPT ![n] = v]
    /\ \/ ini_puts(n, v) /\ UNCHANGED mishaps
       \/ MayFail /\ ini_puts_fails(n, v)

\* A serial is in use for this friend from now on.
Use(c, sn) ==
    /\ reused' = IF sn \in used[c] THEN reused \cup {c} ELSE reused
    /\ used' = [used EXCEPT ![c] = @ \cup {sn}]

\* Whether a serial is kept for the friend that has not been read.
Overlooked(c) ==
    known[outgoing_sn(c)] = Unread /\ ini_gets(file, outgoing_sn(c)) # Unset

\* A line is typed: its serial is the next one, and is kept before it is used.
\* Bound: the serials do not wrap.
Typed_SavedLater(c) ==
    /\ Ready
    /\ LET sn == ReadSerial(known[outgoing_sn(c)]) IN
       /\ sn < TG_SN_MAX
       /\ Keep(outgoing_sn(c), Format(tg_sn_next(sn)))
       /\ Use(c, tg_sn_next(sn))
    /\ blind' = IF Overlooked(c) THEN blind \cup {c} ELSE blind
    /\ UNCHANGED sending

Typed(c) ==
    /\ Ready
    /\ LET sn == ReadSerial(known[outgoing_sn(c)]) IN
       /\ sn < TG_SN_MAX
       /\ Keep(outgoing_sn(c), Format(tg_sn_next(sn)))
    /\ sending' = c
    /\ blind' = IF Overlooked(c) THEN blind \cup {c} ELSE blind
    /\ UNCHANGED <<used, reused>>

\* The telegram is queued.
Queued ==
    /\ AtRest /\ sending # None
    /\ Use(sending, ReadSerial(known[outgoing_sn(sending)]))
    /\ sending' = None
    /\ UNCHANGED <<iniVars, known, calls, blind, mishaps>>

relay_remember_serial(c, sn) ==
    /\ Ready
    /\ Keep(incoming_sn(c), Format(sn))
    /\ UNCHANGED <<sending, historyVars>>

Hello(c) ==
    /\ Ready
    /\ Keep(meta_chat_flag(c), <<"1">>)
    /\ UNCHANGED <<sending, historyVars>>

set_relayer_public_key(token) ==
    /\ Ready
    /\ Keep(relay_public_key, token)
    /\ UNCHANGED <<sending, historyVars>>

Working ==
    /\ CopyStep
    /\ UNCHANGED <<known, calls, sending, historyVars, mishaps>>

Failing ==
    /\ MayFail
    /\ FailingStep
    /\ UNCHANGED <<known, calls, sending, historyVars>>

\* What is read when there are numfriends friends: what belongs to the numbers
\* below, and nothing if these are too many.
ReadFor(numfriends) ==
    IF numfriends > MAX_Friend_NUM THEN {}
    ELSE {relay_public_key}
           \cup {outgoing_sn(c) : c \in {d \in Friends : d < numfriends}}
           \cup (UNION {{incoming_sn(c), meta_chat_flag(c)} :
                          c \in {d \in Writers : d < numfriends}})

\* Settings that are not read stay what they were; if the file does not open,
\* the others get their defaults.
get_relay_name_list(numfriends, before, opens) ==
    known' = [n \in SettingNames |->
                IF n \notin ReadFor(numfriends) THEN before[n]
                ELSE IF opens THEN ini_gets(file, n) ELSE Unset]

\* A new friend: settings are read again, and what a failed call did not keep
\* is forgotten.
cb_friend_request(numfriends) ==
    /\ Ready
    /\ \/ get_relay_name_list(numfriends, known, TRUE) /\ UNCHANGED mishaps
       \/ get_relay_name_list(numfriends, known, FALSE) /\ MayFail
    /\ UNCHANGED <<iniVars, calls, sending, historyVars>>

NothingRead == [n \in SettingNames |-> Unread]

\* The relay dies, which loses the file if it is being replaced, and is started.
Restarted(numfriends) ==
    /\ Stopped
    /\ \/ /\ get_relay_name_list(numfriends, NothingRead, TRUE)
          /\ mishaps' = IF phase = "removed" THEN mishaps + 1 ELSE mishaps
       \/ /\ phase # "removed"
          /\ get_relay_name_list(numfriends, NothingRead, FALSE) /\ MayFail
    /\ sending' = None
    /\ UNCHANGED <<calls, historyVars>>

ConfigInit ==
    /\ IniInit
    /\ known \in {[n \in SettingNames |-> IF n \in ReadFor(m) THEN Unset ELSE Unread] :
                    m \in 0 .. MAX_Friend_NUM + 1}
    /\ calls = 0 /\ sending = None
    /\ used = [c \in Friends |-> {}] /\ reused = {} /\ blind = {}
    /\ mishaps = 0

ConfigNext ==
    \/ \E c \in Friends : Typed(c)
    \/ \E c \in Writers : Hello(c)
    \/ \E c \in Writers, sn \in Serials : relay_remember_serial(c, sn)
    \/ \E token \in BoundedSeq(KeySymbols, KeyLength) : set_relayer_public_key(token)
    \/ Queued
    \/ \E m \in 0 .. MAX_Friend_NUM + 1 : cb_friend_request(m)
    \/ Working
    \/ Failing
    \/ \E m \in 0 .. MAX_Friend_NUM + 1 : Restarted(m)

ConfigSpec == ConfigInit /\ [][ConfigNext]_configVars

-----------------------------------------------------------------------------
(* Properties *)

\* While the file is being replaced its successor counts.
Settled == IF phase = "removed" THEN temp ELSE file

Promise == INSTANCE Settings WITH
    Names   <- SettingNames,
    store   <- [n \in SettingNames |-> LineOf(Settled, n)],
    trouble <- mishaps

\* The copy through the cache, the short cuts and a kill at any step amount to
\* a store in which a write changes its own setting, at one moment, and nothing
\* else.  Settings are lost by mishaps alone: a kill between the delete and the
\* rename of close_rename, a file that does not open for reading when it is to
\* be written, a copy that is not written or not renamed; and then all of them.
ImplementsSettings == Promise!SettingsSpec

\* What the next start reads is what the relay goes by, if it has read it at all,
\* whatever was entered after /relay (quotes, comment signs, backslashes) and
\* wherever earlier ones were killed; unless a call failed or the file was lost.
NothingForgotten ==
    Ready /\ mishaps = 0 =>
        \A n \in SettingNames : known[n] # Unread => ini_gets(file, n) = known[n]

\* A serial is on disk before its telegram is queued: within one lap no two
\* telegrams to a friend's number carry the same serial, over any number of
\* kills and refreshes, unless a call failed, the file was lost, or a line was
\* typed to a friend whose serial was kept but not read: /add reads none.
SerialsNotReused == mishaps = 0 => reused \subseteq blind

=============================================================================
