------------------------------ MODULE Console ------------------------------
(***************************************************************************)
(* The operator's console (the last part of the loop of main, and          *)
(* evaluate_input, in src/toxrelayer.c) while messages come in: keys are   *)
(* collected in cm_buffer, a line that starts with a slash is a command,   *)
(* and any other line goes to the channel that is selected when return is  *)
(* pressed, as a telegram to a metaCom peer and as plain text to another.  *)
(* A message that arrives selects its sender.  A friend that is added here *)
(* has no entry in the directory before the next friend request is served. *)
(*                                                                         *)
(* Data.  A key is a symbol of Telegram; a command word is one symbol.     *)
(* Every text that is sent is also archived under the same serial, so      *)
(* `last` stands for the queued record and for the archived row.           *)
(***************************************************************************)
EXTENDS Telegram, CommandLine

CONSTANTS
    MAX_Friend_NUM,     \* entries of the directory
    MaxFriends,         \* bound: friends toxcore has room for
    AddressLength,      \* TOX_ADDRESS_SIZE * 2 in the code
    Keyboard,           \* what the operator types, besides return and backspace
    KeyMax,             \* 255 in the code: keys of a line
    TempSize,           \* 16 in the code: char temp[16] in evaluate_input
    ArgumentLength      \* bound: symbols after the name of a friend's command

ASSUME ConsoleAssumption ==
    /\ MAX_Friend_NUM \in Nat \ {0} /\ MaxFriends \in Nat /\ MAX_Friend_NUM <= MaxFriends
    /\ AddressLength \in Nat
    /\ KeyMax \in Nat \ {0} /\ TempSize \in Nat \ {0} /\ ArgumentLength \in Nat

Channels      == 0 .. MAX_Friend_NUM - 1
FriendNumbers == 0 .. MaxFriends - 1

\* A line that is typed fits into a body and its telegram into the buffer of
\* the caller: 255 keys, 1024 and 1372 bytes in the code.  A key that is typed
\* into the line does not end it.
ASSUME LineAssumption ==
    /\ Keyboard \cap {LF, CR} = {}
    /\ \A c \in Channels : Numeral(c) \notin {LF, CR}
    /\ KeyMax + 2 < TG_BODY_MAX
    /\ KeyMax + TerminatorLength + 14 <= WireMax

VARIABLES
    friends,            \* numbers that toxcore has given to friends
    listed,             \* channels whose directory entry has a key
    meta_chat_flag,     \* channels that count as metaCom peers
    typed,              \* cm_buffer[0 .. line_index - 1]
    pre_friendnumber,   \* the selected channel
    due,                \* history: the friend who wrote last since the line was
                        \* begun, or else the channel selected then; {} without line
    added,              \* history: channels without a key that /add has given out
    crowded,            \* history: a refresh found more friends than entries
    last                \* history: what the last line or message did

directoryVars == <<listed, meta_chat_flag, added, crowded>>
consoleVars == <<friends, directoryVars, typed, pre_friendnumber, due, last>>

Nothing == [did |-> "nothing"]

\* Whose key an entry has is the subject of RelayNode.
public_key_str(c) == IF c \in listed THEN <<"key", Numeral(c)>> ELSE <<>>
self_public_key_str == <<"key", "self">>

-----------------------------------------------------------------------------
(* Commands *)

\* evaluate_input looks for these words in this order, anywhere in the line.
Commands == <<"help", "id", "#", "info", "relay", "set", "cur", "add">>

Found(line, word) ==
    \E i \in 1 .. Len(line) - 1 : line[i] = "/" /\ line[i + 1] = word

Command(line) ==
    LET i == SelectInSeq(Commands, LAMBDA word : Found(line, word))
    IN  IF i = 0 THEN "none" ELSE Commands[i]

\* The next word from position p on, and the position behind it.
get_token(line, p) ==
    LET ends(q) == line[q] \in {SP, CR, LF}
        begin == Min({q \in p .. Len(line) : line[q] # SP})
        end   == Min({q \in begin .. Len(line) : ends(q)})
    IN  [token |-> SubSeq(line, begin, end - 1),
         next  |-> IF line[end] = SP THEN end + 1 ELSE end]

SecondToken(line, p) == get_token(line, get_token(line, p).next).token

\* A decimal number that makes up the whole text, or -1.
Digits == {"0", "1"}
parse_int_range(text, max) ==
    LET value == FoldLeft(LAMBDA v, d : 10 * v + ValueOf(d), 0, text)
    IN  IF text # <<>> /\ ToSet(text) \subseteq Digits /\ value <= max THEN value ELSE -1

\* What follows the first two symbols, as far as it fits into temp.
ChannelText(line) == SubSeq(line, 3, Min({Len(line), TempSize + 1}))

Answer(line, did, arg) == [did |-> did, line |-> line, arg |-> arg]

evaluate_channel(line) ==
    LET index == parse_int_range(ChannelText(line), Max(Channels)) IN
    IF index < 0
      THEN /\ last' = Answer(line, "invalid", <<>>)
           /\ UNCHANGED pre_friendnumber
      ELSE /\ last' = Answer(line, "switched", <<>>)
           /\ pre_friendnumber' = index

Free == FriendNumbers \ friends

\* /add: toxcore takes the friend under the lowest free number, or refuses.  The
\* directory is not refreshed.
evaluate_add(token) ==
    \/ UNCHANGED <<friends, added>>
    \/ /\ Len(token) = AddressLength /\ Free # {}
       /\ friends' = friends \cup {Min(Free)}
       /\ added' = added \cup (({Min(Free)} \cap Channels) \ listed)

\* The display commands change nothing; /set hands a name to toxcore and /relay
\* a key to the INI file.
evaluate_input(line) ==
    LET command == Command(line)
        given   == command \in {"relay", "set"} \/ (command = "add" /\ Len(line) > 3)
        shown   == command \in {"help", "id", "info", "cur"}
        begin   == IF command = "add" THEN 2 ELSE 1
    IN  /\ IF command = "#"
           THEN evaluate_channel(line)
           ELSE /\ last' = Answer(line, IF given \/ shown THEN command ELSE "invalid",
                                  IF given THEN SecondToken(line, begin) ELSE <<>>)
                /\ UNCHANGED pre_friendnumber
        /\ IF given /\ command = "add" THEN evaluate_add(SecondToken(line, begin))
           ELSE UNCHANGED <<friends, added>>

-----------------------------------------------------------------------------
(* Keys *)

\* The channel's next serial (see ReplayLink) is used up and the text archived
\* whether or not the encoder accepts it; the queue's answer is ignored.
SendLine(line, sn) ==
    LET c    == pre_friendnumber
        wire == tg_encode_text(WireMax, public_key_str(c), self_public_key_str, sn, 1, line)
    IN  /\ last' = [did  |-> IF c \notin meta_chat_flag THEN "plain"
                            ELSE IF wire.result = "TG_OK" THEN "telegram" ELSE "refused",
                   line |-> line, to |-> c, sn |-> sn, wire |-> wire.out,
                   astray |-> typed # <<>> /\ c \notin due]
        /\ UNCHANGED <<friends, added, pre_friendnumber>>

Return(key) ==
    LET line == Append(typed, key) IN
    /\ IF line[1] = "/" THEN evaluate_input(line) ELSE \E sn \in Serials : SendLine(line, sn)
    /\ typed' = <<>>
    /\ due' = {}
    /\ UNCHANGED <<listed, meta_chat_flag, crowded>>

Backspace ==
    /\ typed # <<>>
    /\ typed' = Front(typed)
    /\ due' = IF Len(typed) = 1 THEN {} ELSE due
    /\ UNCHANGED <<friends, directoryVars, pre_friendnumber, last>>

\* A key beyond the limit is ignored.
Key(key) ==
    /\ Len(typed) < KeyMax
    /\ typed' = Append(typed, key)
    /\ due' = IF typed = <<>> THEN {pre_friendnumber} ELSE due
    /\ last' = Nothing
    /\ UNCHANGED <<friends, directoryVars, pre_friendnumber>>

-----------------------------------------------------------------------------
(* Messages: cb_friend_message *)

cb_friend_message_Selects(c, blocked) ==
    /\ c \in friends
    /\ pre_friendnumber' = c
    /\ friends' = IF blocked THEN friends \ {c} ELSE friends
    /\ due' = IF typed = <<>> \/ blocked THEN due ELSE {c}

\* A sender whose key is in the blockedkeys file is deleted; any other is
\* selected.  The file is edited at any time.
cb_friend_message(c, blocked) ==
    /\ c \in friends
    /\ IF blocked
         THEN /\ friends' = friends \ {c}
              /\ UNCHANGED <<pre_friendnumber, due>>
         ELSE /\ pre_friendnumber' = c
              /\ due' = IF typed = <<>> THEN due ELSE {c}
              /\ UNCHANGED friends

\* A message whose contents do not matter here.
Interrupted(c, blocked) ==
    /\ cb_friend_message(c, blocked)
    /\ last' = Nothing
    /\ UNCHANGED <<typed, directoryVars>>

\* /HELLO METACOM
Hello(c) ==
    /\ cb_friend_message(c, FALSE)
    /\ meta_chat_flag' = meta_chat_flag \cup {c}
    /\ last' = Nothing
    /\ UNCHANGED <<typed, listed, added, crowded>>

\* With more friends than entries nothing is read.  Otherwise the entries below
\* the number of friends are, and those that had no key get the flag that an
\* earlier friend of the number may have left in the INI file.
get_relay_name_list(n, left) ==
    IF n > MAX_Friend_NUM
      THEN /\ crowded' = TRUE
           /\ UNCHANGED <<listed, meta_chat_flag, added>>
      ELSE /\ listed' = listed \cup (0 .. n - 1)
           /\ meta_chat_flag' = meta_chat_flag \cup ((left \cap 0 .. n - 1) \ listed)
           /\ added' = added \ (0 .. n - 1)
           /\ UNCHANGED crowded

\* The request is granted if toxcore can, and the directory refreshed anyway.
cb_friend_request(left) ==
    /\ \/ UNCHANGED friends
       \/ Free # {} /\ friends' = friends \cup {Min(Free)}
    /\ get_relay_name_list(Cardinality(friends'), left)
    /\ last' = Nothing
    /\ UNCHANGED <<typed, due, pre_friendnumber>>

CInit ==
    /\ \E n \in 0 .. MaxFriends :
          /\ friends = 0 .. n - 1
          /\ crowded = (n > MAX_Friend_NUM)
          /\ listed = IF n > MAX_Friend_NUM THEN {} ELSE friends
    /\ meta_chat_flag \in SUBSET listed
    /\ typed = <<>>
    /\ pre_friendnumber = 0
    /\ due = {} /\ added = {} /\ last = Nothing

\* What the codec and the command parser do does not depend on the console: it
\* is looked at when the first friend's message is the first thing to happen.
Examined(record) ==
    /\ cb_friend_message(0, FALSE)
    /\ last' = record
    /\ UNCHANGED <<typed, directoryVars>>

\* A telegram of another relay: one with this body, and one in which this text
\* follows the metadata line.
TelegramArrives(text) == Examined([did |-> "heard", text |-> text])

\* A request for the serials from .. to, from a relay that may be of another
\* make and ask for numbers that are not serials.
RequestArrives(from, to) == Examined([did |-> "request", from |-> from, to |-> to])

\* A command of a friend.  What the handlers do is the subject of GroupChats and
\* Profile.
CommandArrives(line) ==
    Examined([did |-> "command", line |-> line, executed |-> execute(line)])

CommandWords == {"/name", "/unknown"}
Arguments == BoundedSeq({"a", Blank, Quote}, ArgumentLength)

-----------------------------------------------------------------------------
CNext ==
    \/ \E key \in Keyboard : Key(key)
    \/ \E key \in {LF, CR} : Return(key)
    \/ Backspace
    \/ \E c \in Channels, blocked \in BOOLEAN : Interrupted(c, blocked)
    \/ \E c \in Channels : Hello(c)
    \/ \E left \in SUBSET (Channels \ listed) : cb_friend_request(left)
    \/ CInit /\ \E text \in Bodies : TelegramArrives(text)
    \/ CInit /\ \E name \in CommandWords, arguments \in Arguments :
                  CommandArrives(<<name>> \o arguments)
    \/ CInit /\ \E from, to \in Numbers : RequestArrives(from, to)

CSpec == CInit /\ [][CNext]_consoleVars

-----------------------------------------------------------------------------
(* Properties *)

\* What the encoder accepts, the decoder of another relay reads back symbol by
\* symbol, whatever lines and terminators the body is made of, or refuses for
\* want of room; provided that its lines fit the decoder's line buffer and end
\* in line feeds.  A request is sent for serials only and read as it was sent;
\* one of another build is read as one for the ints its numbers are cast to, or
\* refused if these are not serials.
\* Whatever another build puts on the wire after the metadata line, the
\* decoder's answer does not depend on how the lines end, nothing after the
\* closing line changes it, and an accepted body fits its buffer.
RoundTrip ==
    /\ last.did = "heard" => ReadsAnyLineEnd(last.text)
    /\ last.did = "heard" /\ Representable(last.text) => ReadsBack(last.text)
    /\ last.did = "request" => RequestReadsBack(last.from, last.to)

\* A telegram typed here is accepted by the decoder of the peer it was queued
\* for, with our key and the archived serial, and if the line was ended with a
\* line feed and fits the decoder's buffer, with the very text that was typed.
\* A serial that is used up without a telegram leaves a gap that no replay can
\* close as long as the archived row is refused as well.  That happens to a line
\* that ends in the terminator, and to every line for a friend without an entry
\* in the directory: one that /add has added since the last refresh, or any if
\* the refreshes found too many friends.
PeerReadsTyped ==
    /\ last.did = "telegram" =>
        LET message == tg_decode(last.wire)
        IN  /\ message.kind = "TG_TEXT"
            /\ message.receiver = public_key_str(last.to)
            /\ message.sender = self_public_key_str
            /\ message.sn = last.sn
            /\ Representable(last.line) => message.body = last.line
    /\ last.did = "refused" =>
          \/ IsSuffix(Append(TG_TERMINATOR, LF), last.line)
          \/ last.to \notin listed /\ (last.to \in added \/ crowded)

\* A message that comes in while the operator types redirects the line to its
\* sender.  Nothing else does: the line goes to the friend that wrote last in the
\* meantime, and a blocked one is no friend, or else to the channel it was begun
\* for.
RedirectedByFriendsOnly ==
    last.did \in {"telegram", "plain", "refused"} => ~last.astray

\* s without its blanks.
Solid(s) == FlattenSeq([i \in 1 .. Len(s) |-> IF s[i] = Blank THEN <<>> ELSE <<s[i]>>])

\* An argument is not empty and stands in the line in one piece; a quoted one is
\* unquoted to what is between its quotes, any other one has no blank.
ArgumentOK(line, arg) ==
    /\ arg # <<>> /\ \E p, q \in 1 .. Len(line) : SubSeq(line, p, q) = arg
    /\ IF arg[1] = Quote
         THEN /\ unquote_str(arg) = SubSeq(arg, 2, Len(arg) - 1)
              /\ Quote \notin ToSet(unquote_str(arg))
         ELSE Solid(arg) = arg

AsWritten(line, argv) ==
    /\ Len(argv) \in 1 .. MAX_NUM_ARGS
    /\ IsPrefix(Solid(FlattenSeq(argv)), Solid(line))
    /\ Len(argv) < MAX_NUM_ARGS => Solid(FlattenSeq(argv)) = Solid(line)
    /\ \A i \in 1 .. Len(argv) : ArgumentOK(line, argv[i])

\* commands.h: the handlers get the command and its arguments exactly as they
\* were written.  Nothing but blanks between arguments is lost, nothing is
\* reordered or split, no argument is empty, a quoted one is unquoted to what
\* stands between its quotes; only arguments beyond the fourth are dropped.
ArgumentsAsWritten ==
    last.did = "command" /\ last.executed.result = 0 =>
        /\ Len(last.executed.argv) = last.executed.argc + 1
        /\ AsWritten(last.line, last.executed.argv)

\* evaluate_input: "/#num - Chat with new name_num".
ChannelCommandWorks ==
    \A c \in Channels :
        last.did \in {"invalid", "switched"} /\ last.line = <<"/", "#", Numeral(c), LF>> =>
            last.did = "switched"

\* telegram.c: "the body keeps exactly the bytes the caller supplied, which makes
\* decode(encode(x)) == x for every accepted x".  Of a line of any length that
\* was ended with a line feed, the peer reads all.
TypedReadInFull ==
    last.did = "telegram" /\ Positions(last.line, {CR}) = {} =>
        tg_decode(last.wire).body = last.line

=============================================================================
