# ToxRelayer: a TLA+ verification project

ToxRelayer is a store-and-forward relay ("metaCom node") on top of toxcore.
Contacts send it messages over Tox; a message framed as a *telegram* is either
for this node (then it is sequenced and archived) or for another contact (then
it is queued and delivered when that contact can be reached).  Everything runs
on one thread: `main` in `src/toxrelayer.c` turns a loop that iterates toxcore
(whose callbacks do most of the work), drains the delivery queue, mirrors it to
disk and saves the profile.  Concurrency comes from the network, from the
peers, from the operator at the console, and from stopping at the wrong moment.

Paths below are relative to the repository root.

## 1. Inventory

| Component | Source | State | Operations |
|---|---|---|---|
| Delivery queue | `src/msg_queue.c` | ring of slots, head, tail, count, in-flight count, statistics, hooks | `mq_enqueue`, `mq_confirm`, `mq_service`, `mq_foreach`, `mq_stats_get` |
| Queue persistence | `src/mq_persist.c` | `mq_queue.dat`, its `.tmp` | `mq_persist_save`, `mq_persist_load` |
| Telegram codec | `src/telegram.c` (first part) | none | `tg_encode_text`, `tg_encode_cmd`, `tg_decode` |
| Receive tracker | `src/telegram.c` (second part) | expected serial, synced flag, outstanding set, per channel | `sn_tracker_init`, `_resume`, `_accept`; serial helpers |
| Relay policy | `src/relay.c` | none of its own, works on an environment of callbacks | `relay_receive` (deliver, forward, request gap), `relay_serve_replay`, `relay_recover_trackers` |
| Message archive | `src/msg_database.c` | an SQLite table | add, last serial, range, top, open, close |
| Transport and event loop | `src/toxrelayer.c` | peer directory, metaCom flags, send/receive serials, line being typed, console channel, profile and its file, dirty flag and timers | toxcore callbacks, `tox_transport`, console keys and commands, `save_data`, `store_data`, `load_tox`, start-up, exit |
| Group chats | `src/groupchats.c` | table of groups, lists of room members | `group_add`, `group_leave`, `group_index`; member lists for the log |
| Commands | `src/commands.c` | acts on Tox, group chats, master keys | 15 handlers and the splitting of a line |
| Utilities | `src/misc.c`, `src/log.c` | log file | time, strings, key files |
| INI library | `src/minIni.c` | `metaCom.config` and its successor while it is rewritten | `ini_gets`, `ini_puts` (the rest is not called) |

Interactions:

* toxcore callbacks -> `cb_friend_message` -> `relay_receive` -> `mq_enqueue`
  (forwarding, gap requests) or tracker and archive (own telegrams).
* main loop -> `mq_service` -> `tox_transport` -> toxcore; the read receipt
  comes back as a callback -> `mq_confirm`.
* every change of the queue's contents -> change hook -> dirty flag -> (after an
  interval) `mq_persist_save`; start-up -> `mq_persist_load` -> `mq_enqueue`.
* own telegrams leave a serial number in the INI file and a row in the archive;
  the archive is what the trackers are restored from and what replays are
  served from.
* the profile (identity, friends, name, status) is rewritten in place by
  `save_data` after most changes and every hour, and replaced by way of a
  temporary file by `store_data` when a friend changes its name; a start reads
  it or, if there is none, makes a new identity.
* console keys -> `cm_buffer` -> `evaluate_input`, or the encoder and the queue;
  friends' lines with a slash -> `execute` -> the handlers of `commands.c`.
* friend numbers, handed out by toxcore, index the peer directory, the INI
  sections, the trackers, the archive rows and the queue.

What is hard here, and what correctness means for each part:

* **Ring with holes.**  Confirmations release slots in any order, so head, tail
  and the hand-adjusted counters must survive holes, wrap-around and a full
  ring.  No message may be lost, counted twice, starved, or given up before its
  budget is spent.
* **Acknowledgements.**  A receipt may be late, may answer an earlier attempt or
  a message that never went through the queue.  It must never settle a telegram
  that has not arrived.
* **Crashes and failing saves.**  At every step of a save the file that the next
  start reads is whole; a message of a completed save is not lost; the dirty
  flag is not lowered over a file that is out of date.
* **Serial arithmetic.**  Wrap-around, duplicates, overlapping gaps, a bounded
  outstanding set, restarts: a telegram is accepted at most once, rejected only
  if seen, and gaps close.
* **Two tables of groups.**  The relay's group table and toxcore's conferences
  must agree while slots and numbers are reused independently, creations fail
  halfway and the purge shortens what it walks over; and an outage makes every
  group look empty.
* **Text that is its own framing.**  A telegram ends where a line ends in `NNNN`,
  whoever wrote the line and however it ends; a command line is split at blanks
  and quotes.  What arrives must be what was written, at the channel it was
  written for.
* **Files rewritten in place.**  The profile is the relay's address: a kill or a
  failed write at any moment must not replace it by another.  The INI file holds
  the serial of the last telegram: it is copied through a cache, deleted and
  renamed, and a kill during a write must not make the relay use a serial twice.
* **Indices that move.**  Friend numbers are reused after a deletion, compacted by
  a restart and forgotten by a kill before the profile is saved, while everything
  else is keyed by them; and there may be more friends than table entries.

`PROJECT.json` lists the hazards line by line with the properties that cover
them.

## 2. Modules and their correspondence to the code

```
DeliveryQueue  <---implements---  MsgQueueLedger  <--extends--  QueueTransport
                                       | extends
                                   MsgQueue  <--extends--  DurableQueue
SerialNumbers  <--extends--  SnTracker  <--extends--  ReplayLink
      ^                     Telegram, CommandLine  <--extends--  Console
      |  (also Telegram)
      +--extends--  Config  --extends-->  IniFile
                      | implements
                    Settings
RelayNode  <--extends--  MCRelayNode
GroupChats          Profile
```

The proofs about a module `M` are in `MProofs`, which extends it, for `MsgQueue`,
`DurableQueue`, `Profile`, `Console`, `GroupChats` and `Config`.  `DeliveryProofs`
is about `MsgQueueLedger` and `QueueTransport`, `RelayProofs` about `ReplayLink`
and `RelayNode`.

**`MsgQueue`** is `src/msg_queue.c`.  Its five variables carry the names of the
static variables of the file.  `mq_enqueue`, `mq_enqueue_full`, `mq_confirm`
and `mq_confirm_notfound` are the functions with their return codes;
`mq_service` is the disjunction of the ways the scan can end (expiry of the last
attempt, accepted, deferred, budget exhausted, refused).  The loops that walk
the ring are the operator `First`: the first member of a set met by a walk from
an index.  `now - last_attempt` is kept as a saturated `age`, because only its
comparison with two timeouts matters; `ClockTick` ages every entry.  The
transport is arbitrary.

**`MsgQueueLedger`** adds the totals of `mq_stats` and history variables, and
numbers the messages by their acceptance.  **`DeliveryQueue`** is the contract a
reader of `msg_queue.h` would write down: accepted messages are held until they
are confirmed or given up, with at most `MQ_MAX_ATTEMPTS` transport calls each,
and each is settled in the end.  `ImplementsContract` maps the abstract set of
held messages to the payloads of the occupied slots.

**`QueueTransport`** puts the queue on toxcore (external): `tox_transport`, read
receipts, connections that come and go, and the messages the program sends past
the queue on the same receipt counters (`DirectSend`: hello signals, answers to
commands).  `AckIgnored` is `mq_confirm` returning `MQ_ERR_NOTFOUND`.

**`DurableQueue`** adds `mq_persist_save` step by step (open, write, sync,
rename, sync the directory; each but the last may fail), the dirty flag with its
interval, the final flush of `exit_toxrelayer`, kills, power failures and
`mq_persist_load`.  A file is its records, or torn; what is not forced to the
device may be torn, and a rename not forced out may be undone, by a loss of
power.  Both ways of stopping lose what is in memory.  `StartUnread` is a start
at which an intact file cannot be read: `main` logs it and goes on with an empty
queue.

**`SerialNumbers`** are the serial helpers of `src/telegram.c`, with C's
remainder.  **`SnTracker`** is its last part: one action per verdict of
`sn_tracker_accept`.  The outstanding
array is a bag, since its order is never used.

**`ReplayLink`** is one direction of a channel between two relays: a line typed
at the sender (`Send`), `relay_deliver` at the receiver (one action per
verdict), gap requests, `relay_serve_replay` out of the sender's archive, rows
of `msg_database.c` with their primary key, and restarts.  The link loses,
duplicates, delays and reorders.  A line that the encoder refuses (`refused`) uses
up its serial and is archived; a replay skips its row, because it cannot be encoded
then either.  The insert of either side may fail, rows of one channel replace each
other when they are written in the same second, and a row of another channel, which
shares the table, may replace one of this (`Fault`, `OverwriteOutgoing`,
`OverwriteIncoming`).  `setBack` notes that a restart did not find the highest
telegram in the archive.  `relay_serve_replay` and `relay_deliver` are checked here
under the contract of `relay.h`: a telegram for this node is recognised as such
(see `node_own` in section 5 for what the program does).

**`RelayNode`** is the peer directory: `get_relay_name_list`, `lookup_ch_num`,
friend requests, `/add`, `/#`, console lines, purge and block, hello signals and
the flags in the INI file, `relay_receive`/`relay_forward` for text telegrams,
delivery out of the queue, restarts.  Numbering by toxcore is external: the
lowest unused number on adding, a gap on deleting, no gaps after a restart.
toxcore may have more friends than the table has entries; then the table is not
read at all.  `saved` is the list of friends in the profile: a friend request, the
purge and some commands write it, or fail to; `/add` and the deletion of a blocked
friend do not, and a restart takes it (a kill) or the list in memory (an exit).
The numbers whose friend has changed (`vacated`: deleted, renumbered, or never
saved) are history.  A key buffer that `tox_friend_get_public_key` does not fill
keeps the previous friend's key, or an arbitrary one on the first pass.
`MCRelayNode` adds the symmetry set.

**`GroupChats`** is the group table with the code that keeps it in step with
toxcore: the table functions of `groupchats.c` are operators on a sequence of
slots whose length is `chats_idx`; `/group`, `/leave`, `/passwd`, `/title`, an
accepted invitation, a title set by a member, the purge and the start are
actions; `/invite`, `/gmessage` and `/info` change nothing and are operators that
give their answer.  Conferences, their members and our connection are external.
The timeouts of `check_group_purge` are two flags.  A member is in a conference,
out of it, or lost with our own connection; that last status, the passwords asked
for and the conferences whose creation failed are history.

**`Telegram`** is the codec.  A text is a sequence of symbols, in which line feed,
carriage return, the letter of the terminator and the blank keep their meaning
and a number, a header word and the prefix `R:` are one symbol.  `Built` is the
bounded string builder, `tg_next_line` the line cursor with its truncation,
`tg_decode` the decoder with all its refusals.  `strtol` stops at the greatest
`long` (`Saturated`), and a serial is range-checked only after it has been cast to
`int` (`ToInt`).  The capacities and the greatest `int` and `long` are constants, so
that small ones can be reached and exceeded.

**`CommandLine`** is `commands_parse` and `execute` with `char_find` and
`unquote_str`; a command word is one symbol.  `NextArgument` is one turn of the
parser's loop, `Start` what it begins with.

**`Console`** is what `main` does with a key while `cb_friend_message` comes in
between: `Key`, `Return`, `Backspace`, the commands of `evaluate_input` with
`get_token` and `parse_int_range`, `SendLine` through the encoder, and messages
of friends, which select their sender and are decoded or executed.  `/add` gives
out a number without an entry in the directory (`public_key_str` is empty), hello
signals set the metaCom flag, and friend requests refresh the directory unless there
are more friends than entries.  What the codec and the command parser do does not
depend on any of this, and is examined on the first message of a run (`Examined`).
The channel to which a line is due, that of the friend who wrote last or the one it
was begun for, is history.

**`Profile`** is the identity on disk: `save_data` (open, which truncates, then
write), `store_data` (temporary file, write, rename), `load_tox`,
`legacy_data_file_rename`, and every handler that changes the profile, some of
which save and some of which do not.  Every file operation may fail and the
process may be killed between any two.

**`IniFile`** is `ini_gets` and `ini_puts`: the short cut in place, the creation
of a file, and the copy line by line through the cache, with `cache_flush`
seeking back and reading again, up to `close_rename`; `Enquoted`, `cleanstring`
and `Dequoted` are the quoting of values.  Every call to the system may fail: a file
that does not open for reading is taken for a missing one and truncated
(`PutsCreate`), and of closing, deleting and renaming no answer is looked at
(`CloseFails`, `RemoveFails`, `RenameFails`).  **`Config`** is the relay's use of
it: serials, flags and the relay's key, kept before or after they are used, with
kills at every step.  Only what belongs to the friend numbers below the number of
friends is read, at a start and at a friend request, and nothing if there are too
many; the rest is `Unread`, and `/add` reads nothing, so that a serial may be kept
for a friend and not known (`blind`).  **`Settings`** is what the callers rely on: a
write changes its own setting at one moment and nothing else, and a mishap (a failed
call, or a kill between delete and rename) costs nothing or everything.
`ImplementsSettings` maps the store to the lines found in the file, or in its
successor between the delete and the rename.

Operators with an underscore suffix next to a definition (names such as `Matches_AnyFriend`, `SaveSync_Skipped`) are plausible bugs, used to
confirm that each property notices one.  No specification refers to them.

## 3. Runs that pass

| Run | What it shows |
|---|---|
| `queue` | Three slots, two friends, unlimited arrivals, any transport: the C assertions (`mq_check_invariants`), `HeadIsOccupied`, `EntriesConsistent` in every order of enqueue, confirmation, timeout and retry; `AckWindowRespected`: an entry whose acknowledgement is not overdue is touched only by its own confirmation; `NoStarvation`: every message leaves its slot. |
| `ledger` | `Conservation`: every accepted message is held, confirmed or dropped, once, and the totals of `mq_stats` agree; `AttemptsMatchCalls` (two places charge the attempt counter), `SettledForCause`; `ImplementsContract`: refinement of `DeliveryQueue`, liveness included. |
| `transport` | `ReceiptsUnambiguous`, `ConfirmedWasReceived` under late, foreign and lost acknowledgements; friend number 2 is outside the tables and meets `MQ_SEND_FATAL`. |
| `durable` | `NeverTorn`, `CleanMeansMirrored`, `SavedSurvives` with any failure at any step; `DirtyIsSaved`: a change reaches the disk unless the relay stops or saves fail for ever. |
| `link_wrap` | `OutstandingExact`, `AcceptedAtMostOnce`, `RejectedWasSeen` across the wrap of the serials, with the outstanding set at its limit, requests and replays that get lost, and a line that the encoder refuses. |
| `link_restart` | Gaps of two telegrams, a restart of the receiver at any time, a refused line, rows that replace each other, and a row that is not written or is overwritten, before the serials wrap.  `ExpectedFollowsHighest`, unless the restart did not find the highest telegram; `StoredNotAcceptedAgain`: even then no telegram whose row is in the archive is accepted again; `GapsClose`: a telegram that is waited for and that the sender can replay comes in or is given up. |
| `node` | With purges, blocks, reuse, renumbering, more friends than entries and kills before the profile is saved, a listed key leads to an entry that holds it, and as long as no number up to it has lost its friend to the friend itself (`DirectoryResolves`); as long as a number keeps its friend, its flag says whether that friend said hello (`HelloRemembered`) and its records are for that friend (`KnownGetTheirs`). |
| `groups` | Table and toxcore agree on the groups and the table is trimmed and within its limit (`TableMatchesToxcore`), titles and passwords stay with their group (`CommandsReachGroup`); a purge removes exactly the empty groups (`PurgeIsExact`), none because of our own outage or restart (`OutageSparesGroups`), and all of them in the end (`EmptyGroupsGo`). |
| `console` | `RoundTrip`: decoder and encoder agree on every body of up to six symbols; a request of ours is read as it was sent, and one of another build as one for the `int`s its numbers are cast to; the answer to any text of another build does not depend on its line ends; `PeerReadsTyped`: a typed line arrives with its serial and its text, and a serial is used up for nothing only by a line that ends in the terminator or one for a friend without a directory entry, which `/add` or too many friends may leave so; `RedirectedByFriendsOnly`; `ArgumentsAsWritten` for every command line of up to six symbols after its name. |
| `profile` | `IdentityKept`: once saved, the address is never replaced, provided that a profile that exists can be opened (section 5); `ProfileOnDisk`: file and memory differ only in what the code leaves unsaved, and the file is torn only by `save_data`; `ProfileHeals`: a running relay repairs a torn file. |
| `config` | `ImplementsSettings`: the INI library refines `Settings`, failing calls included; `NothingForgotten`: what was entered is read back, quotes, comment signs and backslashes included, and `SerialsNotReused`: no serial goes out twice to a friend whose serial was read; both over any number of kills and refreshes, as long as no call fails and no kill comes between delete and rename. |

**Bounds.**  Three slots give a ring with a hole between two messages, a wrap
and a full ring; two slots suffice where the ring itself is not the subject.
Four numbered messages through three slots reuse a slot.  Three attempts
separate first, middle and last.  An acknowledgement timeout of 2 and a backoff
of 1 separate "neither", "backoff only" and "both" elapsed.  `MaxReceipt = 2`
gives each friend one telegram and one message past the queue, or a retry.
One receipt number in `queue` and `ledger` means that friends have the same one
in flight, the worst case for `mq_confirm`; `transport` tells receipts apart.
Eleven serials with at most five telegrams keep everything in flight within half
the serial range, which the code's notion of "behind" presupposes; in `link_wrap`
the first serial is placed so that the five cross the wrap.  Section 5 says what
happens without that restriction.  `MaxRefused`, `MaxFaults` and `MaxRestarts` are
one in `link_restart`: one lost row, one row that cannot be replayed and one restart
meet in every order, and two telegrams of one second cost a row without any fault;
`RELAY_MAX_REPLAY` covers the widest gap that is asked for.  In `node` three keys and
three friends for two entries give a crowded directory, an unused entry, a gap and a
number that passes from one peer to another, by a deletion, a restart or an unsaved
`/add`.  `MaxRejections` bounds a counter that nothing reads.  `MaxHeld` bounds the delivery queue of `RelayNode`.
Three conferences and two slots give a hole, a full table with a hole, a
conference without a slot and an autoload that does not fit; two titles tell a
stale one from the present one; one member is enough for a group to be empty or
not.  In `console` a terminator of two letters, a line buffer of four symbols, a
body of seven and three arguments are all reached and exceeded by lines of four
keys and bodies and commands of six.  With 3 for the greatest `int` and 15 for the
greatest `long` the numbers on the wire include ones that are cast to each serial, to
a negative `int`, and ones that `strtol` cuts to the greatest `long`.  One friend is enough in `profile`, because
a save writes all friends at once; two identities tell the saved one from a new
one.  In `config` three writes create the file, add a section, and change an
entry; a cache of 17 symbols overflows while they do, serials change in place, and
keys of any length force a copy.  The friend that is written to has the number 1,
which a start with no or one friend does not read, and one call may fail at any
step.

The `Link` runs end when
all telegrams are sent and gone, and `profile` when a start refuses a torn file,
so these do not check for deadlock.

**Fairness.**  `MQFairSpec` and `LFairSpec` assume that the main loop goes on
calling `mq_service` and that seconds pass; both are what the loop in `main`
does on every turn.  Nothing is assumed of arrivals, of receipts or of the
transport's answers.  `DFairSpec` assumes that the loop turns and that a system
call of a save in progress returns, with success or not; nobody is assumed to
restart the relay.  `RFairSpec` assumes that a copy or a request that was not
lost is delivered; `link_restart` sets `LossyReplay` to `FALSE`, so originals may
be lost and requests and replays may not.  The code repeats neither, so no
weaker assumption will do.  `GFairSpec` assumes that the loop turns, that time
passes and that after an outage each member comes back or is known to have gone;
`EmptyGroupsGo` presupposes a connection that is stable from some time on, because
`check_group_purge` does.  `PSpec` assumes that a file operation under way
returns, that the hourly save comes round while the relay is connected, and that
a save which is tried again and again succeeds in the end; a kill may come at any
time.

## 4. Proofs

TLC checks small instances; the theorems below hold for every value of the
constants that the named assumptions allow.  Each safety theorem follows the same
argument: an inductive invariant that implies the property, a lemma for the
initial states, one lemma per action or kind of action, and a temporal step.
Each inductive invariant was first checked with TLC on the instances of the
corresponding runs.

| Module | Theorem | States |
|---|---|---|
| `MsgQueueProofs` | `TypeCorrect`, `AssertionsHold`, `HeadCorrect`, `EntriesCorrect` | `MQSpec => []` of `TypeOK`, `mq_check_invariants`, `HeadIsOccupied`, `EntriesConsistent` |
| | `WindowRespected` | `MQSpec => AckWindowRespected` (an action property) |
| `DeliveryProofs` | `NothingLost`, `AttemptsCounted`, `GivenUpForCause` | `LSpec => []` of `Conservation`, `AttemptsMatchCalls`, `SettledForCause` |
| | `RingImplementsContract` | `LSpec => Contract!DQSpec`: the ring refines the safety part of `DeliveryQueue` |
| | `ToxcoreIsATransport` | `TSpec => LSpec`: all of the above holds of the queue on toxcore |
| | `ReceiptsIdentify`, `NoFalseConfirmation` | `TSpec => []` of `ReceiptsUnambiguous`, `ConfirmedWasReceived` |
| `DurableQueueProofs` | `FileNeverTorn`, `CleanFlagTrusted`, `SavedNotLost` | `DSpec => []` of `NeverTorn`, `CleanMeansMirrored`, `SavedSurvives` |
| `RelayProofs` | `OutstandingCorrect`, `NoTelegramTwice`, `NoFalseDuplicate` | under `RestartsUnwrapped`, `RSpec /\ []Fresh => [](~setBack => P)` for `OutstandingExact`, `AcceptedAtMostOnce`, `RejectedWasSeen` |
| | `TrackerFollows` | under `RestartsUnwrapped`, `RSpec /\ []Fresh => []ExpectedFollowsHighest` |
| | `FreshAtFirst` | under `RestartsUnwrapped`, if `2 * MaxSent < TG_SN_MAX`, `RSpec => [](~setBack => Fresh /\ RInv)`: `Fresh` need not be assumed |
| | `StoredAreSafe` | under the same two, `RSpec => StoredNotAcceptedAgain` (an action property), whatever the archives lose |
| | `DirectoryCorrect`, `HelloKept`, `AddresseeReached` | `NSpec => []` of `DirectoryResolves`, `HelloRemembered`, `KnownGetTheirs` |
| `ProfileProofs` | `IdentitySafe`, `ProfileSafe` | under `ReadMayFail = FALSE`, `PSpec => []` of `IdentityKept`, `ProfileOnDisk` |
| `ConsoleProofs` | `TextReadBack`, `RequestReadBack`, `AnyLineEnd` | the codec by itself: what the encoders accept the decoder reads back, over any alphabet; its answer does not depend on how lines end |
| | `ArgumentsKept` | the command line by itself: what `execute` hands on of any line over any alphabet is what was written |
| | `CodecRoundTrip`, `PeerReadsEveryLine`, `LineNotAstray`, `CommandsSplit` | `CSpec => []` of `RoundTrip`, `PeerReadsTyped`, `RedirectedByFriendsOnly`, `ArgumentsAsWritten` |
| `GroupChatsProofs` | `TableCorrect`, `CommandsCorrect` | `GSpec => []` of `TableMatchesToxcore`, `CommandsReachGroup` |
| | `PurgeCorrect`, `OutageHarmless` | `GSpec =>` `PurgeIsExact`, `OutageSparesGroups` (action properties) |
| `ConfigProofs` | `RoundTrips` | what `ini_puts` writes for any value is what `ini_gets` returns, quoted or not |
| | `SettingsKept`, `SerialsFresh` | `ConfigSpec => []` of `NothingForgotten`, `SerialsNotReused` |
| | `ConfigImplements` | `ConfigSpec => ImplementsSettings`: the file, rewritten line by line, refines a store |

**The ring** (`IInv`).  Assumptions: friend numbers, receipts and payloads are
natural numbers, capacity and attempts are positive, and
`MQ_RETRY_BACKOFF_SEC <= MQ_ACK_TIMEOUT_SEC` (1 and 25 in `msg_queue.h`): an
expired acknowledgement falls through to the backoff test of the same pass, and
the model joins the two.  None of the four invariants is inductive by itself.
The counters are adjusted by one at a time, so that `g_count - 1` stays natural
only because the slot being released is known to be counted; the head reaches an
occupied slot only because a non-zero count means that one exists.  `IInv`
therefore conjoins the ring's type, both counters as cardinalities of the sets
they stand for, the head and the entries.  `SlotSets` and `PutSlot` do the
counting, `EntryTypes` and `EntryFields` say what operations write, `RemoveOK`,
`RewriteOK`, `EnqueueOK` and `ClockTickOK` preserve `IInv` for the four kinds of
step.  `WindowRespected` uses that a scan stops at entries that are due
(`ScannedNotWaiting`) and writes no other (`ServiceTouchesDue`).

**The ledger** (`LInv`).  The three properties need each other, and two facts
more: payloads are the numbers of acceptance, so that a new one is stored,
settled and called for nowhere yet; and each stored payload is in one slot, so
that releasing a slot takes exactly that message out.  The refinement maps the
messages held to the payloads of the occupied slots; every step of the ring is a
step of the contract or leaves it alone.  The contract's own liveness is not part
of the theorem.

**The transport** (`TInv`).  Receipts in flight, in transit and in
acknowledgements are at most the counter toxcore took them from, so the next one
is new; what travels under a receipt that a slot waits for is that slot's
message, and what is acknowledged under it has arrived.  The messages sent past
the queue share the counters, which is why the invariant speaks of payloads that
are none.

**The mirror on disk** (`DInv`).  While a save is under way the temporary file
holds the queue as it is, not as it was: `SaveInProgress` says so for each stage.
That the file has one record per message rests on a walk around the ring meeting
each occupied slot once: `RankBijective` and `MetAll` prove that the slots of a
set, ordered by their distance from the head, have the ranks 0, 1, 2, ..., each
once.

**The tracker** (`RInv`).  The model counts a telegram's place in the sending
order, the code only sees its serial; `TelegramDistance` is the bridge: the
distance of two serials is that of the telegrams, forward around the serial
space.  `TrackerOK` ties `expected` to the highest telegram accepted,
`OutstandingOK` ties the outstanding set to the telegrams that are missing; that a
telegram is accepted once needs both, and each verdict of `sn_tracker_accept` has
its lemma.  There are two hypotheses.  `Fresh`: every copy under way and every
telegram waited for is less than half the serial space away from the telegram
expected next.  Any number of telegrams and of laps around the serial space is
covered as long as that holds; without it a serial does not say on which lap it
is, and no tracker that sees only serials could tell.  `RestartsUnwrapped`: if the
receiver may restart, serials have not wrapped, because a restart takes the greatest
serial for the latest; a receiver that does not restart needs no such thing.  Nothing
is assumed of the archives: rows fail to be written and replace each other, and the
theorems speak of a channel up to a restart that did not find the row of its highest
telegram (`setBack`).  From then on the tracker is behind, and telegrams without a
row may be accepted again; `StoredAreSafe` says that those with a row are not, since
every row is below the expected serial and no serial of a row is outstanding
(`StoredOK`).  `FreshAtFirst` discharges
`Fresh`: it holds, whatever the network loses, repeats or delays, while less than
half the serial space has been sent, with the 999 serials of the code for the
first 499 telegrams of a channel.  The two runs are instances of this case.  Later
a replay that serves rows of an earlier lap breaks `Fresh`; section 5 and the
hazards say what the code does then.  Besides the runs' instances `RInv` was
checked with TLC, restricted to fresh states, where the telegrams go around the
serial space more than once (7 telegrams on 5 serials, 8 on 7).

**The directory** (`NInv`).  What is said of a number is said as long as it keeps
its friend (`vacated`); a number may lose it by a deletion, by a restart that closes
gaps or by one that reads an older profile.  For the others a gap below a friend
implies that the number of the gap has been vacated, so that a restart which moves a
friend is noticed, and the saved profile has no gaps.  The entries with a key are the
first ones of the table (`Prefix`), which is why the empty string of an unused entry
does not catch the key of a listed friend.  After a loss the theorems still state
what the properties state then: a listed key is found in an entry that holds it.
`LeastNatural` gives the lowest unused number.

**The profile** (`PInv`).  An identity saved completely leaves a file behind
(`SavedLeavesFile`), so that no later start takes itself for the first; between
operations file and memory differ only in changes that wait for a save
(`IdleMeansSaved`).  With `ReadMayFail = TRUE` the theorems are false (section 5).

**Recursion over data.**  Purge, autoload, quoting, the lines of a text and the
copy of a file are recursive functions or folds.  The library's induction theorems
take an operator as a parameter, which the provers do not instantiate; the proofs
use sets instead.  `LeastNatural` says that a set of numbers has a least member;
induction over the set of the numbers for which a claim holds (`UpTo`, `Descent`)
follows.  For each recursive definition there is first a lemma that such a
function exists, so that its equation may be used, and then an induction over the
length of the data.

**The groups** (`GInv`).  `Fits` says that table, conferences, refused conferences
and passwords asked for agree: an active slot stands for a conference that lives,
no two for the same one, the table ends in an active slot or is empty, each slot
has the password last set and a title of its group.  `NobodyLost` says that while a purge may run no
member is missing because of our own connection.  The
purge walks over a table that it shortens: `TurnOK` is what holds after each turn
of its loop: whatever was looked at and empty is gone from both sides, what is
left fits, and every slot that is still active is the one it was.  `LoadedAfter` is the same for the autoload.
`OutageSparesGroups` rests on `NobodyLost`.

**The INI file** (`CInv`).  `FilesOK` and `CopyOK` follow a write from step to
step: what was written to the temporary file, together with what is still cached
(`Out`), is the part of the old file read so far with the one setting exchanged
or inserted (`Edited`); the cache is exactly as long as the distance it is sought
back, so that a flush ends where reading goes on.  `Agrees` ties what a start would
read to what the relay goes by, for the settings that it has read; `SerialsOK` says
that the serials used for a friend that is not in `blind` are at most the one stored
(`Covers`).  After a mishap neither claims anything more; `FilesOK` and `CopyOK`, on which
the refinement rests, go on to hold (`FailingOK`).  `RoundTrips` is by induction over the value: inside the quotes no
quote stands without a backslash (`Shaped`).  `TextAssumption` asks that no key
looks like a section, that the names of two friends and the figures of two serials
differ, and that no file is the absence of one.

**The console and the codec** (`CInv`).  While a line is under way the selected
channel is that of the friend who wrote last, or the one it was begun for; a
friend or a metaCom flag without a directory entry goes back to `/add`, or a refresh
has found too many friends (`EntriesKept`); what is said of the last step is about
encoder and decoder alone.  The decoder is
described by its lines: `ReadFrom` characterises them by where each ends,
`LinesBreak` takes the first one off, and everything else is an induction over the
text.  `FindsBody`: if no line of a body ends in the terminator and its lines fit
the buffer, the first closing line is the one the encoder wrote, and what was
collected before it is the body.  `NormLines`: a text and the same with line feeds
for its line ends have the same lines, although the two characters of one line end
can be told apart from two line ends only by looking ahead.  `LinesAhead` and
`ClosedBefore`: more text after the end changes at most the last line that was not
ended, and a telegram that was accepted had been closed before that.  The
assumptions are those on the capacities in the code: a key field holds at least
two symbols and a line buffer more than a field (143 and 127 bytes), the terminator
fits a line (`TelegramAssumption`), numbers are written differently from each
other and without line ends (`NumeralAssumption`), and a typed line fits a body and
the buffer of the caller (`LineAssumption`: 255 keys, 1024 and 1372 bytes).

**The command line** (`TurnOK`).  After each turn of the loop the arguments found,
joined and without their blanks, are the line in front of the present position
without its blanks, and each of them is one piece of the line, either quoted or
free of blanks.  A turn adds the next piece (`SolidThen`: removing blanks and
joining commute; `SolidUpTo`: skipping blanks changes nothing); whether the loop
ended at the end of the line or at the limit of arguments decides between equality
and prefix.  That no argument is cut follows from `execute` having refused the
lines that do not fit.  Only `CommandLineAssumption`, two positive limits, is used.

**Only model-checked.**  Liveness (`NoStarvation`, the fairness part of
`ImplementsContract`, `DirtyIsSaved`, `GapsClose`, `EmptyGroupsGo`,
`ProfileHeals`): the proof system does not handle fairness.  Every invariant and
every safety action property of the passing runs has a theorem.

## 5. Where code and documentation disagree

The run `node_own` ends in a counterexample to a statement that `PROJECT.json`
quotes, "A telegram addressed to it is ours": the receiver's key is compared with
our longer address, so that our own telegrams are queued for somebody else.

Further statements, of documents or of what the code is written to do, that do not
hold, with the change of a configuration or the definition that shows it.  The four
that lower `TG_SN_MAX` or raise `FirstSerial` need half a lap of the real serial
numbers or more.

| Statement | What happens | To reproduce |
|---|---|---|
| `mq_foreach` is "oldest first" (`msg_queue.h:154`) | the tail puts a new message into a hole in front of older ones | `Ledger.cfg` with `FifoOrder` |
| queued telegrams "survive a restart" (`README.md:32`) | after a load that failed on an intact file, the next save overwrites it | `StartUnread` followed by `SaveRename` in `DurableQueue` |
| "peer offline: keep the telegram queued" (`toxrelayer.c:562`) | offline answers use up the attempt budget and the telegram is dropped | `Transport.cfg` with `PROPERTY OfflineKeepsQueued` |
| "Append one store-and-forward record" (`msg_database.h:81`) | the timestamp in seconds is the primary key and the statement `INSERT OR REPLACE`: two telegrams of one second, of any channels, leave one row; a failing insert is only logged (`toxrelayer.c:2513`) | `Send` with `second = t`, `OverwriteOutgoing` and `Fault` in `ReplayLink` |
| "replay what the peer reports it never received" (`relay.c:121`) | the gap stays open for good if the row was lost, or holds a line that the encoder refuses now as it did then (`relay.c:154`) | `LinkRestart.cfg`, `GapsClose` without its conditions on `outgoing` and `refused` |
| "the tracker is advanced past it" (`relay.h:129`): what was accepted before a restart is not accepted after it | if the row of the latest telegram was lost, the tracker resumes below it and takes telegrams without a row a second time | `LinkRestart.cfg`, `AcceptedAtMostOnce` |
| `SN_DUPLICATE`: "already seen" (`telegram.h:124`) | after losing more than half the serials, fresh ones count as duplicates | `LinkWrap.cfg`, `TG_SN_MAX = 5`, `FirstSerial = 1`, `RejectedWasSeen` |
| `RELAY_RECOVERED`: "it closed a known gap" (`relay.h:104`) | after a wrap the archive answers with the oldest row of that serial | `LinkWrap.cfg`, `TG_SN_MAX = 3`, `FirstSerial = 1`, `SN_MAX_PENDING = 2`, `MaxSent = 6`, `AcceptedAtMostOnce` |
| expected is one past the highest accepted (`telegram.h:162`) | a serial outstanding since the last lap swallows the new one | the same with `ExpectedFollowsHighest` |
| resumed past the last telegram (`relay.h:129`) | `MAX(Msg_SN)` is not the latest serial after a wrap | `LinkRestart.cfg`, `FirstSerial = 9`, `MaxSent = 4`, `OnePerSecond = TRUE`, `MaxFaults = 0`, `PROPERTY ResumesPastHighest` |
| "mirror of the highest received serial" (`relay.h:93`) | a recovered, older telegram is mirrored too | `LinkRestart.cfg` with `IniMirrorsHighest` |
| `-1` for an unknown peer (`relay.h:58`) | the empty key of an unused entry is contained in every key | `NodeOwn.cfg` with `UnknownNotQueued` |
| a plain peer gets only the body (`relay.c:104`) | the flag looked at is the source's, not the destination's | `NodeOwn.cfg` with `FramingFitsPeer` |
| only metaCom peers get records (`toxrelayer.c:400`) | the flag in the INI file stays with the number when the friend is deleted, or was added by `/add` and is lost by a kill because the profile was not saved | `NodeOwn.cfg` with `MetaFlagOwned` |
| a telegram is delivered to the contact it is addressed to (`README.md:22`) | queued telegrams stay with the number of a friend that was deleted, or lost by a kill before the profile was saved, and go to the peer that gets the number next | `NodeOwn.cfg` with `AddresseeGetsIt` |
| the directory is read when a friend is added (`toxrelayer.c:629`) | with more friends than `MAX_Friend_NUM` nothing is read, neither keys nor flags nor serials (`toxrelayer.c:336`); `/add` reads nothing at any time | `crowded` and `added` in `Console`, `Unread` in `Config` |
| a line typed to a metaCom peer is sent (`toxrelayer.c:2494`) | a peer added by `/add` that has said hello has no directory key before the next refresh: every line is refused and uses up a serial | `Console.cfg`, `PeerReadsTyped` without its last case |
| a serial out of range is refused (`telegram.c:376`, `telegram.c:401`) | the value is cast to `int` before the check: a request `R:4294967297-4294967298` is served as `R:1-2` | `RequestReadsBack` in `Telegram` |
| the serial of a telegram is kept before it is used (`toxrelayer.c:2485`) | a friend that is added again by `/add` after a purge and a restart starts at serial 1, whatever the file says, and that is kept: used serials go out again | `Config.cfg`, `SerialsNotReused` without `blind` |
| "If the .ini file doesn't exist, make a new file" (`minIni.c:628`) | an INI file that does not open for reading is truncated and gets one setting (`minIni.c:627`); a copy whose writes failed replaces the file all the same (`minIni.c:602`) | `PutsCreate` and `CloseFails` in `IniFile` |
| "failed to initialize: Password too long" (`commands.c:241`) | the conference exists, has no slot and is never purged | `GroupChats.cfg` with `PROPERTY RefusedGroupGone` |
| "/#num - Chat with new name_num" (`toxrelayer.c:2028`) | the number is parsed with the line feed that ended the line and refused, unless it is padded until the buffer cuts the line feed off | `Console.cfg` with `ChannelCommandWorks` |
| "decode(encode(x)) == x for every accepted x" (`telegram.c:201`), "rather than silently truncating data" (`telegram.c:270`) | a body line longer than the decoder's line buffer (143 bytes) loses its end, and a carriage return becomes a line feed | `Console.cfg` with `TypedReadInFull` |
| `/name` saves the name (`commands.c:588`) | `main` sets its own name, and status message, on every start | `Profile.cfg` with `PROPERTY NameSurvivesRestart` |
| the profile is the relay's address | a profile that exists but cannot be opened is taken for a first start and overwritten | `Profile.cfg`, `ReadMayFail = TRUE`, `IdentityKept` |

## 6. Abstractions and omissions

* In the queue, the link and the node payloads are numbers and keys are model
  values; lengths matter in `Telegram`, `CommandLine` and `IniFile` only.
* Calls that violate a documented precondition return an error and change
  nothing; they are stuttering steps.
* The clock does not run backwards.
* The archive models one friend and both directions; its listing query
  (`msg_database_top`) and its opening and closing are not modelled.  The query at
  a start (`msg_database_last_sn`) works, and a peer has its directory entry when a
  request of its is served.
* A receipt counter of toxcore lives as long as its friend number: that a friend is
  deleted and another gets the number, with receipts that begin anew, is not in
  `QueueTransport`.
* In `RelayNode` the INI file can be read, and the queue on disk is the one in
  memory (`DurableQueue` is about the difference).  A failed save leaves the profile
  as it was; that it may be torn is the subject of `Profile`.  Serials are kept per
  friend number, in the code as in `Config`: a peer that gets a number takes over
  its serials.
* In `GroupChats` a failing call of toxcore changes nothing, sending to and inviting
  into a conference that exists do not fail, the conference type
  and the default group are left out (nothing reads the one; the properties hold
  for every number, so for the default too), and passwords are counted from the
  start of the process, since the code does not save them.
* In `Console` a word of a command is one symbol, `get_token`'s own limit of 127
  characters is not reached, and neither is toxcore's of a message; which names
  and addresses toxcore accepts is left open.
* In `Profile` a cut file is one that toxcore refuses; should the cut happen to
  fall between two sections of toxcore's format it might be accepted with less in
  it.  The status message is not told apart from the name.  Nothing is forced to
  the disk, so a loss of power, which could cost any file, is left out.
* In `IniFile` what a call writes reaches the file when it is closed, all of it or
  nothing, as it does through the buffer of the C library if it fits; the reads of a
  refresh all fail or none does.  A temporary file left behind by a kill is never
  read.  Blanks around names and values, other spellings of names,
  and erasing, which the relay never asks for, are left out.
* Not modelled: bootstrap, conference messages and the lists of room members
  (output only), start-up options, opening and listing of the archive, `/help`,
  `/id`, `/default` and `/purge` (the models leave open the numbers that the
  last two set), logging and formatting.

## 7. Plan

Every safety property of a passing run has a theorem.  What is left:

1. `PeerReadsTyped` speaks of a line that fits the decoder's buffer; should the
   buffer grow to that of a body (section 5), the condition can be dropped from
   `Representable` and the proof of `FindsBody` gets shorter.
2. Liveness stays with TLC.
