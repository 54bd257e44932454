------------------------------ MODULE Profile ------------------------------
(***************************************************************************)
(* The relay's identity and friends on disk (src/toxrelayer.c): save_data, *)
(* which rewrites the file in place, store_data, which writes a temporary  *)
(* file and renames it, load_tox at the start, and the handlers that       *)
(* change the profile.  The process may be killed between any two steps,   *)
(* and every file operation may fail.                                      *)
(*                                                                         *)
(* Data.  A profile is the identity, the friends, the user status and the  *)
(* name; the status message is treated like the name.  A file is missing,  *)
(* torn (empty or cut short, which toxcore refuses to load) or holds a     *)
(* profile.  Nothing is forced to the disk by this code, so a power        *)
(* failure, which could lose any of the files, is left out.                *)
(***************************************************************************)
EXTENDS Naturals, FiniteSets

CONSTANTS
    Keys,               \* public keys of other people
    Ids,                \* identities that toxcore can generate
    ReadMayFail         \* whether an existing file may fail to be opened

ASSUME ProfileAssumption ==
    /\ Ids # {}
    /\ ReadMayFail \in BOOLEAN

NoFile   == [is |-> "missing"]
TornFile == [is |-> "torn"]
Holding(p) == [is |-> "whole", profile |-> p]
Whole(f) == f.is = "whole"

Statuses  == {"online", "away"}
ark_node_name == "arkMeta"      \* the name that main gives the relay
Names     == {ark_node_name, "other"}
Unnamed   == ""                 \* the name of a new profile
NoProcess == [is |-> "down"]

VARIABLES
    tox,                \* the profile in memory, or NoProcess
    op,                 \* file operation under way
    data_file,          \* DATA_FILE
    temp_file,          \* DATA_FILE with TEMP_PROFILE_EXT
    legacy_file,        \* DATA_FILE_PRE_0_1_1
    masterkeys,         \* MASTERLIST_FILE
    generated,          \* identities that exist already
    identity,           \* history: the first one that was saved completely
    unsaved,            \* history: what was changed since without saving
    mishap              \* history: a save failed, or was interrupted

fileVars    == <<data_file, temp_file, legacy_file>>
historyVars == <<identity, unsaved, mishap>>
profileVars == <<tox, op, fileVars, masterkeys, generated, historyVars>>

Idle == "none"
Up == tox # NoProcess
Memory == tox.profile
Ready == Up /\ op = Idle /\ Memory.name # Unnamed
Running(p) == [is |-> "up", profile |-> p]

-----------------------------------------------------------------------------
(* save_data: the file is truncated when it is opened. *)

BeginSave == op' = "save open"

SaveOpen ==
    /\ op = "save open"
    /\ op' = "save write"
    /\ data_file' = TornFile
    /\ UNCHANGED <<tox, temp_file, legacy_file, masterkeys, generated, historyVars>>

SaveWritten ==
    /\ op = "save write"
    /\ op' = Idle
    /\ data_file' = Holding(Memory)
    /\ identity' = IF identity = {} THEN {Memory.id} ELSE identity
    /\ unsaved' = {} /\ mishap' = FALSE
    /\ UNCHANGED <<tox, temp_file, legacy_file, masterkeys, generated>>

\* fopen, malloc, fwrite or fclose fails.  Nobody looks at the answer.
SaveFails ==
    /\ op \in {"save open", "save write"}
    /\ op' = Idle
    /\ mishap' = TRUE
    /\ UNCHANGED <<tox, fileVars, masterkeys, generated, identity, unsaved>>

-----------------------------------------------------------------------------
(* store_data, called when a friend changes its name *)

on_friend_name ==
    /\ Ready
    /\ op' = "store open"
    /\ UNCHANGED <<tox, fileVars, masterkeys, generated, historyVars>>

StoreOpen ==
    /\ op = "store open"
    /\ op' = "store write"
    /\ temp_file' = TornFile
    /\ UNCHANGED <<tox, data_file, legacy_file, masterkeys, generated, historyVars>>

StoreWritten_InPlace ==
    /\ op = "store write"
    /\ op' = "store rename"
    /\ temp_file' = Holding(Memory) /\ data_file' = TornFile
    /\ UNCHANGED <<tox, legacy_file, masterkeys, generated, historyVars>>

StoreWritten ==
    /\ op = "store write"
    /\ op' = "store rename"
    /\ \/ temp_file' = Holding(Memory) /\ UNCHANGED mishap
       \/ UNCHANGED temp_file /\ mishap' = TRUE       \* (void) fclose(fp)
    /\ UNCHANGED <<tox, data_file, legacy_file, masterkeys, generated, identity, unsaved>>

StoreRename ==
    /\ op = "store rename"
    /\ op' = Idle
    /\ data_file' = temp_file /\ temp_file' = NoFile
    /\ identity' = IF identity = {} /\ Whole(temp_file) THEN {Memory.id} ELSE identity
    /\ unsaved' = {} /\ mishap' = (mishap /\ ~Whole(temp_file))
    /\ UNCHANGED <<tox, legacy_file, masterkeys, generated>>

StoreFails ==
    /\ op \in {"store open", "store write", "store rename"}
    /\ op' = Idle
    /\ mishap' = TRUE
    /\ UNCHANGED <<tox, fileVars, masterkeys, generated, identity, unsaved>>

-----------------------------------------------------------------------------
(* Handlers that change the profile *)

Changed(p) == tox' = Running(p)
Untouched == UNCHANGED <<fileVars, masterkeys, generated, identity, mishap>>

\* A request of a key that is not blocked.  The friend list is saved whether or
\* not toxcore accepts it.
cb_friend_request(k) ==
    /\ Ready
    /\ \/ k \notin Memory.friends
          /\ Changed([Memory EXCEPT !.friends = @ \cup {k}])
          /\ unsaved' = unsaved \cup {k}
       \/ UNCHANGED <<tox, unsaved>>
    /\ BeginSave
    /\ Untouched

\* /add on the console, and the deletion of a friend that was blocked.
evaluate_add(k) ==
    /\ Ready
    /\ k \notin Memory.friends
    /\ Changed([Memory EXCEPT !.friends = @ \cup {k}])
    /\ unsaved' = unsaved \cup {k}
    /\ UNCHANGED op
    /\ Untouched

FromBlocked(k) ==
    /\ Ready
    /\ k \in Memory.friends
    /\ Changed([Memory EXCEPT !.friends = @ \ {k}])
    /\ unsaved' = unsaved \cup {k}
    /\ UNCHANGED op
    /\ Untouched

purge_inactive_friends_IfAny(gone) ==
    /\ Ready
    /\ gone \cap Memory.friends # {}
    /\ Changed([Memory EXCEPT !.friends = @ \ gone])
    /\ unsaved' = unsaved \cup gone
    /\ BeginSave
    /\ Untouched

\* Every hour, while connected: friends that have been away for too long.
purge_inactive_friends(gone) ==
    /\ Ready
    /\ Changed([Memory EXCEPT !.friends = @ \ gone])
    /\ unsaved' = unsaved \cup gone
    /\ BeginSave
    /\ Untouched

file_contains_key(k) == k \in masterkeys
friend_is_master(k) == k \in Memory.friends /\ file_contains_key(k)

cmd_status(k, status) ==
    /\ Ready
    /\ friend_is_master(k)
    /\ Changed([Memory EXCEPT !.status = status])
    /\ BeginSave
    /\ UNCHANGED unsaved
    /\ Untouched

cmd_name(k, name) ==
    /\ Ready
    /\ friend_is_master(k)
    /\ Changed([Memory EXCEPT !.name = name])
    /\ unsaved' = unsaved \cup {"name"}
    /\ BeginSave
    /\ Untouched

\* The status message is not told apart from the name.
cmd_statusmessage(k, message) == cmd_name(k, message)

\* /set on the console.
evaluate_set(name) ==
    /\ Ready
    /\ Changed([Memory EXCEPT !.name = name])
    /\ unsaved' = unsaved \cup {"name"}
    /\ UNCHANGED op
    /\ Untouched

\* The key is appended; that the last bytes could not be written goes unnoticed.
cmd_master(k, added) ==
    /\ Ready
    /\ friend_is_master(k)
    /\ \/ masterkeys' = masterkeys \cup {added}
       \/ UNCHANGED masterkeys
    /\ UNCHANGED <<tox, op, fileVars, generated, historyVars>>

-----------------------------------------------------------------------------
(* Start and end of the process *)

\* catch_SIGINT and exit_toxrelayer: one more save, and the process ends.
Quit ==
    /\ Ready
    /\ op' = "save exit"
    /\ UNCHANGED <<tox, fileVars, masterkeys, generated, historyVars>>

QuitOpen ==
    /\ op = "save exit"
    /\ op' = "save exit write"
    /\ data_file' = TornFile
    /\ UNCHANGED <<tox, temp_file, legacy_file, masterkeys, generated, historyVars>>

Exits ==
    \/ /\ op = "save exit write"
       /\ data_file' = Holding(Memory)
       /\ identity' = IF identity = {} THEN {Memory.id} ELSE identity
       /\ mishap' = FALSE
    \/ /\ op \in {"save exit", "save exit write"}
       /\ mishap' = TRUE
       /\ UNCHANGED <<data_file, identity>>

Exit ==
    /\ Exits
    /\ tox' = NoProcess /\ op' = Idle /\ unsaved' = {}
    /\ UNCHANGED <<temp_file, legacy_file, masterkeys, generated>>

Kill ==
    /\ Up
    /\ tox' = NoProcess /\ op' = Idle /\ unsaved' = {}
    /\ mishap' = (mishap \/ op \in {"save write", "save exit write"})
    /\ UNCHANGED <<fileVars, masterkeys, generated, identity>>

\* legacy_data_file_rename: with both files there the program ends.
LegacyRename ==
    /\ ~Up /\ legacy_file # NoFile /\ data_file = NoFile
    /\ data_file' = legacy_file /\ legacy_file' = NoFile
    /\ identity' = {legacy_file.profile.id}
    /\ UNCHANGED <<tox, op, temp_file, masterkeys, generated, unsaved, mishap>>

Fresh(id) == [id |-> id, friends |-> {}, status |-> "online", name |-> Unnamed]

load_tox_TornIsFresh ==
    /\ legacy_file = NoFile
    /\ \/ /\ ~Whole(data_file)
          /\ \E id \in Ids \ generated :
               tox' = Running(Fresh(id)) /\ generated' = generated \cup {id}
          /\ BeginSave
       \/ /\ Whole(data_file)
          /\ tox' = Running([data_file.profile EXCEPT !.name = ark_node_name])
          /\ UNCHANGED <<op, generated>>

\* load_tox: a file that cannot be opened is taken for the first start, one
\* that is torn ends the program.  main sets the name afterwards, so the first
\* save is that of a profile without one.
load_tox ==
    /\ legacy_file = NoFile
    /\ \/ /\ data_file = NoFile \/ ReadMayFail
          /\ \E id \in Ids \ generated :
               tox' = Running(Fresh(id)) /\ generated' = generated \cup {id}
          /\ BeginSave
       \/ /\ Whole(data_file)
          /\ tox' = Running([data_file.profile EXCEPT !.name = ark_node_name])
          /\ UNCHANGED <<op, generated>>

NameSet ==
    /\ Up /\ op = Idle /\ Memory.name = Unnamed
    /\ tox' = Running([Memory EXCEPT !.name = ark_node_name])
    /\ unsaved' = unsaved \cup {"name"}
    /\ UNCHANGED <<op, fileVars, masterkeys, generated, identity, mishap>>

Start ==
    /\ ~Up
    /\ load_tox
    /\ unsaved' = {"name"} /\ mishap' = FALSE
    /\ UNCHANGED <<fileVars, masterkeys, identity>>

-----------------------------------------------------------------------------
\* A new installation, or one of an earlier version.
PInit ==
    /\ tox = NoProcess /\ op = Idle
    /\ data_file = NoFile /\ temp_file = NoFile
    /\ \/ legacy_file = NoFile /\ generated = {}
       \/ \E id \in Ids :
            /\ legacy_file = Holding([Fresh(id) EXCEPT !.friends = Keys, !.name = ark_node_name])
            /\ generated = {id}
    /\ masterkeys \in SUBSET Keys
    /\ identity = {} /\ unsaved = {} /\ mishap = FALSE

Operations ==
    \/ on_friend_name
    \/ \E k \in Keys :
          \/ cb_friend_request(k) \/ evaluate_add(k) \/ FromBlocked(k)
          \/ \E status \in Statuses : cmd_status(k, status)
          \/ \E text \in Names : cmd_name(k, text) \/ cmd_statusmessage(k, text)
          \/ \E added \in Keys : cmd_master(k, added)
    \/ \E name \in Names : evaluate_set(name)
    \/ \E gone \in SUBSET Keys : purge_inactive_friends(gone)
    \/ Quit

FileSteps ==
    \/ SaveOpen \/ SaveWritten \/ SaveFails
    \/ StoreOpen \/ StoreWritten \/ StoreRename \/ StoreFails
    \/ QuitOpen \/ Exit
    \/ NameSet

PNext == Operations \/ FileSteps \/ Kill \/ LegacyRename \/ Start

\* The loop gets on with a save and comes round to the hourly one; a save that
\* gets its chance again and again succeeds in the end.
PSpec ==
    /\ PInit /\ [][PNext]_profileVars
    /\ WF_profileVars(FileSteps)
    /\ SF_profileVars(SaveOpen) /\ SF_profileVars(SaveWritten)
    /\ SF_profileVars(\E gone \in SUBSET Keys : purge_inactive_friends(gone))

-----------------------------------------------------------------------------
(* Properties *)

\* toxrelayer.h: this file is the relay's address on the network.  Once an
\* identity has been saved completely, every process has it and the file, if
\* whole, holds it, whichever writes fail and whenever the process is killed; as
\* long as a file that exists can be opened (ReadMayFail = FALSE).
IdentityKept ==
    identity # {} =>
        /\ Up => Memory.id \in identity
        /\ Whole(data_file) => data_file.profile.id \in identity

\* Between two operations, and unless a save failed or was interrupted, the file
\* holds the profile that the process works with; but for friends added on the
\* console or deleted because they are blocked, and the name that main and the
\* console set, which wait for the next save.  The file is torn only while
\* save_data writes it, or because a write failed or save_data was cut short:
\* killing the process within store_data leaves the file whole.
ProfileOnDisk ==
    /\ Ready /\ ~mishap =>
        /\ Whole(data_file)
        /\ LET d == data_file.profile IN
           /\ d.id = Memory.id /\ d.status = Memory.status
           /\ (d.friends \ Memory.friends) \cup (Memory.friends \ d.friends) \subseteq unsaved
           /\ "name" \in unsaved \/ d.name = Memory.name
    /\ data_file = TornFile => mishap \/ op \in {"save write", "save exit write"}

\* A process that runs on with a torn file repairs it before long, unless it is
\* killed first: the hourly save does not wait for a change.
ProfileHeals == Up /\ data_file = TornFile ~> ~Up \/ Whole(data_file)

\* cmd_name saves the name, as if it were to last: a start keeps the name that
\* the file holds.
NameSurvivesRestart ==
    [][~Up /\ Up' /\ Whole(data_file) /\ data_file.profile.name \in Names =>
          tox'.profile.name = data_file.profile.name]_profileVars

=============================================================================
