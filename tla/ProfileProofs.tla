--------------------------- MODULE ProfileProofs ----------------------------
(***************************************************************************)
(* Proofs about the profile on disk, for every set of keys and identities, *)
(* and for a disk on which a file that exists can be opened                *)
(* (ReadMayFail = FALSE): load_tox takes one that cannot for the first     *)
(* start, which is the one way in which the relay loses its address.       *)
(***************************************************************************)
EXTENDS Profile, TLAPS

\* What a process or a file may hold.
Profiles ==
    [id : Ids, friends : SUBSET Keys, status : Statuses, name : Names \cup {Unnamed}]

Files == {NoFile, TornFile} \cup {Holding(p) : p \in Profiles}

\* The types of the variables.
PTypes ==
    /\ tox \in {NoProcess} \cup {Running(p) : p \in Profiles}
    /\ op \in {Idle, "save open", "save write", "store open", "store write",
               "store rename", "save exit", "save exit write"}
    /\ data_file \in Files /\ temp_file \in Files /\ legacy_file \in Files \ {TornFile}
    /\ mishap \in BOOLEAN

\* File operations belong to a process.
OpHasProcess == op # Idle => Up

\* store_data puts what it has written in place of the profile: the profile in
\* memory, or a torn file of which only the history knows.
TempIsNew ==
    /\ op = "store write" => temp_file = TornFile
    /\ op = "store rename" => \/ temp_file = Holding(Memory)
                              \/ temp_file = TornFile /\ mishap

\* A whole file was saved completely, and an identity that was saved completely
\* leaves a file behind, so that no later start takes itself for the first.
SavedLeavesFile ==
    /\ identity = {} => ~Whole(data_file)
    /\ identity # {} => data_file # NoFile

\* What the profile d on disk and the profile m in memory have in common.
Agrees(d, m, waiting) ==
    /\ d.id = m.id /\ d.status = m.status
    /\ (d.friends \ m.friends) \cup (m.friends \ d.friends) \subseteq waiting
    /\ "name" \in waiting \/ d.name = m.name

\* ProfileOnDisk speaks of a relay that has its name, but main names it only
\* after the first save.
IdleMeansSaved ==
    Up /\ op = Idle /\ ~mishap =>
        Whole(data_file) /\ Agrees(data_file.profile, Memory, unsaved)

\* The profile is torn only during a save, or after one that went wrong.
TornExplained == data_file = TornFile => mishap \/ op \in {"save write", "save exit write"}

\* The inductive invariant.
PInv ==
    /\ PTypes /\ OpHasProcess /\ TempIsNew /\ SavedLeavesFile
    /\ IdentityKept /\ IdleMeansSaved /\ TornExplained

-----------------------------------------------------------------------------
(* Facts about processes and files *)

\* A running process has a profile.
LEMMA ProcessFacts ==
    /\ \A p : Running(p) # NoProcess /\ Running(p).profile = p
    /\ PTypes => (Up => Memory \in Profiles /\ tox = Running(Memory))
<1>1. \A p : Running(p) # NoProcess /\ Running(p).profile = p
  BY DEF Running, NoProcess
<1> QED
  BY <1>1 DEF PTypes, Up, Memory

\* A file is missing, torn or whole, and only one of these.
LEMMA FileFacts ==
    /\ NoFile # TornFile /\ ~Whole(NoFile) /\ ~Whole(TornFile)
    /\ \A p : Whole(Holding(p)) /\ Holding(p).profile = p
              /\ Holding(p) # NoFile /\ Holding(p) # TornFile
    /\ \A f \in Files : Whole(f) => f.profile \in Profiles /\ f = Holding(f.profile)
    /\ \A f \in Files : ~Whole(f) => f \in {NoFile, TornFile}
    /\ NoFile \in Files /\ TornFile \in Files /\ \A p \in Profiles : Holding(p) \in Files
<1>1. NoFile # TornFile /\ ~Whole(NoFile) /\ ~Whole(TornFile)
  BY DEF NoFile, TornFile, Whole
<1>2. \A p : Whole(Holding(p)) /\ Holding(p).profile = p
             /\ Holding(p) # NoFile /\ Holding(p) # TornFile
  BY DEF Holding, NoFile, TornFile, Whole
<1>3. ASSUME NEW f \in Files, Whole(f)
      PROVE  f.profile \in Profiles /\ f = Holding(f.profile)
  <2>1. PICK p \in Profiles : f = Holding(p)
    BY <1>1, <1>3 DEF Files
  <2> QED
    BY <1>2, <2>1
<1>4. ASSUME NEW f \in Files, ~Whole(f)
      PROVE  f \in {NoFile, TornFile}
  BY <1>2, <1>4 DEF Files
<1> QED
  BY <1>1, <1>2, <1>3, <1>4 DEF Files

\* The profiles that the handlers make are profiles of the same identity.
LEMMA ProfileEdits ==
    ASSUME NEW m \in Profiles
    PROVE  /\ \A F \in SUBSET Keys : LET q == [m EXCEPT !.friends = F] IN
                 q \in Profiles /\ q.id = m.id /\ q.status = m.status /\ q.name = m.name
                 /\ q.friends = F
           /\ \A s \in Statuses : LET q == [m EXCEPT !.status = s] IN
                 q \in Profiles /\ q.id = m.id
           /\ \A n \in Names : LET q == [m EXCEPT !.name = n] IN
                 q \in Profiles /\ q.id = m.id /\ q.status = m.status /\ q.friends = m.friends
BY DEF Profiles

\* A profile agrees with itself.
LEMMA AgreesWithItself == \A m, w : Agrees(m, m, w)
BY DEF Agrees

-----------------------------------------------------------------------------
(* One lemma per kind of step *)

\* A new installation, or one of an earlier version.
LEMMA ProfileInit == PInit => PInv
<1> SUFFICES ASSUME PInit PROVE PInv
  OBVIOUS
<1>1. legacy_file \in Files \ {TornFile}
  <2>1. ASSUME NEW i \in Ids
        PROVE  [Fresh(i) EXCEPT !.friends = Keys, !.name = ark_node_name] \in Profiles
    BY DEF Fresh, Profiles, Statuses, Names
  <2> QED
    BY <2>1, FileFacts DEF PInit
<1>2. ~Up /\ op = Idle /\ data_file = NoFile /\ temp_file = NoFile /\ identity = {} /\ mishap = FALSE
  BY DEF PInit, Up
<1>3. PTypes
  BY <1>1, <1>2, FileFacts DEF PInit, PTypes
<1> QED
  BY <1>2, <1>3, FileFacts
     DEF PInv, OpHasProcess, TempIsNew, SavedLeavesFile, IdentityKept, IdleMeansSaved,
         TornExplained, Idle

\* A handler gives the process a profile of the same identity, and either starts
\* a save or leaves the change for a later one.
LEMMA HandlerOK ==
    ASSUME PInv, Ready, NEW q \in Profiles, tox' = Running(q), q.id = Memory.id,
           UNCHANGED <<fileVars, identity, mishap>>,
           op' \in {Idle, "save open", "store open", "save exit"},
           op' = Idle => \A d \in Profiles :
               Agrees(d, Memory, unsaved) => Agrees(d, q, unsaved')
    PROVE  PInv'
<1> USE DEF PInv
<1>1. Up /\ op = Idle /\ UNCHANGED <<data_file, temp_file, legacy_file, identity, mishap>>
  BY DEF Ready, fileVars
<1>2. Up' /\ Memory' = q
  BY ProcessFacts DEF Up, Memory
<1>3. PTypes' /\ OpHasProcess'
  BY <1>1, <1>2 DEF PTypes, OpHasProcess
<1>4. TempIsNew' /\ SavedLeavesFile'
  BY <1>1 DEF TempIsNew, SavedLeavesFile, Idle
<1>5. IdentityKept'
  BY <1>1, <1>2 DEF IdentityKept
<1>6. IdleMeansSaved'
  <2>1. SUFFICES ASSUME op' = Idle, ~mishap'
                 PROVE  Whole(data_file) /\ Agrees(data_file.profile, q, unsaved')
    BY <1>1, <1>2 DEF IdleMeansSaved
  <2>2. ~mishap
    BY <1>1, <2>1
  <2>3. Whole(data_file) /\ Agrees(data_file.profile, Memory, unsaved)
    BY <1>1, <2>2 DEF IdleMeansSaved
  <2>4. data_file.profile \in Profiles
    BY <2>3, FileFacts DEF PTypes
  <2> QED
    BY <2>1, <2>3, <2>4
<1>7. TornExplained'
  <2>1. data_file = TornFile => mishap = TRUE
    BY <1>1 DEF TornExplained, Idle, PTypes
  <2>2. mishap' = mishap
    BY <1>1
  <2>3. ASSUME mishap = TRUE PROVE mishap' = TRUE
    BY <2>2, <2>3
  <2> QED
    BY <1>1, <2>1, <2>3 DEF TornExplained
<1> QED
  BY <1>3, <1>4, <1>5, <1>6, <1>7

\* The operations of the running relay.
LEMMA OperationOK ==
    ASSUME PInv, Operations
    PROVE  PInv'
<1>1. PTypes
  BY DEF PInv
<1>2. ASSUME Ready
      PROVE  Memory \in Profiles /\ tox = Running(Memory) /\ op = Idle
  BY <1>1, <1>2, ProcessFacts DEF Ready
<1>3. ASSUME on_friend_name \/ Quit PROVE PInv'
  <2>1. Ready /\ op' \in {"store open", "save exit"} /\ UNCHANGED <<tox, fileVars, identity, mishap>>
    BY <1>3 DEF on_friend_name, Quit, historyVars
  <2>2. Memory \in Profiles /\ tox' = Running(Memory)
    BY <1>2, <2>1
  <2> QED
    BY <2>1, <2>2, HandlerOK DEF Idle
<1>4. ASSUME NEW k \in Keys, cb_friend_request(k) PROVE PInv'
  <2>1. Ready /\ op' = "save open" /\ UNCHANGED <<fileVars, identity, mishap>>
    BY <1>4 DEF cb_friend_request, BeginSave, Untouched
  <2>2. \/ tox' = Running([Memory EXCEPT !.friends = Memory.friends \cup {k}])
        \/ tox' = tox
    BY <1>4 DEF cb_friend_request, Changed
  <2>3. Memory \in Profiles /\ Memory.friends \cup {k} \in SUBSET Keys
    BY <1>2, <2>1 DEF Profiles
  <2>4. PICK q \in Profiles : tox' = Running(q) /\ q.id = Memory.id
    BY <1>2, <2>1, <2>2, <2>3, ProfileEdits
  <2> QED
    BY <2>1, <2>4, HandlerOK DEF Idle
<1>5. ASSUME NEW k \in Keys, evaluate_add(k) \/ FromBlocked(k) PROVE PInv'
  <2>1. Ready /\ op' = op /\ UNCHANGED <<fileVars, identity, mishap>>
        /\ unsaved' = unsaved \cup {k}
    BY <1>5 DEF evaluate_add, FromBlocked, Untouched
  <2>2. \E F \in {Memory.friends \cup {k}, Memory.friends \ {k}} :
            tox' = Running([Memory EXCEPT !.friends = F])
    BY <1>5 DEF evaluate_add, FromBlocked, Changed
  <2>3. Memory \in Profiles /\ Memory.friends \in SUBSET Keys
    BY <1>2, <2>1 DEF Profiles
  <2>4. PICK F \in SUBSET Keys :
            /\ F \in {Memory.friends \cup {k}, Memory.friends \ {k}}
            /\ tox' = Running([Memory EXCEPT !.friends = F])
    BY <2>2, <2>3
  <2> DEFINE q == [Memory EXCEPT !.friends = F]
  <2>5. q \in Profiles /\ q.id = Memory.id /\ q.status = Memory.status
        /\ q.name = Memory.name /\ q.friends = F
    BY <2>3, ProfileEdits
  <2> HIDE DEF q
  <2>6. \A d \in Profiles : Agrees(d, Memory, unsaved) => Agrees(d, q, unsaved')
    BY <2>1, <2>4, <2>5 DEF Agrees
  <2> QED
    BY <1>2, <2>1, <2>4, <2>5, <2>6, HandlerOK DEF q
<1>6. ASSUME NEW k \in Keys, NEW status \in Statuses, cmd_status(k, status) PROVE PInv'
  <2>1. Ready /\ op' = "save open" /\ UNCHANGED <<fileVars, identity, mishap>>
        /\ tox' = Running([Memory EXCEPT !.status = status])
    BY <1>6 DEF cmd_status, BeginSave, Untouched, Changed
  <2>2. PICK q \in Profiles : tox' = Running(q) /\ q.id = Memory.id
    BY <1>2, <2>1, ProfileEdits
  <2> QED
    BY <2>1, <2>2, HandlerOK DEF Idle
<1>7. ASSUME NEW k \in Keys, NEW text \in Names, cmd_name(k, text) \/ cmd_statusmessage(k, text)
      PROVE  PInv'
  <2>1. Ready /\ op' = "save open" /\ UNCHANGED <<fileVars, identity, mishap>>
        /\ tox' = Running([Memory EXCEPT !.name = text])
    BY <1>7 DEF cmd_name, cmd_statusmessage, BeginSave, Untouched, Changed
  <2>2. PICK q \in Profiles : tox' = Running(q) /\ q.id = Memory.id
    BY <1>2, <2>1, ProfileEdits
  <2> QED
    BY <2>1, <2>2, HandlerOK DEF Idle
<1>8. ASSUME NEW k \in Keys, NEW added \in Keys, cmd_master(k, added) PROVE PInv'
  <2>1. Ready /\ UNCHANGED <<tox, op, fileVars, identity, mishap, unsaved>>
    BY <1>8 DEF cmd_master, historyVars
  <2> QED
    BY <1>2, <2>1, HandlerOK
<1>9. ASSUME NEW name \in Names, evaluate_set(name) PROVE PInv'
  <2>1. Ready /\ op' = op /\ UNCHANGED <<fileVars, identity, mishap>>
        /\ unsaved' = unsaved \cup {"name"}
        /\ tox' = Running([Memory EXCEPT !.name = name])
    BY <1>9 DEF evaluate_set, Untouched, Changed
  <2> DEFINE q == [Memory EXCEPT !.name = name]
  <2>2. q \in Profiles /\ q.id = Memory.id /\ q.status = Memory.status /\ q.friends = Memory.friends
    BY <1>2, <2>1, ProfileEdits
  <2> HIDE DEF q
  <2>3. \A d \in Profiles : Agrees(d, Memory, unsaved) => Agrees(d, q, unsaved')
    BY <2>1, <2>2 DEF Agrees
  <2> QED
    BY <1>2, <2>1, <2>2, <2>3, HandlerOK DEF q
<1>10. ASSUME NEW gone \in SUBSET Keys, purge_inactive_friends(gone) PROVE PInv'
  <2>1. Ready /\ op' = "save open" /\ UNCHANGED <<fileVars, identity, mishap>>
        /\ tox' = Running([Memory EXCEPT !.friends = Memory.friends \ gone])
    BY <1>10 DEF purge_inactive_friends, BeginSave, Untouched, Changed
  <2>2. Memory \in Profiles /\ Memory.friends \ gone \in SUBSET Keys
    BY <1>2, <2>1 DEF Profiles
  <2>3. PICK q \in Profiles : tox' = Running(q) /\ q.id = Memory.id
    BY <2>1, <2>2, ProfileEdits
  <2> QED
    BY <2>1, <2>3, HandlerOK DEF Idle
<1> QED
  BY <1>3, <1>4, <1>5, <1>6, <1>7, <1>8, <1>9, <1>10 DEF Operations

\* The steps of save_data, on the way or at the end.
LEMMA SaveDataOK ==
    ASSUME PInv, SaveOpen \/ SaveWritten \/ SaveFails \/ QuitOpen \/ Exit
    PROVE  PInv'
<1> USE DEF PInv
<1>1. op # Idle /\ Up /\ Memory \in Profiles
  BY ProcessFacts
     DEF SaveOpen, SaveWritten, SaveFails, QuitOpen, Exit, Exits, Idle, OpHasProcess
<1>2. CASE SaveOpen \/ QuitOpen
  <2>1. /\ op' \in {"save write", "save exit write"} /\ data_file' = TornFile
        /\ UNCHANGED <<tox, temp_file, legacy_file, identity, unsaved, mishap>>
    BY <1>2 DEF SaveOpen, QuitOpen, historyVars
  <2>2. PTypes' /\ OpHasProcess'
    BY <1>1, <2>1, FileFacts DEF PTypes, OpHasProcess, Up
  <2>3. TempIsNew' /\ SavedLeavesFile' /\ IdentityKept'
    BY <2>1, FileFacts DEF TempIsNew, SavedLeavesFile, IdentityKept, Up, Memory
  <2>4. IdleMeansSaved' /\ TornExplained'
    BY <2>1 DEF IdleMeansSaved, TornExplained, Idle
  <2> QED
    BY <2>2, <2>3, <2>4
<1>3. ASSUME op' = Idle, data_file' = Holding(Memory), mishap' = FALSE,
             identity' = IF identity = {} THEN {Memory.id} ELSE identity,
             tox' \in {tox, NoProcess}, UNCHANGED <<temp_file, legacy_file>>
      PROVE  PInv'
  <2>1. PTypes' /\ OpHasProcess'
    BY <1>1, <1>3, FileFacts DEF PTypes, OpHasProcess, Up
  <2>2. Whole(data_file') /\ data_file'.profile = Memory
    BY <1>3, FileFacts
  <2>3. TempIsNew' /\ TornExplained'
    BY <1>3, FileFacts DEF TempIsNew, TornExplained, Idle
  <2>4. SavedLeavesFile'
    BY <1>3, FileFacts DEF SavedLeavesFile
  <2>5. IdentityKept'
    BY <1>1, <1>3, <2>2 DEF IdentityKept, Up, Memory
  <2>6. IdleMeansSaved'
    BY <1>3, <2>2, AgreesWithItself DEF IdleMeansSaved, Up, Memory
  <2> QED
    BY <2>1, <2>3, <2>4, <2>5, <2>6
<1>4. ASSUME op' = Idle, mishap' = TRUE, UNCHANGED <<data_file, temp_file, legacy_file, identity>>,
             tox' \in {tox, NoProcess}
      PROVE  PInv'
  <2>1. PTypes' /\ OpHasProcess'
    BY <1>1, <1>4 DEF PTypes, OpHasProcess
  <2>2. TempIsNew' /\ SavedLeavesFile' /\ IdleMeansSaved' /\ TornExplained'
    BY <1>4 DEF TempIsNew, SavedLeavesFile, IdleMeansSaved, TornExplained, Idle
  <2>3. IdentityKept'
    BY <1>4 DEF IdentityKept, Up, Memory
  <2> QED
    BY <2>1, <2>2, <2>3
<1>5. CASE SaveWritten
  BY <1>3, <1>5 DEF SaveWritten
<1>6. CASE SaveFails
  BY <1>4, <1>6 DEF SaveFails, fileVars
<1>7. CASE Exit
  BY <1>3, <1>4, <1>7 DEF Exit, Exits
<1> QED
  BY <1>2, <1>5, <1>6, <1>7

\* The steps of store_data.
LEMMA StoreDataOK ==
    ASSUME PInv, StoreOpen \/ StoreWritten \/ StoreRename \/ StoreFails
    PROVE  PInv'
<1> USE DEF PInv
<1>1. op # Idle /\ Up /\ Memory \in Profiles
  BY ProcessFacts DEF StoreOpen, StoreWritten, StoreRename, StoreFails, Idle, OpHasProcess
<1>2. UNCHANGED tox /\ UNCHANGED Memory
  BY DEF StoreOpen, StoreWritten, StoreRename, StoreFails, Memory
<1>3. CASE StoreOpen
  <2>1. /\ op = "store open" /\ op' = "store write" /\ temp_file' = TornFile
        /\ UNCHANGED <<data_file, legacy_file, identity, unsaved, mishap>>
    BY <1>3 DEF StoreOpen, historyVars
  <2>2. PTypes' /\ OpHasProcess'
    BY <1>1, <1>2, <2>1, FileFacts DEF PTypes, OpHasProcess, Up
  <2>3. TempIsNew' /\ SavedLeavesFile' /\ IdentityKept'
    BY <1>2, <2>1 DEF TempIsNew, SavedLeavesFile, IdentityKept, Up
  <2>4. IdleMeansSaved' /\ TornExplained'
    BY <2>1 DEF IdleMeansSaved, TornExplained, Idle
  <2> QED
    BY <2>2, <2>3, <2>4
<1>4. CASE StoreWritten
  <2>1. /\ op = "store write" /\ op' = "store rename"
        /\ \/ temp_file' = Holding(Memory) /\ UNCHANGED mishap
           \/ UNCHANGED temp_file /\ mishap' = TRUE
        /\ UNCHANGED <<data_file, legacy_file, identity, unsaved>>
    BY <1>4 DEF StoreWritten
  <2>2. temp_file = TornFile
    BY <2>1 DEF TempIsNew
  <2>3. temp_file' \in Files /\ mishap' \in BOOLEAN
    BY <1>1, <2>1, <2>2, FileFacts DEF PTypes
  <2>4. PTypes' /\ OpHasProcess'
    BY <1>1, <1>2, <2>1, <2>3 DEF PTypes, OpHasProcess, Up
  <2>5. TempIsNew' /\ SavedLeavesFile' /\ IdentityKept'
    BY <1>2, <2>1, <2>2 DEF TempIsNew, SavedLeavesFile, IdentityKept, Up
  <2>6. IdleMeansSaved' /\ TornExplained'
    BY <2>1 DEF IdleMeansSaved, TornExplained, Idle
  <2> QED
    BY <2>4, <2>5, <2>6
<1>5. CASE StoreRename
  <2>1. /\ op = "store rename" /\ op' = Idle /\ data_file' = temp_file /\ temp_file' = NoFile
        /\ identity' = IF identity = {} /\ Whole(temp_file) THEN {Memory.id} ELSE identity
        /\ unsaved' = {} /\ mishap' = (mishap /\ ~Whole(temp_file))
        /\ UNCHANGED legacy_file
    BY <1>5 DEF StoreRename
  <2>2. PTypes' /\ OpHasProcess'
    <3>1. data_file' \in Files /\ temp_file' \in Files
      BY <2>1, FileFacts DEF PTypes
    <3>2. mishap' \in BOOLEAN
      BY <2>1
    <3> QED
      BY <1>2, <2>1, <3>1, <3>2 DEF PTypes, OpHasProcess
  <2>3. TempIsNew'
    BY <2>1 DEF TempIsNew, Idle
  <2>4. CASE temp_file = Holding(Memory)
    <3>1. Whole(temp_file) /\ temp_file.profile = Memory
          /\ data_file' # NoFile /\ data_file' # TornFile
      BY <2>1, <2>4, FileFacts
    <3>2. SavedLeavesFile' /\ TornExplained'
      BY <2>1, <3>1 DEF SavedLeavesFile, TornExplained
    <3>3. IdentityKept'
      BY <1>1, <1>2, <2>1, <3>1 DEF IdentityKept
    <3>4. IdleMeansSaved'
      BY <1>2, <2>1, <3>1, AgreesWithItself DEF IdleMeansSaved
    <3> QED
      BY <2>2, <2>3, <3>2, <3>3, <3>4
  <2>5. CASE temp_file = TornFile /\ mishap
    <3>1. ~Whole(temp_file) /\ data_file' = TornFile /\ data_file' # NoFile /\ identity' = identity
      BY <2>1, <2>5, FileFacts
    <3>2. mishap'
      BY <2>1, <2>5, <3>1
    <3>3. SavedLeavesFile' /\ TornExplained' /\ IdleMeansSaved'
      BY <2>1, <3>1, <3>2 DEF SavedLeavesFile, TornExplained, IdleMeansSaved
    <3>4. IdentityKept'
      BY <1>1, <1>2, <2>1, <3>1 DEF IdentityKept
    <3> QED
      BY <2>2, <2>3, <3>3, <3>4
  <2> QED
    BY <2>1, <2>4, <2>5 DEF TempIsNew
<1>6. CASE StoreFails
  <2>1. op' = Idle /\ mishap' = TRUE /\ UNCHANGED <<data_file, temp_file, legacy_file, identity>>
    BY <1>6 DEF StoreFails, fileVars
  <2>2. PTypes' /\ OpHasProcess'
    BY <1>2, <2>1 DEF PTypes, OpHasProcess
  <2>3. TempIsNew' /\ SavedLeavesFile' /\ IdleMeansSaved' /\ TornExplained'
    BY <2>1 DEF TempIsNew, SavedLeavesFile, IdleMeansSaved, TornExplained, Idle
  <2>4. IdentityKept'
    BY <1>2, <2>1 DEF IdentityKept, Up
  <2> QED
    BY <2>2, <2>3, <2>4
<1> QED
  BY <1>3, <1>4, <1>5, <1>6

\* main gives the relay its name.
LEMMA NameSetOK ==
    ASSUME PInv, NameSet
    PROVE  PInv'
<1> USE DEF PInv
<1> DEFINE q == [Memory EXCEPT !.name = ark_node_name]
<1>1. Up /\ op = Idle /\ tox' = Running(q) /\ unsaved' = unsaved \cup {"name"}
      /\ UNCHANGED <<op, data_file, temp_file, legacy_file, identity, mishap>>
  BY DEF NameSet, fileVars
<1>2. q \in Profiles /\ q.id = Memory.id /\ q.status = Memory.status /\ q.friends = Memory.friends
  BY <1>1, ProcessFacts, ProfileEdits DEF Names
<1> HIDE DEF q
<1>3. Up' /\ Memory' = q
  BY <1>1, ProcessFacts DEF Up, Memory
<1>4. PTypes' /\ OpHasProcess'
  BY <1>1, <1>2, <1>3 DEF PTypes, OpHasProcess
<1>5. TempIsNew' /\ SavedLeavesFile' /\ TornExplained'
  BY <1>1 DEF TempIsNew, SavedLeavesFile, TornExplained, Idle
<1>6. IdentityKept'
  BY <1>1, <1>2, <1>3 DEF IdentityKept
<1>7. IdleMeansSaved'
  BY <1>1, <1>2, <1>3 DEF IdleMeansSaved, Agrees
<1> QED
  BY <1>4, <1>5, <1>6, <1>7

\* The process ends or another one starts.
LEMMA KillAndStartOK ==
    ASSUME PInv, ReadMayFail = FALSE, Kill \/ LegacyRename \/ Start
    PROVE  PInv'
<1> USE DEF PInv
<1>1. CASE Kill
  <2>1. /\ tox' = NoProcess /\ op' = Idle
        /\ mishap' = (mishap \/ op \in {"save write", "save exit write"})
        /\ UNCHANGED <<data_file, temp_file, legacy_file, identity>>
    BY <1>1 DEF Kill, fileVars
  <2>2. mishap' \in BOOLEAN
    BY <2>1
  <2>3. PTypes' /\ OpHasProcess'
    BY <2>1, <2>2 DEF PTypes, OpHasProcess
  <2>4. TempIsNew' /\ SavedLeavesFile' /\ IdentityKept' /\ IdleMeansSaved'
    BY <2>1 DEF TempIsNew, SavedLeavesFile, IdentityKept, IdleMeansSaved, Up, Idle
  <2>5. TornExplained'
    BY <2>1 DEF TornExplained
  <2> QED
    BY <2>3, <2>4, <2>5
<1>2. CASE LegacyRename
  <2>1. /\ ~Up /\ legacy_file # NoFile /\ data_file' = legacy_file /\ legacy_file' = NoFile
        /\ identity' = {legacy_file.profile.id}
        /\ UNCHANGED <<tox, op, temp_file, mishap>>
    BY <1>2 DEF LegacyRename
  <2>2. Whole(legacy_file) /\ legacy_file # TornFile
    BY <2>1, FileFacts DEF PTypes
  <2>3. op = Idle
    BY <2>1 DEF OpHasProcess
  <2>4. PTypes' /\ OpHasProcess'
    BY <2>1, <2>3, FileFacts DEF PTypes, OpHasProcess
  <2>5. TempIsNew' /\ SavedLeavesFile' /\ TornExplained'
    BY <2>1, <2>2, <2>3 DEF TempIsNew, SavedLeavesFile, TornExplained, Idle
  <2>6. IdentityKept' /\ IdleMeansSaved'
    BY <2>1 DEF IdentityKept, IdleMeansSaved, Up
  <2> QED
    BY <2>4, <2>5, <2>6
<1>3. CASE Start
  <2>1. /\ ~Up /\ load_tox /\ unsaved' = {"name"} /\ mishap' = FALSE
        /\ UNCHANGED <<data_file, temp_file, legacy_file, identity>>
    BY <1>3 DEF Start, fileVars
  <2>2. op = Idle
    BY <2>1 DEF OpHasProcess
  <2>3. CASE Whole(data_file) /\ UNCHANGED op
             /\ tox' = Running([data_file.profile EXCEPT !.name = ark_node_name])
    <3> DEFINE q == [data_file.profile EXCEPT !.name = ark_node_name]
    <3>1. data_file.profile \in Profiles
      BY <2>3, FileFacts DEF PTypes
    <3>2. q \in Profiles /\ q.id = data_file.profile.id /\ q.status = data_file.profile.status
          /\ q.friends = data_file.profile.friends
      BY <3>1, ProfileEdits DEF Names
    <3>3. tox' = Running(q)
      BY <2>3
    <3> HIDE DEF q
    <3>4. Up' /\ Memory' = q
      BY <3>3, ProcessFacts DEF Up, Memory
    <3>5. PTypes' /\ OpHasProcess'
      BY <2>1, <2>2, <2>3, <3>2, <3>3, <3>4 DEF PTypes, OpHasProcess
    <3>6. TempIsNew' /\ SavedLeavesFile' /\ TornExplained'
      BY <2>1, <2>2, <2>3, FileFacts DEF TempIsNew, SavedLeavesFile, TornExplained, Idle
    <3>7. IdentityKept'
      BY <2>1, <2>3, <3>2, <3>4 DEF IdentityKept
    <3>8. IdleMeansSaved'
      BY <2>1, <2>3, <3>2, <3>4 DEF IdleMeansSaved, Agrees
    <3> QED
      BY <3>5, <3>6, <3>7, <3>8
  <2>4. CASE data_file = NoFile /\ op' = "save open" /\ \E i \in Ids : tox' = Running(Fresh(i))
    <3>1. PICK q \in Profiles : tox' = Running(q)
      BY <2>4 DEF Fresh, Profiles, Statuses
    <3>2. Up'
      BY <3>1, ProcessFacts DEF Up
    <3>3. PTypes' /\ OpHasProcess'
      BY <2>1, <2>4, <3>1, <3>2 DEF PTypes, OpHasProcess
    <3>4. identity = {}
      BY <2>4 DEF SavedLeavesFile
    <3>5. TempIsNew' /\ SavedLeavesFile' /\ IdentityKept' /\ IdleMeansSaved' /\ TornExplained'
      BY <2>1, <2>4, <3>4, FileFacts
         DEF TempIsNew, SavedLeavesFile, IdentityKept, IdleMeansSaved, TornExplained, Idle
    <3> QED
      BY <3>3, <3>5
  <2> QED
    BY <2>1, <2>3, <2>4 DEF load_tox, BeginSave
<1> QED
  BY <1>1, <1>2, <1>3

\* Every step preserves the invariant.
LEMMA ProfileNext ==
    ASSUME ReadMayFail = FALSE
    PROVE  PInv /\ [PNext]_profileVars => PInv'
<1> SUFFICES ASSUME PInv, [PNext]_profileVars PROVE PInv'
  OBVIOUS
<1>1. ASSUME UNCHANGED profileVars PROVE PInv'
  <2>1. UNCHANGED <<tox, op, data_file, temp_file, legacy_file, identity, unsaved, mishap>>
    BY <1>1 DEF profileVars, fileVars, historyVars
  <2> QED
    BY <2>1 DEF PInv, PTypes, OpHasProcess, TempIsNew, SavedLeavesFile, IdentityKept,
                IdleMeansSaved, TornExplained, Up, Memory
<1> QED
  BY <1>1, OperationOK, SaveDataOK, StoreDataOK, NameSetOK, KillAndStartOK DEF PNext, FileSteps

-----------------------------------------------------------------------------
(* Theorems *)

\* The invariant holds in every state, whatever file operation fails and
\* whenever the process is killed.
THEOREM ProfileInvariance ==
    ASSUME ReadMayFail = FALSE
    PROVE  PSpec => []PInv
<1>1. PInit => PInv
  BY ProfileInit
<1>2. PInv /\ [PNext]_profileVars => PInv'
  BY ProfileNext
<1> QED
  BY <1>1, <1>2, PTL DEF PSpec

\* The relay never changes its address: save_data and store_data may fail and
\* the process may be killed, but no later process has another identity than
\* the first that was saved completely.
THEOREM IdentitySafe ==
    ASSUME ReadMayFail = FALSE
    PROVE  PSpec => []IdentityKept
<1>1. PInv => IdentityKept
  BY DEF PInv
<1> QED
  BY <1>1, ProfileInvariance, PTL

\* Between two operations the file holds the profile of the process, up to the
\* changes that wait for a save, and it is torn only for a known cause.
THEOREM ProfileSafe ==
    ASSUME ReadMayFail = FALSE
    PROVE  PSpec => []ProfileOnDisk
<1>1. PInv => ProfileOnDisk
  BY DEF PInv, ProfileOnDisk, IdleMeansSaved, TornExplained, Ready, Agrees
<1> QED
  BY <1>1, ProfileInvariance, PTL

=============================================================================
