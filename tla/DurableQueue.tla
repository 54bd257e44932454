---------------------------- MODULE DurableQueue ----------------------------
(***************************************************************************)
(* The delivery queue, its mirror on disk (src/mq_persist.c) and the part  *)
(* of the event loop that decides when to write it (src/toxrelayer.c):     *)
(* the dirty flag, the debounced save, the final flush and the restore at  *)
(* start-up.  Everything runs on one thread, so nothing touches the queue  *)
(* while a save is in progress, but each step of a save may fail, and the  *)
(* process may be killed or the machine lose power between any two steps.  *)
(*                                                                         *)
(* Data.  A file is the sequence of its records, the magic and the byte    *)
(* layout being part of "can be read back"; a file that was truncated or   *)
(* only partly reached the device is TornFile, which mq_persist_load       *)
(* rejects as a whole.                                                     *)
(***************************************************************************)
EXTENDS MsgQueue, Sequences

CONSTANT QUEUE_SAVE_INTERVAL    \* seconds between two saves

ASSUME SaveIntervalAssumption == QUEUE_SAVE_INTERVAL \in Nat \ {0}

VARIABLES
    phase,          \* "loop", "flush" (leaving through exit_toxrelayer), "down"
    io,             \* how far mq_persist_save has got, "idle" outside of it
    g_queue_dirty,
    save_age,       \* cur_time - last_queue_save, saturated at the interval
    tmp,            \* the file mq_queue.dat.tmp
    file,           \* the file mq_queue.dat as the running system sees it
    stable,         \* what mq_queue.dat surely is after a loss of power
    arrivals,       \* history: messages accepted so far, numbered 1, 2, ...
    settled,        \* history: messages confirmed or retired
    secured,        \* history: messages that were part of a completed save
    unread          \* history: this process could not read the file it found

diskVars    == <<tmp, file, stable>>
saveVars    == <<g_queue_dirty, save_age>>
auditVars   == <<arrivals, settled, secured, unread>>
durableVars == <<queueVars, phase, io, saveVars, diskVars, auditVars>>

-----------------------------------------------------------------------------
(* Files *)

NoFile      == [kind |-> "none", recs |-> <<>>]
TornFile    == [kind |-> "torn", recs |-> <<>>]
\* "cached": complete for readers, but not yet forced to the device.
Whole(recs)  == [kind |-> "synced", recs |-> recs]
Cached(recs) == [kind |-> "cached", recs |-> recs]

\* What is left of a file when the power fails.
AfterPowerLoss(f) == IF f.kind = "cached" THEN TornFile ELSE f

\* The i-th occupied slot of the walk of mq_foreach.
Visited(i) ==
    CHOOSE s \in Occupied(g_ring) :
        Cardinality({t \in Occupied(g_ring) : VisitedBefore(t, s)}) = i - 1

\* The records mq_foreach hands to mq_save_visit.
Snapshot == [i \in 1 .. g_count |->
               <<g_ring[Visited(i)].friendnum, g_ring[Visited(i)].payload>>]

PayloadsOf(f)   == {f.recs[i][2] : i \in 1 .. Len(f.recs)}
StoredPayloads  == {g_ring[s].payload : s \in Occupied(g_ring)}

-----------------------------------------------------------------------------
(* The event loop between two saves *)

Running == phase = "loop" /\ io = "idle"

\* Calls of the queue that fire the change hook, on_queue_changed.
Changed(gone) ==
    /\ Running
    /\ g_queue_dirty' = TRUE
    /\ settled' = settled \cup gone
    /\ UNCHANGED <<phase, io, save_age, diskVars, secured, unread>>

DEnqueue(f) ==
    /\ arrivals + 1 \in Payloads
    /\ mq_enqueue(f, arrivals + 1)
    /\ arrivals' = arrivals + 1
    /\ Changed({})

DConfirm(f, r) ==
    \E s \in Slots :
        /\ Confirms(f, r, s)
        /\ Remove(s)
        /\ Changed({g_ring[s].payload})
        /\ UNCHANGED arrivals

DRetire ==
    \E s \in Slots :
        /\ mq_service_expire(s) \/ mq_service_exhausted(s) \/ mq_service_fatal(s)
        /\ Changed({g_ring[s].payload})
        /\ UNCHANGED arrivals

\* A delivery attempt that leaves the set of messages as it is.
DAttempt ==
    /\ Running
    /\ \E s \in Slots :
          mq_service_deferred(s) \/ \E r \in Receipts : mq_service_sent(s, r)
    /\ UNCHANGED <<phase, io, saveVars, diskVars, auditVars>>

DTick ==
    /\ Running
    /\ ClockTick
    /\ save_age' = IF save_age < QUEUE_SAVE_INTERVAL THEN save_age + 1 ELSE save_age
    /\ UNCHANGED <<phase, io, g_queue_dirty, diskVars, auditVars>>

\* catch_SIGINT has set FLAG_EXIT: the loop ends and exit_toxrelayer starts.
Quit ==
    /\ Running
    /\ phase' = "flush"
    /\ UNCHANGED <<queueVars, io, saveVars, diskVars, auditVars>>

-----------------------------------------------------------------------------
(* mq_persist_save, one action per system call that matters *)

SaveReturns_AlwaysClean(ok) ==
    /\ io' = "idle"
    /\ IF phase = "flush"
         THEN phase' = "down" /\ UNCHANGED saveVars
         ELSE g_queue_dirty' = FALSE /\ save_age' = 0 /\ UNCHANGED phase

SaveReturns_StillDirty(ok) ==
    /\ io' = "idle"
    /\ IF phase = "flush"
         THEN phase' = "down" /\ UNCHANGED saveVars
         ELSE save_age' = 0 /\ UNCHANGED <<phase, g_queue_dirty>>

\* The caller learns of success or failure.  The loop keeps the dirty flag
\* after a failure but restarts its timer; exit_toxrelayer stops either way.
SaveReturns(ok) ==
    /\ io' = "idle"
    /\ IF phase = "flush"
         THEN phase' = "down" /\ UNCHANGED saveVars
         ELSE /\ g_queue_dirty' = IF ok THEN FALSE ELSE g_queue_dirty
              /\ save_age' = 0
              /\ UNCHANGED phase

\* Any failure before the rename removes the temporary file.
SaveFails ==
    /\ tmp' = NoFile
    /\ SaveReturns(FALSE)
    /\ UNCHANGED <<queueVars, file, stable, auditVars>>

SaveWanted ==
    /\ io = "idle"
    /\ \/ phase = "flush"
       \/ phase = "loop" /\ g_queue_dirty /\ save_age >= QUEUE_SAVE_INTERVAL

\* fopen(tmp, "wb") truncates what an earlier crash may have left.
SaveOpen ==
    /\ SaveWanted
    /\ io' = "opened"
    /\ tmp' = TornFile
    /\ UNCHANGED <<queueVars, phase, saveVars, file, stable, auditVars>>

SaveOpenFails ==
    /\ SaveWanted
    /\ SaveReturns(FALSE)
    /\ UNCHANGED <<queueVars, diskVars, auditVars>>

\* Header, records and fflush.
SaveWrite ==
    /\ io = "opened"
    /\ io' = "written"
    /\ tmp' = Cached(Snapshot)
    /\ UNCHANGED <<queueVars, phase, saveVars, file, stable, auditVars>>

SaveSync_Skipped ==
    /\ io = "written"
    /\ io' = "synced"
    /\ UNCHANGED <<queueVars, phase, saveVars, diskVars, auditVars>>

\* fsync and fclose.
SaveSync ==
    /\ io = "written"
    /\ io' = "synced"
    /\ tmp' = Whole(tmp.recs)
    /\ UNCHANGED <<queueVars, phase, saveVars, file, stable, auditVars>>

SaveRename ==
    /\ io = "synced"
    /\ io' = "renamed"
    /\ file' = tmp
    /\ tmp' = NoFile
    /\ unread' = FALSE
    /\ UNCHANGED <<queueVars, phase, saveVars, stable, arrivals, settled, secured>>

SaveFailsMidway == io \in {"opened", "written", "synced"} /\ SaveFails

\* mq_sync_parent_dir is best effort: the save has succeeded even if the
\* directory entry could not be forced to the device.
SaveSyncDir ==
    /\ io = "renamed"
    /\ \/ stable' = file /\ secured' = secured \cup PayloadsOf(file)
       \/ UNCHANGED <<stable, secured>>
    /\ SaveReturns(TRUE)
    /\ UNCHANGED <<queueVars, tmp, file, arrivals, settled, unread>>

-----------------------------------------------------------------------------
(* Failures and start-up *)

Restored_FirstOnly(recs) ==
    /\ g_ring' = [s \in Slots |->
                    IF s = 0 /\ recs # <<>>
                      THEN PendingEntry(recs[1][1], recs[1][2])
                      ELSE FreeEntry]
    /\ g_head' = 0
    /\ g_count' = IF recs # <<>> THEN 1 ELSE 0
    /\ g_tail' = g_count' % MQ_CAPACITY
    /\ g_in_flight' = 0
    /\ g_queue_dirty' = (recs # <<>>)

\* mq_init followed by one mq_enqueue per record: the records fill the ring
\* from slot 0 on, each with a fresh attempt budget.
Restored(recs) ==
    /\ g_ring' = [s \in Slots |->
                    IF s < Len(recs)
                      THEN PendingEntry(recs[s + 1][1], recs[s + 1][2])
                      ELSE FreeEntry]
    /\ g_head' = 0
    /\ g_tail' = Len(recs) % MQ_CAPACITY
    /\ g_count' = Len(recs)
    /\ g_in_flight' = 0
    /\ g_queue_dirty' = (recs # <<>>)

\* What a process holds in memory is gone with it.
MemoryLost == Restored(<<>>) /\ save_age' = 0

\* The process is killed; the files stay as the system sees them.
ProcessCrash ==
    /\ phase # "down"
    /\ phase' = "down"
    /\ io' = "idle"
    /\ MemoryLost
    /\ UNCHANGED <<diskVars, auditVars>>

\* The machine stops.  A rename that was not forced out may be undone.
PowerLoss ==
    /\ phase' = "down"
    /\ io' = "idle"
    /\ \E f \in {file, stable} :
          /\ file' = AfterPowerLoss(f)
          /\ stable' = AfterPowerLoss(f)
    /\ tmp' = AfterPowerLoss(tmp)
    /\ MemoryLost
    /\ UNCHANGED auditVars

\* main: mq_init, hooks, mq_persist_load.  A missing or torn file has nothing
\* to restore.
Start ==
    /\ phase = "down"
    /\ phase' = "loop"
    /\ save_age' = 0
    /\ Restored(file.recs)
    /\ unread' = FALSE
    /\ UNCHANGED <<io, diskVars, arrivals, settled, secured>>

\* An intact file cannot be read (no memory, a read error).  This is logged at
\* most: the relay runs with an empty queue, and its next save replaces the
\* file.  From here on the messages in the file count on nobody.
StartUnread ==
    /\ phase = "down"
    /\ file.recs # <<>>
    /\ phase' = "loop"
    /\ save_age' = 0
    /\ Restored(<<>>)
    /\ unread' = TRUE
    /\ secured' = secured \ (PayloadsOf(file) \cup PayloadsOf(stable))
    /\ UNCHANGED <<io, diskVars, arrivals, settled>>

-----------------------------------------------------------------------------
DInit ==
    /\ mq_init
    /\ phase = "loop" /\ io = "idle"
    /\ g_queue_dirty = FALSE /\ save_age = 0
    /\ tmp = NoFile /\ file = NoFile /\ stable = NoFile
    /\ arrivals = 0 /\ settled = {} /\ secured = {} /\ unread = FALSE

SaveStep ==
    \/ SaveOpen \/ SaveOpenFails \/ SaveWrite \/ SaveSync \/ SaveRename
    \/ SaveFailsMidway \/ SaveSyncDir

DNext ==
    \/ \E f \in Friends : DEnqueue(f)
    \/ \E f \in Friends, r \in Receipts : DConfirm(f, r)
    \/ DRetire
    \/ DAttempt
    \/ DTick
    \/ Quit
    \/ SaveStep
    \/ ProcessCrash
    \/ PowerLoss
    \/ Start
    \/ StartUnread

DSpec == DInit /\ [][DNext]_durableVars

\* The loop keeps turning and system calls return, successfully or not.
\* Nobody is obliged to restart the relay.
DFairSpec == DSpec /\ WF_durableVars(DTick) /\ WF_durableVars(SaveStep)

-----------------------------------------------------------------------------
(* Properties *)

\* mq_persist.h: "A crash at any point leaves either the previous queue or the
\* new one, never a torn file."  Whatever has failed or crashed so far, the
\* file that the next start reads is absent or complete, on the device too.
NeverTorn ==
    /\ file.kind \in {"none", "synced"}
    /\ stable.kind \in {"none", "synced"}

\* The loop skips a save when the dirty flag is down, so a flag that is down
\* means that the file holds exactly the queue, in the order of the queue, unless
\* the file could not be read in the first place.  The same is true when
\* mq_persist_save is about to return MQ_PERSIST_OK.
CleanMeansMirrored ==
    (io = "renamed" \/ (Running /\ ~g_queue_dirty /\ ~unread)) => file.recs = Snapshot

\* README.md: telegrams still waiting "survive a restart instead of being
\* lost".  A message that was part of a completed save, and of no file that a
\* start failed to read since, is settled, or is in the queue of the running
\* relay and in every file the next start may find.
SavedSurvives ==
    \A p \in secured \ settled :
        /\ phase # "down" => p \in StoredPayloads
        /\ p \in PayloadsOf(file) \cap PayloadsOf(stable)

\* A change of the queue reaches the disk, however the queue goes on changing,
\* unless the relay stops first or saves keep failing for ever.
DirtyIsSaved ==
    <>[][~(SaveOpenFails \/ SaveFailsMidway)]_durableVars =>
        (g_queue_dirty ~> (~g_queue_dirty \/ phase # "loop"))

=============================================================================
