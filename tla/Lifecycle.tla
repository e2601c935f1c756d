------------------------------ MODULE Lifecycle ------------------------------
(***************************************************************************)
(* The life of the one root config entry (__init__.py) and of the          *)
(* coordinator that polls its sensor subentries (coordinator.py), under    *)
(* everything that happens to them at once: writes from the panel, the     *)
(* config flow and the services, the reload each write queues, the poll    *)
(* loop that suspends in every InfluxDB push, a setup that fails and is    *)
(* retried, a restart of HA, and the snapshot store that is to carry the   *)
(* last readings over.                                                     *)
(*                                                                         *)
(* Everything runs on one event loop: an action is the code between two    *)
(* awaits that can suspend.  Each sensor has one numeric source, whose     *)
(* reading is a value or None; module SensorPoll has the whole pipeline.   *)
(* Home Assistant itself (the config entry manager, its setup lock, the    *)
(* update listeners, the refresh of DataUpdateCoordinator) is modelled     *)
(* from how the code uses it.                                              *)
(***************************************************************************)
EXTENDS SpikeGuard, FiniteSets

CONSTANTS
    Ids,       \* subentry ids
    Configs,   \* data of a subentry, records with the field spike_filter
    Values,    \* readings of a source
    Writes,    \* the kinds of user and system events that occur
    Faults,    \* the kinds of failures that occur
    Backups,   \* snapshots a user may hold from an earlier time
    MaxWrites  \* bound on the number of user and system events

WriteKinds == {"create", "update", "delete", "options", "import", "export",
               "disable", "restart", "subscribe"}
FaultKinds == {"unavailable", "timeout"}

Readings == Values \cup {None}

Snapshot == [entries : [Ids -> Configs \cup {None}], values : [Ids -> Readings]]

ASSUME LifecycleAssumption ==
    /\ IsFiniteSet(Ids)
    /\ Configs \subseteq [spike_filter : BOOLEAN, source : STRING]
    /\ None \notin Configs
    /\ Values \subseteq Int
    /\ Writes \subseteq WriteKinds
    /\ Faults \subseteq FaultKinds
    /\ Backups \subseteq Snapshot
    /\ MaxWrites \in Nat

VARIABLES
    \* What HA keeps for the entry, on disk.
    subentries,    \* entry.subentries: the data of each id, None when absent
    influx,        \* entry.options: both Influx credentials are set
    disabled,      \* the user has disabled the entry
    disk,          \* the snapshot in the Store
    \* How far HA is with the entry.
    phase,
    reloads,       \* reload tasks waiting for entry.setup_lock
    listening,     \* _async_options_updated is registered on the entry
    \* hass.data[DOMAIN]
    coordinator,   \* a coordinator is there
    subentry_data, \* coordinator.subentry_data, None for an absent id
    guard,         \* _last_valid_state of each pipeline
    data,          \* coordinator.data, None for an absent id
    last_update_success,
    exporting,     \* coordinator.influx_exporter is set
    stored,        \* stored_snapshot["values"]
    loaded_store,  \* the Store was loaded in this run of HA
    services,      \* the three services and the sidebar panel are registered
    websocket,     \* the panel's commands are, which nothing ever takes back
    poll,          \* the poll suspended in a push: what is left, what it has
    \* Outside.
    backup,        \* the snapshot the user holds
    watch,         \* the panel's subscription
    writes,        \* number of user and system events so far
    \* History, read by the properties only.
    shown          \* the reading each sensor must not fall below

entryVars == <<subentries, influx, disabled>>
storeVars == <<disk, stored, loaded_store>>
hassVars  == <<phase, reloads, listening>>
pollVars  == <<guard, data, last_update_success, poll, shown>>
coordVars == <<coordinator, subentry_data, exporting, services, websocket>>
userVars  == <<backup, watch, writes>>

vars == <<entryVars, storeVars, hassVars, pollVars, coordVars, userVars>>

Phases ==
    {"off",         \* not loaded, and nobody about to load it
     "setup",       \* about to run async_setup_entry
     "refreshing",  \* awaiting the first refresh of a new coordinator
     "forwarding",  \* awaiting the platforms
     "loaded",
     "unloading",   \* awaiting async_unload_platforms
     "teardown",    \* awaiting the snapshot and the shutdown
     "retry"}       \* ConfigEntryNotReady, HA will try again

-----------------------------------------------------------------------------
(* Helpers.                                                                *)

Nothing   == [i \in Ids |-> None]
Keys(f)   == {i \in Ids : f[i] # None}
NoPoll    == [todo |-> {}, size |-> 0, got |-> Nothing]

Polling   == poll.size > 0
Initially == [entries |-> Nothing, values |-> Nothing]

\* build_snapshot over every configured subentry and the coordinator's data.
CurrentSnapshot ==
    [entries |-> subentries, values |-> IF coordinator THEN data ELSE Nothing]

\* _save_snapshot: in memory and in the Store.
SaveSnapshot ==
    /\ stored' = CurrentSnapshot.values
    /\ disk' = CurrentSnapshot

-----------------------------------------------------------------------------
(* Home Assistant starts with an entry of an earlier run, or a new one.    *)

Init ==
    /\ subentries \in [Ids -> Configs \cup {None}]
    /\ influx \in BOOLEAN
    /\ disabled = FALSE
    /\ disk = Initially
    /\ phase = "setup"
    /\ reloads = 0
    /\ listening = FALSE
    /\ coordinator = FALSE
    /\ subentry_data = Nothing
    /\ guard = Nothing
    /\ data = Nothing
    /\ last_update_success = TRUE
    /\ exporting = FALSE
    /\ stored = Nothing
    /\ loaded_store = FALSE
    /\ services = FALSE
    /\ websocket = FALSE
    /\ poll = NoPoll
    /\ backup \in Backups
    /\ watch = "off"
    /\ writes = 0
    /\ shown = Nothing

-----------------------------------------------------------------------------
(* Setting the entry up.                                                   *)

\* Mutant: subentries the entry no longer has are not pruned.
BeginSetupWithoutPruning ==
    LET seeds == IF loaded_store THEN stored ELSE disk.values
        kept  == [i \in Ids |-> IF subentries[i] = None THEN subentry_data[i]
                                ELSE subentries[i]]
    IN  /\ phase = "setup"
        /\ stored' = seeds
        /\ loaded_store' = TRUE
        /\ coordinator' = TRUE
        /\ exporting' = influx
        /\ subentry_data' = kept
        /\ guard' = [i \in Ids |-> IF subentries[i] = None THEN guard[i] ELSE seeds[i]]
        /\ poll' = IF Polling THEN [poll EXCEPT !.todo = Keys(kept)] ELSE poll
        /\ listening' = TRUE
        /\ phase' = IF coordinator THEN "forwarding" ELSE "refreshing"
        /\ UNCHANGED <<entryVars, disk, reloads, data, last_update_success,
                       services, websocket, shown, userVars>>

\* async_setup_entry up to its first await after the store is loaded: find or
\* create the coordinator, apply the options, prune what the entry no longer
\* has, add everything it has, register the update listener.
BeginSetup ==
    LET seeds == IF loaded_store THEN stored ELSE disk.values
    IN  /\ phase = "setup"
        /\ stored' = seeds
        /\ loaded_store' = TRUE
        /\ coordinator' = TRUE
        /\ exporting' = influx
        /\ subentry_data' = subentries
        /\ guard' = [i \in Ids |-> IF subentries[i] = None THEN None ELSE seeds[i]]
        /\ poll' = IF Polling THEN [poll EXCEPT !.todo = Keys(subentries)] ELSE poll
        /\ listening' = TRUE
        /\ phase' = IF coordinator THEN "forwarding" ELSE "refreshing"
        /\ UNCHANGED <<entryVars, disk, reloads, data, last_update_success,
                       services, websocket, shown, userVars>>

\* HA does not set up an entry that was disabled meanwhile.
SetupRefused ==
    /\ phase = "setup"
    /\ disabled
    /\ phase' = "off"
    /\ UNCHANGED <<entryVars, storeVars, reloads, listening, pollVars, coordVars, userVars>>

\* Mutant: the services are registered by the first setup only.
FinishSetupWithoutServices ==
    /\ phase = "forwarding"
    /\ SaveSnapshot
    /\ websocket' = TRUE
    /\ phase' = "loaded"
    /\ UNCHANGED <<entryVars, loaded_store, reloads, listening, pollVars,
                   coordinator, subentry_data, exporting, services, userVars>>

\* Mutant: only an unload saves the snapshot.
FinishSetupWithoutSnapshot ==
    /\ phase = "forwarding"
    /\ services' = TRUE
    /\ websocket' = TRUE
    /\ phase' = "loaded"
    /\ UNCHANGED <<entryVars, storeVars, reloads, listening, pollVars,
                   coordinator, subentry_data, exporting, userVars>>

\* The rest of async_setup_entry, after the platforms are set up.
FinishSetup ==
    /\ phase = "forwarding"
    /\ SaveSnapshot
    /\ services' = TRUE
    /\ websocket' = TRUE
    /\ phase' = "loaded"
    /\ UNCHANGED <<entryVars, loaded_store, reloads, listening, pollVars,
                   coordinator, subentry_data, exporting, userVars>>

\* HA's timer for an entry that was not ready.
Retry ==
    /\ phase = "retry"
    /\ ~disabled
    /\ phase' = "setup"
    /\ UNCHANGED <<entryVars, storeVars, reloads, listening, pollVars, coordVars, userVars>>

-----------------------------------------------------------------------------
(* Reloading and unloading.                                                *)

\* Mutant: a reload is taken that nobody queued.
BeginReloadUnasked ==
    /\ phase \in {"loaded", "retry", "off"}
    /\ reloads' = reloads - 1
    /\ phase' = IF phase = "loaded" THEN "unloading" ELSE "setup"
    /\ UNCHANGED <<entryVars, storeVars, listening, pollVars, coordVars, userVars>>

\* A queued async_reload gets the setup lock: an entry that is not loaded has
\* nothing to unload.
BeginReload ==
    /\ reloads > 0
    /\ phase \in {"loaded", "retry", "off"}
    /\ reloads' = reloads - 1
    /\ phase' = IF phase = "loaded" THEN "unloading"
                ELSE IF disabled THEN "off" ELSE "setup"
    /\ UNCHANGED <<entryVars, storeVars, listening, pollVars, coordVars, userVars>>

\* Where a completed unload leaves the entry.
Unloaded ==
    /\ listening' = FALSE
    /\ phase' = IF disabled THEN "off" ELSE "setup"

\* Mutant: the coordinator is torn down without a last snapshot.
UnloadEntryWithoutSnapshot ==
    LET rest == [i \in Ids |-> IF subentries[i] = None THEN subentry_data[i] ELSE None]
    IN  /\ phase = "unloading"
        /\ exporting' = FALSE
        /\ subentry_data' = rest
        /\ guard' = [i \in Ids |-> IF rest[i] = None THEN None ELSE guard[i]]
        /\ poll' = IF Polling THEN [poll EXCEPT !.todo = @ \cap Keys(rest)] ELSE poll
        /\ IF Keys(rest) = {}
           THEN phase' = "teardown" /\ UNCHANGED listening
           ELSE Unloaded
        /\ UNCHANGED <<entryVars, storeVars, reloads, data, last_update_success,
                       coordinator, services, websocket, shown, userVars>>

\* async_unload_entry after the platforms: every subentry the entry has now
\* leaves the coordinator.  The ids that stay are those deleted since setup.
UnloadEntry ==
    LET rest == [i \in Ids |-> IF subentries[i] = None THEN subentry_data[i] ELSE None]
    IN  /\ phase = "unloading"
        /\ exporting' = FALSE
        /\ subentry_data' = rest
        /\ guard' = [i \in Ids |-> IF rest[i] = None THEN None ELSE guard[i]]
        /\ poll' = IF Polling THEN [poll EXCEPT !.todo = @ \cap Keys(rest)] ELSE poll
        /\ IF Keys(rest) = {}
           THEN /\ SaveSnapshot
                /\ phase' = "teardown"
                /\ UNCHANGED listening
           ELSE /\ Unloaded
                /\ UNCHANGED <<disk, stored>>
        /\ UNCHANGED <<entryVars, loaded_store, reloads, data, last_update_success,
                       coordinator, services, websocket, shown, userVars>>

\* The coordinator is shut down, and with it go the services and the panel.
TearDown ==
    /\ phase = "teardown"
    /\ Unloaded
    /\ coordinator' = FALSE
    /\ services' = FALSE
    /\ subentry_data' = Nothing
    /\ guard' = Nothing
    /\ data' = Nothing
    /\ last_update_success' = TRUE
    /\ poll' = NoPoll
    /\ watch' = IF watch = "live" THEN "dead" ELSE watch
    /\ UNCHANGED <<entryVars, storeVars, reloads, exporting, websocket, shown, backup, writes>>

-----------------------------------------------------------------------------
(* The poll loop.                                                          *)

\* Mutant: a setup whose first refresh failed waits for a better one.
AfterRefreshWaiting(ok) ==
    IF phase = "refreshing" /\ ok
    THEN phase' = "forwarding" /\ UNCHANGED listening
    ELSE UNCHANGED <<phase, listening>>

\* A setup that awaits the first refresh takes its outcome.
AfterRefresh(ok) ==
    IF phase = "refreshing"
    THEN /\ phase' = IF ok THEN "forwarding" ELSE "retry"
         /\ listening' = ok
    ELSE UNCHANGED <<phase, listening>>

\* One run of _async_update_data from a suspension to the next: the sensors of
\* `batch` show `reading` and go through their pipelines.  With an exporter the
\* loop suspends in the push for the first sensor that has a value, otherwise it
\* gets to the end of `todo` and its result is published.
ProcessBatch(todo, size, got, batch, reading) ==
    LET result == [i \in Ids |-> IF i \in batch
                                 THEN Guarded(subentry_data[i], guard[i], reading[i])
                                 ELSE got[i]]
        alive  == {i \in batch : reading[i] # None}
        pushes == exporting /\ alive # {}
    IN  /\ IF pushes THEN Cardinality(alive) = 1 ELSE batch = todo
        /\ guard' = [i \in Ids |-> IF i \in batch
                                   THEN LastValid(guard[i], result[i]) ELSE guard[i]]
        /\ IF pushes
           THEN /\ poll' = [todo |-> todo \ batch, size |-> size, got |-> result]
                /\ UNCHANGED <<data, last_update_success, phase, listening, shown>>
           ELSE /\ poll' = NoPoll
                /\ data' = result
                /\ last_update_success' = TRUE
                /\ shown' = [i \in Ids |-> IF subentries[i] # None /\ result[i] # None
                                           THEN result[i] ELSE shown[i]]
                /\ AfterRefresh(TRUE)

RunPoll(todo, size, got) ==
    \E batch \in SUBSET todo :
    \E reading \in [batch -> IF "unavailable" \in Faults THEN Readings ELSE Values] :
        ProcessBatch(todo, size, got, batch, reading)

\* _async_update_data raises: DataUpdateCoordinator keeps the data.
PollFails ==
    /\ poll' = NoPoll
    /\ last_update_success' = FALSE
    /\ AfterRefresh(FALSE)
    /\ UNCHANGED <<guard, data, shown>>

\* The timer, or a requested refresh: it may fire whenever a coordinator is
\* there, also between the unload and the setup of a reload that spares it.
BeginPoll ==
    /\ coordinator
    /\ ~Polling
    /\ RunPoll(Keys(subentry_data), Cardinality(Keys(subentry_data)), Nothing)
    /\ UNCHANGED <<entryVars, storeVars, reloads, coordVars, userVars>>

\* A push is done (or failed with an error async_push swallows) and the loop
\* goes on.  The iterator over the dict raises when its size has changed.
PushReturns ==
    /\ Polling
    /\ IF Cardinality(Keys(subentry_data)) # poll.size
       THEN PollFails
       ELSE RunPoll(poll.todo, poll.size, poll.got)
    /\ UNCHANGED <<entryVars, storeVars, reloads, coordVars, userVars>>

\* The 10 s limit of the push expires: asyncio.TimeoutError is no ClientError.
PushTimesOut ==
    /\ "timeout" \in Faults
    /\ Polling
    /\ PollFails
    /\ UNCHANGED <<entryVars, storeVars, reloads, coordVars, userVars>>

-----------------------------------------------------------------------------
(* What users and HA do to the entry.                                      *)

Occurs(kind) ==
    /\ kind \in Writes
    /\ writes < MaxWrites
    /\ writes' = writes + 1

\* Mutant: only an entry that is loaded is reloaded.
EntryUpdatedWhenLoaded(n) == reloads' = reloads + (IF phase = "loaded" THEN n ELSE 0)

\* Every change of the entry makes HA call its update listener, which reloads.
EntryUpdated(n) == reloads' = reloads + (IF listening THEN n ELSE 0)

\* Config flow, or the panel's create command.
CreateSubentry(i, config) ==
    /\ Occurs("create")
    /\ subentries[i] = None
    /\ subentries' = [subentries EXCEPT ![i] = config]
    /\ EntryUpdated(1)
    /\ UNCHANGED <<influx, disabled, storeVars, phase, listening, pollVars, coordVars,
                   backup, watch>>

\* Reconfigure flow, or the panel's update command.
UpdateSubentry(i, config) ==
    /\ Occurs("update")
    /\ subentries[i] \notin {None, config}
    /\ subentries' = [subentries EXCEPT ![i] = config]
    /\ EntryUpdated(1)
    /\ UNCHANGED <<influx, disabled, storeVars, phase, listening, pollVars, coordVars,
                   backup, watch>>

\* HA's delete button, the panel's delete command, or the delete service.
DeleteSubentry(i) ==
    /\ Occurs("delete")
    /\ subentries[i] # None
    /\ subentries' = [subentries EXCEPT ![i] = None]
    /\ shown' = [shown EXCEPT ![i] = None]
    /\ EntryUpdated(1)
    /\ UNCHANGED <<influx, disabled, storeVars, phase, listening,
                   guard, data, last_update_success, poll, coordVars, backup, watch>>

\* The options flow, or the panel's command, which reloads once more by itself.
UpdateOptions(explicit) ==
    /\ Occurs("options")
    /\ influx' = ~influx
    /\ reloads' = reloads + (IF listening THEN 1 ELSE 0) + explicit
    /\ UNCHANGED <<subentries, disabled, storeVars, phase, listening, pollVars, coordVars,
                   backup, watch>>

\* export_data_service: the caller gets the snapshot that was saved.
ExportData ==
    /\ Occurs("export")
    /\ services
    /\ SaveSnapshot
    /\ backup' = CurrentSnapshot
    /\ UNCHANGED <<entryVars, loaded_store, hassVars, pollVars, coordVars, watch>>

\* import_data_service: the payload becomes the stored snapshot, and every
\* subentry it has and the entry lacks is added, each with its own update.
ImportData ==
    LET missing == Keys(backup.entries) \ Keys(subentries)
    IN  /\ Occurs("import")
        /\ services
        /\ disk' = backup
        /\ stored' = backup.values
        /\ subentries' = [i \in Ids |-> IF i \in missing THEN backup.entries[i]
                                        ELSE subentries[i]]
        /\ shown' = [i \in Ids |-> IF i \in missing THEN backup.values[i] ELSE shown[i]]
        /\ EntryUpdated(Cardinality(missing))
        /\ UNCHANGED <<influx, disabled, loaded_store, phase, listening,
                       guard, data, last_update_success, poll, coordVars, backup, watch>>

\* HA disables or enables the entry, and reloads it for that.
ToggleDisabled ==
    /\ Occurs("disable")
    /\ disabled' = ~disabled
    /\ reloads' = reloads + 1
    /\ UNCHANGED <<subentries, influx, storeVars, phase, listening, pollVars, coordVars,
                   backup, watch>>

\* HA stops, cleanly or not, and starts: entries are not unloaded for that, and
\* all that is left is what is on disk.
Restart ==
    /\ Occurs("restart")
    /\ phase' = IF disabled THEN "off" ELSE "setup"
    /\ reloads' = 0
    /\ listening' = FALSE
    /\ coordinator' = FALSE
    /\ subentry_data' = Nothing
    /\ guard' = Nothing
    /\ data' = Nothing
    /\ last_update_success' = TRUE
    /\ exporting' = FALSE
    /\ stored' = Nothing
    /\ loaded_store' = FALSE
    /\ services' = FALSE
    /\ websocket' = FALSE
    /\ poll' = NoPoll
    /\ watch' = "off"
    /\ UNCHANGED <<entryVars, disk, backup, shown>>

\* The panel is opened: abstractor/subentries/subscribe, which listens to the
\* coordinator there is, or to nothing.
Subscribe ==
    /\ Occurs("subscribe")
    /\ websocket
    /\ watch = "off"
    /\ watch' = IF coordinator THEN "live" ELSE "dead"
    /\ UNCHANGED <<entryVars, storeVars, hassVars, pollVars, coordVars, backup>>

-----------------------------------------------------------------------------
Reload == BeginReload \/ UnloadEntry \/ TearDown
Setup  == BeginSetup \/ SetupRefused \/ FinishSetup \/ Retry
Poll   == BeginPoll \/ PushReturns \/ PushTimesOut

WriteSubentry ==
    \E i \in Ids :
        \/ \E config \in Configs : CreateSubentry(i, config) \/ UpdateSubentry(i, config)
        \/ DeleteSubentry(i)

Next ==
    \/ Reload
    \/ Setup
    \/ Poll
    \/ WriteSubentry
    \/ \E explicit \in {0, 1} : UpdateOptions(explicit)
    \/ ExportData
    \/ ImportData
    \/ ToggleDisabled
    \/ Restart
    \/ Subscribe

Spec == Init /\ [][Next]_vars

\* Everything HA and the event loop are bound to do: queued reloads get the
\* lock, setups proceed or are retried, a refresh that is awaited runs, and a
\* push returns or times out.  No fairness for the users.
Fairness ==
    /\ WF_vars(Reload)
    /\ WF_vars(Setup)
    /\ WF_vars(phase = "refreshing" /\ BeginPoll)
    /\ WF_vars(PushReturns \/ PushTimesOut)

FairSpec == Spec /\ Fairness

-----------------------------------------------------------------------------
(* The abstract service: what is polled counts from the setup that reads   *)
(* it to the unload that takes it away.                                    *)

Serving == phase \in {"refreshing", "forwarding", "loaded", "unloading"}

Service == INSTANCE SensorService WITH
    Configurations <- [Ids -> Configs \cup {None}] \X BOOLEAN,
    Down           <- <<>>,
    wanted         <- <<subentries, influx>>,
    served         <- IF Serving THEN <<subentry_data, exporting>> ELSE <<>>,
    up             <- phase = "loaded"

-----------------------------------------------------------------------------
(* Properties.                                                             *)

TypeOK ==
    /\ subentries \in [Ids -> Configs \cup {None}]
    /\ influx \in BOOLEAN
    /\ disabled \in BOOLEAN
    /\ disk \in Snapshot
    /\ phase \in Phases
    /\ reloads \in Nat
    /\ listening \in BOOLEAN
    /\ coordinator \in BOOLEAN
    /\ subentry_data \in [Ids -> Configs \cup {None}]
    /\ guard \in [Ids -> Readings]
    /\ data \in [Ids -> Readings]
    /\ last_update_success \in BOOLEAN
    /\ exporting \in BOOLEAN
    /\ stored \in [Ids -> Readings]
    /\ loaded_store \in BOOLEAN
    /\ services \in BOOLEAN
    /\ websocket \in BOOLEAN
    /\ poll \in [todo : SUBSET Ids, size : Nat, got : [Ids -> Readings]]
    /\ backup \in Snapshot
    /\ watch \in {"off", "live", "dead"}
    /\ writes \in Nat
    /\ shown \in [Ids -> Readings]

\* The coordinator works from the entry as it is now.
InStep == subentry_data = subentries /\ exporting = influx

\* No write is ever lost, whatever the reload is doing when it comes: if what
\* the coordinator polls is not what the entry says, a reload is queued or an
\* unload or a setup is still to read the entry.  A deleted sensor is polled no
\* longer, an edited one by its new configuration (__init__.py:437-457).
NoWriteLost ==
    phase \in {"refreshing", "forwarding", "loaded"} => InStep \/ reloads > 0

\* The services and the panel never outlive the coordinator they work on, and
\* an entry that is off has them only for sensors that were deleted before its
\* unload, which the unload does not take out (__init__.py:533-555).
ServicesHaveCoordinator ==
    /\ services => coordinator
    /\ phase = "off" /\ services => Keys(subentry_data) # {}

\* An entry that is loaded has all its parts, a disabled one is about to be
\* unloaded, and an enabled one is never left unloaded.
LoadedIsComplete ==
    /\ phase = "loaded" => coordinator /\ services /\ listening
    /\ phase = "loaded" /\ disabled => reloads > 0
    /\ phase = "off" /\ ~disabled => reloads > 0
    /\ ServicesHaveCoordinator

\* Once an entry is loaded the snapshot on disk is the one the user has imported,
\* or one of the sensors the entry has, or a reload that will save it is queued:
\* it is saved at the end of every setup (__init__.py:482-508), and a sensor that
\* comes or goes meanwhile finds the update listener registered.
SnapshotFollowsEntry ==
    phase = "loaded" => disk.entries = subentries \/ disk = backup \/ reloads > 0

\* The spike guard of a polled, guarded sensor holds through reloads: what is
\* published is never below what was published before (REQ-COMP-001 and
\* coordinator.py:114-119).
GuardHoldsAcrossReloads ==
    [][\A i \in Ids :
         (/\ subentries[i] # None /\ subentries[i].spike_filter
          /\ subentry_data[i] = subentries[i]
          /\ shown[i] # None /\ shown'[i] # None)
         => ~(shown'[i] < shown[i])]_vars

\* Once users leave the entry alone, it settles: loaded with every sensor of
\* the entry polled as configured, or unloaded if it is disabled.
Settles ==
    <>[](IF disabled THEN phase = "off" ELSE phase = "loaded" /\ InStep /\ reloads = 0)

\* While it is loaded, the integration runs one configuration of the user's, as
\* it was at one instant of the reload, and changes it only by a reload.
ImplementsService == Service!ServiceSpec

-----------------------------------------------------------------------------
(* What the repository says and the code does not do.                      *)

\* "this listener survives the reload that every subentry add/remove triggers"
\* (websocket.py:160-162).
PanelKeepsFollowing == phase = "loaded" /\ watch # "off" => watch = "live"
=============================================================================
