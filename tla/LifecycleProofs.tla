--------------------------- MODULE LifecycleProofs ---------------------------
(***************************************************************************)
(* Theorems about module Lifecycle, for any finite set of sensors, any     *)
(* configurations and readings, and any number of writes.                  *)
(*                                                                         *)
(* The invariant is TypeOK with Wired: how far the setup is, what is       *)
(* registered, and which reloads are queued.                               *)
(* The theorem about the spike guard adds Carried: where the last reading  *)
(* of every sensor is kept.                                                *)
(***************************************************************************)
EXTENDS Lifecycle, FiniteSetTheorems, TLAPS

\* The entry listens to its updates from the moment the coordinator has read it
\* until an unload is over, so a write in between queues a reload; services are
\* registered last and go first; whoever disables or enables the entry queues
\* the reload that acts on it.
Wired ==
    /\ NoWriteLost
    /\ ServicesHaveCoordinator
    /\ phase \in {"refreshing", "retry"} => ~services
    /\ phase = "setup" /\ services => Keys(subentry_data) # {}
    /\ phase \in {"refreshing", "forwarding", "loaded"} => listening /\ coordinator
    /\ phase = "loaded" => services
    /\ phase \in {"setup", "refreshing", "forwarding", "loaded"} /\ disabled => reloads > 0
    /\ phase = "off" /\ ~disabled => reloads > 0

-----------------------------------------------------------------------------
(* Lemmas.                                                                 *)

\* What a poll computes for a sensor is a reading.
LEMMA GuardedType ==
    ASSUME NEW c, NEW last \in Readings, NEW total \in Readings
    PROVE  /\ Guarded(c, last, total) \in Readings
           /\ LastValid(last, total) \in Readings
BY DEF Guarded, LastValid, Readings

\* The sets of ids the actions count are finite.
LEMMA KeysFinite ==
    ASSUME NEW f
    PROVE  /\ Keys(f) \in SUBSET Ids
           /\ IsFiniteSet(Keys(f))
           /\ Cardinality(Keys(f)) \in Nat
BY LifecycleAssumption, FS_Subset, FS_CardinalityType DEF Keys

\* An import that adds a subentry queues a reload for it.
LEMMA MissingCounts ==
    ASSUME NEW f, NEW g
    PROVE  /\ Cardinality(Keys(f) \ Keys(g)) \in Nat
           /\ Keys(f) \ Keys(g) # {} => Cardinality(Keys(f) \ Keys(g)) > 0
<1>1. IsFiniteSet(Keys(f) \ Keys(g))
  BY KeysFinite, FS_Subset
<1>2. QED
  BY <1>1, FS_CardinalityType, FS_EmptySet

\* The constant parts of the state have their types.
LEMMA EmptyTypes ==
    /\ Nothing \in [Ids -> Readings]
    /\ Nothing \in [Ids -> Configs \cup {None}]
    /\ NoPoll \in [todo : SUBSET Ids, size : Nat, got : [Ids -> Readings]]
    /\ Initially \in Snapshot
BY DEF Nothing, NoPoll, Initially, Snapshot, Readings

\* The snapshot that is saved is one.
LEMMA SnapshotType ==
    ASSUME TypeOK
    PROVE  /\ CurrentSnapshot \in Snapshot
           /\ CurrentSnapshot.values \in [Ids -> Readings]
           /\ CurrentSnapshot.entries = subentries
<1>1. (IF coordinator THEN data ELSE Nothing) \in [Ids -> Readings]
  BY EmptyTypes DEF TypeOK
<1>2. QED
  BY <1>1 DEF TypeOK, CurrentSnapshot, Snapshot

\* The steps of the poll loop keep the types of what they change.
LEMMA RunPollType ==
    ASSUME TypeOK,
           NEW todo \in SUBSET Ids, NEW size \in Nat, NEW got \in [Ids -> Readings],
           RunPoll(todo, size, got)
    PROVE  /\ guard' \in [Ids -> Readings]
           /\ data' \in [Ids -> Readings]
           /\ shown' \in [Ids -> Readings]
           /\ poll' \in [todo : SUBSET Ids, size : Nat, got : [Ids -> Readings]]
           /\ last_update_success' \in BOOLEAN
           /\ \/ UNCHANGED <<phase, listening>>
              \/ AfterRefresh(TRUE)
<1>1. PICK batch \in SUBSET todo :
        \E reading \in [batch -> IF "unavailable" \in Faults THEN Readings ELSE Values] :
            ProcessBatch(todo, size, got, batch, reading)
  BY DEF RunPoll
<1>2. PICK reading \in [batch -> IF "unavailable" \in Faults THEN Readings ELSE Values] :
        ProcessBatch(todo, size, got, batch, reading)
  BY <1>1
<1> DEFINE result == [i \in Ids |-> IF i \in batch
                                     THEN Guarded(subentry_data[i], guard[i], reading[i])
                                     ELSE got[i]]
<1>3. \A i \in batch : reading[i] \in Readings
  BY DEF Readings
<1>4. result \in [Ids -> Readings]
  BY <1>3, GuardedType DEF TypeOK
<1>5. guard' = [i \in Ids |-> IF i \in batch THEN LastValid(guard[i], result[i]) ELSE guard[i]]
  BY <1>2 DEF ProcessBatch
<1>6. guard' \in [Ids -> Readings]
  BY <1>4, <1>5, GuardedType DEF TypeOK
<1>7. \/ /\ poll' = [todo |-> todo \ batch, size |-> size, got |-> result]
         /\ UNCHANGED <<data, last_update_success, phase, listening, shown>>
      \/ /\ poll' = NoPoll
         /\ data' = result
         /\ last_update_success' = TRUE
         /\ shown' = [i \in Ids |-> IF subentries[i] # None /\ result[i] # None
                                    THEN result[i] ELSE shown[i]]
         /\ AfterRefresh(TRUE)
  BY <1>2 DEF ProcessBatch
<1> HIDE DEF result
<1>8. CASE /\ poll' = [todo |-> todo \ batch, size |-> size, got |-> result]
           /\ UNCHANGED <<data, last_update_success, phase, listening, shown>>
  <2>1. poll' \in [todo : SUBSET Ids, size : Nat, got : [Ids -> Readings]]
    BY <1>4, <1>8
  <2>2. QED
    BY <1>6, <1>8, <2>1 DEF TypeOK
<1>9. CASE /\ poll' = NoPoll
           /\ data' = result
           /\ last_update_success' = TRUE
           /\ shown' = [i \in Ids |-> IF subentries[i] # None /\ result[i] # None
                                      THEN result[i] ELSE shown[i]]
           /\ AfterRefresh(TRUE)
  <2>1. shown' \in [Ids -> Readings]
    BY <1>4, <1>9 DEF TypeOK
  <2>2. QED
    BY <1>4, <1>6, <1>9, <2>1, EmptyTypes
<1>10. QED
  BY <1>7, <1>8, <1>9

-----------------------------------------------------------------------------
(* Every step keeps the types.                                             *)

LEMMA PollType ==
    ASSUME TypeOK, Poll
    PROVE  TypeOK'
<1> DEFINE Changed ==
        /\ guard' \in [Ids -> Readings]
        /\ data' \in [Ids -> Readings]
        /\ shown' \in [Ids -> Readings]
        /\ poll' \in [todo : SUBSET Ids, size : Nat, got : [Ids -> Readings]]
        /\ last_update_success' \in BOOLEAN
        /\ phase' \in Phases
        /\ listening' \in BOOLEAN
<1>1. ASSUME NEW todo \in SUBSET Ids, NEW size \in Nat, NEW got \in [Ids -> Readings],
             RunPoll(todo, size, got)
      PROVE  Changed
  BY <1>1, RunPollType DEF TypeOK, AfterRefresh, Phases
<1>2. ASSUME PollFails
      PROVE  Changed
  BY <1>2, EmptyTypes DEF PollFails, AfterRefresh, TypeOK, Phases
<1>3. CASE BeginPoll
  <2>1. RunPoll(Keys(subentry_data), Cardinality(Keys(subentry_data)), Nothing)
    BY <1>3 DEF BeginPoll
  <2>2. Changed
    BY <1>1, <2>1, KeysFinite, EmptyTypes
  <2>3. QED
    BY <1>3, <2>2 DEF BeginPoll, TypeOK, entryVars, storeVars, coordVars, userVars
<1>4. CASE PushReturns
  <2>1. PollFails \/ RunPoll(poll.todo, poll.size, poll.got)
    BY <1>4 DEF PushReturns
  <2>2. /\ poll.todo \in SUBSET Ids
        /\ poll.size \in Nat
        /\ poll.got \in [Ids -> Readings]
    BY DEF TypeOK
  <2>3. Changed
    BY <1>1, <1>2, <2>1, <2>2
  <2>4. QED
    BY <1>4, <2>3 DEF PushReturns, TypeOK, entryVars, storeVars, coordVars, userVars
<1>5. CASE PushTimesOut
  <2>1. Changed
    BY <1>2, <1>5 DEF PushTimesOut
  <2>2. QED
    BY <1>5, <2>1 DEF PushTimesOut, TypeOK, entryVars, storeVars, coordVars, userVars
<1>6. QED
  BY <1>3, <1>4, <1>5 DEF Poll

LEMMA SetupType ==
    ASSUME TypeOK, Setup
    PROVE  TypeOK'
<1>1. CASE BeginSetup
  <2> DEFINE seeds == IF loaded_store THEN stored ELSE disk.values
  <2>1. seeds \in [Ids -> Readings]
    BY DEF TypeOK, Snapshot
  <2>2. /\ stored' = seeds
        /\ guard' = [i \in Ids |-> IF subentries[i] = None THEN None ELSE seeds[i]]
        /\ poll' = IF Polling THEN [poll EXCEPT !.todo = Keys(subentries)] ELSE poll
    BY <1>1 DEF BeginSetup
  <2> HIDE DEF seeds
  <2>3. guard' \in [Ids -> Readings]
    BY <2>1, <2>2 DEF Readings
  <2>4. poll' \in [todo : SUBSET Ids, size : Nat, got : [Ids -> Readings]]
    BY <2>2, KeysFinite DEF TypeOK
  <2>5. phase' \in Phases
    BY <1>1 DEF BeginSetup, Phases
  <2>6. QED
    BY <1>1, <2>1, <2>2, <2>3, <2>4, <2>5 DEF BeginSetup, TypeOK, entryVars, userVars
<1>2. CASE SetupRefused
  BY <1>2 DEF SetupRefused, TypeOK, Phases, entryVars, storeVars, pollVars, coordVars, userVars
<1>3. CASE FinishSetup
  <2>1. disk' \in Snapshot /\ stored' \in [Ids -> Readings]
    BY <1>3, SnapshotType DEF FinishSetup, SaveSnapshot
  <2>2. QED
    BY <1>3, <2>1 DEF FinishSetup, TypeOK, Phases, entryVars, pollVars, userVars
<1>4. CASE Retry
  BY <1>4 DEF Retry, TypeOK, Phases, entryVars, storeVars, pollVars, coordVars, userVars
<1>5. QED
  BY <1>1, <1>2, <1>3, <1>4 DEF Setup

LEMMA ReloadType ==
    ASSUME TypeOK, Reload
    PROVE  TypeOK'
<1>1. CASE BeginReload
  BY <1>1 DEF BeginReload, TypeOK, Phases, entryVars, storeVars, pollVars, coordVars, userVars
<1>2. CASE UnloadEntry
  <2> DEFINE rest == [i \in Ids |-> IF subentries[i] = None THEN subentry_data[i] ELSE None]
  <2>1. rest \in [Ids -> Configs \cup {None}]
    BY DEF TypeOK
  <2>2. /\ subentry_data' = rest
        /\ guard' = [i \in Ids |-> IF rest[i] = None THEN None ELSE guard[i]]
        /\ poll' = IF Polling THEN [poll EXCEPT !.todo = @ \cap Keys(rest)] ELSE poll
        /\ \/ SaveSnapshot /\ phase' = "teardown" /\ UNCHANGED listening
           \/ Unloaded /\ UNCHANGED <<disk, stored>>
    BY <1>2 DEF UnloadEntry
  <2> HIDE DEF rest
  <2>3. guard' \in [Ids -> Readings]
    BY <2>1, <2>2 DEF TypeOK, Readings
  <2>4. poll' \in [todo : SUBSET Ids, size : Nat, got : [Ids -> Readings]]
    BY <2>2 DEF TypeOK
  <2>5. /\ phase' \in Phases /\ listening' \in BOOLEAN
        /\ disk' \in Snapshot /\ stored' \in [Ids -> Readings]
    BY <2>2, SnapshotType DEF SaveSnapshot, Unloaded, TypeOK, Phases
  <2>6. QED
    BY <1>2, <2>1, <2>2, <2>3, <2>4, <2>5 DEF UnloadEntry, TypeOK, entryVars, userVars
<1>3. CASE TearDown
  BY <1>3, EmptyTypes DEF TearDown, Unloaded, TypeOK, Phases, entryVars, storeVars
<1>4. QED
  BY <1>1, <1>2, <1>3 DEF Reload

LEMMA UserType ==
    ASSUME TypeOK,
           \/ WriteSubentry
           \/ \E explicit \in {0, 1} : UpdateOptions(explicit)
           \/ ExportData \/ ImportData \/ ToggleDisabled \/ Restart \/ Subscribe
    PROVE  TypeOK'
<1> USE DEF Occurs, EntryUpdated, entryVars, storeVars, hassVars, pollVars, coordVars
<1>1. CASE WriteSubentry
  <2>1. PICK i \in Ids :
          \/ \E config \in Configs : CreateSubentry(i, config) \/ UpdateSubentry(i, config)
          \/ DeleteSubentry(i)
    BY <1>1 DEF WriteSubentry
  <2>2. ASSUME NEW config \in Configs,
               CreateSubentry(i, config) \/ UpdateSubentry(i, config)
        PROVE  TypeOK'
    BY <2>2 DEF CreateSubentry, UpdateSubentry, TypeOK
  <2>3. CASE DeleteSubentry(i)
    BY <2>3 DEF DeleteSubentry, TypeOK, Readings
  <2>4. QED
    BY <2>1, <2>2, <2>3
<1>2. ASSUME NEW explicit \in {0, 1}, UpdateOptions(explicit)
      PROVE  TypeOK'
  BY <1>2 DEF UpdateOptions, TypeOK
<1>3. CASE ExportData
  <2>1. /\ disk' \in Snapshot /\ stored' \in [Ids -> Readings]
        /\ backup' \in Snapshot
    BY <1>3, SnapshotType DEF ExportData, SaveSnapshot
  <2>2. QED
    BY <1>3, <2>1 DEF ExportData, TypeOK
<1>4. CASE ImportData
  <2> DEFINE missing == Keys(backup.entries) \ Keys(subentries)
  <2>1. backup.entries \in [Ids -> Configs \cup {None}] /\ backup.values \in [Ids -> Readings]
    BY DEF TypeOK, Snapshot
  <2>2. /\ subentries' = [i \in Ids |-> IF i \in missing THEN backup.entries[i]
                                       ELSE subentries[i]]
        /\ shown' = [i \in Ids |-> IF i \in missing THEN backup.values[i] ELSE shown[i]]
        /\ reloads' = reloads + (IF listening THEN Cardinality(missing) ELSE 0)
    BY <1>4 DEF ImportData
  <2>3. Cardinality(missing) \in Nat
    BY MissingCounts
  <2> HIDE DEF missing
  <2>4. /\ subentries' \in [Ids -> Configs \cup {None}]
        /\ shown' \in [Ids -> Readings]
        /\ reloads' \in Nat
    BY <2>1, <2>2, <2>3 DEF TypeOK
  <2>5. QED
    BY <1>4, <2>1, <2>4 DEF ImportData, TypeOK
<1>5. CASE ToggleDisabled
  BY <1>5 DEF ToggleDisabled, TypeOK
<1>6. CASE Restart
  <2>1. phase' \in Phases /\ writes' \in Nat
    BY <1>6 DEF Restart, TypeOK, Phases
  <2>2. /\ subentry_data' \in [Ids -> Configs \cup {None}]
        /\ guard' \in [Ids -> Readings]
        /\ data' \in [Ids -> Readings]
        /\ stored' \in [Ids -> Readings]
        /\ poll' \in [todo : SUBSET Ids, size : Nat, got : [Ids -> Readings]]
    BY <1>6, EmptyTypes DEF Restart
  <2>3. QED
    BY <1>6, <2>1, <2>2 DEF Restart, TypeOK
<1>7. CASE Subscribe
  BY <1>7 DEF Subscribe, TypeOK
<1>8. QED
  BY <1>1, <1>2, <1>3, <1>4, <1>5, <1>6, <1>7

-----------------------------------------------------------------------------
(* The invariant.                                                          *)

\* A poll changes nothing of the entry or the wiring but, when a setup awaits
\* it, the phase.
LEMMA PollFrame ==
    ASSUME TypeOK, Poll
    PROVE  /\ UNCHANGED <<entryVars, storeVars, reloads, coordVars, userVars>>
           /\ UNCHANGED <<phase, listening>> \/ AfterRefresh(TRUE) \/ AfterRefresh(FALSE)
<1>1. UNCHANGED <<entryVars, storeVars, reloads, coordVars, userVars>>
  BY DEF Poll, BeginPoll, PushReturns, PushTimesOut
<1>2. /\ poll.todo \in SUBSET Ids
      /\ poll.size \in Nat
      /\ poll.got \in [Ids -> Readings]
  BY DEF TypeOK
<1>3. \/ PollFails
      \/ RunPoll(poll.todo, poll.size, poll.got)
      \/ RunPoll(Keys(subentry_data), Cardinality(Keys(subentry_data)), Nothing)
  BY DEF Poll, BeginPoll, PushReturns, PushTimesOut
<1>4. UNCHANGED <<phase, listening>> \/ AfterRefresh(TRUE) \/ AfterRefresh(FALSE)
  BY <1>2, <1>3, RunPollType, KeysFinite, EmptyTypes DEF PollFails
<1>5. QED
  BY <1>1, <1>4

LEMMA WiredStep ==
    ASSUME TypeOK, Wired, [Next]_vars
    PROVE  Wired'
<1> USE DEF Wired, NoWriteLost, InStep, ServicesHaveCoordinator
<1> USE DEF entryVars, storeVars, hassVars, pollVars, coordVars, userVars
<1>1. CASE BeginSetup
  BY <1>1 DEF BeginSetup
<1>2. CASE SetupRefused
  BY <1>2 DEF SetupRefused
<1>3. CASE FinishSetup
  BY <1>3 DEF FinishSetup
<1>4. CASE Retry
  BY <1>4 DEF Retry
<1>5. CASE BeginReload
  <2>1. /\ phase \in {"loaded", "retry", "off"}
        /\ \/ phase = "loaded" /\ phase' = "unloading"
           \/ phase # "loaded" /\ phase' = (IF disabled THEN "off" ELSE "setup")
    BY <1>5 DEF BeginReload
  <2>2. UNCHANGED <<disabled, coordinator, services, subentry_data>>
    BY <1>5 DEF BeginReload
  <2>3. services => coordinator
    OBVIOUS
  <2>4. phase' \in {"off", "setup"} /\ services => Keys(subentry_data) # {}
    BY <2>1
  <2>5. QED
    BY <1>5, <2>1, <2>2, <2>3, <2>4 DEF BeginReload
<1>6. CASE UnloadEntry
  <2>1. phase' = "teardown" \/ phase' = (IF disabled THEN "off" ELSE "setup")
    BY <1>6 DEF UnloadEntry, Unloaded
  <2>2. UNCHANGED <<disabled, coordinator, services, reloads>>
    BY <1>6 DEF UnloadEntry
  <2>3. QED
    BY <1>6, <2>1, <2>2 DEF UnloadEntry
<1>7. CASE TearDown
  BY <1>7 DEF TearDown, Unloaded
<1>8. CASE Poll
  <2>1. UNCHANGED <<subentries, influx, disabled, reloads, coordinator, subentry_data,
                    exporting, services>>
    BY <1>8, PollFrame
  <2>2. \/ UNCHANGED <<phase, listening>>
        \/ phase = "refreshing" /\ phase' = "forwarding" /\ listening' = TRUE
        \/ phase = "refreshing" /\ phase' = "retry"
    BY <1>8, PollFrame DEF AfterRefresh
  <2>3. QED
    BY <2>1, <2>2
<1>9. CASE WriteSubentry
  BY <1>9 DEF WriteSubentry, CreateSubentry, UpdateSubentry, DeleteSubentry, EntryUpdated, TypeOK
<1>10. ASSUME NEW explicit \in {0, 1}, UpdateOptions(explicit)
       PROVE  Wired'
  BY <1>10 DEF UpdateOptions, TypeOK
<1>11. CASE ExportData
  BY <1>11 DEF ExportData
<1>12. CASE ImportData
  <2> DEFINE missing == Keys(backup.entries) \ Keys(subentries)
  <2>1. /\ Cardinality(missing) \in Nat
        /\ missing # {} => Cardinality(missing) > 0
    BY MissingCounts
  <2>2. /\ subentries' = [i \in Ids |-> IF i \in missing THEN backup.entries[i]
                                       ELSE subentries[i]]
        /\ reloads' = reloads + (IF listening THEN Cardinality(missing) ELSE 0)
    BY <1>12 DEF ImportData, EntryUpdated
  <2> HIDE DEF missing
  <2>3. missing = {} => subentries' = subentries
    BY <2>2 DEF TypeOK
  <2>4. QED
    BY <1>12, <2>1, <2>2, <2>3 DEF ImportData, TypeOK
<1>13. CASE ToggleDisabled
  BY <1>13 DEF ToggleDisabled, TypeOK
<1>14. CASE Restart
  BY <1>14 DEF Restart
<1>15. CASE Subscribe
  BY <1>15 DEF Subscribe
<1>16. CASE UNCHANGED vars
  BY <1>16 DEF vars
<1>17. QED
  BY <1>1, <1>2, <1>3, <1>4, <1>5, <1>6, <1>7, <1>8, <1>9, <1>10, <1>11, <1>12,
     <1>13, <1>14, <1>15, <1>16 DEF Next, Reload, Setup

LEMMA TypeStep ==
    ASSUME TypeOK, [Next]_vars
    PROVE  TypeOK'
<1>1. CASE UNCHANGED vars
  BY <1>1 DEF TypeOK, vars, entryVars, storeVars, hassVars, pollVars, coordVars, userVars
<1>2. QED
  BY <1>1, PollType, SetupType, ReloadType, UserType DEF Next

LEMMA Initialised ==
    Init => TypeOK /\ Wired
<1> SUFFICES ASSUME Init PROVE TypeOK /\ Wired
  OBVIOUS
<1>1. backup \in Snapshot
  BY LifecycleAssumption DEF Init
<1>2. TypeOK
  BY <1>1, EmptyTypes DEF Init, TypeOK, Phases
<1>3. Wired
  BY DEF Init, Wired, NoWriteLost, ServicesHaveCoordinator
<1>4. QED
  BY <1>2, <1>3

-----------------------------------------------------------------------------
(* The theorems.                                                           *)

\* The state of the entry and the coordinator is always of its type, for every
\* number of sensors and writes.
THEOREM TypeCorrect == Spec => []TypeOK
<1>1. Init => TypeOK
  BY Initialised
<1>2. TypeOK /\ [Next]_vars => TypeOK'
  BY TypeStep
<1>3. QED
  BY <1>1, <1>2, PTL DEF Spec

\* The wiring of the entry holds in every reachable state.
THEOREM AlwaysWired == Spec => []Wired
<1>1. Init => Wired
  BY Initialised
<1>2. TypeOK /\ Wired /\ [Next]_vars => Wired'
  BY WiredStep
<1>3. QED
  BY <1>1, <1>2, TypeCorrect, PTL DEF Spec

\* However writes, reloads, failed setups and restarts interleave, the coordinator
\* polls what the entry says or a reload is queued (__init__.py:437-457).
THEOREM WritesSurvive == Spec => []NoWriteLost
<1>1. Wired => NoWriteLost
  BY DEF Wired
<1>2. QED
  BY <1>1, AlwaysWired, PTL

\* A loaded entry has all its parts, disabling or enabling it is never forgotten,
\* and services and panel go with the coordinator (__init__.py:407-555).
THEOREM LoadedComplete == Spec => []LoadedIsComplete
<1>1. Wired => LoadedIsComplete
  BY DEF Wired, LoadedIsComplete
<1>2. QED
  BY <1>1, AlwaysWired, PTL

\* The snapshot on disk follows the sensors of the entry, or is the one imported:
\* every setup saves it last, and every write after that queues a reload.
THEOREM SnapshotFollows == Spec => []SnapshotFollowsEntry
<1>1. Init => SnapshotFollowsEntry
  BY DEF Init, SnapshotFollowsEntry
<1>2. ASSUME TypeOK, Wired, SnapshotFollowsEntry, [Next]_vars
      PROVE  SnapshotFollowsEntry'
  <2> USE DEF SnapshotFollowsEntry
  <2> USE DEF entryVars, storeVars, hassVars, pollVars, coordVars, userVars
  <2>1. CASE FinishSetup \/ ExportData
    BY <1>2, <2>1, SnapshotType DEF FinishSetup, ExportData, SaveSnapshot, TypeOK
  <2>2. CASE BeginSetup \/ SetupRefused \/ Retry \/ Reload \/ Restart
    BY <2>2 DEF BeginSetup, SetupRefused, Retry, Reload, BeginReload, UnloadEntry, TearDown,
                Unloaded, Restart
  <2>3. CASE Poll
    BY <1>2, <2>3, PollFrame DEF AfterRefresh
  <2>4. CASE WriteSubentry
    BY <1>2, <2>4 DEF Wired, WriteSubentry, CreateSubentry, UpdateSubentry, DeleteSubentry,
                      EntryUpdated, TypeOK
  <2>5. CASE (\E explicit \in {0, 1} : UpdateOptions(explicit)) \/ ToggleDisabled \/ Subscribe
    BY <1>2, <2>5 DEF UpdateOptions, ToggleDisabled, Subscribe, TypeOK
  <2>6. CASE ImportData
    BY <2>6 DEF ImportData
  <2>7. CASE UNCHANGED vars
    BY <1>2, <2>7 DEF vars
  <2>8. QED
    BY <1>2, <2>1, <2>2, <2>3, <2>4, <2>5, <2>6, <2>7 DEF Next, Setup
<1>3. QED
  BY <1>1, <1>2, TypeCorrect, AlwaysWired, PTL DEF Spec

-----------------------------------------------------------------------------
(* The refinement.                                                         *)

LEMMA ServiceStep ==
    ASSUME TypeOK, TypeOK', [Next]_vars
    PROVE  [Service!ServiceNext]_<<<<subentries, influx>>,
               IF Serving THEN <<subentry_data, exporting>> ELSE <<>>, phase = "loaded">>
<1> DEFINE Wanted == <<subentries, influx>>
           Served == IF Serving THEN <<subentry_data, exporting>> ELSE <<>>
           Up     == phase = "loaded"
<1> USE DEF entryVars, storeVars, hassVars, pollVars, coordVars, userVars, Serving
<1>1. CASE BeginSetup
  <2>1. ~Up /\ Served' = Wanted /\ Wanted' = Wanted /\ Up' = Up
    BY <1>1 DEF BeginSetup
  <2>2. QED
    BY <2>1 DEF Service!ServiceNext, Service!TakeUp
<1>2. CASE SetupRefused \/ Retry \/ TearDown \/ ExportData \/ ToggleDisabled \/ Subscribe
  BY <1>2 DEF SetupRefused, Retry, TearDown, Unloaded, ExportData, ToggleDisabled, Subscribe
<1>3. CASE FinishSetup
  <2>1. ~Up /\ Served # <<>> /\ Up' /\ Wanted' = Wanted /\ Served' = Served
    BY <1>3 DEF FinishSetup
  <2>2. QED
    BY <2>1 DEF Service!ServiceNext, Service!ComeUp
<1>4. CASE BeginReload \/ UnloadEntry \/ Restart \/ Poll
  <2>1. UNCHANGED <<Wanted, Served, Up>> \/ (~Up' /\ Served' \in {Served, <<>>} /\ Wanted' = Wanted)
    <3>1. CASE BeginReload
      BY <3>1 DEF BeginReload
    <3>2. CASE UnloadEntry
      BY <3>2 DEF UnloadEntry, Unloaded
    <3>3. CASE Restart
      BY <3>3 DEF Restart
    <3>4. CASE Poll
      BY <3>4, PollFrame DEF AfterRefresh
    <3>5. QED
      BY <1>4, <3>1, <3>2, <3>3, <3>4
  <2>2. QED
    BY <2>1 DEF Service!ServiceNext, Service!GoDown
<1>5. CASE \/ WriteSubentry
           \/ \E explicit \in {0, 1} : UpdateOptions(explicit)
           \/ ImportData
  <2>1. UNCHANGED <<Served, Up>>
    BY <1>5 DEF WriteSubentry, CreateSubentry, UpdateSubentry, DeleteSubentry,
                UpdateOptions, ImportData
  <2>2. Wanted' \in [Ids -> Configs \cup {None}] \X BOOLEAN
    BY DEF TypeOK
  <2>3. QED
    BY <2>1, <2>2 DEF Service!ServiceNext, Service!Ask
<1>6. CASE UNCHANGED vars
  BY <1>6 DEF vars
<1>7. QED
  BY <1>1, <1>2, <1>3, <1>4, <1>5, <1>6 DEF Next, Reload, Setup

\* Lifecycle implements SensorService: what is polled while the integration is up
\* is one configuration of the user's, whole, and changes only by going down.
THEOREM LifecycleImplementsService == Spec => ImplementsService
<1>1. Init => Service!ServiceInit
  BY DEF Init, Service!ServiceInit, Serving
<1>2. TypeOK /\ TypeOK' /\ [Next]_vars => [Service!ServiceNext]_(Service!serviceVars)
  BY ServiceStep DEF Service!serviceVars
<1>3. QED
  BY <1>1, <1>2, TypeCorrect, PTL DEF Spec, ImplementsService, Service!ServiceSpec

-----------------------------------------------------------------------------
(* The spike guard across reloads.                                         *)

\* The phases in which the coordinator has published a poll.
Published == {"forwarding", "loaded", "unloading"}

\* The guard of a sensor with the spike filter is not below what it has shown.
AheadOf(entries, guards, readings) ==
    \A i \in Keys(entries) :
        entries[i].spike_filter /\ readings[i] # None
          => guards[i] # None /\ ~(guards[i] < readings[i])

\* A poll that is suspended, or about to start: what it has got is in the guards.
Underway(entries, guards, todo, size, got) ==
    /\ size = Cardinality(Keys(entries))
    /\ todo \subseteq Keys(entries)
    /\ \A i \in Ids : IF i \in Keys(entries) \ todo
                      THEN guards[i] # None /\ got[i] = guards[i]
                      ELSE got[i] = None

\* What carries a reading over a reload: while the coordinator has published,
\* its data is what was shown; the unload stores that, and from there, until the
\* next poll is published, the store has it.  The setup seeds the guards from the
\* store, and polls only raise them.  It depends on nothing that loses data
\* between a publication and the store: no sensor leaves (an unload that spares
\* the coordinator stores nothing), every refresh that a setup awaits succeeds (a
\* second setup finds a coordinator without data and stores that), no export while
\* the coordinator is torn down, no import and no restart.
Carried ==
    /\ phase # "retry"
    /\ coordinator <=> Serving \/ phase = "teardown"
    /\ Polling => coordinator
    /\ loaded_store \/ phase \in {"setup", "off"}
    /\ Keys(subentry_data) \cup Keys(shown) \subseteq Keys(subentries)
    /\ IF Serving THEN Keys(shown) \subseteq Keys(subentry_data) ELSE subentry_data = Nothing
    /\ phase \in Published => data = shown
    /\ phase \notin Published =>
         IF loaded_store THEN stored = shown ELSE shown = Nothing /\ disk.values = Nothing
    /\ Serving => AheadOf(subentry_data, guard, shown)
    /\ Serving /\ Polling =>
         Underway(subentry_data, guard, poll.todo, poll.size, poll.got)

\* One step of the property.
NoDrop ==
    \A i \in Ids :
        (/\ subentries[i] # None /\ subentries[i].spike_filter
         /\ subentry_data[i] = subentries[i]
         /\ shown[i] # None /\ shown'[i] # None)
        => ~(shown'[i] < shown[i])

\* What the guard makes of a reading.
LEMMA ReadingFacts ==
    ASSUME NEW c, NEW last \in Readings, NEW total \in Values
    PROVE  /\ Guarded(c, last, total) # None
           /\ LastValid(last, Guarded(c, last, total)) = Guarded(c, last, total)
           /\ c.spike_filter /\ last # None => ~(Guarded(c, last, total) < last)
<1>1. total \in Int /\ (last # None => last \in Int)
  BY LifecycleAssumption DEF Readings
<1>2. total # None
  BY <1>1, NoneIsNoNumber
<1>3. CASE Spikes(c, last, total)
  <2>1. last # None /\ Guarded(c, last, total) = last
    BY <1>3 DEF Spikes, Guarded
  <2>2. ~(last < last)
    BY <1>1, <2>1
  <2>3. QED
    BY <2>1, <2>2 DEF LastValid
<1>4. CASE ~Spikes(c, last, total)
  <2>1. Guarded(c, last, total) = total
    BY <1>4 DEF Guarded
  <2>2. c.spike_filter /\ last # None => ~(total < last)
    BY <1>2, <1>4 DEF Spikes
  <2>3. QED
    BY <1>2, <2>1, <2>2 DEF LastValid
<1>5. QED
  BY <1>3, <1>4

\* What a stretch of a poll reads, and makes of it.
Reads(batch, now) == \A i \in batch : now[i] \in Values

ResultOf(entries, guards, batch, now, got) ==
    [i \in Ids |-> IF i \in batch THEN Guarded(entries[i], guards[i], now[i]) ELSE got[i]]

GuardsAfter(guards, batch, result) ==
    [i \in Ids |-> IF i \in batch THEN LastValid(guards[i], result[i]) ELSE guards[i]]

\* A stretch of a poll takes sensors from what is left to what is got.
LEMMA BatchCarries ==
    ASSUME NEW entries, NEW guards \in [Ids -> Readings], NEW readings \in [Ids -> Readings],
           NEW todo, NEW size, NEW got,
           Underway(entries, guards, todo, size, got), AheadOf(entries, guards, readings),
           NEW batch \in SUBSET todo, NEW now, Reads(batch, now),
           NEW result, result = ResultOf(entries, guards, batch, now, got),
           NEW after, after = GuardsAfter(guards, batch, result)
    PROVE  /\ Underway(entries, after, todo \ batch, size, result)
           /\ AheadOf(entries, after, readings)
<1> USE DEF Reads, ResultOf, GuardsAfter
<1>1. todo \subseteq Keys(entries) /\ Keys(entries) \subseteq Ids
  BY DEF Underway, Keys
<1>2. ASSUME NEW i \in batch
      PROVE  /\ result[i] # None /\ after[i] = result[i]
             /\ entries[i].spike_filter /\ guards[i] # None => ~(after[i] < guards[i])
  <2>1. i \in Ids
    BY <1>1
  <2>2. guards[i] \in Readings /\ now[i] \in Values
    BY <2>1
  <2>3. PICK r, last : r = Guarded(entries[i], last, now[i]) /\ last = guards[i]
    OBVIOUS
  <2>4. result[i] = r /\ after[i] = LastValid(last, r)
    BY <2>1, <2>3
  <2>5. /\ r # None /\ LastValid(last, r) = r
        /\ entries[i].spike_filter /\ last # None => ~(r < last)
    BY <2>2, <2>3, ReadingFacts
  <2>6. QED
    BY <2>3, <2>4, <2>5
<1>3. ASSUME NEW i \in Ids, i \notin batch
      PROVE  result[i] = got[i] /\ after[i] = guards[i]
  BY <1>3
<1>4. Underway(entries, after, todo \ batch, size, result)
  <2>1. size = Cardinality(Keys(entries)) /\ todo \ batch \subseteq Keys(entries)
    BY DEF Underway
  <2>2. ASSUME NEW i \in Ids
        PROVE  IF i \in Keys(entries) \ (todo \ batch)
               THEN after[i] # None /\ result[i] = after[i]
               ELSE result[i] = None
    <3>1. CASE i \in batch
      BY <1>1, <1>2, <3>1
    <3>2. CASE i \notin batch
      BY <1>3, <3>2 DEF Underway
    <3>3. QED
      BY <3>1, <3>2
  <2>3. QED
    BY <2>1, <2>2 DEF Underway
<1>5. AheadOf(entries, after, readings)
  <2>1. ASSUME NEW i \in Keys(entries), entries[i].spike_filter, readings[i] # None
        PROVE  after[i] # None /\ ~(after[i] < readings[i])
    <3>1. guards[i] # None /\ ~(guards[i] < readings[i])
      BY <2>1 DEF AheadOf
    <3>2. CASE i \in batch
      <4>1. after[i] # None /\ ~(after[i] < guards[i])
        BY <1>2, <2>1, <3>1, <3>2
      <4>2. /\ guards[i] \in Int /\ readings[i] \in Int
        BY <1>1, <2>1, <3>1, LifecycleAssumption DEF Readings
      <4>3. after[i] \in Int
        <5>1. now[i] \in Int
          BY <3>2, LifecycleAssumption
        <5>2. after[i] \in {guards[i], now[i]}
          BY <1>1, <1>2, <2>1, <3>2 DEF Guarded
        <5>3. QED
          BY <4>2, <5>1, <5>2
      <4>4. PICK x, y, z : x = after[i] /\ y = guards[i] /\ z = readings[i]
        OBVIOUS
      <4>5. x \in Int /\ y \in Int /\ z \in Int /\ ~(x < y) /\ ~(y < z)
        BY <3>1, <4>1, <4>2, <4>3, <4>4
      <4>6. ~(x < z)
        BY <4>5
      <4>7. QED
        BY <4>1, <4>4, <4>6
    <3>3. CASE i \notin batch
      BY <1>1, <1>3, <2>1, <3>1, <3>3
    <3>4. QED
      BY <3>2, <3>3
  <2>2. QED
    BY <2>1 DEF AheadOf
<1>6. QED
  BY <1>4, <1>5

\* The hypotheses of the theorem: every source and every push answers, and the
\* users write nothing that takes a reading away.
Answering == Faults = {}

Undisturbed == Writes \subseteq {"create", "update", "options", "disable", "subscribe"}

\* A reading is not below itself.
LEMMA ShownNumbers ==
    ASSUME TypeOK
    PROVE  \A i \in Ids : shown[i] # None => shown[i] \in Int /\ ~(shown[i] < shown[i])
<1>1. ASSUME NEW i \in Ids, shown[i] # None
      PROVE  shown[i] \in Int /\ ~(shown[i] < shown[i])
  <2>1. PICK x : x = shown[i]
    OBVIOUS
  <2>2. x \in Int
    BY <1>1, <2>1, LifecycleAssumption DEF TypeOK, Readings
  <2>3. ~(x < x)
    BY <2>2
  <2>4. QED
    BY <2>1, <2>2, <2>3
<1>2. QED
  BY <1>1

\* A stretch of a poll of a coordinator that serves.
LEMMA StretchCarries ==
    ASSUME TypeOK, Serving, Answering, AheadOf(subentry_data, guard, shown),
           NEW todo \in SUBSET Ids, NEW size \in Nat, NEW got \in [Ids -> Readings],
           Underway(subentry_data, guard, todo, size, got), RunPoll(todo, size, got)
    PROVE  /\ AheadOf(subentry_data, guard', shown)
           /\ \/ /\ UNCHANGED <<data, phase, shown>>
                 /\ Underway(subentry_data, guard', poll'.todo, poll'.size, poll'.got)
              \/ \E result :
                   /\ Underway(subentry_data, guard', {}, size, result)
                   /\ poll' = NoPoll /\ data' = result
                   /\ shown' = [i \in Ids |-> IF subentries[i] # None /\ result[i] # None
                                              THEN result[i] ELSE shown[i]]
                   /\ AfterRefresh(TRUE)
<1>1. PICK batch \in SUBSET todo :
        \E reading \in [batch -> IF "unavailable" \in Faults THEN Readings ELSE Values] :
            ProcessBatch(todo, size, got, batch, reading)
  BY DEF RunPoll
<1>2. PICK reading \in [batch -> IF "unavailable" \in Faults THEN Readings ELSE Values] :
        ProcessBatch(todo, size, got, batch, reading)
  BY <1>1
<1>3. Reads(batch, reading)
  BY DEF Answering, Reads
<1>4. PICK result, after :
        /\ result = ResultOf(subentry_data, guard, batch, reading, got)
        /\ after = GuardsAfter(guard, batch, result)
  OBVIOUS
<1>5. guard' = after
  BY <1>2, <1>4 DEF ProcessBatch, ResultOf, GuardsAfter
<1>6. /\ Underway(subentry_data, after, todo \ batch, size, result)
      /\ AheadOf(subentry_data, after, shown)
  <2>1. PICK entries, guards, readings :
          entries = subentry_data /\ guards = guard /\ readings = shown
    OBVIOUS
  <2>2. guards \in [Ids -> Readings] /\ readings \in [Ids -> Readings]
    BY <2>1 DEF TypeOK
  <2>3. /\ Underway(entries, after, todo \ batch, size, result)
        /\ AheadOf(entries, after, readings)
    BY <1>3, <1>4, <2>1, <2>2, BatchCarries
  <2>4. QED
    BY <2>1, <2>3
<1>7. \/ /\ poll' = [todo |-> todo \ batch, size |-> size, got |-> result]
         /\ UNCHANGED <<data, phase, shown>>
      \/ /\ batch = todo
         /\ poll' = NoPoll
         /\ data' = result
         /\ shown' = [i \in Ids |-> IF subentries[i] # None /\ result[i] # None
                                    THEN result[i] ELSE shown[i]]
         /\ AfterRefresh(TRUE)
  BY <1>2, <1>4 DEF ProcessBatch, ResultOf
<1>8. CASE /\ poll' = [todo |-> todo \ batch, size |-> size, got |-> result]
           /\ UNCHANGED <<data, phase, shown>>
  <2>1. poll'.todo = todo \ batch /\ poll'.size = size /\ poll'.got = result
    BY <1>8
  <2>2. QED
    BY <1>5, <1>6, <1>8, <2>1
<1>9. CASE /\ batch = todo
           /\ poll' = NoPoll
           /\ data' = result
           /\ shown' = [i \in Ids |-> IF subentries[i] # None /\ result[i] # None
                                      THEN result[i] ELSE shown[i]]
           /\ AfterRefresh(TRUE)
  <2>1. todo \ batch = {}
    BY <1>9
  <2>2. Underway(subentry_data, after, {}, size, result)
    BY <1>6, <2>1
  <2>3. QED
    BY <1>5, <1>6, <1>9, <2>2
<1>10. QED
  BY <1>7, <1>8, <1>9

\* A step of the poll loop.
LEMMA PollCarries ==
    ASSUME TypeOK, Wired, Carried, Answering, Poll
    PROVE  Carried' /\ NoDrop
<1> USE DEF entryVars, storeVars, coordVars, userVars
<1>1. /\ UNCHANGED <<subentries, disk, stored, loaded_store, coordinator, subentry_data>>
      /\ coordinator /\ (Serving \/ phase = "teardown")
  BY PollFrame DEF Carried, Poll, BeginPoll, PushReturns, PushTimesOut
<1>2. /\ Keys(subentry_data) \in SUBSET Ids /\ Cardinality(Keys(subentry_data)) \in Nat
      /\ poll.todo \in SUBSET Ids /\ poll.size \in Nat /\ poll.got \in [Ids -> Readings]
      /\ Nothing \in [Ids -> Readings]
  BY KeysFinite, EmptyTypes DEF TypeOK
<1>3. \/ BeginPoll /\ RunPoll(Keys(subentry_data), Cardinality(Keys(subentry_data)), Nothing)
      \/ /\ PushReturns /\ Polling /\ Cardinality(Keys(subentry_data)) # poll.size
         /\ PollFails
      \/ /\ PushReturns /\ Polling /\ Cardinality(Keys(subentry_data)) = poll.size
         /\ RunPoll(poll.todo, poll.size, poll.got)
  BY DEF Answering, Poll, BeginPoll, PushReturns, PushTimesOut
<1>4. CASE Serving
  <2>1. AheadOf(subentry_data, guard, shown)
    BY <1>4 DEF Carried
  <2>2. PICK todo \in SUBSET Ids, size \in Nat, got \in [Ids -> Readings] :
          Underway(subentry_data, guard, todo, size, got) /\ RunPoll(todo, size, got)
    <3>1. CASE BeginPoll
                 /\ RunPoll(Keys(subentry_data), Cardinality(Keys(subentry_data)), Nothing)
      <4>1. Underway(subentry_data, guard, Keys(subentry_data),
                     Cardinality(Keys(subentry_data)), Nothing)
        BY DEF Underway, Nothing
      <4>2. QED
        BY <1>2, <3>1, <4>1
    <3>2. CASE Polling /\ RunPoll(poll.todo, poll.size, poll.got)
      <4>1. Underway(subentry_data, guard, poll.todo, poll.size, poll.got)
        BY <1>4, <3>2 DEF Carried
      <4>2. QED
        BY <1>2, <3>2, <4>1
    <3>3. CASE Polling /\ Cardinality(Keys(subentry_data)) # poll.size
      BY <1>4, <3>3 DEF Carried, Underway
    <3>4. QED
      BY <1>3, <3>1, <3>2, <3>3
  <2>3. AheadOf(subentry_data, guard', shown)
    BY <1>4, <2>1, <2>2, StretchCarries
  <2>4. \/ /\ UNCHANGED <<data, phase, shown>>
           /\ Underway(subentry_data, guard', poll'.todo, poll'.size, poll'.got)
        \/ \E result :
             /\ Underway(subentry_data, guard', {}, size, result)
             /\ poll' = NoPoll /\ data' = result
             /\ shown' = [i \in Ids |-> IF subentries[i] # None /\ result[i] # None
                                        THEN result[i] ELSE shown[i]]
             /\ AfterRefresh(TRUE)
    BY <1>4, <2>1, <2>2, StretchCarries
  <2>5. CASE /\ UNCHANGED <<data, phase, shown>>
             /\ Underway(subentry_data, guard', poll'.todo, poll'.size, poll'.got)
    <3>1. Serving' /\ Serving
      BY <1>4, <2>5 DEF Serving
    <3>2. AheadOf(subentry_data, guard, shown)'
      BY <1>1, <2>3, <2>5
    <3>3. Underway(subentry_data, guard, poll.todo, poll.size, poll.got)'
      BY <1>1, <2>5
    <3>4. Carried'
      <4>1. /\ Keys(subentry_data)' = Keys(subentry_data) /\ Keys(shown)' = Keys(shown)
            /\ Keys(subentries)' = Keys(subentries)
        BY <1>1, <2>5
      <4>2. (phase \in Published)' <=> phase \in Published
        BY <2>5
      <4>3. coordinator' /\ phase' = phase /\ Serving'
        BY <1>1, <2>5, <3>1
      <4>4. QED
        BY <1>1, <2>5, <3>1, <3>2, <3>3, <4>1, <4>2, <4>3 DEF Carried
    <3>5. NoDrop
      <4>1. \A i \in Ids : shown[i] # None => shown[i] \in Int /\ ~(shown[i] < shown[i])
        BY ShownNumbers
      <4>2. QED
        BY <2>5, <4>1 DEF NoDrop
    <3>6. QED
      BY <3>4, <3>5
  <2>6. ASSUME NEW result,
               Underway(subentry_data, guard', {}, size, result),
               poll' = NoPoll, data' = result,
               shown' = [i \in Ids |-> IF subentries[i] # None /\ result[i] # None
                                       THEN result[i] ELSE shown[i]],
               AfterRefresh(TRUE)
        PROVE  Carried' /\ NoDrop
    <3>1. /\ phase' = IF phase = "refreshing" THEN "forwarding" ELSE phase
          /\ phase' \in Published /\ Serving'
      BY <1>4, <2>6 DEF AfterRefresh, Serving, Published
    <3>2. ASSUME NEW i \in Ids
          PROVE  shown'[i] = result[i] /\ (result[i] = None => shown[i] = None)
      <4>1. CASE i \in Keys(subentry_data)
        <5>1. result[i] # None
          BY <2>6, <4>1 DEF Underway
        <5>2. subentries[i] # None
          BY <4>1 DEF Carried, Keys
        <5>3. QED
          BY <2>6, <5>1, <5>2
      <4>2. CASE i \notin Keys(subentry_data)
        <5>1. result[i] = None
          BY <2>6, <4>2 DEF Underway
        <5>2. shown[i] = None
          BY <1>4, <4>2 DEF Carried, Keys
        <5>3. QED
          BY <2>6, <5>1, <5>2
      <4>3. QED
        BY <4>1, <4>2
    <3>3. Keys(shown') \subseteq Keys(subentry_data)
      BY <2>6, <3>2 DEF Underway, Keys
    <3>4. data' = shown'
      <4>1. data' \in [Ids -> Readings] /\ shown' \in [Ids -> Readings]
        BY <1>2, <2>2, RunPollType
      <4>2. \A i \in Ids : data'[i] = shown'[i]
        BY <2>6, <3>2
      <4>3. QED
        BY <4>1, <4>2
    <3>5. ASSUME NEW i \in Keys(subentry_data)
          PROVE  guard'[i] # None /\ shown'[i] = guard'[i]
      BY <2>6, <3>2, <3>5 DEF Underway, Keys
    <3>6. guard' \in [Ids -> Readings]
      BY <2>2, RunPollType
    <3>7. AheadOf(subentry_data, guard', shown')
      <4>1. ASSUME NEW i \in Keys(subentry_data)
            PROVE  ~(guard'[i] < shown'[i])
        <5>1. guard'[i] \in Int
          BY <3>5, <3>6, LifecycleAssumption DEF Readings, Keys
        <5>2. QED
          BY <3>5, <5>1
      <4>2. QED
        BY <3>5, <4>1 DEF AheadOf
    <3>8. Carried'
      <4>1. ~Polling'
        BY <2>6 DEF Polling, NoPoll
      <4>2. Keys(subentry_data)' = Keys(subentry_data) /\ Keys(subentries)' = Keys(subentries)
        BY <1>1
      <4>3. AheadOf(subentry_data, guard, shown)'
        BY <1>1, <3>7
      <4>4. phase' # "retry" /\ phase' # "setup" /\ phase' # "off" /\ phase' # "teardown"
        BY <3>1 DEF Published
      <4>5. Keys(shown)' \subseteq Keys(subentry_data)
        BY <3>3 DEF Keys
      <4>6. loaded_store
        BY <1>4 DEF Carried, Serving
      <4>7. QED
        BY <1>1, <3>1, <3>4, <4>1, <4>2, <4>3, <4>4, <4>5, <4>6 DEF Carried
    <3>9. NoDrop
      <4>1. ASSUME NEW i \in Ids, subentries[i] # None, subentries[i].spike_filter,
                   subentry_data[i] = subentries[i], shown[i] # None
            PROVE  ~(shown'[i] < shown[i])
        <5>1. i \in Keys(subentry_data)
          BY <4>1 DEF Keys
        <5>2. ~(guard'[i] < shown[i])
          BY <2>3, <4>1, <5>1 DEF AheadOf
        <5>3. QED
          BY <3>5, <5>1, <5>2
      <4>2. QED
        BY <4>1 DEF NoDrop
    <3>10. QED
      BY <3>8, <3>9
  <2>7. QED
    BY <2>4, <2>5, <2>6
<1>5. CASE phase = "teardown"
  <2>1. ~Serving /\ Keys(subentry_data) = {} /\ Cardinality(Keys(subentry_data)) = 0
    BY <1>5, FS_EmptySet DEF Serving, Carried, Keys, Nothing
  <2>2. UNCHANGED phase
    BY <1>5, PollFrame DEF AfterRefresh
  <2>3. shown' = shown
    <3>1. CASE PollFails
      BY <3>1 DEF PollFails
    <3>2. CASE RunPoll(Keys(subentry_data), Cardinality(Keys(subentry_data)), Nothing)
      <4>0. PICK batch \in SUBSET {} : \E reading : ProcessBatch({}, 0, Nothing, batch, reading)
        BY <2>1, <3>2 DEF RunPoll
      <4>1. PICK reading : ProcessBatch({}, 0, Nothing, batch, reading)
        BY <4>0
      <4>2. PICK result : result = ResultOf(subentry_data, guard, batch, reading, Nothing)
        OBVIOUS
      <4>3. \/ shown' = shown
            \/ shown' = [i \in Ids |-> IF subentries[i] # None /\ result[i] # None
                                       THEN result[i] ELSE shown[i]]
        BY <4>1, <4>2 DEF ProcessBatch, ResultOf
      <4>4. \A i \in Ids : result[i] = None
        BY <4>1, <4>2 DEF ResultOf, Nothing
      <4>5. shown' = shown \/ shown' = [i \in Ids |-> shown[i]]
        BY <4>3, <4>4
      <4>6. QED
        BY <4>5 DEF TypeOK
    <3>3. CASE Polling /\ Cardinality(Keys(subentry_data)) = poll.size
      BY <2>1, <3>3 DEF Polling
    <3>4. QED
      BY <1>3, <3>1, <3>2, <3>3
  <2>4. Carried'
    <3>1. /\ Keys(subentry_data)' = Keys(subentry_data) /\ Keys(shown)' = Keys(shown)
          /\ Keys(subentries)' = Keys(subentries)
      BY <1>1, <2>3
    <3>2. ~Serving' /\ (phase \notin Published)' /\ phase \notin Published
      BY <1>5, <2>2 DEF Serving, Published
    <3>3. Nothing' = Nothing
      BY DEF Nothing
    <3>4. QED
      BY <1>1, <1>5, <2>1, <2>2, <2>3, <3>1, <3>2, <3>3 DEF Carried
  <2>5. NoDrop
    <3>1. \A i \in Ids : shown[i] # None => shown[i] \in Int /\ ~(shown[i] < shown[i])
      BY ShownNumbers
    <3>2. QED
      BY <2>3, <3>1 DEF NoDrop
  <2>6. QED
    BY <2>4, <2>5
<1>6. QED
  BY <1>1, <1>4, <1>5

\* A setup seeds the guards from what was shown.
LEMMA SetupCarries ==
    ASSUME TypeOK, Wired, Carried, Setup
    PROVE  Carried' /\ UNCHANGED shown
<1> USE DEF entryVars, storeVars, pollVars, coordVars, userVars
<1>1. CASE BeginSetup
  <2>1. phase = "setup" /\ ~coordinator /\ ~Polling
    BY <1>1 DEF BeginSetup, Carried, Serving
  <2>2. PICK seeds : seeds = IF loaded_store THEN stored ELSE disk.values
    OBVIOUS
  <2>3. seeds = shown
    BY <2>1, <2>2 DEF Carried, Published
  <2>4. /\ stored' = shown /\ loaded_store' = TRUE /\ coordinator' = TRUE
        /\ subentry_data' = subentries /\ phase' = "refreshing"
        /\ guard' = [i \in Ids |-> IF subentries[i] = None THEN None ELSE shown[i]]
        /\ UNCHANGED <<subentries, disk, data, poll, shown>>
    BY <1>1, <2>1, <2>2, <2>3 DEF BeginSetup
  <2>5. AheadOf(subentries, guard', shown)
    <3>1. ASSUME NEW i \in Keys(subentries), shown[i] # None
          PROVE  guard'[i] # None /\ ~(guard'[i] < shown[i])
      <4>1. i \in Ids /\ guard'[i] = shown[i]
        BY <2>4 DEF Keys
      <4>2. QED
        BY <3>1, <4>1, ShownNumbers
    <3>2. QED
      BY <3>1 DEF AheadOf
  <2>6. /\ Keys(subentry_data)' = Keys(subentries) /\ Keys(subentries)' = Keys(subentries)
        /\ Keys(shown)' = Keys(shown) /\ Keys(shown) \subseteq Keys(subentries)
    BY <2>4 DEF Carried, Keys
  <2>7. Serving' /\ ~Polling' /\ (phase \notin Published)'
    BY <2>1, <2>4 DEF Serving, Polling, Published
  <2>8. AheadOf(subentry_data, guard, shown)'
    BY <2>4, <2>5
  <2>9. QED
    BY <2>4, <2>6, <2>7, <2>8 DEF Carried
<1>2. CASE SetupRefused
  <2>1. phase = "setup" /\ phase' = "off" /\ ~Serving /\ ~Serving'
    BY <1>2 DEF SetupRefused, Serving
  <2>2. UNCHANGED <<subentries, storeVars, pollVars, coordinator, subentry_data>>
    BY <1>2 DEF SetupRefused
  <2>3. QED
    BY <2>1, <2>2 DEF Carried, Published, Keys, Nothing, Polling
<1>3. CASE FinishSetup
  <2>1. /\ phase = "forwarding" /\ phase' = "loaded" /\ Serving /\ Serving'
        /\ UNCHANGED <<subentries, loaded_store, pollVars, coordinator, subentry_data>>
    BY <1>3 DEF FinishSetup, Serving
  <2>2. AheadOf(subentry_data, guard, shown)' /\ (Polling <=> Polling')
    BY <2>1 DEF Carried, Polling
  <2>3. Polling => Underway(subentry_data, guard, poll.todo, poll.size, poll.got)'
    BY <2>1 DEF Carried
  <2>4. QED
    BY <2>1, <2>2, <2>3 DEF Carried, Published, Keys, Nothing
<1>4. CASE Retry
  BY <1>4 DEF Retry, Carried
<1>5. QED
  BY <1>1, <1>2, <1>3, <1>4 DEF Setup

\* An unload finds every sensor in the entry and stores what was shown.
LEMMA ReloadCarries ==
    ASSUME TypeOK, Wired, Carried, Reload
    PROVE  Carried' /\ UNCHANGED shown
<1> USE DEF entryVars, storeVars, pollVars, coordVars, userVars
<1>1. CASE BeginReload
  <2>1. UNCHANGED <<subentries, storeVars, pollVars, coordinator, subentry_data>>
    BY <1>1 DEF BeginReload
  <2>2. CASE phase = "loaded"
    <3>1. phase' = "unloading" /\ Serving /\ Serving'
      BY <1>1, <2>2 DEF BeginReload, Serving
    <3>2. AheadOf(subentry_data, guard, shown)' /\ (Polling <=> Polling')
      BY <2>1, <3>1 DEF Carried, Polling
    <3>3. Polling => Underway(subentry_data, guard, poll.todo, poll.size, poll.got)'
      BY <2>1, <3>1 DEF Carried
    <3>4. QED
      BY <2>1, <2>2, <3>1, <3>2, <3>3 DEF Carried, Published, Keys, Nothing
  <2>3. CASE phase # "loaded"
    <3>1. phase = "off" /\ phase' \in {"off", "setup"} /\ ~Serving /\ ~Serving'
      BY <1>1, <2>3 DEF BeginReload, Serving, Carried
    <3>2. QED
      BY <2>1, <3>1 DEF Carried, Published, Keys, Nothing, Polling
  <2>4. QED
    BY <2>2, <2>3
<1>2. CASE UnloadEntry
  <2>1. phase = "unloading" /\ Serving /\ coordinator
    BY <1>2 DEF UnloadEntry, Serving, Carried
  <2>2. PICK rest :
          rest = [i \in Ids |-> IF subentries[i] = None THEN subentry_data[i] ELSE None]
    OBVIOUS
  <2>3. rest = Nothing /\ Keys(rest) = {}
    <3>1. \A i \in Ids : subentries[i] = None => subentry_data[i] = None
      BY DEF Carried, Keys
    <3>2. QED
      BY <2>2, <3>1 DEF Nothing, Keys
  <2>4. /\ subentry_data' = rest
        /\ SaveSnapshot /\ phase' = "teardown"
        /\ UNCHANGED <<subentries, loaded_store, data, coordinator, shown>>
    BY <1>2, <2>2, <2>3 DEF UnloadEntry
  <2>5. stored' = shown
    BY <2>1, <2>4 DEF SaveSnapshot, CurrentSnapshot, Carried, Published
  <2>6. ~Serving' /\ (phase \notin Published)' /\ Nothing' = Nothing
    BY <2>4 DEF Serving, Published, Nothing
  <2>7. /\ Keys(subentry_data)' = {} /\ Keys(shown)' = Keys(shown)
        /\ Keys(subentries)' = Keys(subentries)
    BY <2>3, <2>4 DEF Keys
  <2>8. loaded_store
    BY <2>1 DEF Carried
  <2>9. QED
    BY <2>1, <2>3, <2>4, <2>5, <2>6, <2>7, <2>8 DEF Carried
<1>3. CASE TearDown
  <2>1. /\ phase = "teardown" /\ phase' \in {"off", "setup"} /\ ~coordinator'
        /\ subentry_data' = Nothing /\ poll' = NoPoll
        /\ UNCHANGED <<subentries, storeVars, shown>>
    BY <1>3 DEF TearDown, Unloaded
  <2>2. ~Serving' /\ ~Polling' /\ (phase \notin Published)' /\ phase \notin Published
    BY <2>1 DEF Serving, Published, Polling, NoPoll
  <2>3. Keys(Nothing) = {} /\ Keys(shown) \subseteq Keys(subentries)
    BY DEF Keys, Nothing, Carried
  <2>4. QED
    BY <2>1, <2>2, <2>3 DEF Carried, Keys, Nothing
<1>4. QED
  BY <1>1, <1>2, <1>3 DEF Reload

\* The writes that take no sensor away.
LEMMA WriteCarries ==
    ASSUME TypeOK, Wired, Carried, Undisturbed,
           \/ WriteSubentry
           \/ \E explicit \in {0, 1} : UpdateOptions(explicit)
           \/ ExportData \/ ImportData \/ ToggleDisabled \/ Restart \/ Subscribe
    PROVE  Carried' /\ UNCHANGED shown
<1> USE DEF entryVars, storeVars, hassVars, pollVars, coordVars, userVars
<1>1. /\ ~ExportData /\ ~ImportData /\ ~Restart
      /\ \A i \in Ids : ~DeleteSubentry(i)
  BY DEF Undisturbed, Occurs, ExportData, ImportData, Restart, DeleteSubentry
<1>2. UNCHANGED <<storeVars, phase, pollVars, coordinator, subentry_data>>
  BY <1>1 DEF WriteSubentry, CreateSubentry, UpdateSubentry, UpdateOptions, ToggleDisabled,
              Subscribe
<1>3. Keys(subentries) \subseteq Keys(subentries')
  <2>1. CASE WriteSubentry
    <3>1. PICK i \in Ids, config \in Configs :
            CreateSubentry(i, config) \/ UpdateSubentry(i, config)
      BY <1>1, <2>1 DEF WriteSubentry
    <3>2. subentries' = [subentries EXCEPT ![i] = config] /\ config # None
      BY <3>1, LifecycleAssumption DEF CreateSubentry, UpdateSubentry
    <3>3. QED
      BY <3>2 DEF TypeOK, Keys
  <2>2. CASE ~WriteSubentry
    BY <1>1, <2>2 DEF UpdateOptions, ToggleDisabled, Subscribe
  <2>3. QED
    BY <2>1, <2>2
<1>4. /\ Keys(subentry_data)' = Keys(subentry_data) /\ Keys(shown)' = Keys(shown)
      /\ Keys(subentries)' = Keys(subentries')
  BY <1>2 DEF Keys
<1>5. (Serving <=> Serving') /\ (Polling <=> Polling') /\ Nothing' = Nothing
      /\ (phase \in Published <=> (phase \in Published)')
  BY <1>2 DEF Serving, Polling, Nothing
<1>6. AheadOf(subentry_data, guard, shown) <=> AheadOf(subentry_data, guard, shown)'
  BY <1>2
<1>7. Underway(subentry_data, guard, poll.todo, poll.size, poll.got)
        <=> Underway(subentry_data, guard, poll.todo, poll.size, poll.got)'
  BY <1>2
<1>8. Carried'
  BY <1>2, <1>3, <1>4, <1>5, <1>6, <1>7 DEF Carried
<1>9. QED
  BY <1>2, <1>8

LEMMA CarriedInit == Init => Carried
<1> SUFFICES ASSUME Init PROVE Carried
  OBVIOUS
<1>1. /\ phase = "setup" /\ coordinator = FALSE /\ subentry_data = Nothing
      /\ shown = Nothing /\ disk.values = Nothing /\ loaded_store = FALSE /\ ~Polling
  BY DEF Init, Initially, Polling, NoPoll
<1>2. Keys(Nothing) = {}
  BY DEF Keys, Nothing
<1>3. ~Serving /\ phase \notin Published
  BY <1>1 DEF Serving, Published
<1>4. QED
  BY <1>1, <1>2, <1>3 DEF Carried

\* REQ-COMP-001 across reloads (coordinator.py:114-119): while every source answers
\* and the users only create and edit sensors, change the options and disable or
\* enable the entry, a reading under the spike filter never drops, however the
\* reloads fall between the polls, for any number of sensors and writes.
THEOREM GuardHolds ==
    ASSUME Writes \subseteq {"create", "update", "options", "disable", "subscribe"},
           Faults = {}
    PROVE  Spec => GuardHoldsAcrossReloads
<1> DEFINE A == \A i \in Ids :
                  (/\ subentries[i] # None /\ subentries[i].spike_filter
                   /\ subentry_data[i] = subentries[i]
                   /\ shown[i] # None /\ shown'[i] # None)
                  => ~(shown'[i] < shown[i])
<1>1. ASSUME TypeOK, Wired, Carried, [Next]_vars
      PROVE  Carried' /\ [A]_vars
  <2>1. Undisturbed /\ Answering
    BY DEF Undisturbed, Answering
  <2>2. ASSUME UNCHANGED shown PROVE A
    BY <1>1, <2>2, ShownNumbers
  <2>3. CASE Poll
    BY <1>1, <2>1, <2>3, PollCarries DEF NoDrop
  <2>4. CASE Setup \/ Reload
    BY <1>1, <2>2, <2>4, SetupCarries, ReloadCarries
  <2>5. CASE \/ WriteSubentry
             \/ \E explicit \in {0, 1} : UpdateOptions(explicit)
             \/ ExportData \/ ImportData \/ ToggleDisabled \/ Restart \/ Subscribe
    BY <1>1, <2>1, <2>2, <2>5, WriteCarries
  <2>6. CASE UNCHANGED vars
    <3>1. UNCHANGED <<subentries, storeVars, phase, pollVars, coordinator, subentry_data>>
      BY <2>6 DEF vars, entryVars, hassVars, coordVars
    <3>2. QED
      BY <1>1, <2>6, <3>1 DEF Carried, pollVars, storeVars, Keys, Serving, Polling, Nothing
  <2>7. QED
    BY <1>1, <2>3, <2>4, <2>5, <2>6 DEF Next
<1>2. QED
  BY <1>1, CarriedInit, TypeCorrect, AlwaysWired, PTL DEF Spec, GuardHoldsAcrossReloads
=============================================================================
