------------------------------ MODULE Reconcile ------------------------------
(***************************************************************************)
(* The conversion of an old installation (__init__.py, 96-403): one config *)
(* entry per sensor becomes one subentry per sensor under a single root    *)
(* entry.  It runs before anything else at every start of the domain.      *)
(* One old entry is promoted to be the root, the others are mirrored into  *)
(* it and removed; the entity and device registry rows, which carry what   *)
(* the user made of a sensor, move over on the way.                        *)
(*                                                                         *)
(* Any call may raise: a failed promotion fails the start, any other       *)
(* failed entry stays and is tried again at the next one.                  *)
(*                                                                         *)
(* A sensor has one registry row of each kind; the two calls that move one *)
(* row and re-stamp it are one step.  The registries and what they do on   *)
(* their own (rows go with their entry, subentry or device link; a         *)
(* disabled entry stamps its rows) are Home Assistant's, modelled from how *)
(* the code and its comments use them.                                     *)
(***************************************************************************)
EXTENDS Integers, FiniteSets

CONSTANTS
    None,      \* Python's None
    N,         \* number of entries of the old installation
    Faults,    \* the steps that may fail
    MaxFaults, \* bound on the number of failures
    MaxEvents  \* bound on the number of restarts and changes by the user

\* Entries are named by their position in hass.config_entries; the subentry of
\* a sensor has the name of the entry it comes from.
Ids == 1..N

\* The data of a subentry: as the entry had it, or as the user left it since.
Data == {"legacy", "edited"}

Stamps    == {"config_entry", "user"}
Disablers == Stamps \cup {None}

\* name: what the user gave the row (entity_id, name, icon, area), or a default.
Names      == {"given", "default"}
EntityRows == [entry : Ids, subentry : Ids \cup {None}, disabled_by : Disablers, name : Names]

ConversionSteps == {"attach", "devices", "entities", "drop", "flip", "remove"}

ASSUME ReconcileAssumption ==
    /\ N \in Nat \ {0}
    /\ None \notin Int \cup Data \cup Stamps \cup EntityRows
    /\ Faults \subseteq ConversionSteps
    /\ MaxFaults \in Nat
    /\ MaxEvents \in Nat

VARIABLES
    entries,    \* the config entries of the domain
    root,       \* the one whose unique_id is ROOT_UNIQUE_ID and whose data is empty
    disabled,   \* disabled_by of each entry is set
    subentries, \* the data of each entry's subentries
    entity,     \* the entity registry row of each sensor, or None
    device,     \* the device registry row of each sensor, no links when absent
    step,       \* where the start of the domain is
    current,    \* legacy_entry of the loop, or the one being promoted
    todo,       \* the entries after it
    faults, events,
    \* History, read by the properties only.
    customised, \* the sensors that had a registry row before the first start
    deleted,    \* the sensors the user has deleted
    interrupted \* the sensors whose rows were left half moved by a failure

configVars == <<entries, root, disabled, subentries>>
rowVars    == <<entity, device>>
runVars    == <<step, current, todo>>
vars == <<configVars, rowVars, runVars, faults, events, customised, deleted, interrupted>>

Links      == Ids \X (Ids \cup {None})
DeviceRows == [links : SUBSET Links, disabled_by : Disablers, name : Names]

NoDevice == [links |-> {}, disabled_by |-> None, name |-> "default"]

-----------------------------------------------------------------------------
(* What the registries do.                                                 *)

\* async_entries_for_config_entry.
OwnEntity(row, entry) == row # None /\ row.entry = entry
OwnDevice(row, entry) == \E link \in row.links : link[1] = entry

\* A device without a link is deleted.
WithLinks(row, links) == IF links = {} THEN NoDevice ELSE [row EXCEPT !.links = links]

\* The entity registry listens for device updates: a row whose link its device
\* has lost is deleted.
Cleaned(rows, before, after) ==
    [i \in Ids |-> IF rows[i] # None
                      /\ <<rows[i].entry, rows[i].subentry>> \in before[i].links \ after[i].links
                   THEN None ELSE rows[i]]

\* Taking links away takes the entity rows with them.
Unlink(gone) ==
    LET after == [i \in Ids |-> WithLinks(device[i], device[i].links \ gone)]
    IN  /\ device' = after
        /\ entity' = Cleaned(entity, device, after)

\* The rows an enabled or disabled entry leaves: at the start, the pairs of
\* disablers of entity and device; None for a sensor that was never set up.
InitialRows(i) ==
    LET stamps == IF disabled[i] THEN {"config_entry"} ELSE {None}
        pairs  == ((stamps \cup {"user"}) \X stamps) \cup {<<"user", "user">>}
    IN  {<<None, NoDevice>>} \cup
        {<<[entry |-> i, subentry |-> None, disabled_by |-> p[1], name |-> "given"],
           [links |-> {<<i, None>>}, disabled_by |-> p[2], name |-> "given"]>> : p \in pairs}

-----------------------------------------------------------------------------
Init ==
    /\ entries = Ids
    /\ root = None
    /\ disabled \in [Ids -> BOOLEAN]
    /\ subentries = [e \in Ids |-> [i \in Ids |-> None]]
    /\ \E rows \in [Ids -> UNION {InitialRows(i) : i \in Ids}] :
         /\ \A i \in Ids : rows[i] \in InitialRows(i)
         /\ entity = [i \in Ids |-> rows[i][1]]
         /\ device = [i \in Ids |-> rows[i][2]]
    /\ step = "start"
    /\ current = None
    /\ todo = {}
    /\ faults = 0
    /\ events = 0
    /\ customised = {i \in Ids : entity[i] # None}
    /\ deleted = {}
    /\ interrupted = {}

-----------------------------------------------------------------------------
(* The conversion.                                                         *)

FirstOf(set) == CHOOSE i \in set : \A j \in set : i <= j

\* Mutant: the first entry is promoted, enabled or not.
PromotionTargetFirst(legacy) == FirstOf(legacy)

\* _select_promotion_target: the first enabled entry, if there is one.
PromotionTarget(legacy) ==
    LET enabled == {e \in legacy : ~disabled[e]}
    IN  FirstOf(IF enabled = {} THEN legacy ELSE enabled)

\* Mutant: the loop is left after an entry instead of going on.
ProceedOnce(rest) == step' = "setup" /\ current' = None /\ todo' = {}

\* The next entry of the loop, or the setup of the entries that are left.
Proceed(rest) ==
    IF rest = {}
    THEN step' = "setup" /\ current' = None /\ todo' = {}
    ELSE step' = "attach" /\ current' = FirstOf(rest) /\ todo' = rest \ {FirstOf(rest)}

\* _async_reconcile_legacy_entries up to the first entry it converts.
Scan ==
    LET legacy == entries \ {root}
        target == PromotionTarget(legacy)
    IN  /\ step = "start"
        /\ IF root = None
           THEN step' = "attach" /\ current' = target /\ todo' = legacy \ {target}
           ELSE Proceed(legacy)
        /\ UNCHANGED <<configVars, rowVars, faults, events, customised, deleted, interrupted>>

\* root_entry while `current` is converted: itself when it is promoted.
Parent == IF root = None THEN current ELSE root
IsPromotion == root = None

\* A disabled entry's rows must not follow an enabled root.
DetachDisabledStamp == disabled[current] /\ ~disabled[Parent]

\* Mutant: the stamp of the disabled entry is taken off.
RestampedCleared(by) ==
    IF DetachDisabledStamp /\ by = "config_entry" THEN None ELSE by

\* Mutant: the rows of a disabled entry keep its stamp.
RestampedNever(by) == by

Restamped(by) ==
    IF DetachDisabledStamp /\ by = "config_entry" THEN "user" ELSE by

\* Mutant: a promoted entry's data is cleared before it is mirrored.
AttachCleared ==
    /\ step = "attach"
    /\ subentries' = [subentries EXCEPT ![Parent][current] =
                        IF IsPromotion THEN "cleared" ELSE "legacy"]
    /\ step' = "devices"
    /\ UNCHANGED <<entries, root, disabled, rowVars, current, todo,
                   faults, events, customised, deleted, interrupted>>

\* async_add_subentry, with the data the entry has.
Attach ==
    /\ step = "attach"
    /\ subentries' = [subentries EXCEPT ![Parent][current] = "legacy"]
    /\ step' = "devices"
    /\ UNCHANGED <<entries, root, disabled, rowVars, current, todo,
                   faults, events, customised, deleted, interrupted>>

\* Mutant: the device link is moved before the entity.
AdoptDevicesMoving ==
    LET after == [i \in Ids |->
                    IF OwnDevice(device[i], current)
                    THEN [device[i] EXCEPT !.links = {<<Parent, current>>},
                                           !.disabled_by = Restamped(@)]
                    ELSE device[i]]
    IN  /\ step = "devices"
        /\ device' = after
        /\ entity' = Cleaned(entity, device, after)
        /\ step' = "entities"
        /\ UNCHANGED <<configVars, current, todo,
                       faults, events, customised, deleted, interrupted>>

\* The first loop of _async_adopt_registry_entries: links are added.
AdoptDevices ==
    /\ step = "devices"
    /\ device' = [i \in Ids |->
                    IF OwnDevice(device[i], current)
                    THEN [device[i] EXCEPT !.links = @ \cup {<<Parent, current>>},
                                           !.disabled_by = Restamped(@)]
                    ELSE device[i]]
    /\ step' = "entities"
    /\ UNCHANGED <<configVars, entity, current, todo,
                   faults, events, customised, deleted, interrupted>>

\* The second: rows are re-pointed.
AdoptEntities ==
    /\ step = "entities"
    /\ entity' = [i \in Ids |->
                    IF OwnEntity(entity[i], current)
                    THEN [entity[i] EXCEPT !.entry = Parent, !.subentry = current,
                                           !.disabled_by = Restamped(@)]
                    ELSE entity[i]]
    /\ step' = IF IsPromotion THEN "drop" ELSE "remove"
    /\ UNCHANGED <<configVars, device, current, todo,
                   faults, events, customised, deleted, interrupted>>

\* Mutant: the link stays.
DropMainLinkNever ==
    /\ step = "drop"
    /\ step' = "flip"
    /\ UNCHANGED <<configVars, rowVars, current, todo,
                   faults, events, customised, deleted, interrupted>>

\* The third, for a promotion only: the root's own link goes.
DropMainLink ==
    /\ step = "drop"
    /\ Unlink({<<current, None>>})
    /\ step' = "flip"
    /\ UNCHANGED <<configVars, current, todo,
                   faults, events, customised, deleted, interrupted>>

\* The end of _async_promote_to_root.
FlipIdentity ==
    /\ step = "flip"
    /\ root' = current
    /\ Proceed(todo)
    /\ UNCHANGED <<entries, disabled, subentries, rowVars,
                   faults, events, customised, deleted, interrupted>>

\* await async_remove: the entry goes, with its subentries, its links and the
\* rows it still owns.
RemoveEntry ==
    /\ step = "remove"
    /\ entries' = entries \ {current}
    /\ subentries' = [subentries EXCEPT ![current] = [i \in Ids |-> None]]
    /\ Unlink({current} \X (Ids \cup {None}))
    /\ Proceed(todo)
    /\ UNCHANGED <<root, disabled, faults, events, customised, deleted, interrupted>>

\* Mutant: a promotion that fails is a promotion all the same.
FailFlipping ==
    /\ step \in Faults
    /\ faults < MaxFaults
    /\ faults' = faults + 1
    /\ interrupted' = interrupted \cup {current}
    /\ root' = Parent
    /\ Proceed(todo)
    /\ UNCHANGED <<entries, disabled, subentries, rowVars, events, customised, deleted>>

\* A call raises.  The promotion is not guarded: async_setup fails with it.
Fail ==
    /\ step \in Faults
    /\ faults < MaxFaults
    /\ faults' = faults + 1
    /\ interrupted' = IF step \in {"devices", "entities"}
                      THEN interrupted \cup {current} ELSE interrupted
    /\ IF IsPromotion
       THEN step' = "failed" /\ current' = None /\ todo' = {}
       ELSE Proceed(todo)
    /\ UNCHANGED <<configVars, rowVars, events, customised, deleted>>

\* The root is set up: the platform gets or creates the rows of every subentry
\* by its pinned unique_id.  A disabled root is not set up.
SetUpRoot ==
    LET up == {i \in Ids : ~disabled[root] /\ subentries[root][i] # None}
    IN  /\ step = "setup"
        /\ device' = [i \in Ids |-> IF i \in up
                        THEN [device[i] EXCEPT !.links = @ \cup {<<root, i>>}] ELSE device[i]]
        /\ entity' = [i \in Ids |->
                        IF i \notin up THEN entity[i]
                        ELSE IF entity[i] # None
                        THEN [entity[i] EXCEPT !.entry = root, !.subentry = i]
                        ELSE [entry |-> root, subentry |-> i, disabled_by |-> None,
                              name |-> "default"]]
        /\ step' = "running"
        /\ UNCHANGED <<configVars, current, todo,
                       faults, events, customised, deleted, interrupted>>

-----------------------------------------------------------------------------
(* Between two starts.                                                     *)

Occurs ==
    /\ events < MaxEvents
    /\ events' = events + 1

Restart ==
    /\ Occurs
    /\ step \in {"running", "failed"}
    /\ step' = "start"
    /\ UNCHANGED <<configVars, rowVars, current, todo,
                   faults, customised, deleted, interrupted>>

\* The disabler of a row whose entry becomes disabled, or enabled.
Followed(by, off) ==
    CASE off /\ by = None            -> "config_entry"
      [] ~off /\ by = "config_entry" -> None
      [] OTHER                       -> by

\* The user disables or enables an entry: its rows follow; a device only if no
\* other entry of its is enabled.  An enabled root is set up.
ToggleDisabled(e) ==
    LET becomes  == [disabled EXCEPT ![e] = ~@]
        alone(i) == \A link \in device[i].links : becomes[link[1]]
    IN  /\ Occurs
        /\ step \in {"running", "failed"}
        /\ e \in entries
        /\ disabled' = becomes
        /\ entity' = [i \in Ids |-> IF OwnEntity(entity[i], e)
                        THEN [entity[i] EXCEPT !.disabled_by = Followed(@, becomes[e])] ELSE entity[i]]
        /\ device' = [i \in Ids |-> IF OwnDevice(device[i], e) /\ (becomes[e] => alone(i))
                        THEN [device[i] EXCEPT !.disabled_by = Followed(@, becomes[e])] ELSE device[i]]
        /\ step' = IF e = root /\ step = "running" THEN "setup" ELSE step
        /\ UNCHANGED <<entries, root, subentries, current, todo,
                       faults, customised, deleted, interrupted>>

\* A sensor is reconfigured.
EditSubentry(i) ==
    /\ Occurs
    /\ step = "running"
    /\ subentries[root][i] # None
    /\ subentries' = [subentries EXCEPT ![root][i] = "edited"]
    /\ UNCHANGED <<entries, root, disabled, rowVars, runVars,
                   faults, customised, deleted, interrupted>>

\* A sensor is deleted, and its rows with it.
DeleteSubentry(i) ==
    /\ Occurs
    /\ step = "running"
    /\ subentries[root][i] # None
    /\ subentries' = [subentries EXCEPT ![root][i] = None]
    /\ Unlink({<<root, i>>})
    /\ deleted' = deleted \cup {i}
    /\ UNCHANGED <<entries, root, disabled, runVars, faults, customised, interrupted>>

-----------------------------------------------------------------------------
Convert == Attach \/ AdoptDevices \/ AdoptEntities \/ DropMainLink \/ FlipIdentity \/ RemoveEntry

Start == Scan \/ Convert \/ Fail \/ SetUpRoot

Next ==
    \/ Start
    \/ Restart
    \/ \E e \in Ids : ToggleDisabled(e) \/ EditSubentry(e) \/ DeleteSubentry(e)

Spec == Init /\ [][Next]_vars

\* A start that has begun goes on to its end.
FairSpec == Spec /\ WF_vars(Start)

-----------------------------------------------------------------------------
(* Properties.                                                             *)

TypeOK ==
    /\ entries \subseteq Ids
    /\ root \in Ids \cup {None}
    /\ disabled \in [Ids -> BOOLEAN]
    /\ subentries \in [Ids -> [Ids -> Data \cup {None}]]
    /\ entity \in [Ids -> EntityRows \cup {None}]
    /\ device \in [Ids -> DeviceRows]
    /\ step \in ConversionSteps \cup {"start", "setup", "running", "failed"}
    /\ current \in Ids \cup {None}
    /\ todo \subseteq Ids
    /\ faults \in Nat
    /\ events \in Nat
    /\ customised \subseteq Ids
    /\ deleted \subseteq Ids
    /\ interrupted \subseteq Ids

Converted == entries = {root}

\* No sensor is lost at any moment of any start, wherever it fails: its
\* configuration stands in an entry of its own or in a subentry of the root
\* (__init__.py:354-359).
NothingLost ==
    \A i \in Ids \ deleted :
        \/ i \in entries \ {root}
        \/ root # None /\ subentries[root][i] # None

\* The registry rows survive with all the user gave them, which no start could
\* bring back (__init__.py:134-144): the rows move before the entry goes, and
\* the entity before its old device link does.
RowsKept ==
    \A i \in customised \ deleted :
        /\ entity[i] # None /\ entity[i].name = "given"
        /\ device[i].links # {} /\ device[i].name = "given"

\* Nothing is switched off by a promotion: a root that is disabled is one because
\* every entry of the old installation was.
RootRuns ==
    [][root = None /\ root' # None /\ disabled[root'] => \A e \in entries : disabled[e]]_vars

\* A disabled row under an enabled root is one the user can enable again: its
\* stamp does not follow an entry that is not disabled (__init__.py:151-164).
StampsFollow ==
    \A i \in Ids \ interrupted :
        (step = "running" /\ Converted /\ ~disabled[root])
        => /\ entity[i] # None => entity[i].disabled_by # "config_entry"
           /\ device[i].disabled_by # "config_entry"

\* Once all is converted each device is held by its sensor's subentry only, and
\* goes with it (__init__.py:215-223).
NoGhostDevice ==
    (step = "running" /\ Converted)
    => \A i \in Ids : device[i].links \subseteq {<<root, i>> : s \in {subentries[root][i]} \ {None}}

\* Where each sensor is, and its entity row, as far as the promise goes.
Home == [i \in Ids |->
           (IF i \in entries \ {root} THEN {"entry"} ELSE {})
             \cup (IF root # None /\ subentries[root][i] # None THEN {"root"} ELSE {})]

RowSeen(r) ==
    IF r = None THEN [at |-> "nowhere", name |-> "default", off |-> FALSE]
    ELSE [at |-> IF r.entry = root THEN "root" ELSE "entry",
          name |-> r.name, off |-> r.disabled_by # None]

RowsSeen == [i \in Ids |-> RowSeen(entity[i])]

Busy == step \notin {"running", "failed"}

Promise == INSTANCE Migration WITH
    Sensors <- Ids,
    home    <- Home,
    row     <- RowsSeen,
    busy    <- Busy

\* Every conversion is one of module Migration: each sensor moves on its own, its
\* row goes ahead of the entry it leaves, and a start disables and enables no row
\* (__init__.py:134-164, 354-359), however the steps fail and are repeated.
ImplementsMigration == Promise!MigrationSpec

\* A start that meets no failure converts everything there still is.
Converges == (step = "start" /\ faults = MaxFaults) ~> (step = "running" /\ Converted)

-----------------------------------------------------------------------------
(* What the repository says and the code does not do.                      *)

\* "the next start simply retries it: re-attaching writes the identical
\* subentry under the identical subentry_id" (__init__.py:386-388): what the
\* user has changed since is to stay.
EditsSurvive ==
    [][root # None => \A i \in Ids : subentries[root][i] = "edited"
                                     => subentries'[root][i] # "legacy"]_vars
=============================================================================
