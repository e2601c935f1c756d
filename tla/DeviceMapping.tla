---------------------------- MODULE DeviceMapping ----------------------------
(***************************************************************************)
(* Which device a sensor is on (config_flow.py, 566-1122).  A sensor has a *)
(* device of its own, or joins that of another: its data then names the    *)
(* device's key in CONF_DEVICE_GROUP_ID.  An edit first changes the        *)
(* registries - link the new device, move the entity row, unlink the old   *)
(* device - and then the data; the reload that follows sets the sensors up *)
(* one by one, each on the device its data names.                          *)
(*                                                                         *)
(* The registries are Home Assistant's, in the two ownership models the    *)
(* code distinguishes: a device with links to any number of subentries, or *)
(* with one owner.  On a single-owner runtime the installation has no      *)
(* shared devices to begin with.                                           *)
(***************************************************************************)
EXTENDS Integers, Sequences

CONSTANTS
    None,         \* Python's None
    Sensors,      \* ids of the subentries, and keys of the devices of their own
    OtherDomain,  \* the sensors whose entity is no sensor.* but a switch, a light, ...
    MaxEdits,     \* bound on what the user does
    MaxFaults     \* bound on the registry calls that raise

Names == {"given", "default"}
Rows  == [device : Sensors, name : Names]

ASSUME DeviceMappingAssumption ==
    /\ None \notin Sensors \cup Rows
    /\ OtherDomain \subseteq Sensors
    /\ MaxEdits \in Nat
    /\ MaxFaults \in Nat

VARIABLES
    union,      \* RegistryCapabilities.union of the runtime
    subentries, \* the sensors of the root entry
    group,      \* CONF_DEVICE_GROUP_ID of each, or None
    links,      \* the subentries each device is linked to; none: no such device
    rows,       \* the entity registry row of each sensor, or None
    reload,     \* a reload of the entry is due
    todo,       \* the sensors a reload has still to set up
    edits, faults,
    \* History, read by the properties only.
    named,      \* the sensors whose rows the user has renamed
    respun,     \* the sensors that were detached from their own device
    torn,       \* the sensors one of whose edits failed half way
    unfound,    \* the sensors that were edited when their row was not found
    foreign     \* where a device has one owner: the sensors that were imported onto another's,
                \* and those whose devices these are

dataVars     == <<subentries, group>>
registryVars == <<links, rows>>
historyVars  == <<named, respun, torn, unfound, foreign>>
vars == <<union, dataVars, registryVars, reload, todo, edits, faults, historyVars>>

\* device_group_id or subentry_id: the device the sensor's data names.
Home(i) == IF group[i] = None THEN i ELSE group[i]

-----------------------------------------------------------------------------
(* The registries.                                                         *)

Registry == [links |-> links, rows |-> rows]

Lives(r, i, k) == r.rows[i] # None /\ r.rows[i].device = k

\* Mutant: rows of a device that is gone stay behind without one.
ListenedBlanking(r, k) ==
    [links |-> r.links,
     rows |-> [i \in Sensors |-> IF Lives(r, i, k) /\ i \notin r.links[k]
                THEN [device |-> None, name |-> r.rows[i].name] ELSE r.rows[i]]]

\* The entity registry's listener for updates of device k: a row on it goes if
\* the device is no longer linked to its subentry, or is gone.
Listened(r, k) ==
    [links |-> r.links,
     rows |-> [i \in Sensors |-> IF Lives(r, i, k) /\ i \notin r.links[k]
                THEN None ELSE r.rows[i]]]

\* _add_owner_link, and the link async_get_or_create makes.
Linked(r, i, k) ==
    LET owners == IF union THEN r.links[k] \cup {i} ELSE {i}
    IN  Listened([links |-> [r.links EXCEPT ![k] = owners], rows |-> r.rows], k)

\* _remove_owner_link: nothing on a single-owner runtime.
Unlinked(r, i, k) ==
    IF union
    THEN Listened([links |-> [r.links EXCEPT ![k] = @ \ {i}], rows |-> r.rows], k)
    ELSE r

\* async_update_entity(entity_id, device_id=...).
Moved(r, i, k) ==
    [links |-> r.links,
     rows |-> [r.rows EXCEPT ![i] = [device |-> k, name |-> @.name]]]

\* async_get_entity_id("sensor", ...): rows of other domains are not found.
Found(i) == i \notin OtherDomain /\ rows[i] # None

-----------------------------------------------------------------------------
(* The registry transactions: their states after each of their calls.      *)

\* Mutant: the device the sensor leaves stays linked.
TargetMappingKeepingLink(i, k) ==
    LET r1  == IF i \in links[k] THEN Registry ELSE Linked(Registry, i, k)
        r2  == Moved(r1, i, k)
    IN  IF ~Found(i) THEN <<r1>> ELSE <<r1, r2>>

\* Mutant: the row moves to a device that has not been claimed for it.
TargetMappingUnclaimed(i, k) ==
    LET old == rows[i].device
        r2  == Moved(Registry, i, k)
    IN  IF ~Found(i) \/ old = k THEN <<Registry>> ELSE <<r2, Unlinked(r2, i, old)>>

\* _apply_target_mapping.
TargetMapping(i, k) ==
    LET old == rows[i].device
        r1  == IF i \in links[k] THEN Registry ELSE Linked(Registry, i, k)
        r2  == Moved(r1, i, k)
    IN  IF ~Found(i) THEN <<r1>>
        ELSE IF old = k THEN <<r1, r2>>
        ELSE <<r1, r2, Unlinked(r2, i, old)>>

\* _detach_to_own_device.  The old link goes even where it is the new one.
Detachment(i) ==
    LET old == rows[i].device
        r1  == Linked(Registry, i, i)
        r2  == Moved(r1, i, i)
    IN  IF ~Found(i) THEN <<r1>> ELSE <<r1, r2, Unlinked(r2, i, old)>>

\* Mutant: a device owned by another sensor is taken on any runtime.
AllowedAlways(owners) == TRUE

\* A device that belongs to other sensors may be joined where it can have
\* several owners.
Allowed(owners) == union \/ owners = {}

Becomes(r) == links' = r.links /\ rows' = r.rows

\* _normalize_subentry_data: a target wins over a detachment, and without either
\* the sensor stays in its group.
NormalizedGroup(current, target, create) ==
    IF target # None THEN target ELSE IF create THEN None ELSE current

-----------------------------------------------------------------------------
Init ==
    /\ union \in BOOLEAN
    /\ subentries \in SUBSET Sensors
    /\ group = [i \in Sensors |-> None]
    /\ links = [k \in Sensors |-> {k} \cap subentries]
    /\ rows = [i \in Sensors |->
                 IF i \in subentries THEN [device |-> i, name |-> "given"] ELSE None]
    /\ reload = FALSE
    /\ todo = {}
    /\ edits = 0
    /\ faults = 0
    /\ named = subentries
    /\ respun = {}
    /\ torn = {}
    /\ unfound = {}
    /\ foreign = {}

UserActs ==
    /\ todo = {}
    /\ todo' = {}
    /\ edits < MaxEdits
    /\ edits' = edits + 1

\* async_step_details with target k, or with none: a sensor with a new id.
\* Nothing is done to the registries before it is set up.
Create(i, k) ==
    /\ UserActs
    /\ i \notin subentries
    /\ links[i] = {} /\ \A j \in subentries : group[j] # i
    /\ k # None => links[k] # {} /\ Allowed(links[k])
    /\ subentries' = subentries \cup {i}
    /\ group' = [group EXCEPT ![i] = NormalizedGroup(None, k, FALSE)]
    /\ reload' = TRUE
    /\ UNCHANGED <<union, registryVars, faults, historyVars>>

\* async_step_reconfigure with a target device.
Map(i, k) ==
    /\ UserActs
    /\ i \in subentries
    /\ links[k] # {}
    /\ i \in links[k] \/ Allowed(links[k])
    /\ LET calls == TargetMapping(i, k) IN Becomes(calls[Len(calls)])
    /\ group' = [group EXCEPT ![i] = NormalizedGroup(@, k, FALSE)]
    /\ unfound' = IF Found(i) THEN unfound ELSE unfound \cup {i}
    /\ reload' = TRUE
    /\ UNCHANGED <<union, subentries, faults, named, respun, torn, foreign>>

\* async_step_reconfigure with "create a separate device" and no target.
Detach(i) ==
    /\ UserActs
    /\ i \in subentries
    /\ LET calls == Detachment(i) IN Becomes(calls[Len(calls)])
    /\ group' = [group EXCEPT ![i] = NormalizedGroup(@, None, TRUE)]
    /\ respun' = IF Found(i) /\ rows[i].device = i THEN respun \cup {i} ELSE respun
    /\ unfound' = IF Found(i) THEN unfound ELSE unfound \cup {i}
    /\ reload' = TRUE
    /\ UNCHANGED <<union, subentries, faults, named, torn, foreign>>

\* A registry call raises: those before it stand, the data is not written.
Raises(i, calls) ==
    /\ UserActs
    /\ faults < MaxFaults
    /\ faults' = faults + 1
    /\ i \in subentries
    /\ \E n \in 0 .. Len(calls) - 1 : Becomes(IF n = 0 THEN Registry ELSE calls[n])
    /\ torn' = torn \cup {i}
    /\ UNCHANGED <<union, dataVars, reload, named, respun, unfound, foreign>>

MapRaises(i, k) ==
    /\ links[k] # {}
    /\ i \in links[k] \/ Allowed(links[k])
    /\ ~(i \in links[k] /\ Found(i) /\ rows[i].device = k)
    /\ Raises(i, TargetMapping(i, k))

DetachRaises(i) == Raises(i, Detachment(i))

\* async_step_reconfigure for any other reason.
Edit(i) ==
    /\ UserActs
    /\ i \in subentries
    /\ group' = [group EXCEPT ![i] = NormalizedGroup(@, None, FALSE)]
    /\ reload' = TRUE
    /\ UNCHANGED <<union, subentries, registryVars, faults, historyVars>>

\* async_remove_subentry: its links and its row go.
Delete(i) ==
    /\ UserActs
    /\ i \in subentries
    /\ subentries' = subentries \ {i}
    /\ group' = [group EXCEPT ![i] = None]
    /\ links' = [k \in Sensors |-> links[k] \ {i}]
    /\ rows' = [rows EXCEPT ![i] = None]
    /\ named' = named \ {i}
    /\ reload' = TRUE
    /\ UNCHANGED <<union, faults, respun, torn, unfound, foreign>>

\* import_data_service: a sensor that was deleted, with the id and the group it
\* had when the snapshot was made, here or elsewhere, whether that device still exists
\* or not and whoever owns it.
Restore(i, k) ==
    /\ UserActs
    /\ i \notin subentries
    /\ subentries' = subentries \cup {i}
    /\ group' = [group EXCEPT ![i] = k]
    /\ foreign' = IF union \/ k \in {None, i} THEN foreign ELSE foreign \cup {i, k}
    /\ reload' = TRUE
    /\ UNCHANGED <<union, registryVars, faults, named, respun, torn, unfound>>

Reload ==
    /\ reload
    /\ reload' = FALSE
    /\ todo' = subentries
    /\ UNCHANGED <<union, dataVars, registryVars, edits, faults, historyVars>>

\* Mutant: a sensor is set up on a device of its own whatever its data says.
DeviceKeyOwn(i) == i

\* The identifier in the entity's DeviceInfo.
DeviceKey(i) == Home(i)

\* async_setup_entry of the platforms hands over the entities, and each is added in a
\* task of its own: its device is made or linked, its row made or moved there.
SetUp(i) ==
    LET r == Linked(Registry, i, DeviceKey(i)) IN
    /\ i \in todo
    /\ todo' = todo \ {i}
    /\ links' = r.links
    /\ rows' = [r.rows EXCEPT ![i] =
                  [device |-> DeviceKey(i),
                   name |-> IF rows[i] = None THEN "default" ELSE rows[i].name]]
    /\ UNCHANGED <<union, dataVars, reload, edits, faults, historyVars>>

Next ==
    \/ \E i \in Sensors :
         \/ \E k \in Sensors \cup {None} : Create(i, k) \/ Restore(i, k)
         \/ \E k \in Sensors : Map(i, k) \/ MapRaises(i, k)
         \/ Detach(i) \/ DetachRaises(i) \/ Edit(i) \/ Delete(i)
         \/ SetUp(i)
    \/ Reload

Spec == Init /\ [][Next]_vars

-----------------------------------------------------------------------------
(* Properties.                                                             *)

TypeOK ==
    /\ union \in BOOLEAN
    /\ subentries \subseteq Sensors
    /\ group \in [Sensors -> Sensors \cup {None}]
    /\ links \in [Sensors -> SUBSET Sensors]
    /\ rows \in [Sensors -> Rows \cup {None}]
    /\ reload \in BOOLEAN
    /\ todo \subseteq Sensors
    /\ edits \in Nat
    /\ faults \in Nat
    /\ named \subseteq Sensors
    /\ respun \subseteq Sensors
    /\ torn \subseteq Sensors
    /\ unfound \subseteq Sensors
    /\ foreign \subseteq Sensors

\* Whatever is edited or imported and wherever it fails, a row is on a device linked to
\* its sensor; any other goes at the device's next update (config_flow.py:893-895).
RowsOwned == \A i \in Sensors : rows[i] # None => i \in links[rows[i].device]

\* No edit of any sensor costs a sensor its row and the name the user gave it, on
\* either kind of runtime (config_flow.py:945-955), but for the finding below, and for
\* sensors that an import puts together on a device which can have but one owner: the
\* flow refuses this, the import does not (__init__.py:707-766), and at every reload
\* the one that is set up last takes the device and the rows of the others go.
RowsKept ==
    \A i \in named \ (respun \cup foreign) : rows[i] # None /\ rows[i].name = "given"

\* Whatever moves came before, a reload leaves every sensor on the device its data
\* names, in whatever order it sets them up, and so does every later step but a failed
\* edit (config_flow.py:758-766).
InPlace ==
    ~reload /\ todo = {} =>
        \A i \in subentries \ (torn \cup foreign) : rows[i] # None /\ rows[i].device = Home(i)

\* A sensor leaves no device behind that it is linked to but not on, which would
\* stay when its other sensors go (config_flow.py:1102-1122).
NoGhostDevice ==
    ~reload => \A k \in Sensors :
                 links[k] \ (torn \cup unfound \cup foreign) \subseteq {i \in subentries : Home(i) = k}

-----------------------------------------------------------------------------
(* What the repository says and the code does not do.                      *)

\* "Moving the row before dropping the link is what preserves its identity and
\* recorder history across the move (REQ-CORE-001)" (config_flow.py:857-859).
MoveKeepsRow ==
    [][\A i \in subentries \cap subentries' : rows[i] # None => rows'[i] # None]_vars
=============================================================================
