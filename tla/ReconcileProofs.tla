--------------------------- MODULE ReconcileProofs ---------------------------
(***************************************************************************)
(* Theorems about module Reconcile, for any number of entries, failures    *)
(* and restarts, whatever steps fail.                                      *)
(***************************************************************************)
EXTENDS Reconcile, WellFoundedInduction, TLAPS

\* How far the conversion is: until there is a root no entry is gone, and what is
\* still to be converted is neither gone nor the root.
Walk ==
    /\ root # None => root \in entries
    /\ root = None => entries = Ids /\ step \notin {"remove", "setup", "running"}
    /\ root # None => step \notin {"drop", "flip", "failed"}
    /\ step \in ConversionSteps =>
         current \in entries /\ current # root /\ todo \subseteq entries \ {current, root}
    /\ step \in ConversionSteps \ {"attach"} => subentries[Parent][current] # None

\* Where the rows of a sensor can be: with its own entry, or with its subentry of
\* the root; and always where its device is linked to.
Placed(i) ==
    /\ <<entity[i].entry, entity[i].subentry>> \in device[i].links
    /\ \/ entity[i].entry = i /\ entity[i].subentry \in {None, i}
       \/ root # None /\ entity[i].entry = root /\ entity[i].subentry = i

\* How far the rows of the sensor that is being converted are.
Moving(i) ==
    /\ step = "entities" /\ entity[i].entry = i => <<Parent, i>> \in device[i].links
    /\ step \in {"drop", "flip"} => entity[i].subentry = i
    /\ step = "remove" => entity[i].entry = root

Rows ==
    /\ \A i \in Ids : entity[i] # None => Placed(i) /\ (i = current => Moving(i))
    /\ \A i \in customised \ deleted :
         entity[i] # None /\ entity[i].name = "given" /\ device[i].name = "given"

-----------------------------------------------------------------------------
(* Lemmas.                                                                 *)

\* A set of entries that is not empty has a first one.
LEMMA FirstOfSet ==
    ASSUME NEW set \in SUBSET Ids, set # {}
    PROVE  FirstOf(set) \in set
<1>1. set \subseteq Nat
  BY ReconcileAssumption DEF Ids
<1>2. PICK i \in set : \A j \in set : ~(<<j, i>> \in OpToRel(<, Nat))
  BY <1>1, WFMin, NatLessThanWellFounded, Zenon
<1>3. \A j \in set : ~(j < i)
  BY <1>1, <1>2 DEF OpToRel
<1>4. \A j \in set : i <= j
  BY <1>1, <1>3
<1>5. QED
  BY <1>4 DEF FirstOf

\* What Proceed does, when what is left is neither gone nor the root.
LEMMA ProceedStep ==
    ASSUME NEW rest \in SUBSET Ids, Proceed(rest)
    PROVE  \/ step' = "setup" /\ current' = None /\ todo' = {}
           \/ /\ step' = "attach"
              /\ current' \in rest
              /\ todo' = rest \ {current'}
BY FirstOfSet DEF Proceed

\* A disabler stays one.
LEMMA RestampedType ==
    ASSUME NEW by \in Disablers
    PROVE  Restamped(by) \in Disablers
BY DEF Restamped, Disablers, Stamps

\* Nor does enabling or disabling an entry make another thing of it.
LEMMA FollowedType ==
    ASSUME NEW by \in Disablers, NEW off
    PROVE  Followed(by, off) \in Disablers
BY DEF Followed, Disablers, Stamps

\* A row that is updated is one still.
LEMMA EntityUpdated ==
    ASSUME NEW row \in EntityRows, NEW e \in Ids, NEW s \in Ids \cup {None},
           NEW by \in Disablers
    PROVE  /\ [row EXCEPT !.entry = e, !.subentry = s] \in EntityRows
           /\ [row EXCEPT !.disabled_by = by] \in EntityRows
           /\ [row EXCEPT !.entry = e, !.subentry = s, !.disabled_by = by] \in EntityRows
BY DEF EntityRows

\* The same of a device.
LEMMA DeviceUpdated ==
    ASSUME NEW row \in DeviceRows, NEW e \in Ids, NEW i \in Ids, NEW by \in Disablers
    PROVE  /\ [row EXCEPT !.links = row.links \cup {<<e, i>>}] \in DeviceRows
           /\ [row EXCEPT !.disabled_by = by] \in DeviceRows
           /\ [row EXCEPT !.links = row.links \cup {<<e, i>>}, !.disabled_by = by] \in DeviceRows
<1>1. ASSUME NEW links \in SUBSET Links
      PROVE  /\ [row EXCEPT !.links = links] \in DeviceRows
             /\ [row EXCEPT !.disabled_by = by] \in DeviceRows
             /\ [row EXCEPT !.links = links, !.disabled_by = by] \in DeviceRows
  BY DEF DeviceRows
<1>2. row.links \cup {<<e, i>>} \in SUBSET Links
  BY DEF DeviceRows, Links
<1>3. QED
  BY <1>1, <1>2

\* Taking links away keeps the types of the rows.
LEMMA UnlinkType ==
    ASSUME TypeOK, NEW gone, Unlink(gone)
    PROVE  /\ entity' \in [Ids -> EntityRows \cup {None}]
           /\ device' \in [Ids -> DeviceRows]
<1> DEFINE after == [i \in Ids |-> WithLinks(device[i], device[i].links \ gone)]
<1>1. device' = after /\ entity' = Cleaned(entity, device, after)
  BY DEF Unlink
<1>2. ASSUME NEW i \in Ids
      PROVE  after[i] \in DeviceRows
  <2>1. device[i] \in DeviceRows
    BY DEF TypeOK
  <2>2. NoDevice \in DeviceRows
    BY DEF NoDevice, DeviceRows, Disablers, Names
  <2>3. [device[i] EXCEPT !.links = device[i].links \ gone] \in DeviceRows
    BY <2>1 DEF DeviceRows
  <2>4. QED
    BY <2>2, <2>3 DEF WithLinks
<1>3. device' \in [Ids -> DeviceRows]
  BY <1>1, <1>2
<1>4. entity' \in [Ids -> EntityRows \cup {None}]
  BY <1>1 DEF Cleaned, TypeOK
<1>5. QED
  BY <1>3, <1>4

\* The rows an old installation starts with.
LEMMA InitialRowsType ==
    ASSUME NEW i \in Ids, NEW rows \in InitialRows(i)
    PROVE  /\ rows[1] \in EntityRows \cup {None}
           /\ rows[2] \in DeviceRows
           /\ rows[1] # None =>
                /\ rows[1].name = "given" /\ rows[2].name = "given"
                /\ rows[1].entry = i /\ rows[1].subentry = None
                /\ <<i, None>> \in rows[2].links
<1> DEFINE stamps == IF disabled[i] THEN {"config_entry"} ELSE {None}
           pairs  == ((stamps \cup {"user"}) \X stamps) \cup {<<"user", "user">>}
           ent(p) == [entry |-> i, subentry |-> None, disabled_by |-> p[1], name |-> "given"]
           dev(p) == [links |-> {<<i, None>>}, disabled_by |-> p[2], name |-> "given"]
<1>1. rows = <<None, NoDevice>> \/ \E p \in pairs : rows = <<ent(p), dev(p)>>
  BY DEF InitialRows
<1>2. CASE rows = <<None, NoDevice>>
  BY <1>2 DEF NoDevice, DeviceRows, Disablers, Names
<1>3. ASSUME NEW p \in pairs, rows = <<ent(p), dev(p)>>
      PROVE  /\ rows[1] \in EntityRows
             /\ rows[2] \in DeviceRows
             /\ rows[1].name = "given" /\ rows[2].name = "given"
             /\ rows[1].entry = i /\ rows[1].subentry = None
             /\ <<i, None>> \in rows[2].links
  <2>1. p[1] \in Disablers /\ p[2] \in Disablers
    BY <1>3 DEF Disablers, Stamps
  <2>2. ent(p) \in EntityRows
    BY <2>1 DEF EntityRows, Names
  <2>3. dev(p) \in DeviceRows
    BY <2>1 DEF DeviceRows, Links, Names
  <2>4. QED
    BY <1>3, <2>2, <2>3
<1>4. QED
  BY <1>1, <1>2, <1>3

-----------------------------------------------------------------------------
(* Types, and how far the conversion is.                                   *)

\* The old installation.
LEMMA InitHolds ==
    ASSUME Init
    PROVE  TypeOK /\ Walk /\ Rows
<1>1. PICK rows \in [Ids -> UNION {InitialRows(i) : i \in Ids}] :
        /\ \A i \in Ids : rows[i] \in InitialRows(i)
        /\ entity = [i \in Ids |-> rows[i][1]]
        /\ device = [i \in Ids |-> rows[i][2]]
  BY DEF Init
<1>2. \A i \in Ids :
        /\ entity[i] \in EntityRows \cup {None}
        /\ device[i] \in DeviceRows
        /\ entity[i] # None =>
             /\ entity[i].name = "given" /\ device[i].name = "given"
             /\ entity[i].entry = i /\ entity[i].subentry = None
             /\ <<i, None>> \in device[i].links
  BY <1>1, InitialRowsType
<1>3. TypeOK
  BY <1>1, <1>2 DEF Init, TypeOK
<1>4. Walk
  BY DEF Init, Walk, ConversionSteps
<1>5. Rows
  BY <1>2 DEF Init, Rows, Placed, Moving
<1>6. QED
  BY <1>3, <1>4, <1>5

\* Every step keeps both.
LEMMA WalkStep ==
    ASSUME TypeOK, Walk, [Next]_vars
    PROVE  TypeOK' /\ Walk'
<1> USE DEF TypeOK, Walk
<1>1. root \notin {None} => root \in Ids
  OBVIOUS
<1>2. step \in ConversionSteps => Parent \in Ids /\ current \in Ids
  BY DEF Parent
<1>3. None \notin Ids
  BY ReconcileAssumption DEF Ids
<1>4. CASE Scan
  <2> DEFINE legacy == entries \ {root}
             target == PromotionTarget(legacy)
  <2>1. CASE root = None
    <3>1. legacy # {} /\ legacy \in SUBSET Ids
      BY <1>3, <2>1, ReconcileAssumption DEF Ids
    <3>2. target \in legacy
      BY <3>1, FirstOfSet DEF PromotionTarget
    <3>3. step' = "attach" /\ current' = target /\ todo' = legacy \ {target}
      BY <1>4, <2>1 DEF Scan
    <3>4. QED
      BY <1>3, <1>4, <2>1, <3>1, <3>2, <3>3 DEF Scan, configVars, rowVars, ConversionSteps
  <2>2. CASE root # None
    <3>1. Proceed(legacy) /\ legacy \in SUBSET Ids
      BY <1>4, <2>2 DEF Scan
    <3>2. QED
      BY <1>3, <1>4, <2>2, <3>1, ProceedStep DEF Scan, configVars, rowVars, ConversionSteps
  <2>3. QED
    BY <2>1, <2>2
<1>5. CASE Attach
  <2>1. /\ Parent \in Ids /\ current \in Ids
        /\ subentries' = [subentries EXCEPT ![Parent][current] = "legacy"]
    BY <1>2, <1>5 DEF Attach, ConversionSteps
  <2>2. subentries' \in [Ids -> [Ids -> Data \cup {None}]]
    BY <2>1 DEF Data
  <2>3. subentries'[Parent][current] # None
    <3>1. subentries'[Parent][current] = "legacy"
      BY <2>1
    <3>2. QED
      BY <3>1, ReconcileAssumption DEF Data
  <2>4. Parent' = Parent
    BY <1>5 DEF Attach, Parent
  <2>5. QED
    BY <1>5, <2>2, <2>3, <2>4 DEF Attach, rowVars, ConversionSteps
<1>6. CASE AdoptDevices
  <2>1. device' \in [Ids -> DeviceRows]
    <3>1. Parent \in Ids /\ current \in Ids
      BY <1>2, <1>6 DEF AdoptDevices, ConversionSteps
    <3>2. ASSUME NEW i \in Ids
          PROVE  device[i] \in DeviceRows /\ Restamped(device[i].disabled_by) \in Disablers
      BY RestampedType DEF DeviceRows
    <3>3. QED
      BY <1>6, <3>1, <3>2, DeviceUpdated DEF AdoptDevices
  <2>2. QED
    BY <1>6, <2>1 DEF AdoptDevices, configVars, ConversionSteps, Parent
<1>7. CASE AdoptEntities
  <2>1. entity' \in [Ids -> EntityRows \cup {None}]
    <3>1. Parent \in Ids /\ current \in Ids
      BY <1>2, <1>7 DEF AdoptEntities, ConversionSteps
    <3>2. ASSUME NEW i \in Ids, OwnEntity(entity[i], current)
          PROVE  entity[i] \in EntityRows /\ Restamped(entity[i].disabled_by) \in Disablers
      BY <3>2, RestampedType DEF OwnEntity, EntityRows
    <3>3. QED
      BY <1>7, <3>1, <3>2, EntityUpdated DEF AdoptEntities
  <2>2. QED
    BY <1>7, <2>1 DEF AdoptEntities, configVars, ConversionSteps, Parent, IsPromotion
<1>8. CASE DropMainLink
  BY <1>8, UnlinkType DEF DropMainLink, configVars, ConversionSteps, Parent
<1>9. CASE FlipIdentity
  <2>1. Proceed(todo) /\ root = None /\ root' = current /\ current \in Ids
    BY <1>9 DEF FlipIdentity, ConversionSteps
  <2>2. QED
    BY <1>3, <1>9, <2>1, ProceedStep DEF FlipIdentity, rowVars, ConversionSteps
<1>10. CASE RemoveEntry
  <2>1. Proceed(todo) /\ root # None /\ current # root
    BY <1>10 DEF RemoveEntry, ConversionSteps
  <2>2. entity' \in [Ids -> EntityRows \cup {None}] /\ device' \in [Ids -> DeviceRows]
    BY <1>10, UnlinkType DEF RemoveEntry
  <2>3. subentries' \in [Ids -> [Ids -> Data \cup {None}]]
    BY <1>10 DEF RemoveEntry
  <2>4. todo \subseteq entries \ {current, root}
    BY <1>10 DEF RemoveEntry, ConversionSteps
  <2>5. QED
    BY <1>3, <1>10, <2>1, <2>2, <2>3, <2>4, ProceedStep DEF RemoveEntry, ConversionSteps
<1>11. CASE Fail
  <2>1. step \in ConversionSteps
    BY <1>11, ReconcileAssumption DEF Fail
  <2>2. CASE root = None
    BY <1>2, <1>11, <2>1, <2>2 DEF Fail, configVars, rowVars, ConversionSteps, IsPromotion
  <2>3. CASE root # None
    <3>1. Proceed(todo)
      BY <1>11, <2>3 DEF Fail, IsPromotion
    <3>2. QED
      BY <1>2, <1>3, <1>11, <2>1, <2>3, <3>1, ProceedStep
         DEF Fail, configVars, rowVars, ConversionSteps
  <2>4. QED
    BY <2>2, <2>3
<1>12. CASE SetUpRoot
  <2>1. root # None /\ root \in Ids
    BY <1>12 DEF SetUpRoot
  <2>2. device' \in [Ids -> DeviceRows]
    <3>1. ASSUME NEW i \in Ids
          PROVE  /\ device[i] \in DeviceRows
                 /\ [device[i] EXCEPT !.links = @ \cup {<<root, i>>}] \in DeviceRows
      BY <2>1, DeviceUpdated DEF Disablers
    <3>2. QED
      BY <1>12, <3>1 DEF SetUpRoot
  <2>3. entity' \in [Ids -> EntityRows \cup {None}]
    <3>1. ASSUME NEW i \in Ids
          PROVE  [entry |-> root, subentry |-> i, disabled_by |-> None, name |-> "default"]
                   \in EntityRows
      BY <2>1 DEF EntityRows, Disablers, Stamps, Names
    <3>2. ASSUME NEW i \in Ids, entity[i] # None
          PROVE  [entity[i] EXCEPT !.entry = root, !.subentry = i] \in EntityRows
      BY <2>1, <3>2, EntityUpdated DEF Disablers
    <3>3. QED
      BY <1>12, <3>1, <3>2 DEF SetUpRoot
  <2>4. QED
    BY <1>12, <2>1, <2>2, <2>3 DEF SetUpRoot, configVars, ConversionSteps
<1>13. CASE Restart
  BY <1>13 DEF Restart, Occurs, configVars, rowVars, ConversionSteps
<1>14. ASSUME NEW e \in Ids, ToggleDisabled(e)
       PROVE  TypeOK' /\ Walk'
  <2>1. ASSUME NEW i \in Ids, NEW off
        PROVE  /\ OwnEntity(entity[i], e) =>
                    [entity[i] EXCEPT !.disabled_by = Followed(@, off)] \in EntityRows
               /\ [device[i] EXCEPT !.disabled_by = Followed(@, off)] \in DeviceRows
    <3>1. device[i] \in DeviceRows /\ device[i].disabled_by \in Disablers
      BY DEF DeviceRows
    <3>2. CASE OwnEntity(entity[i], e)
      <4>1. entity[i] \in EntityRows /\ entity[i].disabled_by \in Disablers
        BY <3>2 DEF OwnEntity, EntityRows
      <4>2. QED
        BY <3>1, <4>1, FollowedType, EntityUpdated, DeviceUpdated
    <3>3. QED
      BY <3>1, <3>2, FollowedType, DeviceUpdated
  <2>2. entity' \in [Ids -> EntityRows \cup {None}]
    BY <1>14, <2>1 DEF ToggleDisabled
  <2>3. device' \in [Ids -> DeviceRows]
    BY <1>14, <2>1 DEF ToggleDisabled
  <2>4. step \in {"running", "failed"} /\ step' \in {step, "setup"}
        /\ (step' = "setup" => root # None)
    BY <1>3, <1>14 DEF ToggleDisabled
  <2>5. QED
    BY <1>14, <2>2, <2>3, <2>4 DEF ToggleDisabled, Occurs, ConversionSteps
<1>15. ASSUME NEW i \in Ids, EditSubentry(i)
       PROVE  TypeOK' /\ Walk'
  BY <1>15 DEF EditSubentry, Occurs, rowVars, runVars, ConversionSteps, Data
<1>16. ASSUME NEW i \in Ids, DeleteSubentry(i)
       PROVE  TypeOK' /\ Walk'
  BY <1>16, UnlinkType DEF DeleteSubentry, Occurs, runVars, ConversionSteps
<1>17. CASE UNCHANGED vars
  BY <1>17 DEF vars, configVars, rowVars, runVars, ConversionSteps, Parent
<1>18. QED
  BY <1>4, <1>5, <1>6, <1>7, <1>8, <1>9, <1>10, <1>11, <1>12, <1>13, <1>14, <1>15,
     <1>16, <1>17 DEF Next, Start, Convert

\* The types hold for any number of entries, starts and failures.
THEOREM ReconcileTypeCorrect == Spec => []TypeOK
<1>1. Init => TypeOK /\ Walk
  BY InitHolds
<1>2. (TypeOK /\ Walk) /\ [Next]_vars => (TypeOK /\ Walk)'
  BY WalkStep
<1>3. QED
  BY <1>1, <1>2, PTL DEF Spec

\* The conversion never leaves its way.
THEOREM AlwaysWalks == Spec => [](TypeOK /\ Walk)
<1>1. Init => TypeOK /\ Walk
  BY InitHolds
<1>2. (TypeOK /\ Walk) /\ [Next]_vars => (TypeOK /\ Walk)'
  BY WalkStep
<1>3. QED
  BY <1>1, <1>2, PTL DEF Spec

-----------------------------------------------------------------------------
(* The registry rows.                                                      *)

\* Taking links away spares a row whose own link stays, and deletes one whose
\* link goes.
LEMMA UnlinkStep ==
    ASSUME TypeOK, NEW gone, Unlink(gone), NEW i \in Ids
    PROVE  /\ device'[i].links = device[i].links \ gone
           /\ device'[i].links # {} => device'[i].name = device[i].name
           /\ entity'[i] \in {entity[i], None}
           /\ entity[i] # None =>
                LET own == <<entity[i].entry, entity[i].subentry>>
                IN  /\ own \notin gone => entity'[i] = entity[i]
                    /\ own \in device[i].links \cap gone => entity'[i] = None
<1> DEFINE after == [j \in Ids |-> WithLinks(device[j], device[j].links \ gone)]
<1>1. device' = after /\ entity' = Cleaned(entity, device, after)
  BY DEF Unlink
<1>2. device[i] \in DeviceRows
  BY DEF TypeOK
<1>3. /\ after[i].links = device[i].links \ gone
      /\ after[i].links # {} => after[i].name = device[i].name
  BY <1>2 DEF WithLinks, NoDevice, DeviceRows
<1>4. entity'[i] = IF entity[i] # None
                      /\ <<entity[i].entry, entity[i].subentry>>
                           \in device[i].links \ after[i].links
                   THEN None ELSE entity[i]
  BY <1>1 DEF Cleaned
<1> HIDE DEF after
<1>5. QED
  BY <1>1, <1>3, <1>4

\* The own link of sensor i's entity row.
Own(i) == <<entity[i].entry, entity[i].subentry>>

\* Links that are no row's own go without a row.
LEMMA UnlinkSpares ==
    ASSUME TypeOK, Rows, NEW gone, Unlink(gone),
           \A i \in Ids : entity[i] # None => Own(i) \notin gone
    PROVE  \A i \in Ids :
             /\ entity'[i] = entity[i]
             /\ entity[i] # None => Own(i) \in device'[i].links /\ device'[i].name = device[i].name
<1>1. ASSUME NEW i \in Ids
      PROVE  entity'[i] = entity[i]
  BY <1>1, UnlinkStep DEF Own
<1>2. ASSUME NEW i \in Ids, entity[i] # None
      PROVE  Own(i) \in device'[i].links /\ device'[i].name = device[i].name
  <2>1. Own(i) \in device[i].links
    BY <1>2 DEF Rows, Placed, Own
  <2>2. Own(i) \in device'[i].links
    BY <1>2, <2>1, UnlinkStep DEF Own
  <2>3. QED
    BY <2>2, UnlinkStep
<1>3. QED
  BY <1>1, <1>2

\* The root's own link goes when the entity has left it (__init__.py:215-240).
LEMMA DropSpares ==
    ASSUME TypeOK, Walk, Rows, DropMainLink
    PROVE  \A i \in Ids : entity[i] # None => Own(i) \notin {<<current, None>>}
<1>1. None \notin Ids
  BY ReconcileAssumption DEF Ids
<1>2. step = "drop" /\ root = None
  BY DEF DropMainLink, Walk
<1>3. QED
  BY <1>1, <1>2 DEF Rows, Placed, Moving, Own

\* An entry is removed when its rows have left it (__init__.py:134-144).
LEMMA RemoveSpares ==
    ASSUME TypeOK, Walk, Rows, RemoveEntry
    PROVE  \A i \in Ids : entity[i] # None => Own(i) \notin {current} \X (Ids \cup {None})
<1>1. step = "remove" /\ root # None /\ current # root
  BY DEF RemoveEntry, Walk, ConversionSteps
<1>2. ASSUME NEW i \in Ids, entity[i] # None
      PROVE  entity[i].entry # current
  BY <1>1, <1>2 DEF Rows, Placed, Moving
<1>3. QED
  BY <1>2 DEF Own

\* Every step leaves the rows where the next one needs them.
LEMMA RowsStep ==
    ASSUME TypeOK, Walk, Rows, [Next]_vars
    PROVE  Rows'
<1>1. None \notin Ids
  BY ReconcileAssumption DEF Ids
<1>2. step \in ConversionSteps => Parent \in Ids /\ current \in Ids /\ current # root
  BY DEF TypeOK, Walk, Parent
<1>3. \A i \in Ids : entity[i] # None => entity[i] \in EntityRows
  BY DEF TypeOK
<1>4. customised \subseteq Ids
  BY DEF TypeOK
<1>5. CASE Scan
  <2>1. step' \in {"attach", "setup"}
    BY <1>5 DEF Scan, Proceed
  <2>2. QED
    BY <1>5, <2>1 DEF Scan, configVars, rowVars, Rows, Placed, Moving
<1>6. CASE Attach
  BY <1>6 DEF Attach, rowVars, Rows, Placed, Moving
<1>7. CASE AdoptDevices
  <2>1. /\ step = "devices" /\ step' = "entities" /\ Parent' = Parent
        /\ UNCHANGED <<entity, root, current, customised, deleted>>
    BY <1>7 DEF AdoptDevices, configVars, Parent
  <2>2. ASSUME NEW i \in Ids
        PROVE  /\ device[i].links \subseteq device'[i].links
               /\ device'[i].name = device[i].name
               /\ OwnDevice(device[i], current) => <<Parent, current>> \in device'[i].links
    <3>1. device[i] \in DeviceRows
      BY DEF TypeOK
    <3>2. QED
      BY <1>7, <3>1 DEF AdoptDevices, DeviceRows
  <2>3. ASSUME NEW i \in Ids, entity[i] # None, i = current, entity[i].entry = i
        PROVE  OwnDevice(device[i], current)
    BY <2>3 DEF Rows, Placed, OwnDevice
  <2>4. QED
    BY <1>4, <2>1, <2>2, <2>3 DEF Rows, Placed, Moving
<1>8. CASE AdoptEntities
  <2>1. /\ step = "entities" /\ step' = IF root = None THEN "drop" ELSE "remove"
        /\ UNCHANGED <<device, root, current, customised, deleted>>
    BY <1>8 DEF AdoptEntities, configVars, IsPromotion
  <2>2. ASSUME NEW i \in Ids, entity[i] # None
        PROVE  IF entity[i].entry = current
               THEN /\ entity'[i] # None
                    /\ entity'[i].entry = Parent /\ entity'[i].subentry = current
                    /\ entity'[i].name = entity[i].name
               ELSE entity'[i] = entity[i]
    <3>1. entity[i] \in EntityRows
      BY <1>3, <2>2
    <3>2. CASE entity[i].entry = current
      <4>1. /\ entity'[i] = [entity[i] EXCEPT !.entry = Parent, !.subentry = current,
                                             !.disabled_by = Restamped(@)]
            /\ Restamped(entity[i].disabled_by) \in Disablers
        BY <1>8, <2>2, <3>1, <3>2, RestampedType DEF AdoptEntities, OwnEntity, EntityRows
      <4>2. entity'[i] \in EntityRows
        <5>1. Parent \in Ids /\ current \in Ids
          BY <1>2, <2>1 DEF ConversionSteps
        <5>2. [entity[i] EXCEPT !.entry = Parent, !.subentry = current,
                                !.disabled_by = Restamped(entity[i].disabled_by)] \in EntityRows
          BY <3>1, <4>1, <5>1, EntityUpdated
        <5>3. QED
          BY <4>1, <5>2
      <4>3. entity'[i] # None
        BY <4>2, ReconcileAssumption
      <4>4. QED
        BY <3>1, <3>2, <4>1, <4>3 DEF EntityRows
    <3>3. CASE entity[i].entry # current
      BY <1>8, <2>2, <3>3 DEF AdoptEntities, OwnEntity
    <3>4. QED
      BY <3>2, <3>3
  <2>3. ASSUME NEW i \in Ids, entity[i] # None, entity[i].entry = current
        PROVE  i = current /\ <<Parent, i>> \in device[i].links
    BY <1>2, <2>1, <2>3 DEF Rows, Placed, Moving, ConversionSteps
  <2>4. ASSUME NEW i \in Ids, entity[i] = None
        PROVE  entity'[i] = None
    BY <1>8, <2>4 DEF AdoptEntities, OwnEntity
  <2>5. ASSUME NEW i \in Ids, entity'[i] # None
        PROVE  Placed(i)' /\ (i = current' => Moving(i)')
    <3>1. entity[i] # None /\ Placed(i) /\ (i = current => Moving(i))
      BY <2>4, <2>5 DEF Rows
    <3>2. CASE entity[i].entry = current
      BY <2>1, <2>2, <2>3, <3>1, <3>2 DEF Placed, Moving, Parent
    <3>3. CASE entity[i].entry # current
      BY <2>1, <2>2, <3>1, <3>3 DEF Placed, Moving
    <3>4. QED
      BY <3>2, <3>3
  <2>6. QED
    BY <1>4, <2>1, <2>2, <2>5 DEF Rows
<1>9. CASE DropMainLink
  <2>1. /\ step = "drop" /\ step' = "flip" /\ root = None
        /\ UNCHANGED <<root, current, customised, deleted>> /\ Unlink({<<current, None>>})
    BY <1>9 DEF DropMainLink, configVars, Walk
  <2>2. \A i \in Ids :
          /\ entity'[i] = entity[i]
          /\ entity[i] # None => Own(i) \in device'[i].links /\ device'[i].name = device[i].name
    BY <1>9, <2>1, DropSpares, UnlinkSpares
  <2>3. ASSUME NEW i \in Ids, entity'[i] # None
        PROVE  Placed(i)' /\ (i = current' => Moving(i)')
    <3>1. entity[i] # None /\ Placed(i) /\ (i = current => Moving(i))
      BY <2>2, <2>3 DEF Rows
    <3>2. QED
      BY <2>1, <2>2, <3>1 DEF Placed, Moving, Own
  <2>4. QED
    BY <1>4, <2>1, <2>2, <2>3 DEF Rows
<1>10. CASE FlipIdentity
  <2>1. /\ step = "flip" /\ root = None /\ root' = current
        /\ step' \in {"attach", "setup"}
        /\ UNCHANGED <<rowVars, customised, deleted>>
    BY <1>10 DEF FlipIdentity, Walk, Proceed
  <2>2. QED
    BY <2>1 DEF rowVars, Rows, Placed, Moving
<1>11. CASE RemoveEntry
  <2>1. /\ step' \in {"attach", "setup"}
        /\ UNCHANGED <<root, customised, deleted>> /\ Unlink({current} \X (Ids \cup {None}))
    BY <1>11 DEF RemoveEntry, Proceed
  <2>2. \A i \in Ids :
          /\ entity'[i] = entity[i]
          /\ entity[i] # None => Own(i) \in device'[i].links /\ device'[i].name = device[i].name
    BY <1>11, <2>1, RemoveSpares, UnlinkSpares
  <2>3. ASSUME NEW i \in Ids, entity'[i] # None
        PROVE  Placed(i)' /\ (i = current' => Moving(i)')
    <3>1. entity[i] # None /\ Placed(i)
      BY <2>2, <2>3 DEF Rows
    <3>2. QED
      BY <2>1, <2>2, <3>1 DEF Placed, Moving, Own
  <2>4. QED
    BY <1>4, <2>1, <2>2, <2>3 DEF Rows
<1>12. CASE Fail
  <2>1. /\ step' \in {"attach", "setup", "failed"}
        /\ UNCHANGED <<root, rowVars, customised, deleted>>
    BY <1>12 DEF Fail, Proceed, configVars
  <2>2. QED
    BY <2>1 DEF rowVars, Rows, Placed, Moving
<1>13. CASE SetUpRoot
  <2>1. /\ step' = "running" /\ root # None
        /\ UNCHANGED <<root, customised, deleted>>
    BY <1>13 DEF SetUpRoot, configVars, Walk
  <2> DEFINE up == {i \in Ids : ~disabled[root] /\ subentries[root][i] # None}
  <2>2. ASSUME NEW i \in Ids
        PROVE  /\ device[i].links \subseteq device'[i].links
               /\ device'[i].name = device[i].name
               /\ i \in up => <<root, i>> \in device'[i].links
    <3>1. device[i] \in DeviceRows
      BY DEF TypeOK
    <3>2. QED
      BY <1>13, <3>1 DEF SetUpRoot, DeviceRows
  <2>3. ASSUME NEW i \in Ids
        PROVE  IF i \notin up THEN entity'[i] = entity[i]
               ELSE /\ entity'[i].entry = root /\ entity'[i].subentry = i
                    /\ entity[i] # None =>
                         entity'[i] # None /\ entity'[i].name = entity[i].name
    <3>1. CASE i \notin up
      BY <1>13, <3>1 DEF SetUpRoot
    <3>2. CASE i \in up /\ entity[i] = None
      BY <1>13, <3>2 DEF SetUpRoot
    <3>3. CASE i \in up /\ entity[i] # None
      <4>1. /\ entity[i] \in EntityRows
            /\ entity'[i] = [entity[i] EXCEPT !.entry = root, !.subentry = i]
        BY <1>3, <1>13, <3>3 DEF SetUpRoot
      <4>2. entity'[i] \in EntityRows
        <5>1. root \in Ids /\ entity[i].disabled_by \in Disablers
          BY <2>1, <4>1 DEF TypeOK, EntityRows
        <5>2. [entity[i] EXCEPT !.entry = root, !.subentry = i] \in EntityRows
          BY <4>1, <5>1, EntityUpdated
        <5>3. QED
          BY <4>1, <5>2
      <4>3. QED
        BY <3>3, <4>1, <4>2, ReconcileAssumption DEF EntityRows
    <3>4. QED
      BY <3>1, <3>2, <3>3
  <2>4. ASSUME NEW i \in Ids, entity'[i] # None
        PROVE  Placed(i)' /\ (i = current' => Moving(i)')
    <3>1. CASE i \in up
      BY <2>1, <2>2, <2>3, <3>1 DEF Placed, Moving
    <3>2. CASE i \notin up
      <4>1. entity'[i] = entity[i] /\ Placed(i)
        BY <2>3, <2>4, <3>2 DEF Rows
      <4>2. QED
        BY <2>1, <2>2, <4>1 DEF Placed, Moving
    <3>3. QED
      BY <3>1, <3>2
  <2>5. QED
    BY <1>4, <2>1, <2>2, <2>3, <2>4 DEF Rows
<1>14. CASE Restart
  BY <1>14 DEF Restart, configVars, rowVars, Rows, Placed, Moving
<1>15. ASSUME NEW e \in Ids, ToggleDisabled(e)
       PROVE  Rows'
  <2>1. /\ step' \in {"running", "failed", "setup"}
        /\ UNCHANGED <<root, customised, deleted>>
    BY <1>15 DEF ToggleDisabled
  <2>2. ASSUME NEW i \in Ids
        PROVE  /\ device'[i].links = device[i].links /\ device'[i].name = device[i].name
               /\ entity[i] = None => entity'[i] = None
               /\ entity[i] # None =>
                    /\ entity'[i] # None
                    /\ entity'[i].entry = entity[i].entry
                    /\ entity'[i].subentry = entity[i].subentry
                    /\ entity'[i].name = entity[i].name
    <3>1. device[i] \in DeviceRows
      BY DEF TypeOK
    <3>2. device'[i].links = device[i].links /\ device'[i].name = device[i].name
      BY <1>15, <3>1 DEF ToggleDisabled, DeviceRows
    <3>3. CASE ~OwnEntity(entity[i], e)
      BY <1>15, <3>2, <3>3 DEF ToggleDisabled
    <3>4. CASE OwnEntity(entity[i], e)
      <4>1. entity[i] # None /\ entity[i] \in EntityRows
        BY <1>3, <3>4 DEF OwnEntity
      <4>2. PICK off : entity'[i] = [entity[i] EXCEPT !.disabled_by = Followed(@, off)]
        BY <1>15, <3>4 DEF ToggleDisabled
      <4>3. entity[i].disabled_by \in Disablers /\ entity[i].entry \in Ids
            /\ entity[i].subentry \in Ids \cup {None}
        BY <4>1 DEF EntityRows
      <4>4. entity'[i] \in EntityRows
        BY <4>1, <4>2, <4>3, FollowedType, EntityUpdated
      <4>5. QED
        BY <3>2, <4>1, <4>2, <4>4, ReconcileAssumption DEF EntityRows
    <3>5. QED
      BY <3>3, <3>4
  <2>3. ASSUME NEW i \in Ids, entity'[i] # None
        PROVE  Placed(i)' /\ (i = current' => Moving(i)')
    BY <2>1, <2>2, <2>3 DEF Rows, Placed, Moving
  <2>4. QED
    BY <1>4, <2>1, <2>2, <2>3 DEF Rows
<1>16. ASSUME NEW i \in Ids, EditSubentry(i)
       PROVE  Rows'
  BY <1>16 DEF EditSubentry, rowVars, runVars, Rows, Placed, Moving
<1>17. ASSUME NEW d \in Ids, DeleteSubentry(d)
       PROVE  Rows'
  <2> DEFINE gone == {<<root, d>>}
  <2>1. /\ step = "running" /\ step' = "running" /\ deleted' = deleted \cup {d}
        /\ UNCHANGED <<root, customised>> /\ Unlink(gone)
    BY <1>17 DEF DeleteSubentry, runVars
  <2>2. ASSUME NEW i \in Ids, entity[i] # None
        PROVE  /\ <<entity[i].entry, entity[i].subentry>> \in device[i].links
               /\ <<entity[i].entry, entity[i].subentry>> \in gone => i = d
    BY <1>1, <2>2 DEF Rows, Placed
  <2>3. ASSUME NEW i \in Ids
        PROVE  /\ entity'[i] \in {entity[i], None}
               /\ i # d => entity'[i] = entity[i]
               /\ entity'[i] # None =>
                    /\ entity'[i] = entity[i]
                    /\ <<entity[i].entry, entity[i].subentry>> \in device'[i].links
                    /\ device'[i].name = device[i].name
    <3>1. CASE entity[i] = None
      BY <2>1, <3>1, UnlinkStep
    <3>2. CASE entity[i] # None /\ <<entity[i].entry, entity[i].subentry>> \in gone
      BY <2>1, <2>2, <3>2, UnlinkStep
    <3>3. CASE entity[i] # None /\ <<entity[i].entry, entity[i].subentry>> \notin gone
      <4>1. <<entity[i].entry, entity[i].subentry>> \in device'[i].links
        BY <2>1, <2>2, <3>3, UnlinkStep
      <4>2. device'[i].name = device[i].name
        BY <2>1, <4>1, UnlinkStep
      <4>3. entity'[i] = entity[i]
        BY <2>1, <3>3, UnlinkStep
      <4>4. QED
        BY <4>1, <4>2, <4>3
    <3>4. QED
      BY <3>1, <3>2, <3>3
  <2>4. ASSUME NEW i \in Ids, entity'[i] # None
        PROVE  Placed(i)' /\ (i = current' => Moving(i)')
    BY <2>1, <2>3, <2>4 DEF Rows, Placed, Moving
  <2>5. QED
    BY <1>4, <2>1, <2>3, <2>4 DEF Rows
<1>18. CASE UNCHANGED vars
  BY <1>18 DEF vars, configVars, rowVars, runVars, Rows, Placed, Moving, Parent
<1>19. QED
  BY <1>5, <1>6, <1>7, <1>8, <1>9, <1>10, <1>11, <1>12, <1>13, <1>14, <1>15,
     <1>16, <1>17, <1>18 DEF Next, Start, Convert

-----------------------------------------------------------------------------
(* The theorems.                                                           *)

\* Every step keeps a configuration of each sensor the user has not deleted.
LEMMA NothingLostStep ==
    ASSUME TypeOK, Walk, NothingLost, [Next]_vars
    PROVE  NothingLost'
<1> USE DEF NothingLost
<1>1. None \notin Ids
  BY ReconcileAssumption DEF Ids
<1>2. \A d \in Data : d # None
  BY ReconcileAssumption
<1>3. CASE Attach
  <2>1. /\ UNCHANGED <<entries, root, deleted>>
        /\ subentries' = [subentries EXCEPT ![Parent][current] = "legacy"]
    BY <1>3 DEF Attach
  <2>2. ASSUME NEW i \in Ids, root # None, subentries[root][i] # None
        PROVE  subentries'[root][i] # None
    BY <1>2, <2>1, <2>2 DEF TypeOK, Data
  <2>3. QED
    BY <2>1, <2>2
<1>4. CASE FlipIdentity
  <2>1. /\ root = None /\ root' = current /\ entries = Ids
        /\ subentries[current][current] # None
        /\ UNCHANGED <<entries, subentries, deleted>>
    BY <1>4 DEF FlipIdentity, Walk, Parent, ConversionSteps
  <2>2. QED
    BY <1>1, <1>4, <2>1 DEF TypeOK, Walk, FlipIdentity, ConversionSteps
<1>5. CASE RemoveEntry
  <2>1. /\ root # None /\ current # root /\ current \in Ids
        /\ subentries[root][current] # None
        /\ entries' = entries \ {current}
        /\ subentries' = [subentries EXCEPT ![current] = [i \in Ids |-> None]]
        /\ UNCHANGED <<root, deleted>>
    BY <1>5 DEF RemoveEntry, Walk, Parent, ConversionSteps, TypeOK
  <2>2. subentries'[root] = subentries[root]
    BY <2>1 DEF TypeOK
  <2>3. QED
    BY <2>1, <2>2
<1>6. ASSUME NEW j \in Ids, EditSubentry(j)
      PROVE  NothingLost'
  <2>1. /\ UNCHANGED <<entries, root, deleted>>
        /\ subentries' = [subentries EXCEPT ![root][j] = "edited"]
    BY <1>6 DEF EditSubentry
  <2>2. ASSUME NEW i \in Ids, root # None, subentries[root][i] # None
        PROVE  subentries'[root][i] # None
    BY <1>2, <2>1, <2>2 DEF TypeOK, Data
  <2>3. QED
    BY <2>1, <2>2
<1>7. ASSUME NEW j \in Ids, DeleteSubentry(j)
      PROVE  NothingLost'
  <2>1. /\ UNCHANGED <<entries, root>> /\ deleted' = deleted \cup {j}
        /\ subentries' = [subentries EXCEPT ![root][j] = None]
    BY <1>7 DEF DeleteSubentry
  <2>2. ASSUME NEW i \in Ids, i # j, root # None
        PROVE  subentries'[root][i] = subentries[root][i]
    BY <2>1, <2>2 DEF TypeOK
  <2>3. QED
    BY <2>1, <2>2
<1>8. ASSUME UNCHANGED <<entries, root, subentries, deleted>>
      PROVE  NothingLost'
  BY <1>8
<1>9. QED
  BY <1>3, <1>4, <1>5, <1>6, <1>7, <1>8
     DEF Next, Start, Convert, Scan, AdoptDevices, AdoptEntities, DropMainLink, Fail,
         SetUpRoot, Restart, ToggleDisabled, vars, configVars

\* Wherever conversions fail, at every moment of every start each sensor the user
\* has not deleted has its configuration in one of the two places.
THEOREM NoSensorLost == Spec => []NothingLost
<1>1. Init => TypeOK /\ Walk /\ NothingLost
  <2>1. ASSUME Init
        PROVE  NothingLost
    BY <2>1, ReconcileAssumption DEF Init, NothingLost, Ids
  <2>2. QED
    BY <2>1, InitHolds
<1>2. (TypeOK /\ Walk /\ NothingLost) /\ [Next]_vars => (TypeOK /\ Walk /\ NothingLost)'
  BY WalkStep, NothingLostStep
<1>3. QED
  BY <1>1, <1>2, PTL DEF Spec

\* Where the rows are, at every moment.
THEOREM AlwaysRows == Spec => [](TypeOK /\ Walk /\ Rows)
<1>1. Init => TypeOK /\ Walk /\ Rows
  BY InitHolds
<1>2. (TypeOK /\ Walk /\ Rows) /\ [Next]_vars => (TypeOK /\ Walk /\ Rows)'
  BY WalkStep, RowsStep
<1>3. QED
  BY <1>1, <1>2, PTL DEF Spec

\* No start, however often it fails, costs a sensor its registry rows or what the
\* user has made of them.
THEOREM NoRowLost == Spec => []RowsKept
<1>1. TypeOK /\ Rows => RowsKept
  BY DEF TypeOK, Rows, Placed, RowsKept
<1>2. QED
  BY <1>1, AlwaysRows, PTL

\* What was off before a start is off after it, under whatever entry
\* (__init__.py:157-164).  Only the user enables.
NothingSwitchedOn ==
    [][step \notin {"running", "failed"} =>
         \A i \in Ids : (entity[i] # None /\ entity[i].disabled_by # None)
                        => (entity'[i] # None /\ entity'[i].disabled_by # None)]_vars

\* A row that is off stays off through every step of a start.
LEMMA OffStays ==
    ASSUME TypeOK, Walk, Rows, Start,
           NEW i \in Ids, entity[i] # None, entity[i].disabled_by # None
    PROVE  entity'[i] # None /\ entity'[i].disabled_by # None
<1>1. entity[i] \in EntityRows /\ entity[i].disabled_by \in Disablers \ {None}
  BY DEF TypeOK, EntityRows
<1>2. CASE entity'[i] = entity[i]
  BY <1>2
<1>3. CASE AdoptEntities /\ OwnEntity(entity[i], current)
  <2> DEFINE by == Restamped(entity[i].disabled_by)
  <2>1. entity'[i] = [entity[i] EXCEPT !.entry = Parent, !.subentry = current,
                                       !.disabled_by = by]
    BY <1>3 DEF AdoptEntities
  <2>2. by \in Disablers \ {None}
    <3>1. entity[i].disabled_by = "config_entry" => by \in {"user", "config_entry"}
      BY DEF Restamped
    <3>2. entity[i].disabled_by = "user" => by = "user"
      BY DEF Restamped
    <3>3. QED
      BY <1>1, <3>1, <3>2, ReconcileAssumption DEF Disablers, Stamps
  <2>3. Parent \in Ids /\ current \in Ids
    BY <1>3 DEF AdoptEntities, ConversionSteps, Walk, TypeOK, Parent
  <2> HIDE DEF by
  <2>4. entity'[i] \in EntityRows
    <3>1. [entity[i] EXCEPT !.entry = Parent, !.subentry = current,
                            !.disabled_by = by] \in EntityRows
      BY <1>1, <2>2, <2>3, EntityUpdated
    <3>2. QED
      BY <2>1, <3>1
  <2>5. entity'[i].disabled_by = by
    BY <1>1, <2>1 DEF EntityRows
  <2>6. QED
    BY <2>2, <2>4, <2>5, ReconcileAssumption
<1>4. CASE SetUpRoot
  <2>1. root \in Ids
    BY <1>4 DEF SetUpRoot, Walk, TypeOK
  <2>2. CASE entity'[i] # entity[i]
    <3>1. entity'[i] = [entity[i] EXCEPT !.entry = root, !.subentry = i]
      BY <1>4, <2>2 DEF SetUpRoot
    <3>2. [entity[i] EXCEPT !.entry = root, !.subentry = i] \in EntityRows
      BY <1>1, <2>1, EntityUpdated
    <3>3. QED
      BY <1>1, <3>1, <3>2, ReconcileAssumption DEF EntityRows
  <2>3. QED
    BY <1>2, <2>2
<1>5. CASE DropMainLink
  BY <1>2, <1>5, DropSpares, UnlinkSpares DEF DropMainLink
<1>6. CASE RemoveEntry
  BY <1>2, <1>6, RemoveSpares, UnlinkSpares DEF RemoveEntry
<1>7. CASE Scan \/ Attach \/ AdoptDevices \/ FlipIdentity \/ Fail
  BY <1>2, <1>7 DEF Scan, Attach, AdoptDevices, FlipIdentity, Fail, rowVars
<1>8. CASE AdoptEntities /\ ~OwnEntity(entity[i], current)
  BY <1>2, <1>8 DEF AdoptEntities
<1>9. QED
  BY <1>3, <1>4, <1>5, <1>6, <1>7, <1>8 DEF Start, Convert

\* No start switches a sensor on that was off, whatever fails on its way.
THEOREM NoneSwitchedOn == Spec => NothingSwitchedOn
<1> DEFINE A == step \notin {"running", "failed"} =>
                  \A i \in Ids : (entity[i] # None /\ entity[i].disabled_by # None)
                                 => (entity'[i] # None /\ entity'[i].disabled_by # None)
<1>1. ASSUME TypeOK /\ Walk /\ Rows, [Next]_vars
      PROVE  [A]_vars
  <2>1. CASE Start
    BY <1>1, <2>1, OffStays
  <2>2. CASE step \in {"running", "failed"}
    BY <2>2
  <2>3. QED
    BY <1>1, <2>1, <2>2 DEF Next, Restart, ToggleDisabled, EditSubentry, DeleteSubentry
<1>2. QED
  BY <1>1, AlwaysRows, PTL DEF Spec, NothingSwitchedOn

-----------------------------------------------------------------------------
(* The links of the devices.                                               *)

\* A link of sensor i's device: of its own entry, or of its subentry of the root.
Held(i, link) ==
    \/ i \in entries /\ i # root /\ link \in {<<i, None>>, <<i, i>>}
    \/ root # None /\ link = <<root, i>> /\ subentries[root][i] # None

\* How far the device of the sensor that is being converted is.
Adopted ==
    /\ step = "flip" => <<current, None>> \notin device[current].links
    /\ step \in {"entities", "drop", "flip", "remove"} =>
         device[current].links = {} \/ <<Parent, current>> \in device[current].links

Linked ==
    /\ \A i \in Ids : \A link \in device[i].links : Held(i, link)
    /\ \A i \in Ids : device[i].links = {} => device[i].disabled_by = None
    /\ root = None => \A e, i \in Ids : subentries[e][i] # None => i = e
    /\ Adopted

\* Two pairs are one only if their parts are.
LEMMA SamePair ==
    ASSUME NEW a, NEW b, NEW c, NEW d
    PROVE  <<a, b>> = <<c, d>> <=> a = c /\ b = d
OBVIOUS

\* The devices of the entry that is being converted are its sensor's.
LEMMA OwnDeviceOnly ==
    ASSUME TypeOK, Walk, Linked, step \in ConversionSteps,
           NEW i \in Ids, OwnDevice(device[i], current)
    PROVE  i = current
<1>1. current # root
  BY DEF Walk
<1>2. PICK link \in device[i].links : link[1] = current
  BY DEF OwnDevice
<1>3. Held(i, link)
  BY <1>2 DEF Linked
<1>4. QED
  BY <1>1, <1>2, <1>3 DEF Held

\* What the first loop of the adoption does to the device of sensor i.
LEMMA DeviceAdopted ==
    ASSUME TypeOK, Walk, Linked, AdoptDevices, NEW i \in Ids
    PROVE  /\ i # current => device'[i] = device[i]
           /\ ~OwnDevice(device[i], current) => device'[i] = device[i]
           /\ OwnDevice(device[i], current) =>
                /\ device'[i].links = device[i].links \cup {<<Parent, current>>}
                /\ device'[i].disabled_by = Restamped(device[i].disabled_by)
<1>1. step \in ConversionSteps
  BY DEF AdoptDevices, ConversionSteps
<1>2. device[i] \in DeviceRows
  BY DEF TypeOK
<1>3. ~OwnDevice(device[i], current) => device'[i] = device[i]
  BY DEF AdoptDevices
<1>4. OwnDevice(device[i], current) =>
        device'[i] = [device[i] EXCEPT !.links = device[i].links \cup {<<Parent, current>>},
                                       !.disabled_by = Restamped(device[i].disabled_by)]
  BY DEF AdoptDevices
<1>5. QED
  BY <1>1, <1>2, <1>3, <1>4, OwnDeviceOnly DEF DeviceRows

\* What taking links away does to a device: it keeps the others and its stamp, or
\* is gone.
LEMMA DeviceUnlinked ==
    ASSUME TypeOK, NEW gone, Unlink(gone), NEW i \in Ids
    PROVE  /\ device'[i].links = device[i].links \ gone
           /\ device'[i].links # {} => device'[i].disabled_by = device[i].disabled_by
           /\ device'[i].links = {} => device'[i].disabled_by = None
<1> DEFINE after == [j \in Ids |-> WithLinks(device[j], device[j].links \ gone)]
<1>1. device' = after
  BY DEF Unlink
<1>2. device[i] \in DeviceRows
  BY DEF TypeOK
<1>3. /\ after[i].links = device[i].links \ gone
      /\ after[i].links # {} => after[i].disabled_by = device[i].disabled_by
      /\ after[i].links = {} => after[i].disabled_by = None
  BY <1>2 DEF WithLinks, NoDevice, DeviceRows
<1> HIDE DEF after
<1>4. QED
  BY <1>1, <1>3

\* What setting up the root does to the rows of sensor i.
LEMMA RootSetUp ==
    ASSUME TypeOK, Walk, SetUpRoot, NEW i \in Ids
    PROVE  LET up == ~disabled[root] /\ subentries[root][i] # None
           IN  /\ device'[i].disabled_by = device[i].disabled_by
               /\ device'[i].links = IF up THEN device[i].links \cup {<<root, i>>}
                                     ELSE device[i].links
               /\ ~up => entity'[i] = entity[i]
               /\ up => entity'[i].entry = root
               /\ up /\ entity[i] # None => entity'[i].disabled_by = entity[i].disabled_by
               /\ up /\ entity[i] = None => entity'[i].disabled_by = None
<1> DEFINE up == ~disabled[root] /\ subentries[root][i] # None
<1>1. device[i] \in DeviceRows /\ (entity[i] # None => entity[i] \in EntityRows)
  BY DEF TypeOK
<1>2. device'[i] = IF up THEN [device[i] EXCEPT !.links = device[i].links \cup {<<root, i>>}]
                   ELSE device[i]
  BY DEF SetUpRoot
<1>3. entity'[i] = IF ~up THEN entity[i]
                   ELSE IF entity[i] # None
                   THEN [entity[i] EXCEPT !.entry = root, !.subentry = i]
                   ELSE [entry |-> root, subentry |-> i, disabled_by |-> None,
                         name |-> "default"]
  BY DEF SetUpRoot
<1> HIDE DEF up
<1>4. /\ device'[i].disabled_by = device[i].disabled_by
      /\ device'[i].links = IF up THEN device[i].links \cup {<<root, i>>} ELSE device[i].links
  BY <1>1, <1>2 DEF DeviceRows
<1>5. CASE up /\ entity[i] # None
  BY <1>1, <1>3, <1>4, <1>5 DEF EntityRows, up
<1>6. CASE ~(up /\ entity[i] # None)
  BY <1>3, <1>4, <1>6 DEF up
<1>7. QED
  BY <1>5, <1>6

\* Enabling and disabling an entry moves no link.
LEMMA LinksToggled ==
    ASSUME TypeOK, NEW e \in Ids, ToggleDisabled(e), NEW i \in Ids
    PROVE  LET off == ~disabled[e]
               alone == \A link \in device[i].links : disabled'[link[1]]
           IN  /\ disabled' = [disabled EXCEPT ![e] = off]
               /\ device'[i].links = device[i].links
               /\ IF OwnDevice(device[i], e) /\ (off => alone)
                  THEN device'[i].disabled_by = Followed(device[i].disabled_by, off)
                  ELSE device'[i].disabled_by = device[i].disabled_by
<1>1. device[i] \in DeviceRows
  BY DEF TypeOK
<1>2. disabled' = [disabled EXCEPT ![e] = ~disabled[e]] /\ disabled'[e] = ~disabled[e]
  BY DEF ToggleDisabled, TypeOK
<1>3. device'[i] = IF OwnDevice(device[i], e)
                      /\ (disabled'[e] => \A link \in device[i].links : disabled'[link[1]])
                   THEN [device[i] EXCEPT !.disabled_by =
                           Followed(device[i].disabled_by, disabled'[e])]
                   ELSE device[i]
  BY <1>2 DEF ToggleDisabled
<1>4. QED
  BY <1>1, <1>2, <1>3 DEF DeviceRows

\* The old installation has links of its own only.
LEMMA LinkedInit ==
    ASSUME Init
    PROVE  Linked
<1>1. PICK rows \in [Ids -> UNION {InitialRows(i) : i \in Ids}] :
        /\ \A i \in Ids : rows[i] \in InitialRows(i)
        /\ device = [i \in Ids |-> rows[i][2]]
  BY DEF Init
<1>2. ASSUME NEW i \in Ids
      PROVE  \/ device[i] = NoDevice
             \/ device[i].links = {<<i, None>>}
  BY <1>1 DEF InitialRows
<1>3. None \notin Ids
  BY ReconcileAssumption DEF Ids
<1>4. ASSUME NEW i \in Ids
      PROVE  /\ \A link \in device[i].links : Held(i, link)
             /\ device[i].links = {} => device[i].disabled_by = None
  <2>1. CASE device[i] = NoDevice
    BY <2>1 DEF NoDevice
  <2>2. CASE device[i].links = {<<i, None>>}
    <3>1. i \in entries /\ i # root
      BY <1>3 DEF Init
    <3>2. \A link \in device[i].links : link = <<i, None>>
      BY <2>2
    <3>3. device[i].links # {}
      BY <2>2
    <3>4. QED
      BY <3>1, <3>2, <3>3 DEF Held
  <2>3. QED
    BY <1>2, <2>1, <2>2
<1>5. \A e, i \in Ids : subentries[e][i] = None
  BY DEF Init
<1>6. QED
  BY <1>4, <1>5 DEF Init, Linked, Adopted

\* Every step leaves the links where the next one needs them.
LEMMA LinkedStep ==
    ASSUME TypeOK, Walk, Linked, [Next]_vars
    PROVE  Linked'
<1>1. None \notin Ids
  BY ReconcileAssumption DEF Ids
<1>2. step \in ConversionSteps =>
        /\ Parent \in Ids /\ current \in Ids /\ current # root /\ current \in entries
        /\ Parent = IF root = None THEN current ELSE root
  BY DEF TypeOK, Walk, Parent
<1>3. \A d \in Data : d # None
  BY ReconcileAssumption
<1>4. ASSUME UNCHANGED <<entries, root, subentries, device>>, Adopted'
      PROVE  Linked'
  BY <1>4 DEF Linked, Held
<1>5. CASE Scan
  <2>1. step' \in {"attach", "setup"}
    BY <1>5 DEF Scan, Proceed
  <2>2. QED
    BY <1>4, <1>5, <2>1 DEF Scan, configVars, rowVars, Adopted
<1>6. CASE Attach
  <2>1. /\ step = "attach" /\ step' = "devices"
        /\ UNCHANGED <<entries, root, device, current>>
        /\ subentries' = [subentries EXCEPT ![Parent][current] = "legacy"]
    BY <1>6 DEF Attach, rowVars
  <2>2. Parent \in Ids /\ current \in Ids
    BY <1>2, <2>1 DEF ConversionSteps
  <2>3. \A e, i \in Ids : subentries[e][i] # None => subentries'[e][i] # None
    BY <1>3, <2>1, <2>2 DEF TypeOK, Data
  <2>4. ASSUME NEW i \in Ids, NEW link \in device'[i].links
        PROVE  Held(i, link)'
    <3>1. Held(i, link)
      BY <2>1, <2>4 DEF Linked
    <3>2. CASE i \in entries /\ i # root /\ link \in {<<i, None>>, <<i, i>>}
      BY <2>1, <3>2 DEF Held
    <3>3. CASE root # None /\ link = <<root, i>> /\ subentries[root][i] # None
      BY <2>1, <2>3, <3>3 DEF Held, TypeOK
    <3>4. QED
      BY <3>1, <3>2, <3>3 DEF Held
  <2>5. ASSUME root' = None, NEW e \in Ids, NEW i \in Ids, subentries'[e][i] # None
        PROVE  i = e
    <3>1. Parent = current
      BY <1>2, <2>1, <2>5 DEF ConversionSteps
    <3>2. CASE e = current /\ i = current
      BY <3>2
    <3>3. CASE ~(e = current /\ i = current)
      <4>1. subentries'[e][i] = subentries[e][i]
        BY <2>1, <2>2, <3>1, <3>3 DEF TypeOK
      <4>2. QED
        BY <2>1, <2>5, <4>1 DEF Linked
    <3>4. QED
      BY <3>2, <3>3
  <2>6. Adopted'
    BY <2>1 DEF Adopted
  <2>7. QED
    BY <2>1, <2>4, <2>5, <2>6 DEF Linked
<1>7. CASE AdoptDevices
  <2>1. /\ step = "devices" /\ step' = "entities" /\ Parent' = Parent
        /\ UNCHANGED <<entries, root, subentries, current>>
    BY <1>7 DEF AdoptDevices, configVars, Parent
  <2>2. /\ Parent \in Ids /\ current \in Ids /\ current # root /\ current \in entries
        /\ Parent = IF root = None THEN current ELSE root
        /\ subentries[Parent][current] # None
    BY <1>2, <2>1 DEF ConversionSteps, Walk
  <2>3. Held(current, <<Parent, current>>)
    BY <2>2 DEF Held
  <2>4. ASSUME NEW i \in Ids
        PROVE  /\ \A link \in device'[i].links : Held(i, link)'
               /\ device'[i].links = {} => device'[i].disabled_by = None
    <3>1. \A link \in device[i].links : Held(i, link)'
      BY <2>1 DEF Linked, Held
    <3>2. CASE ~OwnDevice(device[i], current)
      BY <1>7, <3>1, <3>2, DeviceAdopted DEF Linked
    <3>3. CASE OwnDevice(device[i], current)
      <4>1. i = current
        BY <2>1, <3>3, OwnDeviceOnly DEF ConversionSteps
      <4>2. device'[i].links = device[i].links \cup {<<Parent, current>>}
        BY <1>7, <3>3, DeviceAdopted
      <4>3. ASSUME NEW link \in device'[i].links
            PROVE  Held(i, link)'
        <5>1. CASE link \in device[i].links
          BY <3>1, <5>1
        <5>2. CASE link = <<Parent, current>>
          BY <2>1, <2>3, <4>1, <5>2 DEF Held
        <5>3. QED
          BY <4>2, <4>3, <5>1, <5>2
      <4>4. device'[i].links # {}
        BY <4>2
      <4>5. QED
        BY <4>3, <4>4
    <3>4. QED
      BY <3>2, <3>3
  <2>5. device'[current].links = {} \/ <<Parent, current>> \in device'[current].links
    <3>1. CASE OwnDevice(device[current], current)
      BY <1>7, <2>2, <3>1, DeviceAdopted
    <3>2. CASE ~OwnDevice(device[current], current)
      <4>1. device'[current] = device[current]
        BY <1>7, <2>2, <3>2, DeviceAdopted
      <4>2. ASSUME NEW link \in device[current].links
            PROVE  link = <<Parent, current>>
        <5>1. Held(current, link) /\ link[1] # current
          BY <2>2, <3>2, <4>2 DEF Linked, OwnDevice
        <5>2. QED
          BY <2>2, <5>1 DEF Held
      <4>3. QED
        BY <4>1, <4>2
    <3>3. QED
      BY <3>1, <3>2
  <2>6. Adopted'
    BY <2>1, <2>5 DEF Adopted
  <2>7. root' = None => \A e, i \in Ids : subentries'[e][i] # None => i = e
    BY <2>1 DEF Linked
  <2>8. QED
    BY <2>4, <2>6, <2>7 DEF Linked
<1>8. CASE AdoptEntities
  <2>1. /\ step = "entities" /\ step' \in {"drop", "remove"} /\ Parent' = Parent
        /\ UNCHANGED <<entries, root, subentries, device, current>>
    BY <1>8 DEF AdoptEntities, configVars, Parent
  <2>2. Adopted'
    BY <2>1 DEF Linked, Adopted
  <2>3. QED
    BY <1>4, <2>1, <2>2
<1>9. CASE DropMainLink
  <2> DEFINE gone == {<<current, None>>}
  <2>1. /\ step = "drop" /\ step' = "flip" /\ Parent' = Parent /\ Unlink(gone)
        /\ UNCHANGED <<entries, root, subentries, current>>
    BY <1>9 DEF DropMainLink, configVars, Parent
  <2>2. Parent \in Ids /\ current \in Ids
    BY <1>2, <2>1 DEF ConversionSteps
  <2>3. ASSUME NEW i \in Ids
        PROVE  /\ device'[i].links = device[i].links \ gone
               /\ device'[i].links = {} => device'[i].disabled_by = None
    BY <2>1, DeviceUnlinked
  <2>4. ASSUME NEW i \in Ids, NEW link \in device'[i].links
        PROVE  Held(i, link)'
    BY <2>1, <2>3, <2>4 DEF Linked, Held
  <2>5. <<Parent, current>> \notin gone
    BY <1>1, <2>2
  <2>6. Adopted'
    BY <2>1, <2>2, <2>3, <2>5 DEF Linked, Adopted
  <2>7. root' = None => \A e, i \in Ids : subentries'[e][i] # None => i = e
    BY <2>1 DEF Linked
  <2>8. QED
    BY <2>3, <2>4, <2>6, <2>7 DEF Linked
<1>10. CASE FlipIdentity
  <2>1. /\ step = "flip" /\ root = None /\ root' = current
        /\ step' \in {"attach", "setup"}
        /\ UNCHANGED <<entries, subentries, device>>
    BY <1>10 DEF FlipIdentity, Walk, Proceed, rowVars
  <2>2. current \in Ids /\ subentries[current][current] # None
    BY <1>2, <2>1 DEF Walk, ConversionSteps
  <2>3. ASSUME NEW i \in Ids, NEW link \in device[i].links
        PROVE  Held(i, link)'
    <3>1. i \in entries /\ link \in {<<i, None>>, <<i, i>>}
      BY <2>1, <2>3 DEF Linked, Held
    <3>2. CASE i # current
      BY <2>1, <3>1, <3>2 DEF Held
    <3>3. CASE i = current
      <4>1. link = <<i, i>>
        BY <2>1, <2>3, <3>1, <3>3 DEF Linked, Adopted
      <4>2. QED
        BY <1>1, <2>1, <2>2, <3>3, <4>1 DEF Held
    <3>4. QED
      BY <3>2, <3>3
  <2>4. root' # None
    BY <1>1, <2>1, <2>2
  <2>5. Adopted'
    BY <2>1 DEF Adopted
  <2>6. QED
    BY <2>1, <2>3, <2>4, <2>5 DEF Linked
<1>11. CASE RemoveEntry
  <2> DEFINE gone == {current} \X (Ids \cup {None})
  <2>1. /\ step = "remove" /\ step' \in {"attach", "setup"} /\ Unlink(gone)
        /\ entries' = entries \ {current} /\ root' = root
        /\ subentries' = [subentries EXCEPT ![current] = [i \in Ids |-> None]]
    BY <1>11 DEF RemoveEntry, Proceed
  <2>2. root # None /\ root \in Ids /\ current # root /\ current \in Ids
    BY <1>2, <2>1 DEF Walk, TypeOK, ConversionSteps
  <2>3. subentries'[root] = subentries[root]
    BY <2>1, <2>2 DEF TypeOK
  <2>4. ASSUME NEW i \in Ids
        PROVE  /\ device'[i].links = device[i].links \ gone
               /\ device'[i].links = {} => device'[i].disabled_by = None
    BY <2>1, DeviceUnlinked
  <2>5. ASSUME NEW i \in Ids, NEW link \in device'[i].links
        PROVE  Held(i, link)'
    <3>1. Held(i, link) /\ link \notin gone
      BY <2>4, <2>5 DEF Linked
    <3>2. CASE i \in entries /\ i # root /\ link \in {<<i, None>>, <<i, i>>}
      <4>1. i # current
        BY <3>1, <3>2
      <4>2. QED
        BY <2>1, <3>2, <4>1 DEF Held
    <3>3. CASE root # None /\ link = <<root, i>> /\ subentries[root][i] # None
      BY <2>1, <2>3, <3>3 DEF Held
    <3>4. QED
      BY <3>1, <3>2, <3>3 DEF Held
  <2>6. Adopted'
    BY <2>1 DEF Adopted
  <2>7. QED
    BY <2>1, <2>2, <2>4, <2>5, <2>6 DEF Linked
<1>12. CASE Fail
  <2>1. /\ step' \in {"attach", "setup", "failed"}
        /\ UNCHANGED <<entries, root, subentries, device>>
    BY <1>12 DEF Fail, Proceed, configVars, rowVars
  <2>2. QED
    BY <1>4, <2>1 DEF Adopted
<1>13. CASE SetUpRoot
  <2>1. /\ step' = "running" /\ root # None
        /\ UNCHANGED <<entries, root, subentries>>
    BY <1>13 DEF SetUpRoot, configVars, Walk
  <2>2. ASSUME NEW i \in Ids, NEW link \in device'[i].links
        PROVE  Held(i, link)'
    <3>1. CASE link \in device[i].links
      BY <2>1, <3>1 DEF Linked, Held
    <3>2. CASE link \notin device[i].links
      <4>1. link = <<root, i>> /\ subentries[root][i] # None
        BY <1>13, <2>2, <3>2, RootSetUp
      <4>2. QED
        BY <2>1, <4>1 DEF Held
    <3>3. QED
      BY <3>1, <3>2
  <2>3. ASSUME NEW i \in Ids, device'[i].links = {}
        PROVE  device'[i].disabled_by = None
    BY <1>13, <2>3, RootSetUp DEF Linked
  <2>4. Adopted'
    BY <2>1 DEF Adopted
  <2>5. QED
    BY <2>1, <2>2, <2>3, <2>4 DEF Linked
<1>14. CASE Restart
  BY <1>4, <1>14 DEF Restart, configVars, rowVars, Adopted
<1>15. ASSUME NEW e \in Ids, ToggleDisabled(e)
       PROVE  Linked'
  <2>1. /\ step' \in {"running", "failed", "setup"}
        /\ UNCHANGED <<entries, root, subentries>>
    BY <1>15 DEF ToggleDisabled
  <2>2. ASSUME NEW i \in Ids
        PROVE  \A link \in device'[i].links : Held(i, link)'
    BY <1>15, <2>1, LinksToggled DEF Linked, Held
  <2>3. ASSUME NEW i \in Ids, device'[i].links = {}
        PROVE  device'[i].disabled_by = None
    <3>1. device[i].links = {}
      BY <1>15, <2>3, LinksToggled
    <3>2. ~OwnDevice(device[i], e)
      BY <3>1 DEF OwnDevice
    <3>3. device'[i].disabled_by = device[i].disabled_by
      BY <1>15, <3>2, LinksToggled
    <3>4. QED
      BY <3>1, <3>3 DEF Linked
  <2>4. Adopted'
    BY <2>1 DEF Adopted
  <2>5. root' = None => \A a, i \in Ids : subentries'[a][i] # None => i = a
    BY <2>1 DEF Linked
  <2>6. QED
    BY <2>2, <2>3, <2>4, <2>5 DEF Linked
<1>16. ASSUME NEW j \in Ids, EditSubentry(j)
       PROVE  Linked'
  <2>1. /\ step = "running" /\ step' = "running" /\ UNCHANGED <<entries, root, device>>
        /\ subentries' = [subentries EXCEPT ![root][j] = "edited"]
    BY <1>16 DEF EditSubentry, rowVars, runVars
  <2>2. root # None /\ root \in Ids
    BY <2>1 DEF Walk, TypeOK
  <2>3. \A i \in Ids : subentries[root][i] # None => subentries'[root][i] # None
    BY <1>3, <2>1, <2>2 DEF TypeOK, Data
  <2>4. QED
    BY <2>1, <2>2, <2>3 DEF Linked, Held, Adopted
<1>17. ASSUME NEW j \in Ids, DeleteSubentry(j)
       PROVE  Linked'
  <2> DEFINE gone == {<<root, j>>}
  <2>1. /\ step = "running" /\ step' = "running" /\ Unlink(gone)
        /\ UNCHANGED <<entries, root>>
        /\ subentries' = [subentries EXCEPT ![root][j] = None]
    BY <1>17 DEF DeleteSubentry, runVars
  <2>2. root # None /\ root \in Ids
    BY <2>1 DEF Walk, TypeOK
  <2>3. \A i \in Ids : i # j => subentries'[root][i] = subentries[root][i]
    BY <2>1, <2>2 DEF TypeOK
  <2>4. ASSUME NEW i \in Ids
        PROVE  /\ device'[i].links = device[i].links \ gone
               /\ device'[i].links = {} => device'[i].disabled_by = None
    BY <2>1, DeviceUnlinked
  <2>5. ASSUME NEW i \in Ids, NEW link \in device'[i].links
        PROVE  Held(i, link)'
    <3>1. Held(i, link) /\ link \notin gone
      BY <2>4, <2>5 DEF Linked
    <3>2. QED
      BY <2>1, <2>3, <3>1 DEF Held
  <2>6. Adopted'
    BY <2>1 DEF Adopted
  <2>7. QED
    BY <2>1, <2>2, <2>4, <2>5, <2>6 DEF Linked
<1>18. CASE UNCHANGED vars
  BY <1>4, <1>18 DEF vars, configVars, rowVars, runVars, Linked, Adopted, Parent
<1>19. QED
  BY <1>5, <1>6, <1>7, <1>8, <1>9, <1>10, <1>11, <1>12, <1>13, <1>14, <1>15,
     <1>16, <1>17, <1>18 DEF Next, Start, Convert

\* Where the rows and the links are, at every moment.
THEOREM AlwaysLinked == Spec => [](TypeOK /\ Walk /\ Rows /\ Linked)
<1>1. Init => TypeOK /\ Walk /\ Rows /\ Linked
  BY InitHolds, LinkedInit
<1>2. (TypeOK /\ Walk /\ Rows /\ Linked) /\ [Next]_vars => (TypeOK /\ Walk /\ Rows /\ Linked)'
  BY WalkStep, RowsStep, LinkedStep
<1>3. QED
  BY <1>1, <1>2, PTL DEF Spec

\* When all is converted a device is linked to the subentry of its sensor and to
\* nothing else, so that it goes with it, wherever conversions failed before.
THEOREM DeviceGoesWithSensor == Spec => []NoGhostDevice
<1>1. ASSUME TypeOK, Linked
      PROVE  NoGhostDevice
  <2>1. ASSUME Converted, NEW i \in Ids, NEW link \in device[i].links
        PROVE  link \in {<<root, i>> : s \in {subentries[root][i]} \ {None}}
    <3>1. Held(i, link)
      BY <1>1, <2>1 DEF Linked
    <3>2. link = <<root, i>> /\ subentries[root][i] # None
      BY <2>1, <3>1 DEF Held, Converted
    <3>3. QED
      BY <3>2
  <2>2. QED
    BY <2>1 DEF NoGhostDevice
<1>2. QED
  BY <1>1, AlwaysLinked, PTL

-----------------------------------------------------------------------------
(* The stamps of the rows.                                                 *)

\* A row that is off because of an entry is a row of disabled entries.
EntityFollows(i) ==
    entity[i] # None /\ entity[i].disabled_by = "config_entry" => disabled[entity[i].entry]

DeviceFollows(i) ==
    device[i].disabled_by = "config_entry" => \A link \in device[i].links : disabled[link[1]]

\* The rows of a sensor that has been converted are with its subentry.
Moved(i) ==
    /\ device[i].links = {} \/ <<root, i>> \in device[i].links
    /\ entity[i] # None => entity[i].entry = root

MovedIfConverted(i) ==
    /\ root # None
    /\ subentries[root][i] # None
    /\ ~(i = current /\ step \in {"devices", "entities"})
    => Moved(i)

Stamped ==
    \A i \in Ids \ interrupted : EntityFollows(i) /\ DeviceFollows(i) /\ MovedIfConverted(i)

\* What the second loop of the adoption does to the entity row of sensor i.
LEMMA EntityAdopted ==
    ASSUME TypeOK, Walk, AdoptEntities, NEW i \in Ids
    PROVE  /\ entity[i] = None => entity'[i] = None
           /\ entity[i] # None /\ entity[i].entry # current => entity'[i] = entity[i]
           /\ entity[i] # None /\ entity[i].entry = current =>
                /\ entity'[i].entry = Parent
                /\ entity'[i].disabled_by = Restamped(entity[i].disabled_by)
<1>1. ~OwnEntity(entity[i], current) => entity'[i] = entity[i]
  BY DEF AdoptEntities
<1>2. CASE entity[i] # None /\ entity[i].entry = current
  <2>1. entity[i] \in EntityRows
    BY <1>2 DEF TypeOK
  <2>2. entity'[i] = [entity[i] EXCEPT !.entry = Parent, !.subentry = current,
                                       !.disabled_by = Restamped(entity[i].disabled_by)]
    BY <1>2 DEF AdoptEntities, OwnEntity
  <2>3. QED
    BY <1>2, <2>1, <2>2 DEF EntityRows
<1>3. CASE ~(entity[i] # None /\ entity[i].entry = current)
  BY <1>1, <1>3 DEF OwnEntity
<1>4. QED
  BY <1>2, <1>3

\* Enabling and disabling an entry stamps its own entity rows.
LEMMA EntityToggled ==
    ASSUME TypeOK, NEW e \in Ids, ToggleDisabled(e), NEW i \in Ids
    PROVE  /\ entity[i] = None => entity'[i] = None
           /\ entity[i] # None /\ entity[i].entry # e => entity'[i] = entity[i]
           /\ entity[i] # None /\ entity[i].entry = e =>
                /\ entity'[i].entry = e
                /\ entity'[i].disabled_by = Followed(entity[i].disabled_by, disabled'[e])
<1>1. disabled' = [disabled EXCEPT ![e] = ~disabled[e]]
  BY DEF ToggleDisabled
<1>2. entity'[i] = IF OwnEntity(entity[i], e)
                   THEN [entity[i] EXCEPT !.disabled_by =
                           Followed(entity[i].disabled_by, disabled'[e])]
                   ELSE entity[i]
  BY DEF ToggleDisabled
<1>3. CASE entity[i] # None /\ entity[i].entry = e
  <2>1. entity[i] \in EntityRows
    BY <1>3 DEF TypeOK
  <2>2. QED
    BY <1>2, <1>3, <2>1 DEF EntityRows, OwnEntity
<1>4. CASE ~(entity[i] # None /\ entity[i].entry = e)
  BY <1>2, <1>4 DEF OwnEntity
<1>5. QED
  BY <1>3, <1>4

\* Only what is off by its entry, or becomes so with it, has the entry's stamp.
LEMMA FollowedStamp ==
    ASSUME NEW by \in Disablers, NEW off \in BOOLEAN, Followed(by, off) = "config_entry"
    PROVE  off
<1>1. None # "config_entry"
  BY ReconcileAssumption DEF Stamps
<1>2. CASE ~off
  BY <1>1, <1>2 DEF Followed
<1>3. QED
  BY <1>2

\* A stamp that is kept by the adoption is one of a root that is off as well.
LEMMA RestampedStamp ==
    ASSUME NEW by \in Disablers, Restamped(by) = "config_entry"
    PROVE  by = "config_entry" /\ (disabled[current] => disabled[Parent])
BY DEF Restamped, DetachDisabledStamp

\* Taking links away leaves the stamps of the rows that stay.
LEMMA StampsUnlinked ==
    ASSUME TypeOK, NEW gone, Unlink(gone), disabled' = disabled,
           NEW i \in Ids, EntityFollows(i), DeviceFollows(i)
    PROVE  EntityFollows(i)' /\ DeviceFollows(i)'
<1>1. entity'[i] \in {entity[i], None}
  BY UnlinkStep
<1>2. /\ device'[i].links = device[i].links \ gone
      /\ device'[i].links # {} => device'[i].disabled_by = device[i].disabled_by
      /\ device'[i].links = {} => device'[i].disabled_by = None
  BY DeviceUnlinked
<1>3. None # "config_entry"
  BY ReconcileAssumption DEF Stamps
<1>4. EntityFollows(i)'
  BY <1>1 DEF EntityFollows
<1>5. DeviceFollows(i)'
  BY <1>2, <1>3 DEF DeviceFollows
<1>6. QED
  BY <1>4, <1>5

\* Links other than that of its subentry go, and a sensor's rows stay where they are.
LEMMA MovedUnlinked ==
    ASSUME TypeOK, NEW gone, Unlink(gone), root' = root,
           NEW i \in Ids, <<root, i>> \notin gone, Moved(i)
    PROVE  Moved(i)'
<1>1. entity'[i] \in {entity[i], None}
  BY UnlinkStep
<1>2. device'[i].links = device[i].links \ gone
  BY DeviceUnlinked
<1>3. QED
  BY <1>1, <1>2 DEF Moved

\* The old installation's rows are off by their own entries.
LEMMA StampedInit ==
    ASSUME Init
    PROVE  Stamped
<1>1. PICK rows \in [Ids -> UNION {InitialRows(i) : i \in Ids}] :
        /\ \A i \in Ids : rows[i] \in InitialRows(i)
        /\ entity = [i \in Ids |-> rows[i][1]]
        /\ device = [i \in Ids |-> rows[i][2]]
  BY DEF Init
<1>2. None # "config_entry" /\ root = None
  BY ReconcileAssumption DEF Init, Stamps
<1>3. ASSUME NEW i \in Ids
      PROVE  EntityFollows(i) /\ DeviceFollows(i)
  <2> DEFINE stamps == IF disabled[i] THEN {"config_entry"} ELSE {None}
             pairs  == ((stamps \cup {"user"}) \X stamps) \cup {<<"user", "user">>}
             ent(p) == [entry |-> i, subentry |-> None, disabled_by |-> p[1], name |-> "given"]
             dev(p) == [links |-> {<<i, None>>}, disabled_by |-> p[2], name |-> "given"]
  <2>1. rows[i] = <<None, NoDevice>> \/ \E p \in pairs : rows[i] = <<ent(p), dev(p)>>
    BY <1>1 DEF InitialRows
  <2>2. CASE rows[i] = <<None, NoDevice>>
    BY <1>1, <1>2, <2>2 DEF EntityFollows, DeviceFollows, NoDevice
  <2>3. ASSUME NEW p \in pairs, rows[i] = <<ent(p), dev(p)>>
        PROVE  EntityFollows(i) /\ DeviceFollows(i)
    <3>1. entity[i] = ent(p) /\ device[i] = dev(p)
      <4> HIDE DEF ent, dev
      <4>1. entity[i] = rows[i][1] /\ device[i] = rows[i][2]
        BY <1>1
      <4>2. QED
        BY <2>3, <4>1
    <3>2. p[1] = "config_entry" \/ p[2] = "config_entry" => disabled[i]
      BY <1>2
    <3>3. \A link \in device[i].links : link[1] = i
      BY <3>1
    <3>4. QED
      BY <3>1, <3>2, <3>3 DEF EntityFollows, DeviceFollows
  <2>4. QED
    BY <2>1, <2>2, <2>3
<1>4. QED
  BY <1>2, <1>3 DEF Stamped, MovedIfConverted

\* Every step leaves the stamps of the rows with the entries they follow.
LEMMA StampedStep ==
    ASSUME TypeOK, Walk, Rows, Linked, Stamped, [Next]_vars
    PROVE  Stamped'
<1>1. None \notin Ids /\ None # "config_entry"
  BY ReconcileAssumption DEF Ids, Stamps
<1>2. step \in ConversionSteps =>
        /\ Parent \in Ids /\ current \in Ids /\ current # root /\ current \in entries
        /\ Parent = IF root = None THEN current ELSE root
  BY DEF TypeOK, Walk, Parent
<1>3. ASSUME NEW i \in Ids
      PROVE  /\ device[i] \in DeviceRows /\ device[i].disabled_by \in Disablers
             /\ entity[i] # None => entity[i].disabled_by \in Disablers
  BY DEF TypeOK, DeviceRows, EntityRows
<1>4. ASSUME UNCHANGED <<root, disabled, subentries, rowVars, interrupted>>,
             \A i \in Ids : (i = current /\ step \in {"devices", "entities"})
                            => (i = current' /\ step' \in {"devices", "entities"})
      PROVE  Stamped'
  <2>1. ASSUME NEW i \in Ids \ interrupted
        PROVE  (EntityFollows(i) /\ DeviceFollows(i) /\ MovedIfConverted(i))'
    BY <1>4, <2>1 DEF Stamped, rowVars, EntityFollows, DeviceFollows, MovedIfConverted, Moved
  <2>2. QED
    BY <1>4, <2>1 DEF Stamped
<1>5. CASE Scan
  BY <1>4, <1>5 DEF Scan, configVars
<1>6. CASE Attach
  <2>1. /\ step = "attach" /\ step' = "devices"
        /\ UNCHANGED <<root, disabled, entity, device, current, interrupted>>
        /\ subentries' = [subentries EXCEPT ![Parent][current] = "legacy"]
    BY <1>6 DEF Attach, rowVars
  <2>2. Parent \in Ids /\ current \in Ids
    BY <1>2, <2>1 DEF ConversionSteps
  <2>3. ASSUME NEW i \in Ids \ interrupted
        PROVE  EntityFollows(i)' /\ DeviceFollows(i)'
    BY <2>1, <2>3 DEF Stamped, EntityFollows, DeviceFollows
  <2>4. ASSUME NEW i \in Ids \ interrupted
        PROVE  MovedIfConverted(i)'
    <3>1. CASE i = current
      BY <2>1, <3>1 DEF MovedIfConverted
    <3>2. CASE i # current
      <4>1. root # None => subentries'[root][i] = subentries[root][i]
        BY <2>1, <2>2, <3>2 DEF TypeOK
      <4>2. QED
        BY <2>1, <2>4, <3>2, <4>1 DEF Stamped, MovedIfConverted, Moved
    <3>3. QED
      BY <3>1, <3>2
  <2>5. QED
    BY <2>1, <2>3, <2>4 DEF Stamped
<1>7. CASE AdoptDevices
  <2>1. /\ step = "devices" /\ step' = "entities"
        /\ UNCHANGED <<root, disabled, subentries, entity, current, interrupted>>
    BY <1>7 DEF AdoptDevices, configVars
  <2>2. ASSUME NEW i \in Ids \ interrupted
        PROVE  EntityFollows(i)'
    BY <2>1, <2>2 DEF Stamped, EntityFollows
  <2>3. ASSUME NEW i \in Ids \ interrupted
        PROVE  DeviceFollows(i)'
    <3>1. CASE ~OwnDevice(device[i], current)
      BY <1>7, <2>1, <2>3, <3>1, DeviceAdopted DEF Stamped, DeviceFollows
    <3>2. CASE OwnDevice(device[i], current)
      <4>1. /\ device'[i].links = device[i].links \cup {<<Parent, current>>}
            /\ device'[i].disabled_by = Restamped(device[i].disabled_by)
        BY <1>7, <3>2, DeviceAdopted
      <4>2. ASSUME device'[i].disabled_by = "config_entry"
            PROVE  \A link \in device'[i].links : disabled[link[1]]
        <5>1. device[i].disabled_by = "config_entry" /\ (disabled[current] => disabled[Parent])
          BY <1>3, <4>1, <4>2, RestampedStamp
        <5>2. \A link \in device[i].links : disabled[link[1]]
          BY <2>3, <5>1 DEF Stamped, DeviceFollows
        <5>3. disabled[Parent]
          BY <3>2, <5>1, <5>2 DEF OwnDevice
        <5>4. QED
          BY <4>1, <5>2, <5>3
      <4>3. QED
        BY <2>1, <4>2 DEF DeviceFollows
    <3>3. QED
      BY <3>1, <3>2
  <2>4. ASSUME NEW i \in Ids \ interrupted
        PROVE  MovedIfConverted(i)'
    <3>1. CASE i = current
      BY <2>1, <3>1 DEF MovedIfConverted
    <3>2. CASE i # current
      <4>1. device'[i] = device[i]
        BY <1>7, <3>2, DeviceAdopted
      <4>2. QED
        BY <2>1, <2>4, <3>2, <4>1 DEF Stamped, MovedIfConverted, Moved
    <3>3. QED
      BY <3>1, <3>2
  <2>5. QED
    BY <2>1, <2>2, <2>3, <2>4 DEF Stamped
<1>8. CASE AdoptEntities
  <2>1. /\ step = "entities" /\ step' \in {"drop", "remove"}
        /\ UNCHANGED <<root, disabled, subentries, device, current, interrupted>>
    BY <1>8 DEF AdoptEntities, configVars
  <2>2. /\ current \in Ids /\ current # root
        /\ Parent = IF root = None THEN current ELSE root
    BY <1>2, <2>1 DEF ConversionSteps
  <2>3. ASSUME NEW i \in Ids \ interrupted
        PROVE  EntityFollows(i)'
    <3>1. CASE entity[i] # None /\ entity[i].entry = current
      <4>1. ASSUME entity'[i].disabled_by = "config_entry"
            PROVE  disabled[Parent]
        <5>1. Restamped(entity[i].disabled_by) = "config_entry"
          BY <1>8, <3>1, <4>1, EntityAdopted
        <5>2. /\ entity[i].disabled_by = "config_entry"
              /\ disabled[current] => disabled[Parent]
          BY <1>3, <3>1, <5>1, RestampedStamp
        <5>3. QED
          BY <2>3, <3>1, <5>2 DEF Stamped, EntityFollows
      <4>2. entity'[i].entry = Parent
        BY <1>8, <3>1, EntityAdopted
      <4>3. QED
        BY <2>1, <4>1, <4>2 DEF EntityFollows
    <3>2. CASE ~(entity[i] # None /\ entity[i].entry = current)
      <4>1. entity'[i] = entity[i]
        BY <1>8, <3>2, EntityAdopted
      <4>2. QED
        BY <2>1, <2>3, <4>1 DEF Stamped, EntityFollows
    <3>3. QED
      BY <3>1, <3>2
  <2>4. ASSUME NEW i \in Ids \ interrupted
        PROVE  DeviceFollows(i)'
    BY <2>1, <2>4 DEF Stamped, DeviceFollows
  <2>5. ASSUME NEW i \in Ids \ interrupted, root # None, subentries[root][i] # None
        PROVE  Moved(i)'
    <3>1. CASE i = current
      <4>1. device[i].links = {} \/ <<root, i>> \in device[i].links
        BY <2>1, <2>2, <2>5, <3>1 DEF Linked, Adopted
      <4>2. ASSUME entity'[i] # None
            PROVE  entity'[i].entry = root
        <5>1. entity[i] # None /\ entity[i].entry \in {current, root}
          BY <1>8, <3>1, <4>2, EntityAdopted DEF Rows, Placed
        <5>2. QED
          BY <1>8, <2>2, <2>5, <5>1, EntityAdopted
      <4>3. QED
        BY <2>1, <4>1, <4>2 DEF Moved
    <3>2. CASE i # current
      <4>1. Moved(i)
        BY <2>5, <3>2 DEF Stamped, MovedIfConverted
      <4>2. entity'[i] = entity[i]
        BY <1>8, <2>2, <4>1, EntityAdopted DEF Moved
      <4>3. QED
        BY <2>1, <4>1, <4>2 DEF Moved
    <3>3. QED
      BY <3>1, <3>2
  <2>6. QED
    BY <2>1, <2>3, <2>4, <2>5 DEF Stamped, MovedIfConverted
<1>9. CASE DropMainLink
  <2>1. /\ root = None /\ Unlink({<<current, None>>})
        /\ UNCHANGED <<root, disabled, interrupted>>
    BY <1>9 DEF DropMainLink, configVars, Walk
  <2>2. ASSUME NEW i \in Ids \ interrupted
        PROVE  (EntityFollows(i) /\ DeviceFollows(i) /\ MovedIfConverted(i))'
    BY <2>1, <2>2, StampsUnlinked DEF Stamped, MovedIfConverted
  <2>3. QED
    BY <2>1, <2>2 DEF Stamped
<1>10. CASE FlipIdentity
  <2>1. /\ step = "flip" /\ root = None /\ root' = current /\ Parent = current
        /\ UNCHANGED <<disabled, subentries, entity, device, interrupted>>
    BY <1>10 DEF FlipIdentity, Walk, rowVars, Parent
  <2>2. current \in Ids
    BY <1>2, <2>1 DEF ConversionSteps
  <2>3. ASSUME NEW i \in Ids \ interrupted
        PROVE  EntityFollows(i)' /\ DeviceFollows(i)'
    BY <2>1, <2>3 DEF Stamped, EntityFollows, DeviceFollows
  <2>4. ASSUME NEW i \in Ids, subentries[current][i] # None
        PROVE  Moved(i)'
    <3>1. i = current
      BY <2>1, <2>2, <2>4 DEF Linked
    <3>2. device[i].links = {} \/ <<current, i>> \in device[i].links
      BY <2>1, <3>1 DEF Linked, Adopted
    <3>3. entity[i] # None => entity[i].entry = current
      BY <2>1, <3>1 DEF Rows, Placed
    <3>4. QED
      BY <2>1, <3>2, <3>3 DEF Moved
  <2>5. QED
    BY <2>1, <2>3, <2>4 DEF Stamped, MovedIfConverted
<1>11. CASE RemoveEntry
  <2> DEFINE gone == {current} \X (Ids \cup {None})
  <2>1. /\ step = "remove" /\ Unlink(gone)
        /\ subentries' = [subentries EXCEPT ![current] = [i \in Ids |-> None]]
        /\ UNCHANGED <<root, disabled, interrupted>>
    BY <1>11 DEF RemoveEntry
  <2>2. root # None /\ root \in Ids /\ current # root
    BY <1>2, <2>1 DEF Walk, TypeOK, ConversionSteps
  <2>3. subentries'[root] = subentries[root]
    BY <2>1, <2>2 DEF TypeOK
  <2>4. ASSUME NEW i \in Ids \ interrupted
        PROVE  EntityFollows(i)' /\ DeviceFollows(i)'
    BY <2>1, <2>4, StampsUnlinked DEF Stamped
  <2>5. ASSUME NEW i \in Ids \ interrupted, subentries[root][i] # None
        PROVE  Moved(i)'
    <3>1. Moved(i)
      BY <2>1, <2>2, <2>5 DEF Stamped, MovedIfConverted
    <3>2. <<root, i>> \notin gone
      BY <2>2
    <3>3. QED
      BY <2>1, <3>1, <3>2, MovedUnlinked
  <2>6. QED
    BY <2>1, <2>3, <2>4, <2>5 DEF Stamped, MovedIfConverted
<1>12. CASE Fail
  <2>1. /\ UNCHANGED <<root, disabled, subentries, entity, device>>
        /\ interrupted \subseteq interrupted'
        /\ step \in {"devices", "entities"} => current \in interrupted'
    BY <1>12 DEF Fail, configVars, rowVars
  <2>2. ASSUME NEW i \in Ids \ interrupted'
        PROVE  (EntityFollows(i) /\ DeviceFollows(i) /\ MovedIfConverted(i))'
    BY <2>1, <2>2 DEF Stamped, EntityFollows, DeviceFollows, MovedIfConverted, Moved
  <2>3. QED
    BY <2>2 DEF Stamped
<1>13. CASE SetUpRoot
  <2>1. /\ step = "setup" /\ root # None
        /\ UNCHANGED <<root, disabled, subentries, interrupted>>
    BY <1>13 DEF SetUpRoot, configVars, Walk
  <2> DEFINE up(i) == ~disabled[root] /\ subentries[root][i] # None
  <2>2. ASSUME NEW i \in Ids
        PROVE  /\ device'[i].disabled_by = device[i].disabled_by
               /\ device'[i].links = IF up(i) THEN device[i].links \cup {<<root, i>>}
                                     ELSE device[i].links
               /\ ~up(i) => entity'[i] = entity[i]
               /\ up(i) => entity'[i].entry = root
               /\ up(i) /\ entity[i] # None => entity'[i].disabled_by = entity[i].disabled_by
               /\ up(i) /\ entity[i] = None => entity'[i].disabled_by = None
    BY <1>13, RootSetUp
  <2>3. ASSUME NEW i \in Ids \ interrupted, subentries[root][i] # None
        PROVE  Moved(i)
    BY <2>1, <2>3 DEF Stamped, MovedIfConverted
  <2>4. ASSUME NEW i \in Ids \ interrupted, up(i), entity[i] # None
        PROVE  entity[i].disabled_by # "config_entry"
    BY <2>3, <2>4 DEF Stamped, EntityFollows, Moved
  <2>5. ASSUME NEW i \in Ids \ interrupted, up(i)
        PROVE  device[i].disabled_by # "config_entry"
    <3>1. CASE device[i].links = {}
      BY <1>1, <3>1 DEF Linked
    <3>2. CASE <<root, i>> \in device[i].links
      BY <2>5, <3>2 DEF Stamped, DeviceFollows
    <3>3. QED
      BY <2>3, <2>5, <3>1, <3>2 DEF Moved
  <2> HIDE DEF up
  <2>6. ASSUME NEW i \in Ids \ interrupted
        PROVE  EntityFollows(i)'
    <3>1. CASE ~up(i)
      BY <2>1, <2>2, <2>6, <3>1 DEF Stamped, EntityFollows
    <3>2. CASE up(i)
      BY <1>1, <2>2, <2>4, <3>2 DEF EntityFollows
    <3>3. QED
      BY <3>1, <3>2
  <2>7. ASSUME NEW i \in Ids \ interrupted
        PROVE  DeviceFollows(i)'
    <3>1. CASE ~up(i)
      BY <2>1, <2>2, <2>7, <3>1 DEF Stamped, DeviceFollows
    <3>2. CASE up(i)
      BY <2>2, <2>5, <3>2 DEF DeviceFollows
    <3>3. QED
      BY <3>1, <3>2
  <2>8. ASSUME NEW i \in Ids \ interrupted, subentries[root][i] # None
        PROVE  Moved(i)'
    <3>1. CASE ~up(i)
      BY <2>1, <2>2, <2>3, <2>8, <3>1 DEF Moved
    <3>2. CASE up(i)
      BY <2>1, <2>2, <3>2 DEF Moved
    <3>3. QED
      BY <3>1, <3>2
  <2>9. QED
    BY <2>1, <2>6, <2>7, <2>8 DEF Stamped, MovedIfConverted
<1>14. CASE Restart
  BY <1>4, <1>14 DEF Restart, configVars
<1>15. ASSUME NEW e \in Ids, ToggleDisabled(e)
       PROVE  Stamped'
  <2>1. /\ step \in {"running", "failed"} /\ step' \in {"running", "failed", "setup"}
        /\ disabled' = [disabled EXCEPT ![e] = ~disabled[e]]
        /\ UNCHANGED <<root, subentries, interrupted>>
    BY <1>15 DEF ToggleDisabled
  <2>2. disabled' \in [Ids -> BOOLEAN] /\ \A a \in Ids : a # e => disabled'[a] = disabled[a]
    BY <2>1 DEF TypeOK
  <2>3. ASSUME NEW i \in Ids \ interrupted
        PROVE  EntityFollows(i)'
    <3>1. CASE entity[i] = None
      BY <1>15, <3>1, EntityToggled DEF EntityFollows
    <3>2. CASE entity[i] # None /\ entity[i].entry # e
      <4>1. entity'[i] = entity[i] /\ entity[i].entry \in Ids
        BY <1>15, <3>2, EntityToggled DEF TypeOK, EntityRows
      <4>2. QED
        BY <2>2, <2>3, <3>2, <4>1 DEF Stamped, EntityFollows
    <3>3. CASE entity[i] # None /\ entity[i].entry = e
      <4>1. /\ entity'[i].entry = e
            /\ entity'[i].disabled_by = Followed(entity[i].disabled_by, disabled'[e])
        BY <1>15, <3>3, EntityToggled
      <4>2. PICK off \in BOOLEAN : off = disabled'[e]
        BY <2>2
      <4>3. entity'[i].disabled_by = "config_entry" => off
        BY <1>3, <3>3, <4>1, <4>2, FollowedStamp
      <4>4. QED
        BY <4>1, <4>2, <4>3 DEF EntityFollows
    <3>4. QED
      BY <3>1, <3>2, <3>3
  <2>4. ASSUME NEW i \in Ids \ interrupted, device'[i].disabled_by = "config_entry",
               NEW link \in device[i].links
        PROVE  disabled'[link[1]]
    <3> DEFINE stamped == OwnDevice(device[i], e)
                          /\ (~disabled[e] => \A l \in device[i].links : disabled'[l[1]])
    <3>1. IF stamped
          THEN device'[i].disabled_by = Followed(device[i].disabled_by, ~disabled[e])
          ELSE device'[i].disabled_by = device[i].disabled_by
      BY <1>15, LinksToggled
    <3>2. link[1] \in Ids
      BY <1>3, <2>4 DEF DeviceRows, Links
    <3>3. CASE stamped
      <4>1. PICK off \in BOOLEAN : off = ~disabled[e]
        BY DEF TypeOK
      <4>2. Followed(device[i].disabled_by, off) = "config_entry"
        BY <2>4, <3>1, <3>3, <4>1
      <4>3. off
        BY <1>3, <4>2, FollowedStamp
      <4>4. QED
        BY <2>4, <3>3, <4>1, <4>3
    <3>4. CASE ~stamped
      <4>1. \A l \in device[i].links : disabled[l[1]]
        BY <2>4, <3>1, <3>4 DEF Stamped, DeviceFollows
      <4>2. ~OwnDevice(device[i], e)
        BY <3>4, <4>1 DEF OwnDevice
      <4>3. link[1] # e
        BY <2>4, <4>2 DEF OwnDevice
      <4>4. QED
        BY <2>2, <2>4, <3>2, <4>1, <4>3
    <3>5. QED
      BY <3>3, <3>4
  <2>5. \A i \in Ids : device'[i].links = device[i].links
    BY <1>15, LinksToggled
  <2>6. ASSUME NEW i \in Ids \ interrupted
        PROVE  DeviceFollows(i)'
    BY <2>4, <2>5, <2>6 DEF DeviceFollows
  <2>7. ASSUME NEW i \in Ids \ interrupted, root # None, subentries[root][i] # None
        PROVE  Moved(i)'
    <3>1. Moved(i)
      BY <2>1, <2>7 DEF Stamped, MovedIfConverted
    <3>2. entity'[i] # None => entity[i] # None /\ entity'[i].entry = entity[i].entry
      BY <1>15, EntityToggled
    <3>3. QED
      BY <2>1, <2>5, <3>1, <3>2 DEF Moved
  <2>8. QED
    BY <2>1, <2>3, <2>6, <2>7 DEF Stamped, MovedIfConverted
<1>16. ASSUME NEW j \in Ids, EditSubentry(j)
       PROVE  Stamped'
  <2>1. /\ step = "running" /\ UNCHANGED <<root, disabled, entity, device, interrupted>>
        /\ subentries[root][j] # None
        /\ subentries' = [subentries EXCEPT ![root][j] = "edited"]
    BY <1>16 DEF EditSubentry, rowVars
  <2>2. root # None /\ root \in Ids
    BY <2>1 DEF Walk, TypeOK
  <2>3. ASSUME NEW i \in Ids \ interrupted
        PROVE  EntityFollows(i)' /\ DeviceFollows(i)'
    BY <2>1, <2>3 DEF Stamped, EntityFollows, DeviceFollows
  <2>4. ASSUME NEW i \in Ids \ interrupted, subentries'[root][i] # None
        PROVE  Moved(i)'
    <3>1. subentries[root][i] # None
      BY <2>1, <2>2, <2>4 DEF TypeOK
    <3>2. QED
      BY <2>1, <2>2, <2>4, <3>1 DEF Stamped, MovedIfConverted, Moved
  <2>5. QED
    BY <2>1, <2>3, <2>4 DEF Stamped, MovedIfConverted
<1>17. ASSUME NEW j \in Ids, DeleteSubentry(j)
       PROVE  Stamped'
  <2> DEFINE gone == {<<root, j>>}
  <2>1. /\ step = "running" /\ Unlink(gone)
        /\ subentries' = [subentries EXCEPT ![root][j] = None]
        /\ UNCHANGED <<root, disabled, interrupted>>
    BY <1>17 DEF DeleteSubentry
  <2>2. root # None /\ root \in Ids
    BY <2>1 DEF Walk, TypeOK
  <2>3. ASSUME NEW i \in Ids \ interrupted
        PROVE  EntityFollows(i)' /\ DeviceFollows(i)'
    BY <2>1, <2>3, StampsUnlinked DEF Stamped
  <2>4. ASSUME NEW i \in Ids \ interrupted, subentries'[root][i] # None
        PROVE  Moved(i)'
    <3>1. i # j /\ subentries[root][i] # None
      BY <2>1, <2>2, <2>4 DEF TypeOK
    <3>2. Moved(i) /\ <<root, i>> \notin gone
      BY <2>1, <2>2, <2>4, <3>1 DEF Stamped, MovedIfConverted
    <3>3. QED
      BY <2>1, <3>2, MovedUnlinked
  <2>5. QED
    BY <2>1, <2>3, <2>4 DEF Stamped, MovedIfConverted
<1>18. CASE UNCHANGED vars
  BY <1>4, <1>18 DEF vars, configVars, runVars
<1>19. QED
  BY <1>5, <1>6, <1>7, <1>8, <1>9, <1>10, <1>11, <1>12, <1>13, <1>14, <1>15,
     <1>16, <1>17, <1>18 DEF Next, Start, Convert

\* Under a root that runs no row is off because of an entry, but of a sensor whose
\* conversion failed half way: the user can enable every other one again.
THEOREM StampsNeverStuck == Spec => []StampsFollow
<1>1. Init => TypeOK /\ Walk /\ Rows /\ Linked /\ Stamped
  BY InitHolds, LinkedInit, StampedInit
<1>2. (TypeOK /\ Walk /\ Rows /\ Linked /\ Stamped) /\ [Next]_vars
      => (TypeOK /\ Walk /\ Rows /\ Linked /\ Stamped)'
  BY WalkStep, RowsStep, LinkedStep, StampedStep
<1>3. ASSUME TypeOK, Rows, Linked, Stamped
      PROVE  StampsFollow
  <2>1. ASSUME NEW i \in Ids, Converted, NEW link \in device[i].links
        PROVE  link = <<root, i>>
    BY <1>3, <2>1 DEF Linked, Held, Converted
  <2>2. ASSUME NEW i \in Ids \ interrupted, Converted, ~disabled[root], entity[i] # None
        PROVE  entity[i].disabled_by # "config_entry"
    <3>1. <<entity[i].entry, entity[i].subentry>> = <<root, i>>
      BY <1>3, <2>1, <2>2 DEF Rows, Placed
    <3>2. entity[i].entry = root
      BY <3>1, SamePair
    <3>3. QED
      BY <1>3, <2>2, <3>2 DEF Stamped, EntityFollows
  <2>3. ASSUME NEW i \in Ids \ interrupted, Converted, ~disabled[root]
        PROVE  device[i].disabled_by # "config_entry"
    <3>1. None # "config_entry"
      BY ReconcileAssumption DEF Stamps
    <3>2. CASE device[i].links = {}
      BY <1>3, <3>1, <3>2 DEF Linked
    <3>3. CASE device[i].links # {}
      <4>1. <<root, i>> \in device[i].links
        BY <2>1, <2>3, <3>3
      <4>2. QED
        BY <1>3, <2>3, <4>1 DEF Stamped, DeviceFollows
    <3>4. QED
      BY <3>2, <3>3
  <2>4. QED
    BY <2>2, <2>3 DEF StampsFollow
<1>4. QED
  BY <1>1, <1>2, <1>3, PTL DEF Spec

-----------------------------------------------------------------------------
(* The choice of the root.                                                 *)

\* A disabled entry is promoted only if every entry is disabled.
Chosen ==
    root = None /\ step \in ConversionSteps /\ disabled[current]
    => \A e \in entries : disabled[e]

\* _select_promotion_target decides it, and nothing changes it before the flip.
LEMMA ChosenStep ==
    ASSUME TypeOK, Walk, Chosen, [Next]_vars
    PROVE  Chosen'
<1>1. None \notin Ids
  BY ReconcileAssumption DEF Ids
<1>2. CASE Scan
  <2> DEFINE legacy == entries \ {root}
             enabled == {e \in legacy : ~disabled[e]}
             target == PromotionTarget(legacy)
  <2>1. CASE root = None
    <3>1. current' = target /\ UNCHANGED <<root, entries, disabled>>
      BY <1>2, <2>1 DEF Scan, configVars
    <3>2. legacy = entries /\ legacy \in SUBSET Ids
      BY <1>1, <2>1 DEF TypeOK
    <3>3. CASE enabled = {}
      BY <3>1, <3>2, <3>3 DEF Chosen
    <3>4. CASE enabled # {}
      <4>1. target \in enabled
        BY <3>2, <3>4, FirstOfSet DEF PromotionTarget
      <4>2. QED
        BY <3>1, <4>1 DEF Chosen
    <3>5. QED
      BY <3>3, <3>4
  <2>2. CASE root # None
    BY <1>2, <2>2 DEF Scan, configVars, Chosen
  <2>3. QED
    BY <2>1, <2>2
<1>3. CASE Convert \/ Fail \/ SetUpRoot
  <2>1. CASE root # None
    <3>1. root' # None
      BY <1>3, <2>1 DEF Convert, Attach, AdoptDevices, AdoptEntities, DropMainLink,
        FlipIdentity, RemoveEntry, Fail, SetUpRoot, configVars, Walk, ConversionSteps
    <3>2. QED
      BY <3>1 DEF Chosen
  <2>2. CASE root = None /\ (RemoveEntry \/ SetUpRoot)
    BY <2>2 DEF RemoveEntry, SetUpRoot, Walk
  <2>3. CASE root = None /\ FlipIdentity
    <3>1. root' \in Ids
      BY <2>3 DEF FlipIdentity, Walk, TypeOK, ConversionSteps
    <3>2. QED
      BY <1>1, <3>1 DEF Chosen
  <2>4. CASE root = None /\ Fail
    BY <2>4 DEF Fail, IsPromotion, Chosen, ConversionSteps
  <2>5. CASE root = None /\ (Attach \/ AdoptDevices \/ AdoptEntities \/ DropMainLink)
    <3>1. step \in ConversionSteps /\ UNCHANGED <<entries, disabled, current>>
      BY <2>5 DEF Attach, AdoptDevices, AdoptEntities, DropMainLink, configVars, ConversionSteps
    <3>2. QED
      BY <2>5, <3>1 DEF Chosen
  <2>6. QED
    BY <1>3, <2>1, <2>2, <2>3, <2>4, <2>5 DEF Convert
<1>4. CASE step' \notin ConversionSteps
  BY <1>4 DEF Chosen
<1>5. CASE UNCHANGED <<entries, root, disabled, step, current>>
  BY <1>5 DEF Chosen
<1>6. QED
  BY <1>2, <1>3, <1>4, <1>5 DEF Next, Start, Restart, ToggleDisabled, EditSubentry,
     DeleteSubentry, ConversionSteps, vars, configVars, runVars

\* A promotion never switches the sensors of an installation off: the new root is
\* disabled only if every entry was.
THEOREM RootDisabledLast == Spec => RootRuns
<1> DEFINE A == root = None /\ root' # None /\ disabled[root'] => \A e \in entries : disabled[e]
<1>1. Init => TypeOK /\ Walk /\ Chosen
  <2>1. Init => Chosen
    BY DEF Init, Chosen, ConversionSteps
  <2>2. QED
    BY <2>1, InitHolds
<1>2. (TypeOK /\ Walk /\ Chosen) /\ [Next]_vars => (TypeOK /\ Walk /\ Chosen)'
  BY WalkStep, ChosenStep
<1>3. ASSUME TypeOK /\ Walk /\ Chosen, [Next]_vars
      PROVE  [A]_vars
  <2>1. CASE FlipIdentity
    BY <1>3, <2>1 DEF FlipIdentity, Chosen, ConversionSteps
  <2>2. CASE root' = root
    BY <2>2
  <2>3. QED
    BY <1>3, <2>1, <2>2 DEF Next, Start, Convert, Scan, Attach, AdoptDevices, AdoptEntities,
       DropMainLink, RemoveEntry, Fail, SetUpRoot, Restart, ToggleDisabled, EditSubentry,
       DeleteSubentry, configVars
<1>4. QED
  BY <1>1, <1>2, <1>3, PTL DEF Spec, RootRuns

-----------------------------------------------------------------------------
(* Reconcile implements Migration.                                         *)

\* Where a row can be: it is seen with its own entry, or with its own subentry.
LEMMA RowPlace ==
    ASSUME TypeOK, Rows, Linked, NEW i \in Ids, entity[i] # None
    PROVE  /\ entity[i] \in EntityRows
           /\ entity[i].entry # root => entity[i].entry = i
           /\ entity[i].entry = root => root # None /\ entity[i].subentry = i
<1>1. Placed(i) /\ entity[i] \in EntityRows /\ entity[i].entry \in Ids /\ None \notin Ids
  BY ReconcileAssumption DEF Rows, TypeOK, EntityRows, Ids
<1>2. ASSUME entity[i].entry = root
      PROVE  root # None /\ entity[i].subentry = i
  <2>1. Held(i, <<entity[i].entry, entity[i].subentry>>)
    BY <1>1 DEF Linked, Placed
  <2>2. CASE i = root
    BY <1>1, <1>2, <2>1, <2>2, SamePair DEF Held
  <2>3. CASE i # root
    BY <1>1, <1>2, <2>3 DEF Placed
  <2>4. QED
    BY <2>2, <2>3
<1>3. QED
  BY <1>1, <1>2 DEF Placed

\* The old installation is one of Migration.
LEMMA InitMigrates == Init => Promise!MigrationInit
<1> SUFFICES ASSUME Init
             PROVE  Promise!MigrationInit
  OBVIOUS
<1>1. TypeOK /\ Rows /\ None \notin Ids
  BY InitHolds, ReconcileAssumption DEF Ids
<1>2. Home = [i \in Ids |-> {"entry"}]
  BY <1>1 DEF Init, Home
<1>3. ASSUME NEW i \in Ids
      PROVE  RowSeen(entity[i]) \in Promise!OldRows \cup {Promise!NoRow}
  <2>1. CASE entity[i] = None
    BY <2>1 DEF RowSeen, Promise!NoRow
  <2>2. CASE entity[i] # None
    <3>1. i \in customised \ deleted /\ root = None
      BY <2>2 DEF Init
    <3>2. entity[i].name = "given" /\ entity[i].entry # root
      BY <1>1, <2>2, <3>1 DEF Rows, TypeOK, EntityRows
    <3>3. RowSeen(entity[i]) =
            [at |-> "entry", name |-> "given", off |-> entity[i].disabled_by # None]
      BY <2>2, <3>2 DEF RowSeen
    <3>4. QED
      BY <3>3 DEF Promise!OldRows
  <2>3. QED
    BY <2>1, <2>2
<1>4. RowsSeen \in [Ids -> Promise!OldRows \cup {Promise!NoRow}]
  BY <1>3 DEF RowsSeen
<1>5. Busy = TRUE
  BY DEF Init, Busy
<1>6. QED
  BY <1>2, <1>4, <1>5 DEF Promise!MigrationInit

\* A sensor that is mirrored into the root is copied, or was there already.
LEMMA AttachMigrates ==
    ASSUME TypeOK, Walk, Attach
    PROVE  \/ UNCHANGED <<Home, RowsSeen, Busy>>
           \/ Promise!Copy(current)
<1>1. None \notin Ids \cup Data
  BY ReconcileAssumption DEF Ids
<1>2. /\ UNCHANGED <<root, entries, entity>>
      /\ step = "attach" /\ step' = "devices"
      /\ current \in Ids /\ current \in entries \ {root}
      /\ subentries' = [subentries EXCEPT ![Parent][current] = "legacy"]
  BY DEF Attach, rowVars, Walk, TypeOK, ConversionSteps
<1>3. Busy /\ Busy' = Busy /\ RowsSeen' = RowsSeen
  BY <1>2 DEF Busy, RowsSeen, RowSeen
<1>4. CASE root = None
  BY <1>2, <1>3, <1>4 DEF Home
<1>5. CASE root # None
  <2>1. Parent = root /\ root \in Ids
    BY <1>5 DEF Parent, TypeOK
  <2>2. \A i \in Ids : subentries'[root][i] =
                         IF i = current THEN "legacy" ELSE subentries[root][i]
    BY <1>2, <2>1 DEF TypeOK
  <2>3. CASE subentries[root][current] # None
    <3>1. \A i \in Ids : subentries'[root][i] # None <=> subentries[root][i] # None
      BY <1>1, <2>2, <2>3 DEF Data
    <3>2. Home' = Home
      BY <1>2, <3>1 DEF Home
    <3>3. QED
      BY <1>3, <3>2
  <2>4. CASE subentries[root][current] = None
    <3>1. Home[current] = {"entry"}
      BY <1>2, <2>4 DEF Home
    <3>2. \A i \in Ids : subentries'[root][i] # None
                           <=> i = current \/ subentries[root][i] # None
      BY <1>1, <2>2 DEF Data
    <3>3. Home' = [Home EXCEPT ![current] = {"entry", "root"}]
      BY <1>2, <1>5, <3>2 DEF Home
    <3>4. QED
      BY <1>3, <3>1, <3>3 DEF Promise!Copy, Promise!Places
  <2>5. QED
    BY <2>3, <2>4
<1>6. QED
  BY <1>4, <1>5

\* A disabler stays one, and nothing becomes one.
LEMMA RestampedOff ==
    ASSUME NEW by
    PROVE  Restamped(by) # None <=> by # None
BY ReconcileAssumption DEF Restamped, Stamps

\* The row that is re-pointed is the sensor's own; in a promotion it is where it was.
LEMMA AdoptMigrates ==
    ASSUME TypeOK, Walk, Rows, Linked, AdoptEntities
    PROVE  \/ UNCHANGED <<Home, RowsSeen, Busy>>
           \/ Promise!MoveRow(current)
<1>1. /\ UNCHANGED <<root, entries, subentries>>
      /\ step = "entities" /\ step' \in {"drop", "remove"}
      /\ current \in Ids /\ current \in entries \ {root}
      /\ subentries[Parent][current] # None
  BY DEF AdoptEntities, configVars, Walk, TypeOK, ConversionSteps
<1>2. Busy /\ Busy' = Busy /\ Home' = Home
  BY <1>1 DEF Busy, Home
<1>3. ASSUME NEW i \in Ids, ~OwnEntity(entity[i], current)
      PROVE  RowsSeen'[i] = RowsSeen[i]
  BY <1>1, <1>3 DEF AdoptEntities, RowsSeen, RowSeen
<1>4. ASSUME NEW i \in Ids, OwnEntity(entity[i], current)
      PROVE  i = current
  BY <1>1, <1>4, RowPlace DEF OwnEntity
<1>5. CASE ~OwnEntity(entity[current], current)
  <2>1. \A i \in Ids : RowsSeen'[i] = RowsSeen[i]
    BY <1>3, <1>4, <1>5
  <2>2. RowsSeen' = RowsSeen
    BY <2>1 DEF RowsSeen
  <2>3. QED
    BY <1>2, <2>2
<1>6. CASE OwnEntity(entity[current], current)
  <2> DEFINE by == Restamped(entity[current].disabled_by)
             r  == [entity[current] EXCEPT !.entry = Parent, !.subentry = current,
                                           !.disabled_by = by]
  <2>1. entity'[current] = r
    BY <1>1, <1>6 DEF AdoptEntities
  <2>2. entity[current] # None /\ entity[current] \in EntityRows /\ entity[current].entry = current
    BY <1>1, <1>6 DEF OwnEntity, TypeOK
  <2>3. r.entry = Parent /\ r.name = entity[current].name /\ r.disabled_by = by
    BY <2>2 DEF EntityRows
  <2>4. r # None
    <3>1. Parent \in Ids /\ entity[current].disabled_by \in Disablers
      BY <1>1, <2>2 DEF Parent, TypeOK, EntityRows
    <3>2. r \in EntityRows
      BY <1>1, <2>2, <3>1, EntityUpdated, RestampedType
    <3>3. QED
      BY <3>2, ReconcileAssumption
  <2>5. RowsSeen[current] = [at |-> "entry", name |-> entity[current].name,
                             off |-> entity[current].disabled_by # None]
    BY <1>1, <2>2 DEF RowsSeen, RowSeen
  <2> HIDE DEF r
  <2>6. RowsSeen'[current] =
          [at |-> IF Parent = root THEN "root" ELSE "entry", name |-> entity[current].name,
           off |-> entity[current].disabled_by # None]
    <3>1. RowsSeen'[current] = [at |-> IF r.entry = root THEN "root" ELSE "entry",
                                name |-> r.name, off |-> r.disabled_by # None]
      BY <1>1, <2>1, <2>4 DEF RowsSeen, RowSeen
    <3>2. r.disabled_by # None <=> entity[current].disabled_by # None
      BY <2>3, RestampedOff
    <3>3. QED
      BY <2>3, <3>1, <3>2
  <2>7. CASE root = None
    <3>1. RowsSeen'[current] = RowsSeen[current]
      BY <1>1, <2>5, <2>6, <2>7 DEF Parent
    <3>2. \A i \in Ids : RowsSeen'[i] = RowsSeen[i]
      BY <1>3, <1>4, <3>1
    <3>3. RowsSeen' = RowsSeen
      BY <3>2 DEF RowsSeen
    <3>4. QED
      BY <1>2, <3>3
  <2>8. CASE root # None
    <3>1. Home[current] = {"entry", "root"}
      BY <1>1, <2>8 DEF Home, Parent
    <3>2. RowsSeen[current].at = "entry"
      BY <2>5
    <3>3. RowsSeen'[current] = Promise!AtRoot(RowsSeen[current])
      BY <2>5, <2>6, <2>8 DEF Parent, Promise!AtRoot
    <3>4. RowsSeen' = [RowsSeen EXCEPT ![current] = Promise!AtRoot(RowsSeen[current])]
      BY <1>1, <1>3, <1>4, <3>3 DEF RowsSeen
    <3>5. QED
      BY <1>2, <3>1, <3>2, <3>4 DEF Promise!MoveRow, Promise!Places
  <2>9. QED
    BY <2>7, <2>8
<1>7. QED
  BY <1>5, <1>6

\* The promoted entry becomes the root, with all that is its sensor's.
LEMMA FlipMigrates ==
    ASSUME TypeOK, Walk, Rows, Linked, FlipIdentity
    PROVE  Promise!Promote(current)
<1>1. /\ step = "flip" /\ root = None /\ root' = current
      /\ UNCHANGED <<entries, subentries, entity>>
      /\ current \in Ids /\ todo \in SUBSET Ids /\ None \notin Ids
      /\ entries = Ids
      /\ subentries[current][current] # None
  BY ReconcileAssumption DEF FlipIdentity, rowVars, Walk, TypeOK, ConversionSteps, Parent, Ids
<1>2. Busy /\ Busy' = Busy
  <2>1. step' \in {"attach", "setup"}
    BY <1>1, ProceedStep DEF FlipIdentity
  <2>2. QED
    BY <1>1, <2>1 DEF Busy
<1>3. \A i \in Ids : subentries[current][i] # None => i = current
  BY <1>1 DEF Linked
<1>4. Home = [i \in Ids |-> {"entry"}]
  BY <1>1 DEF Home
<1>5. Home' = [i \in Ids |-> IF i = current THEN {"root"} ELSE {"entry"}]
  BY <1>1, <1>3 DEF Home
<1>6. Home[current] = {"entry"} /\ Home' = [Home EXCEPT ![current] = {"root"}]
  BY <1>1, <1>4, <1>5
<1>7. ASSUME NEW i \in Ids
      PROVE  RowSeen(entity[i])' = IF i = current THEN Promise!AtRoot(RowSeen(entity[i]))
                                   ELSE RowSeen(entity[i])
  <2>1. CASE entity[i] = None
    BY <1>1, <2>1 DEF RowSeen, Promise!AtRoot
  <2>2. CASE entity[i] # None
    <3>1. entity[i].entry = i /\ entity[i].entry # root
      BY <1>1, <2>2, RowPlace
    <3>2. RowSeen(entity[i]) = [at |-> "entry", name |-> entity[i].name,
                                off |-> entity[i].disabled_by # None]
      BY <2>2, <3>1 DEF RowSeen
    <3>3. RowSeen(entity[i])' =
            [at |-> IF i = current THEN "root" ELSE "entry", name |-> entity[i].name,
             off |-> entity[i].disabled_by # None]
      BY <1>1, <2>2, <3>1 DEF RowSeen
    <3>4. QED
      BY <3>2, <3>3 DEF Promise!AtRoot
  <2>3. QED
    BY <2>1, <2>2
<1>8. RowsSeen' = [RowsSeen EXCEPT ![current] = Promise!AtRoot(RowsSeen[current])]
  BY <1>1, <1>7 DEF RowsSeen
<1>9. QED
  BY <1>2, <1>6, <1>8 DEF Promise!Promote

\* An entry that is removed is left by a sensor that is under the root, row and all.
LEMMA RemoveMigrates ==
    ASSUME TypeOK, Walk, Rows, Linked, RemoveEntry
    PROVE  Promise!Leave(current)
<1>1. /\ step = "remove" /\ root \in Ids /\ root' = root
      /\ entries' = entries \ {current}
      /\ subentries' = [subentries EXCEPT ![current] = [i \in Ids |-> None]]
      /\ current \in Ids /\ current \in entries /\ current # root /\ todo \in SUBSET Ids
      /\ subentries[root][current] # None
      /\ None \notin Ids
  BY ReconcileAssumption DEF RemoveEntry, Walk, TypeOK, ConversionSteps, Parent, Ids
<1>2. Busy /\ Busy' = Busy
  <2>1. step' \in {"attach", "setup"}
    BY <1>1, ProceedStep DEF RemoveEntry
  <2>2. QED
    BY <1>1, <2>1 DEF Busy
<1>3. subentries'[root] = subentries[root]
  BY <1>1 DEF TypeOK
<1>4. Home[current] = {"entry", "root"}
  BY <1>1 DEF Home
<1>5. Home' = [Home EXCEPT ![current] = {"root"}]
  BY <1>1, <1>3 DEF Home
<1>6. \A i \in Ids : entity'[i] = entity[i]
  BY RemoveSpares, UnlinkSpares DEF RemoveEntry
<1>7. RowsSeen' = RowsSeen
  BY <1>1, <1>6 DEF RowsSeen, RowSeen
<1>8. RowSeen(entity[current]).at # "entry"
  <2>1. CASE entity[current] = None
    BY <2>1 DEF RowSeen
  <2>2. CASE entity[current] # None
    <3>1. entity[current].entry = root
      BY <1>1, <2>2 DEF Rows, Moving
    <3>2. RowSeen(entity[current]) = [at |-> "root", name |-> entity[current].name,
                                      off |-> entity[current].disabled_by # None]
      BY <2>2, <3>1 DEF RowSeen
    <3>3. QED
      BY <3>2
  <2>3. QED
    BY <2>1, <2>2
<1>9. RowsSeen[current].at # "entry"
  BY <1>1, <1>8 DEF RowsSeen
<1>10. QED
  BY <1>2, <1>4, <1>5, <1>7, <1>9 DEF Promise!Leave, Promise!Places

\* The sensors of a root that is enabled are set up.
LEMMA SetUpMigrates ==
    ASSUME TypeOK, Walk, SetUpRoot
    PROVE  \E S \in SUBSET Ids : Promise!SetUp(S)
<1> DEFINE up == {i \in Ids : ~disabled[root] /\ subentries[root][i] # None}
<1>1. /\ step = "setup" /\ step' = "running" /\ root \in Ids /\ None \notin Ids
      /\ UNCHANGED <<root, entries, subentries>>
  <2>1. step = "setup" /\ step' = "running" /\ UNCHANGED <<root, entries, subentries>>
    BY DEF SetUpRoot, configVars
  <2>2. root \in Ids
    BY <2>1 DEF Walk, TypeOK
  <2>3. QED
    BY <2>1, <2>2, ReconcileAssumption DEF Ids
<1>2. Busy /\ Busy' = FALSE /\ Home' = Home
  BY <1>1 DEF Busy, Home
<1>3. up \in SUBSET Ids /\ \A i \in up : "root" \in Home[i]
  BY <1>1 DEF Home
<1>4. ASSUME NEW i \in Ids
      PROVE  RowSeen(entity[i])' =
               IF i \notin up THEN RowSeen(entity[i])
               ELSE IF RowSeen(entity[i]).at = "nowhere"
               THEN [at |-> "root", name |-> "default", off |-> FALSE]
               ELSE Promise!AtRoot(RowSeen(entity[i]))
  <2>1. entity'[i] = IF i \notin up THEN entity[i]
                     ELSE IF entity[i] # None
                     THEN [entity[i] EXCEPT !.entry = root, !.subentry = i]
                     ELSE [entry |-> root, subentry |-> i, disabled_by |-> None,
                           name |-> "default"]
    BY DEF SetUpRoot
  <2> HIDE DEF up
  <2>2. CASE i \notin up
    BY <1>1, <2>1, <2>2 DEF RowSeen
  <2>3. CASE i \in up /\ entity[i] = None
    <3> DEFINE r == [entry |-> root, subentry |-> i, disabled_by |-> None, name |-> "default"]
    <3>1. r \in EntityRows
      BY <1>1 DEF EntityRows, Disablers, Names
    <3>2. r # None /\ r.entry = root /\ r.name = "default" /\ r.disabled_by = None
      <4>1. r # None
        BY <3>1, ReconcileAssumption
      <4>2. QED
        BY <4>1
    <3>3. entity'[i] = r
      BY <2>1, <2>3
    <3> HIDE DEF r
    <3>4. RowSeen(entity[i])' = [at |-> "root", name |-> "default", off |-> FALSE]
      BY <1>1, <3>2, <3>3 DEF RowSeen
    <3>5. RowSeen(entity[i]).at = "nowhere"
      BY <2>3 DEF RowSeen
    <3>6. QED
      BY <2>3, <3>4, <3>5
  <2>4. CASE i \in up /\ entity[i] # None
    <3> DEFINE r == [entity[i] EXCEPT !.entry = root, !.subentry = i]
    <3>1. entity[i] \in EntityRows
      BY <2>4 DEF TypeOK
    <3>2. r \in EntityRows
      <4>1. None \in Disablers
        BY DEF Disablers
      <4>2. QED
        BY <1>1, <3>1, <4>1, EntityUpdated
    <3>3. r # None /\ r.entry = root /\ r.name = entity[i].name
          /\ r.disabled_by = entity[i].disabled_by
      BY <3>1, <3>2, ReconcileAssumption DEF EntityRows
    <3>4. entity'[i] = r
      BY <2>1, <2>4
    <3> HIDE DEF r
    <3>5. RowSeen(entity[i])' = [at |-> "root", name |-> entity[i].name,
                                 off |-> entity[i].disabled_by # None]
      BY <1>1, <3>3, <3>4 DEF RowSeen
    <3>6. RowSeen(entity[i]) =
            [at |-> IF entity[i].entry = root THEN "root" ELSE "entry",
             name |-> entity[i].name, off |-> entity[i].disabled_by # None]
      BY <2>4 DEF RowSeen
    <3>7. RowSeen(entity[i]).at # "nowhere"
      BY <3>6
    <3>8. Promise!AtRoot(RowSeen(entity[i])) =
            [at |-> "root", name |-> entity[i].name, off |-> entity[i].disabled_by # None]
      BY <3>6 DEF Promise!AtRoot
    <3>9. QED
      BY <2>4, <3>5, <3>7, <3>8
  <2>5. QED
    BY <2>2, <2>3, <2>4
<1> HIDE DEF up
<1>5. RowsSeen' = [i \in Ids |->
                     IF i \notin up THEN RowsSeen[i]
                     ELSE IF RowsSeen[i].at = "nowhere"
                     THEN [at |-> "root", name |-> "default", off |-> FALSE]
                     ELSE Promise!AtRoot(RowsSeen[i])]
  BY <1>4 DEF RowsSeen
<1>6. Promise!SetUp(up)
  BY <1>2, <1>3, <1>5 DEF Promise!SetUp
<1>7. QED
  BY <1>3, <1>6

\* Enabling and disabling an entry is a switch of the rows it owns.
LEMMA ToggleMigrates ==
    ASSUME TypeOK, Walk, NEW e \in Ids, ToggleDisabled(e)
    PROVE  \E off \in [Ids -> BOOLEAN] : Promise!Switch(off)
<1>1. /\ step \in {"running", "failed"} /\ None \notin EntityRows
      /\ UNCHANGED <<root, entries, subentries>>
  BY ReconcileAssumption DEF ToggleDisabled
<1>2. Busy = FALSE /\ Busy' \in BOOLEAN /\ Home' = Home
  BY <1>1 DEF Busy, Home
<1>3. PICK rows : rows = entity'
  OBVIOUS
<1> DEFINE off == [i \in Ids |-> entity[i] # None /\ rows[i].disabled_by # None]
<1>4. ASSUME NEW i \in Ids
      PROVE  RowSeen(entity[i])' = IF RowSeen(entity[i]).at = "nowhere" THEN RowSeen(entity[i])
                                   ELSE [RowSeen(entity[i]) EXCEPT !.off = off[i]]
  <2>1. CASE entity[i] = None
    <3>1. entity'[i] = None
      BY <2>1 DEF ToggleDisabled, OwnEntity
    <3>2. QED
      BY <2>1, <3>1 DEF RowSeen
  <2>2. CASE entity[i] # None
    <3>1. entity[i] \in EntityRows
      BY <2>2 DEF TypeOK
    <3>2. PICK by : by = Followed(entity[i].disabled_by, disabled'[e])
      OBVIOUS
    <3>3. entity'[i] = IF OwnEntity(entity[i], e) THEN [entity[i] EXCEPT !.disabled_by = by]
                       ELSE entity[i]
      BY <3>2 DEF ToggleDisabled
    <3>4. by \in Disablers
      <4>1. entity[i].disabled_by \in Disablers
        BY <3>1 DEF EntityRows
      <4>2. QED
        BY <3>2, <4>1, FollowedType
    <3>5. entity'[i] # None /\ entity'[i].entry = entity[i].entry
          /\ entity'[i].name = entity[i].name
      <4>1. entity'[i] \in EntityRows
        BY <3>1, <3>3, <3>4 DEF EntityRows
      <4>2. entity'[i].entry = entity[i].entry /\ entity'[i].name = entity[i].name
        BY <3>1, <3>3 DEF EntityRows
      <4>3. QED
        BY <1>1, <4>1, <4>2
    <3>6. RowSeen(entity[i])' =
            [at |-> IF entity[i].entry = root THEN "root" ELSE "entry",
             name |-> entity[i].name, off |-> entity'[i].disabled_by # None]
      BY <1>1, <3>5 DEF RowSeen
    <3>7. RowSeen(entity[i]) =
            [at |-> IF entity[i].entry = root THEN "root" ELSE "entry",
             name |-> entity[i].name, off |-> entity[i].disabled_by # None]
      BY <2>2 DEF RowSeen
    <3>8. off[i] = (entity'[i].disabled_by # None)
      BY <1>3, <2>2
    <3> HIDE DEF off
    <3>9. QED
      BY <3>6, <3>7, <3>8
  <2>3. QED
    BY <2>1, <2>2
<1>5. off \in [Ids -> BOOLEAN]
  OBVIOUS
<1> HIDE DEF off
<1>6. RowsSeen' = [i \in Ids |-> IF RowsSeen[i].at = "nowhere" THEN RowsSeen[i]
                                 ELSE [RowsSeen[i] EXCEPT !.off = off[i]]]
  BY <1>4 DEF RowsSeen
<1>7. Promise!Switch(off)
  BY <1>2, <1>6 DEF Promise!Switch
<1>8. QED
  BY <1>5, <1>7

\* A sensor that is deleted takes its row along, if that is the subentry's.
LEMMA DeleteMigrates ==
    ASSUME TypeOK, Walk, Rows, Linked, NEW i \in Ids, DeleteSubentry(i)
    PROVE  Promise!Delete(i)
<1>1. /\ step = "running" /\ step' = step /\ root \in Ids /\ None \notin Ids
      /\ UNCHANGED <<root, entries>>
      /\ subentries[root][i] # None
      /\ subentries' = [subentries EXCEPT ![root][i] = None]
      /\ Unlink({<<root, i>>})
  BY ReconcileAssumption DEF DeleteSubentry, Walk, TypeOK, runVars, Ids
<1>2. Busy = FALSE /\ Busy' = Busy
  BY <1>1 DEF Busy
<1>3. \A j \in Ids : subentries'[root][j] = IF j = i THEN None ELSE subentries[root][j]
  BY <1>1 DEF TypeOK
<1>4. Home' = [Home EXCEPT ![i] = Home[i] \ {"root"}] /\ "root" \in Home[i]
  BY <1>1, <1>3 DEF Home
<1>5. ASSUME NEW j \in Ids
      PROVE  RowSeen(entity[j])' = IF j = i /\ RowSeen(entity[j]).at = "root"
                                   THEN Promise!NoRow ELSE RowSeen(entity[j])
  <2>1. CASE entity[j] = None
    <3>1. entity'[j] = None
      BY <1>1, <2>1, UnlinkStep
    <3>2. QED
      BY <2>1, <3>1 DEF RowSeen
  <2>2. CASE entity[j] # None
    <3> DEFINE own == <<entity[j].entry, entity[j].subentry>>
    <3>1. /\ entity[j].entry # root => entity[j].entry = j
          /\ entity[j].entry = root => entity[j].subentry = j
          /\ own \in device[j].links
      BY <2>2, RowPlace DEF Rows, Placed
    <3>2. RowSeen(entity[j]) =
            [at |-> IF entity[j].entry = root THEN "root" ELSE "entry",
             name |-> entity[j].name, off |-> entity[j].disabled_by # None]
      BY <2>2 DEF RowSeen
    <3>3. RowSeen(entity[j]).at = "root" <=> entity[j].entry = root
      BY <3>2
    <3>4. CASE j = i /\ entity[j].entry = root
      <4>1. own \in device[j].links \cap {<<root, i>>}
        BY <3>1, <3>4
      <4>2. entity'[j] = None
        BY <1>1, <2>2, <4>1, UnlinkStep
      <4>3. QED
        BY <3>3, <3>4, <4>2 DEF RowSeen, Promise!NoRow
    <3>5. CASE ~(j = i /\ entity[j].entry = root)
      <4>1. own \notin {<<root, i>>}
        BY <3>1, <3>5, SamePair
      <4>2. entity'[j] = entity[j]
        BY <1>1, <2>2, <4>1, UnlinkStep
      <4>3. QED
        BY <1>1, <3>3, <3>5, <4>2 DEF RowSeen
    <3>6. QED
      BY <3>4, <3>5
  <2>3. QED
    BY <2>1, <2>2
<1>6. RowsSeen' = [RowsSeen EXCEPT ![i] = IF RowsSeen[i].at = "root" THEN Promise!NoRow
                                          ELSE RowsSeen[i]]
  BY <1>5 DEF RowsSeen
<1>7. QED
  BY <1>2, <1>4, <1>6 DEF Promise!Delete

\* Every step is one of Migration, or none.
LEMMA StepMigrates ==
    ASSUME TypeOK, Walk, Rows, Linked, [Next]_vars
    PROVE  [Promise!MigrationNext]_(Promise!migrationVars)
<1> DEFINE Stutter == UNCHANGED <<Home, RowsSeen, Busy>>
<1> SUFFICES Promise!MigrationNext \/ Stutter
  BY DEF Promise!migrationVars
<1>1. \A i \in Ids : Promise!Copy(i) \/ Promise!MoveRow(i) \/ Promise!Leave(i)
                       \/ Promise!Promote(i) \/ Promise!Delete(i) => Promise!MigrationNext
  BY DEF Promise!MigrationNext
<1>2. step \in ConversionSteps => current \in Ids /\ Parent \in Ids
  BY DEF Walk, TypeOK, Parent
<1>3. CASE UNCHANGED <<configVars, rowVars>>
  <2>1. Home' = Home /\ RowsSeen' = RowsSeen
    BY <1>3 DEF configVars, rowVars, Home, RowsSeen, RowSeen
  <2>2. Busy' = Busy \/ Busy' = ~Busy
    BY DEF Busy
  <2>3. QED
    BY <2>1, <2>2 DEF Promise!MigrationNext, Promise!StartOrStop
<1>4. CASE Attach
  BY <1>1, <1>2, <1>4, AttachMigrates DEF Attach, ConversionSteps
<1>5. CASE AdoptDevices \/ DropMainLink
  <2>1. UNCHANGED configVars /\ Busy' = Busy
    BY <1>5 DEF AdoptDevices, DropMainLink, Busy
  <2>2. \A i \in Ids : entity'[i] = entity[i]
    BY <1>5, DropSpares, UnlinkSpares DEF AdoptDevices, DropMainLink
  <2>3. Home' = Home /\ RowsSeen' = RowsSeen
    BY <2>1, <2>2 DEF configVars, Home, RowsSeen, RowSeen
  <2>4. QED
    BY <2>1, <2>3
<1>6. CASE AdoptEntities
  BY <1>1, <1>2, <1>6, AdoptMigrates DEF AdoptEntities, ConversionSteps
<1>7. CASE FlipIdentity
  BY <1>1, <1>2, <1>7, FlipMigrates DEF FlipIdentity, ConversionSteps
<1>8. CASE RemoveEntry
  BY <1>1, <1>2, <1>8, RemoveMigrates DEF RemoveEntry, ConversionSteps
<1>9. CASE SetUpRoot
  BY <1>9, SetUpMigrates DEF Promise!MigrationNext
<1>10. ASSUME NEW e \in Ids, ToggleDisabled(e)
       PROVE  Promise!MigrationNext
  BY <1>10, ToggleMigrates DEF Promise!MigrationNext
<1>11. ASSUME NEW i \in Ids, EditSubentry(i)
       PROVE  Stutter
  <2>1. /\ UNCHANGED <<root, entries, rowVars, step>> /\ root \in Ids
        /\ subentries[root][i] # None
        /\ subentries' = [subentries EXCEPT ![root][i] = "edited"]
    BY <1>11 DEF EditSubentry, runVars, Walk, TypeOK
  <2>2. \A j \in Ids : subentries'[root][j] = IF j = i THEN "edited" ELSE subentries[root][j]
    BY <2>1 DEF TypeOK
  <2>3. \A j \in Ids : subentries'[root][j] # None <=> subentries[root][j] # None
    BY <2>1, <2>2, ReconcileAssumption DEF Data
  <2>4. QED
    BY <2>1, <2>3 DEF rowVars, Home, RowsSeen, RowSeen, Busy
<1>12. ASSUME NEW i \in Ids, DeleteSubentry(i)
       PROVE  Promise!MigrationNext
  BY <1>1, <1>12, DeleteMigrates
<1>13. CASE Scan \/ Fail \/ Restart \/ UNCHANGED vars
  BY <1>3, <1>13 DEF Scan, Fail, Restart, vars
<1>14. QED
  BY <1>4, <1>5, <1>6, <1>7, <1>8, <1>9, <1>10, <1>11, <1>12, <1>13 DEF Next, Start, Convert

\* Reconcile implements Migration: however often a start fails and whatever the user
\* does between two, every sensor is in one place or in both, its row goes before its
\* entry does, and no start switches it on or off.
THEOREM ReconcileImplementsMigration == Spec => ImplementsMigration
<1>1. Init => Promise!MigrationInit
  BY InitMigrates
<1>2. (TypeOK /\ Walk /\ Rows /\ Linked) /\ [Next]_vars
        => [Promise!MigrationNext]_(Promise!migrationVars)
  BY StepMigrates
<1>3. QED
  BY <1>1, <1>2, AlwaysLinked, PTL DEF Spec, ImplementsMigration, Promise!MigrationSpec
=============================================================================
