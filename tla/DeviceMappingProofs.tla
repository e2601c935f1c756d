------------------------- MODULE DeviceMappingProofs -------------------------
(***************************************************************************)
(* No edit of any sensor, and no edit that fails half way, costs a sensor  *)
(* its registry row, puts another on a wrong device or leaves a device     *)
(* behind, for any number of sensors and edits.                            *)
(***************************************************************************)
EXTENDS DeviceMapping, TLAPS

Registries == [links : [Sensors -> SUBSET Sensors], rows : [Sensors -> Rows \cup {None}]]

\* On a single-owner runtime a sensor has to do with its own device only, but for those
\* that an import put together.
Near(i, k) == i = k \/ (i \in foreign /\ k \in foreign)

\* A registry whose rows are all on a device linked to their sensor.
Owned(r) ==
    /\ r \in Registries
    /\ \A j \in Sensors : r.rows[j] # None => j \in r.links[r.rows[j].device]
    /\ ~union => \A k \in Sensors : \A j \in r.links[k] : Near(j, k)

\* Sensor j has the row it had, wherever it is now.
Keeps(r, j) ==
    rows[j] # None => r.rows[j] # None /\ r.rows[j].name = rows[j].name

Single == ~union => \A i \in Sensors : Near(i, Home(i))

Inv == TypeOK /\ Owned(Registry) /\ Single /\ RowsKept /\ todo \subseteq subentries

-----------------------------------------------------------------------------
(* The calls.                                                              *)

\* A link added to a device that can take it costs nobody a row, but those who share
\* a device that has one owner.
LEMMA LinkedOwned ==
    ASSUME NEW r, NEW i \in Sensors, NEW k \in Sensors,
           Owned(r), union \in BOOLEAN, union \/ Near(i, k)
    PROVE  /\ Owned(Linked(r, i, k))
           /\ union => Linked(r, i, k).rows = r.rows
           /\ \A j \in (Sensors \ foreign) \cup {i} : Linked(r, i, k).rows[j] = r.rows[j]
           /\ i \in Linked(r, i, k).links[k]
<1> DEFINE owners == IF union THEN r.links[k] \cup {i} ELSE {i}
           s == [links |-> [r.links EXCEPT ![k] = owners], rows |-> r.rows]
           t == Listened(s, k)
<1>1. Linked(r, i, k) = t
  BY DEF Linked
<1>2. s \in Registries /\ s.rows = r.rows /\ i \in owners
  BY DEF Owned, Registries
<1>3. \A m \in Sensors : s.links[m] = IF m = k THEN owners ELSE r.links[m]
  BY DEF Owned, Registries
<1>4. t \in Registries /\ t.links = s.links
  BY <1>2 DEF Listened, Registries
<1>5. \A j \in Sensors :
        t.rows[j] = IF Lives(s, j, k) /\ j \notin s.links[k] THEN None ELSE r.rows[j]
  BY <1>2 DEF Listened, Registries
<1>6. \A j \in Sensors : Lives(s, j, k) => j \in r.links[k]
  BY <1>2 DEF Owned, Lives
<1>7. ASSUME NEW j \in Sensors, t.rows[j] # r.rows[j]
      PROVE  ~union /\ j # i /\ j \in foreign
  <2>1. j \in r.links[k] /\ j \notin owners
    BY <1>3, <1>5, <1>6, <1>7
  <2>2. ~union /\ j # i
    BY <2>1
  <2>3. Near(j, k) /\ Near(i, k)
    BY <2>1, <2>2 DEF Owned
  <2>4. QED
    BY <2>2, <2>3 DEF Near
<1>8. union => t.rows = r.rows
  <2>1. t.rows \in [Sensors -> Rows \cup {None}] /\ r.rows \in [Sensors -> Rows \cup {None}]
    BY <1>4 DEF Owned, Registries
  <2>2. QED
    BY <1>7, <2>1
<1>9. \A j \in (Sensors \ foreign) \cup {i} : t.rows[j] = r.rows[j]
  BY <1>7
<1>10. \A j \in Sensors : t.rows[j] # None => j \in t.links[t.rows[j].device]
  <2> SUFFICES ASSUME NEW j \in Sensors, t.rows[j] # None
               PROVE  j \in t.links[t.rows[j].device]
    OBVIOUS
  <2>1. t.rows[j] = r.rows[j] /\ ~(Lives(s, j, k) /\ j \notin s.links[k])
    BY <1>5
  <2>2. r.rows[j] # None /\ j \in r.links[r.rows[j].device] /\ r.rows[j].device \in Sensors
    BY <2>1 DEF Owned, Registries, Rows
  <2>3. CASE r.rows[j].device = k
    BY <1>2, <1>4, <2>1, <2>2, <2>3 DEF Lives
  <2>4. CASE r.rows[j].device # k
    BY <1>3, <1>4, <2>1, <2>2, <2>4
  <2>5. QED
    BY <2>3, <2>4
<1>11. ~union => \A m \in Sensors : \A j \in t.links[m] : Near(j, m)
  <2>1. ~union => \A m \in Sensors : \A j \in r.links[m] : Near(j, m)
    BY DEF Owned
  <2>2. \A m \in Sensors : t.links[m] \subseteq r.links[m] \/ (m = k /\ t.links[m] = owners)
    BY <1>3, <1>4
  <2>3. ~union => owners = {i} /\ Near(i, k)
    OBVIOUS
  <2> HIDE DEF t, owners
  <2>4. QED
    BY <2>1, <2>2, <2>3
<1>12. Owned(t)
  BY <1>4, <1>10, <1>11 DEF Owned
<1>13. i \in t.links[k]
  BY <1>2, <1>3, <1>4
<1> HIDE DEF t
<1>14. QED
  BY <1>1, <1>8, <1>9, <1>12, <1>13

\* The row a sensor gets on a device linked to it is owned.
LEMMA SetOwned ==
    ASSUME NEW r, NEW i \in Sensors, NEW row \in Rows, Owned(r), i \in r.links[row.device]
    PROVE  Owned([links |-> r.links, rows |-> [r.rows EXCEPT ![i] = row]])
<1> DEFINE s == [links |-> r.links, rows |-> [r.rows EXCEPT ![i] = row]]
<1>1. s \in Registries /\ s.links = r.links
  BY DEF Owned, Registries
<1>2. \A j \in Sensors : s.rows[j] = IF j = i THEN row ELSE r.rows[j]
  BY DEF Owned, Registries
<1>3. QED
  BY <1>1, <1>2 DEF Owned

\* A row that moves to a device linked to its sensor is still owned.
LEMMA MovedOwned ==
    ASSUME NEW r, NEW i \in Sensors, NEW k \in Sensors,
           Owned(r), r.rows[i] # None, i \in r.links[k]
    PROVE  /\ Owned(Moved(r, i, k))
           /\ Moved(r, i, k).links = r.links
           /\ Moved(r, i, k).rows[i] = [device |-> k, name |-> r.rows[i].name]
           /\ \A j \in Sensors \ {i} : Moved(r, i, k).rows[j] = r.rows[j]
<1>1. r.rows[i] \in Rows
  BY DEF Owned, Registries
<1>2. [device |-> k, name |-> r.rows[i].name] \in Rows
  BY <1>1 DEF Rows
<1>3. /\ Moved(r, i, k).links = r.links
      /\ Moved(r, i, k).rows = [r.rows EXCEPT ![i] = [device |-> k, name |-> r.rows[i].name]]
  BY DEF Moved, Owned, Registries
<1>4. Moved(r, i, k) \in Registries
  BY <1>2 DEF Moved, Owned, Registries
<1>5. Moved(r, i, k).links = r.links /\ Moved(r, i, k) \in Registries
  BY <1>3, <1>4
<1>6. /\ Moved(r, i, k).rows[i] = [device |-> k, name |-> r.rows[i].name]
      /\ \A j \in Sensors \ {i} : Moved(r, i, k).rows[j] = r.rows[j]
  BY <1>3 DEF Owned, Registries
<1>7. Owned(Moved(r, i, k))
  BY <1>5, <1>6 DEF Owned
<1>8. QED
  BY <1>5, <1>6, <1>7

\* A link that goes takes the row of its sensor only, and only if it is there.
LEMMA UnlinkedOwned ==
    ASSUME NEW r, NEW i \in Sensors, NEW k \in Sensors, Owned(r), union \in BOOLEAN
    PROVE  /\ Owned(Unlinked(r, i, k))
           /\ \A j \in Sensors : \/ Unlinked(r, i, k).rows[j] = r.rows[j]
                                 \/ j = i /\ r.rows[i].device = k
<1>1. CASE ~union
  BY <1>1 DEF Unlinked
<1>2. CASE union
  <2> DEFINE s == [links |-> [r.links EXCEPT ![k] = @ \ {i}], rows |-> r.rows]
             t == Listened(s, k)
  <2>1. s \in Registries /\ s.rows = r.rows
    BY DEF Owned, Registries
  <2>2. \A m \in Sensors : s.links[m] = IF m = k THEN r.links[k] \ {i} ELSE r.links[m]
    BY DEF Owned, Registries
  <2>3. t \in Registries /\ t.links = s.links
    BY <2>1 DEF Listened, Registries
  <2>4. \A j \in Sensors :
          t.rows[j] = IF Lives(s, j, k) /\ j \notin s.links[k] THEN None ELSE r.rows[j]
    BY <2>1 DEF Listened, Registries
  <2>5. \A j \in Sensors : t.rows[j] = r.rows[j] \/ (j = i /\ r.rows[i].device = k)
    <3> SUFFICES ASSUME NEW j \in Sensors, t.rows[j] # r.rows[j]
                 PROVE  j = i /\ r.rows[i].device = k
      OBVIOUS
    <3>1. r.rows[j] # None /\ r.rows[j].device = k /\ j \notin s.links[k]
      BY <2>1, <2>4 DEF Lives
    <3>2. j \in r.links[k]
      BY <3>1 DEF Owned
    <3>3. QED
      BY <2>2, <3>1, <3>2
  <2>6. \A j \in Sensors : r.rows[j] # None => r.rows[j].device \in Sensors
    BY DEF Owned, Registries, Rows
  <2>7. \A j \in Sensors : t.rows[j] # None => j \in t.links[t.rows[j].device]
    <3> SUFFICES ASSUME NEW j \in Sensors, t.rows[j] # None
                 PROVE  j \in t.links[t.rows[j].device]
      OBVIOUS
    <3>1. /\ t.rows[j] = r.rows[j]
          /\ ~(r.rows[j].device = k /\ j \notin s.links[k])
      BY <2>1, <2>4 DEF Lives
    <3>2. j \in r.links[r.rows[j].device] /\ r.rows[j].device \in Sensors
      BY <2>6, <3>1 DEF Owned
    <3>3. j \in s.links[r.rows[j].device]
      BY <2>2, <3>1, <3>2
    <3>4. QED
      BY <2>3, <3>1, <3>3
  <2>8. Owned(t)
    BY <1>2, <2>3, <2>7 DEF Owned
  <2>9. QED
    BY <1>2, <2>5, <2>8 DEF Unlinked
<1>3. QED
  BY <1>1, <1>2

-----------------------------------------------------------------------------
(* The transactions.                                                       *)

\* Every state of a move to another device keeps every row.
LEMMA TargetMappingOwned ==
    ASSUME NEW i \in Sensors, NEW k \in Sensors, TypeOK, Owned(Registry),
           union \/ i \in links[k], union \/ Near(i, k),
           NEW n \in 1 .. Len(TargetMapping(i, k))
    PROVE  /\ Owned(TargetMapping(i, k)[n])
           /\ \A j \in Sensors : Keeps(TargetMapping(i, k)[n], j)
<1> DEFINE old == rows[i].device
           r1  == IF i \in links[k] THEN Registry ELSE Linked(Registry, i, k)
           r2  == Moved(r1, i, k)
           r3  == Unlinked(r2, i, old)
<1>1. union \in BOOLEAN /\ Registry.rows = rows /\ Registry.links = links
  BY DEF TypeOK, Registry
<1>2. Owned(r1) /\ r1.rows = rows /\ i \in r1.links[k]
  BY <1>1, LinkedOwned
<1>3. \A j \in Sensors : Keeps(r1, j)
  BY <1>2 DEF Keeps
<1> HIDE DEF r1
<1>4. CASE ~Found(i)
  <2>1. TargetMapping(i, k) = <<r1>>
    BY <1>4 DEF TargetMapping, r1
  <2>2. QED
    BY <1>2, <1>3, <2>1
<1>5. CASE Found(i)
  <2>1. rows[i] # None
    BY <1>5 DEF Found
  <2>2. old \in Sensors
    BY <2>1 DEF TypeOK, Rows
  <2>3. /\ Owned(r2)
        /\ r2.rows[i] = [device |-> k, name |-> rows[i].name]
        /\ \A j \in Sensors \ {i} : r2.rows[j] = rows[j]
    BY <1>2, <2>1, MovedOwned
  <2>4. [device |-> k, name |-> rows[i].name] # None
    BY <2>1, DeviceMappingAssumption DEF TypeOK, Rows
  <2>5. \A j \in Sensors : Keeps(r2, j)
    BY <2>3, <2>4 DEF Keeps
  <2> HIDE DEF r2
  <2>6. CASE old = k
    <3>1. TargetMapping(i, k) = <<r1, r2>>
      BY <1>5, <2>6 DEF TargetMapping, r1, r2
    <3>2. QED
      BY <1>2, <1>3, <2>3, <2>5, <3>1
  <2>7. CASE old # k
    <3>1. TargetMapping(i, k) = <<r1, r2, r3>>
      BY <1>5, <2>7 DEF TargetMapping, r1, r2
    <3>2. /\ Owned(r3)
          /\ \A j \in Sensors : r3.rows[j] = r2.rows[j] \/ (j = i /\ r2.rows[i].device = old)
      BY <1>1, <2>2, <2>3, UnlinkedOwned
    <3>3. \A j \in Sensors : Keeps(r3, j)
      BY <2>3, <2>5, <2>7, <3>2 DEF Keeps
    <3> HIDE DEF r3
    <3>4. QED
      BY <1>2, <1>3, <2>3, <2>5, <3>1, <3>2, <3>3
  <2>8. QED
    BY <2>6, <2>7
<1>6. QED
  BY <1>4, <1>5

\* Every state of a detachment does too, but for the last if the sensor was on its
\* own device already.
LEMMA DetachmentOwned ==
    ASSUME NEW i \in Sensors, TypeOK, Owned(Registry),
           NEW n \in 1 .. Len(Detachment(i))
    PROVE  /\ Owned(Detachment(i)[n])
           /\ \A j \in Sensors \ foreign :
                \/ Keeps(Detachment(i)[n], j)
                \/ j = i /\ n = Len(Detachment(i)) /\ Found(i) /\ rows[i].device = i
<1> DEFINE old == rows[i].device
           r1  == Linked(Registry, i, i)
           r2  == Moved(r1, i, i)
           r3  == Unlinked(r2, i, old)
<1>1. union \in BOOLEAN /\ Registry.rows = rows /\ Registry.links = links
  BY DEF TypeOK, Registry
<1>2. /\ Owned(r1) /\ i \in r1.links[i]
      /\ \A j \in (Sensors \ foreign) \cup {i} : r1.rows[j] = rows[j]
  BY <1>1, LinkedOwned DEF Near
<1>3. \A j \in Sensors \ foreign : Keeps(r1, j)
  BY <1>2 DEF Keeps
<1> HIDE DEF r1
<1>4. CASE ~Found(i)
  <2>1. Detachment(i) = <<r1>>
    BY <1>4 DEF Detachment, r1
  <2>2. QED
    BY <1>2, <1>3, <2>1
<1>5. CASE Found(i)
  <2>1. rows[i] # None
    BY <1>5 DEF Found
  <2>2. old \in Sensors
    BY <2>1 DEF TypeOK, Rows
  <2>3. /\ Owned(r2)
        /\ r2.rows[i] = [device |-> i, name |-> rows[i].name]
        /\ \A j \in Sensors \ {i} : r2.rows[j] = r1.rows[j]
    BY <1>2, <2>1, MovedOwned
  <2>4. [device |-> i, name |-> rows[i].name] # None
    BY <2>1, DeviceMappingAssumption DEF TypeOK, Rows
  <2>5. \A j \in Sensors \ foreign : Keeps(r2, j)
    BY <1>2, <2>3, <2>4 DEF Keeps
  <2> HIDE DEF r2
  <2>6. Detachment(i) = <<r1, r2, r3>>
    BY <1>5 DEF Detachment, r1, r2
  <2>7. /\ Owned(r3)
        /\ \A j \in Sensors : r3.rows[j] = r2.rows[j] \/ (j = i /\ r2.rows[i].device = old)
    BY <1>1, <2>2, <2>3, UnlinkedOwned
  <2>8. \A j \in Sensors \ foreign : Keeps(r3, j) \/ (j = i /\ old = i)
    BY <2>3, <2>5, <2>7 DEF Keeps
  <2> HIDE DEF r3
  <2>9. QED
    BY <1>2, <1>3, <1>5, <2>3, <2>5, <2>6, <2>7, <2>8
<1>6. QED
  BY <1>4, <1>5

-----------------------------------------------------------------------------
(* The actions.                                                            *)

LEMMA InitInv == Init => Inv
<1> SUFFICES ASSUME Init PROVE Inv
  OBVIOUS
<1>1. \A i \in Sensors : [device |-> i, name |-> "given"] \in Rows
  BY DEF Rows, Names
<1>2. \A i \in Sensors : links[i] = {i} \cap subentries /\ links[i] \subseteq Sensors
  BY DEF Init
<1>3. \A i \in Sensors :
        /\ i \in subentries => rows[i] = [device |-> i, name |-> "given"]
        /\ i \notin subentries => rows[i] = None
        /\ rows[i] \in Rows \cup {None}
  BY <1>1 DEF Init
<1>4. TypeOK
  <2>1. rows \in [Sensors -> Rows \cup {None}]
    BY <1>3 DEF Init
  <2>2. links \in [Sensors -> SUBSET Sensors]
    BY <1>2 DEF Init
  <2>3. QED
    BY <2>1, <2>2 DEF Init, TypeOK
<1>5. Owned(Registry)
  <2>1. Registry \in Registries
    BY <1>4 DEF TypeOK, Registry, Registries
  <2>2. \A j \in Sensors : rows[j] # None => j \in links[rows[j].device]
    <3> SUFFICES ASSUME NEW j \in Sensors, rows[j] # None
                 PROVE  j \in links[rows[j].device]
      OBVIOUS
    <3>1. j \in subentries
      BY <1>3
    <3>2. rows[j] = [device |-> j, name |-> "given"]
      BY <1>3, <3>1
    <3>3. rows[j].device = j
      BY <3>2
    <3>4. QED
      BY <1>2, <3>1, <3>3
  <2>3. \A k \in Sensors : \A j \in links[k] : Near(j, k)
    BY <1>2 DEF Near
  <2>4. QED
    BY <2>1, <2>2, <2>3 DEF Owned, Registry
<1>6. Single /\ todo \subseteq subentries
  BY DEF Single, Init, Home, Near
<1>7. RowsKept
  BY <1>3, DeviceMappingAssumption, <1>1 DEF RowsKept, Init
<1>8. QED
  BY <1>4, <1>5, <1>6, <1>7 DEF Inv

\* A registry call's state as the next state.
LEMMA BecomesOwned ==
    ASSUME NEW r, Owned(r), Becomes(r), UNCHANGED <<union, foreign>>
    PROVE  /\ Owned(Registry)'
           /\ links' \in [Sensors -> SUBSET Sensors]
           /\ rows' \in [Sensors -> Rows \cup {None}]
<1>1. r.links \in [Sensors -> SUBSET Sensors] /\ r.rows \in [Sensors -> Rows \cup {None}]
  BY DEF Owned, Registries
<1>2. links' = r.links /\ rows' = r.rows
  BY DEF Becomes
<1>3. [links |-> links', rows |-> rows'] \in Registries
  BY <1>1, <1>2 DEF Registries
<1>4. QED
  BY <1>1, <1>2, <1>3 DEF Owned, Registry, Near

\* The rows the user has renamed are where the calls leave them.
LEMMA KeepsRowsKept ==
    ASSUME NEW r, NEW S, RowsKept, Becomes(r), named \subseteq Sensors,
           UNCHANGED <<named, foreign>>, respun \subseteq respun', S = respun' \ respun,
           \A j \in Sensors \ foreign : Keeps(r, j) \/ j \in S
    PROVE  RowsKept'
<1> SUFFICES ASSUME NEW j \in named, j \notin respun', j \notin foreign
             PROVE  rows'[j] # None /\ rows'[j].name = "given"
  BY DEF RowsKept
<1>1. rows[j] # None /\ rows[j].name = "given"
  BY DEF RowsKept
<1>2. Keeps(r, j)
  OBVIOUS
<1>3. QED
  BY <1>1, <1>2 DEF Keeps, Becomes

\* On a single-owner runtime a sensor can only be mapped to a device it owns.
LEMMA AllowedMap ==
    ASSUME Inv, NEW i \in Sensors, NEW k \in Sensors,
           links[k] # {}, i \in links[k] \/ Allowed(links[k])
    PROVE  /\ union \/ i \in links[k]
           /\ union \/ Near(i, k)
<1>1. ~union => \A j \in links[k] : Near(j, k)
  BY DEF Inv, Owned, Registry
<1>2. QED
  BY <1>1 DEF Allowed

LEMMA SingleKept ==
    ASSUME TypeOK, Single, NEW i \in Sensors, NEW g \in Sensors \cup {None},
           union \/ g = None \/ Near(i, g),
           group' = [group EXCEPT ![i] = g], UNCHANGED <<union, foreign>>
    PROVE  Single'
<1>1. SUFFICES ASSUME ~union, NEW j \in Sensors
               PROVE  j = Home(j)' \/ (j \in foreign /\ Home(j)' \in foreign)
  BY DEF Single, Near
<1>2. CASE j = i
  BY <1>1, <1>2 DEF Near, Home, TypeOK
<1>3. CASE j # i
  <2>1. Home(j)' = Home(j)
    BY <1>3 DEF Home, TypeOK
  <2>2. QED
    BY <1>1, <2>1 DEF Single, Near
<1>4. QED
  BY <1>2, <1>3

LEMMA MapInv ==
    ASSUME Inv, NEW i \in Sensors, NEW k \in Sensors, Map(i, k)
    PROVE  Inv'
<1> DEFINE calls == TargetMapping(i, k)
           r == calls[Len(calls)]
<1>1. TypeOK /\ Owned(Registry) /\ Single /\ RowsKept /\ todo \subseteq subentries
  BY DEF Inv
<1>2. (union \/ i \in links[k]) /\ (union \/ Near(i, k))
  BY AllowedMap DEF Map
<1>3. Len(calls) \in 1 .. Len(calls)
  BY DEF TargetMapping
<1>4. Owned(r) /\ \A j \in Sensors : Keeps(r, j)
  BY <1>1, <1>2, <1>3, TargetMappingOwned
<1>5. Becomes(r)
  BY DEF Map
<1> HIDE DEF r, calls
<1>6. UNCHANGED <<union, subentries, faults, named, respun, torn, foreign>> /\ todo' = {}
  BY DEF Map, UserActs
<1>7. Owned(Registry)' /\ links' \in [Sensors -> SUBSET Sensors] /\ rows' \in [Sensors -> Rows \cup {None}]
  BY <1>4, <1>5, <1>6, BecomesOwned
<1>8. group' = [group EXCEPT ![i] = k]
  BY DeviceMappingAssumption DEF Map, NormalizedGroup
<1>9. TypeOK'
  <2>1. edits' \in Nat /\ todo' = {} /\ reload' \in BOOLEAN /\ unfound' \subseteq Sensors
    BY <1>1 DEF Map, UserActs, TypeOK
  <2>2. group' \in [Sensors -> Sensors \cup {None}]
    BY <1>1, <1>8 DEF TypeOK
  <2>3. QED
    BY <1>1, <1>6, <1>7, <2>1, <2>2 DEF TypeOK
<1>10. Single'
  BY <1>1, <1>2, <1>6, <1>8, SingleKept
<1>11. RowsKept'
  BY <1>1, <1>4, <1>5, <1>6, KeepsRowsKept DEF TypeOK
<1>12. QED
  BY <1>6, <1>7, <1>9, <1>10, <1>11 DEF Inv

LEMMA DetachInv ==
    ASSUME Inv, NEW i \in Sensors, Detach(i)
    PROVE  Inv'
<1> DEFINE calls == Detachment(i)
           r == calls[Len(calls)]
           own == Found(i) /\ rows[i].device = i
<1>1. TypeOK /\ Owned(Registry) /\ Single /\ RowsKept /\ todo \subseteq subentries
  BY DEF Inv
<1>2. Len(calls) \in 1 .. Len(calls)
  BY DEF Detachment
<1>3. Owned(r) /\ \A j \in Sensors \ foreign : Keeps(r, j) \/ (j = i /\ own)
  BY <1>1, <1>2, DetachmentOwned
<1>4. Becomes(r)
  BY DEF Detach
<1> HIDE DEF r, calls
<1>5. /\ UNCHANGED <<union, subentries, faults, named, torn, foreign>>
      /\ respun' = IF own THEN respun \cup {i} ELSE respun
      /\ todo' = {}
  BY DEF Detach, UserActs
<1> HIDE DEF own
<1>6. Owned(Registry)' /\ links' \in [Sensors -> SUBSET Sensors] /\ rows' \in [Sensors -> Rows \cup {None}]
  BY <1>3, <1>4, <1>5, BecomesOwned
<1>7. group' = [group EXCEPT ![i] = None]
  BY DEF Detach, NormalizedGroup
<1>8. TypeOK'
  <2>1. edits' \in Nat /\ todo' = {} /\ reload' \in BOOLEAN /\ unfound' \subseteq Sensors
    BY <1>1 DEF Detach, UserActs, TypeOK
  <2>2. group' \in [Sensors -> Sensors \cup {None}]
    BY <1>1, <1>7 DEF TypeOK
  <2>3. QED
    BY <1>1, <1>5, <1>6, <2>1, <2>2 DEF TypeOK
<1>9. Single'
  BY <1>1, <1>5, <1>7, SingleKept
<1>10. RowsKept'
  <2> SUFFICES ASSUME NEW j \in named', j \notin respun', j \notin foreign'
               PROVE  rows'[j] # None /\ rows'[j].name = "given"
    BY DEF RowsKept
  <2>1. j \in Sensors \ foreign /\ j \in named \ respun /\ ~(j = i /\ own)
    BY <1>1, <1>5 DEF TypeOK
  <2>2. rows[j] # None /\ rows[j].name = "given"
    BY <1>1, <2>1 DEF RowsKept
  <2>3. QED
    BY <1>3, <1>4, <2>1, <2>2 DEF Keeps, Becomes
<1>11. QED
  BY <1>5, <1>6, <1>8, <1>9, <1>10 DEF Inv

\* A transaction that stops before its last call.
LEMMA RaisesInv ==
    ASSUME Inv, NEW i \in Sensors, NEW calls, Raises(i, calls),
           Len(calls) \in Nat,
           \A n \in 1 .. Len(calls) - 1 :
             Owned(calls[n]) /\ \A j \in Sensors \ foreign : Keeps(calls[n], j)
    PROVE  Inv'
<1>1. TypeOK /\ Owned(Registry) /\ Single /\ RowsKept /\ todo \subseteq subentries
  BY DEF Inv
<1>2. PICK n \in 0 .. Len(calls) - 1 : Becomes(IF n = 0 THEN Registry ELSE calls[n])
  BY DEF Raises
<1> DEFINE r == IF n = 0 THEN Registry ELSE calls[n]
<1>3. \A j \in Sensors \ foreign : Keeps(Registry, j)
  BY DEF Keeps, Registry
<1>4. Owned(r) /\ \A j \in Sensors \ foreign : Keeps(r, j)
  <2>1. CASE n = 0
    BY <1>1, <1>3, <2>1
  <2>2. CASE n # 0
    <3>1. n \in 1 .. Len(calls) - 1
      BY <1>2, <2>2
    <3>2. QED
      BY <2>2, <3>1
  <2>3. QED
    BY <2>1, <2>2
<1>5. Becomes(r)
  BY <1>2
<1> HIDE DEF r
<1>6. UNCHANGED <<union, subentries, group, reload, named, respun, unfound, foreign>> /\ todo' = {}
  BY DEF Raises, UserActs, dataVars
<1>7. Owned(Registry)' /\ links' \in [Sensors -> SUBSET Sensors] /\ rows' \in [Sensors -> Rows \cup {None}]
  BY <1>4, <1>5, <1>6, BecomesOwned
<1>8. TypeOK'
  <2>1. edits' \in Nat /\ todo' = {} /\ faults' \in Nat /\ torn' \subseteq Sensors
    BY <1>1 DEF Raises, UserActs, TypeOK
  <2>2. QED
    BY <1>1, <1>6, <1>7, <2>1 DEF TypeOK
<1>9. Single'
  BY <1>1, <1>6 DEF Single, Near, Home
<1>10. RowsKept'
  BY <1>1, <1>4, <1>5, <1>6, KeepsRowsKept DEF TypeOK
<1>11. QED
  BY <1>6, <1>7, <1>8, <1>9, <1>10 DEF Inv

LEMMA MapRaisesInv ==
    ASSUME Inv, NEW i \in Sensors, NEW k \in Sensors, MapRaises(i, k)
    PROVE  Inv'
<1> DEFINE calls == TargetMapping(i, k)
<1>1. TypeOK /\ Owned(Registry)
  BY DEF Inv
<1>2. (union \/ i \in links[k]) /\ (union \/ Near(i, k))
  BY AllowedMap DEF MapRaises
<1>3. Len(calls) \in Nat
  BY DEF TargetMapping
<1>4. \A n \in 1 .. Len(calls) : Owned(calls[n]) /\ \A j \in Sensors \ foreign : Keeps(calls[n], j)
  BY <1>1, <1>2, TargetMappingOwned
<1>5. Raises(i, calls)
  BY DEF MapRaises
<1> HIDE DEF calls
<1>6. QED
  BY <1>3, <1>4, <1>5, RaisesInv

LEMMA DetachRaisesInv ==
    ASSUME Inv, NEW i \in Sensors, DetachRaises(i)
    PROVE  Inv'
<1> DEFINE calls == Detachment(i)
<1>1. TypeOK /\ Owned(Registry)
  BY DEF Inv
<1>2. Len(calls) \in Nat
  BY DEF Detachment
<1>3. \A n \in 1 .. Len(calls) :
        /\ Owned(calls[n])
        /\ \A j \in Sensors \ foreign : Keeps(calls[n], j) \/ n = Len(calls)
  BY <1>1, DetachmentOwned
<1>4. Raises(i, calls)
  BY DEF DetachRaises
<1> HIDE DEF calls
<1>5. \A n \in 1 .. Len(calls) - 1 : Owned(calls[n]) /\ \A j \in Sensors \ foreign : Keeps(calls[n], j)
  BY <1>2, <1>3
<1>6. QED
  BY <1>2, <1>4, <1>5, RaisesInv

LEMMA CreateInv ==
    ASSUME Inv, NEW i \in Sensors, NEW k \in Sensors \cup {None}, Create(i, k)
    PROVE  Inv'
<1>1. TypeOK /\ Owned(Registry) /\ Single /\ RowsKept /\ todo \subseteq subentries
  BY DEF Inv
<1>2. UNCHANGED <<union, links, rows, faults, named, respun, torn, unfound, foreign>> /\ todo' = {}
  BY DEF Create, UserActs, registryVars, historyVars
<1>3. group' = [group EXCEPT ![i] = k]
  BY DEF Create, NormalizedGroup
<1>4. union \/ k = None
  <2> SUFFICES ASSUME ~union, k # None
               PROVE  FALSE
    OBVIOUS
  <2>1. links[k] # {} /\ Allowed(links[k])
    BY DEF Create
  <2>2. QED
    BY <2>1 DEF Allowed
<1>5. TypeOK'
  <2>1. edits' \in Nat /\ todo' = {} /\ reload' \in BOOLEAN /\ subentries' \subseteq Sensors
    BY <1>1 DEF Create, UserActs, TypeOK
  <2>2. group' \in [Sensors -> Sensors \cup {None}]
    BY <1>1, <1>3 DEF TypeOK
  <2>3. QED
    BY <1>1, <1>2, <2>1, <2>2 DEF TypeOK
<1>6. Owned(Registry)'
  BY <1>1, <1>2 DEF Owned, Registry, Near
<1>7. Single'
  BY <1>1, <1>2, <1>3, <1>4, SingleKept
<1>8. RowsKept'
  BY <1>1, <1>2 DEF RowsKept
<1>9. QED
  BY <1>2, <1>5, <1>6, <1>7, <1>8 DEF Inv

LEMMA RestoreInv ==
    ASSUME Inv, NEW i \in Sensors, NEW k \in Sensors \cup {None}, Restore(i, k)
    PROVE  Inv'
<1>1. TypeOK /\ Owned(Registry) /\ Single /\ RowsKept
  BY DEF Inv
<1>2. UNCHANGED <<union, links, rows, faults, named, respun, torn, unfound>> /\ todo' = {}
  BY DEF Restore, UserActs, registryVars
<1>3. group' = [group EXCEPT ![i] = k]
  BY DEF Restore
<1>4. /\ foreign \subseteq foreign' /\ foreign' \subseteq Sensors
      /\ ~union => k \in {None, i} \/ (i \in foreign' /\ k \in foreign')
  BY <1>1 DEF Restore, TypeOK
<1>5. TypeOK'
  <2>1. edits' \in Nat /\ reload' \in BOOLEAN /\ subentries' \subseteq Sensors
    BY <1>1 DEF Restore, UserActs, TypeOK
  <2>2. group' \in [Sensors -> Sensors \cup {None}]
    BY <1>1, <1>3 DEF TypeOK
  <2>3. QED
    BY <1>1, <1>2, <1>4, <2>1, <2>2 DEF TypeOK
<1>6. Owned(Registry)'
  BY <1>1, <1>2, <1>4 DEF Owned, Registry, Near
<1>7. Single'
  <2>1. SUFFICES ASSUME ~union, NEW j \in Sensors
                 PROVE  j = Home(j)' \/ (j \in foreign' /\ Home(j)' \in foreign')
    BY <1>2 DEF Single, Near
  <2>2. CASE j = i
    BY <1>1, <1>3, <1>4, <2>1, <2>2 DEF Home, TypeOK
  <2>3. CASE j # i
    <3>1. Home(j)' = Home(j)
      BY <1>1, <1>3, <2>3 DEF Home, TypeOK
    <3>2. QED
      BY <1>1, <1>4, <2>1, <3>1 DEF Single, Near
  <2>4. QED
    BY <2>2, <2>3
<1>8. RowsKept'
  BY <1>1, <1>2, <1>4 DEF RowsKept
<1>9. QED
  BY <1>2, <1>5, <1>6, <1>7, <1>8 DEF Inv

LEMMA EditInv ==
    ASSUME Inv, NEW i \in Sensors, Edit(i)
    PROVE  Inv'
<1>1. TypeOK /\ Owned(Registry) /\ Single /\ RowsKept /\ todo \subseteq subentries
  BY DEF Inv
<1>2. /\ UNCHANGED <<union, subentries, links, rows, faults, named, respun, torn, unfound, foreign>>
      /\ todo' = {}
  BY DEF Edit, UserActs, registryVars, historyVars
<1>3. group' = group
  BY <1>1 DEF Edit, NormalizedGroup, TypeOK
<1>4. TypeOK'
  <2>1. edits' \in Nat /\ todo' = {} /\ reload' \in BOOLEAN
    BY <1>1 DEF Edit, UserActs, TypeOK
  <2>2. QED
    BY <1>1, <1>2, <1>3, <2>1 DEF TypeOK
<1>5. Owned(Registry)'
  BY <1>1, <1>2 DEF Owned, Registry, Near
<1>6. Single'
  BY <1>1, <1>2, <1>3 DEF Single, Home, Near
<1>7. RowsKept'
  BY <1>1, <1>2 DEF RowsKept
<1>8. QED
  BY <1>2, <1>4, <1>5, <1>6, <1>7 DEF Inv

LEMMA DeleteInv ==
    ASSUME Inv, NEW i \in Sensors, Delete(i)
    PROVE  Inv'
<1>1. TypeOK /\ Owned(Registry) /\ Single /\ RowsKept /\ todo \subseteq subentries
  BY DEF Inv
<1>2. UNCHANGED <<union, faults, respun, torn, unfound, foreign>> /\ todo' = {}
  BY DEF Delete, UserActs
<1>3. /\ links' = [k \in Sensors |-> links[k] \ {i}]
      /\ rows' = [rows EXCEPT ![i] = None]
      /\ group' = [group EXCEPT ![i] = None]
      /\ named' = named \ {i}
  BY DEF Delete
<1>4. /\ \A k \in Sensors : links'[k] = links[k] \ {i}
      /\ rows'[i] = None
      /\ \A j \in Sensors \ {i} : rows'[j] = rows[j]
  BY <1>1, <1>3 DEF TypeOK
<1>5. links' \in [Sensors -> SUBSET Sensors] /\ rows' \in [Sensors -> Rows \cup {None}]
  <2>1. \A k \in Sensors : links[k] \ {i} \subseteq Sensors
    BY <1>1 DEF TypeOK
  <2>2. QED
    BY <1>1, <1>3, <2>1 DEF TypeOK
<1>6. TypeOK'
  <2>1. /\ edits' \in Nat /\ todo' = {} /\ reload' \in BOOLEAN /\ subentries' \subseteq Sensors
        /\ group' \in [Sensors -> Sensors \cup {None}] /\ named' \subseteq Sensors
    BY <1>1, <1>3 DEF Delete, UserActs, TypeOK
  <2>2. QED
    BY <1>1, <1>2, <1>5, <2>1 DEF TypeOK
<1>7. Owned(Registry)'
  <2>1. Registry' \in Registries
    BY <1>5 DEF Registry, Registries
  <2>2. \A j \in Sensors : rows'[j] # None => j \in links'[rows'[j].device]
    <3> SUFFICES ASSUME NEW j \in Sensors, rows'[j] # None
                 PROVE  j \in links'[rows'[j].device]
      OBVIOUS
    <3>1. j # i /\ rows'[j] = rows[j]
      BY <1>4
    <3>2. j \in links[rows[j].device] /\ rows[j].device \in Sensors
      BY <1>1, <3>1 DEF Owned, Registry, TypeOK, Rows
    <3>3. QED
      BY <1>4, <3>1, <3>2
  <2>3. ~union => \A k \in Sensors : \A j \in links'[k] : Near(j, k)
    BY <1>1, <1>4 DEF Owned, Registry
  <2>4. QED
    BY <1>2, <2>1, <2>2, <2>3 DEF Owned, Registry, Near
<1>8. Single'
  BY <1>1, <1>2, <1>3, SingleKept
<1>9. RowsKept'
  BY <1>1, <1>2, <1>3, <1>4 DEF RowsKept, TypeOK
<1>10. QED
  BY <1>2, <1>6, <1>7, <1>8, <1>9 DEF Inv

LEMMA ReloadInv ==
    ASSUME Inv, Reload
    PROVE  Inv'
<1>1. /\ UNCHANGED <<union, subentries, group, links, rows, edits, faults>>
      /\ UNCHANGED <<named, respun, torn, unfound, foreign>>
      /\ reload' \in BOOLEAN /\ todo' = subentries
  BY DEF Reload, dataVars, registryVars, historyVars
<1>2. QED
  BY <1>1 DEF Inv, TypeOK, Owned, Registry, Single, Near, Home, RowsKept

\* What a reload does to the sensor it sets up, and to the others.
LEMMA SetUpRows ==
    ASSUME Inv, NEW i \in Sensors, SetUp(i)
    PROVE  /\ Owned(Registry)'
           /\ links' = Linked(Registry, i, Home(i)).links
           /\ rows'[i] \in Rows /\ rows'[i].device = Home(i)
           /\ rows[i] # None => rows'[i].name = rows[i].name
           /\ \A j \in Sensors \ (foreign \cup {i}) : rows'[j] = rows[j]
           /\ i \in subentries /\ todo' = todo \ {i}
           /\ UNCHANGED <<union, subentries, group, reload, edits, faults>>
           /\ UNCHANGED <<named, respun, torn, unfound, foreign>>
<1> DEFINE k == Home(i)
           r == Linked(Registry, i, k)
           row == [device |-> k, name |-> IF rows[i] = None THEN "default" ELSE rows[i].name]
           s == [links |-> r.links, rows |-> [r.rows EXCEPT ![i] = row]]
<1>1. TypeOK /\ Owned(Registry) /\ Single /\ todo \subseteq subentries
  BY DEF Inv
<1>2. k \in Sensors /\ union \in BOOLEAN /\ (union \/ Near(i, k)) /\ Registry.rows = rows
  BY <1>1 DEF Home, Single, TypeOK, Registry
<1>3. row \in Rows /\ row.device = k /\ (rows[i] # None => row.name = rows[i].name)
  <2>1. rows[i] # None => rows[i].name \in Names
    BY <1>1 DEF TypeOK, Rows
  <2>2. QED
    BY <1>2, <2>1 DEF Rows, Names
<1>4. /\ Owned(r) /\ i \in r.links[k]
      /\ \A j \in (Sensors \ foreign) \cup {i} : r.rows[j] = rows[j]
  BY <1>1, <1>2, LinkedOwned
<1>5. /\ links' = r.links /\ rows' = [r.rows EXCEPT ![i] = row]
      /\ i \in todo /\ todo' = todo \ {i}
      /\ UNCHANGED <<union, subentries, group, reload, edits, faults>>
      /\ UNCHANGED <<named, respun, torn, unfound, foreign>>
  BY DEF SetUp, DeviceKey, dataVars, historyVars
<1> HIDE DEF r, row, k
<1>6. Owned(s)
  BY <1>3, <1>4, SetOwned
<1>7. Becomes(s)
  BY <1>5 DEF Becomes
<1>8. Owned(Registry)'
  BY <1>5, <1>6, <1>7, BecomesOwned
<1>9. \A j \in Sensors : rows'[j] = IF j = i THEN row ELSE r.rows[j]
  BY <1>4, <1>5 DEF Owned, Registries
<1>10. rows'[i] = row /\ \A j \in Sensors \ (foreign \cup {i}) : rows'[j] = rows[j]
  BY <1>4, <1>9
<1>11. links' = Linked(Registry, i, Home(i)).links /\ rows'[i].device = Home(i)
  BY <1>3, <1>5, <1>10 DEF r, k
<1>12. QED
  BY <1>1, <1>3, <1>5, <1>8, <1>10, <1>11

LEMMA SetUpInv ==
    ASSUME Inv, NEW i \in Sensors, SetUp(i)
    PROVE  Inv'
<1>1. TypeOK /\ Single /\ RowsKept /\ todo \subseteq subentries
  BY DEF Inv
<1>2. /\ Owned(Registry)'
      /\ rows'[i] \in Rows
      /\ rows[i] # None => rows'[i].name = rows[i].name
      /\ \A j \in Sensors \ (foreign \cup {i}) : rows'[j] = rows[j]
      /\ todo' = todo \ {i}
      /\ UNCHANGED <<union, subentries, group, reload, edits, faults>>
      /\ UNCHANGED <<named, respun, torn, unfound, foreign>>
  BY SetUpRows
<1>3. links' \in [Sensors -> SUBSET Sensors] /\ rows' \in [Sensors -> Rows \cup {None}]
  BY <1>2 DEF Owned, Registry, Registries
<1>4. TypeOK' /\ todo' \subseteq subentries'
  BY <1>1, <1>2, <1>3 DEF TypeOK
<1>5. Single'
  BY <1>1, <1>2 DEF Single, Near, Home
<1>6. RowsKept'
  <2> SUFFICES ASSUME NEW j \in named, j \notin respun, j \notin foreign
               PROVE  rows'[j] # None /\ rows'[j].name = "given"
    BY <1>2 DEF RowsKept
  <2>1. j \in Sensors /\ rows[j] # None /\ rows[j].name = "given"
    BY <1>1 DEF RowsKept, TypeOK
  <2>2. CASE j = i
    BY <1>2, <2>1, <2>2, DeviceMappingAssumption
  <2>3. CASE j # i
    BY <1>2, <2>1, <2>3
  <2>4. QED
    BY <2>2, <2>3
<1>7. QED
  BY <1>2, <1>4, <1>5, <1>6 DEF Inv

LEMMA StutterInv ==
    ASSUME Inv, UNCHANGED vars
    PROVE  Inv'
<1>1. /\ UNCHANGED <<union, subentries, group, links, rows, reload, todo, edits, faults>>
      /\ UNCHANGED <<named, respun, torn, unfound, foreign>>
  BY DEF vars, dataVars, registryVars, historyVars
<1>2. QED
  BY <1>1 DEF Inv, TypeOK, Owned, Registry, Single, Near, Home, RowsKept

-----------------------------------------------------------------------------
(* The theorems.                                                           *)

LEMMA Invariance == Spec => []Inv
<1>1. Inv /\ [Next]_vars => Inv'
  <2> SUFFICES ASSUME Inv, [Next]_vars
               PROVE  Inv'
    OBVIOUS
  <2>1. CASE UNCHANGED vars
    BY <2>1, StutterInv
  <2>2. CASE Reload
    BY <2>2, ReloadInv
  <2>3. ASSUME NEW i \in Sensors, NEW k \in Sensors \cup {None},
               Create(i, k) \/ Restore(i, k)
        PROVE  Inv'
    BY <2>3, CreateInv, RestoreInv
  <2>4. ASSUME NEW i \in Sensors, NEW k \in Sensors, Map(i, k) \/ MapRaises(i, k)
        PROVE  Inv'
    BY <2>4, MapInv, MapRaisesInv
  <2>5. ASSUME NEW i \in Sensors,
               Detach(i) \/ DetachRaises(i) \/ Edit(i) \/ Delete(i) \/ SetUp(i)
        PROVE  Inv'
    BY <2>5, DetachInv, DetachRaisesInv, EditInv, DeleteInv, SetUpInv
  <2>6. QED
    BY <2>1, <2>2, <2>3, <2>4, <2>5 DEF Next
<1>2. QED
  BY InitInv, <1>1, PTL DEF Spec

\* The types of the registries and of the data, at every step.
THEOREM MappingTypeCorrect == Spec => []TypeOK
<1>1. Inv => TypeOK
  BY DEF Inv
<1>2. QED
  BY Invariance, <1>1, PTL

\* Whatever the user edits and wherever an edit fails, every row is on a device that
\* is linked to its sensor (config_flow.py:893-895).
THEOREM EveryRowOwned == Spec => []RowsOwned
<1>1. Inv => RowsOwned
  BY DEF Inv, Owned, Registry, RowsOwned
<1>2. QED
  BY Invariance, <1>1, PTL

\* No edit of any sensor, and none that fails half way, deletes a row but a detachment
\* from the sensor's own device; nor does a reload, but of sensors that an import put on
\* one device which can have but one owner (config_flow.py:945-955).
THEOREM NoEditLosesRow == Spec => []RowsKept
<1>1. Inv => RowsKept
  BY DEF Inv
<1>2. QED
  BY Invariance, <1>1, PTL

-----------------------------------------------------------------------------
(* What a transaction leaves to the other sensors.                         *)

\* Another sensor keeps its row, where it is, and its links, but one that shares a
\* device which has one owner.
Spares(r, i) ==
    \A j \in Sensors \ (foreign \cup {i}) :
        /\ r.rows[j] = rows[j]
        /\ \A m \in Sensors : j \in r.links[m] <=> j \in links[m]

\* i is linked to k, and to what it was linked to but the device it has left.
Leaves(r, i, k) ==
    \A m \in Sensors : i \in r.links[m] =>
        m = k \/ (i \in links[m] /\ (m # rows[i].device \/ ~union))

LEMMA LinkedLinks ==
    ASSUME NEW r, NEW i \in Sensors, NEW k \in Sensors, Owned(r), union \/ Near(i, k)
    PROVE  \A j \in (Sensors \ foreign) \cup {i}, m \in Sensors :
             j \in Linked(r, i, k).links[m] <=> (j = i /\ m = k) \/ j \in r.links[m]
<1> DEFINE owners == IF union THEN r.links[k] \cup {i} ELSE {i}
<1>1. Linked(r, i, k).links = [r.links EXCEPT ![k] = owners]
  BY DEF Linked, Listened
<1>2. \A m \in Sensors : Linked(r, i, k).links[m] = IF m = k THEN owners ELSE r.links[m]
  BY <1>1 DEF Owned, Registries
<1>3. ~union => \A j \in Sensors \ foreign : j \in r.links[k] => j = i
  BY DEF Owned, Near
<1>4. SUFFICES ASSUME NEW j \in (Sensors \ foreign) \cup {i}, NEW m \in Sensors
               PROVE  j \in Linked(r, i, k).links[m] <=> (j = i /\ m = k) \/ j \in r.links[m]
  OBVIOUS
<1>5. CASE m = k
  BY <1>2, <1>3, <1>4, <1>5
<1>6. CASE m # k
  BY <1>2, <1>4, <1>6
<1>7. QED
  BY <1>5, <1>6

LEMMA UnlinkedLinks ==
    ASSUME NEW r, NEW i \in Sensors, NEW k \in Sensors, Owned(r)
    PROVE  \A j \in Sensors, m \in Sensors :
             j \in Unlinked(r, i, k).links[m] <=> j \in r.links[m] /\ ~(union /\ j = i /\ m = k)
<1>1. CASE ~union
  BY <1>1 DEF Unlinked
<1>2. CASE union
  <2>1. Unlinked(r, i, k).links = [r.links EXCEPT ![k] = @ \ {i}]
    BY <1>2 DEF Unlinked, Listened
  <2>2. \A m \in Sensors :
          Unlinked(r, i, k).links[m] = IF m = k THEN r.links[k] \ {i} ELSE r.links[m]
    BY <2>1 DEF Owned, Registries
  <2>3. QED
    BY <1>2, <2>2
<1>3. QED
  BY <1>1, <1>2

\* Both transactions: a link, a move, and the old link's removal.
LEMMA CallsSpare ==
    ASSUME NEW i \in Sensors, NEW k \in Sensors, TypeOK, Owned(Registry), NEW r1,
           Owned(r1), i \in r1.links[k],
           \A j \in (Sensors \ foreign) \cup {i} : r1.rows[j] = rows[j],
           \A j \in (Sensors \ foreign) \cup {i}, m \in Sensors :
             j \in r1.links[m] <=> (j = i /\ m = k) \/ j \in links[m],
           Found(i)
    PROVE  /\ Spares(Moved(r1, i, k), i)
           /\ rows[i].device = k => Leaves(Moved(r1, i, k), i, k)
           /\ Spares(Unlinked(Moved(r1, i, k), i, rows[i].device), i)
           /\ Leaves(Unlinked(Moved(r1, i, k), i, rows[i].device), i, k)
<1> DEFINE old == rows[i].device
           r2  == Moved(r1, i, k)
           r3  == Unlinked(r2, i, old)
<1>1. rows[i] # None /\ old \in Sensors /\ union \in BOOLEAN
  BY DEF Found, TypeOK, Rows
<1>2. /\ Owned(r2) /\ r2.links = r1.links
      /\ r2.rows[i] = [device |-> k, name |-> rows[i].name]
      /\ \A j \in Sensors \ {i} : r2.rows[j] = r1.rows[j]
  BY <1>1, MovedOwned
<1> HIDE DEF r2
<1>3. /\ \A j \in Sensors : r3.rows[j] = r2.rows[j] \/ j = i
      /\ \A j \in Sensors, m \in Sensors :
           j \in r3.links[m] <=> j \in r2.links[m] /\ ~(union /\ j = i /\ m = old)
  <2>1. \A j \in Sensors : r3.rows[j] = r2.rows[j] \/ j = i
    BY <1>1, <1>2, UnlinkedOwned
  <2>2. \A j \in Sensors, m \in Sensors :
          j \in r3.links[m] <=> j \in r2.links[m] /\ ~(union /\ j = i /\ m = old)
    BY <1>1, <1>2, UnlinkedLinks
  <2>3. QED
    BY <2>1, <2>2
<1> HIDE DEF r3
<1>4. Spares(r2, i) /\ Spares(r3, i)
  BY <1>2, <1>3 DEF Spares
<1>5. (old = k => Leaves(r2, i, k)) /\ Leaves(r3, i, k)
  BY <1>2, <1>3 DEF Leaves
<1>6. QED
  BY <1>4, <1>5 DEF r2, r3

LEMMA TargetMappingSpares ==
    ASSUME NEW i \in Sensors, NEW k \in Sensors, TypeOK, Owned(Registry),
           union \/ i \in links[k], union \/ Near(i, k)
    PROVE  /\ Len(TargetMapping(i, k)) \in Nat \ {0}
           /\ \A n \in 1 .. Len(TargetMapping(i, k)) : Spares(TargetMapping(i, k)[n], i)
           /\ Found(i) => Leaves(TargetMapping(i, k)[Len(TargetMapping(i, k))], i, k)
<1> DEFINE old == rows[i].device
           r1  == IF i \in links[k] THEN Registry ELSE Linked(Registry, i, k)
           r2  == Moved(r1, i, k)
           r3  == Unlinked(r2, i, old)
<1>1. union \in BOOLEAN /\ Registry.rows = rows /\ Registry.links = links
  BY DEF TypeOK, Registry
<1>2. Owned(r1) /\ r1.rows = rows /\ i \in r1.links[k]
  BY <1>1, LinkedOwned
<1>3. \A j \in (Sensors \ foreign) \cup {i}, m \in Sensors :
        j \in r1.links[m] <=> (j = i /\ m = k) \/ j \in links[m]
  BY <1>1, LinkedLinks
<1>4. Spares(r1, i)
  BY <1>2, <1>3 DEF Spares
<1> HIDE DEF r1
<1>5. CASE ~Found(i)
  <2>1. TargetMapping(i, k) = <<r1>>
    BY <1>5 DEF TargetMapping, r1
  <2>2. QED
    BY <1>4, <1>5, <2>1
<1>6. CASE Found(i)
  <2>1. /\ Spares(r2, i) /\ Spares(r3, i)
        /\ (old = k => Leaves(r2, i, k)) /\ Leaves(r3, i, k)
    BY <1>2, <1>3, <1>6, CallsSpare
  <2>2. TargetMapping(i, k) = IF old = k THEN <<r1, r2>> ELSE <<r1, r2, r3>>
    BY <1>6 DEF TargetMapping, r1
  <2> HIDE DEF r2, r3, old
  <2>3. CASE old = k
    BY <1>4, <2>1, <2>2, <2>3
  <2>4. CASE old # k
    BY <1>4, <2>1, <2>2, <2>4
  <2>5. QED
    BY <2>3, <2>4
<1>7. QED
  BY <1>5, <1>6

LEMMA DetachmentSpares ==
    ASSUME NEW i \in Sensors, TypeOK, Owned(Registry)
    PROVE  /\ Len(Detachment(i)) \in Nat \ {0}
           /\ \A n \in 1 .. Len(Detachment(i)) : Spares(Detachment(i)[n], i)
           /\ Found(i) => Leaves(Detachment(i)[Len(Detachment(i))], i, i)
<1> DEFINE old == rows[i].device
           r1  == Linked(Registry, i, i)
           r2  == Moved(r1, i, i)
           r3  == Unlinked(r2, i, old)
<1>1. union \in BOOLEAN /\ Registry.rows = rows /\ Registry.links = links
  BY DEF TypeOK, Registry
<1>2. /\ Owned(r1) /\ i \in r1.links[i] /\ Near(i, i)
      /\ \A j \in (Sensors \ foreign) \cup {i} : r1.rows[j] = rows[j]
  BY <1>1, LinkedOwned DEF Near
<1>3. \A j \in (Sensors \ foreign) \cup {i}, m \in Sensors :
        j \in r1.links[m] <=> (j = i /\ m = i) \/ j \in links[m]
  BY <1>1, <1>2, LinkedLinks
<1>4. Spares(r1, i)
  BY <1>2, <1>3 DEF Spares
<1> HIDE DEF r1
<1>5. CASE ~Found(i)
  <2>1. Detachment(i) = <<r1>>
    BY <1>5 DEF Detachment, r1
  <2>2. QED
    BY <1>4, <1>5, <2>1
<1>6. CASE Found(i)
  <2>1. Spares(r2, i) /\ Spares(r3, i) /\ Leaves(r3, i, i)
    BY <1>2, <1>3, <1>6, CallsSpare
  <2>2. Detachment(i) = <<r1, r2, r3>>
    BY <1>6 DEF Detachment, r1
  <2> HIDE DEF r2, r3
  <2>3. QED
    BY <1>4, <2>1, <2>2
<1>7. QED
  BY <1>5, <1>6

-----------------------------------------------------------------------------
(* Where sensors and links are.                                            *)

\* NoGhostDevice, while a reload is due too: linked only where its data says.
Clean ==
    \A k \in Sensors :
        links[k] \ (torn \cup unfound \cup foreign) \subseteq {i \in subentries : Home(i) = k}

LEMMA MovesClean ==
    ASSUME Inv, TypeOK', Clean, NEW i \in subentries, NEW k \in Sensors, NEW g, NEW r,
           union \/ Near(i, k), Becomes(r), Spares(r, i),
           UNCHANGED <<union, subentries, torn, foreign>>,
           group' = [group EXCEPT ![i] = g], k = (IF g = None THEN i ELSE g),
           unfound' = (IF Found(i) THEN unfound ELSE unfound \cup {i}),
           Found(i) => Leaves(r, i, k)
    PROVE  Clean'
<1>1. TypeOK /\ Owned(Registry) /\ i \in Sensors
  BY DEF Inv, TypeOK
<1>2. links' = r.links
  BY DEF Becomes
<1>3. Home(i)' = k /\ \A j \in Sensors \ {i} : Home(j)' = Home(j)
  BY <1>1 DEF Home, TypeOK
<1>4. SUFFICES ASSUME NEW m \in Sensors, NEW j \in links'[m], j \notin torn, j \notin unfound',
                      j \notin foreign
               PROVE  j \in subentries /\ Home(j)' = m
  BY DEF Clean
<1>5. j \in Sensors /\ j \notin unfound
  <2>1. links' \in [Sensors -> SUBSET Sensors]
    BY DEF TypeOK
  <2>2. QED
    BY <1>4, <2>1
<1>6. CASE j # i
  <2>1. j \in links[m]
    BY <1>2, <1>4, <1>5, <1>6 DEF Spares
  <2>2. j \in subentries /\ Home(j) = m
    BY <1>4, <1>5, <2>1 DEF Clean
  <2>3. QED
    BY <1>3, <1>5, <1>6, <2>2
<1>7. CASE j = i
  <2>1. Found(i) /\ Leaves(r, i, k)
    BY <1>4, <1>7
  <2>2. m = k \/ (i \in links[m] /\ (m # rows[i].device \/ ~union))
    BY <1>2, <1>4, <1>7, <2>1 DEF Leaves
  <2>3. CASE m = k
    BY <1>3, <1>7, <2>3
  <2>4. CASE i \in links[m] /\ m # rows[i].device
    <3>1. rows[i].device \in Sensors /\ i \in links[rows[i].device]
      BY <1>1, <2>1 DEF Found, Owned, Registry, TypeOK, Rows
    <3>2. Home(i) = m /\ Home(i) = rows[i].device
      BY <1>4, <1>5, <1>7, <2>4, <3>1 DEF Clean
    <3>3. QED
      BY <2>4, <3>2
  <2>5. CASE i \in links[m] /\ ~union
    <3>1. m = i /\ k = i
      BY <1>1, <1>4, <1>7, <2>5 DEF Owned, Registry, Near
    <3>2. QED
      BY <1>3, <1>7, <3>1
  <2>6. QED
    BY <2>2, <2>3, <2>4, <2>5
<1>8. QED
  BY <1>6, <1>7

\* A transaction that fails leaves the other sensors alone.
LEMMA RaisesSpares ==
    ASSUME NEW i \in Sensors, NEW calls, Raises(i, calls), Len(calls) \in Nat \ {0},
           \A n \in 1 .. Len(calls) : Spares(calls[n], i)
    PROVE  /\ \E r : Becomes(r) /\ Spares(r, i)
           /\ UNCHANGED <<union, subentries, group, reload, todo, unfound, foreign>>
           /\ torn' = torn \cup {i}
<1>1. PICK n \in 0 .. Len(calls) - 1 : Becomes(IF n = 0 THEN Registry ELSE calls[n])
  BY DEF Raises
<1>2. Spares(Registry, i)
  BY DEF Spares, Registry
<1>3. CASE n = 0
  BY <1>1, <1>2, <1>3 DEF Raises, UserActs, dataVars
<1>4. CASE n # 0
  <2>1. n \in 1 .. Len(calls) /\ Becomes(calls[n])
    BY <1>1, <1>4
  <2>2. QED
    BY <2>1 DEF Raises, UserActs, dataVars
<1>5. QED
  BY <1>3, <1>4

LEMMA FailedSpares ==
    ASSUME Inv, NEW i \in Sensors, NEW k \in Sensors, MapRaises(i, k) \/ DetachRaises(i)
    PROVE  /\ \E r : Becomes(r) /\ Spares(r, i)
           /\ UNCHANGED <<union, subentries, group, reload, todo, unfound, foreign>>
           /\ torn' = torn \cup {i}
<1>1. TypeOK /\ Owned(Registry)
  BY DEF Inv
<1>2. CASE MapRaises(i, k)
  <2>1. (union \/ i \in links[k]) /\ (union \/ Near(i, k)) /\ Raises(i, TargetMapping(i, k))
    BY <1>2, AllowedMap DEF MapRaises
  <2>2. /\ Len(TargetMapping(i, k)) \in Nat \ {0}
        /\ \A n \in 1 .. Len(TargetMapping(i, k)) : Spares(TargetMapping(i, k)[n], i)
    BY <1>1, <2>1, TargetMappingSpares
  <2>3. QED
    BY <2>1, <2>2, RaisesSpares
<1>3. CASE DetachRaises(i)
  <2>1. Raises(i, Detachment(i))
    BY <1>3 DEF DetachRaises
  <2>2. /\ Len(Detachment(i)) \in Nat \ {0}
        /\ \A n \in 1 .. Len(Detachment(i)) : Spares(Detachment(i)[n], i)
    BY <1>1, DetachmentSpares
  <2>3. QED
    BY <2>1, <2>2, RaisesSpares
<1>4. QED
  BY <1>2, <1>3

\* A sensor that is set up is on the device its data names.
Placed ==
    ~reload => \A j \in subentries \ (todo \cup torn \cup foreign) :
                 rows[j] # None /\ rows[j].device = Home(j)

\* While a reload is due Placed asks nothing; the reload sees to it sensor by sensor,
\* and an edit that fails moves no other sensor.
LEMMA PlacedStep == Inv /\ Inv' /\ Placed /\ [Next]_vars => Placed'
<1>1. SUFFICES ASSUME Inv, Inv', Placed, [Next]_vars, ~reload', NEW j \in subentries',
                      j \notin todo', j \notin torn', j \notin foreign'
               PROVE  rows'[j] # None /\ rows'[j].device = Home(j)'
  BY DEF Placed
<1>2. j \in Sensors
  BY <1>1 DEF Inv, TypeOK
<1>3. ASSUME NEW i \in Sensors, SetUp(i)
      PROVE  rows'[j] # None /\ rows'[j].device = Home(j)'
  <2>1. /\ rows'[i] \in Rows /\ rows'[i].device = Home(i)
        /\ \A m \in Sensors \ (foreign \cup {i}) : rows'[m] = rows[m]
        /\ todo' = todo \ {i}
        /\ UNCHANGED <<subentries, group, reload, torn, foreign>>
    BY <1>1, <1>3, SetUpRows
  <2>2. Home(j)' = Home(j)
    BY <2>1 DEF Home
  <2>3. CASE j = i
    BY <2>1, <2>2, <2>3, DeviceMappingAssumption
  <2>4. CASE j # i
    BY <1>1, <1>2, <2>1, <2>2, <2>4 DEF Placed
  <2>5. QED
    BY <2>3, <2>4
<1>4. ASSUME NEW i \in Sensors, NEW k \in Sensors, MapRaises(i, k) \/ DetachRaises(i)
      PROVE  rows'[j] # None /\ rows'[j].device = Home(j)'
  <2>1. PICK r : Becomes(r) /\ Spares(r, i)
    BY <1>1, <1>4, FailedSpares
  <2>2. UNCHANGED <<subentries, group, reload, todo, foreign>> /\ torn' = torn \cup {i}
    BY <1>1, <1>4, FailedSpares
  <2>3. /\ j # i /\ j \in subentries /\ ~reload
        /\ j \notin todo /\ j \notin torn /\ j \notin foreign
    BY <1>1, <2>2
  <2>4. rows'[j] = rows[j]
    BY <1>2, <2>1, <2>3 DEF Becomes, Spares
  <2>5. QED
    BY <1>1, <2>2, <2>3, <2>4 DEF Placed, Home
<1>5. CASE Reload
  <2>1. todo' = subentries'
    BY <1>5 DEF Reload, dataVars
  <2>2. QED
    BY <1>1, <2>1
<1>6. CASE UNCHANGED vars
  <2>1. UNCHANGED <<subentries, group, rows, reload, todo, torn, foreign>>
    BY <1>6 DEF vars, dataVars, registryVars, historyVars
  <2>2. QED
    BY <1>1, <2>1 DEF Placed, Home
<1>7. ASSUME NEW i \in Sensors, NEW k \in Sensors \cup {None},
             \/ Create(i, k) \/ Restore(i, k) \/ Detach(i) \/ Edit(i) \/ Delete(i)
             \/ Map(i, k)
      PROVE  FALSE
  BY <1>1, <1>7 DEF Create, Restore, Detach, Edit, Delete, Map
<1>8. QED
  BY <1>1, <1>3, <1>4, <1>5, <1>6, <1>7 DEF Next

LEMMA CleanStep == Inv /\ Inv' /\ Clean /\ [Next]_vars => Clean'
<1>1. SUFFICES ASSUME Inv, Inv', Clean, [Next]_vars PROVE Clean'
  OBVIOUS
<1>2. TypeOK /\ TypeOK' /\ Owned(Registry)
  BY <1>1 DEF Inv
<1>3. ASSUME NEW i \in Sensors, NEW k \in Sensors, Map(i, k) PROVE Clean'
  <2> DEFINE calls == TargetMapping(i, k)
             r == calls[Len(calls)]
  <2>1. (union \/ i \in links[k]) /\ (union \/ Near(i, k))
    BY <1>1, <1>3, AllowedMap DEF Map
  <2>2. Spares(r, i) /\ (Found(i) => Leaves(r, i, k))
    BY <1>2, <2>1, TargetMappingSpares
  <2>3. Becomes(r)
    BY <1>3 DEF Map
  <2> HIDE DEF r, calls
  <2>4. /\ i \in subentries
        /\ UNCHANGED <<union, subentries, torn, foreign>>
        /\ unfound' = (IF Found(i) THEN unfound ELSE unfound \cup {i})
    BY <1>3 DEF Map
  <2>5. group' = [group EXCEPT ![i] = k] /\ k = (IF k = None THEN i ELSE k)
    BY <1>3, DeviceMappingAssumption DEF Map, NormalizedGroup
  <2>6. QED
    BY <1>1, <1>2, <2>1, <2>2, <2>3, <2>4, <2>5, MovesClean
<1>4. ASSUME NEW i \in Sensors, Detach(i) PROVE Clean'
  <2> DEFINE calls == Detachment(i)
             r == calls[Len(calls)]
  <2>1. Spares(r, i) /\ (Found(i) => Leaves(r, i, i))
    BY <1>2, DetachmentSpares
  <2>2. Becomes(r)
    BY <1>4 DEF Detach
  <2> HIDE DEF r, calls
  <2>3. /\ i \in subentries
        /\ UNCHANGED <<union, subentries, torn, foreign>>
        /\ unfound' = (IF Found(i) THEN unfound ELSE unfound \cup {i})
    BY <1>4 DEF Detach
  <2>4. group' = [group EXCEPT ![i] = None] /\ i = (IF None = None THEN i ELSE None) /\ Near(i, i)
    BY <1>4 DEF Detach, NormalizedGroup, Near
  <2>5. QED
    BY <1>1, <1>2, <2>1, <2>2, <2>3, <2>4, MovesClean
<1>5. ASSUME NEW i \in Sensors, NEW k \in Sensors, MapRaises(i, k) \/ DetachRaises(i)
      PROVE  Clean'
  <2>1. PICK r : Becomes(r) /\ Spares(r, i)
    BY <1>1, <1>5, FailedSpares
  <2>2. UNCHANGED <<subentries, group, unfound, foreign>> /\ torn' = torn \cup {i}
    BY <1>1, <1>5, FailedSpares
  <2>3. ASSUME NEW m \in Sensors, NEW j \in links'[m], j \notin torn', j \notin unfound',
               j \notin foreign
        PROVE  j \in subentries /\ Home(j) = m
    <3>1. j \in Sensors /\ j # i /\ j \notin torn /\ j \notin unfound /\ j \notin foreign
      BY <1>2, <2>2, <2>3 DEF TypeOK
    <3>2. j \in links[m]
      BY <2>1, <2>3, <3>1 DEF Becomes, Spares
    <3>3. QED
      BY <1>1, <3>1, <3>2 DEF Clean
  <2>4. QED
    BY <2>2, <2>3 DEF Clean, Home
<1>6. ASSUME NEW i \in Sensors, NEW k \in Sensors \cup {None}, Create(i, k) \/ Restore(i, k)
      PROVE  Clean'
  <2>1. /\ i \notin subentries /\ subentries' = subentries \cup {i}
        /\ UNCHANGED <<links, torn, unfound>> /\ foreign \subseteq foreign'
    BY <1>6 DEF Create, Restore, registryVars, historyVars
  <2>2. \A j \in Sensors \ {i} : group'[j] = group[j]
    BY <1>2, <1>6 DEF Create, Restore, TypeOK
  <2>3. ASSUME NEW m \in Sensors, NEW j \in links[m], j \notin torn, j \notin unfound,
               j \notin foreign
        PROVE  j \in subentries' /\ Home(j)' = m
    <3>1. j \in subentries /\ Home(j) = m /\ j \in Sensors
      BY <1>1, <1>2, <2>3 DEF Clean, TypeOK
    <3>2. j # i
      BY <2>1, <3>1
    <3>3. QED
      BY <2>1, <2>2, <3>1, <3>2 DEF Home
  <2>4. QED
    BY <2>1, <2>3 DEF Clean
<1>7. ASSUME NEW i \in Sensors, Edit(i) PROVE Clean'
  <2>1. UNCHANGED <<subentries, group, links, torn, unfound, foreign>>
    BY <1>2, <1>7 DEF Edit, NormalizedGroup, TypeOK, registryVars, historyVars
  <2>2. QED
    BY <1>1, <2>1 DEF Clean, Home
<1>8. ASSUME NEW i \in Sensors, Delete(i) PROVE Clean'
  <2>1. /\ subentries' = subentries \ {i}
        /\ \A m \in Sensors : links'[m] = links[m] \ {i}
        /\ \A j \in Sensors \ {i} : group'[j] = group[j]
        /\ UNCHANGED <<torn, unfound, foreign>>
    BY <1>2, <1>8 DEF Delete, TypeOK
  <2>2. ASSUME NEW m \in Sensors, NEW j \in links'[m], j \notin torn, j \notin unfound,
               j \notin foreign
        PROVE  j \in subentries' /\ Home(j)' = m
    <3>1. j \in links[m] /\ j # i /\ j \in Sensors
      BY <1>2, <2>1, <2>2 DEF TypeOK
    <3>2. j \in subentries /\ Home(j) = m
      BY <1>1, <2>2, <3>1 DEF Clean
    <3>3. QED
      BY <2>1, <3>1, <3>2 DEF Home
  <2>3. QED
    BY <2>1, <2>2 DEF Clean
<1>9. ASSUME NEW i \in Sensors, SetUp(i) PROVE Clean'
  <2>1. /\ links' = Linked(Registry, i, Home(i)).links /\ i \in subentries
        /\ UNCHANGED <<subentries, group, torn, unfound, foreign>>
    BY <1>1, <1>9, SetUpRows
  <2>2. Home(i) \in Sensors /\ (union \/ Near(i, Home(i)))
    BY <1>1 DEF Inv, Single, Home, TypeOK
  <2>3. \A j \in (Sensors \ foreign) \cup {i}, m \in Sensors :
          j \in links'[m] <=> (j = i /\ m = Home(i)) \/ j \in links[m]
    BY <1>2, <2>1, <2>2, LinkedLinks DEF Registry
  <2>4. ASSUME NEW m \in Sensors, NEW j \in links'[m], j \notin torn, j \notin unfound,
               j \notin foreign
        PROVE  j \in subentries /\ Home(j) = m
    <3>1. j \in Sensors
      BY <1>2, <2>4 DEF TypeOK
    <3>2. (j = i /\ m = Home(i)) \/ j \in links[m]
      BY <2>3, <2>4, <3>1
    <3>3. QED
      BY <1>1, <2>1, <2>4, <3>2 DEF Clean
  <2>5. QED
    BY <2>1, <2>4 DEF Clean, Home
<1>10. CASE UNCHANGED vars
  <2>1. UNCHANGED <<subentries, group, links, torn, unfound, foreign>>
    BY <1>10 DEF vars, dataVars, registryVars, historyVars
  <2>2. QED
    BY <1>1, <2>1 DEF Clean, Home
<1>11. CASE Reload
  <2>1. UNCHANGED <<subentries, group, links, torn, unfound, foreign>>
    BY <1>11 DEF Reload, dataVars, registryVars, historyVars
  <2>2. QED
    BY <1>1, <2>1 DEF Clean, Home
<1>12. QED
  BY <1>1, <1>3, <1>4, <1>5, <1>6, <1>7, <1>8, <1>9, <1>10, <1>11 DEF Next

\* Whatever moves came before, a reload leaves every sensor on the device its data
\* names, and a failed edit disturbs no other sensor (config_flow.py:758-766).
THEOREM EverySensorInPlace == Spec => []InPlace
<1>1. Init => Placed
  <2>1. SUFFICES ASSUME Init, NEW i \in subentries
                 PROVE  rows[i] # None /\ rows[i].device = Home(i)
    BY DEF Placed
  <2>2. i \in Sensors /\ [device |-> i, name |-> "given"] \in Rows
    BY <2>1 DEF Init, Rows, Names
  <2>3. rows[i] = [device |-> i, name |-> "given"] /\ Home(i) = i
    BY <2>1, <2>2 DEF Init, Home
  <2>4. QED
    BY <2>2, <2>3, DeviceMappingAssumption
<1>2. Inv /\ Inv' /\ Placed /\ [Next]_vars => Placed'
  BY PlacedStep
<1>3. Placed => InPlace
  BY DEF Placed, InPlace
<1>4. QED
  BY Invariance, <1>1, <1>2, <1>3, PTL DEF Spec

\* No sensor leaves a device behind that it is linked to but not on
\* (config_flow.py:1102-1122).
THEOREM NoGhostLeft == Spec => []NoGhostDevice
<1>1. Init => Clean
  BY DEF Init, Clean, Home
<1>2. Inv /\ Inv' /\ Clean /\ [Next]_vars => Clean'
  BY CleanStep
<1>3. Clean => NoGhostDevice
  BY DEF Clean, NoGhostDevice
<1>4. QED
  BY Invariance, <1>1, <1>2, <1>3, PTL DEF Spec
=============================================================================
