------------------------------ MODULE Migration ------------------------------
(***************************************************************************)
(* What the conversion of an old installation promises for each sensor,    *)
(* whatever starts it takes and wherever they fail: its configuration goes *)
(* from an entry of its own to a subentry of the root and is never in      *)
(* neither, unless the user deletes it; the registry row that carries what *)
(* the user made of it goes along, and is left behind by no step; and only *)
(* the user, between two starts, switches a row on or off.                 *)
(* Module Reconcile implements this one.                                   *)
(***************************************************************************)
CONSTANT
    Sensors

VARIABLES
    home,  \* the places where each sensor's configuration stands
    row,   \* its registry row: where it is, its name, whether it is disabled
    busy   \* a start of the domain is under way

migrationVars == <<home, row, busy>>

Places == {"entry", "root"}

\* The rows of an old installation have all that the user gave them.
OldRows == [at : {"entry"}, name : {"given"}, off : BOOLEAN]

NoRow == [at |-> "nowhere", name |-> "default", off |-> FALSE]

AtRoot(r) == IF r.at = "nowhere" THEN r ELSE [r EXCEPT !.at = "root"]

MigrationInit ==
    /\ home = [i \in Sensors |-> {"entry"}]
    /\ row \in [Sensors -> OldRows \cup {NoRow}]
    /\ busy = TRUE

\* The sensor stands in both places while it moves.
Copy(i) ==
    /\ busy
    /\ home[i] = {"entry"}
    /\ home' = [home EXCEPT ![i] = Places]
    /\ UNCHANGED <<row, busy>>

MoveRow(i) ==
    /\ busy
    /\ home[i] = Places
    /\ row[i].at = "entry"
    /\ row' = [row EXCEPT ![i] = AtRoot(@)]
    /\ UNCHANGED <<home, busy>>

\* The old entry goes when the row has gone ahead.
Leave(i) ==
    /\ busy
    /\ home[i] = Places
    /\ row[i].at # "entry"
    /\ home' = [home EXCEPT ![i] = {"root"}]
    /\ UNCHANGED <<row, busy>>

\* The entry of one sensor becomes the root: all it has is there at once.
Promote(i) ==
    /\ busy
    /\ home[i] = {"entry"}
    /\ home' = [home EXCEPT ![i] = {"root"}]
    /\ row' = [row EXCEPT ![i] = AtRoot(@)]
    /\ UNCHANGED busy

\* Sensors under the root are set up: their rows are found, or made.
SetUp(S) ==
    /\ busy
    /\ \A i \in S : "root" \in home[i]
    /\ row' = [i \in Sensors |->
                 IF i \notin S THEN row[i]
                 ELSE IF row[i].at = "nowhere" THEN [at |-> "root", name |-> "default", off |-> FALSE]
                 ELSE AtRoot(row[i])]
    /\ busy' = FALSE
    /\ UNCHANGED home

\* A start ends without a root to set up, or another one begins.
StartOrStop ==
    /\ busy' = ~busy
    /\ UNCHANGED <<home, row>>

\* The user switches sensors on and off; the integration may have to be set up.
Switch(off) ==
    /\ ~busy
    /\ row' = [i \in Sensors |-> IF row[i].at = "nowhere" THEN row[i] ELSE [row[i] EXCEPT !.off = off[i]]]
    /\ busy' \in BOOLEAN
    /\ UNCHANGED home

\* The user deletes a sensor of the root, and the row that is there.
Delete(i) ==
    /\ ~busy
    /\ "root" \in home[i]
    /\ home' = [home EXCEPT ![i] = @ \ {"root"}]
    /\ row' = [row EXCEPT ![i] = IF @.at = "root" THEN NoRow ELSE @]
    /\ UNCHANGED busy

MigrationNext ==
    \/ \E i \in Sensors : Copy(i) \/ MoveRow(i) \/ Leave(i) \/ Promote(i) \/ Delete(i)
    \/ \E S \in SUBSET Sensors : SetUp(S)
    \/ StartOrStop
    \/ \E off \in [Sensors -> BOOLEAN] : Switch(off)

MigrationSpec == MigrationInit /\ [][MigrationNext]_migrationVars
=============================================================================
