----------------------------- MODULE EnergySum -----------------------------
(***************************************************************************)
(* The sensor that sums the readings of a power source into an energy      *)
(* total (sensor.py, RiemannEnergySensor): one entity that listens to the  *)
(* coordinator, whose refreshes may fail, that is removed and added again  *)
(* at every reload of the entry, and whose total survives in the restore   *)
(* store of Home Assistant, rounded to what was last published.            *)
(*                                                                         *)
(* Energy is counted in watt x tick.  The clock is the wall clock, which   *)
(* is corrected now and then: dt_util.utcnow knows no other.               *)
(***************************************************************************)
EXTENDS Integers

CONSTANTS
    None,       \* no reading
    Powers,     \* readings of the power source, in watt
    Low, High,  \* bounds of these readings
    Grain,      \* the step of the published total: four decimals of a kWh
    Jumps,      \* corrections of the clock
    MaxTicks,   \* bound on the time that passes
    MaxEvents   \* bound on reloads, restarts and corrections

ASSUME EnergySumAssumption ==
    /\ None \notin Int
    /\ Low \in Int /\ High \in Nat
    /\ Powers \subseteq Low..High
    /\ Grain \in Nat \ {0}
    /\ Jumps \subseteq Int
    /\ MaxTicks \in Nat /\ MaxEvents \in Nat

VARIABLES
    clock,               \* dt_util.utcnow()
    data,                \* coordinator.data of the subentry
    last_update_success, \* of the coordinator
    added,               \* the entity is there
    energy,              \* _energy
    last_time,           \* _last_time
    stored,              \* the state HA restores the entity from
    disk,                \* the same as it is on disk
    ticks, events,       \* what has passed and happened so far
    \* History, read by the properties only.
    lived,               \* how long the entity was there, by its clock
    restores,            \* how often it was added
    dropped,             \* time of it that is not to count: ended by a refresh
                         \* without a reading, or not summed when it was removed
    lossless             \* there was no crash, and no correction backwards

hassVars == <<added, energy, last_time, stored, disk, restores>>
vars == <<clock, data, last_update_success, hassVars, ticks, events,
          lived, dropped, lossless>>

Readings == Powers \cup {None}

-----------------------------------------------------------------------------
\* Mutant: an interval is not checked for its direction.
IntegratedSigned(total, power, elapsed) ==
    IF power = None THEN total ELSE total + power * elapsed

\* _integrate_energy.
Integrated(total, power, elapsed) ==
    IF power = None \/ elapsed <= 0 THEN total ELSE total + power * elapsed

\* native_value: the total, rounded.
Published(total) == Grain * ((2 * total + Grain) \div (2 * Grain))

\* Mutant: a store without a value is taken as one.
RestoredUnchecked == stored

\* async_added_to_hass: the total the entity starts with.
Restored == IF stored = None THEN 0 ELSE stored

\* Time the entity was there and has not summed yet.
Pending == IF added /\ clock > last_time THEN clock - last_time ELSE 0

\* Mutant: the time of a missing reading is left for the next one.
HandleKeepingTime(power) ==
    IF added
    THEN /\ energy' = Integrated(energy, power, clock - last_time)
         /\ last_time' = IF power = None THEN last_time ELSE clock
         /\ dropped' = dropped + (IF power = None THEN Pending ELSE 0)
         /\ UNCHANGED <<added, stored, disk, restores>>
    ELSE UNCHANGED <<hassVars, dropped>>

\* _handle_coordinator_update of an entity that is there.
HandleCoordinatorUpdate(power) ==
    IF added
    THEN /\ energy' = Integrated(energy, power, clock - last_time)
         /\ last_time' = clock
         /\ dropped' = dropped + (IF power = None THEN Pending ELSE 0)
         /\ UNCHANGED <<added, stored, disk, restores>>
    ELSE UNCHANGED <<hassVars, dropped>>

Happens ==
    /\ events < MaxEvents
    /\ events' = events + 1

-----------------------------------------------------------------------------
Init ==
    /\ clock = 0
    /\ data = None
    /\ last_update_success = TRUE
    /\ added = FALSE
    /\ energy = 0
    /\ last_time = 0
    /\ stored = None
    /\ disk = None
    /\ ticks = 0
    /\ events = 0
    /\ lived = 0
    /\ restores = 0
    /\ dropped = 0
    /\ lossless = TRUE

Tick ==
    /\ ticks < MaxTicks
    /\ ticks' = ticks + 1
    /\ clock' = clock + 1
    /\ lived' = lived + (IF added THEN 1 ELSE 0)
    /\ UNCHANGED <<data, last_update_success, hassVars, events, dropped, lossless>>

\* The wall clock is set forward or back.
SetClock ==
    \E jump \in Jumps :
        /\ Happens
        /\ clock' = clock + jump
        /\ lived' = lived + (IF added /\ jump > 0 THEN jump ELSE 0)
        /\ lossless' = (lossless /\ (added => jump >= 0))
        /\ UNCHANGED <<data, last_update_success, hassVars, ticks, dropped>>

\* A refresh of the coordinator that succeeds tells every listener.
RefreshSucceeds ==
    \E power \in Readings :
        /\ data' = power
        /\ last_update_success' = TRUE
        /\ HandleCoordinatorUpdate(power)
        /\ UNCHANGED <<clock, ticks, events, lived, lossless>>

\* One that fails keeps the data; the first in a row tells the listeners.
RefreshFails ==
    /\ last_update_success' = FALSE
    /\ IF last_update_success THEN HandleCoordinatorUpdate(data)
                              ELSE UNCHANGED <<hassVars, dropped>>
    /\ UNCHANGED <<clock, data, ticks, events, lived, lossless>>

\* The platform is set up, on the coordinator of before or on a new one that has
\* been refreshed: the entity is added and takes up the restored total.
AddEntity ==
    /\ ~added
    /\ added' = TRUE
    /\ energy' = Restored
    /\ last_time' = clock
    /\ restores' = restores + 1
    /\ \/ UNCHANGED <<data, last_update_success>>
       \/ data' \in Readings /\ last_update_success' = TRUE
    /\ UNCHANGED <<clock, stored, disk, ticks, events, lived, dropped, lossless>>

\* The platform is unloaded: HA keeps what the entity published last.
RemoveEntity ==
    /\ Happens
    /\ added
    /\ added' = FALSE
    /\ stored' = Published(energy)
    /\ dropped' = dropped + Pending
    /\ UNCHANGED <<clock, data, last_update_success, energy, last_time, disk, ticks,
                   lived, restores, lossless>>

\* HA writes the restore store every 15 minutes.
Kept == IF added THEN Published(energy) ELSE stored

DumpStates ==
    /\ disk' = Kept
    /\ UNCHANGED <<clock, data, last_update_success, added, energy, last_time, stored,
                   ticks, events, lived, restores, dropped, lossless>>

\* HA goes down and up again.  It writes the store first unless it crashes.
Restart(clean) ==
    /\ Happens
    /\ disk' = IF clean THEN Kept ELSE disk
    /\ stored' = disk'
    /\ added' = FALSE
    /\ data' = None
    /\ last_update_success' = TRUE
    /\ dropped' = dropped + Pending
    /\ lossless' = (lossless /\ clean)
    /\ UNCHANGED <<clock, energy, last_time, ticks, lived, restores>>

Next ==
    \/ Tick
    \/ SetClock
    \/ RefreshSucceeds
    \/ RefreshFails
    \/ AddEntity
    \/ RemoveEntity
    \/ DumpStates
    \/ \E clean \in BOOLEAN : Restart(clean)

Spec == Init /\ [][Next]_vars

-----------------------------------------------------------------------------
(* Properties.                                                             *)

Totals == Int \cup {None}

TypeOK ==
    /\ clock \in Int
    /\ data \in Readings
    /\ last_update_success \in BOOLEAN
    /\ added \in BOOLEAN
    /\ energy \in Int
    /\ last_time \in Int
    /\ stored \in Totals
    /\ disk \in Totals
    /\ ticks \in Nat
    /\ events \in Nat
    /\ lived \in Nat
    /\ restores \in Nat
    /\ dropped \in Nat
    /\ lossless \in BOOLEAN

\* Time that counts and has been summed.
Counted == lived - dropped - Pending

\* The total the user sees, or would if the entity were added.
Total == IF Kept = None THEN 0 ELSE Kept

\* No moment is counted twice, none while the entity is away and none that ended
\* without a reading, not even by the next one: over any sequence of failed
\* refreshes, reloads, restarts, crashes and clock corrections the total is at
\* most the highest power over the time that counts.  And none is forgotten: with
\* no crash and no correction backwards, it is at least the lowest power over
\* that time.  Every removal is off by half a rounding step at most.
EveryMomentOnce ==
    /\ 2 * Total <= 2 * (High * Counted) + Grain * (restores + 1)
    /\ lossless => 2 * Total >= 2 * (Low * Counted) - Grain * (restores + 1)

\* "restored across restarts so the long-term energy total is not reset on every
\* reload" (sensor.py:228-234): with a source that does not go negative the
\* total never falls, however reloads, failures and clock corrections fall; only
\* a crash takes it back, to what was written last.
TotalNeverFalls ==
    [][Low >= 0 => Total' >= Total \/ (~added' /\ stored' = disk)]_vars
=============================================================================
