# AbstrHActor: specification, model checking and proofs

AbstrHActor is a Home Assistant (HA) integration. Its user groups raw entities
("two strings of solar panels, one meter") into stable *abstract* sensors: the
sensor keeps its identity, its value passes through a filter pipeline, and the
raw entity behind it can be replaced. All sensors are subentries of **one root
config entry**; one coordinator polls them; a snapshot of the last readings
carries the spike guard over reloads.

This directory holds TLA+ modules for the parts where the order of events
decides, TLC configurations that check them on small instances, and TLAPS
proofs that hold for all instances.

| file | what it is |
|---|---|
| `SpikeGuard.tla` | the guard at the end of the pipeline; shared by the two models below |
| `FilterPipeline.tla` | `filters.py` as pure operators |
| `SensorPoll.tla` | one numeric sensor, poll after poll: pipeline, metadata, notifications |
| `Lifecycle.tla` | the root entry, its coordinator, reloads, failures, restarts, snapshot, services |
| `SensorService.tla` | the abstract promise `Lifecycle` implements |
| `Migration.tla` | the abstract promise `Reconcile` implements |
| `Reconcile.tla` | the conversion of an old installation at a start: entries into subentries, registry rows moved |
| `DeviceMapping.tla` | which device a sensor is on: edits of the data and of the registries |
| `EnergySum.tla` | the sensor that sums a power reading into energy, over reloads, restarts and clock corrections |
| `PanelClient.tla` | the panel against the websocket commands: subscription, fetches, writes, lost connections |
| `NamingTemplates.tla` | reading, inheriting and rendering naming templates |
| `…Proofs.tla` (of `SensorPoll`, `Lifecycle`, `Reconcile`, `DeviceMapping`, `EnergySum`, `PanelClient`, `NamingTemplates`), `PanelListenerProofs.tla` | theorems and their proofs |
| `MCSensorPoll.tla`, `MCLifecycle.tla`, `MCEnergySum.tla`, `MCNamingTemplates.tla` | values of the constants for TLC |
| `*.cfg` | one per run, named like the run |
| `PROJECT.json` | components, runs, mutants, map from definitions to source lines, findings, hazards |

Paths below are relative to `src/custom_components/abstractor/` unless they
start with `src/`.

## 1. Inventory

### Components

| component | state | operations | what makes it correct |
|---|---|---|---|
| **Filter pipeline** (`filters.py`) | `_last_valid_state`, `last_event` per sensor | `process`, `process_sources` | fails closed or soft by type; dead sources never win; with the spike filter on, readings never drop |
| **Coordinator** (`coordinator.py`) | `subentry_data`, `pipelines`, `data`, `meta`, `source_states`, `_last_notified_events` | add/remove subentry, set options, one poll over all sensors | polls exactly what the entry says; one failing part does not take others down |
| **Root entry** (`__init__.py`) | subentries and options (disk), load state, update listener, `hass.data[DOMAIN]` | setup, unload, reload, retry | no write lost; parts come and go together; survives failed setups and restarts |
| **Snapshot and services** (`snapshot.py`, `__init__.py` 617-820) | the Store, `stored_snapshot` | save, export, import, delete | the guard's memory survives; the file describes the sensors there are |
| **Conversion of legacy entries** (`__init__.py` 96-403) | one entry per sensor → subentries of one root; entity and device registry rows | pick a root, promote, attach, adopt rows, remove | nothing lost or duplicated, resumable after a failure anywhere |
| **InfluxDB exporter** (`influx_exporter.py`) | none; one HTTP request per value | `async_push` | never delays or breaks the readings |
| **Websocket API** (`websocket.py`) | one listener per open panel | list, create, update, delete, rename, options, subscribe | the panel sees what the coordinator has |
| **Flows and device mapping** (`config_flow.py`) | entity and device registry rows | create, reconfigure, group, detach | an entity is on one device, unused devices go |
| **Sensor platform** (`sensor.py`) | energy total and last sample of the Riemann sum | update, restore | every interval counted once |
| **Actuator and pass-through platforms** (`_actuator.py`, `switch.py`, `light.py`, `cover.py`, `binary_sensor.py`) | none of their own | forward a call, mirror a state | – |
| **Panel front end** (`src/frontend/src/`) | list, selection, pending requests | fetch, subscribe, edit | shows the latest list whatever order the answers come in |
| **Naming templates** (`naming_template.py`, `naming.py`) | the templates of a directory, resolved once per setup | read, check, inherit, render | one template is the same whatever files are beside it; no template blocks a setup |
| **Specs, constants, diagnostics, scripts** | none | pure functions and tables | – |

### Interactions

The user edits the entry through the config flow, the panel's websocket
commands or the services. Every edit makes HA call the entry's update listener
`_async_options_updated` (`__init__.py:593`), which reloads the entry under
HA's setup lock. An unload takes the entry's sensors out of the coordinator
(`__init__.py:539`); if none is left it saves a snapshot and shuts the
coordinator, services and panel down. The setup that follows loads the
snapshot, finds or creates the coordinator, prunes and adds sensors, awaits a
first refresh if the coordinator is new, forwards to the platforms, and saves
the snapshot again. Meanwhile the coordinator's timer starts polls. The poll
loop iterates over the very dict that setup and unload change, and suspends in
every InfluxDB push.

### What is hard

Everything runs on one event loop, so only the `await`s that can suspend are
points of interference. The hard behaviours (all listed with their line in
`PROJECT.json`, `hazards`):

* a write that arrives while a reload is between its unload and its setup;
* a poll in flight, suspended in a push, while the dict it iterates over changes;
* a coordinator that is reused by the next setup, and one that is not;
* a setup whose first refresh fails and that is retried;
* the guard's memory: three copies of "the last reading" (pipeline, snapshot in
  memory, Store), taken at different times;
* disabling, enabling and restarting in the middle of all this;
* outages and fallbacks in any order in front of a guard that must never drop;
* the conversion of legacy entries with a failure between two steps, over
  registries that delete rows on their own;
* edits that move a sensor between devices, call by call, any of which may raise,
  over the same registries and over two ownership models;
* an energy total that lives in three places (entity, restore store, disk) and is
  computed from a wall clock that may be set back, over outages and reloads;
* a panel whose answers, events and own writes come in several orders, several in
  one task of the browser, over a connection that may be lost, from a coordinator
  that may be replaced;
* templates that extend each other in cycles and chains, resolved by a recursion
  that remembers.

## 2. Modules and code

### FilterPipeline, SpikeGuard

The pipeline as operators. A raw state is an integer, or one of `Unavailable`,
`NonNumeric`, `NonFinite`. `Visited` is the set of the positions of the sources
the loop hands to `process()`: up to the first that fails closed in `sum`, only the
parseable ones in the other modes. Positions give the order: `first_available`
takes the least, and `last_event` is that of the greatest, and is not reset when
none is visited (`filters.py:130-141`).
`ProcessSources` returns value, last valid state and event together.

### SensorPoll

Variables correspond to the coordinator's dicts for one subentry: `config` =
`subentry_data[id]`, `pipeline`, `value` = `data[id]`, `meta`, `notified` =
`_last_notified_events[id]`. `Poll(s)` is the whole body of the loop for one
sensor (`coordinator.py:157-225`), `ToggleDebug` the user's switch. `polls`,
`sample`, `shown`, `notice` are history: no guard reads them but `polls`,
which the bound `MaxPolls` caps.

### Lifecycle

| action | code |
|---|---|
| `BeginSetup` | `async_setup_entry` from the Store to its first await (`__init__.py:407-480`) |
| `FinishSetup` | snapshot, services, panel, websocket (`:482-508`) |
| `SetupRefused`, `Retry`, `BeginReload`, `Unloaded` | HA's config entry manager, as the code uses it |
| `UnloadEntry` | after the platforms: sensors leave, and if none is left the snapshot is saved (`:533-546`) |
| `TearDown` | the rest of the unload (`:546-555`) |
| `BeginPoll`, `PushReturns`, `PushTimesOut`, `ProcessBatch`, `PollFails` | `_async_update_data` between its suspensions; `DataUpdateCoordinator` around it |
| `CreateSubentry`, `UpdateSubentry`, `DeleteSubentry`, `UpdateOptions` | flows, websocket commands, delete service; each calls the update listener |
| `ExportData`, `ImportData` | the services (`:634-766`) |
| `ToggleDisabled`, `Restart`, `Subscribe` | the user, HA, the panel |

`phase` is where HA and the entry's coroutines are:

    off -> setup -> refreshing -> forwarding -> loaded -> unloading -> teardown -> setup/off
                 \-> (coordinator reused) ----^              \-> (a sensor left over) -> setup/off
                 refreshing -> retry -> setup

`reloads` counts the reload tasks that wait for the setup lock; `listening` says
whether the update listener is registered. A write that comes when nobody
listens queues nothing; it is not lost only if a setup is still to read the
entry. `poll` is the coroutine that is suspended in a push: `todo` the sensors
it has still to visit, `size` the size of the dict when the iterator was made,
`got` the results so far.

### SensorService

Three variables: what the user `wanted` last, what is `served`, whether it is
`up`. `served` is only ever taken from `wanted` as it is at one instant, and
only while not `up`. `Lifecycle` implements it with
`wanted <- <<subentries, influx>>` and `served <- <<subentry_data, exporting>>`
from the setup that reads the entry to the unload. It follows that no sensor set
is ever polled that mixes two states of the entry, although the coordinator
object is reused and edited piece by piece.

### Reconcile

| action | code |
|---|---|
| `Scan` | `_async_reconcile_legacy_entries` up to the first entry it converts (`__init__.py:361-381`) |
| `Attach` | `_async_attach_as_subentry`: the subentry, under the old entry's id (`:243-277`) |
| `AdoptDevices`, `AdoptEntities`, `DropMainLink` | the three loops of `_async_adopt_registry_entries` (`:180-240`) |
| `FlipIdentity` | the end of `_async_promote_to_root` (`:335-342`): `unique_id` and empty data make the entry the root |
| `RemoveEntry` | `async_remove` of the others (`:384`); the registries delete what the entry still owns |
| `Fail` | any of these raises: a promotion fails the start, another entry is left for the next (`:376-395`) |
| `SetUpRoot` | the platform gets or creates the rows of every subentry (`sensor.py:45-120`) |
| `Restart`, `ToggleDisabled`, `EditSubentry`, `DeleteSubentry` | HA and the user, between starts |

A subentry is named by the entry it comes from, as in the code. `step` is the
call that comes next; `current` and `todo` are the loop's entry and the rest.
`entity` and `device` hold one registry row of each kind per sensor: where it
is linked, who disabled it, and whether it still has what the user gave it.
Home Assistant's part is in a few operators: `Cleaned` is the entity registry's
listener, which deletes a row when its device loses the link the row goes by;
`WithLinks` deletes a device without links. These two are why the order of the
loops matters. `customised`, `deleted` and `interrupted` are history.

### Migration

What the conversion owes the user, without its loop: each sensor's configuration is
in an entry, under the root, or for a while in both (`home`); its entity row is with
one of the two, with a name, on or off (`row`); and a start is under way or not
(`busy`). A sensor moves by `Copy`, `MoveRow` and `Leave`, in that order, or at once
when its entry is promoted; `SetUp` takes rows to the root or makes them; only the
user deletes and switches, and only between starts. `Reconcile` implements it
(`ImplementsMigration`): `home` is read off `entries`, `root` and `subentries`, `row`
off `entity`. Steps of the loop that only link or unlink devices change nothing of
this, nor does an attachment that is repeated; a failure at most ends the start.

### DeviceMapping

| definition | code |
|---|---|
| `Create` | `async_step_details` (`config_flow.py:601-648`): data only; the row is made by the reload |
| `Map` | `async_step_reconfigure` with a target device: `_validate_device_mapping` and `_apply_target_mapping` (`:753-833`, `:938-1036`) |
| `Detach` | the same with "create a separate device": `_detach_to_own_device` (`:846-936`) |
| `MapRaises`, `DetachRaises` | a registry call of these raises (`:934`, `:1034`): the calls before it stand, the data is not written |
| `Edit` | `async_step_reconfigure` for any other reason |
| `Delete`, `Restore` | the delete and import services (`__init__.py:769-820`, `:707-766`) |
| `Reload`, `SetUp` | the reload that follows, and in it the platforms' setup of one sensor after another, in any order (`sensor.py:45-120`) |

A device is named by the subentry it was made for, as its identifier
`(DOMAIN, subentry_id)` is. `group` is `CONF_DEVICE_GROUP_ID`; `links[k]` is
`config_entries_subentries` of device `k` under the root entry; `rows` holds one
entity registry row per sensor. `TargetMapping` and `Detachment` are the
*sequences* of registry states after each call, so a failure between two calls
is a prefix. `Listened` is Home Assistant's entity registry, which deletes a row
when its device is updated and no longer linked to its sensor. `union` chooses
the ownership model (`RegistryCapabilities.union`). Where a device has one owner,
linking it for a sensor takes it from the one before, in a reload as well: `todo`
is what the reload has still to set up, so sensors that name one device take it from
each other. The flow refuses to bring this about, an import does not check it:
history variable `foreign` keeps the sensors concerned.

### EnergySum

| action | code |
|---|---|
| `AddEntity` | `async_added_to_hass` (`sensor.py:280-285`), on the coordinator of before or a new one |
| `RefreshSucceeds`, `RefreshFails` | `_handle_coordinator_update` (`:287-296`), called by every refresh that succeeds and by the first that fails |
| `RemoveEntity`, `DumpStates`, `Restart` | Home Assistant's restore store: kept at removal, written every 15 minutes and at a clean stop |
| `Tick`, `SetClock` | `dt_util.utcnow`, the wall clock, and its corrections |

Energy is counted in watt × tick. `Integrated` is `_integrate_energy`, `Published`
the rounding of `native_value`; the store holds what was published, so every
removal rounds. `lived`, `dropped`, `restores` and `lossless` are history: from
them `Counted`, the time that is to be in the total.

### PanelClient

A list is known by the number of writes it reflects (`version`), so "older" has a
meaning. The backend's handlers do not await between reading the entry and
answering: each is one action (`GetSubentries`, `Subscribe`, `Unsubscribe`,
`Write`). A rename may refuse after it has changed the data
(`websocket.py:350-383`), so `Write` may. What writes cause is `Lifecycle`'s
business; here only whether the reload keeps the coordinator (`Unload`, `SetUp`),
since a listener is one of a coordinator object.

The element is `abstractor-panel.js`: `HassChanges` is `set hass` with
`_ensureSubscription` and `_maybeFetch`, `Submit` the three functions that write,
`Disconnected` its callback. `Receive` is one task of the browser: several
messages that came together call their handlers one after another and only then
the code that awaits them, so an event may be painted *before* the answer that
came first (`Paints`, `Marks`, `Settles`).

The connection library keeps a subscription in `held` until the answer to its end
(or a refusal) has come, and makes every held one again after `ConnectionLost`,
under a new command id: one whose end was lost with the connection comes back.
`remade` are those not yet accepted again. What `_unsub` sends for them names the
id that is gone and ends nothing (`EndSubscription`); their refusal settles no
promise, neither the one that was settled before nor the original one if it was
still open (`Refusals`), so the element goes on counting on a subscription there no
longer is. `stranded` is history: a subscription was left with nobody to end it.

### NamingTemplates

`resolve` calls itself: its stack is `stack`, what a call has just returned is
`answer`, and `seen` of a call are the ids below it. `Return` has the early
returns (`naming_template.py:213-221`), `CallParent` the recursion (`:226`),
`Apply` the merge, the second check and the remembering (`:228-241`). A text is
the set of its placeholders. `SetUpPlatform` takes one template and one sensor
and says whether its names come from the template, are built in, or raise.

## 3. Runs

| run | what it asks | instance |
|---|---|---|
| `SensorPoll` | what one poll reports; guard and notifications over time | 3 sources × {Unavailable, NonFinite, 1, 3}, every mode and flag, 1 poll; 1 source × 5 states, fallback, seed or none, 4 polls |
| `Lifecycle` | two writes of any kind at any moment, push timeouts, failed setups, restarts, imports; liveness | 2 sensors, 2 configurations, 2 writes |
| `LifecycleGuard` | the guard across reloads | 2 sensors, 2 readings, 2 writes, none of which takes a reading away |
| `Reconcile` | the conversion, with failures, restarts and a user in between | 3 entries in every state of their rows, 2 failures, 2 events |
| `DeviceMapping` | any five edits or imports, on both kinds of runtime, sensors set up in any order | 3 sensors, one not of the `sensor` domain, 5 edits, 1 failure |
| `EnergySum` | the energy total over failures, reloads, crashes, clock corrections | readings {1, 3}, a rounding step of 4, 4 ticks, 3 events, clock set 2 forward or back |
| `PanelClient` | what the panel shows, and that it comes to show it | 2 coordinators, 2 subscriptions, 2 messages each way, 2 writes, 2 refusals or lost connections, 3 of writes and these together |
| `NamingTemplates` | what each template resolves to | 4 ids, 4 files, chains of 3, a variable given, inherited or cleared |
| `LifecycleGuardUnavailable`, `LifecyclePanelFollows`, `ReconcileEditsSurvive`, `DeviceMappingMoveKeepsRow` | the findings below: each finds its property violated | smallest that shows it |

What the properties say:

* `FailsClosedOrSoft`, `DeadChannelNeverWins`, `OrderIrrelevant`: together they
  pin down what aggregation does with dead sources: when a value must be missing
  and when it must be there, that it is a live source's, and that the order of
  the sources does not matter. The last compares the code's aggregate with that
  of every permutation of the same sources.
* `NeverDrops`: published readings of a guarded sensor never go down, across
  polls without a value, the fallback's takeover and a subtracted source.
* `NoRepeatedNotice`: the same debug event is sent again only after a poll
  without it.
* `NoWriteLost`: whatever the reload is doing when a write comes, either the
  coordinator polls what the entry says, or a reload is queued, or a setup is
  still to read the entry.
* `LoadedIsComplete`: the parts come and go together; a disabled entry is about to
  be unloaded, an enabled one about to be loaded. Services stay registered on an
  entry that is off only with a coordinator that still has sensors (section 6).
* `SnapshotFollowsEntry`: the Store describes the sensors of the loaded entry, is
  the snapshot a user has just imported, or a reload that will rewrite it is
  queued.
* `GuardHoldsAcrossReloads`: the spike guard's promise across reloads, with a
  poll in flight at any point of them. Outages (finding 1), deletions, imports,
  exports, restarts and pushes that time out break it, each in a way section 6
  names, and are left out here; the theorem has the same hypotheses.
* `Settles`: once users leave it alone, the entry ends up loaded and in step, or
  unloaded if disabled, and stays so.
* `ImplementsService`: the refinement of `SensorService`.
* `NothingLost`, `RowsKept`: at every moment of every start each sensor stands
  in an entry or under the root, and its rows are there with their names.
* `ImplementsMigration`: the refinement of `Migration`. Failed and repeated starts
  move each sensor in the order that loses nothing, and take no row away; a row that
  is off at the start of a start is off at its end.
* `RootRuns`, `StampsFollow`: no disabled root takes running sensors down, and a row
  that stays off under an enabled root is one the user can switch on. The last one
  holds for sensors whose rows were not left half moved by a failure (see the end of
  section 6).
* `NoGhostDevice`: after the conversion a device goes when its sensor goes.
* `Converges`: a start that meets no failure leaves the root alone.
* `RowsOwned`, `RowsKept` (of `DeviceMapping`): a row is always on a device its
  sensor is linked to, and no edit of one sensor deletes the row of another, or
  its own. Rows of sensors detached from their own device are excluded, see
  finding 4, and those of sensors that an import has put together on a device which
  can have one owner only (section 6).
* `InPlace`: after a reload a sensor is on the device its data names, in whatever
  order the reload came to it.
* `NoGhostDevice`: it is linked to no other, so that a device goes when the last
  sensor on it goes. Sensors are excluded whose edit failed half way, or whose
  row the flow did not find; for both the code does leave the link (section 6).
  This and `InPlace` leave out the sensors of such an import, too.

* `EveryMomentOnce` (of `EnergySum`): the total is at most the highest power over
  the time that counts, and, without crashes and corrections backwards, at least
  the lowest over it. No moment counts twice, none of an outage or an absence
  counts at all, and none is forgotten.
* `TotalNeverFalls`: a total of a source that is never negative falls at a crash
  only, to what was written last. HA reads a fall as a reset of the meter.
* `ShownNeverOlder`: no older list replaces a newer one, from whichever of its
  three ways a list comes.
* `ListensOnce`: every listener in the backend is the one the element would end,
  one whose answer it awaits, or one that is being ended, as long as none was
  stranded. There are three ways to strand one (section 6); the property says that
  there is no fourth.
* `OwnWritesShown`: what the user wrote is shown, or an error is, even if the
  write's own reload has taken away the coordinator the panel listens to.
* `CatchesUp`: a panel with a listener on the coordinator there is shows every
  write again and again; a mounted panel comes to a list after a refusal or a
  lost connection. It does not if the subscription it counts on was made again and
  refused (`Abandoned`, section 6), nor in the model when the bound on subscriptions
  is used up (`OutOfBound`), which the code does not have.
* `MergedWithParent`: a template is its file merged with what its parent resolves
  to, whatever order the files are read in, but in a cycle and at the depth limit
  (section 6).

Each property of a passing run has a mutant in `PROJECT.json`: a version of one
definition with a plausible bug, under which TLC finds that property violated.
The mutants stand beside the definitions they vary, marked `Mutant:`.

### Bounds and why they are enough

* `MaxPolls` = 4: the guard needs a reading, an outage or fallback, and a lower
  reading; a notification needs an event, its absence, and its return. The
  state after a poll depends on the one before only through `last_valid`,
  `last_event` and the dedup key, and 4 polls reach every combination of them.
* Three sources: the smallest number for which a live source can stand between
  two dead ones. Two readings in aggregation, three for the guard (0 is there
  because `fallback_on_zero` reads it).
* `MaxWrites` = 2 with two sensors: the windows of the reload are each hit by one
  write; a second write of another sensor distinguishes "a reload is queued"
  from "the reload that runs will do". The initial states already range over
  all sets of configured sensors. Reloads, retries and polls are not bounded.
* `N` = 3: the promoted entry, one that fails, and one that is converted after it;
  every combination of enabled, disabled by the entry and disabled by the user,
  and of sensors never set up. `MaxFaults` = 2: a failed promotion and a failed
  entry, or the same entry twice. `MaxEvents` = 2: a restart and one change
  before it.
* `DeviceMapping`: a device shared by two sensors while a third joins or leaves,
  and an edit to set that up first: three sensors, five edits. A failure leaves
  the registries in a state that one more edit or reload reads; one is enough.
  Every subset of the sensors may be there at the start, each on its own device.
* `EnergySum`: a reading low enough to be rounded away and one that is not; an
  outage, a reload and a restart with time between them take four ticks and
  three events; a correction by 2 may undo or exceed a tick. The theorems hold
  for every bound.
* `PanelClient`: a write of the panel and one of another client, a reload that
  replaces the coordinator after the first setup, a subscription that is refused,
  made again, or made again and refused, and two messages that come in one task.
  `MaxChanges` = 3 lets two faults meet one write and two writes one fault; two of
  each would multiply the states by more than the question is worth. A third message
  of the same kind adds to a batch what two distinguish already; `ShownNeverOlder`
  and `ListensOnce` are proved for any number of all of these.
* `NamingTemplates`: with depth 3 and 4 files there are chains that reach the
  limit, chains beside one that does, and cycles of every length up to 4, in
  every order of reading; the code's limit is 10. Ids are symmetric: the model
  compares them for equality only, and the order of the file names is free
  since any file may be read next.
* `Values`: one reading where only the structure matters, two where one must be
  below the other. `Backups`: a snapshot of every sensor, the case where an
  import adds the most.
* `Ids` of `Lifecycle` are not declared symmetric: the run checks liveness.
* Runs with `CHECK_DEADLOCK FALSE` stop when a disabled entry is unloaded and the
  user has no writes left, in `Reconcile` when a start is over and the bound on
  restarts is reached, in `DeviceMapping` when the edits are used up, in
  `PanelClient` when the panel is taken down and nothing is on the way, in
  `NamingTemplates` when the platform is set up. `SensorPoll` and `EnergySum`
  check for deadlock: a switch can always be flipped, a refresh comes.

### Fairness

`FairSpec` assumes weak fairness of
* `Reload`: a task that waits for `entry.setup_lock` gets it, since every
  holder releases it; the awaits inside an unload end;
* `Setup`: the coroutine proceeds; HA retries an entry that was not ready on a
  timer without end;
* the poll a setup awaits (`async_config_entry_first_refresh`);
* `PushReturns \/ PushTimesOut`: the request carries a total time limit, so a
  push ends one way or the other.

`Reconcile` assumes weak fairness of `Start`: a start that has begun goes on to
its end or its failure, being one coroutine that HA awaits.

`PanelClient` assumes weak fairness of
* `Serve` and `Receive`: a request that has come in is handled, an answer is
  delivered, while the connection is there; a lost connection is a step of its
  own that may come in between;
* `Poll`: the coordinator's timer refreshes while it has a listener;
* `HassChanges`: Home Assistant sets `hass` at every change of any state.

Nothing is assumed of users, of restarts, of the timer's poll outside a setup
(in `Lifecycle`), of pushes succeeding, or of reloads in `PanelClient`.

## 4. Proofs

TLAPS checks every leaf; the theorems hold for all values of the constants that
satisfy the ASSUMEs in the modules (`NoneIsNoNumber`, `FilterAssumption`,
`SensorPollAssumption`, `LifecycleAssumption`, `ReconcileAssumption`, `DeviceMappingAssumption`,
`EnergySumAssumption`, `PanelClientAssumption`, `NamingTemplatesAssumption`).

**LifecycleProofs.** The safety properties of `Lifecycle` follow from the
inductive invariant `TypeOK /\ Wired`. `NoWriteLost` is not inductive by itself: it speaks
of the coordinator in step with the entry, and whether a write leaves that true
or queues a reload depends on the update listener, which is taken away and put
back by other actions. `Wired` says, phase by phase, which parts are there
(`coordinator`, `listening`, `services`), and that wherever the entry is disabled
but up, or enabled but off, a reload is queued. From it:
`TypeCorrect`, `AlwaysWired`, `WritesSurvive`, `LoadedComplete`,
`SnapshotFollows`, and `LifecycleImplementsService`, the refinement, by initial
condition and one step per action.

`GuardHolds` is `GuardHoldsAcrossReloads` under two hypotheses: every source and
every push answers (`Faults = {}`), and users create and edit sensors, change
options, disable and enable the entry, and open panels, but do not delete, import,
export or restart. They cannot be dropped: for each of these events TLC finds a
reading that falls (finding 1 and its companions in section 6). The invariant,
`Carried`, follows the last reading of each sensor through the three places that
keep it: while the coordinator has published, its data is what was shown; the
unload stores that, which needs that no sensor left in the meantime; the store
keeps it until the next poll is published, and the guards, seeded from it, are
never below it (`AheadOf`). A poll that is suspended has in `got` what the guards
have (`Underway`), so what it publishes in the end is not below what was shown,
although other polls, writes and reloads came in between.

**SensorPollProofs.** `NeverDrops` needs that the last reading shown is the
pipeline's last valid state (invariant `Remembered`); `NoRepeatedNotice` needs
that the dedup key is the last event sent unless a poll without that event has
come since (the same invariant). `ReadingsNeverDrop` and
`NoticesNotRepeated` follow, for any configurations, samples and number of
polls.

The other theorems, `PollTypeCorrect`, `ClosedOrSoft`, `DeadChannelsNeverWin` and
`OrderMeansNothing`, are about what the loop computes, for any number of sources;
their invariant, `Outcome`, says that what is published is what the pipeline makes
of the sample last polled. They need to know what the library's sum of a function
is. It is defined by a recursion on the subsets of the domain, and induction is out
of reach here; its place is taken by `SmallestSubset`: of the subsets of a finite
set that are in a family one has no smaller one in it. A smallest subset for which
the recursion has no solution, whose sum is no integer, or depends on which element
is taken first, or changes when the elements are renumbered, cannot be
(`AddsExists`, `SumType`, `SumOfAny`, `SumPermuted`), nor can one without a greatest
element (`Extremes`). `SensorPollAssumption` says that the configured mode is one of
the four, which `process_sources` sees to (`filters.py:113-116`), and that a sample
is a sequence of raw states.

**ReconcileProofs.** `NothingLost` follows from `Walk`, which says where the loop
is: `current` is an entry that is still there and not in `todo`, and from the step
after `Attach` on its subentry stands under `Parent`. `RowsKept` needs in addition
that entity and device of a sensor agree: invariant `Rows` says that a row's link
is one its device has (`Placed`), and for each step which of the rows of `current`
have left it (`Moving`); so neither `DropMainLink` nor `RemoveEntry` takes a link
that a row still goes by. `Linked` says the same of the links, whether a row goes by
them or not: a device has links of its sensor's own entry, while that is there, and
of its subentry, and the link without a subentry is gone when the root is flipped;
`NoGhostDevice` is what is left of it with the root as the only entry. `Stamped` adds
that a row which is off by an entry is on disabled entries only, and that the rows of
a converted sensor are with the root: so `SetUpRoot` takes over no stamped row into a
running root (`StampsFollow`). `Chosen` carries `RootRuns` from the choice to the
flip. Theorems: `ReconcileTypeCorrect`, `NoSensorLost`, `NoRowLost`, `NoneSwitchedOn`,
which needs `Rows` because a deleted row that is made again comes up enabled,
`DeviceGoesWithSensor`, `StampsNeverStuck`, `RootDisabledLast`. They hold for any
number of entries, failures and events.

`ReconcileImplementsMigration` has a lemma for each action that is a step of
`Migration` (`AttachMigrates`, `AdoptMigrates`, `FlipMigrates`, `RemoveMigrates`,
`SetUpMigrates`, `ToggleMigrates`, `DeleteMigrates`) and carries no invariant but
the three above. `Walk` gives `Leave` its subentry, `Moving` its row; `Linked` says
where a row can be seen (`RowPlace`): a row of the root's own entry is with its
subentry once there is a root, so that deleting a sensor deletes every row that is
seen under the root, and that a promotion moves one sensor only.

**DeviceMappingProofs.** The inductive invariant is `TypeOK /\ RowsOwned /\
RowsKept` with two facts about single-owner runtimes: a device is linked to its own
sensor only, and a sensor's data names its own device only, or else both are among
those an import has put together (`Near`, in `Owned` and `Single`). Without them the
call that takes a device over could delete its owner's row; they hold because
`Allowed` refuses every device with an owner, and a device no other sensor has is
its own. Each registry call is a lemma (`LinkedOwned`, `MovedOwned`,
`UnlinkedOwned`), the transactions follow state by state (`TargetMappingOwned`,
`DetachmentOwned`), so a failure at any call is covered by the same lemmas, and so is
the setup of one sensor in a reload (`SetUpRows`). `InPlace` and `NoGhostDevice` need
that a transaction of one sensor leaves rows and links of the others alone, call by
call (`Spares`), that a sensor the reload has set up stays where it is while the rest
follow (`Placed`), and that a device has no link of a sensor that is not on it while
a reload is due as well (`Clean`). Theorems: `MappingTypeCorrect`, `EveryRowOwned`, `NoEditLosesRow`,
`EverySensorInPlace`, `NoGhostLeft`, for any number of sensors, edits and failures.

**EnergySumProofs.** `EveryMomentOnce` speaks of what the user sees; the invariant
`Sound` says the same of each of the three places the total is in: `energy`
within `restores` half rounding steps, `stored` and `disk` within one more, and
what is stored is its own rounding (`PublishedTwice`), without which restoring it
could lower the total. The lemmas about `Published` bound, order and repeat the
rounding for every `Grain`. Theorems: `TypeCorrect`, `AlwaysSound`,
`MomentsSummedOnce`, `NeverFalls`, for any readings, corrections and bounds.

**PanelClientProofs.** `ShownNeverOlder` follows from `Ordered`: what is on the
screen is not newer than anything on the way, the messages on the way are in the
order of their lists, and none is newer than the entry. A task of the browser
paints the *last* answer of its batch or, if there is none, the last event: the
lemma `ReceiveOrdered` shows that this is not older than what the batch leaves
behind. Theorems: `PanelTypeCorrect`, `NeverOlder`.

**PanelListenerProofs.** `ListensOnce` is not inductive: what becomes a listener is
a request first, and what makes the element or the connection forget one is an
answer. `Accounted` says, for each subscription and as long as none was stranded:
it is asked for at most once at a time and answered once, with no listener
meanwhile, none after a refusal and none after its end (`AskedOnce`); what is
listened to is held, what is held is known to the element or on its way out, and
what is asked for is what the element could not end now (`KnownOrLeaving`); and the
element knows one held subscription at most (`OneKnown`). It speaks of the answer to
an end as well as of the request, since the connection holds on to the subscription
until that answer. A lost connection keeps it because with no end under way every
held subscription is known, and the library makes each again once
(`ResubscribedOnce`: as many requests as subscriptions, so none twice). `KeptFor` is
the common part of every step: what one subscription keeps when requests and
messages are taken; `Appended` what the requests added in `Receive` leave alone.
Theorem: `ListenersAccounted`, for any number of writes, subscriptions, refusals and
lost connections.

**NamingTemplatesProofs.** `IInv` adds to `TypeOK` that every id but the top of the
stack is that of a template that was read, that the depth of a call is one more
than its parent's, and that all that was read or resolved is valid. Theorems:
`TemplatesTypeCorrect`, with the bound on the recursion's depth, and
`RaisesOnlyForItself`: a template raises in the platform's setup only if its
`device_name` refers to itself, so that the check at loading time is enough for
every other one.

`TemplatesMerged` is `MergedWithParent`, for any directory, any order of reading and
any depth. A result without its parent is right only if the template is in a cycle
or on a chain as long as the limit (`Exempt`). The invariant it needs, `Merging`,
has five parts: the open calls on the stack are for different templates, read and
not yet resolved, each the parent of the one below it (`Stacked`); a call returned
what its template resolved to, or nothing only if that template will never be
resolved or the caller is exempt (`Answered`); every resolved template is exempt or
merged with its parent (`AllRight`); no template that was read is forgotten
(`Complete`); and there are no more templates than files (`Bounded`), so that a
stack as deep as the limit is a chain of that many different templates.

**Model-checked only.** `Settles`, `Converges`, `OwnWritesShown` and `CatchesUp`:
liveness under fairness is out of the prover's reach. Every other property of a
passing run is proved, the one of `LifecycleGuard` under that run's hypotheses.

## 5. Abstractions

* Floats are integers; rounding is left out. A missing entity, `"none"`,
  `"unknown"` and `"unavailable"` are one value, since every branch treats them
  alike.
* In `Lifecycle` a sensor has one source and the pipeline is its guard only.
* HA is modelled from how the code uses it: the config entry manager, its setup
  lock, the order "unload, `async_on_unload` callbacks, setup", the update
  listener called for every change, `DataUpdateCoordinator` keeping its data
  when an update raises. The timer may fire at any time a coordinator is there,
  which is more than the real interval allows. At most one refresh runs at a
  time, as the coordinator's debouncer has it.
* The iteration over a dict that is changed while the loop is suspended: the
  sensors still to visit are those added again, in any order (CPython may skip
  some that are re-added; the model allows any batch, so it has those
  behaviours too); a change of size raises.
* The writes of the Store, the end of the setup and the import are each one
  step, although each awaits the file: what another coroutine does in that time
  is ordered before or after them.
* In `Lifecycle` the platforms always unload: `async_unload_platforms` returning
  `False` (`__init__.py:533`), on which the unload stops and HA leaves the entry in a
  state only a restart gets it out of, is left out. No platform of the integration
  has an unload of its own.
* `Restart` is a stop at any time: HA does not unload entries when it stops. In
  `Reconcile` a restart comes between starts; that the process is killed between
  two steps, with the registries saved at different times, is not modelled.
* In `Reconcile` each sensor has one entity and one device row, and a row is
  re-pointed and re-stamped in one step. The user acts between starts. What the
  setup of a leftover entry does is left out: its rows are those it had, but it
  would also prune the root's sensors from the shared coordinator
  (`__init__.py:447`, in the hazards).
* In `DeviceMapping` all sensors are of the root entry, and devices are those of
  the sensors. A single-owner runtime starts without shared devices. The user acts
  between reloads, and what raises is a registry call of an edit, not the setup of
  a sensor. A row always has a device. Registry
  shapes the code does not know are left out: every mapping is refused there.
  The panel's commands change the data and never the registries.
* In `EnergySum` the pipeline's readings are any of `Powers`, none is below `Low`,
  and floating point is left out: the only rounding is that of `native_value`.
* In `PanelClient` the connection delivers in order, in each direction, as a
  websocket does, and is made again at once: the element's calls in between wait in
  the library's queue, and are sent after the subscriptions made again. An end sent
  under a command id that is gone is left out, having no effect. The ten seconds after which `_maybeFetch` fetches again apply
  to a panel without subscription only, which sets `loading` first. Edit mode,
  forms and what a list contains are left out; a write that changes nothing
  counts as none.
* In `NamingTemplates` the map `entity_name` is its default; filters, sizes, schema
  versions and the syntax of a file are the disjunct in which `LoadFile` skips.

## 6. Findings

Four runs show that the code does not do what the repository says of it (quotes
and lines in `PROJECT.json`, `findings`):

1. A reload while a source is unavailable loses the guard's last valid reading.
2. The panel's subscription stays on a coordinator that most reloads replace. What
   the user writes is still shown (`OwnWritesShown`); what others write and what
   the sensors read is not, until the user writes or the panel is opened again.
3. A conversion that failed at the removal of the old entry is repeated at the
   next start over what the user has changed in the subentry since; a sensor
   deleted since is attached again in the same way.
4. "Create a separate device" for a sensor that is on its own device already
   drops the link it has just made: the registries delete the device's link and
   the sensor's row, with the name the user gave it.

Further disagreements, met while modelling and without a run of their own:

* A sensor deleted and the entry disabled before the reload runs: the unload takes
  out the subentries the entry still has, so `subentry_data` is not empty, and no
  setup follows to prune it; coordinator, services and panel stay
  (`__init__.py:539`, where `:529-531` calls the check "a correct, reachable check
  again"). A failed setup of an entry that is then disabled leaves its
  coordinator too.
* A naming template whose `device_name` uses `{device_name}` passes both checks and
  raises `KeyError` in the setup of the platform (`naming_template.py:123`), where
  the module says that broken templates "never block setup" (`:13-14`, and
  `src/docs/NAMING_TEMPLATES.md:25-26`).
* "Cycles and inherit chains deeper than 10 are rejected"
  (`src/docs/NAMING_TEMPLATES.md:105-106`): the code drops the parent and goes on
  (`naming_template.py:226-241`), so the templates of a cycle or of a long chain
  are loaded in part, and in which part depends on the order of the files.
* A template's own texts may not use a variable of its parent: the file is checked
  by itself first (`naming_template.py:204`).
* One template that is not UTF-8 loses all of them: `_load_file` does not catch
  `UnicodeDecodeError` (`naming_template.py:161`, `:252`).
* The docstring of `_integrate_energy` says "left-Riemann"; the reading taken is
  the one at the end of the interval (`sensor.py:217`, `:291-294`).
* "A one-shot fetch is the fallback" of the panel's subscription
  (`src/README.md:109-110`): `_ensureSubscription` sets `loading` before the
  subscription is refused, so `_maybeFetch` finds nothing to do, and the next
  change of a state subscribes again instead.
* A panel leaves a listener in the backend when it is taken down before its
  subscription is answered (`_unsub` is not there yet), when it is taken down after a
  lost connection before the subscription is accepted again, and when the connection
  is lost before the end is answered (`abstractor-panel.js:317-323`). The listener goes
  with the connection or the coordinator; until then every refresh is sent to nobody.
* A subscription that is made again after a lost connection and then refused leaves
  the panel `subscribed`, and, if it was the first, `loading` for ever with neither
  list nor error, until it is opened again: the "one-shot fetch" with which it
  "always paints its first frame" (`src/README.md:109-110`,
  `abstractor-panel.js:275-279`) is not sent (`Abandoned` in `CatchesUp`).
* An import restores a sensor's group unchecked (`__init__.py:707-766`), where the flow
  refuses a device with an owner on a single-owner runtime (`config_flow.py:970-978`).
  Sensors that name one device there take it from each other at every reload, and all
  but the last lose their rows, with the names the user gave them.
* The panel's edit form knows a sensor's sources and names, not its aggregation
  and filter options, which the list does not carry (`websocket.py:125-142`): it
  shows their defaults and sends them back
  (`src/frontend/src/sensor-form.js:88-118`), and `ws_subentry_update` merges them
  over what was stored.
* A rename of a grouped sensor writes the same `object_id` to every sensor of the
  group, and reports an error for a change that is made if the entity registry
  refuses (`websocket.py:350-383`).
* `spike_rejections` (`coordinator.py:202`) stays at 0: the counter looks for
  events that begin with `spike`, the pipeline reports `aggregate spike rejected`
  (`filters.py:186`); `src/docs/plan-logical-identity-and-panel-ux.md:226` calls it
  "monotonic guard hits since setup".
* A push that runs into its total time limit raises `asyncio.TimeoutError`, which
  `influx_exporter.py:91` does not catch: the poll of every sensor fails
  (`PushTimesOut`), though a broken export "must never break the abstracted
  sensor's own state update" (`influx_exporter.py:65-66`).
* An edit whose registry call fails shows "a fail-loud error and zero mutation"
  (`config_flow.py:674-678`), but the calls before it stand: a link to the new
  device stays, and the row may have moved.
* An edit of a sensor whose row is not found - it is looked up in the domain
  `sensor` only (`config_flow.py:881`, `:986`), so every switch, light, cover and
  binary sensor - leaves the link to the old device, which then stays when its
  other sensors go.
* Submitting the prefilled own device writes the sensor's own id as its group
  (`config_flow.py:324-327`); `src/docs/device-mapping-ui-design.md:98-99` says it
  "must not turn an ungrouped sensor into an explicit group of its own subentry
  ID".
* `ws_subentry_update` merges the stored data into the submission
  (`websocket.py:255-257`), so `create_new_device` keeps the group: the docstring
  of `_normalize_subentry_data` has it dropped (`config_flow.py:259-263`, item 2).
* Sensors of one device may carry two names: the one whose device it is has no
  group id, and inherits no `logical_name` from the others (`naming.py:66-83`,
  "a group never shows two different device names").
* With `fallback_zero` a dead energy source counts as 0 and the sum of the others
  is reported (`filters.py:221-226`); the docstring says that for energy a single
  failed source fails the whole aggregate (`filters.py:91-93`).
* "Idempotent and safe to interrupt" (`__init__.py:354`) does not hold of the
  disabled stamp: if the conversion of a disabled entry fails between the
  subentry and the entity row, the root's platform re-points the row, the retry
  no longer finds it under the old entry, and it stays disabled "by its config
  entry" under an enabled root. `StampsFollow` excludes the sensors in
  `interrupted` for this reason.
* With `max`, `min` or `first_available`, `fallback_zero` does not report 0 when
  all sources are dead (`filters.py:130-162`), as `src/README.md:180` has it.
* When no source is handed to `process()`, `last_event` keeps the event of an
  earlier poll, so "fallback source used" is counted in `meta` and reported
  without a fallback (`filters.py:130-141`, `coordinator.py:204`).
* The health badge of the panel calls a sensor healthy while its sources are
  dead if power reports its soft zero (`websocket.py:116-124`).
* The guard's seed is also lost through an unload that spares the coordinator
  after a deletion (the snapshot in memory is that of the last setup), through an
  import (the reload's own snapshot overwrites the imported values), through a
  restart (the Store is as old as the last setup), through an export while the
  coordinator is torn down and its timer has polled no sensor (`BeginPoll` in
  `teardown`), and through a first refresh that fails: the second setup finds the
  coordinator there, does not refresh it and stores its empty data
  (`__init__.py:461-482`); another reload before a poll seeds the guards with
  nothing.
* `coordinator.py:57-63` says the coordinator survives reloads; it does only if
  a sensor was deleted since the last setup.
* `src/README.md:220` says an import does not recreate entries; it does.

## 7. Not modelled

* The actuator and pass-through platforms (`_actuator.py`, `switch.py`, `light.py`,
  `cover.py`, `binary_sensor.py`): they forward one call and mirror one state, and
  keep nothing between two.
* `const.py`, `specs.py`, `diagnostics.py`, the registry stub, `naming.py`: tables,
  views and pure functions without a step; a property of them would restate them.
* Forms and their validation, in `config_flow.py` and in the panel; rendering, edit
  mode, and the generated bundle in `www/`.
* `async_migrate_entry`, which changes nothing, and `ws_yaml_scan`, which answers
  with an empty list.
* The scripts, tools outside the integration.
* What the setup of a leftover legacy entry does to the root's coordinator: it
  would take `Lifecycle` with several entries over one coordinator, a product of
  the two largest models here.

Worth doing next: an abstract specification of `DeviceMapping` (each sensor on one
device, moved in one step but by a failure), which `InPlace` and `NoGhostDevice`
say in part.
