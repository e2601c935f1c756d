---------------------------- MODULE PanelClient ----------------------------
(***************************************************************************)
(* The panel and the websocket commands it uses (abstractor-panel.js,      *)
(* websocket.py): one element that subscribes to the list of the entry's   *)
(* sensors, fetches it and writes, over a connection that delivers in      *)
(* order, several messages at a time, and may be lost and made again.      *)
(*                                                                         *)
(* A list is known by the number of writes it reflects.  A handler of the  *)
(* backend never awaits between reading the entry and answering, so it is  *)
(* one step.  What a write does to the entry is Lifecycle's: here it       *)
(* causes a reload that keeps the coordinator or replaces it.              *)
(***************************************************************************)
EXTENDS Integers, Sequences, FiniteSets

CONSTANTS
    None,            \* no subscription, no coordinator
    MaxWrites,       \* bound on the writes to the entry
    MaxSetups,       \* bound on the coordinators made
    MaxSubscribes,   \* bound on the subscriptions made
    MaxFaults,       \* bound on refusals and lost connections
    MaxChanges,      \* bound on writes and faults together
    MaxWaiting       \* bound on the messages on the way, each direction

ASSUME PanelClientAssumption ==
    /\ None \notin Int
    /\ MaxWrites \in Nat /\ MaxSetups \in Nat /\ MaxSubscribes \in Nat
    /\ MaxFaults \in Nat /\ MaxChanges \in Nat /\ MaxWaiting \in Nat

VARIABLES
    \* The backend.
    version,      \* of root_entry.subentries
    coordinator,  \* hass.data[DOMAIN]["coordinator"]
    made,         \* coordinators made so far
    reload,       \* a reload of the entry is due
    listeners,    \* the panel's listeners, each with its coordinator
    \* The connection.
    up,           \* requests on the way
    down,         \* answers and events on the way
    held,         \* subscriptions the connection makes again when it was lost
    remade,       \* those it has made again, and that were not accepted since
    \* The element.
    mounted,
    subscribed,   \* _subscribed
    unsub,        \* _unsub: the subscription it would end
    unanswered,   \* subscriptions whose promise is not settled
    loaded, loading, shown, error,  \* the store's state, shown for subentries
    \* History and bounds, read by the properties only.
    subscribes, faults,
    own,          \* version of the last write of the panel known to be done
    stranded      \* a subscription was left with nobody to end it

entryVars == <<version, coordinator, made, reload>>
kept == <<held, remade>>
wires == <<up, down, kept>>
storeVars == <<loaded, loading, shown, error>>
element == <<mounted, subscribed, unsub, unanswered, storeVars>>
vars == <<entryVars, listeners, wires, element, subscribes, faults, own, stranded>>

Asked(type, id) == [type |-> type, id |-> id]
Told(type, id, list) == [type |-> type, id |-> id, list |-> list]

-----------------------------------------------------------------------------
(* The backend.                                                            *)

\* Mutant: answers overtake what was sent before them.
SendOvertaking(messages) == down' = messages \o down

\* connection.send_result, send_error and send_event.
Send(messages) == down' = down \o messages

Room(n) == Len(down) + n <= MaxWaiting

Faulty ==
    /\ faults < MaxFaults /\ version + faults < MaxChanges
    /\ faults' = faults + 1

Request(type) == up # <<>> /\ Head(up).type = type /\ up' = Tail(up)

\* Mutant: the list is built once.
BuildSubentriesOnce == 0

\* _build_subentries.
BuildSubentries == version

\* ws_get_subentries.
GetSubentries ==
    /\ Request("fetch")
    /\ Room(1)
    /\ \/ Send(<<Told("fetched", None, BuildSubentries)>>) /\ UNCHANGED faults
       \/ Faulty /\ Send(<<Told("fetch refused", None, version)>>)
    /\ UNCHANGED <<entryVars, listeners, kept, element, subscribes, own, stranded>>

\* Mutant: a listener is added whether there is a coordinator or not.
ListeningBlindly(id) == {[id |-> id, of |-> coordinator]}

\* Without a coordinator there is nothing to listen to.
Listening(id) == IF coordinator = None THEN {} ELSE {[id |-> id, of |-> coordinator]}

\* ws_subentries_subscribe.
Subscribe ==
    LET id == Head(up).id IN
    /\ Request("subscribe")
    /\ Room(2)
    /\ \/ /\ listeners' = listeners \cup Listening(id)
          /\ Send(<<Told("subscribed", id, version), Told("event", id, BuildSubentries)>>)
          /\ UNCHANGED faults
       \/ Faulty /\ Send(<<Told("subscribe refused", id, version)>>) /\ UNCHANGED listeners
    /\ UNCHANGED <<entryVars, kept, element, subscribes, own, stranded>>

Unsubscribe ==
    /\ Request("unsubscribe")
    /\ Room(1)
    /\ listeners' = {l \in listeners : l.id # Head(up).id}
    /\ Send(<<Told("unsubscribed", Head(up).id, version)>>)
    /\ UNCHANGED <<entryVars, kept, element, subscribes, faults, own, stranded>>

\* The messages of these types, and the last of some messages.
Of(batch, types) == {i \in DOMAIN batch : batch[i].type \in types}
LastOf(S) == {i \in S : \A j \in S : j <= i}

\* Room for one more write, with those of the panel on their way to the backend.
MayWrite ==
    LET writes == version + Cardinality(Of(up, {"write"})) IN
    writes < MaxWrites /\ writes + faults < MaxChanges

\* A write changes the entry and queues its reload.
Written ==
    /\ version' = version + 1
    /\ reload' = TRUE
    /\ UNCHANGED <<coordinator, made>>

\* ws_subentry_create, ws_subentry_update, ws_subentry_delete, ws_logical_rename; the
\* last one may refuse when it has changed the entry already.
Write ==
    /\ Request("write")
    /\ Room(1)
    /\ \/ Written /\ Send(<<Told("written", None, version + 1)>>) /\ UNCHANGED faults
       \/ /\ Faulty
          /\ Written \/ UNCHANGED entryVars
          /\ Send(<<Told("write refused", None, version')>>)
    /\ UNCHANGED <<listeners, kept, element, subscribes, own, stranded>>

\* Another client, a service or the config flow.
OthersWrite ==
    /\ MayWrite
    /\ Written
    /\ UNCHANGED <<listeners, wires, element, subscribes, faults, own, stranded>>

\* async_unload_entry: the coordinator goes with the last of its sensors, or stays.
Unload ==
    /\ reload /\ coordinator # None
    /\ coordinator' \in {coordinator, None}
    /\ reload' = (coordinator' = None)
    /\ UNCHANGED <<version, made, listeners, wires, element, subscribes, faults, own, stranded>>

\* async_setup_entry.
SetUp ==
    /\ coordinator = None
    /\ made < MaxSetups
    /\ made' = made + 1
    /\ coordinator' = made'
    /\ reload' = FALSE
    /\ UNCHANGED <<version, listeners, wires, element, subscribes, faults, own, stranded>>

\* A refresh of the coordinator calls _forward of each of its listeners.  With no
\* coordinator, or one without a listener, nothing is sent.
Poll ==
    \E l \in listeners :
        /\ l.of = coordinator
        /\ Room(1)
        /\ Send(<<Told("event", l.id, BuildSubentries)>>)
        /\ UNCHANGED <<entryVars, listeners, up, kept, element, subscribes, faults, own, stranded>>

-----------------------------------------------------------------------------
(* The element.                                                            *)

\* set hass, at every change of any state: _ensureSubscription, then _maybeFetch,
\* which does nothing while the subscription is loading.
HassChanges ==
    /\ mounted
    /\ Len(up) < MaxWaiting
    /\ \/ /\ ~subscribed
          /\ subscribes < MaxSubscribes
          /\ subscribes' = subscribes + 1
          /\ subscribed' = TRUE
          /\ up' = Append(up, Asked("subscribe", subscribes'))
          /\ held' = held \cup {subscribes'}
          /\ unanswered' = unanswered \cup {subscribes'}
       \/ /\ subscribed /\ ~loaded /\ ~loading
          /\ up' = Append(up, Asked("fetch", None))
          /\ UNCHANGED <<subscribed, subscribes, held, unanswered>>
    /\ loading' = TRUE
    /\ error' = FALSE
    /\ UNCHANGED <<entryVars, listeners, down, remade, mounted, unsub, loaded, shown, faults, own,
                   stranded>>

\* _submitSensorForm, _submitRenameForm, _confirmDelete up to their answer.
Submit ==
    /\ mounted
    /\ Len(up) < MaxWaiting
    /\ MayWrite
    /\ up' = Append(up, Asked("write", None))
    /\ UNCHANGED <<entryVars, listeners, down, kept, element, subscribes, faults, own, stranded>>

\* Mutant: the list is fetched after a write as any other time.
RefetchUnforced(writes) == IF loaded THEN <<>> ELSE [i \in writes |-> Asked("fetch", None)]

\* _fetchSubentries(true), once for each write that was done.
Refetch(writes) == [i \in writes |-> Asked("fetch", None)]

\* Mutant: disconnectedCallback forgets the subscription without ending it.
EndSubscriptionNever == UNCHANGED up

\* The connection lets go of a subscription when its end is answered, not when it is
\* asked for.  Until one that was made again is accepted, what ends it still names the
\* one that is gone, and ends nothing.
EndSubscription ==
    IF unsub # None /\ unsub \notin remade
    THEN up' = Append(up, Asked("unsubscribe", unsub))
    ELSE UNCHANGED up

\* What disconnectedCallback cannot end: a subscription that is not answered, at first
\* or when it was made again.
Unending == held \cap (unanswered \cup (remade \cap {unsub}))

\* disconnectedCallback.
Disconnected ==
    /\ mounted
    /\ mounted' = FALSE
    /\ EndSubscription
    /\ unsub' = None
    /\ subscribed' = FALSE
    /\ stranded' = (stranded \/ Unending # {})
    /\ UNCHANGED <<entryVars, listeners, down, kept, unanswered, storeVars, subscribes, faults, own>>

Connected ==
    /\ ~mounted
    /\ subscribes < MaxSubscribes
    /\ mounted' = TRUE
    /\ UNCHANGED <<entryVars, listeners, wires, subscribed, unsub, unanswered, storeVars, subscribes,
                   faults, own, stranded>>

\* What a batch leaves on the screen: events are taken up as they come, what waits
\* for an answer goes on after the whole batch.
Paints(batch) ==
    LET fetched == Of(batch, {"fetched"})
        events == Of(batch, {"event"})
    IN
    /\ \/ \E i \in LastOf(fetched) : shown' = batch[i].list
       \/ fetched = {} /\ \E i \in LastOf(events) : shown' = batch[i].list
       \/ fetched = {} /\ events = {} /\ shown' = shown
    /\ loaded' = (loaded \/ fetched \cup events # {})

\* The refusals the element hears of: the promise of a subscription that is refused
\* when it is made again stays as it is.
Refusals(batch) ==
    {i \in Of(batch, {"subscribe refused"}) : batch[i].id \in unanswered \ remade}

\* The loading mark and the message of a failed load, likewise.
Marks(batch) ==
    LET failed == Of(batch, {"fetch refused"}) \cup Refusals(batch)
        done == Of(batch, {"fetched", "written"}) \cup failed
        told == Of(batch, {"written"}) \cup failed
    IN
    /\ loading' = IF done = {} THEN loading /\ Of(batch, {"event"}) = {}
                  ELSE \E i \in LastOf(done) : batch[i].type = "written"
    /\ error' = IF told = {} THEN error ELSE LastOf(told) \subseteq failed

\* A subscription's promise settles once, however often it is made again.
Settles(batch) ==
    LET accepted == Of(batch, {"subscribed"})
        answered == {i \in accepted : batch[i].id \in unanswered}
    IN
    /\ unanswered' = unanswered \ {batch[i].id : i \in answered \cup Refusals(batch)}
    /\ \/ \E i \in LastOf(answered) : unsub' = batch[i].id
       \/ answered = {} /\ unsub' = unsub
    /\ subscribed' = (subscribed /\ Refusals(batch) = {})
    /\ remade' = remade \ {batch[i].id : i \in accepted}

\* The subscriptions the connection lets go of.
Dropped(batch) == {batch[i].id : i \in Of(batch, {"unsubscribed", "subscribe refused"})}

\* One task of the browser: messages that came together are handled together.
Receive ==
    \E n \in 1..Len(down) :
        LET batch == SubSeq(down, 1, n)
            writes == Of(batch, {"written"})
        IN
        /\ down' = SubSeq(down, n + 1, Len(down))
        /\ Paints(batch)
        /\ Marks(batch)
        /\ Settles(batch)
        /\ held' = held \ Dropped(batch)
        /\ up' = up \o Refetch(1..Cardinality(writes))
        /\ \/ \E i \in LastOf(writes) : own' = batch[i].list
           \/ writes = {} /\ own' = own
        /\ UNCHANGED <<entryVars, listeners, mounted, subscribes, faults, stranded>>

\* The subscriptions that are made again, in the order they were made.
Resubscribed ==
    {requests \in [1..Cardinality(held) -> {Asked("subscribe", id) : id \in held}] :
        /\ \A id \in held : \E i \in DOMAIN requests : requests[i].id = id
        /\ \A i, j \in DOMAIN requests : i < j => requests[i].id < requests[j].id}

\* The connection is lost and made again: what waited for an answer fails, whether
\* it was done or not, and the subscriptions are made again, those too whose end was
\* asked for and is not known to be done.
ConnectionLost ==
    LET fetching == Of(up, {"fetch"}) \cup Of(down, {"fetched", "fetch refused"}) # {}
        ending == Of(up, {"unsubscribe"}) \cup Of(down, {"unsubscribed"}) # {}
    IN
    /\ Faulty
    /\ listeners' = {}
    /\ up' \in Resubscribed
    /\ down' = <<>>
    /\ remade' = remade \cup held
    /\ stranded' = (stranded \/ ending)
    /\ loading' = (loading /\ ~fetching)
    /\ error' = (error \/ fetching)
    /\ UNCHANGED <<entryVars, held, mounted, subscribed, unsub, unanswered, loaded, shown,
                   subscribes, own>>

-----------------------------------------------------------------------------
Init ==
    /\ version = 0
    /\ coordinator = None
    /\ made = 0
    /\ reload = FALSE
    /\ listeners = {}
    /\ up = <<>>
    /\ down = <<>>
    /\ held = {}
    /\ remade = {}
    /\ mounted = TRUE
    /\ subscribed = FALSE
    /\ unsub = None
    /\ unanswered = {}
    /\ loaded = FALSE
    /\ loading = FALSE
    /\ shown = 0
    /\ error = FALSE
    /\ subscribes = 0
    /\ faults = 0
    /\ own = 0
    /\ stranded = FALSE

Serve == GetSubentries \/ Subscribe \/ Unsubscribe \/ Write

Next ==
    \/ Serve
    \/ OthersWrite
    \/ Unload
    \/ SetUp
    \/ Poll
    \/ HassChanges
    \/ Submit
    \/ Disconnected
    \/ Connected
    \/ Receive
    \/ ConnectionLost

Spec == Init /\ [][Next]_vars

\* Requests are served and answers delivered, a coordinator with a listener polls
\* again and again, and Home Assistant sets hass at every change of a state.
Fairness ==
    /\ WF_vars(Serve)
    /\ WF_vars(Poll)
    /\ WF_vars(Receive)
    /\ WF_vars(HassChanges)

FairSpec == Spec /\ Fairness

-----------------------------------------------------------------------------
(* Properties.                                                             *)

Ids == 1..MaxSubscribes
Requests == [type : {"fetch", "write"}, id : {None}]
            \cup [type : {"subscribe", "unsubscribe"}, id : Ids]
Messages == [type : {"fetched", "fetch refused", "written", "write refused"},
             id : {None}, list : Nat]
            \cup [type : {"subscribed", "subscribe refused", "unsubscribed", "event"},
                   id : Ids, list : Nat]

TypeOK ==
    /\ version \in Nat
    /\ coordinator \in Nat \cup {None}
    /\ made \in Nat
    /\ reload \in BOOLEAN
    /\ listeners \subseteq [id : Ids, of : Nat]
    /\ up \in Seq(Requests)
    /\ down \in Seq(Messages)
    /\ held \subseteq Ids
    /\ remade \subseteq Ids
    /\ mounted \in BOOLEAN
    /\ subscribed \in BOOLEAN
    /\ unsub \in Ids \cup {None}
    /\ unanswered \subseteq Ids
    /\ loaded \in BOOLEAN
    /\ loading \in BOOLEAN
    /\ shown \in Nat
    /\ error \in BOOLEAN
    /\ subscribes \in Nat
    /\ faults \in Nat
    /\ own \in Nat
    /\ stranded \in BOOLEAN

\* An older list never replaces a newer one on the screen, although the panel takes
\* lists from a subscription, from one-shot fetches and from the fetch after a write,
\* in whatever order they are answered, and over lost connections
\* (abstractor-panel.js:259-315).
ShownNeverOlder == [][shown' >= shown]_shown

\* The panel leaves no listener behind: each is the one it would end, one whose
\* answer it awaits, or one it is ending.  It does leave one behind, as no part of the
\* program looks back for it, when it is taken down before its subscription is answered,
\* at first or after a lost connection, and when the connection is lost before the end
\* is answered (abstractor-panel.js:317-323).  Short of these, however the panel comes
\* and goes and the connection is lost, all are accounted for.
ListensOnce ==
    ~stranded => \A l \in listeners :
        \/ l.id = unsub
        \/ l.id \in unanswered
        \/ \E i \in DOMAIN up : up[i] = Asked("unsubscribe", l.id)

\* What the user has written is shown, even when the reload it caused has left the
\* panel with a listener on a coordinator that is gone; or an error says that it is
\* not (abstractor-panel.js:946-974).
OwnWritesShown ==
    \A v \in 1..MaxWrites : own = v ~> (shown >= v \/ error)

\* All the element counts on was refused when it was made again.
Abandoned == subscribed /\ (unanswered \cup {unsub}) \cap held = {}

\* It would subscribe once more, and the bound does not let it; the code has none.
OutOfBound == ~subscribed /\ subscribes = MaxSubscribes

\* While the panel listens to the coordinator there is, it catches up with every
\* write, whoever made it; and a panel that is there has a list at last, whatever
\* was refused or lost.  Unless its subscription is abandoned: then it shows neither a
\* list nor an error and is loading for ever, though the fetch is there so that it
\* "always paints its first frame" (src/README.md:110, abstractor-panel.js:275-315).
CatchesUp ==
    /\ []<>((\E l \in listeners : l.of = coordinator) => shown = version)
    /\ mounted ~> (loaded \/ ~mounted \/ Abandoned \/ OutOfBound)
=============================================================================
