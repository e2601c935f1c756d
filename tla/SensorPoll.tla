----------------------------- MODULE SensorPoll -----------------------------
(***************************************************************************)
(* One numeric subentry as the coordinator polls it: the raw states of its *)
(* entities go through the filter pipeline, the result becomes the         *)
(* published value, and the health metadata and the debug notifications    *)
(* follow (coordinator.py, _async_update_data).  The loop over the         *)
(* subentries, reloads and failures are in module Lifecycle.               *)
(*                                                                         *)
(* On top of the pipeline's fields a configuration has                     *)
(*   fallback : "off", "always" (no condition entity) or "conditional"     *)
(***************************************************************************)
EXTENDS FilterPipeline, Sequences

CONSTANTS
    Configs,     \* the configurations to consider
    Samples(_),  \* what the entities of a subentry with a configuration can show
    Seeds,       \* initial_last_valid_state of the pipeline, None included
    MaxPolls(_)  \* bound on the number of polls of a configuration

\* A mode that is not one of these is "sum" to process_sources.
ASSUME SensorPollAssumption ==
    /\ Seeds \subseteq Int \cup {None}
    /\ \A c \in Configs :
         /\ c.aggregation \in AggregationModes
         /\ MaxPolls(c) \in Nat
         /\ None \notin Samples(c)
         /\ \A s \in Samples(c) : s.raws \in Seq(Int \cup BadStates)

VARIABLES
    config,    \* subentry_data[id]
    pipeline,  \* [last_valid, last_event] of pipelines[id]
    value,     \* data[id], None before the first poll
    meta,      \* meta[id]: [spike_rejections, fallbacks, unavailable_samples]
    notified,  \* _last_notified_events[id], "none" when absent
    debug,     \* both debug targets are set and the switch is on
    \* History, read by the properties only.
    polls,     \* number of polls so far
    sample,    \* the sample of the last poll, None before the first
    shown,     \* the last value published that was not None
    notice     \* [sent, event, since]: number of notifications, the last one,
               \* whether another event (or none) was polled after it

vars == <<config, pipeline, value, meta, notified, debug,
          polls, sample, shown, notice>>

-----------------------------------------------------------------------------
FallbackConditionMet(c, s) ==
    \/ c.fallback = "always"
    \/ c.fallback = "conditional" /\ s.condition_matches

\* What _async_update_data hands to process_sources.
PipelineInput(c, s) ==
    [raws                   |-> s.raws,
     net_subtract           |-> s.net_subtract,
     fallback               |-> IF c.fallback = "off" THEN Unavailable ELSE s.fallback,
     fallback_condition_met |-> FallbackConditionMet(c, s)]

One(condition) == IF condition THEN 1 ELSE 0

\* The counters compare the pipeline's last_event with a prefix: "spike"
\* matches none of the events process_sources leaves behind.
UpdateMeta(old, event, val) ==
    [spike_rejections    |-> old.spike_rejections + One(event = "spike rejected"),
     fallbacks           |-> old.fallbacks + One(event = "fallback source used"),
     unavailable_samples |-> old.unavailable_samples + One(val = None)]

\* Mutant: an event is sent at every poll it is there.
NotifiesAlways(event) == event # "none" /\ debug

\* _async_notify_debug: whether it sends, and the dedup key it leaves.
Notifies(event) == event # "none" /\ event # notified /\ debug

NotifiedAfter(event) ==
    CASE event = "none"  -> "none"
      [] Notifies(event) -> event
      [] OTHER           -> notified

-----------------------------------------------------------------------------
Init ==
    /\ config \in Configs
    /\ pipeline \in [last_valid : Seeds, last_event : {"none"}]
    /\ value = None
    /\ meta = [spike_rejections |-> 0, fallbacks |-> 0, unavailable_samples |-> 0]
    /\ notified = "none"
    /\ debug \in BOOLEAN
    /\ polls = 0
    /\ sample = None
    /\ shown = pipeline.last_valid
    /\ notice = [sent |-> 0, event |-> "none", since |-> FALSE]

\* One pass of the poll loop over this subentry.
Poll(s) ==
    LET input == PipelineInput(config, s)
        out   == ProcessSources(config, pipeline.last_valid, pipeline.last_event, input)
    IN  /\ polls < MaxPolls(config)
        /\ pipeline' = [last_valid |-> out.last_valid, last_event |-> out.last_event]
        /\ value' = out.value
        /\ meta' = UpdateMeta(meta, out.last_event, out.value)
        /\ notified' = NotifiedAfter(out.last_event)
        /\ polls' = polls + 1
        /\ sample' = s
        /\ shown' = IF out.value = None THEN shown ELSE out.value
        /\ notice' = IF Notifies(out.last_event)
                     THEN [sent |-> notice.sent + 1, event |-> out.last_event, since |-> FALSE]
                     ELSE [notice EXCEPT !.since = @ \/ out.last_event # notice.event]
        /\ UNCHANGED <<config, debug>>

\* The user flips the debug switch (an input_boolean HA owns).
ToggleDebug ==
    /\ debug' = ~debug
    /\ UNCHANGED <<config, pipeline, value, meta, notified,
                   polls, sample, shown, notice>>

Next ==
    \/ \E s \in Samples(config) : Poll(s)
    \/ ToggleDebug

Spec == Init /\ [][Next]_vars
-----------------------------------------------------------------------------
(* Properties.                                                             *)

Sources == DOMAIN sample.raws
Live    == {i \in Sources : sample.raws[i] \in Int}
Polled  == polls > 0

\* An alternate source is configured, allowed by its condition and alive.
FallbackAtHand ==
    /\ FallbackConditionMet(config, sample)
    /\ sample.fallback \in Int

TypeOK ==
    /\ config \in Configs
    /\ pipeline \in [last_valid : Int \cup {None}, last_event : PipelineEvents]
    /\ value \in Int \cup {None}
    /\ meta \in [spike_rejections : Nat, fallbacks : Nat, unavailable_samples : Nat]
    /\ notified \in PipelineEvents
    /\ debug \in BOOLEAN
    /\ polls \in 0..MaxPolls(config)
    /\ sample \in Samples(config) \cup {None}
    /\ shown \in Int \cup {None}
    /\ notice \in [sent : Nat, event : PipelineEvents, since : BOOLEAN]

\* REQ-COMP-001: while the spike filter is on, the published readings never go
\* down, neither below the seed, nor across polls without a value, nor when the
\* fallback source or the subtracted one takes the aggregate down.
NeverDrops ==
    [][config.spike_filter /\ value' # None /\ shown # None
         => value' = shown \/ ~(value' < shown)]_vars

\* Dead sources and the availability of the sensor.  Energy and water in "sum"
\* never report a partial sum: with a source down and no fallback at hand, there
\* is no value.  In the other modes one live source is enough for one, and none is
\* needed for power, whose consumers never see it unavailable (filters.py:84-93).
FailsClosedOrSoft ==
    Polled =>
        /\ (/\ ~IsFailSoft(config.device_type) /\ ~config.fallback_zero
            /\ config.aggregation = "sum"
            /\ Live # Sources /\ ~FallbackAtHand)
           => value = None
        /\ (\/ IsFailSoft(config.device_type)
            \/ config.aggregation # "sum" /\ Live # {})
           => value # None

\* A dead channel never wins: without fallback or guard, max, min and
\* first_available report the reading of a live source (filters.py:125-131).
DeadChannelNeverWins ==
    (/\ Polled /\ config.aggregation # "sum" /\ Live # {}
     /\ pipeline.last_event = "none")
    => \E i \in Live :
         NetSubtract(IF config.invert THEN -sample.raws[i] ELSE sample.raws[i],
                     sample.net_subtract) = value

\* Except for first_available the order of the sources means nothing: the set of
\* entities a user picks has one aggregate, whatever order it is stored in.
OrderIrrelevant ==
    (Polled /\ config.aggregation # "first_available")
    => \A p \in [Sources -> Sources] :
         (\A i, j \in Sources : p[i] = p[j] => i = j)
         => Aggregate(config, [i \in Sources |-> sample.raws[p[i]]])
              = Aggregate(config, sample.raws)

\* Debug events are deduplicated: the same text is sent again only if the sensor
\* was polled without that event in between (coordinator.py:254-269).
NoRepeatedNotice ==
    [][notice'.sent > notice.sent
         => notice'.event # notice.event \/ notice.since]_vars
=============================================================================
