--------------------------- MODULE FilterPipeline ---------------------------
(***************************************************************************)
(* The filter pipeline of one numeric sensor subentry (filters.py).        *)
(*                                                                         *)
(* A raw state is what HA's state machine holds for a source entity: a     *)
(* number, or one of three kinds of text the parser refuses.  A missing    *)
(* entity, "none", "unknown" and "unavailable" are the same to every       *)
(* branch of the code and are one value, Unavailable.  Floats are          *)
(* integers; rounding is left out.                                         *)
(*                                                                         *)
(* The configuration of a pipeline is a record with the fields             *)
(*   device_type, aggregation, spike_filter, invert, fallback_zero,        *)
(*   fallback_on_zero                                                      *)
(* The operators are pure: what AbstractorFilterPipeline keeps between two *)
(* polls (_last_valid_state and last_event) is passed in and returned.     *)
(***************************************************************************)
EXTENDS SpikeGuard, FiniteSetsExt

CONSTANTS
    Unavailable,  \* a source without a value
    NonNumeric,   \* text float() refuses
    NonFinite     \* "nan" or "inf"

BadStates == {Unavailable, NonNumeric, NonFinite}

\* The unparseable states are no numbers.
ASSUME FilterAssumption ==
    /\ BadStates \cap Int = {}
    /\ None \notin BadStates

AggregationModes == {"sum", "max", "min", "first_available"}

PipelineEvents ==
    {"none", "source unavailable", "source non-numeric", "source non-finite",
     "fallback source used", "aggregate spike rejected"}

-----------------------------------------------------------------------------
(* One source.                                                             *)

\* Only power has the SOFT_ZERO contract among the numeric types; a type the
\* registry does not know is soft exactly when it is named "power" too.
IsFailSoft(device_type) == device_type = "power"

ParsePlain(raw) == IF raw \in Int THEN raw ELSE None

\* Mutant: every type fails soft.
HandleUnavailableSoft(config) == 0

HandleUnavailable(config) ==
    IF config.fallback_zero \/ IsFailSoft(config.device_type) THEN 0 ELSE None

\* process() with the spike filter switched off, as process_sources runs it.
ProcessSource(config, raw) ==
    IF ParsePlain(raw) = None THEN HandleUnavailable(config)
    ELSE IF config.invert THEN -ParsePlain(raw) ELSE ParsePlain(raw)

SourceEvent(raw) ==
    CASE raw = Unavailable -> "source unavailable"
      [] raw = NonNumeric  -> "source non-numeric"
      [] raw = NonFinite   -> "source non-finite"
      [] OTHER             -> "none"

-----------------------------------------------------------------------------
(* The loop over the sources.                                              *)

\* Mutant: the zero of a dead power source takes part in every mode.
VisitedWithZeros(config, raws) ==
    IF config.aggregation # "sum"
    THEN {i \in DOMAIN raws : ProcessSource(config, raws[i]) # None}
    ELSE {i \in DOMAIN raws : \A j \in 1..(i - 1) : ProcessSource(config, raws[j]) # None}

\* The sources the loop hands to process(): all of them up to the first one
\* that fails closed in "sum", only the parseable ones in the other modes.
Visited(config, raws) ==
    IF config.aggregation # "sum"
    THEN {i \in DOMAIN raws : ParsePlain(raws[i]) # None}
    ELSE {i \in DOMAIN raws : \A j \in 1..(i - 1) : ProcessSource(config, raws[j]) # None}

FailsClosed(config, raws) ==
    /\ config.aggregation = "sum"
    /\ \E i \in DOMAIN raws : ProcessSource(config, raws[i]) = None

\* Mutant: the sources are taken to come in ascending order.
AggregateValuesSorted(values, aggregation) ==
    CASE aggregation = "max" -> values[Max(DOMAIN values)]
      [] aggregation \in {"min", "first_available"} -> values[Min(DOMAIN values)]
      [] OTHER -> SumFunction(values)

\* The values are a function of their positions among the sources.
AggregateValues(values, aggregation) ==
    CASE aggregation = "max" -> Max(Range(values))
      [] aggregation = "min" -> Min(Range(values))
      [] aggregation = "first_available" -> values[Min(DOMAIN values)]
      [] OTHER -> SumFunction(values)

\* The combination of the sources, None when there is nothing to report.
Aggregate(config, raws) ==
    LET visited == Visited(config, raws)
    IN  IF FailsClosed(config, raws) THEN None
        ELSE IF visited # {}
             THEN AggregateValues([i \in visited |-> ProcessSource(config, raws[i])],
                                  config.aggregation)
        ELSE IF IsFailSoft(config.device_type) THEN 0 ELSE None

\* last_event after the loop: process() overwrites it for every source it is
\* handed, and nothing resets it when it is handed none.
LoopEvent(config, raws, last_event) ==
    LET visited == Visited(config, raws)
    IN  IF visited = {} THEN last_event ELSE SourceEvent(raws[Max(visited)])

-----------------------------------------------------------------------------
(* After the loop.                                                         *)

NetSubtract(total, net_subtract_raw) ==
    IF total # None /\ ParsePlain(net_subtract_raw) # None
    THEN total - ParsePlain(net_subtract_raw) ELSE total

\* Mutant: the state of the fallback source is taken as it is.
UsesFallbackUnparsed(config, total, fallback_raw, fallback_condition_met) ==
    /\ \/ total = None
       \/ config.fallback_on_zero /\ total = 0
    /\ fallback_condition_met

UsesFallback(config, total, fallback_raw, fallback_condition_met) ==
    /\ \/ total = None
       \/ config.fallback_on_zero /\ total = 0
    /\ fallback_condition_met
    /\ ParsePlain(fallback_raw) # None

\* process_sources(): the value it returns, whether the fallback supplied it,
\* and the two attributes it leaves behind.
ProcessSources(config, last_value, last_event, sample) ==
    LET primary  == NetSubtract(Aggregate(config, sample.raws), sample.net_subtract)
        fallback == UsesFallback(config, primary, sample.fallback,
                                 sample.fallback_condition_met)
        total    == IF fallback THEN sample.fallback ELSE primary
        spike    == Spikes(config, last_value, total)
        value    == Guarded(config, last_value, total)
    IN  [value           |-> value,
         last_valid      |-> LastValid(last_value, value),
         last_event      |-> IF spike THEN "aggregate spike rejected"
                             ELSE IF fallback THEN "fallback source used"
                             ELSE LoopEvent(config, sample.raws, last_event)]
=============================================================================
