---------------------------- MODULE MCSensorPoll ----------------------------
(* Small instances of SensorPoll: three sources for one poll, or one       *)
(* source for several polls in a row, that show two or three readings or   *)
(* one without a value, an optional subtracted source and an optional      *)
(* fallback.                                                               *)
EXTENDS SensorPoll

ConfigsOf(types, modes, spikes, inverts, zeros, on_zeros, fallbacks) ==
    [device_type : types, aggregation : modes, spike_filter : spikes, invert : inverts,
     fallback_zero : zeros, fallback_on_zero : on_zeros, fallback : fallbacks]

SamplesOf(n, states, nets, fallbacks) ==
    [raws : [1..n -> states], net_subtract : nets, fallback : fallbacks,
     condition_matches : BOOLEAN]

\* Aggregation: every mode and flag, all combinations of live and dead sources
\* in every order.
AggregationConfigs ==
    ConfigsOf({"power", "energy"}, AggregationModes, {FALSE}, BOOLEAN, BOOLEAN, BOOLEAN,
              {"off", "conditional"})
AggregationSamples ==
    SamplesOf(3, {Unavailable, NonFinite, 1, 3}, {Unavailable, 1}, {Unavailable, 2})

\* The guard and what is recorded about it: several polls in a row.
GuardConfigs ==
    ConfigsOf({"power", "energy"}, {"sum", "max"}, {TRUE}, {FALSE}, {FALSE}, BOOLEAN,
              {"off", "conditional"})
GuardSamples ==
    SamplesOf(1, {Unavailable, NonNumeric, 0, 1, 3}, {Unavailable}, {Unavailable, 2})

AllConfigs == AggregationConfigs \cup GuardConfigs
SamplesFor(c) == IF c.spike_filter THEN GuardSamples ELSE AggregationSamples
PollsOf(c) == IF c.spike_filter THEN 4 ELSE 1
AllSeeds == {None, 1}
=============================================================================
