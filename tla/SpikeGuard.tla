----------------------------- MODULE SpikeGuard -----------------------------
(***************************************************************************)
(* The aggregate spike guard at the end of process_sources (filters.py):   *)
(* with the spike filter on, a total below the last valid value is         *)
(* replaced by that value.  A module of its own because the pipeline of    *)
(* one sensor and the life of the whole coordinator both turn on it.       *)
(***************************************************************************)
EXTENDS Integers

CONSTANT None  \* Python's None

ASSUME NoneIsNoNumber == None \notin Int

Spikes(config, last_value, total) ==
    /\ config.spike_filter
    /\ total # None
    /\ last_value # None
    /\ total < last_value

Guarded(config, last_value, total) ==
    IF Spikes(config, last_value, total) THEN last_value ELSE total

\* Mutant: a poll without a value forgets the last valid one.
LastValidForgetting(last_value, published) == published

\* What _last_valid_state becomes: a poll without a value leaves it alone.
LastValid(last_value, published) ==
    IF published = None THEN last_value ELSE published
=============================================================================
