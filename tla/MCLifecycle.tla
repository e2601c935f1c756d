----------------------------- MODULE MCLifecycle -----------------------------
(* Small instances of Lifecycle: one or two sensors, with the spike filter *)
(* on or off, and two readings, so that one can be below the other.        *)
EXTENDS Lifecycle

CONSTANTS a, b

TwoIds == {a, b}
OneId  == {a}

Guarded1 == [spike_filter |-> TRUE, source |-> "meter"]
Plain1   == [spike_filter |-> FALSE, source |-> "meter"]
OnlyGuarded   == {Guarded1}
BothConfigs   == {Guarded1, Plain1}

OneReading  == {1}
TwoReadings == {1, 2}

\* A user who holds a snapshot of every sensor.
FullBackup == {[entries |-> [i \in Ids |-> Guarded1], values |-> [i \in Ids |-> 1]]}
=============================================================================
