---------------------------- MODULE SensorService ----------------------------
(***************************************************************************)
(* What the integration promises its user, whatever reloads it takes: the  *)
(* sensors that run while it is up are one configuration, complete and     *)
(* unmixed, that the user had asked for at one instant since it was last   *)
(* brought down; and what runs never changes without going down first.     *)
(* Module Lifecycle implements this one.                                   *)
(***************************************************************************)
CONSTANTS
    Configurations,  \* what a user can ask for
    Down             \* nothing is running, no configuration

VARIABLES
    wanted,  \* the configuration the user has asked for last
    served,  \* the one that has been taken up
    up       \* the integration is loaded

serviceVars == <<wanted, served, up>>

ServiceInit ==
    /\ wanted \in Configurations
    /\ served = Down
    /\ up = FALSE

Ask ==
    /\ wanted' \in Configurations
    /\ UNCHANGED <<served, up>>

TakeUp ==
    /\ ~up
    /\ served' = wanted
    /\ UNCHANGED <<wanted, up>>

ComeUp ==
    /\ ~up
    /\ served # Down
    /\ up' = TRUE
    /\ UNCHANGED <<wanted, served>>

GoDown ==
    /\ up' = FALSE
    /\ served' \in {served, Down}
    /\ UNCHANGED wanted

ServiceNext == Ask \/ TakeUp \/ ComeUp \/ GoDown

ServiceSpec == ServiceInit /\ [][ServiceNext]_serviceVars
=============================================================================
