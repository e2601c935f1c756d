---------------------------- MODULE MCEnergySum ----------------------------
(* A small instance of EnergySum: two readings, one of them low enough to  *)
(* be rounded away, and a clock that is corrected in both directions.      *)
EXTENDS EnergySum

Corrections == {-2, 2}
=============================================================================
