------------------------- MODULE MCCoolingOptimizer -------------------------
(***************************************************************************)
(* Readings of the cooling optimizer for TLC: a warm zone, one under its   *)
(* setpoint, and one without cooling.                                      *)
(***************************************************************************)
EXTENDS CoolingOptimizer

MCReadings == {[warm |-> 1, allocated |-> 20], [warm |-> -2, allocated |-> 10],
               [warm |-> 2, allocated |-> 0]}
=============================================================================
