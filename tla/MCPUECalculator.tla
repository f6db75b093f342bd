--------------------------- MODULE MCPUECalculator ---------------------------
(***************************************************************************)
(* The plant of the PUE calculator for TLC.                                *)
(***************************************************************************)
EXTENDS PUECalculator

MCPower == [d \in Devices |-> d]
=============================================================================
