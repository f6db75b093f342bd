---------------------------- MODULE MCDashboard -----------------------------
(***************************************************************************)
(* The sizes of the tables behind the dashboard for TLC.                   *)
(***************************************************************************)
EXTENDS Dashboard

MCMaxRows == [alarm |-> 2, pue_update |-> 2]
=============================================================================
