---------------------------- MODULE MCEventRouter ----------------------------
(***************************************************************************)
(* Bounds of the event router for TLC: how many items each source makes.   *)
(* Two PUE records suffice to trigger the optimizer while it works.        *)
(***************************************************************************)
EXTENDS EventRouter

MCLimit == [s \in Sources |-> IF s = "pue_update" THEN 2 ELSE 1]
=============================================================================
