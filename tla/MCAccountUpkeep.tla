-------------------------- MODULE MCAccountUpkeep --------------------------
(* AccountUpkeep with a background scan and one administrator's refresh.   *)
EXTENDS AccountUpkeep
============================================================================
