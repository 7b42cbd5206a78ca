---------------------------- MODULE MCPRCapacity ----------------------------
(* An instance of the pull-request capacity for TLC: two tasks, one slot,   *)
(* and the housekeeping that reads the inventory.                           *)
EXTENDS PRCapacity
=============================================================================
