---------------------------- MODULE MCSquadPolling ----------------------------
(* The constants are numbers, given in the cfg. *)
EXTENDS SquadPolling
=============================================================================
