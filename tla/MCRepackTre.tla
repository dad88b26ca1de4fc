---------------------------- MODULE MCRepackTre ----------------------------
(***************************************************************************)
(* A small instance of RepackTre for TLC: two calls through the host, one  *)
(* run of the command line past it, a backup for each.                     *)
(***************************************************************************)
EXTENDS RepackTre

CONSTANTS first, second, past
=============================================================================
