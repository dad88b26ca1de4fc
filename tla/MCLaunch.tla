------------------------------ MODULE MCLaunch ------------------------------
(***************************************************************************)
(* A small instance of Launch for TLC: two launches, which may overlap.    *)
(***************************************************************************)
EXTENDS Launch

CONSTANTS first, second
=============================================================================
