----------------------------- MODULE MCOverlay -----------------------------
(***************************************************************************)
(* A small instance of Overlay for TLC: the poll and one or two callbacks  *)
(* of others, a window that is minimised and resized.                      *)
(***************************************************************************)
EXTENDS Overlay
=============================================================================
