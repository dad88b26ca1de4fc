---------------------------- MODULE MCLiveBridge ----------------------------
(***************************************************************************)
(* A small instance of LiveBridge for TLC: two clients.                    *)
(***************************************************************************)
EXTENDS LiveBridge

CONSTANTS agent, other
=============================================================================
