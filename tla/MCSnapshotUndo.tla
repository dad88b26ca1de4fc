--------------------------- MODULE MCSnapshotUndo ---------------------------
(***************************************************************************)
(* Small instances of SnapshotUndo for TLC: scenes that load with one node.*)
(***************************************************************************)
EXTENDS SnapshotUndo

MCAuthored == <<1>>
=============================================================================
