-------------------------- MODULE MCUndoRedoManager --------------------------
(***************************************************************************)
(* Small instances of UndoRedoManager and UndoRedoRaces for TLC.           *)
(***************************************************************************)
EXTENDS UndoRedoRaces

CONSTANTS c1, c2, c3, ui, game

MCThree == {c1, c2, c3}
MCTwo   == {c1, c2}

\* Two commands of which the first merges the second, e.g. two slider drags.
MCMerging == {<<c1, c2>>}
MCNothing == {}
=============================================================================
