----------------------------- MODULE UndoStacks -----------------------------
(***************************************************************************)
(* The two stacks of UtinniCoreDotNet/UndoRedo/UndoRedoManager.cs and the  *)
(* critical sections that change them.  Each operator below is the body of *)
(* one lock (syncRoot) block: nothing can come between its reads and its   *)
(* writes.  What a caller does before it takes the lock and after it       *)
(* releases it belongs to the modules that use this one.                   *)
(*                                                                         *)
(* The top of a stack is the last element of its sequence.                 *)
(***************************************************************************)
EXTENDS Sequences, SequencesExt

CONSTANTS Commands,  \* the IUndoCommand objects plugins may raise
          Absorbs    \* pairs <<top, new>>: top.AllowMerge() and top.Merge(new)

ASSUME AbsorbsAssumption == Absorbs \subseteq Commands \X Commands

VARIABLES undoCommands, redoCommands

stacks == <<undoCommands, redoCommands>>

\* The whole history, oldest command first: what can still be undone, then
\* what can be redone in the order Redo would take it.
Timeline == undoCommands \o Reverse(redoCommands)

EmptyStacks == undoCommands = <<>> /\ redoCommands = <<>>

TopAbsorbs(c) == undoCommands # <<>> /\ <<Last(undoCommands), c>> \in Absorbs

(***************************************************************************)
(* The critical sections.                                                  *)
(***************************************************************************)
\* The raised command goes into the top of the undo stack.
Absorb(c) ==
  /\ TopAbsorbs(c)
  /\ UNCHANGED stacks

\* A slip: the redo stack survives the push.
PushKeepingRedo(c) ==
  /\ ~TopAbsorbs(c)
  /\ undoCommands' = Append(undoCommands, c)
  /\ UNCHANGED redoCommands

\* The raised command becomes the new top, and the redo stack is dropped.
Push(c) ==
  /\ ~TopAbsorbs(c)
  /\ undoCommands' = Append(undoCommands, c)
  /\ redoCommands' = <<>>

\* A slip: Peek instead of Pop.
MoveToRedoByPeek ==
  /\ undoCommands # <<>>
  /\ redoCommands' = Append(redoCommands, Last(undoCommands))
  /\ UNCHANGED undoCommands

\* Undo moves the top of the undo stack to the redo stack; Redo moves it back.
MoveToRedo ==
  /\ undoCommands # <<>>
  /\ undoCommands' = Front(undoCommands)
  /\ redoCommands' = Append(redoCommands, Last(undoCommands))

MoveToUndo ==
  /\ redoCommands # <<>>
  /\ redoCommands' = Front(redoCommands)
  /\ undoCommands' = Append(undoCommands, Last(redoCommands))

DropAll ==
  /\ undoCommands' = <<>>
  /\ redoCommands' = <<>>
=============================================================================
