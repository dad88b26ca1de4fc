---------------------------- MODULE UndoHistory ----------------------------
(***************************************************************************)
(* What the undo system promises, without stacks, locks or threads: one    *)
(* line of commands and a position in it.  A new command replaces whatever *)
(* lay ahead of the position, undo and redo only move the position, and    *)
(* the line can be forgotten as a whole.                                   *)
(***************************************************************************)
EXTENDS Sequences, Naturals

CONSTANT Commands

VARIABLES line,      \* every command that can be undone or redone, in order
          position   \* how many of them are done

Init == line = <<>> /\ position = 0

Perform(c) ==
  /\ line' = Append(SubSeq(line, 1, position), c)
  /\ position' = position + 1

StepBack    == position > 0 /\ position' = position - 1 /\ UNCHANGED line
StepForward == position < Len(line) /\ position' = position + 1 /\ UNCHANGED line
Forget      == line' = <<>> /\ position' = 0

Next == (\E c \in Commands : Perform(c)) \/ StepBack \/ StepForward \/ Forget

Spec == Init /\ [][Next]_<<line, position>>
=============================================================================
