---------------------------- MODULE UndoRedoRaces ----------------------------
(***************************************************************************)
(* UndoRedoManager with a record of its races, to say what remains true    *)
(* while any number of threads push, undo, redo and clear.  The variables  *)
(* added here are history: no step of the program depends on them.         *)
(*                                                                         *)
(* Two things in the manager happen after the lock is released.  A command *)
(* runs its effect, so another thread may take the same command back and   *)
(* run the opposite effect first; and a refresh writes to a button what it *)
(* read of a stack that another thread may have changed since.             *)
(***************************************************************************)
EXTENDS UndoRedoManager

VARIABLES
  contested,  \* commands taken while another call was still about to run them
  overtaken,  \* refreshes between read and write whose stack has since changed
  late        \* buttons last written by such a refresh

history == <<contested, overtaken, late>>

Buttons == {"undo", "redo"}

\* The calls that took c from a stack and have yet to run it.
Holders(c) == {t \in Callers : pc[t] \in {"undoing", "redoing"} /\ held[t] = c}

\* Whether c is contested is decided when it is taken.
Contest ==
  contested' = {c \in Commands : IF Holders(c)' \subseteq Holders(c)
                                 THEN c \in contested
                                 ELSE Holders(c) # {}}

Overtake ==
  overtaken' = {t \in Callers : /\ pc[t] \in {"writeUndo", "writeRedo"}
                                /\ pc'[t] = pc[t]
                                /\ t \in overtaken \/ stacks' # stacks}

Writes(t, button) ==
  /\ pc[t] = (IF button = "undo" THEN "writeUndo" ELSE "writeRedo")
  /\ pc'[t] # pc[t]

WriteLate ==
  late' = {button \in Buttons : IF \E t \in Callers : Writes(t, button)
                                THEN \E t \in overtaken : Writes(t, button)
                                ELSE button \in late}

RacesInit == Init /\ contested = {} /\ overtaken = {} /\ late = {}
RacesNext == Next /\ Contest /\ Overtake /\ WriteLate
RacesSpec == RacesInit /\ [][RacesNext]_<<vars, history>>

-----------------------------------------------------------------------------
(***************************************************************************)
(* Properties.                                                             *)
(***************************************************************************)
UndoPending(c) == \E t \in Callers : pc[t] = "undoing" /\ held[t] = c
RedoPending(c) == \E t \in Callers : pc[t] = "redoing" /\ held[t] = c

\* The stacks tell the truth about the world, whichever threads undo, redo, push and
\* clear: an undoable command is in effect or its Execute is about to run, a redoable
\* one is not in effect or its Undo is about to run; but for a command that was taken
\* while another thread was still about to run its effect, whose two effects may come
\* in the other order.  Taken once more, that command is as good as any.
StacksDescribeWorld ==
  /\ \A c \in ToSet(undoCommands) : c \in applied \/ RedoPending(c) \/ c \in contested
  /\ \A c \in ToSet(redoCommands) : c \notin applied \/ UndoPending(c) \/ c \in contested

\* Every change of a stack is followed by a refresh, so that a button which is wrong
\* when no call is in progress was written last by a refresh that another thread's
\* change overtook between its read and its write.
WrongButtonsAreLate ==
  Quiet => /\ UndoButtonRight \/ "undo" \in late
           /\ RedoButtonRight \/ "redo" \in late
=============================================================================
