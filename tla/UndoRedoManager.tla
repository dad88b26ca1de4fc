--------------------------- MODULE UndoRedoManager ---------------------------
(***************************************************************************)
(* UtinniCoreDotNet/UndoRedo/UndoRedoManager.cs with the title-bar buttons *)
(* FormMain hangs on its three callbacks.                                  *)
(*                                                                         *)
(* A caller is a thread: the UI thread (title-bar clicks, list drop-down)  *)
(* or the game thread (plugin edits raised inside update-loop calls, the   *)
(* Ctrl+Z hotkey that HotkeyManager runs from the pre-main-loop queue, the *)
(* scene cleanup callback).  A call takes the lock for its stack change    *)
(* only; the command's own Undo/Execute and the button refresh run after   *)
(* the lock is released, so calls of different threads interleave there.   *)
(***************************************************************************)
EXTENDS UndoStacks, FiniteSets

CONSTANTS Callers,  \* the threads that call the manager
          None      \* no command

ASSUME NoneAssumption == None \notin Commands

VARIABLES pc,            \* where each caller is in its current call
          held,          \* the command an Undo or Redo took from a stack
          seen,          \* the Count > 0 a refresh read, not yet written
          undoEnabled,   \* tbbtnUndo.Enabled
          redoEnabled,   \* tbbtnRedo.Enabled
          raised,        \* commands raised so far: each object is raised once
          applied        \* the world: commands whose change is in effect

calls == <<pc, held, seen>>
buttons == <<undoEnabled, redoEnabled>>
world == <<raised, applied>>
vars == <<undoCommands, redoCommands, pc, held, seen, undoEnabled, redoEnabled,
          raised, applied>>

Points == {"idle", "undoing", "redoing",
           "readUndo", "writeUndo", "readRedo", "writeRedo"}

Goto(t, point) == pc' = [pc EXCEPT ![t] = point]

Init ==
  /\ EmptyStacks
  /\ pc = [t \in Callers |-> "idle"]
  /\ held = [t \in Callers |-> None]
  /\ seen = [t \in Callers |-> FALSE]
  /\ undoEnabled = FALSE
  /\ redoEnabled = FALSE
  /\ raised = {}
  /\ applied = {}

(***************************************************************************)
(* The AddUndoCommand event handler.  A plugin raises a command for a      *)
(* change it has already made.                                             *)
(***************************************************************************)
RaiseAndPush(t, c) ==
  /\ pc[t] = "idle"
  /\ c \notin raised
  /\ Push(c)
  /\ raised' = raised \cup {c}
  /\ applied' = applied \cup {c}
  /\ Goto(t, "readUndo")
  /\ UNCHANGED <<held, seen, undoEnabled, redoEnabled>>

\* A merged command stays the top's affair and refreshes nothing.
RaiseAndMerge(t, c) ==
  /\ pc[t] = "idle"
  /\ c \notin raised
  /\ Absorb(c)
  /\ raised' = raised \cup {c}
  /\ UNCHANGED <<pc, held, seen, undoEnabled, redoEnabled, applied>>

(***************************************************************************)
(* Undo and Redo: the stack change under the lock, then the command's own  *)
(* effect without it.  Undo(count) and Redo(count) are these calls in a    *)
(* row.                                                                    *)
(***************************************************************************)
UndoTakes(t) ==
  /\ pc[t] = "idle"
  /\ MoveToRedo
  /\ held' = [held EXCEPT ![t] = Last(undoCommands)]
  /\ Goto(t, "undoing")
  /\ UNCHANGED <<seen, undoEnabled, redoEnabled, raised, applied>>

UndoRuns(t) ==
  /\ pc[t] = "undoing"
  /\ applied' = applied \ {held[t]}
  /\ held' = [held EXCEPT ![t] = None]
  /\ Goto(t, "readUndo")
  /\ UNCHANGED <<undoCommands, redoCommands, seen, undoEnabled, redoEnabled, raised>>

\* A slip: the command to run is peeked before the move instead of popped by it.
RedoTakesOldTop(t) ==
  /\ pc[t] = "idle"
  /\ MoveToUndo
  /\ held' = [held EXCEPT ![t] = IF undoCommands = <<>> THEN None ELSE Last(undoCommands)]
  /\ Goto(t, "redoing")
  /\ UNCHANGED <<seen, undoEnabled, redoEnabled, raised, applied>>

RedoTakes(t) ==
  /\ pc[t] = "idle"
  /\ MoveToUndo
  /\ held' = [held EXCEPT ![t] = Last(redoCommands)]
  /\ Goto(t, "redoing")
  /\ UNCHANGED <<seen, undoEnabled, redoEnabled, raised, applied>>

RedoRuns(t) ==
  /\ pc[t] = "redoing"
  /\ applied' = applied \cup {held[t]}
  /\ held' = [held EXCEPT ![t] = None]
  /\ Goto(t, "readUndo")
  /\ UNCHANGED <<undoCommands, redoCommands, seen, undoEnabled, redoEnabled, raised>>

\* A slip: the callback is not called after a Clear.
ClearUnseen(t) ==
  /\ pc[t] = "idle"
  /\ DropAll
  /\ UNCHANGED <<pc, held, seen, undoEnabled, redoEnabled, raised, applied>>

\* Clear, called by a plugin or by the scene cleanup callback.
Clear(t) ==
  /\ pc[t] = "idle"
  /\ DropAll
  /\ Goto(t, "readUndo")
  /\ UNCHANGED <<held, seen, undoEnabled, redoEnabled, raised, applied>>

(***************************************************************************)
(* The three callbacks FormMain passes in have one body: for each button,  *)
(* read the count of its stack and set Enabled, all outside the lock.      *)
(***************************************************************************)
ReadUndoCount(t) ==
  /\ pc[t] = "readUndo"
  /\ seen' = [seen EXCEPT ![t] = undoCommands # <<>>]
  /\ Goto(t, "writeUndo")
  /\ UNCHANGED <<undoCommands, redoCommands, held, undoEnabled, redoEnabled, raised, applied>>

EnableUndo(t) ==
  /\ pc[t] = "writeUndo"
  /\ undoEnabled' = seen[t]
  /\ Goto(t, "readRedo")
  /\ UNCHANGED <<undoCommands, redoCommands, held, seen, redoEnabled, raised, applied>>

ReadRedoCount(t) ==
  /\ pc[t] = "readRedo"
  /\ seen' = [seen EXCEPT ![t] = redoCommands # <<>>]
  /\ Goto(t, "writeRedo")
  /\ UNCHANGED <<undoCommands, redoCommands, held, undoEnabled, redoEnabled, raised, applied>>

EnableRedo(t) ==
  /\ pc[t] = "writeRedo"
  /\ redoEnabled' = seen[t]
  /\ Goto(t, "idle")
  /\ UNCHANGED <<undoCommands, redoCommands, held, seen, undoEnabled, raised, applied>>

Refresh(t) ==
  ReadUndoCount(t) \/ EnableUndo(t) \/ ReadRedoCount(t) \/ EnableRedo(t)

Next ==
  \E t \in Callers :
    \/ \E c \in Commands : RaiseAndPush(t, c) \/ RaiseAndMerge(t, c)
    \/ UndoTakes(t) \/ UndoRuns(t)
    \/ RedoTakes(t) \/ RedoRuns(t)
    \/ Clear(t)
    \/ Refresh(t)

Spec == Init /\ [][Next]_vars

-----------------------------------------------------------------------------
(***************************************************************************)
(* Properties.                                                             *)
(***************************************************************************)
\* The variables hold what their comments say.
TypeOK ==
  /\ undoCommands \in Seq(Commands)
  /\ redoCommands \in Seq(Commands)
  /\ pc \in [Callers -> Points]
  /\ held \in [Callers -> Commands \cup {None}]
  /\ seen \in [Callers -> BOOLEAN]
  /\ undoEnabled \in BOOLEAN
  /\ redoEnabled \in BOOLEAN
  /\ raised \subseteq Commands
  /\ applied \subseteq Commands

\* However the calls of several threads interleave (AddUndoCommand, Undo, Redo,
\* Clear), a command is never in the history twice: not twice on one stack, and
\* never undoable and redoable at once.
NoCommandTwice ==
  /\ \A i, j \in DOMAIN undoCommands :
       undoCommands[i] = undoCommands[j] => i = j
  /\ \A i, j \in DOMAIN redoCommands :
       redoCommands[i] = redoCommands[j] => i = j
  /\ \A i \in DOMAIN undoCommands, j \in DOMAIN redoCommands :
       undoCommands[i] # redoCommands[j]

Quiet == \A t \in Callers : pc[t] = "idle"
UndoButtonRight == undoEnabled = (undoCommands # <<>>)
RedoButtonRight == redoEnabled = (redoCommands # <<>>)

\* When no call is in progress, each title-bar button is enabled exactly when its
\* stack has something on it (UndoRedoManager.cs: the buttons "disable correctly
\* because onUpdateCommandsCallback re-reads the counts").
ButtonsFollowStacks == Quiet => UndoButtonRight /\ RedoButtonRight

\* The two stacks under concurrent calls are one line of commands with a
\* position, changed in one step by each call (UndoHistory).
History == INSTANCE UndoHistory
             WITH line <- Timeline, position <- Len(undoCommands)

OneLineOfHistory == History!Spec
=============================================================================
