---------------------------- MODULE SnapshotUndo ----------------------------
(***************************************************************************)
(* Editing a world snapshot with undo: the UI thread, the game thread and  *)
(* the queue between them.                                                 *)
(*                                                                         *)
(* A button of an editor plugin (sdk/examples/ExampleEditorPlugin) puts an *)
(* edit on the update-loop queue of GroundSceneCallbacks.  The game thread *)
(* drains that queue once per frame while a scene is alive; an edit        *)
(* changes the node list and raises an undo command.  Undo and Redo take a *)
(* command from the stacks at once (UndoStacks) and put the command's      *)
(* effect on the same queue, to be run in a later drain.  A scene change   *)
(* tears the snapshot down and then clears the stacks.                     *)
(*                                                                         *)
(* Two families of commands exist: the classic ones of                     *)
(* WorldSnapshotCommands.cs, whose removals resolve "the last node", and   *)
(* the live ones of LiveWorldSnapshotCommands.cs, which name a node by id. *)
(* Both add and remove; only the classic one has a command for a rotation. *)
(* Only top-level nodes are modelled, each with one attribute, its facing. *)
(***************************************************************************)
EXTENDS Naturals, FiniteSets, Sequences, SequencesExt

CONSTANTS
  Authored,      \* ids of the nodes every scene loads with, in the list's order: the
                 \* lowest ids, since the generator starts from the highest one in use
  Facings,       \* what a node can face
  Families,      \* the families of the plugins' adds and removals: "live", "classic"
  Kinds,         \* the edits the user makes: a subset of {"add","remove","turn"}
  Hotkeys,       \* TRUE: Undo and Redo also come from the Ctrl+Z/Ctrl+Y hotkeys
  Patient,       \* TRUE: the user waits for one action to settle before the next
  Occupiable,    \* TRUE: somebody may stand in a node the live remove is asked for
  MaxEdits, MaxScenes, MaxQueue, MaxNodes   \* bounds on what the user does: see UserMayAct

ASSUME SnapshotAssumption ==
  /\ Authored \in Seq(1..Len(Authored))
  /\ Cardinality(ToSet(Authored)) = Len(Authored)
  /\ Facings # {}
  /\ Kinds \subseteq {"add", "remove", "turn"}
  /\ Families \subseteq {"live", "classic"}
  /\ {Hotkeys, Patient, Occupiable} \subseteq BOOLEAN
  /\ {MaxEdits, MaxQueue, MaxNodes} \subseteq Nat /\ MaxScenes \in Nat \ {0}

VARIABLES
  undoCommands, redoCommands,  \* the manager's stacks
  taken,          \* per thread: the effect an Undo/Redo is about to queue
  preQueue,       \* preMainLoopCallQueue: Undo and Redo hotkeys
  updateQueue,    \* updateLoopCallQueue: edits and effects
  phase,          \* where the game thread is in its frame
  remaining,      \* what is left of the drain in progress
  snapshot,       \* the node list of the scene, in order
  alive, scene,   \* is a scene loaded, and how many were so far
  highestId,      \* the last node id given out
  edits,          \* edit clicks so far
  strays,         \* has an effect run in a later scene than its command's
  wrong,          \* has a removal hit another node than its command's
  refused         \* was a live removal refused because the node is occupied

flags == <<strays, wrong, refused>>
manager == <<undoCommands, redoCommands>>
frame == <<phase, remaining>>
place == <<snapshot, alive, scene, highestId>>
vars == <<undoCommands, redoCommands, taken, preQueue, updateQueue, phase,
          remaining, snapshot, alive, scene, highestId, edits,
          strays, wrong, refused>>

Threads == {"ui", "game"}
FamiliesOf(kind) == IF kind = "turn" THEN {"classic"} ELSE Families
Ids == 1..(Len(Authored) + MaxEdits)
Node == [id : Ids, facing : Facings]
Command == [kind : {"add", "remove", "turn"}, family : {"live", "classic"}, id : Ids,
            before : Facings, after : Facings, scene : 1..MaxScenes]
\* A queued call: an edit click, or an effect with the command it belongs to.
Edit   == {e \in [call : {"edit"}, kind : Kinds, family : {"live", "classic"}] :
             e.family \in FamiliesOf(e.kind)}
Effect == [call : {"undo", "redo"}, cmd : Command]
Nothing == [call |-> "none"]

Stacks == INSTANCE UndoStacks WITH Commands <- Command, Absorbs <- {}

AuthoredNodes(f) == [i \in DOMAIN Authored |-> [id |-> Authored[i], facing |-> f]]
DefaultFacing == CHOOSE f \in Facings : TRUE
IdsOf(nodes) == {nodes[i].id : i \in DOMAIN nodes}

Settled ==
  /\ preQueue = <<>> /\ updateQueue = <<>> /\ remaining = 0
  /\ \A t \in Threads : taken[t] = Nothing

\* The user stops clicking while a queue is long or the node list has outgrown its
\* bound (classic replays can append without end).
UserMayAct ==
  /\ Patient => Settled /\ alive
  /\ Len(preQueue) < MaxQueue /\ Len(updateQueue) < MaxQueue
  /\ Len(snapshot) <= MaxNodes

Init ==
  /\ Stacks!EmptyStacks
  /\ taken = [t \in Threads |-> Nothing]
  /\ preQueue = <<>> /\ updateQueue = <<>>
  /\ phase = "pre" /\ remaining = 0
  /\ snapshot = AuthoredNodes(DefaultFacing)
  /\ alive = TRUE /\ scene = 1
  /\ highestId = Len(Authored)
  /\ edits = 0
  /\ strays = FALSE /\ wrong = FALSE /\ refused = FALSE

(***************************************************************************)
(* The UI thread.                                                          *)
(***************************************************************************)
ClickEdit(kind, family) ==
  /\ UserMayAct /\ edits < MaxEdits
  /\ taken["ui"] = Nothing
  /\ updateQueue' = Append(updateQueue, [call |-> "edit", kind |-> kind, family |-> family])
  /\ edits' = edits + 1
  /\ UNCHANGED <<manager, taken, preQueue, frame, place, flags>>

PressHotkey(what) ==
  /\ Hotkeys /\ UserMayAct
  /\ taken["ui"] = Nothing
  /\ preQueue' = Append(preQueue, what)
  /\ UNCHANGED <<manager, taken, updateQueue, frame, place, edits, flags>>

\* The half of Undo and Redo under the lock.
TakeUndo(t) ==
  /\ Stacks!MoveToRedo
  /\ taken' = [taken EXCEPT ![t] = [call |-> "undo", cmd |-> Last(undoCommands)]]

TakeRedo(t) ==
  /\ Stacks!MoveToUndo
  /\ taken' = [taken EXCEPT ![t] = [call |-> "redo", cmd |-> Last(redoCommands)]]

ClickUndoOrRedo ==
  /\ UserMayAct /\ taken["ui"] = Nothing
  /\ TakeUndo("ui") \/ TakeRedo("ui")
  /\ UNCHANGED <<preQueue, updateQueue, frame, place, edits, flags>>

\* The other half: the command's Undo or Execute queues its effect.
QueueEffect(t) ==
  /\ taken[t] # Nothing
  /\ updateQueue' = Append(updateQueue, taken[t])
  /\ taken' = [taken EXCEPT ![t] = Nothing]
  /\ UNCHANGED <<manager, preQueue, frame, place, edits, flags>>

(***************************************************************************)
(* The game thread: one frame is the pre-main-loop drain, the update-loop  *)
(* drain if a scene is alive, and the end of the frame, where the scene    *)
(* may change.  Each drain runs what its queue held when it began.         *)
(***************************************************************************)
RunHotkey ==
  /\ phase = "pre" /\ remaining > 0 /\ taken["game"] = Nothing
  /\ preQueue' = Tail(preQueue)
  /\ remaining' = remaining - 1
  /\ CASE Head(preQueue) = "undo" /\ undoCommands # <<>> -> TakeUndo("game")
       [] Head(preQueue) = "redo" /\ redoCommands # <<>> -> TakeRedo("game")
       [] OTHER -> UNCHANGED <<undoCommands, redoCommands, taken>>
  /\ UNCHANGED <<updateQueue, phase, place, edits, flags>>

BeginUpdate ==
  /\ phase = "pre" /\ remaining = 0 /\ taken["game"] = Nothing
  /\ phase' = IF alive THEN "update" ELSE "end"
  /\ remaining' = IF alive THEN Len(updateQueue) ELSE 0
  /\ UNCHANGED <<manager, taken, preQueue, updateQueue, place, edits, flags>>

\* A slip: the id generator runs once for the node and once for the list.
EditAddSkippingIds(family) ==
  \/ /\ highestId' = highestId + 2
     /\ \E f \in Facings :
          /\ snapshot' = Append(snapshot, [id |-> highestId', facing |-> f])
          /\ Stacks!Push([kind |-> "add", family |-> family, id |-> highestId', scene |-> scene,
                          before |-> f, after |-> f])
  \/ UNCHANGED <<snapshot, undoCommands, redoCommands, highestId>>

\* WorldSnapshot.CreateAddNode: a fresh id at the end of the list, then the command;
\* or null, before an id is drawn, for a template or a parent it cannot use.
EditAdd(family) ==
  \/ /\ highestId' = highestId + 1
     /\ \E f \in Facings :
          /\ snapshot' = Append(snapshot, [id |-> highestId', facing |-> f])
          /\ Stacks!Push([kind |-> "add", family |-> family, id |-> highestId', scene |-> scene,
                          before |-> f, after |-> f])
  \/ UNCHANGED <<snapshot, undoCommands, redoCommands, highestId>>

\* The player's target, if it is a snapshot node: raise the command, remove it.
EditRemove(family) ==
  /\ UNCHANGED highestId
  /\ \/ \E i \in DOMAIN snapshot :
          /\ snapshot' = RemoveAt(snapshot, i)
          /\ Stacks!Push([kind |-> "remove", family |-> family, id |-> snapshot[i].id, scene |-> scene,
                          before |-> snapshot[i].facing, after |-> snapshot[i].facing])
     \/ UNCHANGED <<snapshot, undoCommands, redoCommands>>

\* The gizmo turned the target's object: raise the command, turn the node.
EditTurn(family) ==
  /\ UNCHANGED highestId
  /\ \/ \E i \in DOMAIN snapshot, f \in Facings :
          /\ snapshot' = [snapshot EXCEPT ![i].facing = f]
          /\ Stacks!Push([kind |-> "turn", family |-> family, id |-> snapshot[i].id, scene |-> scene,
                          before |-> snapshot[i].facing, after |-> f])
     \/ UNCHANGED <<snapshot, undoCommands, redoCommands>>

\* A slip: the replay does not look whether its id is taken.
AddNodeUnchecked(c, f) ==
  /\ snapshot' = Append(snapshot, [id |-> c.id, facing |-> f])
  /\ UNCHANGED <<wrong, refused>>

\* The classic replay appends whatever is there already; the live replay fails on
\* an id that is taken.
AddNode(c, f) ==
  /\ snapshot' = IF c.family = "live" /\ c.id \in IdsOf(snapshot) THEN snapshot
                 ELSE Append(snapshot, [id |-> c.id, facing |-> f])
  /\ UNCHANGED <<wrong, refused>>

\* The classic removal of a top-level node resolves LastNode, nodeList->back():
\* on an empty list that read is undefined; it is taken here to find nothing.
RemoveLastNode(c) ==
  /\ snapshot' = IF snapshot = <<>> THEN snapshot ELSE Front(snapshot)
  /\ wrong' = (wrong \/ (snapshot # <<>> /\ Last(snapshot).id # c.id))
  /\ UNCHANGED refused

\* The live removal: removed, a miss, or refused because the node is occupied.
RemoveById(c) ==
  /\ \/ \E i \in DOMAIN snapshot :
          /\ snapshot[i].id = c.id /\ snapshot' = RemoveAt(snapshot, i)
          /\ UNCHANGED refused
     \/ c.id \notin IdsOf(snapshot) /\ UNCHANGED <<snapshot, refused>>
     \/ /\ Occupiable /\ c.id \in IdsOf(snapshot)
        /\ UNCHANGED snapshot
        /\ refused' = TRUE
  /\ UNCHANGED wrong

\* A slip: the live family removes like the classic one.
RemoveNodeAtTheEnd(c) == RemoveLastNode(c)

RemoveNode(c) == IF c.family = "live" THEN RemoveById(c) ELSE RemoveLastNode(c)

\* SetRotation resolves the node by id and bails when there is none.
TurnNode(c, f) ==
  /\ snapshot' = [i \in DOMAIN snapshot |->
                    IF snapshot[i].id = c.id THEN [snapshot[i] EXCEPT !.facing = f]
                                             ELSE snapshot[i]]
  /\ UNCHANGED <<wrong, refused>>

RunEffect(call, c) ==
  /\ CASE c.kind = "add"    -> IF call = "redo" THEN AddNode(c, c.after) ELSE RemoveNode(c)
       [] c.kind = "remove" -> IF call = "redo" THEN RemoveNode(c) ELSE AddNode(c, c.before)
       [] c.kind = "turn"   -> TurnNode(c, IF call = "redo" THEN c.after ELSE c.before)
  /\ strays' = (strays \/ c.scene # scene)
  /\ UNCHANGED <<undoCommands, redoCommands, highestId>>

RunEdit(edit) ==
  /\ CASE edit.kind = "add"    -> EditAdd(edit.family)
       [] edit.kind = "remove" -> EditRemove(edit.family)
       [] edit.kind = "turn"   -> EditTurn(edit.family)
  /\ UNCHANGED flags

RunUpdateCall ==
  /\ phase = "update" /\ remaining > 0
  /\ updateQueue' = Tail(updateQueue)
  /\ remaining' = remaining - 1
  /\ LET next == Head(updateQueue) IN
       IF next.call = "edit" THEN RunEdit(next) ELSE RunEffect(next.call, next.cmd)
  /\ UNCHANGED <<taken, preQueue, phase, alive, scene, edits>>

EndUpdate ==
  /\ phase = "update" /\ remaining = 0
  /\ phase' = "end"
  /\ UNCHANGED <<manager, taken, preQueue, updateQueue, remaining, place, edits, flags>>

\* A slip: the pre-main-loop queue is never drained.
NextFrameWithoutHotkeys ==
  /\ phase = "end"
  /\ phase' = "pre" /\ remaining' = 0
  /\ UNCHANGED <<manager, taken, preQueue, updateQueue, place, edits, flags>>

NextFrame ==
  /\ phase = "end"
  /\ phase' = "pre" /\ remaining' = Len(preQueue)
  /\ UNCHANGED <<manager, taken, preQueue, updateQueue, place, edits, flags>>

\* hkCleanupScene: the engine tears the scene down, then the callbacks run.
Teardown ==
  /\ phase = "end" /\ alive /\ scene < MaxScenes
  /\ alive' = FALSE /\ snapshot' = <<>>
  /\ phase' = "cleanup"
  /\ UNCHANGED <<manager, taken, preQueue, updateQueue, remaining, scene,
                 highestId, edits, flags>>

\* A slip: the clear forgets the redo stack.
ClearUndoOnly ==
  /\ phase = "cleanup"
  /\ undoCommands' = <<>>
  /\ UNCHANGED redoCommands
  /\ phase' = "pre" /\ remaining' = Len(preQueue)
  /\ UNCHANGED <<taken, preQueue, updateQueue, place, edits, flags>>

ClearOnCleanup ==
  /\ phase = "cleanup"
  /\ Stacks!DropAll
  /\ phase' = "pre" /\ remaining' = Len(preQueue)
  /\ UNCHANGED <<taken, preQueue, updateQueue, place, edits, flags>>

\* The engine sets the next scene up, which loads its snapshot.  The ids go on from where
\* they were: generateHighestId looks through all snapshot files once, at the install.
LoadScene ==
  /\ phase = "end" /\ ~alive
  /\ alive' = TRUE /\ scene' = scene + 1
  /\ snapshot' = AuthoredNodes(DefaultFacing)
  /\ phase' = "pre" /\ remaining' = Len(preQueue)
  /\ UNCHANGED <<manager, taken, preQueue, updateQueue, highestId, edits, flags>>

User ==
  \/ \E kind \in Kinds : \E family \in FamiliesOf(kind) : ClickEdit(kind, family)
  \/ \E what \in {"undo", "redo"} : PressHotkey(what)
  \/ ClickUndoOrRedo

Game ==
  \/ RunHotkey \/ BeginUpdate \/ RunUpdateCall \/ EndUpdate \/ NextFrame
  \/ Teardown \/ ClearOnCleanup \/ LoadScene

Next == User \/ Game \/ \E t \in Threads : QueueEffect(t)

\* A thread that is inside a call or a frame goes on; the user need not do anything.
Fairness ==
  /\ \A t \in Threads : WF_vars(QueueEffect(t))
  /\ WF_vars(RunHotkey \/ BeginUpdate \/ RunUpdateCall \/ EndUpdate
             \/ NextFrame \/ ClearOnCleanup)

Spec == Init /\ [][Next]_vars /\ Fairness

-----------------------------------------------------------------------------
(***************************************************************************)
(* Properties.                                                             *)
(***************************************************************************)
TypeOK ==
  /\ undoCommands \in Seq(Command) /\ redoCommands \in Seq(Command)
  /\ taken \in [Threads -> Effect \cup {Nothing}]
  /\ preQueue \in Seq({"undo", "redo"})
  /\ updateQueue \in Seq(Edit \cup Effect)
  /\ phase \in {"pre", "update", "end", "cleanup"}
  /\ remaining \in Nat
  /\ snapshot \in Seq(Node)
  /\ alive \in BOOLEAN /\ scene \in 1..MaxScenes
  /\ highestId \in Ids \cup {0} /\ edits \in 0..MaxEdits
  /\ {strays, wrong, refused} \subseteq BOOLEAN

\* While a scene is alive, nothing on the stacks was made in an earlier one, even
\* when the user goes on clicking and the hotkeys go on firing through the teardown:
\* a taken command is moved from stack to stack under the lock, never put back later.
HistoryBelongsToScene ==
  alive => \A c \in ToSet(undoCommands) \cup ToSet(redoCommands) : c.scene = scene

\* What the done commands make of the authored scene.
Redone(nodes, c) ==
  CASE c.kind = "add"    -> nodes \cup {[id |-> c.id, facing |-> c.after]}
    [] c.kind = "remove" -> {n \in nodes : n.id # c.id}
    [] c.kind = "turn"   -> {IF n.id = c.id THEN [n EXCEPT !.facing = c.after] ELSE n : n \in nodes}

\* Once everything has settled, no removal was refused and no effect of an earlier
\* scene has run, the snapshot is the authored one with the commands on the undo stack
\* done to it, oldest first: undo and redo bring back exactly the nodes that were
\* there, with the facing they had, in the first scene and in those loaded after it.
SnapshotIsHistory ==
  Settled /\ alive /\ ~refused /\ ~strays =>
    ToSet(snapshot) = FoldLeft(Redone, ToSet(AuthoredNodes(DefaultFacing)), undoCommands)

\* The live commands never put two nodes with one id into the snapshot, also when
\* the replay of a refused removal finds its id still taken.
IdsAreUnique ==
  \A i, j \in DOMAIN snapshot : snapshot[i].id = snapshot[j].id => i = j

\* docs/ai/undo-redo.md: undo history does not reach past a scene change, because
\* snapshot identities do not survive it.  No undo or redo effect runs in a scene
\* other than the one its command was made in.
NoEffectInALaterScene == ~strays

\* WorldSnapshotCommands.cs: a removal must "fetch the actual node first".  The node
\* a command removes is the node the command is about.
RemovesItsOwnNode == ~wrong

\* A user who waits for the last action to take effect never waits forever, unless
\* the scene goes away: what was taken is queued, and every drain makes progress.
NobodyWaitsForever == Patient => (~Settled ~> Settled \/ ~alive)
=============================================================================
