# Utinni in TLA+

Utinni is an editor that lives inside a game client. A launcher injects `UtinniCore`
(C++), which hooks the engine's loop and scene functions and starts `UtinniCoreDotNet`
(C#): undo, editors for the game's file formats, a plugin host and, for agents, a *live
bridge* that a separate process (`Utinni.Mcp`) talks to over a named pipe. What is hard
in it is not any one function. It is that a UI thread, the game thread and a pipe worker
share stacks, queues and flags, that every change to the world is asked for in one
place and made in another, frames later, and that launching a client or overwriting an
archive may stop between any two steps.

These modules describe those parts, check them with TLC on small instances and prove the
ones that matter most with TLAPS for all instances.

- [Inventory](#inventory)
- [The modules and the code](#the-modules-and-the-code)
- [What each run shows](#what-each-run-shows)
- [Bounds](#bounds)
- [Fairness](#fairness)
- [What is proved](#what-is-proved)
- [Where the code and its words disagree](#where-the-code-and-its-words-disagree)
- [What is not modelled](#what-is-not-modelled)
- [Plan](#plan)

To check a model: `tlc -config UndoRedoThreads.cfg MCUndoRedoManager`. To check a
proof: `tlapm UndoRedoManager_proofs.tla`.

## Inventory

Paths are below the repository root; `Net` is `UtinniCoreDotNet`.

| Component | State | Operations | Talks to | Hard because |
|---|---|---|---|---|
| Undo manager, `Net/UndoRedo/UndoRedoManager.cs` | two stacks under one lock | `AddUndoCommand` (with merge), `Undo`, `Redo`, `Clear`, three callbacks | commands, `FormMain`, plugins, the cleanup callback | calls of two threads; a command's effect and the button refresh run after the lock is released |
| Title-bar buttons, `Net/UI/Forms/FormMain.cs` | two `Enabled` flags | refresh after every manager call, click, drop-down | undo manager | read, then write, on whichever thread called |
| Snapshot commands, `Net/Commands/*WorldSnapshot*.cs` | a node record per command | `Execute`, `Undo` | update-loop queue, native snapshot | effect runs later than the stacks change; node looked up late |
| World snapshot, `UtinniCore/swg/scene/world_snapshot.cpp` | node list, highest id | add, remove, look up, `reload` | engine objects | an id may be taken or gone, the list empty |
| Callback queues, `Net/Callbacks` | one `ConcurrentQueue` per place in the frame, subscriber tables | enqueue, bounded drain, subscribe, dispatch | everyone | enqueue during the drain; scene teardown between two drains |
| Frame loop, `UtinniCore/swg/game/game.cpp`, `scene/ground_scene.cpp` | engine's scene, callback vectors | main loop, update loop, setup and cleanup hooks | callback queues | the order of drains and teardown in one frame |
| Hotkeys, `Net/Hotkeys` | table of keys, pressed modifiers | process input | pre-main-loop queue | the key is read on the UI thread, the action runs on the game thread |
| Live bridge server, `Net/Live/LivePipeServer.cs`, wired in `Net/main.cs` | worker thread, pipe, cached `IsRunning` | start, accept, read, decide, hand over, answer, stop | clients, main-loop queue | one worker, untrusted timing, may not call the game |
| Live bridge client, `Utinni.Mcp/Server/LivePipeClient.cs` | one exchange | ping, reload, timeout | server | gives up at any point |
| IFF editing, `Net/Editing/IffEditController.cs`, `Net/Formats/Iff` | mutable tree, captured byte slices, two stacks, a net count | ten edits, undo, redo, write | IFF editor form | undo by reference and index in a changing tree; slices that go stale |
| Datatable editing, `Net/Editing/Datatable*` | columns, rows, cells with captured byte slices and review flags, two stacks, a net count, a pending cascade | eleven edits, undo, redo, mark saved | datatable form | captured bytes outlive types and saves; undo by reference, by index and by row order |
| String-table and object-template editing | as above without the cascade | | | |
| Codecs, `Net/Formats` | none between calls | read, write | editors, CLI | bytes, not control |
| Repack, `Utinni.Cli/Commands/RepackTreCommand.cs`, `Net/Saving`, `Utinni.Mcp` | archive, backups, processes, one semaphore per path in the host | plan, rebuild, probe, back up, overwrite; ask, wait, time out, kill | the client that has the archive open, users who run the command themselves | death between any two steps, two runs at once, a timeout that races the exit |
| Launcher, `Launcher/main.cpp`, with `UtinniCore/utinni.cpp` and `clr.cpp` | suspended client, its entry bytes, an init thread, a named event, `utinni_embed.cfg` | create, park, inject, wait, restore, resume, terminate | Windows, the client | a client that runs before it is hooked; a file left by the last launch |
| Native callback registries, `UtinniCore/swg/graphics/graphics.cpp` and others | vector of handles and functions under a mutex | subscribe, unsubscribe, dispatch a copy | plugins, overlay, game thread | a callback that comes or goes while a dispatch is under way |
| Native graphics hooks and overlay, `UtinniCore/swg/graphics`, `swg/ui/imgui_impl.cpp` | detours, backend, setup latch, views of the back buffer, block flag and event | install, poll, present, resize, block and unblock | engine, `FormMain`, registries | resize against present; a setup that fails half-way |
| Plugin framework, UI, CLI, MCP tools, UtINI, path containment, installer, SDK, generated and vendored code | | | | little shared state |

What makes each component correct, and where it is stated:

- *Undo manager.* The history is one line with a position (`OneLineOfHistory`), holds
  no command twice (`NoCommandTwice`), and says what is in effect
  (`StacksDescribeWorld`). The buttons follow (`ButtonsFollowStacks`, which fails), or a race
  between two threads made them wrong (`WrongButtonsAreLate`).
- *Snapshot editing.* Undoing and redoing rebuild what was there (`SnapshotIsHistory`),
  ids stay unique (`IdsAreUnique`), history ends with its scene
  (`HistoryBelongsToScene`, `NoEffectInALaterScene`), a removal hits its own node
  (`RemovesItsOwnNode`), and every action settles (`NobodyWaitsForever`).
  `NoEffectInALaterScene` and `RemovesItsOwnNode` fail.
- *Live bridge.* An ack is true (`AckIsTrue`), the flag it rests on is at most a frame
  old (`FlagIsOneFrameOld`), what was queued runs (`QueuedReloadRuns`), and nothing
  hangs: the drain, the client, the listener (`DrainEnds`, `ExchangeEnds`,
  `ListenerComesBack`).
- *Datatable editing.* Rows fit the columns (`TableIsRectangular`), the file gets what the
  user sees (`SavesWhatIsThere`), undo and redo go between the same tables, across a save
  too (`HistoryIsFaithful`), a cascade is offered only while cells are flagged
  (`CascadeHasFlags`).
- *IFF editing.* The writer writes what is there (`WritesWhatIsThere`), the tree is a
  tree (`TreeIsSound`), undo and redo go back and forth between the same documents
  (`HistoryIsFaithful`).
- *Launch.* The game starts with everything in place (`HookedBeforeGame`), never over a
  half-restored entry (`NoTornEntry`); the numbers an earlier launch left reach the engine
  past two failures only (`OldNumbersTakeTwoSlips`), which is less than the code's comment
  says; the launcher always finishes and a client it let go plays (`LaunchEnds`,
  `ClientGetsGoing`).
- *Callback registries.* A dispatch calls in order, once each, and leaves nobody out who
  stays (`DispatchIsComplete`); who has left is called at most once more
  (`AtMostOneLateCall`).
- *Overlay.* A skipped present means a quiet resize (`SkippedMeansQuiet`), nothing is held
  across a buffer resize (`NoViewAcrossResize`).
- *Repack.* A whole copy exists at every moment (`WholeCopyExists`), the host alone cannot
  mix two rebuilds (`HostAloneIsSafe`), a backup is kept (`BackupsStay`), and every call is
  answered (`EveryCallIsAnswered`).

`PROJECT.json` lists the hazards one by one with the line where each bites.

## The modules and the code

```
UndoHistory   (abstract)
    ^ implements                        LiveBridge ---- LiveBridge_proofs
UndoRedoManager <-- UndoRedoRaces --- UndoRedoManager_proofs
    | EXTENDS    EXTENDS                Launch -------- Launch_proofs
UndoStacks                              RepackTre ----- RepackTre_proofs
    ^ INSTANCE                          IffEdit ------- IffEdit_proofs
SnapshotUndo ------ SnapshotUndo_proofs DatatableEdit - DatatableEdit_proofs

CallbackRegistry
    ^ EXTENDS
Overlay ------------ Overlay_proofs
    | EXTENDS
PresentBlock
```

Every component has an `MC` module that gives TLC its model values.

`UndoStacks` is the part of the manager under the lock: the two stacks and what
`AddUndoCommand` (`Push`, `Absorb`), `Undo` (`MoveToRedo`), `Redo` (`MoveToUndo`) and
`Clear` (`DropAll`) do to them. Whether two commands merge is a relation given as a
constant, since `AllowMerge` and `Merge` belong to the commands.

`UndoRedoManager` is the whole call. A caller is a thread. `UndoTakes` is the body of the
lock, `UndoRuns` the command's own `Undo` after it; the same for `Redo`. Every call but a
merging one ends in the refresh `FormMain` hangs on the callbacks: for each of the two
buttons a read of `Count` and a write of `Enabled`, four steps without a lock. `Undo(n)`
is `Undo` n times in the code and here. Commands are raised once: the repository makes
one object for each edit.

`UndoRedoRaces` adds three history variables to the manager, which no step reads: the commands
that were taken while another call was still about to run them (`contested`), the refreshes
whose stack changed between their read and their write (`overtaken`), and the buttons such a
refresh wrote last (`late`). The title bar undoes on the UI thread and the hotkey on the game
thread, so both races are there in ordinary use; with their record one can say what holds
nevertheless, for any number of threads that do everything.

`UndoHistory` is what all of this is for: a line, a position, and four ways to change
them. `UndoRedoManager` implements it with the line being the undo stack followed by the
reversed redo stack.

`SnapshotUndo` puts the stacks into their surroundings: a user, the UI thread, the game
thread's frame (pre-main-loop drain, update-loop drain, end), the queues between them
and a scene that is torn down and loaded. An edit changes the node list and raises its
command in one queued call; Undo and Redo change the stacks at once and queue the effect.
Both command families are there: the classic ones, whose undo of an add removes the last
node, and the live ones, which look a node up by id and may be refused. A rotation exists as
a classic command only. An add may find that the engine made no node; it then raises
nothing. A node has an id and a facing. The reads of an empty list (`nodeList->back()`,
undefined in C++) are taken to find nothing. A scene loads with the lowest ids, as the
snapshot files number them; the highest one is computed from them when Utinni installs
(`generateHighestId`) and never again, a load leaves it alone.

`LiveBridge` has the owner (wires the refresh, starts, may dispose), the game thread
(one drain of the main-loop queue per frame, the refresh that queues itself again), the
worker and the clients. A request is its kind: `outside` stands for a path that is not
below the client root, `skewed` for a wrong protocol version, `malformed` and `unknown`
for what their names say; all of them are rejected, and one kind is enough for TLC. A frame is sent whole or
not at all. The code's reload action is empty today; running it is recorded, nothing
more. A call that cannot be answered because of a timeout, a hang-up, an oversize or
truncated frame ends the connection the same way, `GiveUpReading`.

`IffEdit` is the mutable tree with its parent pointers, the set of nodes whose captured
slice is still valid, the ten commands with what each remembers, the controller with both
stacks and `netAppliedCount`, and the writer's choice between slice and content. Exceptions
are modelled where commands throw them: the command popped by a throwing `Undo` or `Redo`
is on neither stack.

`DatatableEdit` is the table as objects: columns with a type and a name, rows with their
cells, cells with a value, a slice and a review flag. A type is three functions: the kind
of value it stores, how it reads a text (as a text, or not at all: `TryCoerceCellValue`
with its mangling), and the text of a fresh cell. A value the user enters fits its column,
since editors coerce it first. `Retyped` is one cell of a type change; `Restored` is
`RestoreState`, by cell for an edit and an import and by row order for a type change.
`CascadeAfter` is `RecomputeCascadeState`. `Save` is a save that succeeds followed by
`MarkSaved`; its guard is the rule stated at `NeedsReviewCount` that flagged cells block
it. The editor form that enforces that rule is in a submodule which is not part of the
repository's files. `net` counts from `Baseline` because the code's count can go below zero.

`Launch` is one run of `loadDll` and `inject` for each session, the client's main thread
and the remote `utinni_init` thread. Sessions overlap freely: nothing in the launcher looks
for another one. The launcher polls for the main thread at the entry, injects, and waits for
the event; each wait may time out but the one for `LoadLibraryA` (`LoadReturns`), which ends
with the loader lock free or with the client. A failure the launcher sees leads through a
message box (`AnswerAlert`) to the end of the client. Two it does not see: that the write of
the entry bytes missed (`ParkAtEntry`: `WriteProcessMemory`'s answer and the base address are
unchecked), and that the old embed file could not be deleted. `Place` is the shape of the init
thread's steps, in the order of the code. `RestoreByte` happens twice, since
writing two bytes is not one step for a thread that runs them; the code suspends the main
thread around it (`SeesReady`, `Release`), and that is what `NoTornEntry` rests on. The embed
file outlives its session: the launcher deletes it, or fails to, when the client advertises
its hook points, and names it on the command line in either case; the init thread skips it,
clears it, or writes a temporary file, deletes the old one and moves the new one there
(`SkipEmbed`, `ClearEmbed`, `WriteTmp`, `MoveEmbed`), any of which may throw (`EmbedFails`);
the engine parses what is there. The temporary file has one name for all sessions too. Who
wrote a file stands for its numbers. `found` and `slips` are history: whose numbers lay there
when a session was launched, and which of its unasked-for failures happened.

`RepackTre` has the process (`RunStep`), the host's side of a call (`HostStep`) and the
clients that open and close the archive. The process reads the archive slice by slice, so
an archive that changes under it is taken in `mixed`; it probes for users of the file,
names a backup by the second, copies, and overwrites in place. `Die` may strike at any of
these; while a file is being written it is `torn`. `InUse` and `MayWrite` are the sharing
modes the code opens files with. The host holds the semaphore of a path until the process
has ended, also after it has killed it.

`CallbackRegistry` is one vector of callbacks with its dispatch: the functions are copied
under the mutex and called without it, so a subscriber may come and go meanwhile, and a
callback may remove itself (`CallThatLeaves`). `PresentBlock` is the exchange between
`FormMain` and `hkPresent` around a minimise, restore or maximise. `Overlay` puts both into
the frame of the game thread and adds the install of either overlay, the poll that waits
for the Direct3D 11 swap chain as a callback in the registry, and the resize. A detour
returns a trampoline to what was there before; installed twice, it leads back to the hook
(`HookCallsItself`), and the frame never ends.

Definitions marked "a slip" in a comment are deliberate mistakes a maintainer could make.
No behaviour uses them; replacing the definition they follow by one of them makes TLC
report the property that `PROJECT.json` pairs it with.

## What each run shows

| Run | Properties | What it shows |
|---|---|---|
| `undo_threads` | `TypeOK` `NoCommandTwice` `StacksDescribeWorld` `WrongButtonsAreLate` `OneLineOfHistory` | two threads that both push, merge, undo, redo and clear: the history stays a line, tells the truth but for a command that two threads ran at once, and a wrong button is the work of an overtaken refresh |
| `undo_stale_buttons` | `ButtonsFollowStacks`, violated | a change of the stacks by another thread, in the run a `Clear`, between the read and the write of a refresh leaves a button wrong for good |
| `snapshot_live` | `SnapshotIsHistory` `IdsAreUnique` `NobodyWaitsForever` | live additions and removals, rotations, clicks and hotkeys, nodes somebody stands in: in each of two scenes the snapshot is the authored one plus the done commands, and every action settles |
| `snapshot_scenes` | `TypeOK` `HistoryBelongsToScene` | an impatient user, both families, a scene change: the stacks of a living scene hold its own commands |
| `snapshot_stray` | `NoEffectInALaterScene`, violated | an undo clicked while the scene goes away runs in the next scene |
| `snapshot_wrong_node` | `RemovesItsOwnNode`, violated | the classic undo of an add removes another node |
| `live_bridge` | `TypeOK` `AckIsTrue` `FlagIsOneFrameOld` `QueuedReloadRuns` `DrainEnds` `ExchangeEnds` `ListenerComesBack` | two clients, a game that starts and stops, a server that may be disposed |
| `datatable_edit` | `TableIsRectangular` `SavesWhatIsThere` `HistoryIsFaithful` `CascadeHasFlags` | all edits, type changes, imports, undos, redos and a save on a small table |
| `iff_edit` | `WritesWhatIsThere` `TreeIsSound` `HistoryIsFaithful` | all edits, undos and redos on a small tree |
| `launch` | `TypeOK` `HookedBeforeGame` `NoTornEntry` `OldNumbersTakeTwoSlips` `LaunchEnds` `ClientGetsGoing` | two launches, one after the other or overlapping, with the failures and timeouts of either, seen and unseen; each comes to an end, and a client let go to its game |
| `overlay_frames` | `TypeOK` `DispatchIsComplete` `AtMostOneLateCall` `SkippedMeansQuiet` `NoViewAcrossResize` | both renderers, callbacks that come and go, a window that is minimised, restored and dragged, a poll that fails |
| `repack_tre` | `TypeOK` `WholeCopyExists` `HostAloneIsSafe` `BackupsStay` `EveryCallIsAnswered` | two calls through the host, a direct run past it, a client, and a death at any point |

`TableIsRectangular` and `TreeIsSound` have the typing of their module's state as a part
(`Typed`).

`HistoryIsFaithful` leaves out exactly two situations, in `IffEdit` as in `DatatableEdit`: a
move asked for at the edge (`edgeMoves`), which does nothing and is undone as a move, and the
redo of an addition (`recreated`), which makes a new object that later commands do not
know. In `IffEdit` the first leaves an undone document changed, the second loses the edit of a
leaf whose addition was undone and redone. In `DatatableEdit` they cost more. Remove a row,
move the first column left (nothing happens), undo (the column moves right), undo: the row comes back with its cells in the old
order, values under columns of another type. And after the redo of an added column, a
redone type change finds the old object and changes nothing, while a redone import goes by
position and puts values of the new kind under the old type, unflagged; the save then throws.
`TableIsRectangular` and `CascadeHasFlags` hold without exception. `SnapshotIsHistory`
leaves out histories with a refused removal, where the stacks have moved and the snapshot
has not, and those with an effect of an earlier scene; see below for both.

In `snapshot_live` the user is patient: acts only when the last action has settled and a
scene is loaded; impatience is what `snapshot_scenes` and `snapshot_stray` are about.

`StacksDescribeWorld` holds with both threads undoing and redoing, but for a command that
was taken while another call was still about to run it (`contested`): its two effects may
then run in the other order than its two moves, and the stacks say the opposite of the world
about it, and only about it, until it is taken once more. In the program the title bar
undoes on the UI thread and the hotkey on the game thread, so that can happen to any
command whose effect is direct; the snapshot commands' effects go through one queue, which
narrows it to the moment between the lock and the queueing.

`OldNumbersTakeTwoSlips` says exactly when an engine parses the numbers that lay there when
its client was launched: the deletion failed (`main.cpp:299` does not look), and, besides,
the editor left the file alone or failed at it (`EmbedResolution.cs`), or the entry was not
held because its patch missed. Overlapping launches do not add a third way. They
add something else, which no property bounds: one file and one temporary name serve all
sessions, so an engine may parse the numbers a session beside it has just written.

`HookedBeforeGame` excepts a client whose entry the patch missed, since such a client runs on
from `ResumeThread` with nothing to hold it.

`HostAloneIsSafe` speaks of calls through the host: a direct run knows nothing of the
host's semaphore, and two rebuilds may then interleave around the probe, which holds nothing
once it has returned. `WholeCopyExists` holds with direct runs too, since every run copies before it
writes and a complete backup is never overwritten.

## Bounds

- *Undo*: two threads that both do everything, three commands of which one pair merges.
  The UI and the game thread are all that call the manager; three commands are the least with
  a command under, at and over the position, and two calls are what it takes to contest one.
  The proofs have no bound.
- *Snapshot*: one authored node, up to three edits, node list of at most four (the
  classic replays can append without end), queue of at most two calls from the user,
  one or two scenes. A removal, a refusal and a replay on a taken id need two nodes; a
  stray effect needs two scenes and one command. `MaxQueue`, `MaxNodes`, `MaxEdits`
  and `MaxScenes` bound what the user does, never what the program does.
- *Live bridge*: two clients and two exchanges: both clients at once, or one twice.
  More exchanges repeat these on one worker. The queue is bounded by
  the exchanges. The truth of the acks is proved without bound.
- *IFF*: a root with a container, a leaf in it and a leaf beside it; two labels; seven
  objects; three applied edits with any number of undos and redos. Three edits
  are enough to add, edit and remove a node or to detach a container with a changed child.

- *Datatable*: one column and two rows; a string type and an enumeration, so that a value
  can be coerced to another text, refused, and coerced back; three applied edits, one save at
  any moment, any number of undos and redos, of which one may create an object anew. Three edits are
  enough for a type change between two other edits, before or after the save. A second column and a
  third row come from the edits themselves.

- *Launch*: two sessions that may overlap anywhere or not at all. They share the embed file
  and its temporary file and nothing else, and each writes it once, so two show every
  exchange of one's numbers for another's. The proofs have no bound.
- *Overlay*: two subscriptions (`MaxSubscriptions`), the poll and one of a plugin, in either
  order; three sizes of which one is minimised; one poll that fails (`MaxFailedInits`), which is what it takes to detour twice.
- *Repack*: two calls, one direct run and a backup name for each; two runs are enough for
  every overlap of a probe, a copy and an overwrite, and the third is the one past the host.

Deadlock is checked for the snapshot, the bridge and the repack, where somebody can always
go on. The undo manager and the two edit controllers are passive, and a run ends when the
bounded commands are used up; launches end; a stack that overflows ends the client. Their
runs switch the check off.

## Fairness

Only liveness properties need it. In `SnapshotUndo` the game thread goes on with its
frame and a thread that took a command queues its effect; the user, a teardown and a load
need not happen. In `LiveBridge` the game thread's drain goes on (the client renders
frames as long as it lives), the worker goes on (it has a bounded read and nobody holds a
lock it needs), and a client's own timeout fires; nobody has to call, start, stop or
dispose. The client's timeout is real: `ExchangeAsync` runs under a
`CancellationTokenSource` with a timeout. The server's write has none, which is why
`ListenerComesBack` leans on the client's.
Fairness of the worker is for the worker as a whole, so it may always end a read by giving
up; nothing forces it to succeed, and no property says it does.

In `Launch` the launcher goes on, the user answers a message box, and the client's main
thread runs when nothing holds it; the init thread need not finish, and `LaunchEnds` holds
nevertheless. The launcher's waits have limits but one: the wait for `LoadLibraryA`
(`main.cpp:64`) is infinite. `LoadReturns` lets it end when the loader lock is free, that is when
the main thread has left the loader, or when the client is gone; the load itself ends because
`DllMain` does nothing that waits (`utinni.cpp:705-721`). A system on which a library's load
hangs for another reason keeps this launcher for ever. Suspending the main thread
(`main.cpp:438`) is taken to be immediate, and the write that restores the entry to land
where the one that patched it did, since both go to the same address.

In `RepackTre` the host's tasks run, a kill takes effect, and the semaphore is fair to a
caller who waits again and again (strong fairness of `Pass`: with weak fairness it could be
passed over each time it is free); processes may hang for ever. The other modules state no
liveness and no fairness.

## What is proved

`UndoRedoManager_proofs`, for any set of commands, any threads, any merge relation:

- `TypeCorrect`. `TypeOK` alone is not inductive: a call that finishes an undo applies the
  command it holds, so it has to hold one (`Holding`).
- `NeverTwice`. The strengthening is that everything on a stack has been raised, and each
  command is raised once; pushing a new one can then not double anything.
- `StacksAreTrue`, for threads that all push, merge, undo, redo and clear. The invariant
  (`World`) says of a call between lock and effect that its command has been raised, and that
  unless contested it is not back on the stack it was taken from (`InFlight`); two calls hold
  one command only if it is contested (`OneHolder`). Who takes a command that another call
  still holds makes it contested (`TakingContests`), so what an effect changes is either what
  the stacks say or contested; and a command taken when nobody holds it starts afresh.
- `ImplementsHistory`: the initial state maps to the empty line, each call to one step of
  it, each step outside the lock to a stutter. The lemma about reversing the redo stack
  does the work.
- `WrongButtonsAreOvertaken`, for any threads. Every change of a stack is followed by a refresh
  of its own thread, so a button is right, or a refresh that will write it is under way, or it
  was written last by one whose stack had changed since the read (`Refreshing`). With the run
  `undo_stale_buttons` it says that this race, and nothing else, makes a button wrong.

`LiveBridge_proofs`, for any clients and any number of exchanges:

- `TypeCorrect`. A worker in the middle of a request has a connection, and a connection
  belongs to an exchange that has begun (`Attached`).
- `AcksAreTrue`. One follows an exchange: its number is new when it begins (`Numbered`);
  a worker before the hand-over has not made it and a worker after it knows from the answer
  whether it did (`Handed`); a client that has its answer is no longer connected, so nothing
  is handed over afterwards (`Told`).

- `FlagIsFresh`. Once wired, the refresh is always somewhere in the queue (`Wired`), so every
  drain meets it; a drain that has it behind itself (`Behind`) has the flag up to date.

`SnapshotUndo_proofs`, for any scene, any facings, any number of edits, scenes and queued
calls:

- `TypeCorrect` and `HistoryStaysInItsScene`. The invariant follows a command everywhere it
  may be: on a stack, in a queued effect, in the hand of the thread that took it. On the
  stacks of a living scene there are its own (`Own`); queued and taken ones are at least known
  (`Known`), and their effects do not touch the stacks. Between the cleanup callback and the
  next load both stacks are empty and no drain runs (`StacksInv`, `FrameInv`).
- `LiveIdsAreUnique`, assuming that additions and removals are the live ones
  (`Families = {"live"}`; rotations, which are always classic, are included. The classic
  replay of a removal takes ids without asking). Each click waiting in the queue gives out at most one
  id (`Counted`), a new id is above all others, and a replay on a taken id does nothing.
- `SnapshotFollowsHistory`, assuming live additions and removals and a user who waits
  (`Patient = TRUE`).
  Then at most one thing is under way (`One`): a click, a taken command or a queued effect.
  The history is a chain of snapshots with a command between each and the next (`Chain`);
  the stacks move along it at once and the snapshot follows when the effect runs
  (`Coming`, `Shown`). Without patience it is false: an effect may be left for the next scene (`snapshot_stray`), or
  find that an edit clicked in between has removed its node.
  The fold in the property is a recursive function; `Folds` says what its equation gives.

`DatatableEdit_proofs`, for a file of any size, any types and texts, any number of edits,
undos, redos and saves:

- `NoCascadeWithoutFlags`. A command that gets through ends by recomputing the flag, one
  that throws leaves table and flag, and a save is refused while a cell is flagged.
- `TableIsAlwaysRectangular`. A removed row keeps its cells and comes back as it was, so the
  rows out of the table count as well: `LaidOut` says of the table, the rows out of it and the
  cells out of it that widths fit and no cell is shared. `Known` is what a command needs
  before it is done, `Done` what it says of the number of rows and columns before and after.
  `Past` makes the undo stack a chain of these sizes in which no two commands took out the same
  row or cell (`Apart`). The invariant is `TableInv` (`Fitting`, `Waiting`, `Counted`). From it
  an undo always gets through (`PopKeeps`); only a redo may throw, and it does so before it
  has changed anything. The lemmas on sequences say what the insertion, the removal and the
  move of one element do to widths and to injectivity (`InsertOne`, `RemoveOne`,
  `ShiftKeepsOnce`); cells are counted by a bijection (`CellCount`).
- `HistoryIsKept`. The history is a chain of tables with a command between each and the next
  (`Story`, `Linked`), each laid out and with cells of their columns' kinds unless flagged (`Tidy`).
  The document is in the chain only as far as a user sees: a save captures slices anew, and
  an undone addition leaves its row or column object behind, unused. So it is only `Alike` to its
  place in the chain, and a command on a stack `Similar` to the chain's, for a redo captures the
  states it replaces again. Similar commands take alike tables to alike ones (`DoAlike`,
  `UndoAlike`), a command undone leads back to where it was done (`DoThenUndo`) and done again
  leads forth (`DoAgain`). The chain's next table is made from the table as it is,
  since the row and column objects it makes get numbers that the undone ones have used up.
- `SavesAreFaithful`. The same invariant (`Remembers`) says of each cell that its slice, if it
  has one, spells its value (`Proper`, `Honest`), and so do the states the commands keep (`Wise`):
  an undo can bring back no slice that says something else. With `Tidy` of the chain's table, no
  flag means that each value is of its column's kind. The type change, which coerces a whole
  column, is the case with most of the work.

`IffEdit_proofs`, for any loaded tree, any labels, any number of nodes and edits:

- `TreeStaysSound`. The invariant is `TreeInv`: the document is `Sound` (children and parents
  say the same and no object that is yet to be made is used), there is a rank that grows
  from parent to child (`Ranked`), which is what forbids a node below itself, and each command on
  a stack is `Ready`: what it names exists, and a removed or added node may go back below the
  parent it remembers without upsetting the ranks. A command on a stack may still throw; what
  it has done by then keeps the invariant.
- `WhatIsWrittenIsThere`. `Clean` says of every node with a valid slice that it and what is below it
  are as they were read. The document is drawn depth by depth, by a recursive function;
  that what is written is what is there (`CleanIsWritten`) goes by induction over the depth.
- `HistoryIsKept`. A history is a sequence of documents with a command between each and the next
  (`Past`, `Linked`). An addition undone leaves its object behind, so the document is the one of the history
  only as far as the objects go that were there (`Agree`), and nothing in that part leads out of
  it (`Sealed`). From this the looks are equal (`AgreeLooks`), an undo leads back and a redo
  forward (`Remembered`).

`Launch_proofs`, for any number of sessions:

- `TypeCorrect`, `AlwaysHookedBeforeGame`, `NeverTornEntry`. `Stages` says what is in place
  for each stage of the init thread, `Order` how far launcher, event and main thread can be
  from each other: nobody restores the entry before the event is set.
  `HookedBeforeGame` speaks of clients whose entry was patched, so `Stages` carries along
  whether it was (`Patched`); `NoTornEntry` needs no such exception, for where the loop is not,
  the two bytes are rewritten with what they were.
- `AlwaysTwoSlips`. A session writes the embed file once (`WrittenOnce`), so a file that was
  there before it cannot come back; while the old one lies there, its deletion has failed, and
  behind the editor's attempt that has failed as well (`OldFile`). A main thread in its game
  before that attempt is one the patch missed, which is the other failure.

`RepackTre_proofs`, for any calls, direct runs and backup names:

- `TypeCorrect`. `CopyInv` says which backup a run is writing, and that no two write one.
- `WholeCopyAlways`. Until the first overwrite the archive is whole and every copy is a good
  one (`Untouched`); from then on there is the backup of the first (`FirstBackup`).
- `BackupsAreKept`: the action property itself, from `CopyInv`.
- `HostAloneNeverMixes`. A living process belongs to the call that holds the semaphore
  (`Guarded`), so without direct runs there is only one, and nothing changes under it while it
  reads or copies (`Steady`).

`Overlay_proofs` first shows for each operation of `CallbackRegistry` that it keeps the list in
order (`Sorted`), the handles apart (`Spent`) and everybody due (`AllDue`), and then carries
these through the frame, for any bounds and sizes:

- `TypeCorrect`, `AlwaysCompleteDispatch`, `NeverTwoLateCalls`.
- `SkippedIsQuiet`. `BlockInv`: while the UI thread waits or resizes the flag is up, so after a
  skipped present none can begin.
- `NeverViewAcrossResize`. Only a detoured function takes a view (`Taken`), and the detour of
  the resize drops it before the original runs; the detours are no more than the polls that
  failed and the one that did not (`Counted`).

The assumptions used are the `ASSUME`s of the modules (a value for "nobody" or "none" is
not one of the others, bounds are numbers, a scene loads with
the lowest ids, a file is a sequence of rows of texts and each fits its columns, a loaded tree has each
node in one place and after its parent) and those named above. TLC evaluates the
modules' in every run.

Only model-checked: the liveness properties, which are outside what the prover handles, and
the properties of the three runs that expect a violation, which do not hold as they stand. Every
invariant of a passing run is a theorem. Two of them have a hypothesis, named above
(`Families = {"live"}`, `Patient = TRUE`), which the run that checks the property meets by
its constants.

## Where the code and its words disagree

Three disagreements have a run of their own (`findings` in `PROJECT.json`): the stale button
(`FormMain.cs:277`), the effect in a later scene (`WorldSnapshotCommands.cs:56`) and the wrong
node (`WorldSnapshotCommands.cs:65`). Met on the way and only noted:

- `world_snapshot.cpp:353-358`: the last node of an empty list is read, where the caller
  (`WorldSnapshotCommands.cs:59-61`) expects null.
- `LiveWorldSnapshotCommands.cs:161-163` says re-running Undo works after a refusal, but
  the manager has moved the command to the redo stack before the effect was even queued.
- `docs/ai/undo-redo.md:75` clears the redo stack for every command; the code does so only
  for a command that is not merged (`UndoRedoManager.cs:99-110`). The same page says the
  manager does not lock (263-265); it does.
- A column changed to a type that cannot read a cell and back again keeps the cell flagged:
  the coerced value equals the kept one, and setting an equal value clears no flag
  (`MutableDataTableCell.cs:97`), though `DatatableEditCommands.cs:560` says "no review needed".
- A second type change that flags nothing sets the pending cascade to null while the first
  one's cells are still flagged (`DatatableEditController.cs:240-244`), so a save stays
  blocked with nothing to resolve. Undoing the resolution of the last cell does the same,
  which `.planning/todos/pending/phase09-datatable-editor-review-warnings.md:22` knows (WR-01).
- `LiveTools.cs:87-90` reports `listening: false` for a server that is serving someone else.
- A call that throws in `CallbackHelpers.Drain` ends the drain; had the refresh thrown
  before it queued itself again, the cached flag would never change again.
- `main.cpp:293-295` deletes the old embed file "so a failed managed write can't feed old
  numbers to a new session", but `DeleteFileA`'s answer is not looked at (299) and the command
  line names the file regardless (300). Where the file is in use and stays, and the managed
  write fails as well, the engine parses the old numbers: the two failures of
  `OldNumbersTakeTwoSlips`.
- `Net/main.cs:107-109` has `EmbedResolution` clear the file where there is nothing to embed;
  when the main window throws it is not reached, and the file stays as it is (`SkipEmbed`).
- `IffEditController.cs:441`: a move asked for at the edge does nothing (`MutableIffNode.cs:386`,
  400), but its undo moves the node the other way, where the interface (171) says "restoring
  the prior state". `DatatableEditCommands.cs:466` does the same to columns, and passes by the rows
  that are out of the table; 474 says "so cell-column alignment is preserved".
- `DatatableEditCommands.cs:267`: the redo of an added row makes a fresh row, where the interface
  (`IDatatableEditCommand.cs:41`) says "re-apply for Redo"; what was done to the old one is lost.
- A column of strings changed to the Comment type: an empty cell is coerced to an equal value and
  keeps its captured zero byte, which is then written (`MutableDataTableCell.cs:234`), where a
  comment cell has no bytes at all (`DataTableCellValue.cs:164`; 225-227 of the first file calls
  the two paths consistent). The model's values have one spelling per kind (`Payload`) and
  cannot say this.
- `IffEditController.cs:303`: the redo of an added node makes a fresh node, and what was
  done to the old one is lost; the interface (169) says "re-apply".
- `IffEditController.cs:98` counts applied edits for `IsDirty`, where 54-55 speak of the
  serialized bytes; `DatatableEditController.cs:119` does the same, where 212 promises that
  "a saved-then-edited document is dirty again": after save, undo and an edit it is not.
- `directx11.cpp:209-213`: an overlay setup that fails leaves its detours in place, where the
  comment says "undo and bail". The next poll detours again and the hook then calls itself.
- `directx9.cpp:396` may set the event after the UI thread has reset it (763); the next wait
  is then satisfied by the old signal. A system command that changes no size raises the flag
  (`FormMain.cs:105`) with no `Resize` to lower it, and the game stops presenting until the next.
- `RepackTreCommand.cs:138`: `WriteAtomic` truncates and writes in place, where
  `TreRepackLock.cs:62` speaks of a temporary file and an atomic replacement. A death in it
  leaves a torn archive, with a whole backup beside it (`WholeCopyExists`).
- A direct run of `repack-tre` beside the host may mix two rebuilds in the archive, or copy a
  torn one to its backup.

## What is not modelled

- The codecs, the CLI's other verbs, the live patch validator, UtINI and path containment:
  data in, data out; their tests with golden files say more than a model would.
- The managed subscriber tables (`GameCallbacks.cs` and its siblings). They dispatch a copy as
  the native registries do, but are dictionaries, which reuse freed places and promise no order.
- The string-table and object-template controllers: the datatable controller again, without
  the cascade.
- Child nodes of snapshot nodes, and the position and radius commands, which follow the
  rotation command.
- Exceptions thrown by commands of the undo manager: the repository's own only queue a
  call; a plugin's that throws leaves its command moved and its buttons unrefreshed. The drop-down of `FormMain` that enumerates a stack without the lock changes no state.
- The machine stopping during a repack: nothing flushes the backup to the disk before the
  archive is truncated, and the model knows of dying processes only.
- A foreign pipe client that keeps its connection and never reads: the answer's write has no
  timeout, and the one worker would be held.
- Of the hotkeys everything but what they cause: key matching, the keyboard override.
- Layout, logging, plugin loading, memory patching and the engine bindings. `src/tools` is the
  engine's own source and its tools, which most of the repository's lines are; Utinni hooks a
  compiled client and the models take the engine as what its hooks see of it.
- Generated and vendored code, installer, SDK.

Each component of `PROJECT.json` says what it leaves out.

## Plan

Done, in this order: `UndoStacks`, `UndoHistory`, `UndoRedoManager` with its proofs;
`SnapshotUndo`; `LiveBridge` with its proofs; `IffEdit`; `DatatableEdit`; `Launch`, `RepackTre`,
`CallbackRegistry`, `PresentBlock` and `Overlay` with their proofs; the proofs about
`SnapshotUndo`, `IffEdit` and `DatatableEdit`, last the ones about its history and its saves.

Left, most important first:

1. The string-table and object-template controllers, as instances of what `DatatableEdit` and
   they share.
2. The managed subscriber tables, whose order of calls has to be stated first.
3. Hotkeys: the keyboard override and the modifier state.
4. The live patch validator as an operator checked against its range.
