------------------------------- MODULE Launch -------------------------------
(***************************************************************************)
(* Starting a game client with Utinni inside (Launcher/main.cpp,           *)
(* UtinniCore/utinni.cpp, UtinniCore/clr.cpp, UtinniCoreDotNet/main.cs).   *)
(*                                                                         *)
(* The launcher creates the client suspended, overwrites the two bytes at  *)
(* its entry point with a jump to itself (EB FE), lets the main thread run *)
(* into it, loads UtinniCore.dll on one remote thread and runs utinni_init *)
(* on another.  That thread hooks, patches and loads what has to be in     *)
(* place before the game's first instruction, and signals a named event;   *)
(* the launcher then puts the two bytes back.  Every wait has a timeout,   *)
(* but the one for the library to load; every failure the launcher sees    *)
(* ends, after a message box, in the death of the client.  It does not see *)
(* all of them: whether the two bytes or the deletion of an old file took  *)
(* effect it never asks.                                                   *)
(*                                                                         *)
(* On the client that advertises its hook points the editor also leaves    *)
(* utinni_embed.cfg in the client's directory for the engine to parse.  A  *)
(* launch finds the file an earlier one left, and may overlap with it.     *)
(***************************************************************************)
EXTENDS FiniteSets

CONSTANTS Sessions,  \* launches, each of the launcher once
          None       \* no embed file

Unread == "unread"

ASSUME LaunchAssumption == None \notin Sessions /\ Unread \notin Sessions

VARIABLES
  launcher,  \* where loadDll and inject are
  client,    \* the client process: "none", "running", "gone"
  token,     \* does its command line name utinni_embed.cfg
  entry,     \* the two bytes at its entry point: "orig", "spin" or half of each
  main,      \* its main thread: in the loader, at the entry, in the game, ...
  held,      \* is the main thread suspended
  worker,    \* the remote utinni_init thread
  placed,    \* what it has put in place
  ready,     \* the named event, as the launcher holds it
  embed,     \* who wrote the utinni_embed.cfg on disk
  tmp,       \* who wrote utinni_embed.cfg.tmp
  parsed,    \* whose file the engine parsed
  found,     \* history: whose file lay there when the session was launched
  slips      \* history: what failed on the way without anyone asking

process == <<client, token, entry, main, held>>
bridge == <<worker, placed>>
files == <<embed, tmp>>
history == <<found, slips>>
vars == <<launcher, process, bridge, ready, files, parsed, history>>

Parts == {"hooks", "patches", "plugins", "callbacks"}

Slips == {"delete", "patch", "write"}

Busy == {"created", "polling", "injecting", "awaiting", "calling", "waiting",
         "restoring", "halfway", "restored", "alert"}
Ended == {"done", "failed"}

Init ==
  /\ launcher = [s \in Sessions |-> "idle"]
  /\ client = [s \in Sessions |-> "none"]
  /\ token = [s \in Sessions |-> FALSE]
  /\ entry = [s \in Sessions |-> "orig"]
  /\ main = [s \in Sessions |-> "loading"]
  /\ held = [s \in Sessions |-> FALSE]
  /\ worker = [s \in Sessions |-> "none"]
  /\ placed = [s \in Sessions |-> {}]
  /\ ready = [s \in Sessions |-> "none"]
  /\ embed = None
  /\ tmp = None
  /\ parsed = [s \in Sessions |-> Unread]
  /\ found = [s \in Sessions |-> None]
  /\ slips = [s \in Sessions |-> {}]

Becomes(f, s, v) == f' = [f EXCEPT ![s] = v]
Alive(s) == client[s] = "running"
Slip(s, name) == slips' = [slips EXCEPT ![s] = @ \cup {name}]

-----------------------------------------------------------------------------
(***************************************************************************)
(* The launcher.                                                           *)
(***************************************************************************)
MayStart(s) == launcher[s] = "idle"

\* A slip: the file is emptied, not deleted.
EmptiedOldFile(advertised) == IF advertised THEN {Unread, embed} ELSE {embed}

\* On a client that advertises its hook points the old file is deleted, or it is in
\* use and stays: DeleteFileA's answer is not looked at.
AfterDelete(advertised) == IF advertised THEN {None, embed} ELSE {embed}

\* getSwgClientFilename or CreateProcess fails: no client to end.
CannotCreate(s) ==
  /\ MayStart(s)
  /\ \E advertised \in BOOLEAN : embed' \in AfterDelete(advertised)
  /\ Becomes(launcher, s, "alert")
  /\ UNCHANGED <<process, bridge, ready, tmp, parsed, history>>

\* The command line names the file in either case.
CreateSuspended(s) ==
  /\ MayStart(s)
  /\ \E advertised \in BOOLEAN :
       /\ Becomes(token, s, advertised)
       /\ embed' \in AfterDelete(advertised)
       /\ IF advertised /\ embed' # None THEN Slip(s, "delete") ELSE slips' = slips
  /\ Becomes(found, s, embed)
  /\ Becomes(client, s, "running")
  /\ Becomes(held, s, TRUE)
  /\ Becomes(launcher, s, "created")
  /\ UNCHANGED <<entry, main, bridge, ready, tmp, parsed>>

\* The event, its name in the client's memory, the endless loop at the entry.  The
\* write may miss it, where the base address is the preferred one and not the actual;
\* the main thread is resumed either way.
ParkAtEntry(s) ==
  /\ launcher[s] = "created"
  /\ Becomes(ready, s, "unset")
  /\ \/ Becomes(entry, s, "spin") /\ slips' = slips
     \/ Slip(s, "patch") /\ entry' = entry
  /\ Becomes(held, s, FALSE)
  /\ Becomes(launcher, s, "polling")
  /\ UNCHANGED <<client, token, main, bridge, files, parsed, found>>

\* No event, or no memory in the client for its name.
CannotPark(s) ==
  /\ launcher[s] = "created"
  /\ \/ ready' = ready
     \/ Becomes(ready, s, "closed")
  /\ Becomes(launcher, s, "alert")
  /\ UNCHANGED <<process, bridge, files, parsed, history>>

SeesEntry(s) ==
  /\ launcher[s] = "polling" /\ main[s] = "entry"
  /\ Becomes(launcher, s, "injecting")
  /\ UNCHANGED <<process, bridge, ready, files, parsed, history>>

\* Fifty looks, and the main thread is not there.
PollTimesOut(s) ==
  /\ launcher[s] = "polling"
  /\ Becomes(launcher, s, "alert")
  /\ UNCHANGED <<process, bridge, ready, files, parsed, history>>

\* LoadLibraryA on a remote thread.
LoadCore(s) ==
  /\ launcher[s] = "injecting" /\ Alive(s)
  /\ Becomes(launcher, s, "awaiting")
  /\ UNCHANGED <<process, bridge, ready, files, parsed, history>>

\* The wait for it has no limit.  It ends with the library's load, which takes the
\* loader lock and so waits for a main thread that is still loading, or with the
\* client.
LoadReturns(s) ==
  /\ launcher[s] = "awaiting"
  /\ \/ ~Alive(s) /\ Becomes(launcher, s, "alert")
     \/ Alive(s) /\ main[s] # "loading" /\ launcher' \in {[launcher EXCEPT ![s] = l] : l \in {"calling", "alert"}}
  /\ UNCHANGED <<process, bridge, ready, files, parsed, history>>

CallInit(s) ==
  /\ launcher[s] = "calling" /\ Alive(s)
  /\ Becomes(worker, s, "hooking")
  /\ Becomes(launcher, s, "waiting")
  /\ UNCHANGED <<process, placed, ready, files, parsed, history>>

\* No remote thread, or no utinni_init in the library.
InjectFails(s) ==
  /\ launcher[s] \in {"injecting", "calling"}
  /\ Becomes(launcher, s, "alert")
  /\ UNCHANGED <<process, bridge, ready, files, parsed, history>>

\* A slip: the main thread runs while its entry point is restored.
SeesReadyAndLetsRun(s) ==
  /\ launcher[s] = "waiting" /\ ready[s] = "set"
  /\ Becomes(ready, s, "closed")
  /\ Becomes(launcher, s, "restoring")
  /\ UNCHANGED <<process, bridge, files, parsed, history>>

\* The launcher closes its handle, and with it the event, then suspends the
\* main thread before it touches what that thread is running.
SeesReady(s) ==
  /\ launcher[s] = "waiting" /\ ready[s] = "set"
  /\ Becomes(ready, s, "closed")
  /\ Becomes(held, s, TRUE)
  /\ Becomes(launcher, s, "restoring")
  /\ UNCHANGED <<client, token, entry, main, bridge, files, parsed, history>>

\* A slip: what the wait returned is not looked at.
WaitGoesOn(s) ==
  /\ launcher[s] = "waiting"
  /\ Becomes(ready, s, "closed")
  /\ Becomes(held, s, TRUE)
  /\ Becomes(launcher, s, "restoring")
  /\ UNCHANGED <<client, token, entry, main, bridge, files, parsed, history>>

\* A slip: the wait has no limit.
WaitForEver(s) == FALSE

\* Thirty seconds without a signal.
WaitTimesOut(s) ==
  /\ launcher[s] = "waiting"
  /\ Becomes(ready, s, "closed")
  /\ Becomes(launcher, s, "alert")
  /\ UNCHANGED <<process, bridge, files, parsed, history>>

\* Two bytes, one at a time; where the loop is not, they are what they were.
RestoreByte(s) ==
  /\ \/ /\ launcher[s] = "restoring"
        /\ Becomes(launcher, s, "halfway")
        /\ entry' = [entry EXCEPT ![s] = IF @ = "spin" THEN "torn" ELSE @]
     \/ /\ launcher[s] = "halfway"
        /\ Becomes(launcher, s, "restored")
        /\ Becomes(entry, s, "orig")
  /\ UNCHANGED <<client, token, main, held, bridge, ready, files, parsed, history>>

\* A slip: suspended once more than resumed.
ForgetToResume(s) ==
  /\ launcher[s] = "restored"
  /\ Becomes(launcher, s, "done")
  /\ UNCHANGED <<process, bridge, ready, files, parsed, history>>

Release(s) ==
  /\ launcher[s] = "restored"
  /\ Becomes(held, s, FALSE)
  /\ Becomes(launcher, s, "done")
  /\ UNCHANGED <<client, token, entry, main, bridge, ready, files, parsed, history>>

\* Someone answers the message box; the exception ends the client.
AnswerAlert(s) ==
  /\ launcher[s] = "alert"
  /\ client' = [client EXCEPT ![s] = IF @ = "running" THEN "gone" ELSE @]
  /\ Becomes(launcher, s, "failed")
  /\ UNCHANGED <<token, entry, main, held, bridge, ready, files, parsed, history>>

LauncherStep(s) ==
  \/ ParkAtEntry(s) \/ CannotPark(s) \/ SeesEntry(s) \/ PollTimesOut(s)
  \/ LoadCore(s) \/ LoadReturns(s) \/ CallInit(s) \/ InjectFails(s)
  \/ SeesReady(s) \/ WaitTimesOut(s) \/ RestoreByte(s) \/ Release(s) \/ AnswerAlert(s)

-----------------------------------------------------------------------------
(***************************************************************************)
(* The client's main thread.                                               *)
(***************************************************************************)
Runs(s) == Alive(s) /\ ~held[s]

ReachEntry(s) ==
  /\ Runs(s) /\ main[s] = "loading"
  /\ Becomes(main, s, "entry")
  /\ UNCHANGED <<launcher, client, token, entry, held, bridge, ready, files, parsed, history>>

\* At the entry it loops while the bytes say so.
Fetch(s) ==
  /\ Runs(s) /\ main[s] = "entry" /\ entry[s] # "spin"
  /\ Becomes(main, s, IF entry[s] = "orig" THEN "game" ELSE "lost")
  /\ UNCHANGED <<launcher, client, token, entry, held, bridge, ready, files, parsed, history>>

ParseConfig(s) ==
  /\ Runs(s) /\ main[s] = "game" /\ parsed[s] = Unread
  /\ Becomes(parsed, s, IF token[s] THEN embed ELSE None)
  /\ UNCHANGED <<launcher, process, bridge, ready, files, history>>

GameEnds(s) ==
  /\ Runs(s) /\ main[s] = "game"
  /\ Becomes(client, s, "gone")
  /\ UNCHANGED <<launcher, token, entry, main, held, bridge, ready, files, parsed, history>>

MainStep(s) == ReachEntry(s) \/ Fetch(s) \/ ParseConfig(s)

-----------------------------------------------------------------------------
(***************************************************************************)
(* utinni_init, and the managed EntryPoint it ends in.                     *)
(***************************************************************************)
Place(s, from, part, to) ==
  /\ Alive(s) /\ worker[s] = from
  /\ placed' = [placed EXCEPT ![s] = @ \cup {part}]
  /\ Becomes(worker, s, to)
  /\ UNCHANGED <<launcher, process, ready, files, parsed, history>>

CreateDetours(s) == Place(s, "hooking", "hooks", "patching")
CreatePatches(s) == Place(s, "patching", "patches", "loading")
LoadPlugins(s) == Place(s, "loading", "plugins", "starting")

\* clr::start succeeds and EntryPoint wires the managed callbacks; or the runtime
\* does not start, or EntryPoint throws, and the thread ends without a signal.
WireCallbacks(s) == Place(s, "starting", "callbacks", "measuring")
NoRuntime(s) ==
  /\ Alive(s) /\ worker[s] = "starting"
  /\ Becomes(worker, s, "ended")
  /\ UNCHANGED <<launcher, process, placed, ready, files, parsed, history>>

\* EmbedResolution.  The file is not looked at: the client does not advertise, there is
\* no editor, its window could not be made, or the directory is not known.
SkipEmbed(s) ==
  /\ Alive(s) /\ worker[s] = "measuring"
  /\ IF token[s] THEN Slip(s, "write") ELSE slips' = slips
  /\ Becomes(worker, s, "signalling")
  /\ UNCHANGED <<launcher, process, placed, ready, files, parsed, found>>

WriteTmp(s) ==
  /\ Alive(s) /\ token[s] /\ worker[s] = "measuring"
  /\ tmp' = s
  /\ Becomes(worker, s, "clearing")
  /\ UNCHANGED <<launcher, process, placed, ready, embed, parsed, history>>

\* DeleteIfExists, before the new file is moved in or because its size is not valid.
ClearEmbed(s) ==
  /\ Alive(s)
  /\ \/ token[s] /\ worker[s] = "measuring" /\ Becomes(worker, s, "signalling")
     \/ worker[s] = "clearing" /\ Becomes(worker, s, "moving")
  /\ embed' = None
  /\ UNCHANGED <<launcher, process, placed, ready, tmp, parsed, history>>

MoveEmbed(s) ==
  /\ Alive(s) /\ worker[s] = "moving"
  /\ embed = None /\ tmp # None
  /\ embed' = tmp /\ tmp' = None
  /\ Becomes(worker, s, "signalling")
  /\ UNCHANGED <<launcher, process, placed, ready, parsed, history>>

\* Any of the three throws; the file is deleted, if that does not throw as well.
EmbedFails(s) ==
  /\ Alive(s) /\ token[s]
  /\ worker[s] \in {"measuring", "clearing", "moving"}
  /\ tmp' \in (IF worker[s] = "measuring" THEN {tmp, s} ELSE {tmp})
  /\ \/ embed' = None /\ slips' = slips
     \/ embed' = embed /\ Slip(s, "write")
  /\ Becomes(worker, s, "signalling")
  /\ UNCHANGED <<launcher, process, placed, ready, parsed, found>>

\* A slip: the signal does not wait for the embed file.
SignalFirst(s) ==
  /\ Alive(s) /\ worker[s] \in {"measuring", "signalling"}
  /\ ready' = [ready EXCEPT ![s] = IF @ = "unset" THEN "set" ELSE @]
  /\ Becomes(worker, s, "editing")
  /\ UNCHANGED <<launcher, process, placed, files, parsed, history>>

\* utinni_signal_launcher_ready: without the launcher's handle there is no event.
Signal(s) ==
  /\ Alive(s) /\ worker[s] = "signalling"
  /\ ready' = [ready EXCEPT ![s] = IF @ = "unset" THEN "set" ELSE @]
  /\ Becomes(worker, s, "editing")
  /\ UNCHANGED <<launcher, process, placed, files, parsed, history>>

WorkerStep(s) ==
  \/ CreateDetours(s) \/ CreatePatches(s) \/ LoadPlugins(s)
  \/ WireCallbacks(s) \/ NoRuntime(s)
  \/ SkipEmbed(s) \/ WriteTmp(s) \/ ClearEmbed(s) \/ MoveEmbed(s) \/ EmbedFails(s) \/ Signal(s)

-----------------------------------------------------------------------------
Next ==
  \E s \in Sessions :
    \/ CannotCreate(s) \/ CreateSuspended(s)
    \/ LauncherStep(s) \/ MainStep(s) \/ GameEnds(s) \/ WorkerStep(s)

\* The launcher's waits have limits, the library's load ends once nothing holds the
\* loader lock, and the user answers the message box; the operating system runs the
\* client's main thread when nothing holds it.
Fairness ==
  \A s \in Sessions : WF_vars(LauncherStep(s)) /\ WF_vars(MainStep(s))

Spec == Init /\ [][Next]_vars /\ Fairness

-----------------------------------------------------------------------------
(***************************************************************************)
(* Properties.                                                             *)
(***************************************************************************)
\* Every variable has its type.
TypeOK ==
  /\ launcher \in [Sessions -> {"idle"} \cup Busy \cup Ended]
  /\ client \in [Sessions -> {"none", "running", "gone"}]
  /\ token \in [Sessions -> BOOLEAN]
  /\ entry \in [Sessions -> {"orig", "spin", "torn"}]
  /\ main \in [Sessions -> {"loading", "entry", "game", "lost"}]
  /\ held \in [Sessions -> BOOLEAN]
  /\ worker \in [Sessions -> {"none", "hooking", "patching", "loading", "starting",
                              "measuring", "clearing", "moving", "signalling", "editing",
                              "ended"}]
  /\ placed \in [Sessions -> SUBSET Parts]
  /\ ready \in [Sessions -> {"none", "unset", "set", "closed"}]
  /\ embed \in Sessions \cup {None}
  /\ tmp \in Sessions \cup {None}
  /\ parsed \in [Sessions -> Sessions \cup {None, Unread}]
  /\ found \in [Sessions -> Sessions \cup {None}]
  /\ slips \in [Sessions -> SUBSET Slips]

\* A client whose entry point was patched runs the game's first instruction only when
\* the hooks, the patches, the native plugins and the managed callbacks are in place,
\* whatever timed out.
HookedBeforeGame ==
  \A s \in Sessions : main[s] = "game" /\ "patch" \notin slips[s] => placed[s] = Parts

\* The main thread never executes an entry point that is half restored.
NoTornEntry == \A s \in Sessions : main[s] # "lost"

\* The engine parses the numbers that lay there when its client was launched only if
\* the launcher could not delete them and, besides, its entry point was not held or the
\* editor neither replaced nor removed them; however launches overlap.
OldNumbersTakeTwoSlips ==
  \A s \in Sessions :
    parsed[s] \in Sessions /\ parsed[s] = found[s]
    => "delete" \in slips[s] /\ slips[s] \cap {"patch", "write"} # {}

\* Every launch ends: each starts once, and there is always a moment to come when no
\* launcher is at work.
LaunchEnds == []<>(\A s \in Sessions : launcher[s] \notin Busy)

\* A client whose launch succeeded gets to its game.
ClientGetsGoing == []<>(\A s \in Sessions : launcher[s] = "done" => main[s] = "game")
=============================================================================
