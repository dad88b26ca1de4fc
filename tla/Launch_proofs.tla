---------------------------- MODULE Launch_proofs ----------------------------
(***************************************************************************)
(* Proofs about Launch: for any number of launches, one after the other or *)
(* at the same time, the game starts hooked where its entry point was      *)
(* patched, its main thread never runs a half restored entry point, and an *)
(* old embed file reaches an engine only past two failures.                *)
(***************************************************************************)
EXTENDS Launch, TLAPS

-----------------------------------------------------------------------------
(***************************************************************************)
(* The inductive invariants.                                               *)
(***************************************************************************)
\* The entry point from the patch to its restoring.
Patched(s) == entry[s] = IF "patch" \in slips[s] THEN "orig" ELSE "spin"

\* What holds of the client's process at each point of the launcher: its main thread
\* is suspended, or its entry point loops, or it is dead, until everything is placed;
\* but for the client whose entry point the patch missed.
Stages ==
  \A s \in Sessions :
    /\ launcher[s] = "idle" => client[s] = "none" /\ entry[s] = "orig" /\ slips[s] = {}
    /\ launcher[s] = "created" => held[s] /\ entry[s] = "orig" /\ "patch" \notin slips[s]
    /\ launcher[s] \in {"polling", "injecting", "awaiting", "calling", "waiting"} => Patched(s)
    /\ launcher[s] = "restoring" => held[s] /\ Patched(s)
    /\ launcher[s] = "halfway" => held[s]
    /\ launcher[s] = "restored" => held[s] /\ entry[s] = "orig"
    /\ launcher[s] = "done" => entry[s] = "orig"
    /\ launcher[s] = "alert" => client[s] # "running" \/ held[s] \/ Patched(s)
    /\ launcher[s] = "failed" => client[s] # "running"

\* How far the init thread is, and what is in place by then.
Order ==
  \A s \in Sessions :
    /\ launcher[s] \in {"idle", "created", "polling", "injecting", "awaiting", "calling"}
       => worker[s] = "none"
    /\ worker[s] = "patching" => {"hooks"} \subseteq placed[s]
    /\ worker[s] = "loading" => {"hooks", "patches"} \subseteq placed[s]
    /\ worker[s] = "starting" => {"hooks", "patches", "plugins"} \subseteq placed[s]
    /\ worker[s] \in {"measuring", "clearing", "moving", "signalling", "editing"}
       => placed[s] = Parts
    /\ ready[s] = "set" => worker[s] = "editing"
    /\ launcher[s] \in {"restoring", "halfway", "restored", "done"} => worker[s] = "editing"
    /\ main[s] = "game" => worker[s] = "editing" \/ "patch" \in slips[s]
    /\ main[s] # "lost"

\* A session writes the embed file once at most.
HasWritten(s) == worker[s] \in {"clearing", "moving", "signalling", "editing"}
WrittenOnce ==
  /\ \A t \in Sessions : embed = t => HasWritten(t) /\ tmp # t
  /\ \A t \in Sessions : tmp = t => HasWritten(t)

\* What lay there when a session was launched does not come back: while it lies there
\* it has not been deleted, and past the editor's attempt not replaced either.
OldFile ==
  \A s, t \in Sessions :
    found[s] = t =>
      /\ HasWritten(t) /\ tmp # t
      /\ token[s] /\ embed = t => "delete" \in slips[s]
      /\ token[s] /\ embed = t /\ worker[s] \in {"moving", "signalling", "editing"}
         => "write" \in slips[s]
      /\ parsed[s] = t => "delete" \in slips[s] /\ slips[s] \cap {"patch", "write"} # {}

LaunchInv == TypeOK /\ Stages /\ Order
FileInv == WrittenOnce /\ OldFile /\ \A s \in Sessions : launcher[s] = "idle" => parsed[s] = Unread

-----------------------------------------------------------------------------
(***************************************************************************)
(* Types, stages and order.                                                *)
(***************************************************************************)
LEMMA InitLaunchInv == Init => LaunchInv
<1> SUFFICES ASSUME Init PROVE LaunchInv
  OBVIOUS
<1>1. TypeOK
  BY DEF Init, TypeOK, Busy, Ended, Parts, Unread, Slips
<1>2. Stages /\ Order
  BY DEF Init, Stages, Order, Patched
<1> QED
  BY <1>1, <1>2 DEF LaunchInv

LEMMA NextLaunchInv == LaunchInv /\ [Next]_vars => LaunchInv'
<1> SUFFICES ASSUME LaunchInv, [Next]_vars PROVE LaunchInv'
  OBVIOUS
<1> USE DEF LaunchInv, TypeOK, Stages, Order, Busy, Ended, Parts, Unread, Slips, Patched, history, files
<1>1. ASSUME NEW s \in Sessions, CannotCreate(s) PROVE LaunchInv'
  <2>1. embed' \in Sessions \cup {None}
    BY <1>1 DEF CannotCreate, AfterDelete
  <2> QED
    BY <1>1, <2>1 DEF CannotCreate, MayStart, Becomes, process, bridge
<1>2. ASSUME NEW s \in Sessions, CreateSuspended(s) PROVE LaunchInv'
  <2>1. PICK advertised \in BOOLEAN :
          /\ token' = [token EXCEPT ![s] = advertised]
          /\ embed' \in AfterDelete(advertised)
          /\ slips' = slips \/ slips' = [slips EXCEPT ![s] = @ \cup {"delete"}]
    BY <1>2 DEF CreateSuspended, Becomes, Slip
  <2>2. token' \in [Sessions -> BOOLEAN]
    BY <2>1
  <2>3. embed' \in Sessions \cup {None}
    BY <2>1 DEF AfterDelete
  <2>4. /\ launcher[s] = "idle"
        /\ client' = [client EXCEPT ![s] = "running"] /\ held' = [held EXCEPT ![s] = TRUE]
        /\ launcher' = [launcher EXCEPT ![s] = "created"]
        /\ found' = [found EXCEPT ![s] = embed]
        /\ UNCHANGED <<entry, main, worker, placed, ready, tmp, parsed>>
    BY <1>2 DEF CreateSuspended, MayStart, Becomes, bridge
  <2>5. slips' \in [Sessions -> SUBSET Slips] /\ "patch" \notin slips'[s]
    BY <2>1, <2>4
  <2>6. \A r \in Sessions \ {s} : slips'[r] = slips[r]
    BY <2>1
  <2>7. TypeOK'
    BY <2>2, <2>3, <2>4, <2>5
  <2>8. Stages'
    BY <2>4, <2>5, <2>6
  <2>9. Order'
    BY <2>4, <2>5, <2>6
  <2> QED
    BY <2>7, <2>8, <2>9
<1>3. ASSUME NEW s \in Sessions, LauncherStep(s) PROVE LaunchInv'
  <2>1. CASE ParkAtEntry(s)
    BY <2>1 DEF ParkAtEntry, Slip, Becomes, Alive, process, bridge
  <2>2. CASE CannotPark(s)
    BY <2>2 DEF CannotPark, Becomes, Alive, process, bridge
  <2>3. CASE SeesEntry(s)
    BY <2>3 DEF SeesEntry, Becomes, Alive, process, bridge
  <2>4. CASE PollTimesOut(s)
    BY <2>4 DEF PollTimesOut, Becomes, Alive, process, bridge
  <2>5. CASE LoadCore(s)
    BY <2>5 DEF LoadCore, Becomes, Alive, process, bridge
  <2>13. CASE LoadReturns(s)
    BY <2>13 DEF LoadReturns, Becomes, Alive, process, bridge
  <2>6. CASE CallInit(s)
    BY <2>6 DEF CallInit, Becomes, Alive, process, bridge
  <2>7. CASE InjectFails(s)
    BY <2>7 DEF InjectFails, Becomes, Alive, process, bridge
  <2>8. CASE SeesReady(s)
    BY <2>8 DEF SeesReady, Becomes, Alive, process, bridge
  <2>9. CASE WaitTimesOut(s)
    BY <2>9 DEF WaitTimesOut, Becomes, Alive, process, bridge
  <2>10. CASE RestoreByte(s)
    BY <2>10 DEF RestoreByte, Becomes, Alive, process, bridge
  <2>11. CASE Release(s)
    BY <2>11 DEF Release, Becomes, Alive, process, bridge
  <2>12. CASE AnswerAlert(s)
    BY <2>12 DEF AnswerAlert, Becomes, Alive, process, bridge
  <2> QED
    BY <1>3, <2>1, <2>2, <2>3, <2>4, <2>5, <2>6, <2>7, <2>8, <2>9, <2>10, <2>11, <2>12, <2>13
    DEF LauncherStep
<1>4. ASSUME NEW s \in Sessions, MainStep(s) \/ GameEnds(s) PROVE LaunchInv'
  <2>1. CASE ReachEntry(s)
    BY <2>1 DEF ReachEntry, Runs, Becomes, Alive, process, bridge
  <2>2. CASE Fetch(s)
    BY <2>2 DEF Fetch, Runs, Becomes, Alive, process, bridge
  <2>3. CASE ParseConfig(s)
    BY <2>3 DEF ParseConfig, Runs, Becomes, Alive, process, bridge
  <2>4. CASE GameEnds(s)
    BY <2>4 DEF GameEnds, Runs, Becomes, Alive, process, bridge
  <2> QED
    BY <1>4, <2>1, <2>2, <2>3, <2>4 DEF MainStep
<1>5. ASSUME NEW s \in Sessions, WorkerStep(s) PROVE LaunchInv'
  <2>1. CASE CreateDetours(s)
    BY <2>1 DEF CreateDetours, Place, Becomes, Alive, process, bridge
  <2>2. CASE CreatePatches(s)
    BY <2>2 DEF CreatePatches, Place, Becomes, Alive, process, bridge
  <2>3. CASE LoadPlugins(s)
    BY <2>3 DEF LoadPlugins, Place, Becomes, Alive, process, bridge
  <2>4. CASE WireCallbacks(s)
    BY <2>4 DEF WireCallbacks, Place, Becomes, Alive, process, bridge
  <2>5. CASE NoRuntime(s)
    BY <2>5 DEF NoRuntime, Becomes, Alive, process, bridge
  <2>6. CASE SkipEmbed(s)
    BY <2>6 DEF SkipEmbed, Slip, Becomes, Alive, process, bridge
  <2>8. CASE WriteTmp(s)
    BY <2>8 DEF WriteTmp, Becomes, Alive, process, bridge
  <2>9. CASE ClearEmbed(s)
    BY <2>9 DEF ClearEmbed, Becomes, Alive, process, bridge
  <2>10. CASE MoveEmbed(s)
    BY <2>10 DEF MoveEmbed, Becomes, Alive, process, bridge
  <2>11. CASE EmbedFails(s)
    BY <2>11 DEF EmbedFails, Slip, Becomes, Alive, process, bridge
  <2>7. CASE Signal(s)
    BY <2>7 DEF Signal, Becomes, Alive, process, bridge
  <2> QED
    BY <1>5, <2>1, <2>2, <2>3, <2>4, <2>5, <2>6, <2>7, <2>8, <2>9, <2>10, <2>11 DEF WorkerStep
<1>6. CASE UNCHANGED vars
  BY <1>6 DEF vars, process, bridge
<1> QED
  BY <1>1, <1>2, <1>3, <1>4, <1>5, <1>6 DEF Next

\* Every variable keeps its type, for any number of launches.
THEOREM TypeCorrect == Spec => []TypeOK
<1>1. Spec => []LaunchInv
  BY InitLaunchInv, NextLaunchInv, PTL DEF Spec
<1>2. LaunchInv => TypeOK
  BY DEF LaunchInv
<1> QED
  BY <1>1, <1>2, PTL

\* The game's first instruction finds everything in place, where the patch landed.
THEOREM AlwaysHookedBeforeGame == Spec => []HookedBeforeGame
<1>1. Spec => []LaunchInv
  BY InitLaunchInv, NextLaunchInv, PTL DEF Spec
<1>2. LaunchInv => HookedBeforeGame
  BY DEF LaunchInv, Order, HookedBeforeGame
<1> QED
  BY <1>1, <1>2, PTL

\* The main thread never runs an entry point that is half restored.
THEOREM NeverTornEntry == Spec => []NoTornEntry
<1>1. Spec => []LaunchInv
  BY InitLaunchInv, NextLaunchInv, PTL DEF Spec
<1>2. LaunchInv => NoTornEntry
  BY DEF LaunchInv, Order, NoTornEntry
<1> QED
  BY <1>1, <1>2, PTL

-----------------------------------------------------------------------------
(***************************************************************************)
(* The embed file.                                                         *)
(***************************************************************************)
LEMMA InitFileInv == Init => FileInv
BY LaunchAssumption DEF Init, FileInv, WrittenOnce, OldFile, Unread

\* What a launch finds is of a session past its one writing, so no later move brings
\* it back; only a deletion that fails keeps it, and then the step that fails says so.
LEMMA NextFileInv == LaunchInv /\ FileInv /\ [Next]_vars => FileInv'
<1> SUFFICES ASSUME LaunchInv, FileInv, [Next]_vars PROVE FileInv'
  OBVIOUS
<1> USE LaunchAssumption DEF LaunchInv, TypeOK, FileInv, WrittenOnce, OldFile, HasWritten, history, files, process, bridge
<1>1. ASSUME NEW s \in Sessions, CannotCreate(s) PROVE FileInv'
  <2>1. embed' \in {None, embed}
    BY <1>1 DEF CannotCreate, AfterDelete
  <2> QED
    BY <1>1, <2>1 DEF CannotCreate, Becomes
<1>2. ASSUME NEW s \in Sessions, CreateSuspended(s) PROVE FileInv'
  <2>1. PICK advertised \in BOOLEAN :
          /\ token' = [token EXCEPT ![s] = advertised]
          /\ embed' \in AfterDelete(advertised)
          /\ IF advertised /\ embed' # None THEN Slip(s, "delete") ELSE slips' = slips
    BY <1>2 DEF CreateSuspended, Becomes
  <2>2. /\ launcher[s] = "idle" /\ launcher' = [launcher EXCEPT ![s] = "created"]
        /\ found' = [found EXCEPT ![s] = embed]
        /\ UNCHANGED <<worker, tmp, parsed>>
    BY <1>2 DEF CreateSuspended, MayStart, Becomes
  <2>3. /\ worker[s] = "none" /\ parsed[s] = Unread /\ Unread \notin Sessions
        /\ embed' \in {None, embed}
    BY <2>1, <2>2 DEF Order, AfterDelete
  <2> QED
    BY <2>1, <2>2, <2>3 DEF Slip
<1>3. ASSUME NEW s \in Sessions, LauncherStep(s) PROVE FileInv'
  <2>1. CASE ParkAtEntry(s)
    <3>1. UNCHANGED <<token, worker, files, parsed, found>>
      BY <2>1 DEF ParkAtEntry
    <3>2. slips' = slips \/ slips' = [slips EXCEPT ![s] = @ \cup {"patch"}]
      BY <2>1 DEF ParkAtEntry, Slip
    <3>3. launcher' = [launcher EXCEPT ![s] = "polling"]
      BY <2>1 DEF ParkAtEntry, Becomes
    <3> QED
      BY <3>1, <3>2, <3>3
  <2>2. CASE CallInit(s)
    <3>1. worker[s] = "none"
      BY <2>2 DEF CallInit, Order
    <3> QED
      BY <2>2, <3>1 DEF CallInit, Becomes
  <2>3. CASE ~ParkAtEntry(s) /\ ~CallInit(s)
    <3>1. UNCHANGED <<token, worker, files, parsed, history>>
      BY <1>3, <2>3 DEF LauncherStep, CannotPark, SeesEntry, PollTimesOut, LoadCore, LoadReturns,
         InjectFails, SeesReady, WaitTimesOut, RestoreByte, Release, AnswerAlert
    <3>2. \A r \in Sessions : launcher'[r] = "idle" => launcher[r] = "idle"
      BY <1>3, <2>3 DEF LauncherStep, CannotPark, SeesEntry, PollTimesOut, LoadCore, LoadReturns,
         InjectFails, SeesReady, WaitTimesOut, RestoreByte, Release, AnswerAlert, Becomes
    <3> QED
      BY <3>1, <3>2
  <2> QED
    BY <2>1, <2>2, <2>3
<1>4. ASSUME NEW s \in Sessions, ParseConfig(s) PROVE FileInv'
  <2>1. /\ main[s] = "game" /\ client[s] = "running"
        /\ parsed' = [parsed EXCEPT ![s] = IF token[s] THEN embed ELSE None]
        /\ UNCHANGED <<launcher, token, worker, files, history>>
    BY <1>4 DEF ParseConfig, Becomes, Runs, Alive
  <2>2. launcher[s] # "idle"
    BY <2>1 DEF Stages
  <2>3. worker[s] = "editing" \/ "patch" \in slips[s]
    BY <2>1 DEF Order
  <2> QED
    BY <2>1, <2>2, <2>3
<1>5. ASSUME NEW s \in Sessions, ReachEntry(s) \/ Fetch(s) \/ GameEnds(s) PROVE FileInv'
  BY <1>5 DEF ReachEntry, Fetch, GameEnds, Becomes
<1>6. ASSUME NEW s \in Sessions, WorkerStep(s) PROVE FileInv'
  <2>1. CASE CreateDetours(s) \/ CreatePatches(s) \/ LoadPlugins(s) \/ WireCallbacks(s) \/ NoRuntime(s)
    BY <2>1 DEF CreateDetours, CreatePatches, LoadPlugins, WireCallbacks, NoRuntime, Place, Becomes
  <2>2. CASE SkipEmbed(s)
    BY <2>2 DEF SkipEmbed, Slip, Becomes
  <2>3. CASE WriteTmp(s)
    BY <2>3 DEF WriteTmp, Becomes
  <2>4. CASE ClearEmbed(s)
    BY <2>4 DEF ClearEmbed, Becomes
  <2>5. CASE MoveEmbed(s)
    BY <2>5 DEF MoveEmbed, Becomes
  <2>6. CASE EmbedFails(s)
    BY <2>6 DEF EmbedFails, Slip, Becomes
  <2>7. CASE Signal(s)
    BY <2>7 DEF Signal, Becomes
  <2> QED
    BY <1>6, <2>1, <2>2, <2>3, <2>4, <2>5, <2>6, <2>7 DEF WorkerStep
<1>7. CASE UNCHANGED vars
  BY <1>7 DEF vars
<1> QED
  BY <1>1, <1>2, <1>3, <1>4, <1>5, <1>6, <1>7 DEF Next, MainStep

\* Old numbers reach an engine past two slips only.
THEOREM AlwaysTwoSlips == Spec => []OldNumbersTakeTwoSlips
<1>1. Spec => [](LaunchInv /\ FileInv)
  BY InitLaunchInv, NextLaunchInv, InitFileInv, NextFileInv, PTL DEF Spec
<1>2. FileInv => OldNumbersTakeTwoSlips
  BY DEF FileInv, OldFile, OldNumbersTakeTwoSlips
<1> QED
  BY <1>1, <1>2, PTL
=============================================================================
