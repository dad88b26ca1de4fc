----------------------------- MODULE RepackTre -----------------------------
(***************************************************************************)
(* Repacking one .tre archive in place (Utinni.Cli/Commands/               *)
(* RepackTreCommand.cs, UtinniCoreDotNet/Saving, Utinni.Mcp/Server         *)
(* SaveVerb.cs and CliDispatcher.cs, Utinni.Mcp/Tools/RepackTool.cs).      *)
(*                                                                         *)
(* Agents call a host, which lets one call at a time through to an archive *)
(* and runs the command line as a process of its own, for a limited time.  *)
(* Users run the same command line directly, past the host.  The command   *)
(* rebuilds the archive in memory from slices it reads one by one, probes  *)
(* for other users of the file, copies it to a backup and overwrites it.   *)
(* It may be killed at any point, and a client may hold the archive open.  *)
(*                                                                         *)
(* The content of a file is "whole", "torn" (its end is missing) or        *)
(* "mixed" (of two different rebuilds: every rebuild moves the records).   *)
(***************************************************************************)
EXTENDS FiniteSets

CONSTANTS Calls,    \* calls of repack_tre, one process each
          Direct,   \* runs of the command line past the host
          Backups,  \* names of backups
          None      \* nobody, no backup

ASSUME RepackAssumption == Calls \cap Direct = {} /\ None \notin Calls \cup Direct \cup Backups

Runs == Calls \cup Direct

VARIABLES
  archive,  \* its content
  client,   \* has a client the archive open
  backups,  \* per name: "absent", "begun", "spoiled" (begun, of a file that has changed), or the content
  pc,       \* the process of each run
  memory,   \* the archive it is rebuilding
  backup,   \* the name it has chosen
  caller,   \* where each call is in the host
  gate      \* the call that holds the archive's semaphore

files == <<archive, client, backups>>
process == <<pc, memory, backup>>
host == <<caller, gate>>
vars == <<files, process, host>>

Content == {"whole", "mixed", "torn"}
Empty == "empty"
Over == {"ok", "refused", "killed"}
Living == {"started", "slicing", "rebuilt", "probed", "named", "copying", "copied", "writing"}

Init ==
  /\ archive = "whole" /\ client = FALSE
  /\ backups = [b \in Backups |-> "absent"]
  /\ pc = [r \in Runs |-> "none"]
  /\ memory = [r \in Runs |-> Empty]
  /\ backup = [r \in Runs |-> None]
  /\ caller = [c \in Calls |-> "idle"] /\ gate = None

Goes(r, to) == pc' = [pc EXCEPT ![r] = to]

\* A process ends, and its memory with it.
Ends(r, how) ==
  /\ Goes(r, how)
  /\ memory' = [memory EXCEPT ![r] = Empty]
  /\ backup' = [backup EXCEPT ![r] = None]

Refuse(r) == Ends(r, "refused") /\ UNCHANGED <<files, host>>

\* The operating system's sharing: a reader that denies writers, a writer that
\* denies writers, and the probe that denies everyone.
Written == \E r \in Runs : pc[r] = "writing"
InUse == client \/ Written \/ \E r \in Runs : pc[r] = "copying"

-----------------------------------------------------------------------------
(***************************************************************************)
(* The command line.                                                       *)
(***************************************************************************)
\* TreFile.Open reads the table of contents and closes the file: a torn archive
\* does not parse, one that is being written cannot be opened.
OpenArchive(r) ==
  /\ pc[r] = "started"
  /\ \/ ~Written /\ archive # "torn"
        /\ Goes(r, "slicing")
        /\ memory' = [memory EXCEPT ![r] = archive]
        /\ UNCHANGED <<files, backup, host>>
     \/ (Written \/ archive = "torn") /\ Refuse(r)

\* TreWriter.Repack opens the file again for every slice.
Rebuild(r) ==
  /\ pc[r] = "slicing" /\ ~Written
  /\ Goes(r, "rebuilt")
  /\ UNCHANGED <<files, memory, backup, host>>

\* An encrypted archive, a slice that cannot be read.
CannotRebuild(r) == pc[r] = "slicing" /\ Refuse(r)

\* TreRepackLock.Probe
Probe(r) ==
  /\ pc[r] = "rebuilt"
  /\ \/ ~InUse /\ Goes(r, "probed") /\ UNCHANGED <<files, memory, backup, host>>
     \/ Refuse(r)

\* A slip: the archive is overwritten first, the backup is made after.
NameNothing(r) ==
  /\ pc[r] = "probed"
  /\ Goes(r, "copied")
  /\ UNCHANGED <<files, memory, backup, host>>

\* TreBackupPath.NextAvailable: a name that is free now.
NameBackup(r) ==
  /\ pc[r] = "probed"
  /\ \E b \in Backups : backups[b] = "absent" /\ backup' = [backup EXCEPT ![r] = b]
  /\ Goes(r, "named")
  /\ UNCHANGED <<files, memory, host>>

\* A slip: File.Copy with overwrite.
CopyOver(r) == TRUE

\* File.Copy does not overwrite.
MayCopy(r) == backups[backup[r]] = "absent"

BeginCopy(r) ==
  /\ pc[r] = "named" /\ MayCopy(r)
  /\ Goes(r, "copying")
  /\ backups' = [backups EXCEPT ![backup[r]] = IF archive = "whole" THEN "begun" ELSE "spoiled"]
  /\ UNCHANGED <<archive, client, memory, backup, host>>

EndCopy(r) ==
  /\ pc[r] = "copying"
  /\ Goes(r, "copied")
  /\ backups' = [backups EXCEPT ![backup[r]] = IF @ = "begun" THEN "whole" ELSE "mixed"]
  /\ UNCHANGED <<archive, client, memory, backup, host>>

\* The name is taken by now, the disk is full.
CannotCopy(r) == pc[r] \in {"named", "copying"} /\ Refuse(r)

\* WriteAtomic opens with FileMode.Create, which cuts the file to nothing.  What
\* others read of it from here on is of another file.
MayWrite == ~client /\ ~Written
BeginWrite(r) ==
  /\ pc[r] = "copied" /\ MayWrite
  /\ Goes(r, "writing")
  /\ archive' = "torn"
  /\ memory' = [q \in Runs |-> IF pc[q] = "slicing" THEN "mixed" ELSE memory[q]]
  /\ backups' = [b \in Backups |-> IF backups[b] = "begun" THEN "spoiled" ELSE backups[b]]
  /\ UNCHANGED <<client, backup, host>>

\* A slip: the buffer is given back before it is written.
EndWriteEmpty(r) ==
  /\ pc[r] = "writing"
  /\ Ends(r, "ok")
  /\ archive' = memory'[r]
  /\ UNCHANGED <<client, backups, host>>

EndWrite(r) ==
  /\ pc[r] = "writing"
  /\ Ends(r, "ok")
  /\ archive' = memory[r]
  /\ UNCHANGED <<client, backups, host>>

\* A client took the archive after the probe, the disk is full.
CannotWrite(r) == pc[r] \in {"copied", "writing"} /\ Refuse(r)

RunStep(r) ==
  \/ OpenArchive(r) \/ Rebuild(r) \/ CannotRebuild(r) \/ Probe(r) \/ NameBackup(r)
  \/ BeginCopy(r) \/ EndCopy(r) \/ CannotCopy(r)
  \/ BeginWrite(r) \/ EndWrite(r) \/ CannotWrite(r)

-----------------------------------------------------------------------------
(***************************************************************************)
(* The host.                                                               *)
(***************************************************************************)
Waits(c, to) == caller' = [caller EXCEPT ![c] = to]

\* repack_tre; by default it only says what it would do.
Ask(c) ==
  /\ caller[c] = "idle"
  /\ \E to \in {"waiting", "planned"} : Waits(c, to)
  /\ UNCHANGED <<files, process, gate>>

\* RunSerializedAsync, for this archive's path.
Pass(c) ==
  /\ caller[c] = "waiting" /\ gate = None
  /\ gate' = c
  /\ Waits(c, "through")
  /\ UNCHANGED <<files, process>>

\* A slip: a failure leaves without the release.
LeaveWhenAnswered(c, answer) ==
  /\ gate' = IF answer = "answered" THEN None ELSE gate
  /\ Waits(c, answer)

Leave(c, answer) == gate' = None /\ Waits(c, answer)

\* CliDispatcher.RunAsync, with and without a command line to run.
StartProcess(c) ==
  /\ caller[c] = "through"
  /\ Waits(c, "awaiting")
  /\ Goes(c, "started")
  /\ UNCHANGED <<files, memory, backup, gate>>

NoCommandLine(c) ==
  /\ caller[c] = "through"
  /\ Leave(c, "failed")
  /\ UNCHANGED <<files, process>>

\* The process ends in time: ok and refused are answers, a crash is a failure.
SeeExit(c) ==
  /\ caller[c] = "awaiting" /\ pc[c] \in Over
  /\ Leave(c, IF pc[c] = "killed" THEN "failed" ELSE "answered")
  /\ UNCHANGED <<files, process>>

\* A slip: the host asks for its death and answers.
TimeOutAndLeave(c) ==
  /\ caller[c] = "awaiting"
  /\ Leave(c, "failed")
  /\ UNCHANGED <<files, process>>

\* It does not: the host asks for its death and waits for it.
TimeOut(c) ==
  /\ caller[c] = "awaiting"
  /\ Waits(c, "killing")
  /\ UNCHANGED <<files, process, gate>>

SeeDeath(c) ==
  /\ caller[c] = "killing" /\ pc[c] \in Over
  /\ Leave(c, "failed")
  /\ UNCHANGED <<files, process>>

HostStep(c) ==
  \/ Pass(c) \/ StartProcess(c) \/ NoCommandLine(c)
  \/ SeeExit(c) \/ TimeOut(c) \/ SeeDeath(c)

-----------------------------------------------------------------------------
\* The host's kill arrives, or the process dies of something else.
Die(r) ==
  /\ pc[r] \in Living
  /\ Ends(r, "killed")
  /\ UNCHANGED <<files, host>>

KillArrives(c) == caller[c] = "killing" /\ Die(c)

RunDirectly(d) ==
  /\ pc[d] = "none"
  /\ Goes(d, "started")
  /\ UNCHANGED <<files, memory, backup, host>>

\* A client shares the archive with readers.
ClientOpens ==
  /\ ~client /\ ~Written
  /\ client' = TRUE
  /\ UNCHANGED <<archive, backups, process, host>>

ClientCloses ==
  /\ client /\ client' = FALSE
  /\ UNCHANGED <<archive, backups, process, host>>

Next ==
  \/ \E r \in Runs : RunStep(r) \/ Die(r)
  \/ \E c \in Calls : Ask(c) \/ HostStep(c)
  \/ \E d \in Direct : RunDirectly(d)
  \/ ClientOpens \/ ClientCloses

\* The host's tasks run, and a process that is killed dies.
Fairness == \A c \in Calls : SF_vars(Pass(c)) /\ WF_vars(HostStep(c)) /\ WF_vars(KillArrives(c))

Spec == Init /\ [][Next]_vars /\ Fairness

-----------------------------------------------------------------------------
(***************************************************************************)
(* Properties.                                                             *)
(***************************************************************************)
\* Every variable has its type.
TypeOK ==
  /\ archive \in Content /\ client \in BOOLEAN
  /\ backups \in [Backups -> Content \cup {"absent", "begun", "spoiled"}]
  /\ pc \in [Runs -> {"none"} \cup Living \cup Over]
  /\ memory \in [Runs -> Content \cup {Empty}]
  /\ backup \in [Runs -> Backups \cup {None}]
  /\ caller \in [Calls -> {"idle", "planned", "waiting", "through", "awaiting", "killing",
                           "answered", "failed"}]
  /\ gate \in Calls \cup {None}

\* Whoever dies at whatever point, however many repacks run at once: while the
\* archive is not whole, there is a backup that is.
WholeCopyExists == archive = "whole" \/ \E b \in Backups : backups[b] = "whole"

\* Calls through the host never mix two rebuilds, in the archive or in a backup:
\* the next process starts when the last one is dead, also after a timeout.
HostAloneIsSafe ==
  (\A d \in Direct : pc[d] = "none") =>
    archive # "mixed" /\ \A b \in Backups : backups[b] # "mixed"

\* A backup that is complete is never overwritten, not even by a run that chose
\* the same name in the same second.
BackupsStay ==
  [][\A b \in Backups : backups[b] \in Content => backups'[b] = backups[b]]_vars

\* Every call is answered, whatever becomes of its process and of the calls before.
EveryCallIsAnswered ==
  \A c \in Calls : caller[c] = "waiting" ~> caller[c] \in {"answered", "failed"}
=============================================================================
