-------------------------- MODULE RepackTre_proofs --------------------------
(***************************************************************************)
(* Proofs about RepackTre: for any number of calls, direct runs and        *)
(* backups, a whole copy of the archive exists at every moment, complete   *)
(* backups stay, and calls through the host alone never mix two rebuilds.  *)
(***************************************************************************)
EXTENDS RepackTre, TLAPS

-----------------------------------------------------------------------------
(***************************************************************************)
(* The inductive invariants.                                               *)
(***************************************************************************)
Before == {"slicing", "rebuilt", "probed", "named", "copying", "copied"}

\* What a process holds in memory is a rebuild, ...
Loaded == \A r \in Runs : pc[r] \in Before \cup {"writing"} => memory[r] \in {"whole", "mixed"}

\* ... and it has a name for the backup once it has chosen one.
Named == \A r \in Runs : pc[r] \in {"named", "copying", "copied", "writing"} => backup[r] \in Backups

\* A backup that is being copied to is not complete, nobody else copies to it, and
\* once it is copied it is complete.
CopiesOpen == \A r \in Runs : pc[r] = "copying" => backups[backup[r]] \in {"begun", "spoiled"}
CopiesApart == \A q, r \in Runs :
                 pc[q] = "copying" /\ pc[r] = "copying" /\ backup[q] = backup[r] => q = r
CopiesDone == \A r \in Runs : pc[r] = "copied" => backups[backup[r]] \in {"whole", "mixed"}

CopyInv == TypeOK /\ Loaded /\ Named /\ CopiesOpen /\ CopiesApart /\ CopiesDone

\* Before the first run overwrites the archive every copy is a good one; from then
\* on there is the backup of the first.
Untouched ==
  /\ archive = "whole"
  /\ \A b \in Backups : backups[b] \in {"absent", "begun", "whole"}
  /\ \A r \in Runs : pc[r] # "writing"
FirstBackup == Untouched \/ \E b \in Backups : backups[b] = "whole"

\* A process of the host's lives only while its call holds the semaphore.
Guarded ==
  \A c \in Calls :
    /\ pc[c] \in Living => caller[c] \in {"awaiting", "killing"}
    /\ caller[c] \in {"through", "awaiting", "killing"} => gate = c

\* As long as nobody goes past the host, nothing changes under a process that
\* reads or copies.
Alone == \A d \in Direct : pc[d] = "none"
Steady ==
  Alone =>
    /\ archive # "mixed" /\ \A b \in Backups : backups[b] # "mixed"
    /\ \A c \in Calls :
         /\ pc[c] \in Before => archive = "whole"
         /\ pc[c] \in Before \cup {"writing"} => memory[c] = "whole"
         /\ pc[c] = "copying" => backups[backup[c]] = "begun"

-----------------------------------------------------------------------------
(***************************************************************************)
(* Types, processes and their copies.                                      *)
(***************************************************************************)
LEMMA InitCopyInv == Init => CopyInv
<1> SUFFICES ASSUME Init PROVE CopyInv
  OBVIOUS
<1> USE DEF Init
<1>1. archive \in Content /\ client \in BOOLEAN
  BY DEF Content
<1>2. backups \in [Backups -> Content \cup {"absent", "begun", "spoiled"}]
  OBVIOUS
<1>3. pc \in [Runs -> {"none"} \cup Living \cup Over]
  OBVIOUS
<1>4. memory \in [Runs -> Content \cup {Empty}] /\ backup \in [Runs -> Backups \cup {None}]
  OBVIOUS
<1>5. caller \in [Calls -> {"idle", "planned", "waiting", "through", "awaiting", "killing",
                           "answered", "failed"}]
  OBVIOUS
<1>6. TypeOK
  BY <1>1, <1>2, <1>3, <1>4, <1>5 DEF TypeOK
<1>7. Loaded /\ Named /\ CopiesOpen /\ CopiesApart /\ CopiesDone
  BY DEF Before, Loaded, Named, CopiesOpen, CopiesApart, CopiesDone
<1> QED
  BY <1>6, <1>7 DEF CopyInv

LEMMA NextCopyInv == CopyInv /\ [Next]_vars => CopyInv'
<1> SUFFICES ASSUME CopyInv, [Next]_vars PROVE CopyInv'
  OBVIOUS
<1> USE DEF CopyInv, TypeOK, Content, Over, Living, Empty, Before,
            Loaded, Named, CopiesOpen, CopiesApart, CopiesDone
<1>1. ASSUME NEW r \in Runs, Refuse(r) PROVE CopyInv'
  BY <1>1 DEF Refuse, Ends, Goes, files, host
<1>2. ASSUME NEW r \in Runs, RunStep(r) PROVE CopyInv'
  <2>1. CASE OpenArchive(r)
    <3>1. CASE archive # "torn" /\ Goes(r, "slicing") /\ memory' = [memory EXCEPT ![r] = archive]
               /\ UNCHANGED <<files, backup, host>>
      BY <3>1 DEF Goes, files, host
    <3> QED
      BY <1>1, <2>1, <3>1 DEF OpenArchive
  <2>2. CASE Rebuild(r)
    BY <2>2 DEF Rebuild, Goes, files, host
  <2>3. CASE CannotRebuild(r) \/ CannotCopy(r) \/ CannotWrite(r)
    BY <1>1, <2>3 DEF CannotRebuild, CannotCopy, CannotWrite
  <2>4. CASE Probe(r)
    <3>1. CASE pc[r] = "rebuilt" /\ Goes(r, "probed") /\ UNCHANGED <<files, memory, backup, host>>
      BY <3>1 DEF Goes, files, host
    <3> QED
      BY <1>1, <2>4, <3>1 DEF Probe
  <2>5. CASE NameBackup(r)
    BY <2>5 DEF NameBackup, Goes, files, host
  <2>6. CASE BeginCopy(r)
    BY <2>6 DEF BeginCopy, MayCopy, Goes, host
  <2>7. CASE EndCopy(r)
    BY <2>7 DEF EndCopy, Goes, host
  <2>8. CASE BeginWrite(r)
    BY <2>8 DEF BeginWrite, Goes, host
  <2>9. CASE EndWrite(r)
    BY <2>9 DEF EndWrite, Ends, Goes, host
  <2> QED
    BY <1>2, <2>1, <2>2, <2>3, <2>4, <2>5, <2>6, <2>7, <2>8, <2>9 DEF RunStep
<1>3. ASSUME NEW r \in Runs, Die(r) PROVE CopyInv'
  BY <1>3 DEF Die, Ends, Goes, files, host
<1>4. ASSUME NEW c \in Calls, Ask(c) \/ HostStep(c) PROVE CopyInv'
  <2>1. CASE Ask(c)
    BY <2>1 DEF Ask, Waits, files, process
  <2>2. CASE StartProcess(c)
    BY <2>2 DEF StartProcess, Waits, Goes, files, Runs
  <2>3. CASE Pass(c) \/ NoCommandLine(c) \/ SeeExit(c) \/ TimeOut(c) \/ SeeDeath(c)
    BY <2>3 DEF Pass, NoCommandLine, SeeExit, TimeOut, SeeDeath, Leave, Waits, files, process
  <2> QED
    BY <1>4, <2>1, <2>2, <2>3 DEF HostStep
<1>5. ASSUME NEW d \in Direct, RunDirectly(d) PROVE CopyInv'
  BY <1>5 DEF RunDirectly, Goes, files, host, Runs
<1>6. CASE ClientOpens \/ ClientCloses
  <2>1. client' \in BOOLEAN
    BY <1>6 DEF ClientOpens, ClientCloses
  <2>2. UNCHANGED <<archive, backups, pc, memory, backup, caller, gate>>
    BY <1>6 DEF ClientOpens, ClientCloses, process, host
  <2> QED
    BY <2>1, <2>2
<1>7. CASE UNCHANGED vars
  BY <1>7 DEF vars, files, process, host
<1> QED
  BY <1>2, <1>3, <1>4, <1>5, <1>6, <1>7 DEF Next

\* Every variable keeps its type, for any calls, direct runs and backup names.
THEOREM TypeCorrect == Spec => []TypeOK
<1>1. Spec => []CopyInv
  BY InitCopyInv, NextCopyInv, PTL DEF Spec
<1>2. CopyInv => TypeOK
  BY DEF CopyInv
<1> QED
  BY <1>1, <1>2, PTL

-----------------------------------------------------------------------------
(***************************************************************************)
(* A whole copy.                                                           *)
(***************************************************************************)
\* What a step leaves of the archive, of the backups and of who writes.
KeepsFiles ==
  /\ UNCHANGED <<archive, backups>>
  /\ \A r \in Runs : pc'[r] = "writing" => pc[r] = "writing"

\* Every step other than a copy, or a write, leaves them alone.
LEMMA QuietStep ==
  ASSUME CopyInv, [Next]_vars,
         ~ \E r \in Runs : BeginCopy(r) \/ EndCopy(r) \/ BeginWrite(r) \/ EndWrite(r)
  PROVE  KeepsFiles
<1> USE DEF KeepsFiles, CopyInv, TypeOK
<1>1. ASSUME NEW r \in Runs, Refuse(r) PROVE KeepsFiles
  BY <1>1 DEF Refuse, Ends, Goes, files
<1>2. ASSUME NEW r \in Runs, RunStep(r) PROVE KeepsFiles
  <2>1. CASE OpenArchive(r) \/ Rebuild(r) \/ Probe(r) \/ NameBackup(r)
    BY <1>1, <2>1 DEF OpenArchive, Rebuild, Probe, NameBackup, Goes, files
  <2>2. CASE CannotRebuild(r) \/ CannotCopy(r) \/ CannotWrite(r)
    BY <1>1, <2>2 DEF CannotRebuild, CannotCopy, CannotWrite
  <2> QED
    BY <1>2, <2>1, <2>2 DEF RunStep
<1>3. ASSUME NEW r \in Runs, Die(r) PROVE KeepsFiles
  BY <1>3 DEF Die, Ends, Goes, files
<1>4. ASSUME NEW c \in Calls, Ask(c) \/ HostStep(c) PROVE KeepsFiles
  <2>1. CASE StartProcess(c)
    BY <2>1 DEF StartProcess, Goes, files, Runs
  <2>2. CASE UNCHANGED <<files, process>>
    BY <2>2 DEF files, process
  <2> QED
    BY <1>4, <2>1, <2>2 DEF Ask, HostStep, Pass, NoCommandLine, SeeExit, TimeOut, SeeDeath
<1>5. ASSUME NEW d \in Direct, RunDirectly(d) PROVE KeepsFiles
  BY <1>5 DEF RunDirectly, Goes, files, Runs
<1>6. CASE ClientOpens \/ ClientCloses \/ UNCHANGED vars
  BY <1>6 DEF ClientOpens, ClientCloses, vars, files, process
<1> QED
  BY <1>2, <1>3, <1>4, <1>5, <1>6 DEF Next

\* A complete backup is left as it is by every step.
LEMMA CompleteStays ==
  ASSUME CopyInv, [Next]_vars, NEW b \in Backups, backups[b] \in Content
  PROVE  backups'[b] = backups[b]
<1> USE DEF CopyInv, TypeOK, Content
<1>1. ASSUME NEW r \in Runs, BeginCopy(r) PROVE backups'[b] = backups[b]
  BY <1>1 DEF BeginCopy, MayCopy
<1>2. ASSUME NEW r \in Runs, EndCopy(r) PROVE backups'[b] = backups[b]
  BY <1>2 DEF EndCopy, CopiesOpen
<1>3. ASSUME NEW r \in Runs, BeginWrite(r) PROVE backups'[b] = backups[b]
  BY <1>3 DEF BeginWrite
<1>4. ASSUME NEW r \in Runs, EndWrite(r) PROVE backups'[b] = backups[b]
  BY <1>4 DEF EndWrite
<1>5. CASE KeepsFiles
  BY <1>5 DEF KeepsFiles
<1> QED
  BY <1>1, <1>2, <1>3, <1>4, <1>5, QuietStep

LEMMA NextFirstBackup == CopyInv /\ FirstBackup /\ [Next]_vars => FirstBackup'
<1> SUFFICES ASSUME CopyInv, FirstBackup, [Next]_vars PROVE FirstBackup'
  OBVIOUS
<1>1. CASE \E b \in Backups : backups[b] = "whole"
  BY <1>1, CompleteStays DEF FirstBackup, Content
<1>2. CASE Untouched
  <2> USE DEF CopyInv, TypeOK, Untouched
  <2>1. ASSUME NEW r \in Runs, BeginCopy(r) PROVE FirstBackup'
    <3>1. Untouched'
      BY <1>2, <2>1 DEF BeginCopy, Goes, Named
    <3> QED
      BY <3>1 DEF FirstBackup
  <2>2. ASSUME NEW r \in Runs, EndCopy(r) PROVE FirstBackup'
    <3>1. backup[r] \in Backups /\ backups'[backup[r]] = "whole"
      BY <1>2, <2>2 DEF EndCopy, Named, CopiesOpen
    <3> QED
      BY <3>1 DEF FirstBackup
  <2>3. ASSUME NEW r \in Runs, BeginWrite(r) PROVE FirstBackup'
    <3>1. backup[r] \in Backups /\ backups[backup[r]] = "whole"
      BY <1>2, <2>3 DEF BeginWrite, Named, CopiesDone
    <3> QED
      BY <3>1, CompleteStays DEF FirstBackup, Content
  <2>4. ASSUME NEW r \in Runs, EndWrite(r) PROVE FirstBackup'
    BY <1>2, <2>4 DEF EndWrite
  <2>5. CASE KeepsFiles
    <3>1. Untouched'
      BY <1>2, <2>5 DEF KeepsFiles
    <3> QED
      BY <3>1 DEF FirstBackup
  <2> QED
    BY <2>1, <2>2, <2>3, <2>4, <2>5, QuietStep
<1> QED
  BY <1>1, <1>2 DEF FirstBackup

LEMMA InitFirstBackup == Init => FirstBackup
BY DEF Init, FirstBackup, Untouched

\* While the archive is not whole there is a backup that is, whoever dies when.
THEOREM WholeCopyAlways == Spec => []WholeCopyExists
<1>1. Spec => [](CopyInv /\ FirstBackup)
  BY InitCopyInv, NextCopyInv, InitFirstBackup, NextFirstBackup, PTL DEF Spec
<1>2. FirstBackup => WholeCopyExists
  BY DEF FirstBackup, Untouched, WholeCopyExists
<1> QED
  BY <1>1, <1>2, PTL

\* Complete backups are never overwritten.
THEOREM BackupsAreKept == Spec => BackupsStay
<1>1. Spec => []CopyInv
  BY InitCopyInv, NextCopyInv, PTL DEF Spec
<1>2. CopyInv /\ [Next]_vars => [\A b \in Backups : backups[b] \in Content => backups'[b] = backups[b]]_vars
  BY CompleteStays
<1> QED
  BY <1>1, <1>2, PTL DEF Spec, BackupsStay

-----------------------------------------------------------------------------
(***************************************************************************)
(* The host alone.                                                         *)
(***************************************************************************)
LEMMA InitGuarded == Init => Guarded /\ Steady
BY DEF Init, Guarded, Steady, Alone, Living, Before, Runs

LEMMA NextGuarded == CopyInv /\ Guarded /\ [Next]_vars => Guarded'
<1> SUFFICES ASSUME CopyInv, Guarded, [Next]_vars PROVE Guarded'
  OBVIOUS
<1> USE DEF CopyInv, TypeOK, Guarded, Living
<1>1. ASSUME NEW r \in Runs, RunStep(r) \/ Die(r) PROVE Guarded'
  <2>1. pc[r] \in Living /\ UNCHANGED <<caller, gate>>
    BY <1>1 DEF RunStep, OpenArchive, Rebuild, CannotRebuild, Probe, NameBackup, BeginCopy,
                EndCopy, CannotCopy, BeginWrite, EndWrite, CannotWrite, Refuse, Die, host
  <2>2. \E to : Goes(r, to)
    BY <1>1 DEF RunStep, OpenArchive, Rebuild, CannotRebuild, Probe, NameBackup, BeginCopy,
                EndCopy, CannotCopy, BeginWrite, EndWrite, CannotWrite, Refuse, Die, Ends
  <2> QED
    BY <2>1, <2>2 DEF Goes, Runs
<1>2. ASSUME NEW c \in Calls, Ask(c) \/ HostStep(c) PROVE Guarded'
  <2>1. CASE Ask(c)
    BY <2>1 DEF Ask, Waits, process, Runs
  <2>2. CASE Pass(c)
    BY <2>2, RepackAssumption DEF Pass, Waits, process, Runs
  <2>3. CASE StartProcess(c)
    BY <2>3 DEF StartProcess, Waits, Goes, Runs
  <2>4. CASE NoCommandLine(c) \/ SeeExit(c) \/ SeeDeath(c)
    BY <2>4 DEF NoCommandLine, SeeExit, SeeDeath, Leave, Waits, process, Over, Runs
  <2>5. CASE TimeOut(c)
    BY <2>5 DEF TimeOut, Waits, process, Runs
  <2> QED
    BY <1>2, <2>1, <2>2, <2>3, <2>4, <2>5 DEF HostStep
<1>3. ASSUME NEW d \in Direct, RunDirectly(d) PROVE Guarded'
  BY <1>3, RepackAssumption DEF RunDirectly, Goes, host, Runs
<1>4. CASE ClientOpens \/ ClientCloses \/ UNCHANGED vars
  BY <1>4 DEF ClientOpens, ClientCloses, vars, process, host
<1> QED
  BY <1>1, <1>2, <1>3, <1>4 DEF Next

\* Two processes of the host's do not live at the same time.
LEMMA OneAtATime ==
  ASSUME Guarded, NEW b \in Calls, NEW c \in Calls, pc[b] \in Living, pc[c] \in Living
  PROVE  b = c
BY DEF Guarded

LEMMA NextSteady == CopyInv /\ Guarded /\ Steady /\ [Next]_vars => Steady'
<1> SUFFICES ASSUME CopyInv, Guarded, Steady, [Next]_vars, Alone' PROVE Steady'
  BY DEF Steady
<1>a. ASSUME NEW r \in Runs, RunStep(r) \/ Die(r) PROVE pc[r] \in Living /\ pc'[r] # "none"
  <2>1. pc[r] \in Living
    BY <1>a DEF RunStep, OpenArchive, Rebuild, CannotRebuild, Probe, NameBackup, BeginCopy,
                EndCopy, CannotCopy, BeginWrite, EndWrite, CannotWrite, Die, Living
  <2>2. \E to \in Living \cup Over : Goes(r, to)
    BY <1>a DEF RunStep, OpenArchive, Rebuild, CannotRebuild, Probe, NameBackup, BeginCopy,
                EndCopy, CannotCopy, BeginWrite, EndWrite, CannotWrite, Refuse, Die, Ends, Living, Over
  <2> QED
    BY <2>1, <2>2 DEF Goes, CopyInv, TypeOK, Living, Over
<1>b. ASSUME NEW d \in Direct PROVE pc[d] = "none"
  <2>1. ASSUME NEW r \in Runs, RunStep(r) \/ Die(r) PROVE pc[d] = "none"
    <3>1. pc'[d] = "none" /\ \E to : Goes(r, to)
      BY <2>1 DEF Alone, RunStep, OpenArchive, Rebuild, CannotRebuild, Probe, NameBackup, BeginCopy,
                  EndCopy, CannotCopy, BeginWrite, EndWrite, CannotWrite, Refuse, Die, Ends
    <3> QED
      BY <1>a, <2>1, <3>1 DEF Goes
  <2>2. ASSUME NEW c \in Calls, StartProcess(c) PROVE pc[d] = "none"
    BY <2>2, RepackAssumption DEF StartProcess, Goes, Alone
  <2>3. ASSUME NEW e \in Direct, RunDirectly(e) PROVE pc[d] = "none"
    BY <2>3 DEF RunDirectly, Goes, Alone, CopyInv, TypeOK, Runs
  <2>4. CASE UNCHANGED pc
    BY <2>4 DEF Alone
  <2> QED
    BY <2>1, <2>2, <2>3, <2>4
    DEF Next, Ask, HostStep, Pass, NoCommandLine, SeeExit, TimeOut, SeeDeath,
        ClientOpens, ClientCloses, vars, process
<1>c. /\ archive # "mixed" /\ \A b \in Backups : backups[b] # "mixed"
      /\ \A c \in Calls :
           /\ pc[c] \in Before => archive = "whole"
           /\ pc[c] \in Before \cup {"writing"} => memory[c] = "whole"
           /\ pc[c] = "copying" => backups[backup[c]] = "begun"
  BY <1>b DEF Alone, Steady
<1> DEFINE Fine ==
      /\ archive # "mixed" /\ \A b \in Backups : backups[b] # "mixed"
      /\ \A c \in Calls :
           /\ pc[c] \in Before => archive = "whole"
           /\ pc[c] \in Before \cup {"writing"} => memory[c] = "whole"
           /\ pc[c] = "copying" => backups[backup[c]] = "begun"
<1>1. ASSUME NEW c \in Calls, RunStep(c) \/ Die(c) PROVE Fine'
  <2>1. \A b \in Calls : pc[b] \in Before \cup {"writing"} => b = c
    BY <1>a, <1>1, OneAtATime DEF Before, Living, Runs
  <2> USE DEF CopyInv, TypeOK, Content, Before, Runs
  <2>2. CASE Refuse(c) \/ Die(c)
    BY <1>c, <2>1, <2>2 DEF Refuse, Die, Ends, Goes, files, Over
  <2>3. CASE OpenArchive(c)
    <3>1. CASE archive # "torn" /\ Goes(c, "slicing") /\ memory' = [memory EXCEPT ![c] = archive]
               /\ UNCHANGED <<files, backup, host>>
      BY <1>c, <2>1, <3>1 DEF Goes, files
    <3> QED
      BY <2>2, <2>3, <3>1 DEF OpenArchive
  <2>4. CASE Rebuild(c)
    BY <1>c, <2>1, <2>4 DEF Rebuild, Goes, files
  <2>5. CASE Probe(c)
    <3>1. CASE pc[c] = "rebuilt" /\ Goes(c, "probed") /\ UNCHANGED <<files, memory, backup, host>>
      BY <1>c, <2>1, <3>1 DEF Goes, files
    <3> QED
      BY <2>2, <2>5, <3>1 DEF Probe
  <2>6. CASE NameBackup(c)
    BY <1>c, <2>1, <2>6 DEF NameBackup, Goes, files
  <2>7. CASE BeginCopy(c)
    BY <1>c, <2>1, <2>7 DEF BeginCopy, Goes, Named
  <2>8. CASE EndCopy(c)
    BY <1>c, <2>1, <2>8 DEF EndCopy, Goes, Named
  <2>9. CASE BeginWrite(c)
    BY <1>c, <2>1, <2>9 DEF BeginWrite, Goes
  <2>10. CASE EndWrite(c)
    BY <1>c, <2>1, <2>10 DEF EndWrite, Ends, Goes
  <2> QED
    BY <1>1, <2>2, <2>3, <2>4, <2>5, <2>6, <2>7, <2>8, <2>9, <2>10
    DEF RunStep, CannotRebuild, CannotCopy, CannotWrite
<1>2. ASSUME NEW c \in Calls, StartProcess(c) PROVE Fine'
  BY <1>2, <1>c DEF StartProcess, Goes, files, Before, CopyInv, TypeOK, Runs
<1>3. ASSUME NEW d \in Direct, RunStep(d) \/ Die(d) \/ RunDirectly(d) PROVE Fine'
  <2>1. ~RunStep(d) /\ ~Die(d)
    BY <1>a, <1>b DEF Runs, Living
  <2>2. pc'[d] = "started"
    BY <1>3, <2>1 DEF RunDirectly, Goes, CopyInv, TypeOK, Runs
  <2> QED
    BY <2>2 DEF Alone
<1>4. ASSUME UNCHANGED <<archive, backups, process>> PROVE Fine'
  <2>1. UNCHANGED <<archive, backups, pc, memory, backup>>
    BY <1>4 DEF process
  <2> QED
    BY <1>c, <2>1
<1>5. Fine'
  <2>1. CASE \E c \in Calls : Ask(c) \/ HostStep(c)
    BY <1>2, <1>4, <2>1
    DEF Ask, HostStep, Pass, NoCommandLine, SeeExit, TimeOut, SeeDeath, files
  <2>2. CASE ClientOpens \/ ClientCloses \/ UNCHANGED vars
    BY <1>4, <2>2 DEF ClientOpens, ClientCloses, vars, files
  <2> QED
    BY <1>1, <1>3, <2>1, <2>2 DEF Next, Runs
<1> QED
  BY <1>5 DEF Steady

\* Calls through the host alone never mix two rebuilds, timeouts and kills included.
THEOREM HostAloneNeverMixes == Spec => []HostAloneIsSafe
<1>1. Spec => [](CopyInv /\ Guarded /\ Steady)
  BY InitCopyInv, NextCopyInv, InitGuarded, NextGuarded, NextSteady, PTL DEF Spec
<1>2. Steady => HostAloneIsSafe
  BY DEF Steady, Alone, HostAloneIsSafe
<1> QED
  BY <1>1, <1>2, PTL
=============================================================================
