---------------------------- MODULE PresentBlock ----------------------------
(***************************************************************************)
(* Minimising, restoring and maximising the editor while the game draws    *)
(* into it with Direct3D 9 (UtinniCoreDotNet/UI/Forms/FormMain.cs,         *)
(* UtinniCore/swg/graphics/directx9.cpp).                                  *)
(*                                                                         *)
(* The UI thread raises a flag and waits for at most 100 ms on an event    *)
(* that the game thread sets when it has skipped a present; then it lets   *)
(* Windows resize the window.  The resize lowers the flag and resets the   *)
(* event.                                                                  *)
(***************************************************************************)
EXTENDS Naturals

CONSTANT Sizes  \* of the window; 0 is minimised

ASSUME SizesAssumption == Sizes \subseteq Nat

VARIABLES
  ui,         \* the UI thread in WndProc
  blocked,    \* blockPresentCall
  signalled,  \* hPresentBlockedEvent, reset by hand
  drawing,    \* the game thread in hkPresent: "none", "presenting", "skipping"
  skipped,    \* has it skipped a present since the flag was raised
  window      \* the size of the window

blockVars == <<ui, blocked, signalled, drawing, skipped, window>>

InitBlock ==
  /\ ui = "idle" /\ blocked = FALSE /\ signalled = FALSE
  /\ drawing = "none" /\ skipped = FALSE
  /\ window \in Sizes

-----------------------------------------------------------------------------
\* WM_SYSCOMMAND: SC_MINIMIZE, SC_RESTORE or SC_MAXIMIZE.
SysCommand ==
  /\ ui = "idle"
  /\ ui' = "waiting" /\ blocked' = TRUE /\ skipped' = FALSE
  /\ UNCHANGED <<signalled, drawing, window>>

WaitIsSignalled ==
  /\ ui = "waiting" /\ signalled
  /\ ui' = "resizing"
  /\ UNCHANGED <<blocked, signalled, drawing, skipped, window>>

\* A game thread that does not answer does not hold the window up.
WaitTimesOut ==
  /\ ui = "waiting"
  /\ ui' = "resizing"
  /\ UNCHANGED <<blocked, signalled, drawing, skipped, window>>

\* base.WndProc: a new size comes with a Resize event; a command that changes
\* nothing does not, and leaves the flag up.
Resized ==
  /\ ui = "resizing"
  /\ \E size \in Sizes \ {window} : window' = size
  /\ ui' = "unblocking" /\ blocked' = FALSE
  /\ UNCHANGED <<signalled, drawing, skipped>>

NothingToResize ==
  /\ ui = "resizing"
  /\ ui' = "idle"
  /\ UNCHANGED <<blocked, signalled, drawing, skipped, window>>

\* The edge of the window is dragged: a Resize event and no command.
Dragged ==
  /\ ui = "idle"
  /\ \E size \in Sizes \ {window} : window' = size
  /\ ui' = "unblocking" /\ blocked' = FALSE
  /\ UNCHANGED <<signalled, drawing, skipped>>

\* The second half of BlockPresent(false).
ResetSignal ==
  /\ ui = "unblocking"
  /\ ui' = "idle" /\ signalled' = FALSE
  /\ UNCHANGED <<blocked, drawing, skipped, window>>

UI ==
  \/ SysCommand \/ WaitIsSignalled \/ WaitTimesOut
  \/ Resized \/ NothingToResize \/ Dragged \/ ResetSignal

-----------------------------------------------------------------------------
\* A slip: one present is skipped for a command.
SkipOnce ==
  /\ drawing = "none"
  /\ drawing' = IF blocked /\ ~skipped THEN "skipping" ELSE "presenting"
  /\ skipped' = (skipped \/ blocked)
  /\ UNCHANGED <<ui, blocked, signalled, window>>

\* hkPresent reads the flag once, and acts on what it read.
ReadFlag ==
  /\ drawing = "none"
  /\ drawing' = IF blocked THEN "skipping" ELSE "presenting"
  /\ skipped' = (skipped \/ blocked)
  /\ UNCHANGED <<ui, blocked, signalled, window>>

\* The original Present returns, or the event is set.
EndPresent ==
  /\ drawing # "none"
  /\ drawing' = "none"
  /\ signalled' = (signalled \/ drawing = "skipping")
  /\ UNCHANGED <<ui, blocked, skipped, window>>

-----------------------------------------------------------------------------
BlockTyped ==
  /\ ui \in {"idle", "waiting", "resizing", "unblocking"}
  /\ blocked \in BOOLEAN /\ signalled \in BOOLEAN /\ skipped \in BOOLEAN
  /\ drawing \in {"none", "presenting", "skipping"}
  /\ window \in Sizes

\* Once the game thread has skipped a present for this command, no present is
\* under way when Windows resizes the window.
SkippedMeansQuiet ==
  ui = "resizing" /\ skipped => drawing # "presenting"
=============================================================================
