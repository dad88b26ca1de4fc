------------------------------ MODULE Overlay ------------------------------
(***************************************************************************)
(* The frame of a game that has Utinni's overlay in it (UtinniCore/swg/    *)
(* graphics/graphics.cpp, directx9.cpp, directx11.cpp, render_backend*.cpp *)
(* and swg/ui/imgui_impl.cpp).                                             *)
(*                                                                         *)
(* The engine's Graphics::install is hooked.  In a Direct3D 9 client the   *)
(* hook detours the device's functions and hkPresent sets the overlay up;  *)
(* in a Direct3D 11 client it subscribes a poll to the pre-present         *)
(* callbacks, which waits for the engine's swap chain, detours its         *)
(* functions, sets the overlay up and unsubscribes itself.                 *)
(*                                                                         *)
(* Each frame ends its scene (and resizes the back buffer if the window    *)
(* has changed), dispatches the pre-present callbacks and presents.        *)
(* Detour::Create redirects a function to its hook and returns a           *)
(* trampoline to what the function was before: detoured twice to the same  *)
(* hook, the trampoline leads back to the hook.                            *)
(***************************************************************************)
EXTENDS CallbackRegistry, PresentBlock, FiniteSets

CONSTANT MaxFailedInits  \* bound on the polls that find no window

ASSUME OverlayAssumption == MaxFailedInits \in Nat

VARIABLES
  renderer,   \* "d3d9", or "d3d11": gl11_r.dll is loaded
  frame,      \* the game thread: "install", "scene", "resize", "dispatch", "present", "inside", "overflow"
  live,       \* has the engine its swap chain, device and context
  detours,    \* of the functions that present and resize
  backend,    \* render_backend::get()
  isSetup,    \* imgui_impl's latch
  installed,  \* s_installed
  poll,       \* s_pollHandle
  view,       \* does Utinni hold a view of the back buffer, or its depth texture
  drawnSize   \* oldWidth, oldHeight

engine == <<renderer, live>>
overlay == <<detours, backend, isSetup, installed, poll>>
vars == <<registryVars, blockVars, engine, frame, overlay, view, drawnSize>>

NoBackend == "none"

Init ==
  /\ InitRegistry /\ InitBlock
  /\ renderer \in {"d3d9", "d3d11"} /\ live = FALSE
  /\ frame = "install"
  /\ detours = 0 /\ backend = NoBackend /\ isSetup = FALSE
  /\ installed = FALSE /\ poll = 0
  /\ view = FALSE /\ drawnSize = 0

-----------------------------------------------------------------------------
(***************************************************************************)
(* hkInstall: directX::detour, which may find no device to copy the        *)
(* functions from, and directX11::kickoff.                                 *)
(***************************************************************************)
HkInstall ==
  /\ frame = "install" /\ frame' = "scene"
  /\ detours' \in (IF renderer = "d3d9" THEN {0, 1} ELSE {0})
  /\ poll' = nextId /\ Subscribe
  /\ UNCHANGED <<blockVars, engine, backend, isSetup, installed, view, drawnSize>>

EngineReady ==
  /\ renderer = "d3d11" /\ frame = "scene" /\ ~live
  /\ live' = TRUE
  /\ UNCHANGED <<registryVars, blockVars, renderer, frame, overlay, view, drawnSize>>

-----------------------------------------------------------------------------
(***************************************************************************)
(* hkEndScene: the back buffer follows the window, but not to nothing.     *)
(***************************************************************************)
MustResize == window # 0 /\ window # drawnSize

\* A slip: the view is kept.
KeptView == view

\* What the hook of ResizeBuffers or Reset lets go of before the original.
ViewBeforeResize == FALSE

BeginResize ==
  /\ frame = "scene" /\ MustResize
  /\ frame' = "resize"
  /\ drawnSize' = window
  /\ view' = IF detours > 0 THEN ViewBeforeResize ELSE view
  /\ UNCHANGED <<registryVars, blockVars, engine, overlay>>

\* The original runs.  A Direct3D 11 backend takes a new view, or cannot; the
\* depth texture comes back with the next present.
EndResize ==
  /\ frame = "resize" /\ detours < 2
  /\ frame' = "dispatch"
  /\ view' \in (IF renderer = "d3d11" /\ backend # NoBackend THEN BOOLEAN ELSE {view})
  /\ BeginDispatch
  /\ UNCHANGED <<blockVars, engine, overlay, drawnSize>>

EndScene ==
  /\ frame = "scene" /\ ~MustResize
  /\ frame' = "dispatch"
  /\ BeginDispatch
  /\ UNCHANGED <<blockVars, engine, overlay, view, drawnSize>>

-----------------------------------------------------------------------------
(***************************************************************************)
(* hkPresent's callbacks: the poll, and those of others.                   *)
(***************************************************************************)
IsPoll == pending # <<>> /\ Head(pending) = poll

OtherCallback ==
  /\ frame = "dispatch" /\ ~IsPoll
  /\ Call
  /\ UNCHANGED <<blockVars, engine, frame, overlay, view, drawnSize>>

\* tryInstall: no Direct3D 11, or nothing to take hold of yet.
PollsInVain ==
  /\ frame = "dispatch" /\ IsPoll /\ ~live
  /\ Call
  /\ UNCHANGED <<blockVars, engine, frame, overlay, view, drawnSize>>

\* imgui_impl::setup once there is a backend: context, window procedure, latch.
SetUp(b) ==
  /\ backend' = b /\ isSetup' = TRUE

PollInstalls ==
  /\ frame = "dispatch" /\ IsPoll /\ live
  /\ detours' = detours + 1
  /\ SetUp("dx11")
  /\ installed' = TRUE /\ poll' = 0
  /\ CallThatLeaves(poll)
  /\ UNCHANGED <<blockVars, engine, frame, view, drawnSize>>

\* The swap chain has no window: the backend goes, the detours stay.
PollFails ==
  /\ frame = "dispatch" /\ IsPoll /\ live
  /\ detours < MaxFailedInits
  /\ detours' = detours + 1
  /\ backend' = NoBackend
  /\ Call
  /\ UNCHANGED <<blockVars, engine, frame, isSetup, installed, poll, view, drawnSize>>

DispatchEnds ==
  /\ frame = "dispatch" /\ EndDispatch
  /\ frame' = "present"
  /\ UNCHANGED <<blockVars, engine, overlay, view, drawnSize>>

-----------------------------------------------------------------------------
(***************************************************************************)
(* The engine presents.                                                    *)
(***************************************************************************)
\* Nothing is detoured: the plain function.
PlainPresent ==
  /\ frame = "present" /\ detours = 0
  /\ frame' = "scene"
  /\ UNCHANGED <<registryVars, blockVars, engine, overlay, view, drawnSize>>

\* hkSwapChainPresent: render, with a new view if there is none, and the original.
Present11 ==
  /\ renderer = "d3d11" /\ frame = "present" /\ detours = 1
  /\ frame' = "scene"
  /\ view' \in (IF isSetup /\ ~view THEN BOOLEAN ELSE {view})
  /\ UNCHANGED <<registryVars, blockVars, engine, overlay, drawnSize>>

\* The trampoline leads from the hook to the hook.
HookCallsItself ==
  /\ frame \in {"present", "resize"} /\ detours > 1
  /\ frame' = "overflow"
  /\ UNCHANGED <<registryVars, blockVars, engine, overlay, view, drawnSize>>

\* directX::hkPresent reads the flag and presents or not, ...
BeginPresent9 ==
  /\ renderer = "d3d9" /\ frame = "present" /\ detours = 1
  /\ frame' = "inside"
  /\ ReadFlag
  /\ UNCHANGED <<registryVars, engine, overlay, view, drawnSize>>

\* ... makes the depth texture if the render target has a size, and until the
\* overlay is set up tries to: the device may have no focus window yet.
EndPresent9 ==
  /\ frame = "inside"
  /\ frame' = "scene"
  /\ EndPresent
  /\ view' \in {view, TRUE}
  /\ \/ SetUp("dx9")
     \/ ~isSetup /\ UNCHANGED <<backend, isSetup>>
  /\ UNCHANGED <<registryVars, engine, detours, installed, poll, drawnSize>>

-----------------------------------------------------------------------------
\* Plugins on other threads (the last subscription there is room for is the
\* poll's), and the user.
Others ==
  \/ /\ frame # "overflow"
     /\ \/ Subscribe /\ (frame = "install" => nextId < MaxSubscriptions)
        \/ \E h \in Handle \ {poll} : Unsubscribe(h)
     /\ UNCHANGED <<blockVars, engine, frame, overlay, view, drawnSize>>
  \/ /\ UI
     /\ UNCHANGED <<registryVars, engine, frame, overlay, view, drawnSize>>

GameThread ==
  \/ HkInstall \/ BeginResize \/ EndResize \/ EndScene
  \/ OtherCallback \/ PollsInVain \/ PollInstalls \/ PollFails \/ DispatchEnds
  \/ PlainPresent \/ Present11 \/ HookCallsItself \/ BeginPresent9 \/ EndPresent9

Next == GameThread \/ EngineReady \/ Others

Spec == Init /\ [][Next]_vars

-----------------------------------------------------------------------------
(***************************************************************************)
(* Properties.                                                             *)
(***************************************************************************)
\* Every variable has its type.
TypeOK ==
  /\ RegistryTyped /\ BlockTyped
  /\ renderer \in {"d3d9", "d3d11"} /\ live \in BOOLEAN
  /\ frame \in {"install", "scene", "resize", "dispatch", "present", "inside", "overflow"}
  /\ detours \in 0..(MaxFailedInits + 1)
  /\ backend \in {NoBackend, "dx9", "dx11"} /\ isSetup \in BOOLEAN
  /\ installed \in BOOLEAN /\ poll \in 0..MaxSubscriptions
  /\ view \in BOOLEAN /\ drawnSize \in Sizes \cup {0}

\* Nothing of Utinni's refers to the back buffer while the engine replaces it:
\* Direct3D refuses to, and the game loses its picture.
NoViewAcrossResize == frame = "resize" => ~view
=============================================================================
