-------------------------- MODULE CallbackRegistry --------------------------
(***************************************************************************)
(* One of the native callback registries (UtinniCore/swg/graphics/         *)
(* graphics.cpp, and the same code in imgui_impl.cpp, game.cpp and         *)
(* ground_scene.cpp): a vector of handles and functions under a mutex.     *)
(* Any thread subscribes and unsubscribes; the game thread dispatches once *)
(* per frame.  It copies the functions under the mutex and calls the       *)
(* copies without it, so a callback may itself subscribe or unsubscribe.   *)
(*                                                                         *)
(* A subscription is its handle: handles start at 1, 0 is no handle.       *)
(***************************************************************************)
EXTENDS Naturals, Sequences, SequencesExt

CONSTANT MaxSubscriptions  \* bound on the subscriptions ever made

ASSUME RegistryAssumption == MaxSubscriptions \in Nat

VARIABLES
  registry,     \* the handles, in the order of subscription
  nextId,       \* s_nextPrePresentId
  dispatching,  \* is the game thread in dispatchSnapshot
  pending,      \* what it still has to call
  called,       \* the calls of this dispatch, or of the last one
  due,          \* subscribed when it began, and still subscribed
  late          \* per handle: calls since it was unsubscribed

dispatch == <<dispatching, pending, called>>
registryVars == <<registry, nextId, dispatch, due, late>>

Handle == 1..MaxSubscriptions

InitRegistry ==
  /\ registry = <<>> /\ nextId = 1
  /\ dispatching = FALSE /\ pending = <<>> /\ called = <<>>
  /\ due = {} /\ late = [h \in Handle |-> 0]

\* A slip: the handle is taken from a counter that starts at 0.
PushBackFromZero(s, h) == Append(s, h - 1)

\* The vector with a subscription more, and with one less.
PushBack(s, h) == Append(s, h)
Erase(s, h) == RemoveAt(s, CHOOSE i \in DOMAIN s : s[i] = h)

Subscribe ==
  /\ nextId <= MaxSubscriptions
  /\ registry' = PushBack(registry, nextId)
  /\ nextId' = nextId + 1
  /\ UNCHANGED <<dispatch, due, late>>

\* A slip: the dispatch walks the vector by index, and an erased entry that it has
\* passed makes it step over the next.
StepOverNext(h) ==
  IF h \in ToSet(called) /\ pending # <<>> THEN Tail(pending) ELSE pending

\* What erasing a subscription does to a dispatch that is under way: nothing.
PendingAfterErase(h) == pending

Unsubscribe(h) ==
  /\ h \in ToSet(registry)
  /\ registry' = Erase(registry, h)
  /\ pending' = PendingAfterErase(h)
  /\ due' = due \ {h}
  /\ UNCHANGED <<nextId, dispatching, called, late>>

\* A slip: the copy of the last dispatch is used again.
CachedSnapshot == IF called = <<>> THEN registry ELSE called

\* The functions of a dispatch, copied under the mutex.
Snapshot == registry

BeginDispatch ==
  /\ ~dispatching
  /\ dispatching' = TRUE
  /\ pending' = Snapshot
  /\ called' = <<>>
  /\ due' = ToSet(registry)
  /\ UNCHANGED <<registry, nextId, late>>

\* The game thread makes the next call; what the callback does comes on top.
TakeNext ==
  /\ dispatching /\ pending # <<>>
  /\ called' = Append(called, Head(pending))
  /\ late' = [late EXCEPT ![Head(pending)] = IF @ < 2 /\ Head(pending) \notin ToSet(registry)
                                             THEN @ + 1 ELSE @]

Call == TakeNext /\ pending' = Tail(pending) /\ UNCHANGED <<registry, nextId, dispatching, due>>

\* A callback that unsubscribes itself while it is called.
CallThatLeaves(h) ==
  /\ TakeNext /\ h = Head(pending) /\ h \in ToSet(registry)
  /\ registry' = Erase(registry, h)
  /\ pending' = Tail(pending)
  /\ due' = due \ {h}
  /\ UNCHANGED <<nextId, dispatching>>

EndDispatch ==
  /\ dispatching /\ pending = <<>>
  /\ dispatching' = FALSE
  /\ UNCHANGED <<registry, nextId, pending, called, due, late>>

-----------------------------------------------------------------------------
RegistryTyped ==
  /\ registry \in Seq(Handle) /\ nextId \in 1..(MaxSubscriptions + 1)
  /\ dispatching \in BOOLEAN
  /\ pending \in Seq(Handle) /\ called \in Seq(Handle)
  /\ due \subseteq Handle /\ late \in [Handle -> 0..2]

\* A dispatch calls in the order of subscription, each subscription once, and
\* by its end has called everyone who was subscribed throughout, whoever comes
\* and goes meanwhile.
DispatchIsComplete ==
  /\ \A i, j \in 1..Len(called) : i < j => called[i] < called[j]
  /\ dispatching => due \subseteq ToSet(called) \cup ToSet(pending)

\* Once unsubscribed, a function is called at most once more: by the dispatch
\* that had copied it already.
AtMostOneLateCall == \A h \in Handle : late[h] <= 1
=============================================================================
