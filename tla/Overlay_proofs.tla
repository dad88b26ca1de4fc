--------------------------- MODULE Overlay_proofs ---------------------------
(***************************************************************************)
(* Proofs about Overlay: for any number of subscriptions, any window sizes *)
(* and any number of failing polls, dispatches are complete and orderly,   *)
(* a skipped present means a quiet device, and nothing of Utinni's holds   *)
(* the back buffer while it is replaced.                                   *)
(***************************************************************************)
EXTENDS Overlay, Integers, SequenceTheorems, TLAPS

-----------------------------------------------------------------------------
(***************************************************************************)
(* The registries.  Whoever subscribes and unsubscribes, a dispatch stays  *)
(* complete and in order, and a function is called at most once after it   *)
(* was unsubscribed.                                                       *)
(***************************************************************************)
Increasing(s) == \A i, j \in 1..Len(s) : i < j => s[i] < s[j]

\* Handles are given out in order, so the vector and every copy of it is sorted.
Sorted ==
  /\ Increasing(registry) /\ \A i \in 1..Len(registry) : registry[i] < nextId
  /\ Increasing(pending) /\ \A i \in 1..Len(pending) : pending[i] < nextId
  /\ Increasing(called)
  /\ \A i \in 1..Len(called) : \A j \in 1..Len(pending) : called[i] < pending[j]

\* A function that had its late call is in no vector and in no copy, and its
\* handle is never given out again.
Spent ==
  \A h \in Handle : late[h] # 0 =>
    /\ late[h] = 1
    /\ h < nextId
    /\ \A i \in 1..Len(registry) : registry[i] # h
    /\ \A i \in 1..Len(pending) : pending[i] # h

AllDue == dispatching => due \subseteq ToSet(called) \cup ToSet(pending)

RegistryInv == RegistryTyped /\ Sorted /\ Spent /\ AllDue

-----------------------------------------------------------------------------
(***************************************************************************)
(* Sequences.                                                              *)
(***************************************************************************)
\* What is left when one element goes.
LEMMA EraseOne ==
  ASSUME NEW s \in Seq(Handle), NEW h \in ToSet(s)
  PROVE  /\ Erase(s, h) \in Seq(Handle)
         /\ Increasing(s) => Increasing(Erase(s, h))
         /\ \A i \in 1..Len(Erase(s, h)) : \E k \in 1..Len(s) : Erase(s, h)[i] = s[k]
<1> DEFINE at == CHOOSE i \in DOMAIN s : s[i] = h
           n == Len(s)
           e == Erase(s, h)
<1>1. n \in Nat /\ DOMAIN s = 1..n /\ \A i \in 1..n : s[i] \in Handle
  BY LenProperties, ElementOfSeq
<1>2. at \in 1..n
  BY <1>1 DEF ToSet
<1>9. n \in Int /\ at \in Int /\ 1 <= at /\ at <= n
  <2> HIDE DEF n, at
  <2> QED BY <1>1, <1>2
<1> HIDE DEF at
<1>3. /\ SubSeq(s, 1, at - 1) \in Seq(Handle) /\ Len(SubSeq(s, 1, at - 1)) = at - 1
      /\ \A i \in 1..at - 1 : SubSeq(s, 1, at - 1)[i] = s[i]
  <2>1. 1 \in Int /\ at - 1 \in Int /\ \A i \in 1..at - 1 : s[i] \in Handle
    BY <1>1, <1>2
  <2>2. /\ SubSeq(s, 1, at - 1) \in Seq(Handle)
        /\ Len(SubSeq(s, 1, at - 1)) = IF 1 <= at - 1 THEN at - 1 - 1 + 1 ELSE 0
        /\ \A i \in 1..at - 1 - 1 + 1 : SubSeq(s, 1, at - 1)[i] = s[1 + i - 1]
    BY <2>1, SubSeqProperties
  <2> QED BY <1>1, <1>2, <2>2
<1>4. /\ SubSeq(s, at + 1, n) \in Seq(Handle) /\ Len(SubSeq(s, at + 1, n)) = n - at
      /\ \A i \in 1..n - at : SubSeq(s, at + 1, n)[i] = s[at + i]
  <2>1. n \in Int /\ at + 1 \in Int /\ \A i \in at + 1..n : s[i] \in Handle
    BY <1>1, <1>2
  <2>2. /\ SubSeq(s, at + 1, n) \in Seq(Handle)
        /\ Len(SubSeq(s, at + 1, n)) = IF at + 1 <= n THEN n - (at + 1) + 1 ELSE 0
        /\ \A i \in 1..n - (at + 1) + 1 : SubSeq(s, at + 1, n)[i] = s[at + 1 + i - 1]
    BY <2>1, SubSeqProperties
  <2> DEFINE r == SubSeq(s, at + 1, n)
  <2> HIDE DEF r
  <2>3. n - (at + 1) + 1 = n - at /\ \A i \in 1..n - at : at + 1 + i - 1 = at + i
    BY <1>1, <1>2
  <2>4. /\ r \in Seq(Handle) /\ Len(r) = n - at /\ \A i \in 1..n - at : r[i] = s[at + i]
    <3>1. /\ r \in Seq(Handle)
          /\ Len(r) = IF at + 1 <= n THEN n - (at + 1) + 1 ELSE 0
          /\ \A i \in 1..n - (at + 1) + 1 : r[i] = s[at + 1 + i - 1]
      BY <2>2 DEF r
    <3>3. Len(r) = n - at
      <4>1. CASE at + 1 <= n
        BY <2>3, <3>1, <4>1
      <4>2. CASE ~(at + 1 <= n)
        <5>1. n = at
          BY <1>9, <4>2
        <5> QED BY <1>9, <3>1, <4>2, <5>1
      <4> QED BY <4>1, <4>2
    <3>4. ASSUME NEW i \in 1..n - at PROVE r[i] = s[at + i]
      <4>1. i \in 1..n - (at + 1) + 1 /\ at + 1 + i - 1 = at + i
        BY <2>3
      <4>2. r[i] = s[at + 1 + i - 1]
        BY <3>1, <4>1
      <4> QED BY <4>1, <4>2
    <3> QED BY <3>1, <3>3, <3>4
  <2> QED BY <2>4 DEF r
<1>5. e = SubSeq(s, 1, at - 1) \o SubSeq(s, at + 1, n)
  BY DEF Erase, RemoveAt, at
<1>6. /\ e \in Seq(Handle) /\ Len(e) = n - 1
      /\ \A i \in 1..n - 1 : e[i] = IF i < at THEN s[i] ELSE s[i + 1]
  <2> DEFINE l == SubSeq(s, 1, at - 1)
             r == SubSeq(s, at + 1, n)
  <2>3. l \in Seq(Handle) /\ r \in Seq(Handle) /\ Len(l) = at - 1 /\ Len(r) = n - at
    BY <1>3, <1>4
  <2>4. e = l \o r
    BY <1>5
  <2> HIDE DEF l, r
  <2>5. /\ l \o r \in Seq(Handle) /\ Len(l \o r) = Len(l) + Len(r)
        /\ \A i \in 1..Len(l) + Len(r) : (l \o r)[i] = IF i <= Len(l) THEN l[i] ELSE r[i - Len(l)]
    BY <2>3, ConcatProperties
  <2>6. /\ e \in Seq(Handle) /\ Len(e) = at - 1 + (n - at)
        /\ \A i \in 1..at - 1 + (n - at) : e[i] = IF i <= at - 1 THEN l[i] ELSE r[i - (at - 1)]
    BY <2>3, <2>4, <2>5
  <2>1. /\ e \in Seq(Handle)
        /\ Len(e) = at - 1 + (n - at)
        /\ \A i \in 1..at - 1 + (n - at) :
             e[i] = IF i <= at - 1 THEN SubSeq(s, 1, at - 1)[i] ELSE SubSeq(s, at + 1, n)[i - (at - 1)]
    BY <2>6 DEF l, r
  <2> HIDE DEF e
  <2>2. ASSUME NEW i \in 1..n - 1
        PROVE  e[i] = IF i < at THEN s[i] ELSE s[i + 1]
    <3>1. CASE i < at
      BY <1>1, <1>2, <1>3, <2>1, <3>1
    <3>2. CASE ~(i < at)
      <4>1. i - (at - 1) \in 1..n - at
        BY <1>1, <1>2, <3>2
      <4>2. SubSeq(s, at + 1, n)[i - (at - 1)] = s[at + (i - (at - 1))]
        BY <1>4, <4>1
      <4>3. at + (i - (at - 1)) = i + 1
        BY <1>1, <1>2
      <4> QED BY <1>1, <1>2, <2>1, <3>2, <4>2, <4>3
    <3> QED BY <3>1, <3>2
  <2> QED BY <1>1, <1>2, <2>1, <2>2
<1> HIDE DEF e
<1>7. ASSUME NEW i \in 1..Len(e) PROVE \E k \in 1..n : e[i] = s[k]
  BY <1>1, <1>2, <1>6
<1>8. ASSUME Increasing(s) PROVE Increasing(e)
  BY <1>1, <1>2, <1>6, <1>8 DEF Increasing
<1> QED BY <1>6, <1>7, <1>8 DEF e

\* What is left when the first element goes.
LEMMA TailOf ==
  ASSUME NEW s \in Seq(Handle), s # <<>>
  PROVE  /\ Head(s) = s[1] /\ Head(s) \in Handle /\ Tail(s) \in Seq(Handle)
         /\ Len(s) \in Nat \ {0} /\ Len(Tail(s)) = Len(s) - 1
         /\ \A i \in 1..Len(s) - 1 : Tail(s)[i] = s[i + 1]
         /\ ToSet(s) = {Head(s)} \cup ToSet(Tail(s))
<1>1. /\ Head(s) \in Handle /\ Tail(s) \in Seq(Handle) /\ Len(Tail(s)) = Len(s) - 1
      /\ \A i \in 1..Len(Tail(s)) : Tail(s)[i] = s[i + 1]
  BY HeadTailProperties
<1>2. Len(s) \in Nat \ {0} /\ DOMAIN s = 1..Len(s) /\ DOMAIN Tail(s) = 1..Len(Tail(s))
  BY <1>1, LenProperties, EmptySeq
<1>3. Head(s) = s[1]
  OBVIOUS
<1>4. ToSet(s) = {Head(s)} \cup ToSet(Tail(s))
  <2>1. ASSUME NEW x \in ToSet(s) PROVE x \in {Head(s)} \cup ToSet(Tail(s))
    <3>1. PICK i \in 1..Len(s) : x = s[i]
      BY <1>2 DEF ToSet
    <3>2. CASE i = 1
      BY <1>3, <3>1, <3>2
    <3>3. CASE i # 1
      <4>1. i - 1 \in 1..Len(Tail(s)) /\ Tail(s)[i - 1] = s[i - 1 + 1] /\ i - 1 + 1 = i
        BY <1>1, <1>2, <3>1, <3>3
      <4> QED BY <1>2, <3>1, <4>1 DEF ToSet
    <3> QED BY <3>2, <3>3
  <2>2. ASSUME NEW x \in {Head(s)} \cup ToSet(Tail(s)) PROVE x \in ToSet(s)
    BY <1>1, <1>2, <1>3, <2>2 DEF ToSet
  <2> QED BY <2>1, <2>2
<1> QED BY <1>1, <1>2, <1>3, <1>4

\* A sequence with one element more.
LEMMA AppendOne ==
  ASSUME NEW s \in Seq(Handle), NEW h \in Handle
  PROVE  /\ Append(s, h) \in Seq(Handle) /\ Len(Append(s, h)) = Len(s) + 1 /\ Len(s) \in Nat
         /\ \A i \in 1..Len(s) : Append(s, h)[i] = s[i]
         /\ Append(s, h)[Len(s) + 1] = h
         /\ ToSet(s) \cup {h} \subseteq ToSet(Append(s, h))
<1>1. /\ Append(s, h) \in Seq(Handle) /\ Len(Append(s, h)) = Len(s) + 1
      /\ \A i \in 1..Len(s) : Append(s, h)[i] = s[i]
      /\ Append(s, h)[Len(s) + 1] = h
  BY AppendProperties
<1>2. Len(s) \in Nat /\ DOMAIN s = 1..Len(s) /\ DOMAIN Append(s, h) = 1..Len(s) + 1
  BY <1>1, LenProperties
<1> QED BY <1>1, <1>2 DEF ToSet

-----------------------------------------------------------------------------
(***************************************************************************)
(* The operations, one by one.                                             *)
(***************************************************************************)
LEMMA InitRegistryInv == InitRegistry => RegistryInv
<1> SUFFICES ASSUME InitRegistry PROVE RegistryInv
  OBVIOUS
<1>1. registry = <<>> /\ pending = <<>> /\ called = <<>> /\ nextId = 1 /\ due = {}
      /\ dispatching = FALSE /\ late = [h \in Handle |-> 0]
  BY DEF InitRegistry
<1>2. <<>> \in Seq(Handle) /\ Len(<<>>) = 0
  BY EmptySeq
<1>3. RegistryTyped
  <2>1. nextId \in 1..(MaxSubscriptions + 1)
    BY <1>1, RegistryAssumption
  <2>2. registry \in Seq(Handle) /\ pending \in Seq(Handle) /\ called \in Seq(Handle)
    BY <1>1, <1>2, Zenon
  <2>3. late \in [Handle -> 0..2]
    BY <1>1
  <2> QED BY <1>1, <2>1, <2>2, <2>3 DEF RegistryTyped
<1>4. Sorted
  BY <1>1, <1>2 DEF Sorted, Increasing
<1>5. Spent /\ AllDue
  BY <1>1 DEF Spent, AllDue
<1> QED BY <1>3, <1>4, <1>5 DEF RegistryInv

LEMMA RegistryStutters ==
  ASSUME RegistryInv, UNCHANGED registryVars
  PROVE  RegistryInv'
BY DEF RegistryInv, RegistryTyped, Sorted, Increasing, Spent, AllDue, registryVars, dispatch

LEMMA SubscribeKeeps ==
  ASSUME RegistryInv, Subscribe
  PROVE  RegistryInv'
<1>1. /\ nextId \in Handle /\ registry' = Append(registry, nextId) /\ nextId' = nextId + 1
      /\ UNCHANGED <<dispatching, pending, called, due, late>>
  BY RegistryAssumption DEF RegistryInv, RegistryTyped, Subscribe, PushBack, Handle, dispatch
<1>2. /\ registry' \in Seq(Handle) /\ Len(registry') = Len(registry) + 1 /\ Len(registry) \in Nat
      /\ \A i \in 1..Len(registry) : registry'[i] = registry[i]
      /\ registry'[Len(registry) + 1] = nextId
  BY <1>1, AppendOne DEF RegistryInv, RegistryTyped
<1>3. RegistryTyped'
  BY <1>1, <1>2, RegistryAssumption DEF RegistryInv, RegistryTyped, Subscribe
<1>4. ASSUME NEW i \in 1..Len(registry')
      PROVE  i \in 1..Len(registry) \/ (i = Len(registry) + 1 /\ registry'[i] = nextId)
  BY <1>2
<1>5. \A i \in 1..Len(registry) : registry[i] \in Handle
  BY ElementOfSeq DEF RegistryInv, RegistryTyped
<1>6. nextId \in Nat /\ \A h \in Handle : h \in Nat
  BY RegistryAssumption DEF RegistryInv, RegistryTyped, Handle
<1>7. \A i \in 1..Len(registry) : registry[i] < nextId
  BY DEF RegistryInv, Sorted
<1>8. \A i \in 1..Len(registry') : registry'[i] < nextId'
  <2> SUFFICES ASSUME NEW i \in 1..Len(registry') PROVE registry'[i] < nextId + 1
    BY <1>1
  <2>1. CASE i \in 1..Len(registry)
    <3>1. registry'[i] \in Nat /\ registry'[i] < nextId
      BY <1>2, <1>5, <1>6, <1>7, <2>1
    <3> QED BY <1>6, <3>1
  <2>2. CASE i = Len(registry) + 1 /\ registry'[i] = nextId
    BY <1>6, <2>2
  <2> QED BY <1>4, <2>1, <2>2
<1>9. Increasing(registry)'
  <2> SUFFICES ASSUME NEW i \in 1..Len(registry'), NEW j \in 1..Len(registry'), i < j
               PROVE  registry'[i] < registry'[j]
    BY DEF Increasing
  <2>1. i \in 1..Len(registry)
    BY <1>2
  <2>2. CASE j \in 1..Len(registry)
    BY <1>2, <2>1, <2>2 DEF RegistryInv, Sorted, Increasing
  <2>3. CASE j = Len(registry) + 1 /\ registry'[j] = nextId
    BY <1>2, <1>7, <2>1, <2>3
  <2> QED BY <1>4, <2>2, <2>3
<1>10. \A i \in 1..Len(pending) : pending[i] \in Handle /\ pending[i] < nextId'
  <2>1. \A i \in 1..Len(pending) : pending[i] \in Handle /\ pending[i] < nextId
    BY ElementOfSeq DEF RegistryInv, RegistryTyped, Sorted
  <2> SUFFICES ASSUME NEW i \in 1..Len(pending) PROVE pending[i] < nextId + 1
    BY <1>1, <2>1
  <2>2. pending[i] \in Nat /\ pending[i] < nextId
    BY <1>6, <2>1
  <2> QED BY <1>6, <2>2
<1>11. Sorted'
  BY <1>1, <1>8, <1>9, <1>10 DEF RegistryInv, Sorted, Increasing
<1>12. Spent'
  <2> SUFFICES ASSUME NEW h \in Handle, late[h] # 0
               PROVE  /\ late[h] = 1 /\ h < nextId + 1
                      /\ \A i \in 1..Len(registry') : registry'[i] # h
                      /\ \A i \in 1..Len(pending) : pending[i] # h
    BY <1>1 DEF Spent
  <2>1. /\ late[h] = 1 /\ h < nextId
        /\ \A i \in 1..Len(registry) : registry[i] # h
        /\ \A i \in 1..Len(pending) : pending[i] # h
    BY DEF RegistryInv, Spent
  <2>2. h < nextId + 1 /\ h # nextId
    BY <1>6, <2>1
  <2> QED BY <1>2, <1>4, <2>1, <2>2
<1>13. AllDue'
  BY <1>1 DEF RegistryInv, AllDue
<1> QED BY <1>3, <1>11, <1>12, <1>13 DEF RegistryInv

\* Erasing a handle from the vector, whatever else the step does to the copy.
LEMMA EraseKeeps ==
  ASSUME RegistryInv, NEW h \in ToSet(registry), registry' = Erase(registry, h), nextId' = nextId
  PROVE  /\ registry' \in Seq(Handle) /\ Increasing(registry)'
         /\ \A i \in 1..Len(registry') : registry'[i] < nextId'
         /\ \A g \in Handle : (\A i \in 1..Len(registry) : registry[i] # g)
                                => \A i \in 1..Len(registry') : registry'[i] # g
<1>1. /\ registry' \in Seq(Handle)
      /\ Increasing(registry) => Increasing(registry')
      /\ \A i \in 1..Len(registry') : \E k \in 1..Len(registry) : registry'[i] = registry[k]
  BY EraseOne DEF RegistryInv, RegistryTyped
<1>2. Increasing(registry)' = Increasing(registry')
  BY DEF Increasing
<1> QED BY <1>1, <1>2 DEF RegistryInv, Sorted

LEMMA UnsubscribeKeeps ==
  ASSUME RegistryInv, NEW h, Unsubscribe(h)
  PROVE  RegistryInv'
<1>1. /\ h \in ToSet(registry) /\ registry' = Erase(registry, h) /\ due' = due \ {h}
      /\ UNCHANGED <<nextId, dispatching, pending, called, late>>
  BY DEF Unsubscribe, PendingAfterErase
<1>2. /\ registry' \in Seq(Handle) /\ Increasing(registry)'
      /\ \A i \in 1..Len(registry') : registry'[i] < nextId'
      /\ \A g \in Handle : (\A i \in 1..Len(registry) : registry[i] # g)
                             => \A i \in 1..Len(registry') : registry'[i] # g
  BY <1>1, EraseKeeps
<1>3. RegistryTyped'
  BY <1>1, <1>2 DEF RegistryInv, RegistryTyped
<1>4. Sorted'
  BY <1>1, <1>2 DEF RegistryInv, Sorted, Increasing
<1>5. Spent'
  BY <1>1, <1>2 DEF RegistryInv, Spent
<1>6. AllDue'
  BY <1>1 DEF RegistryInv, AllDue
<1> QED BY <1>3, <1>4, <1>5, <1>6 DEF RegistryInv

LEMMA BeginDispatchKeeps ==
  ASSUME RegistryInv, BeginDispatch
  PROVE  RegistryInv'
<1>1. /\ dispatching' = TRUE /\ pending' = registry /\ called' = <<>> /\ due' = ToSet(registry)
      /\ UNCHANGED <<registry, nextId, late>>
  BY DEF BeginDispatch, Snapshot
<1>2. <<>> \in Seq(Handle) /\ Len(<<>>) = 0
  BY EmptySeq
<1>3. ToSet(registry) \subseteq Handle
  <2>1. DOMAIN registry = 1..Len(registry) /\ \A i \in 1..Len(registry) : registry[i] \in Handle
    BY LenProperties, ElementOfSeq DEF RegistryInv, RegistryTyped
  <2> QED BY <2>1 DEF ToSet
<1>4. RegistryTyped'
  BY <1>1, <1>2, <1>3 DEF RegistryInv, RegistryTyped
<1>5. Sorted'
  BY <1>1, <1>2 DEF RegistryInv, Sorted, Increasing
<1>6. Spent'
  BY <1>1 DEF RegistryInv, Spent
<1>7. AllDue'
  BY <1>1 DEF AllDue, ToSet
<1> QED BY <1>4, <1>5, <1>6, <1>7 DEF RegistryInv

LEMMA EndDispatchKeeps ==
  ASSUME RegistryInv, EndDispatch
  PROVE  RegistryInv'
BY DEF RegistryInv, RegistryTyped, Sorted, Increasing, Spent, AllDue, EndDispatch

-----------------------------------------------------------------------------
(***************************************************************************)
(* A call, which may take its own function from the vector.                *)
(***************************************************************************)
LEMMA TakeKeeps ==
  ASSUME RegistryInv, TakeNext, pending' = Tail(pending), nextId' = nextId, dispatching' = dispatching,
         \/ registry' = registry /\ due' = due
         \/ /\ Head(pending) \in ToSet(registry)
            /\ registry' = Erase(registry, Head(pending)) /\ due' = due \ {Head(pending)}
  PROVE  RegistryInv'
<1> DEFINE h == Head(pending)
           n == Len(pending)
<1>1. /\ pending # <<>> /\ dispatching /\ called' = Append(called, h)
      /\ late' = [late EXCEPT ![h] = IF @ < 2 /\ h \notin ToSet(registry) THEN @ + 1 ELSE @]
  BY DEF TakeNext
<1>2. /\ h = pending[1] /\ h \in Handle /\ pending' \in Seq(Handle)
      /\ n \in Nat \ {0} /\ Len(pending') = n - 1
      /\ \A i \in 1..n - 1 : pending'[i] = pending[i + 1]
      /\ ToSet(pending) = {h} \cup ToSet(pending')
  BY <1>1, TailOf DEF RegistryInv, RegistryTyped
<1>3. /\ called' \in Seq(Handle) /\ Len(called') = Len(called) + 1 /\ Len(called) \in Nat
      /\ \A i \in 1..Len(called) : called'[i] = called[i]
      /\ called'[Len(called) + 1] = h
      /\ ToSet(called) \cup {h} \subseteq ToSet(called')
  BY <1>1, <1>2, AppendOne DEF RegistryInv, RegistryTyped
<1>4. \A i \in 1..n : pending[i] \in Handle /\ pending[i] < nextId
  BY ElementOfSeq DEF RegistryInv, RegistryTyped, Sorted
<1>5. \A g \in Handle : g \in Nat
  BY RegistryAssumption DEF Handle
<1>6. /\ registry' \in Seq(Handle) /\ Increasing(registry)'
      /\ \A i \in 1..Len(registry') : registry'[i] < nextId'
      /\ \A g \in Handle : (\A i \in 1..Len(registry) : registry[i] # g)
                             => \A i \in 1..Len(registry') : registry'[i] # g
  <2>1. CASE registry' = registry
    BY <2>1 DEF RegistryInv, RegistryTyped, Sorted, Increasing
  <2>2. CASE h \in ToSet(registry) /\ registry' = Erase(registry, h)
    BY <2>2, EraseKeeps
  <2> QED BY <2>1, <2>2
<1> HIDE DEF h, n
<1>7. late \in [Handle -> 0..2] /\ late' \in [Handle -> 0..2]
  BY <1>1, <1>2 DEF RegistryInv, RegistryTyped
<1>8. RegistryTyped'
  BY <1>2, <1>3, <1>6, <1>7 DEF RegistryInv, RegistryTyped, h
<1>9. \A i, j \in 1..n : i < j => pending[i] < pending[j]
  BY DEF RegistryInv, Sorted, Increasing, n
<1>10. \A i \in 1..Len(pending') : i + 1 \in 1..n /\ pending'[i] = pending[i + 1]
  BY <1>2
<1>11. Increasing(pending)'
  <2> SUFFICES ASSUME NEW i \in 1..Len(pending'), NEW j \in 1..Len(pending'), i < j
               PROVE  pending'[i] < pending'[j]
    BY DEF Increasing
  <2>1. pending[i + 1] < pending[j + 1]
    BY <1>9, <1>10
  <2> QED BY <1>10, <2>1
<1>12. \A i \in 1..Len(pending') : pending'[i] < nextId'
  BY <1>4, <1>10
<1>13. ASSUME NEW i \in 1..Len(called')
       PROVE  i \in 1..Len(called) \/ (i = Len(called) + 1 /\ called'[i] = h)
  BY <1>3
<1>14. \A i \in 1..Len(called) : called[i] \in Handle /\ called[i] < h
  <2>1. 1 \in 1..n
    BY <1>2
  <2> QED BY <1>2, <2>1, ElementOfSeq DEF RegistryInv, RegistryTyped, Sorted, n
<1>15. Increasing(called)'
  <2> SUFFICES ASSUME NEW i \in 1..Len(called'), NEW j \in 1..Len(called'), i < j
               PROVE  called'[i] < called'[j]
    BY DEF Increasing
  <2>1. i \in 1..Len(called)
    BY <1>3
  <2>2. CASE j \in 1..Len(called)
    BY <1>3, <2>1, <2>2 DEF RegistryInv, Sorted, Increasing
  <2>3. CASE j = Len(called) + 1 /\ called'[j] = h
    BY <1>3, <1>14, <2>1, <2>3
  <2> QED BY <1>13, <2>2, <2>3
<1>16. ASSUME NEW i \in 1..Len(called'), NEW j \in 1..Len(pending')
       PROVE  called'[i] < pending'[j]
  <2>1. h < pending[j + 1]
    BY <1>2, <1>9, <1>10
  <2>2. CASE i \in 1..Len(called)
    BY <1>3, <1>10, <2>2 DEF RegistryInv, Sorted, n
  <2>3. CASE i = Len(called) + 1 /\ called'[i] = h
    BY <1>10, <2>1, <2>3
  <2> QED BY <1>13, <2>2, <2>3
<1>17. Sorted'
  BY <1>6, <1>11, <1>12, <1>15, <1>16 DEF Sorted
<1>18. Spent'
  <2> SUFFICES ASSUME NEW g \in Handle, late'[g] # 0
               PROVE  /\ late'[g] = 1 /\ g < nextId'
                      /\ \A i \in 1..Len(registry') : registry'[i] # g
                      /\ \A i \in 1..Len(pending') : pending'[i] # g
    BY DEF Spent
  <2>1. CASE g # h
    <3>1. late[g] # 0 /\ late'[g] = late[g]
      BY <1>1, <1>7, <2>1 DEF h
    <3>2. /\ late[g] = 1 /\ g < nextId
          /\ \A i \in 1..Len(registry) : registry[i] # g
          /\ \A i \in 1..n : pending[i] # g
      BY <3>1 DEF RegistryInv, Spent, n
    <3> QED BY <1>6, <1>10, <3>1, <3>2
  <2>2. CASE g = h
    <3>1. late[h] = 0
      <4>1. 1 \in 1..n
        BY <1>2
      <4> QED BY <1>2, <4>1 DEF RegistryInv, Spent, n
    <3>2. late'[h] = 1 /\ h \notin ToSet(registry)
      BY <1>1, <1>2, <1>7, <2>2, <3>1 DEF h
    <3>3. \A i \in 1..Len(registry) : registry[i] # h
      <4>1. DOMAIN registry = 1..Len(registry)
        BY LenProperties DEF RegistryInv, RegistryTyped
      <4> QED BY <3>2, <4>1 DEF ToSet
    <3>4. 1 \in 1..n /\ h < nextId
      BY <1>2, <1>4
    <3>5. ASSUME NEW i \in 1..Len(pending') PROVE pending'[i] # h
      <4>1. h < pending[i + 1]
        BY <1>2, <1>9, <1>10, <3>4
      <4>2. pending[i + 1] \in Nat /\ h \in Nat
        BY <1>2, <1>4, <1>5, <1>10
      <4> QED BY <1>10, <4>1, <4>2
    <3> QED BY <1>6, <2>2, <3>2, <3>3, <3>4, <3>5
  <2> QED BY <2>1, <2>2
<1>19. AllDue'
  <2>1. due \subseteq ToSet(called) \cup ToSet(pending)
    BY <1>1 DEF RegistryInv, AllDue
  <2>2. due' \subseteq due
    OBVIOUS
  <2> QED BY <1>2, <1>3, <2>1, <2>2 DEF AllDue, ToSet
<1> QED BY <1>8, <1>17, <1>18, <1>19 DEF RegistryInv

LEMMA CallKeeps ==
  ASSUME RegistryInv, Call
  PROVE  RegistryInv'
BY TakeKeeps DEF Call

LEMMA CallThatLeavesKeeps ==
  ASSUME RegistryInv, NEW h, CallThatLeaves(h)
  PROVE  RegistryInv'
BY TakeKeeps DEF CallThatLeaves

\* What the invariant is for.
LEMMA RegistryGuarantees ==
  ASSUME RegistryInv
  PROVE  RegistryTyped /\ DispatchIsComplete /\ AtMostOneLateCall
<1>1. DispatchIsComplete
  BY DEF RegistryInv, Sorted, Increasing, AllDue, DispatchIsComplete
<1>2. AtMostOneLateCall
  <2> SUFFICES ASSUME NEW h \in Handle PROVE late[h] <= 1
    BY DEF AtMostOneLateCall
  <2>1. late[h] = 0 \/ late[h] = 1
    BY DEF RegistryInv, Spent
  <2> QED BY <2>1
<1> QED BY <1>1, <1>2 DEF RegistryInv

-----------------------------------------------------------------------------
(***************************************************************************)
(* The invariants.                                                         *)
(***************************************************************************)
\* While the UI thread waits or resizes the flag is up, and a present that was
\* skipped under it leaves none under way.
BlockInv ==
  /\ BlockTyped
  /\ ui \in {"waiting", "resizing"} =>
       /\ blocked
       /\ skipped => drawing # "presenting"

\* Only a detoured function, or a callback of one, takes a view or a backend.
Taken ==
  /\ view \/ backend # NoBackend \/ frame = "inside" => detours > 0
  /\ frame = "install" => detours = 0 /\ poll = 0 /\ ~view /\ backend = NoBackend

\* A poll that is still subscribed has not detoured more often than it failed.
Counted ==
  /\ renderer = "d3d9" => ~live
  /\ renderer = "d3d11" /\ ~live => detours = 0
  /\ frame = "install" => ~live
  /\ live /\ poll # 0 => detours <= MaxFailedInits

Typed ==
  /\ renderer \in {"d3d9", "d3d11"} /\ live \in BOOLEAN
  /\ frame \in {"install", "scene", "resize", "dispatch", "present", "inside", "overflow"}
  /\ detours \in 0..(MaxFailedInits + 1)
  /\ backend \in {NoBackend, "dx9", "dx11"} /\ isSetup \in BOOLEAN
  /\ installed \in BOOLEAN /\ poll \in 0..MaxSubscriptions
  /\ view \in BOOLEAN /\ drawnSize \in Sizes \cup {0}

HookInv == Typed /\ Taken /\ Counted

OverlayInv == RegistryInv /\ BlockInv /\ HookInv

-----------------------------------------------------------------------------
(***************************************************************************)
(* The present block.                                                      *)
(***************************************************************************)
LEMMA BlockStutters ==
  ASSUME BlockInv, UNCHANGED blockVars
  PROVE  BlockInv'
BY DEF BlockInv, BlockTyped, blockVars

LEMMA UIKeepsBlockInv ==
  ASSUME BlockInv, UI
  PROVE  BlockInv'
<1>1. CASE SysCommand
  BY <1>1 DEF SysCommand, BlockInv, BlockTyped
<1>2. CASE WaitIsSignalled
  BY <1>2 DEF WaitIsSignalled, BlockInv, BlockTyped
<1>3. CASE WaitTimesOut
  BY <1>3 DEF WaitTimesOut, BlockInv, BlockTyped
<1>4. CASE Resized
  BY <1>4 DEF Resized, BlockInv, BlockTyped
<1>5. CASE NothingToResize
  BY <1>5 DEF NothingToResize, BlockInv, BlockTyped
<1>6. CASE Dragged
  BY <1>6 DEF Dragged, BlockInv, BlockTyped
<1>7. CASE ResetSignal
  BY <1>7 DEF ResetSignal, BlockInv, BlockTyped
<1> QED BY <1>1, <1>2, <1>3, <1>4, <1>5, <1>6, <1>7 DEF UI

LEMMA ReadFlagKeepsBlockInv ==
  ASSUME BlockInv, ReadFlag
  PROVE  BlockInv'
<1>1. drawing = "none" /\ drawing' = (IF blocked THEN "skipping" ELSE "presenting")
      /\ skipped' = (skipped \/ blocked) /\ UNCHANGED <<ui, blocked, signalled, window>>
  BY DEF ReadFlag
<1>2. BlockTyped
  BY DEF BlockInv
<1>3. skipped' \in BOOLEAN
  BY <1>1, <1>2 DEF BlockTyped
<1>4. drawing' \in {"none", "presenting", "skipping"}
  BY <1>1
<1>5. BlockTyped'
  BY <1>1, <1>2, <1>3, <1>4 DEF BlockTyped
<1>6. ASSUME ui' \in {"waiting", "resizing"} PROVE blocked' /\ drawing' # "presenting"
  BY <1>1, <1>6 DEF BlockInv
<1> QED BY <1>5, <1>6 DEF BlockInv

LEMMA EndPresentKeepsBlockInv ==
  ASSUME BlockInv, EndPresent
  PROVE  BlockInv'
<1>1. drawing' = "none" /\ signalled' = (signalled \/ drawing = "skipping")
      /\ UNCHANGED <<ui, blocked, skipped, window>>
  BY DEF EndPresent
<1>2. signalled' \in BOOLEAN
  BY <1>1 DEF BlockInv, BlockTyped
<1> QED BY <1>1, <1>2 DEF BlockInv, BlockTyped

-----------------------------------------------------------------------------
(***************************************************************************)
(* Steps that leave the overlay alone but for the frame.                   *)
(***************************************************************************)
\* The frame goes on, and neither to its install nor into hkPresent.
LEMMA FrameGoesOn ==
  ASSUME HookInv, UNCHANGED <<engine, overlay, view, drawnSize>>,
         frame' = frame \/ frame' \in {"scene", "dispatch", "present", "overflow"}
  PROVE  HookInv'
BY DEF HookInv, Typed, Taken, Counted, engine, overlay

LEMMA IdleKeeps ==
  ASSUME OverlayInv, UNCHANGED vars
  PROVE  OverlayInv'
<1>1. UNCHANGED registryVars /\ UNCHANGED blockVars
      /\ UNCHANGED <<engine, overlay, view, drawnSize>> /\ frame' = frame
  BY DEF vars
<1> QED BY <1>1, RegistryStutters, BlockStutters, FrameGoesOn DEF OverlayInv

-----------------------------------------------------------------------------
(***************************************************************************)
(* The game thread, step by step.                                          *)
(***************************************************************************)
LEMMA HkInstallKeeps ==
  ASSUME OverlayInv, HkInstall
  PROVE  OverlayInv'
<1>1. RegistryInv'
  BY SubscribeKeeps DEF OverlayInv, HkInstall
<1>2. BlockInv'
  BY BlockStutters DEF OverlayInv, HkInstall
<1>3. HookInv'
  <2>1. nextId \in 0..MaxSubscriptions
    BY RegistryAssumption DEF OverlayInv, RegistryInv, RegistryTyped, HkInstall, Subscribe
  <2>2. 0 \in 0..(MaxFailedInits + 1) /\ 1 \in 0..(MaxFailedInits + 1)
    BY OverlayAssumption
  <2> QED BY <2>1, <2>2, OverlayAssumption DEF OverlayInv, HookInv, Typed, Taken, Counted, engine, overlay, NoBackend, HkInstall
<1> QED BY <1>1, <1>2, <1>3 DEF OverlayInv

LEMMA EngineReadyKeeps ==
  ASSUME OverlayInv, EngineReady
  PROVE  OverlayInv'
<1>1. RegistryInv'
  BY RegistryStutters DEF OverlayInv, EngineReady
<1>2. BlockInv'
  BY BlockStutters DEF OverlayInv, EngineReady
<1>3. HookInv'
  BY OverlayAssumption DEF OverlayInv, HookInv, Typed, Taken, Counted, engine, overlay, NoBackend, EngineReady
<1> QED BY <1>1, <1>2, <1>3 DEF OverlayInv

LEMMA BeginResizeKeeps ==
  ASSUME OverlayInv, BeginResize
  PROVE  OverlayInv'
<1>1. RegistryInv'
  BY RegistryStutters DEF OverlayInv, BeginResize
<1>2. BlockInv'
  BY BlockStutters DEF OverlayInv, BeginResize
<1>3. HookInv'
  <2>1. window \in Sizes
    BY DEF OverlayInv, BlockInv, BlockTyped
  <2> QED BY <2>1 DEF OverlayInv, HookInv, Typed, Taken, Counted, engine, overlay, NoBackend, BeginResize, ViewBeforeResize
<1> QED BY <1>1, <1>2, <1>3 DEF OverlayInv

LEMMA EndResizeKeeps ==
  ASSUME OverlayInv, EndResize
  PROVE  OverlayInv'
<1>1. RegistryInv'
  BY BeginDispatchKeeps DEF OverlayInv, EndResize
<1>2. BlockInv'
  BY BlockStutters DEF OverlayInv, EndResize
<1>3. HookInv'
  BY DEF OverlayInv, HookInv, Typed, Taken, Counted, engine, overlay, NoBackend, EndResize
<1> QED BY <1>1, <1>2, <1>3 DEF OverlayInv

LEMMA EndSceneKeeps ==
  ASSUME OverlayInv, EndScene
  PROVE  OverlayInv'
<1>1. RegistryInv'
  BY BeginDispatchKeeps DEF OverlayInv, EndScene
<1>2. BlockInv'
  BY BlockStutters DEF OverlayInv, EndScene
<1>3. HookInv'
  BY FrameGoesOn DEF OverlayInv, EndScene
<1> QED BY <1>1, <1>2, <1>3 DEF OverlayInv

LEMMA OtherCallbackKeeps ==
  ASSUME OverlayInv, OtherCallback
  PROVE  OverlayInv'
<1>1. RegistryInv'
  BY CallKeeps DEF OverlayInv, OtherCallback
<1>2. BlockInv'
  BY BlockStutters DEF OverlayInv, OtherCallback
<1>3. HookInv'
  BY FrameGoesOn DEF OverlayInv, OtherCallback
<1> QED BY <1>1, <1>2, <1>3 DEF OverlayInv

LEMMA PollsInVainKeeps ==
  ASSUME OverlayInv, PollsInVain
  PROVE  OverlayInv'
<1>1. RegistryInv'
  BY CallKeeps DEF OverlayInv, PollsInVain
<1>2. BlockInv'
  BY BlockStutters DEF OverlayInv, PollsInVain
<1>3. HookInv'
  BY FrameGoesOn DEF OverlayInv, PollsInVain
<1> QED BY <1>1, <1>2, <1>3 DEF OverlayInv

LEMMA PollInstallsKeeps ==
  ASSUME OverlayInv, PollInstalls
  PROVE  OverlayInv'
<1>1. RegistryInv'
  BY CallThatLeavesKeeps DEF OverlayInv, PollInstalls
<1>2. BlockInv'
  BY BlockStutters DEF OverlayInv, PollInstalls
<1>3. HookInv'
  <2>1. poll # 0
    <3>1. pending # <<>> /\ Head(pending) = poll
      BY DEF PollInstalls, IsPoll
    <3>2. Head(pending) \in Handle
      BY <3>1, TailOf DEF OverlayInv, RegistryInv, RegistryTyped
    <3> QED BY <3>1, <3>2 DEF Handle
  <2>2. detours \in Nat /\ detours <= MaxFailedInits
    BY <2>1 DEF OverlayInv, HookInv, Typed, Taken, Counted, engine, overlay, NoBackend, PollInstalls
  <2>3. detours + 1 \in 0..(MaxFailedInits + 1) /\ detours + 1 > 0 /\ 0 \in 0..MaxSubscriptions
    BY <2>2, OverlayAssumption, RegistryAssumption
  <2> QED BY <2>3 DEF OverlayInv, HookInv, Typed, Taken, Counted, engine, overlay, NoBackend, PollInstalls, SetUp
<1> QED BY <1>1, <1>2, <1>3 DEF OverlayInv

LEMMA PollFailsKeeps ==
  ASSUME OverlayInv, PollFails
  PROVE  OverlayInv'
<1>1. RegistryInv'
  BY CallKeeps DEF OverlayInv, PollFails
<1>2. BlockInv'
  BY BlockStutters DEF OverlayInv, PollFails
<1>3. HookInv'
  <2>1. detours \in Nat /\ detours < MaxFailedInits
    BY DEF OverlayInv, HookInv, Typed, Taken, Counted, engine, overlay, NoBackend, PollFails
  <2>2. detours + 1 \in 0..(MaxFailedInits + 1) /\ detours + 1 > 0 /\ detours + 1 <= MaxFailedInits
    BY <2>1, OverlayAssumption
  <2> QED BY <2>2 DEF OverlayInv, HookInv, Typed, Taken, Counted, engine, overlay, NoBackend, PollFails
<1> QED BY <1>1, <1>2, <1>3 DEF OverlayInv

LEMMA DispatchEndsKeeps ==
  ASSUME OverlayInv, DispatchEnds
  PROVE  OverlayInv'
<1>1. RegistryInv'
  BY EndDispatchKeeps DEF OverlayInv, DispatchEnds
<1>2. BlockInv'
  BY BlockStutters DEF OverlayInv, DispatchEnds
<1>3. HookInv'
  BY FrameGoesOn DEF OverlayInv, DispatchEnds
<1> QED BY <1>1, <1>2, <1>3 DEF OverlayInv

LEMMA PlainPresentKeeps ==
  ASSUME OverlayInv, PlainPresent
  PROVE  OverlayInv'
<1>1. RegistryInv'
  BY RegistryStutters DEF OverlayInv, PlainPresent
<1>2. BlockInv'
  BY BlockStutters DEF OverlayInv, PlainPresent
<1>3. HookInv'
  BY FrameGoesOn DEF OverlayInv, PlainPresent
<1> QED BY <1>1, <1>2, <1>3 DEF OverlayInv

LEMMA Present11Keeps ==
  ASSUME OverlayInv, Present11
  PROVE  OverlayInv'
<1>1. RegistryInv'
  BY RegistryStutters DEF OverlayInv, Present11
<1>2. BlockInv'
  BY BlockStutters DEF OverlayInv, Present11
<1>3. HookInv'
  BY DEF OverlayInv, HookInv, Typed, Taken, Counted, engine, overlay, NoBackend, Present11
<1> QED BY <1>1, <1>2, <1>3 DEF OverlayInv

LEMMA HookCallsItselfKeeps ==
  ASSUME OverlayInv, HookCallsItself
  PROVE  OverlayInv'
<1>1. RegistryInv'
  BY RegistryStutters DEF OverlayInv, HookCallsItself
<1>2. BlockInv'
  BY BlockStutters DEF OverlayInv, HookCallsItself
<1>3. HookInv'
  BY FrameGoesOn DEF OverlayInv, HookCallsItself
<1> QED BY <1>1, <1>2, <1>3 DEF OverlayInv

LEMMA BeginPresent9Keeps ==
  ASSUME OverlayInv, BeginPresent9
  PROVE  OverlayInv'
<1>1. RegistryInv'
  BY RegistryStutters DEF OverlayInv, BeginPresent9
<1>2. BlockInv'
  BY ReadFlagKeepsBlockInv DEF OverlayInv, BeginPresent9
<1>3. HookInv'
  BY DEF OverlayInv, HookInv, Typed, Taken, Counted, engine, overlay, NoBackend, BeginPresent9
<1> QED BY <1>1, <1>2, <1>3 DEF OverlayInv

LEMMA EndPresent9Keeps ==
  ASSUME OverlayInv, EndPresent9
  PROVE  OverlayInv'
<1>1. RegistryInv'
  BY RegistryStutters DEF OverlayInv, EndPresent9
<1>2. BlockInv'
  BY EndPresentKeepsBlockInv DEF OverlayInv, EndPresent9
<1>3. HookInv'
  BY DEF OverlayInv, HookInv, Typed, Taken, Counted, engine, overlay, NoBackend, EndPresent9, SetUp
<1> QED BY <1>1, <1>2, <1>3 DEF OverlayInv

LEMMA OthersKeep ==
  ASSUME OverlayInv, Others
  PROVE  OverlayInv'
<1>1. CASE /\ Subscribe \/ \E h \in Handle \ {poll} : Unsubscribe(h)
           /\ UNCHANGED <<blockVars, engine, frame, overlay, view, drawnSize>>
  <2>1. RegistryInv'
    BY <1>1, SubscribeKeeps, UnsubscribeKeeps DEF OverlayInv
  <2>2. BlockInv' /\ HookInv'
    BY <1>1, BlockStutters, FrameGoesOn DEF OverlayInv
  <2> QED BY <2>1, <2>2 DEF OverlayInv
<1>2. CASE UI /\ UNCHANGED <<registryVars, engine, frame, overlay, view, drawnSize>>
  <2>1. BlockInv'
    BY <1>2, UIKeepsBlockInv DEF OverlayInv
  <2>2. RegistryInv' /\ HookInv'
    BY <1>2, RegistryStutters, FrameGoesOn DEF OverlayInv
  <2> QED BY <2>1, <2>2 DEF OverlayInv
<1> QED BY <1>1, <1>2 DEF Others

-----------------------------------------------------------------------------
(***************************************************************************)
(* The theorems.                                                           *)
(***************************************************************************)
LEMMA InitOverlayInv == Init => OverlayInv
<1> SUFFICES ASSUME Init PROVE OverlayInv
  OBVIOUS
<1>1. RegistryInv
  BY InitRegistryInv DEF Init
<1>2. BlockInv
  BY DEF Init, InitBlock, BlockInv, BlockTyped
<1>3. 0 \in 0..(MaxFailedInits + 1) /\ 0 \in 0..MaxSubscriptions
  BY OverlayAssumption, RegistryAssumption
<1>4. HookInv
  BY <1>3, OverlayAssumption DEF Init, HookInv, Typed, Taken, Counted, NoBackend
<1> QED BY <1>1, <1>2, <1>4 DEF OverlayInv

LEMMA NextKeepsOverlayInv == OverlayInv /\ [Next]_vars => OverlayInv'
<1> SUFFICES ASSUME OverlayInv, [Next]_vars PROVE OverlayInv'
  OBVIOUS
<1>1. CASE GameThread
  BY <1>1, HkInstallKeeps, BeginResizeKeeps, EndResizeKeeps, EndSceneKeeps, OtherCallbackKeeps,
     PollsInVainKeeps, PollInstallsKeeps, PollFailsKeeps, DispatchEndsKeeps, PlainPresentKeeps,
     Present11Keeps, HookCallsItselfKeeps, BeginPresent9Keeps, EndPresent9Keeps DEF GameThread
<1>2. CASE EngineReady
  BY <1>2, EngineReadyKeeps
<1>3. CASE Others
  BY <1>3, OthersKeep
<1>4. CASE UNCHANGED vars
  BY <1>4, IdleKeeps
<1> QED BY <1>1, <1>2, <1>3, <1>4 DEF Next

LEMMA AlwaysOverlayInv == Spec => []OverlayInv
<1>1. Init => OverlayInv
  BY InitOverlayInv
<1>2. OverlayInv /\ [Next]_vars => OverlayInv'
  BY NextKeepsOverlayInv
<1> QED BY <1>1, <1>2, PTL DEF Spec

\* The state of registry, present block and hooks is well typed; the detours of
\* the polls in particular stay within their bound.
THEOREM TypeCorrect == Spec => []TypeOK
<1>1. OverlayInv => TypeOK
  BY DEF OverlayInv, RegistryInv, BlockInv, HookInv, Typed, TypeOK
<1> QED BY <1>1, AlwaysOverlayInv, PTL

\* dispatchSnapshot calls in the order of subscription, each subscription once,
\* and leaves out nobody who stays, for any number of subscriptions.
THEOREM AlwaysCompleteDispatch == Spec => []DispatchIsComplete
<1>1. OverlayInv => DispatchIsComplete
  BY RegistryGuarantees DEF OverlayInv
<1> QED BY <1>1, AlwaysOverlayInv, PTL

\* unsubscribe is followed by at most one call, of the dispatch that is under way.
THEOREM NeverTwoLateCalls == Spec => []AtMostOneLateCall
<1>1. OverlayInv => AtMostOneLateCall
  BY RegistryGuarantees DEF OverlayInv
<1> QED BY <1>1, AlwaysOverlayInv, PTL

\* A present skipped under the flag means none is under way while the window is
\* resized, for any sizes and however the wait ended.
THEOREM SkippedIsQuiet == Spec => []SkippedMeansQuiet
<1>1. OverlayInv => SkippedMeansQuiet
  BY DEF OverlayInv, BlockInv, SkippedMeansQuiet
<1> QED BY <1>1, AlwaysOverlayInv, PTL

\* The hooks of ResizeBuffers and Reset see every resize that happens while there
\* is a view to let go of: a view exists only behind a detour.
ResizeInv == OverlayInv /\ NoViewAcrossResize

THEOREM NeverViewAcrossResize == Spec => []NoViewAcrossResize
<1>1. Init => ResizeInv
  BY InitOverlayInv DEF Init, ResizeInv, NoViewAcrossResize
<1>2. ResizeInv /\ [Next]_vars => ResizeInv'
  <2> SUFFICES ASSUME ResizeInv, [Next]_vars PROVE NoViewAcrossResize'
    BY NextKeepsOverlayInv DEF ResizeInv
  <2>1. CASE BeginResize
    <3>1. view => detours > 0
      BY DEF ResizeInv, OverlayInv, HookInv, Taken
    <3> QED BY <2>1, <3>1 DEF BeginResize, ViewBeforeResize, NoViewAcrossResize,
                              ResizeInv, OverlayInv, HookInv, Typed
  <2>2. CASE HkInstall \/ EndResize \/ EndScene \/ DispatchEnds \/ PlainPresent \/ Present11
             \/ HookCallsItself \/ BeginPresent9 \/ EndPresent9
    BY <2>2 DEF HkInstall, EndResize, EndScene, DispatchEnds, PlainPresent, Present11,
                HookCallsItself, BeginPresent9, EndPresent9, NoViewAcrossResize
  <2>3. CASE OtherCallback \/ PollsInVain \/ PollInstalls \/ PollFails
    BY <2>3 DEF OtherCallback, PollsInVain, PollInstalls, PollFails, ResizeInv, NoViewAcrossResize
  <2>4. CASE EngineReady \/ Others \/ UNCHANGED vars
    BY <2>4 DEF EngineReady, Others, vars, ResizeInv, NoViewAcrossResize
  <2> QED BY <2>1, <2>2, <2>3, <2>4 DEF Next, GameThread
<1>3. ResizeInv => NoViewAcrossResize
  BY DEF ResizeInv
<1> QED BY <1>1, <1>2, <1>3, PTL DEF Spec
=============================================================================
