------------------------- MODULE SnapshotUndo_proofs -------------------------
(***************************************************************************)
(* What editing a world snapshot guarantees for any authored scene, any    *)
(* number of edits and scenes, and any user.                               *)
(***************************************************************************)
EXTENDS SnapshotUndo, Integers, SequenceTheorems, FiniteSetTheorems, WellFoundedInduction, TLAPS

-----------------------------------------------------------------------------
(***************************************************************************)
(* The invariant.  What is known at some moment are the ids given out and  *)
(* the scenes loaded so far: commands, queued effects and nodes are made   *)
(* of these.                                                               *)
(***************************************************************************)
KnownNode == [id : 1..highestId, facing : Facings]
Known == {c \in [kind : {"add", "remove", "turn"}, family : {"live", "classic"}, id : 1..highestId,
                 before : Facings, after : Facings, scene : 1..scene] : c.family \in FamiliesOf(c.kind)}
KnownEffect == [call : {"undo", "redo"}, cmd : Known]

\* While a scene is alive, its stacks hold its own commands.
Own == {c \in Known : alive => c.scene = scene}

StacksInv ==
  /\ undoCommands \in Seq(Own) /\ redoCommands \in Seq(Own)
  /\ ~alive /\ phase # "cleanup" => undoCommands = <<>> /\ redoCommands = <<>>

CallsInv ==
  /\ taken \in [Threads -> KnownEffect \cup {Nothing}]
  /\ preQueue \in Seq({"undo", "redo"})
  /\ updateQueue \in Seq(Edit \cup KnownEffect)

\* A drain never asks for more than its queue holds; it runs in a living scene.
FrameInv ==
  /\ phase \in {"pre", "update", "end", "cleanup"} /\ remaining \in Nat
  /\ phase = "pre" => remaining <= Len(preQueue)
  /\ phase = "update" => alive /\ remaining <= Len(updateQueue)
  /\ phase = "cleanup" => ~alive
  /\ alive \in BOOLEAN /\ scene \in 1..MaxScenes /\ (~alive => scene < MaxScenes)

NodesInv ==
  /\ snapshot \in Seq(KnownNode)
  /\ highestId \in Nat /\ Len(Authored) <= highestId
  /\ Families = {"live"} => IdsAreUnique

\* Each click gives out at most one id, when its call runs.
Clicks(q) == {i \in DOMAIN q : q[i].call = "edit"}
Counted ==
  /\ edits \in 0..MaxEdits
  /\ highestId + Cardinality(Clicks(updateQueue)) <= Len(Authored) + edits

FlagsTyped == {strays, wrong, refused} \subseteq BOOLEAN

Inv == StacksInv /\ CallsInv /\ FrameInv /\ NodesInv /\ Counted /\ FlagsTyped

-----------------------------------------------------------------------------
(***************************************************************************)
(* Sequences.                                                              *)
(***************************************************************************)
\* Popping: what Front and Last of a stack are.
LEMMA PopFacts ==
  ASSUME NEW S, NEW s \in Seq(S), s # <<>>
  PROVE  Last(s) \in S /\ Front(s) \in Seq(S)
<1>1. Len(s) \in Nat /\ Len(s) > 0
  BY EmptySeq
<1>2. Last(s) \in S
  BY <1>1 DEF Last
<1> DEFINE m == Len(s) - 1
<1>3. Front(s) = SubSeq(s, 1, m) /\ m \in Nat /\ m <= Len(s)
  BY <1>1 DEF Front
<1>4. \A i \in 1..m : s[i] \in S
  BY <1>3, ElementOfSeq
<1> QED
  BY <1>2, <1>3, <1>4, SubSeqProperties

\* What is left when one element goes.
LEMMA RemoveOne ==
  ASSUME NEW S, NEW s \in Seq(S), NEW at \in 1..Len(s)
  PROVE  /\ RemoveAt(s, at) \in Seq(S) /\ Len(RemoveAt(s, at)) = Len(s) - 1
         /\ \A i \in 1..Len(s) - 1 : RemoveAt(s, at)[i] = IF i < at THEN s[i] ELSE s[i + 1]
<1> DEFINE n == Len(s)
           l == SubSeq(s, 1, at - 1)
           r == SubSeq(s, at + 1, n)
<1>1. n \in Nat /\ \A i \in 1..n : s[i] \in S
  BY LenProperties, ElementOfSeq
<1>2. n \in Int /\ at \in Int /\ 1 <= at /\ at <= n /\ n > 0
  <2> HIDE DEF n
  <2> QED BY <1>1 DEF n
<1>3. RemoveAt(s, at) = l \o r
  BY DEF RemoveAt
<1>4. l \in Seq(S) /\ Len(l) = at - 1 /\ \A i \in 1..at - 1 : l[i] = s[i]
  <2>1. 1 \in Int /\ at - 1 \in Int /\ \A i \in 1..at - 1 : s[i] \in S
    BY <1>1, <1>2
  <2>2. /\ l \in Seq(S) /\ Len(l) = IF 1 <= at - 1 THEN at - 1 - 1 + 1 ELSE 0
        /\ \A i \in 1..at - 1 - 1 + 1 : l[i] = s[1 + i - 1]
    BY <2>1, SubSeqProperties
  <2> HIDE DEF l
  <2> QED BY <1>1, <1>2, <2>2
<1>5. r \in Seq(S) /\ Len(r) = n - at /\ \A i \in 1..n - at : r[i] = s[at + i]
  <2>1. n \in Int /\ at + 1 \in Int /\ \A i \in at + 1..n : s[i] \in S
    BY <1>1, <1>2
  <2>2. /\ r \in Seq(S) /\ Len(r) = IF at + 1 <= n THEN n - (at + 1) + 1 ELSE 0
        /\ \A i \in 1..n - (at + 1) + 1 : r[i] = s[at + 1 + i - 1]
    BY <2>1, SubSeqProperties
  <2> HIDE DEF r, n
  <2>3. Len(r) = n - at
    <3>1. CASE at + 1 <= n
      BY <1>2, <2>2, <3>1
    <3>2. CASE ~(at + 1 <= n)
      <4>1. n = at
        BY <1>2, <3>2
      <4> QED BY <1>2, <2>2, <3>2, <4>1
    <3> QED BY <3>1, <3>2
  <2>4. ASSUME NEW i \in 1..n - at PROVE r[i] = s[at + i]
    <3>1. i \in 1..n - (at + 1) + 1 /\ at + 1 + i - 1 = at + i
      BY <1>2
    <3> QED BY <2>2, <3>1
  <2> QED BY <2>2, <2>3, <2>4
<1> HIDE DEF l, r, n
<1>6. /\ l \o r \in Seq(S) /\ Len(l \o r) = Len(l) + Len(r)
      /\ \A i \in 1..Len(l) + Len(r) : (l \o r)[i] = IF i <= Len(l) THEN l[i] ELSE r[i - Len(l)]
  BY <1>4, <1>5, ConcatProperties
<1>7. Len(l \o r) = n - 1
  BY <1>2, <1>4, <1>5, <1>6
<1>8. ASSUME NEW i \in 1..n - 1 PROVE (l \o r)[i] = IF i < at THEN s[i] ELSE s[i + 1]
  <2>1. i \in 1..Len(l) + Len(r) /\ i \in Int /\ Len(l) = at - 1
    BY <1>2, <1>4, <1>5
  <2>2. (l \o r)[i] = IF i <= at - 1 THEN l[i] ELSE r[i - (at - 1)]
    BY <1>6, <2>1
  <2>3. CASE i < at
    BY <1>2, <1>4, <2>1, <2>2, <2>3
  <2>4. CASE ~(i < at)
    <3>1. i - (at - 1) \in 1..n - at /\ at + (i - (at - 1)) = i + 1 /\ ~(i <= at - 1)
      BY <1>2, <2>1, <2>4
    <3> QED BY <1>5, <2>2, <2>4, <3>1
  <2> QED BY <2>3, <2>4
<1> QED BY <1>3, <1>6, <1>7, <1>8 DEF n

LEMMA ClicksFinite ==
  ASSUME NEW S, NEW q \in Seq(S)
  PROVE  IsFiniteSet(Clicks(q)) /\ Cardinality(Clicks(q)) \in Nat
<1>1. Len(q) \in Nat /\ DOMAIN q = 1..Len(q)
  BY LenProperties
<1>2. IsFiniteSet(1..Len(q))
  <2>1. 1 \in Int /\ Len(q) \in Int
    BY <1>1
  <2> QED BY <2>1, FS_Interval
<1>3. Clicks(q) \in SUBSET (1..Len(q))
  BY <1>1 DEF Clicks
<1> QED BY <1>2, <1>3, FS_Subset, FS_CardinalityType

\* Clicks are counted as the queue grows and shrinks.
LEMMA ClicksAtTheEnd ==
  ASSUME NEW S, NEW q \in Seq(S), NEW x \in S
  PROVE  /\ Append(q, x) \in Seq(S) /\ Len(Append(q, x)) = Len(q) + 1 /\ Len(q) \in Nat
         /\ IsFiniteSet(Clicks(q)) /\ Cardinality(Clicks(q)) \in Nat
         /\ Cardinality(Clicks(Append(q, x))) <= Cardinality(Clicks(q)) + 1
         /\ x.call # "edit" => Clicks(Append(q, x)) = Clicks(q)
<1> DEFINE n == Len(q)
<1>1. n \in Nat /\ DOMAIN q = 1..n
  BY LenProperties
<1>2. /\ Append(q, x) \in Seq(S) /\ Len(Append(q, x)) = n + 1 /\ DOMAIN Append(q, x) = 1..n + 1
      /\ Append(q, x)[n + 1] = x /\ \A i \in 1..n : Append(q, x)[i] = q[i]
  OBVIOUS
<1>4. IsFiniteSet(Clicks(q)) /\ Cardinality(Clicks(q)) \in Nat
  BY ClicksFinite
<1>5. CASE x.call = "edit"
  <2>1. Clicks(Append(q, x)) = Clicks(q) \cup {n + 1}
    BY <1>1, <1>2, <1>5 DEF Clicks
  <2>2. Cardinality(Clicks(q) \cup {n + 1}) = IF n + 1 \in Clicks(q) THEN Cardinality(Clicks(q))
                                             ELSE Cardinality(Clicks(q)) + 1
    BY <1>4, FS_AddElement
  <2>3. Cardinality(Clicks(Append(q, x))) <= Cardinality(Clicks(q)) + 1
    BY <1>4, <2>1, <2>2
  <2> QED BY <1>1, <1>2, <1>4, <1>5, <2>3
<1>6. CASE x.call # "edit"
  <2>1. Clicks(Append(q, x)) = Clicks(q)
    BY <1>1, <1>2, <1>6 DEF Clicks
  <2>2. Cardinality(Clicks(Append(q, x))) <= Cardinality(Clicks(q)) + 1
    BY <1>4, <2>1
  <2> QED BY <1>1, <1>2, <1>4, <2>1, <2>2
<1> QED BY <1>5, <1>6

LEMMA ClicksAtTheFront ==
  ASSUME NEW S, NEW q \in Seq(S), q # <<>>
  PROVE  /\ Head(q) \in S /\ Tail(q) \in Seq(S) /\ Len(Tail(q)) = Len(q) - 1 /\ Len(q) \in Nat
         /\ Cardinality(Clicks(q)) \in Nat /\ Cardinality(Clicks(Tail(q))) \in Nat
         /\ Cardinality(Clicks(Tail(q))) <= Cardinality(Clicks(q))
         /\ Head(q).call = "edit" => Cardinality(Clicks(Tail(q))) + 1 <= Cardinality(Clicks(q))
<1> DEFINE n == Len(q)
           rest == Clicks(q) \ {1}
           f == [i \in Clicks(Tail(q)) |-> i + 1]
<1>1. /\ n \in Nat /\ DOMAIN q = 1..n /\ n > 0 /\ Head(q) = q[1]
  BY LenProperties, EmptySeq
<1>2. /\ Head(q) \in S /\ Tail(q) \in Seq(S) /\ Len(Tail(q)) = n - 1
      /\ \A i \in 1..n - 1 : Tail(q)[i] = q[i + 1]
  BY HeadTailProperties
<1>3. DOMAIN Tail(q) = 1..n - 1
  BY <1>2, LenProperties
<1>4. IsFiniteSet(Clicks(q)) /\ Cardinality(Clicks(q)) \in Nat
  BY ClicksFinite
<1>5. /\ IsFiniteSet(rest) /\ Cardinality(rest) \in Nat
      /\ Cardinality(rest) <= Cardinality(Clicks(q))
      /\ 1 \in Clicks(q) => Cardinality(rest) = Cardinality(Clicks(q)) - 1
  <2>1. /\ IsFiniteSet(rest)
        /\ Cardinality(rest) = IF 1 \in Clicks(q) THEN Cardinality(Clicks(q)) - 1
                                                  ELSE Cardinality(Clicks(q))
    BY <1>4, FS_RemoveElement
  <2>2. Cardinality(rest) \in Nat
    BY <2>1, FS_CardinalityType
  <2> HIDE DEF rest
  <2> QED BY <1>4, <2>1, <2>2
<1>6. f \in Injection(Clicks(Tail(q)), rest)
  <2>1. ASSUME NEW i \in Clicks(Tail(q)) PROVE i + 1 \in rest /\ i \in Int
    BY <1>1, <1>2, <1>3 DEF Clicks
  <2>2. \A i, j \in Clicks(Tail(q)) : f[i] = f[j] => i = j
    BY <2>1
  <2>3. f \in [Clicks(Tail(q)) -> rest]
    BY <2>1
  <2> QED BY <2>2, <2>3 DEF Injection, IsInjective
<1>7. /\ IsFiniteSet(Clicks(Tail(q)))
      /\ Cardinality(Clicks(Tail(q))) <= Cardinality(rest)
  BY <1>5, <1>6, FS_Injection
<1>8. Cardinality(Clicks(Tail(q))) \in Nat
  BY <1>7, FS_CardinalityType
<1>9. Head(q).call = "edit" => 1 \in Clicks(q)
  BY <1>1 DEF Clicks
<1> HIDE DEF rest
<1>a. /\ Cardinality(Clicks(Tail(q))) <= Cardinality(Clicks(q))
      /\ Head(q).call = "edit" => Cardinality(Clicks(Tail(q))) + 1 <= Cardinality(Clicks(q))
  BY <1>4, <1>5, <1>7, <1>8, <1>9
<1> QED BY <1>1, <1>2, <1>4, <1>8, <1>a

-----------------------------------------------------------------------------
(***************************************************************************)
(* What the invariant says about the types.                                *)
(***************************************************************************)
LEMMA InvIsTyped == Inv => TypeOK
<1> SUFFICES ASSUME Inv PROVE TypeOK
  OBVIOUS
<1>1. highestId <= Len(Authored) + MaxEdits /\ highestId \in Nat /\ 1..highestId \subseteq Ids
  <2>1. Cardinality(Clicks(updateQueue)) \in Nat
    BY ClicksFinite DEF Inv, CallsInv
  <2>2. Len(Authored) \in Nat /\ MaxEdits \in Nat
    BY SnapshotAssumption
  <2> QED BY <2>1, <2>2 DEF Inv, Counted, NodesInv, Ids
<1>2. Known \subseteq Command
  <2>1. scene \in 1..MaxScenes /\ MaxScenes \in Nat
    BY SnapshotAssumption DEF Inv, FrameInv
  <2>2. 1..scene \subseteq 1..MaxScenes
    BY <2>1
  <2> QED BY <1>1, <2>2 DEF Known, Command
<1>3. KnownNode \subseteq Node
  BY <1>1 DEF KnownNode, Node
<1>4. KnownEffect \subseteq Effect
  BY <1>2 DEF KnownEffect, Effect
<1>5. undoCommands \in Seq(Command) /\ redoCommands \in Seq(Command)
  BY <1>2, SeqMonotonic DEF Inv, StacksInv, Own
<1>6. taken \in [Threads -> Effect \cup {Nothing}] /\ updateQueue \in Seq(Edit \cup Effect)
  <2>1. Edit \cup KnownEffect \subseteq Edit \cup Effect
    BY <1>4
  <2>2. updateQueue \in Seq(Edit \cup Effect)
    BY <2>1, SeqMonotonic DEF Inv, CallsInv
  <2>3. taken \in [Threads -> Effect \cup {Nothing}]
    BY <1>4 DEF Inv, CallsInv
  <2> QED BY <2>2, <2>3
<1>7. snapshot \in Seq(Node)
  BY <1>3, SeqMonotonic DEF Inv, NodesInv
<1>8. highestId \in Ids \cup {0}
  BY <1>1 DEF Ids
<1> QED
  BY <1>5, <1>6, <1>7, <1>8 DEF Inv, CallsInv, FrameInv, Counted, FlagsTyped, TypeOK

\* The nodes a scene loads with.
LEMMA AuthoredFacts ==
  ASSUME NEW f \in Facings, NEW n \in Nat, Len(Authored) <= n
  PROVE  /\ AuthoredNodes(f) \in Seq([id : 1..n, facing : Facings])
         /\ \A i, j \in DOMAIN AuthoredNodes(f) :
              AuthoredNodes(f)[i].id = AuthoredNodes(f)[j].id => i = j
<1> DEFINE m == Len(Authored)
<1>1. m \in Nat /\ DOMAIN Authored = 1..m /\ \A i \in 1..m : Authored[i] \in 1..m
  BY SnapshotAssumption, LenProperties, ElementOfSeq
<1>2. AuthoredNodes(f) \in [1..m -> [id : 1..n, facing : Facings]]
  BY <1>1 DEF AuthoredNodes
<1>3. AuthoredNodes(f) \in Seq([id : 1..n, facing : Facings])
  <2> DEFINE N == [id : 1..n, facing : Facings]
  <2> HIDE DEF N
  <2>1. AuthoredNodes(f) \in [1..m -> N]
    BY <1>2 DEF N
  <2>2. AuthoredNodes(f) \in Seq(N)
    BY <1>1, <2>1
  <2> QED BY <2>2 DEF N
<1>4. \A i, j \in 1..m : Authored[i] = Authored[j] => i = j
  <2>1. Authored \in Surjection(1..m, ToSet(Authored))
    <3>1. Authored \in [1..m -> 1..m]
      BY SnapshotAssumption, LenProperties
    <3>2. Authored \in [1..m -> ToSet(Authored)]
      BY <1>1, <3>1 DEF ToSet
    <3>3. \A t \in ToSet(Authored) : \E i \in 1..m : Authored[i] = t
      BY <1>1 DEF ToSet
    <3> QED BY <3>2, <3>3 DEF Surjection
  <2>2. IsFiniteSet(1..m) /\ Cardinality(1..m) = m
    <3>1. 1 \in Int /\ m \in Int
      BY <1>1
    <3>2. IsFiniteSet(1..m) /\ Cardinality(1..m) = IF 1 > m THEN 0 ELSE m - 1 + 1
      BY <3>1, FS_Interval
    <3> HIDE DEF m
    <3>3. m \in Nat
      BY <1>1
    <3> QED BY <3>2, <3>3
  <2>3. Authored \in Injection(1..m, ToSet(Authored))
    BY <2>1, <2>2, SnapshotAssumption, FS_Surjection
  <2> QED BY <2>3 DEF Injection, IsInjective
<1> QED BY <1>1, <1>3, <1>4 DEF AuthoredNodes

LEMMA InitInv == Init => Inv
<1> SUFFICES ASSUME Init PROVE Inv
  OBVIOUS
<1>1. StacksInv
  BY EmptySeq DEF Init, StacksInv, Stacks!EmptyStacks
<1>2. CallsInv
  <2>1. /\ preQueue \in Seq({"undo", "redo"})
        /\ updateQueue \in Seq(Edit \cup KnownEffect)
    BY EmptySeq, Zenon DEF Init
  <2> QED BY <2>1 DEF Init, CallsInv
<1>3. FrameInv
  <2>1. Len(preQueue) = 0
    BY DEF Init
  <2> QED BY <2>1, SnapshotAssumption DEF Init, FrameInv
<1>4. NodesInv
  <2>1. DefaultFacing \in Facings /\ Len(Authored) \in Nat
    BY SnapshotAssumption DEF DefaultFacing
  <2>2. highestId = Len(Authored) /\ snapshot = AuthoredNodes(DefaultFacing)
    BY DEF Init
  <2>3. snapshot \in Seq(KnownNode) /\ IdsAreUnique
    BY <2>1, <2>2, AuthoredFacts DEF KnownNode, IdsAreUnique
  <2> QED BY <2>1, <2>2, <2>3 DEF NodesInv
<1>5. Counted
  <2>1. Clicks(updateQueue) = {}
    BY DEF Init, Clicks
  <2>2. Cardinality(Clicks(updateQueue)) = 0
    BY <2>1, FS_EmptySet
  <2>3. Len(Authored) \in Nat /\ MaxEdits \in Nat
    BY SnapshotAssumption
  <2> QED BY <2>2, <2>3 DEF Init, Counted
<1>6. FlagsTyped
  BY DEF Init, FlagsTyped
<1> QED BY <1>1, <1>2, <1>3, <1>4, <1>5, <1>6 DEF Inv

-----------------------------------------------------------------------------
(***************************************************************************)
(* The stacks.                                                             *)
(***************************************************************************)
\* A move takes the top of one stack, whatever the stacks are made of.
LEMMA MovesKeep ==
  ASSUME NEW S, undoCommands \in Seq(S), redoCommands \in Seq(S),
         Stacks!MoveToRedo \/ Stacks!MoveToUndo
  PROVE  undoCommands' \in Seq(S) /\ redoCommands' \in Seq(S)
<1>1. CASE Stacks!MoveToRedo
  <2>1. /\ undoCommands # <<>> /\ undoCommands' = Front(undoCommands)
        /\ redoCommands' = Append(redoCommands, Last(undoCommands))
    BY <1>1 DEF Stacks!MoveToRedo, Stacks!Front, Stacks!Last, Front, Last
  <2>2. Last(undoCommands) \in S /\ Front(undoCommands) \in Seq(S)
    BY <2>1, PopFacts
  <2> QED BY <2>1, <2>2
<1>2. CASE Stacks!MoveToUndo
  <2>1. /\ redoCommands # <<>> /\ redoCommands' = Front(redoCommands)
        /\ undoCommands' = Append(undoCommands, Last(redoCommands))
    BY <1>2 DEF Stacks!MoveToUndo, Stacks!Front, Stacks!Last, Front, Last
  <2>2. Last(redoCommands) \in S /\ Front(redoCommands) \in Seq(S)
    BY <2>1, PopFacts
  <2> QED BY <2>1, <2>2
<1> QED BY <1>1, <1>2

\* Undo and Redo under the lock: the stacks stay in their scene, and what is taken
\* from them is known.  Without a scene there is nothing to take.
LEMMA TakeKeeps ==
  ASSUME StacksInv, CallsInv, NEW t \in Threads, TakeUndo(t) \/ TakeRedo(t),
         UNCHANGED <<alive, scene, highestId, phase>>
  PROVE  StacksInv' /\ taken' \in [Threads -> KnownEffect \cup {Nothing}]
<1>1. Stacks!MoveToRedo \/ Stacks!MoveToUndo
  BY DEF TakeUndo, TakeRedo
<1>2. undoCommands' \in Seq(Own) /\ redoCommands' \in Seq(Own)
  BY <1>1, MovesKeep DEF StacksInv
<1>3. Own' = Own
  BY DEF Own, Known
<1>4. undoCommands # <<>> \/ redoCommands # <<>>
  BY <1>1 DEF Stacks!MoveToRedo, Stacks!MoveToUndo
<1>5. StacksInv'
  BY <1>2, <1>3, <1>4 DEF StacksInv
<1>6. taken' \in [Threads -> KnownEffect \cup {Nothing}]
  <2>1. PICK call \in {"undo", "redo"}, c \in Own : taken' = [taken EXCEPT ![t] = [call |-> call, cmd |-> c]]
    <3>1. CASE TakeUndo(t)
      <4>1. undoCommands # <<>>
        BY <3>1 DEF TakeUndo, Stacks!MoveToRedo
      <4>2. Last(undoCommands) \in Own
        BY <4>1, PopFacts DEF StacksInv
      <4> QED BY <3>1, <4>2 DEF TakeUndo
    <3>2. CASE TakeRedo(t)
      <4>1. redoCommands # <<>>
        BY <3>2 DEF TakeRedo, Stacks!MoveToUndo
      <4>2. Last(redoCommands) \in Own
        BY <4>1, PopFacts DEF StacksInv
      <4> QED BY <3>2, <4>2 DEF TakeRedo
    <3> QED BY <3>1, <3>2
  <2>2. [call |-> call, cmd |-> c] \in KnownEffect
    BY DEF Own, KnownEffect
  <2> QED BY <2>1, <2>2 DEF CallsInv
<1> QED BY <1>5, <1>6

\* What is known stays known.
LEMMA KnowledgeGrows ==
  ASSUME highestId \in Nat, highestId' \in Nat, highestId <= highestId',
         scene \in Nat, scene' \in Nat, scene <= scene'
  PROVE  /\ Known \subseteq Known' /\ KnownEffect \subseteq KnownEffect'
         /\ KnownNode \subseteq KnownNode'
<1>1. 1..highestId \subseteq 1..highestId' /\ 1..scene \subseteq 1..scene'
  OBVIOUS
<1>2. Known \subseteq Known'
  BY <1>1 DEF Known
<1>3. KnownEffect \subseteq KnownEffect'
  BY <1>2 DEF KnownEffect
<1>4. KnownNode \subseteq KnownNode'
  BY <1>1 DEF KnownNode
<1> QED BY <1>2, <1>3, <1>4

\* A command made in the living scene of what is known goes onto the stacks.
LEMMA PushKeeps ==
  ASSUME StacksInv, alive, UNCHANGED <<alive, scene>>, scene \in Nat \ {0},
         highestId \in Nat, highestId' \in Nat, highestId <= highestId',
         NEW c \in Known', c.scene = scene, Stacks!Push(c)
  PROVE  StacksInv'
<1>1. Own \subseteq Own'
  BY KnowledgeGrows DEF Own
<1>2. undoCommands \in Seq(Own')
  BY <1>1, SeqMonotonic DEF StacksInv
<1>3. c \in Own'
  BY DEF Own
<1>4. undoCommands' = Append(undoCommands, c) /\ redoCommands' = <<>>
  BY DEF Stacks!Push
<1>5. undoCommands' \in Seq(Own') /\ redoCommands' \in Seq(Own')
  BY <1>2, <1>3, <1>4, EmptySeq
<1> QED BY <1>5 DEF StacksInv

-----------------------------------------------------------------------------
(***************************************************************************)
(* The nodes.                                                              *)
(***************************************************************************)
LEMMA AppendNode ==
  ASSUME NodesInv, highestId' \in Nat, highestId <= highestId',
         NEW n \in KnownNode', Families = {"live"} => n.id \notin IdsOf(snapshot),
         snapshot' = Append(snapshot, n)
  PROVE  NodesInv'
<1>1. /\ Len(snapshot) \in Nat /\ DOMAIN snapshot = 1..Len(snapshot)
      /\ DOMAIN snapshot' = 1..Len(snapshot) + 1 /\ snapshot'[Len(snapshot) + 1] = n
      /\ \A i \in 1..Len(snapshot) : snapshot'[i] = snapshot[i]
  BY DEF NodesInv
<1>2. KnownNode \subseteq KnownNode'
  <2>1. 1..highestId \subseteq 1..highestId'
    BY DEF NodesInv
  <2> QED BY <2>1 DEF KnownNode
<1>3. snapshot' \in Seq(KnownNode')
  <2>1. snapshot \in Seq(KnownNode')
    BY <1>2, SeqMonotonic DEF NodesInv
  <2> QED BY <2>1
<1>4. Families = {"live"} => IdsAreUnique'
  BY <1>1 DEF NodesInv, IdsAreUnique, IdsOf
<1>5. Len(Authored) \in Nat
  BY SnapshotAssumption
<1> QED BY <1>3, <1>4, <1>5 DEF NodesInv

LEMMA RemoveKeeps ==
  ASSUME NodesInv, UNCHANGED highestId, NEW at \in DOMAIN snapshot,
         snapshot' = RemoveAt(snapshot, at)
  PROVE  NodesInv'
<1>1. Len(snapshot) \in Nat /\ DOMAIN snapshot = 1..Len(snapshot)
  BY LenProperties DEF NodesInv
<1>2. /\ snapshot' \in Seq(KnownNode) /\ Len(snapshot') = Len(snapshot) - 1
      /\ \A i \in 1..Len(snapshot) - 1 :
           snapshot'[i] = IF i < at THEN snapshot[i] ELSE snapshot[i + 1]
  BY <1>1, RemoveOne DEF NodesInv
<1>3. DOMAIN snapshot' = 1..Len(snapshot) - 1
  BY <1>2, LenProperties
<1>4. KnownNode' = KnownNode
  BY DEF KnownNode
<1>5. Families = {"live"} => IdsAreUnique'
  <2> SUFFICES ASSUME Families = {"live"}, NEW i \in 1..Len(snapshot) - 1,
                      NEW j \in 1..Len(snapshot) - 1, snapshot'[i].id = snapshot'[j].id
               PROVE  i = j
    BY <1>3 DEF IdsAreUnique
  <2>1. PICK k \in DOMAIN snapshot : snapshot'[i] = snapshot[k] /\ k = IF i < at THEN i ELSE i + 1
    BY <1>1, <1>2
  <2>2. PICK l \in DOMAIN snapshot : snapshot'[j] = snapshot[l] /\ l = IF j < at THEN j ELSE j + 1
    BY <1>1, <1>2
  <2>3. k = l
    BY <2>1, <2>2 DEF NodesInv, IdsAreUnique
  <2> QED BY <1>1, <2>1, <2>2, <2>3
<1> QED BY <1>2, <1>4, <1>5 DEF NodesInv

\* Nodes that change their facing keep their ids.
LEMMA FacingKeeps ==
  ASSUME NodesInv, UNCHANGED highestId, Len(snapshot) \in Nat,
         snapshot' \in [1..Len(snapshot) -> KnownNode],
         \A i \in DOMAIN snapshot : snapshot'[i].id = snapshot[i].id
  PROVE  NodesInv'
<1>1. DOMAIN snapshot = 1..Len(snapshot) /\ DOMAIN snapshot' = 1..Len(snapshot)
  BY LenProperties DEF NodesInv
<1>2. snapshot' \in Seq(KnownNode)
  <2> DEFINE N == KnownNode
  <2> HIDE DEF N
  <2>1. snapshot' \in [1..Len(snapshot) -> N]
    BY DEF N
  <2>2. snapshot' \in Seq(N)
    BY <2>1
  <2> QED BY <2>2 DEF N
<1>3. KnownNode' = KnownNode
  BY DEF KnownNode
<1>4. Families = {"live"} => IdsAreUnique'
  BY <1>1 DEF NodesInv, IdsAreUnique
<1> QED BY <1>2, <1>3, <1>4 DEF NodesInv

-----------------------------------------------------------------------------
(***************************************************************************)
(* The calls of the update loop.                                           *)
(***************************************************************************)
LEMMA EditKeeps ==
  ASSUME StacksInv, NodesInv, FlagsTyped, alive, UNCHANGED <<alive, scene>>,
         scene \in Nat \ {0}, NEW edit \in Edit, RunEdit(edit)
  PROVE  /\ StacksInv' /\ NodesInv' /\ FlagsTyped'
         /\ highestId' \in Nat /\ highestId <= highestId' /\ highestId' <= highestId + 1
<1> DEFINE family == edit.family
<1>1. /\ family \in {"live", "classic"} /\ highestId \in Nat /\ UNCHANGED flags
      /\ \/ family \in FamiliesOf("add") /\ EditAdd(family)
         \/ family \in FamiliesOf("remove") /\ EditRemove(family)
         \/ family \in FamiliesOf("turn") /\ EditTurn(family)
  BY SnapshotAssumption DEF RunEdit, Edit, NodesInv
<1>2. FlagsTyped'
  BY <1>1 DEF FlagsTyped, flags
<1>3. /\ Len(snapshot) \in Nat /\ DOMAIN snapshot = 1..Len(snapshot)
      /\ \A i \in DOMAIN snapshot : snapshot[i].id \in 1..highestId /\ snapshot[i].facing \in Facings
  <2>1. \A i \in 1..Len(snapshot) : snapshot[i] \in KnownNode
    BY ElementOfSeq DEF NodesInv
  <2>2. Len(snapshot) \in Nat /\ DOMAIN snapshot = 1..Len(snapshot)
    BY LenProperties DEF NodesInv
  <2> QED BY <2>1, <2>2 DEF KnownNode
<1>4. ASSUME UNCHANGED <<snapshot, undoCommands, redoCommands, highestId>>
      PROVE  StacksInv' /\ NodesInv'
  <2>1. Own' = Own /\ KnownNode' = KnownNode
    BY <1>4 DEF Own, Known, KnownNode
  <2> QED BY <1>4, <2>1 DEF StacksInv, NodesInv, IdsAreUnique
<1>5. CASE family \in FamiliesOf("add") /\ EditAdd(family)
  <2>1. CASE /\ highestId' = highestId + 1
             /\ \E f \in Facings :
                  /\ snapshot' = Append(snapshot, [id |-> highestId', facing |-> f])
                  /\ Stacks!Push([kind |-> "add", family |-> family, id |-> highestId', scene |-> scene,
                                  before |-> f, after |-> f])
    <3>1. PICK f \in Facings :
            /\ snapshot' = Append(snapshot, [id |-> highestId', facing |-> f])
            /\ Stacks!Push([kind |-> "add", family |-> family, id |-> highestId', scene |-> scene,
                            before |-> f, after |-> f])
      BY <2>1
    <3>2. highestId' = highestId + 1
      BY <2>1
    <3>3. /\ highestId' \in Nat /\ highestId <= highestId' /\ highestId' \in 1..highestId'
          /\ scene \in 1..scene'
      BY <1>1, <3>2
    <3>4. NodesInv'
      <4>1. [id |-> highestId', facing |-> f] \in KnownNode'
        BY <3>3 DEF KnownNode
      <4>2. highestId' \notin IdsOf(snapshot)
        BY <1>1, <1>3, <3>2 DEF IdsOf
      <4> QED BY <3>1, <3>3, <4>1, <4>2, AppendNode
    <3>5. StacksInv'
      <4> DEFINE c == [kind |-> "add", family |-> family, id |-> highestId',
                       before |-> f, after |-> f, scene |-> scene]
      <4>1. c \in Known' /\ c.scene = scene
        BY <1>1, <1>5, <3>3 DEF Known
      <4>2. Stacks!Push(c)
        BY <3>1
      <4> HIDE DEF c
      <4> QED BY <1>1, <3>3, <4>1, <4>2, PushKeeps
    <3> QED BY <1>1, <1>2, <3>2, <3>4, <3>5
  <2>2. CASE UNCHANGED <<snapshot, undoCommands, redoCommands, highestId>>
    BY <1>1, <1>2, <1>4, <2>2
  <2> QED BY <1>5, <2>1, <2>2 DEF EditAdd
<1>6. ASSUME NEW i \in DOMAIN snapshot, NEW f \in Facings, NEW k \in {"remove", "turn"},
             family \in FamiliesOf(k), UNCHANGED highestId,
             Stacks!Push([kind |-> k, family |-> family, id |-> snapshot[i].id, scene |-> scene,
                          before |-> snapshot[i].facing, after |-> f])
      PROVE  StacksInv'
  <2> DEFINE c == [kind |-> k, family |-> family, id |-> snapshot[i].id, scene |-> scene,
                   before |-> snapshot[i].facing, after |-> f]
  <2>1. scene \in 1..scene'
    OBVIOUS
  <2>2. c \in Known' /\ c.scene = scene
    BY <1>1, <1>3, <1>6, <2>1 DEF Known
  <2>3. Stacks!Push(c)
    BY <1>6
  <2> HIDE DEF c
  <2>4. highestId' \in Nat /\ highestId <= highestId'
    BY <1>1, <1>6
  <2> QED BY <1>1, <2>2, <2>3, <2>4, PushKeeps
<1>7. CASE family \in FamiliesOf("remove") /\ EditRemove(family)
  <2>1. UNCHANGED highestId
    BY <1>7 DEF EditRemove
  <2>2. CASE \E i \in DOMAIN snapshot :
               /\ snapshot' = RemoveAt(snapshot, i)
               /\ Stacks!Push([kind |-> "remove", family |-> family, id |-> snapshot[i].id, scene |-> scene,
                               before |-> snapshot[i].facing, after |-> snapshot[i].facing])
    <3>1. PICK i \in DOMAIN snapshot :
               /\ snapshot' = RemoveAt(snapshot, i)
               /\ Stacks!Push([kind |-> "remove", family |-> family, id |-> snapshot[i].id, scene |-> scene,
                               before |-> snapshot[i].facing, after |-> snapshot[i].facing])
      BY <2>2
    <3>2. NodesInv'
      BY <2>1, <3>1, RemoveKeeps
    <3>3. StacksInv'
      BY <1>3, <1>6, <1>7, <2>1, <3>1
    <3> QED BY <1>1, <1>2, <2>1, <3>2, <3>3
  <2>3. CASE UNCHANGED <<snapshot, undoCommands, redoCommands>>
    BY <1>1, <1>2, <1>4, <2>1, <2>3
  <2> QED BY <1>7, <2>2, <2>3 DEF EditRemove
<1>8. CASE family \in FamiliesOf("turn") /\ EditTurn(family)
  <2>1. UNCHANGED highestId
    BY <1>8 DEF EditTurn
  <2>2. CASE \E i \in DOMAIN snapshot, f \in Facings :
               /\ snapshot' = [snapshot EXCEPT ![i].facing = f]
               /\ Stacks!Push([kind |-> "turn", family |-> family, id |-> snapshot[i].id, scene |-> scene,
                               before |-> snapshot[i].facing, after |-> f])
    <3>1. PICK i \in DOMAIN snapshot, f \in Facings :
               /\ snapshot' = [snapshot EXCEPT ![i].facing = f]
               /\ Stacks!Push([kind |-> "turn", family |-> family, id |-> snapshot[i].id, scene |-> scene,
                               before |-> snapshot[i].facing, after |-> f])
      BY <2>2
    <3>2. StacksInv'
      BY <1>6, <1>8, <2>1, <3>1
    <3>3. snapshot \in [1..Len(snapshot) -> KnownNode]
      BY LenProperties DEF NodesInv
    <3>4. [snapshot[i] EXCEPT !.facing = f] \in KnownNode /\ [snapshot[i] EXCEPT !.facing = f].id = snapshot[i].id
      BY <1>3, <3>3 DEF KnownNode
    <3>5. snapshot' \in [1..Len(snapshot) -> KnownNode]
      BY <1>3, <3>1, <3>3, <3>4
    <3>6. \A k \in DOMAIN snapshot : snapshot'[k].id = snapshot[k].id
      BY <1>3, <3>1, <3>3, <3>4
    <3>7. NodesInv'
      BY <1>3, <2>1, <3>5, <3>6, FacingKeeps
    <3> QED BY <1>1, <1>2, <2>1, <3>2, <3>7
  <2>3. CASE UNCHANGED <<snapshot, undoCommands, redoCommands>>
    BY <1>1, <1>2, <1>4, <2>1, <2>3
  <2> QED BY <1>8, <2>2, <2>3 DEF EditTurn
<1> QED BY <1>1, <1>5, <1>7, <1>8

LEMMA EffectKeeps ==
  ASSUME NodesInv, FlagsTyped, NEW call \in {"undo", "redo"}, NEW c \in Known, RunEffect(call, c)
  PROVE  NodesInv' /\ FlagsTyped' /\ UNCHANGED <<undoCommands, redoCommands, highestId>>
<1>1. UNCHANGED <<undoCommands, redoCommands, highestId>> /\ strays' \in BOOLEAN
  BY DEF RunEffect
<1>2. /\ c.kind \in {"add", "remove", "turn"} /\ (c.kind # "turn" => c.family \in Families)
      /\ c.id \in 1..highestId /\ c.before \in Facings /\ c.after \in Facings
  BY DEF Known, FamiliesOf
<1>3. \/ \E f \in {c.before, c.after} : (c.family \in Families /\ AddNode(c, f)) \/ TurnNode(c, f)
      \/ c.family \in Families /\ RemoveNode(c)
  BY <1>2 DEF RunEffect
<1>4. /\ Len(snapshot) \in Nat /\ DOMAIN snapshot = 1..Len(snapshot) /\ highestId \in Nat
      /\ \A i \in 1..Len(snapshot) : snapshot[i] \in KnownNode
      /\ {strays, wrong, refused} \subseteq BOOLEAN
  BY LenProperties, ElementOfSeq DEF NodesInv, FlagsTyped
<1>5. ASSUME UNCHANGED snapshot PROVE NodesInv'
  BY <1>1, <1>5 DEF NodesInv, KnownNode, IdsAreUnique
<1>6. ASSUME NEW f \in Facings, c.family \in Families, AddNode(c, f) PROVE NodesInv' /\ FlagsTyped'
  <2>1. FlagsTyped'
    BY <1>1, <1>4, <1>6 DEF AddNode, FlagsTyped
  <2>2. CASE c.family = "live" /\ c.id \in IdsOf(snapshot)
    BY <1>5, <1>6, <2>1, <2>2 DEF AddNode
  <2>3. CASE ~(c.family = "live" /\ c.id \in IdsOf(snapshot))
    <3>1. [id |-> c.id, facing |-> f] \in KnownNode'
      BY <1>1, <1>2 DEF KnownNode
    <3>2. Families = {"live"} => c.id \notin IdsOf(snapshot)
      BY <1>6, <2>3
    <3>3. snapshot' = Append(snapshot, [id |-> c.id, facing |-> f])
      BY <1>6, <2>3 DEF AddNode
    <3>4. NodesInv'
      BY <1>1, <1>4, <3>1, <3>2, <3>3, AppendNode
    <3> QED BY <2>1, <3>4
  <2> QED BY <2>2, <2>3
<1>7. ASSUME NEW f \in Facings, TurnNode(c, f) PROVE NodesInv' /\ FlagsTyped'
  <2>1. FlagsTyped'
    BY <1>1, <1>4, <1>7 DEF TurnNode, FlagsTyped
  <2>2. \A i \in 1..Len(snapshot) :
          /\ [snapshot[i] EXCEPT !.facing = f] \in KnownNode
          /\ [snapshot[i] EXCEPT !.facing = f].id = snapshot[i].id
    BY <1>4 DEF KnownNode
  <2>3. snapshot' \in [1..Len(snapshot) -> KnownNode]
    BY <1>4, <1>7, <2>2 DEF TurnNode
  <2>4. \A i \in DOMAIN snapshot : snapshot'[i].id = snapshot[i].id
    BY <1>4, <1>7, <2>2 DEF TurnNode
  <2>5. NodesInv'
    BY <1>1, <1>4, <2>3, <2>4, FacingKeeps
  <2> QED BY <2>1, <2>5
<1>8. CASE c.family \in Families /\ RemoveNode(c)
  <2>1. CASE c.family = "live"
    <3>1. RemoveById(c)
      BY <1>8, <2>1 DEF RemoveNode
    <3>2. FlagsTyped'
      <4>1. wrong' = wrong /\ (refused' = refused \/ refused' = TRUE)
        BY <3>1 DEF RemoveById
      <4> QED BY <1>1, <1>4, <4>1 DEF FlagsTyped
    <3>3. CASE UNCHANGED snapshot
      BY <1>1, <1>5, <3>2, <3>3
    <3>4. CASE \E i \in DOMAIN snapshot : snapshot' = RemoveAt(snapshot, i)
      BY <1>1, <3>2, <3>4, RemoveKeeps
    <3> QED BY <3>1, <3>3, <3>4 DEF RemoveById
  <2>2. CASE c.family # "live"
    <3>1. RemoveLastNode(c)
      BY <1>8, <2>2 DEF RemoveNode
    <3>2. FlagsTyped'
      <4>1. wrong' \in BOOLEAN
        BY <3>1, Zenon DEF RemoveLastNode
      <4>2. refused' = refused
        BY <3>1 DEF RemoveLastNode
      <4> QED BY <1>1, <1>4, <4>1, <4>2 DEF FlagsTyped
    <3>3. CASE snapshot = <<>>
      BY <1>1, <1>5, <3>1, <3>2, <3>3 DEF RemoveLastNode
    <3>4. CASE snapshot # <<>>
      <4>1. snapshot' \in Seq(KnownNode)
        BY <3>1, <3>4, PopFacts DEF RemoveLastNode, NodesInv
      <4>2. Families # {"live"}
        BY <1>8, <2>2
      <4> QED BY <1>1, <3>2, <4>1, <4>2 DEF NodesInv, KnownNode
    <3> QED BY <3>3, <3>4
  <2> QED BY <2>1, <2>2
<1> QED BY <1>1, <1>2, <1>3, <1>6, <1>7, <1>8

-----------------------------------------------------------------------------
(***************************************************************************)
(* Each step keeps the invariant.                                          *)
(***************************************************************************)
\* What a step does not touch.
LEMMA SameStacks ==
  ASSUME StacksInv, UNCHANGED <<manager, alive, scene, highestId>>,
         phase' = "cleanup" => phase = "cleanup" \/ alive, phase = "cleanup" => phase' = "cleanup"
  PROVE  StacksInv'
  BY DEF StacksInv, Own, Known, manager

LEMMA SameNodes == NodesInv /\ UNCHANGED <<snapshot, highestId>> => NodesInv'
  BY DEF NodesInv, KnownNode, IdsAreUnique

LEMMA SameFlags == FlagsTyped /\ UNCHANGED flags => FlagsTyped'
  BY DEF FlagsTyped, flags

\* The numbers the steps compare.
LEMMA Numbers ==
  ASSUME Inv
  PROVE  /\ Len(Authored) \in Nat /\ MaxEdits \in Nat /\ highestId \in Nat /\ edits \in Nat
         /\ scene \in Nat \ {0} /\ remaining \in Nat
         /\ Len(preQueue) \in Nat /\ Len(updateQueue) \in Nat
         /\ IsFiniteSet(Clicks(updateQueue)) /\ Cardinality(Clicks(updateQueue)) \in Nat
<1>1. Len(Authored) \in Nat /\ MaxEdits \in Nat
  BY SnapshotAssumption
<1>2. preQueue \in Seq({"undo", "redo"}) /\ updateQueue \in Seq(Edit \cup KnownEffect)
  BY DEF Inv, CallsInv
<1>3. IsFiniteSet(Clicks(updateQueue)) /\ Cardinality(Clicks(updateQueue)) \in Nat
  BY <1>2, ClicksFinite
<1>4. Len(preQueue) \in Nat /\ Len(updateQueue) \in Nat
  BY <1>2
<1> QED BY <1>1, <1>3, <1>4 DEF Inv, NodesInv, Counted, FrameInv

\* What is put on the queues from outside the game thread.
LEMMA UserKeeps == Inv /\ (User \/ \E t \in Threads : QueueEffect(t)) => Inv'
<1> SUFFICES ASSUME Inv, User \/ \E t \in Threads : QueueEffect(t) PROVE Inv'
  OBVIOUS
<1>0. StacksInv /\ CallsInv /\ FrameInv /\ NodesInv /\ Counted /\ FlagsTyped
  BY DEF Inv
<1>1. ASSUME NEW kind \in Kinds, NEW family \in FamiliesOf(kind), ClickEdit(kind, family) PROVE Inv'
  <2> DEFINE e == [call |-> "edit", kind |-> kind, family |-> family]
  <2>1. /\ updateQueue' = Append(updateQueue, e) /\ edits' = edits + 1 /\ edits < MaxEdits
        /\ UNCHANGED <<manager, taken, preQueue, frame, place, flags>>
    BY <1>1 DEF ClickEdit
  <2>2. e \in Edit \cup KnownEffect
    BY SnapshotAssumption DEF Edit, FamiliesOf
  <2> HIDE DEF e
  <2>3. /\ updateQueue' \in Seq(Edit \cup KnownEffect) /\ Len(updateQueue') = Len(updateQueue) + 1
        /\ Cardinality(Clicks(updateQueue')) <= Cardinality(Clicks(updateQueue)) + 1
    BY <1>0, <2>1, <2>2, ClicksAtTheEnd DEF CallsInv
  <2>4. Cardinality(Clicks(updateQueue')) \in Nat
    BY <2>3, ClicksFinite
  <2>5. Counted'
    <3>1. Clicks(updateQueue)' = Clicks(updateQueue')
      BY DEF Clicks
    <3>2. highestId' = highestId
      BY <2>1 DEF place
    <3> QED BY <1>0, <2>1, <2>3, <2>4, <3>1, <3>2, Numbers DEF Counted
  <2>6. StacksInv' /\ NodesInv' /\ FlagsTyped'
    BY <1>0, <2>1, SameStacks, SameNodes, SameFlags DEF place, frame
  <2>7. CallsInv'
    BY <1>0, <2>1, <2>3 DEF CallsInv, place, KnownEffect, Known
  <2>8. FrameInv'
    BY <1>0, <2>1, <2>3, Numbers DEF FrameInv, frame, place
  <2> QED BY <2>5, <2>6, <2>7, <2>8 DEF Inv
<1>2. ASSUME NEW what \in {"undo", "redo"}, PressHotkey(what) PROVE Inv'
  <2>1. /\ preQueue' = Append(preQueue, what)
        /\ UNCHANGED <<manager, taken, updateQueue, frame, place, edits, flags>>
    BY <1>2 DEF PressHotkey
  <2>2. preQueue' \in Seq({"undo", "redo"}) /\ Len(preQueue') = Len(preQueue) + 1
    BY <1>0, <2>1 DEF CallsInv
  <2>3. StacksInv' /\ NodesInv' /\ FlagsTyped'
    BY <1>0, <2>1, SameStacks, SameNodes, SameFlags DEF place, frame
  <2>4. CallsInv'
    BY <1>0, <2>1, <2>2 DEF CallsInv, place, KnownEffect, Known
  <2>5. FrameInv'
    BY <1>0, <2>1, <2>2, Numbers DEF FrameInv, frame, place
  <2>6. Counted'
    BY <1>0, <2>1 DEF Counted, place, Clicks
  <2> QED BY <2>3, <2>4, <2>5, <2>6 DEF Inv
<1>3. CASE ClickUndoOrRedo
  <2>1. /\ TakeUndo("ui") \/ TakeRedo("ui")
        /\ UNCHANGED <<preQueue, updateQueue, frame, place, edits, flags>>
    BY <1>3 DEF ClickUndoOrRedo
  <2>2. StacksInv' /\ taken' \in [Threads -> KnownEffect \cup {Nothing}]
    BY <1>0, <2>1, TakeKeeps DEF Threads, place, frame
  <2>3. NodesInv' /\ FlagsTyped'
    BY <1>0, <2>1, SameNodes, SameFlags DEF place
  <2>4. CallsInv'
    BY <1>0, <2>1, <2>2 DEF CallsInv, place, KnownEffect, Known
  <2>5. FrameInv'
    BY <1>0, <2>1 DEF FrameInv, frame, place
  <2>6. Counted'
    BY <1>0, <2>1 DEF Counted, place, Clicks
  <2> QED BY <2>2, <2>3, <2>4, <2>5, <2>6 DEF Inv
<1>4. ASSUME NEW t \in Threads, QueueEffect(t) PROVE Inv'
  <2>1. /\ taken[t] # Nothing /\ updateQueue' = Append(updateQueue, taken[t])
        /\ taken' = [taken EXCEPT ![t] = Nothing]
        /\ UNCHANGED <<manager, preQueue, frame, place, edits, flags>>
    BY <1>4 DEF QueueEffect
  <2>2. taken[t] \in KnownEffect /\ taken[t].call # "edit"
    <3>1. taken[t] \in KnownEffect
      BY <1>0, <2>1 DEF CallsInv
    <3> QED BY <3>1 DEF KnownEffect
  <2>3. /\ updateQueue' \in Seq(Edit \cup KnownEffect) /\ Len(updateQueue') = Len(updateQueue) + 1
        /\ Clicks(updateQueue') = Clicks(updateQueue)
    BY <1>0, <2>1, <2>2, ClicksAtTheEnd DEF CallsInv
  <2>4. StacksInv' /\ NodesInv' /\ FlagsTyped'
    BY <1>0, <2>1, SameStacks, SameNodes, SameFlags DEF place, frame
  <2>5. CallsInv'
    BY <1>0, <2>1, <2>3 DEF CallsInv, place, KnownEffect, Known
  <2>6. FrameInv'
    BY <1>0, <2>1, <2>3, Numbers DEF FrameInv, frame, place
  <2>7. Counted'
    <3>1. Clicks(updateQueue)' = Clicks(updateQueue)
      BY <2>3 DEF Clicks
    <3> QED BY <1>0, <2>1, <3>1 DEF Counted, place
  <2> QED BY <2>4, <2>5, <2>6, <2>7 DEF Inv
<1> QED BY <1>1, <1>2, <1>3, <1>4 DEF User

\* A drain runs the first call of its queue.
LEMMA HotkeyKeeps == Inv /\ RunHotkey => Inv'
<1> SUFFICES ASSUME Inv, RunHotkey PROVE Inv'
  OBVIOUS
<1>0. StacksInv /\ CallsInv /\ FrameInv /\ NodesInv /\ Counted /\ FlagsTyped
  BY DEF Inv
<1>1. /\ phase = "pre" /\ remaining > 0 /\ preQueue' = Tail(preQueue) /\ remaining' = remaining - 1
      /\ UNCHANGED <<updateQueue, phase, place, edits, flags>>
  BY DEF RunHotkey
<1>2. TakeUndo("game") \/ TakeRedo("game") \/ UNCHANGED <<undoCommands, redoCommands, taken>>
  BY DEF RunHotkey
<1>3. preQueue # <<>> /\ remaining \in Nat /\ remaining <= Len(preQueue) /\ Len(preQueue) \in Nat
  BY <1>0, <1>1, Numbers DEF FrameInv
<1>4. preQueue' \in Seq({"undo", "redo"}) /\ Len(preQueue') = Len(preQueue) - 1
  BY <1>0, <1>1, <1>3, HeadTailProperties DEF CallsInv
<1>5. StacksInv' /\ taken' \in [Threads -> KnownEffect \cup {Nothing}]
  <2>1. CASE TakeUndo("game") \/ TakeRedo("game")
    BY <1>0, <1>1, <2>1, TakeKeeps DEF Threads, place
  <2>2. CASE UNCHANGED <<undoCommands, redoCommands, taken>>
    <3>1. StacksInv'
      BY <1>0, <1>1, <2>2, SameStacks DEF place, manager
    <3> QED BY <1>0, <2>2, <3>1 DEF CallsInv
  <2> QED BY <1>2, <2>1, <2>2
<1>6. NodesInv' /\ FlagsTyped'
  BY <1>0, <1>1, SameNodes, SameFlags DEF place
<1>7. CallsInv'
  BY <1>0, <1>1, <1>4, <1>5 DEF CallsInv, place, KnownEffect, Known
<1>8. FrameInv'
  BY <1>0, <1>1, <1>3, <1>4 DEF FrameInv, place
<1>9. Counted'
  BY <1>0, <1>1 DEF Counted, place, Clicks
<1> QED BY <1>5, <1>6, <1>7, <1>8, <1>9 DEF Inv

LEMMA UpdateKeeps == Inv /\ RunUpdateCall => Inv'
<1> SUFFICES ASSUME Inv, RunUpdateCall PROVE Inv'
  OBVIOUS
<1>0. StacksInv /\ CallsInv /\ FrameInv /\ NodesInv /\ Counted /\ FlagsTyped
  BY DEF Inv
<1> DEFINE next == Head(updateQueue)
<1>1. /\ phase = "update" /\ remaining > 0 /\ updateQueue' = Tail(updateQueue)
      /\ remaining' = remaining - 1
      /\ UNCHANGED <<taken, preQueue, phase, alive, scene, edits>>
      /\ IF next.call = "edit" THEN RunEdit(next) ELSE RunEffect(next.call, next.cmd)
  BY DEF RunUpdateCall
<1>2. updateQueue # <<>> /\ alive /\ remaining <= Len(updateQueue)
  BY <1>0, <1>1, Numbers DEF FrameInv
<1>3. /\ next \in Edit \cup KnownEffect /\ updateQueue' \in Seq(Edit \cup KnownEffect)
      /\ Len(updateQueue') = Len(updateQueue) - 1
      /\ Cardinality(Clicks(Tail(updateQueue))) \in Nat
      /\ Cardinality(Clicks(Tail(updateQueue))) <= Cardinality(Clicks(updateQueue))
      /\ next.call = "edit" =>
           Cardinality(Clicks(Tail(updateQueue))) + 1 <= Cardinality(Clicks(updateQueue))
  BY <1>0, <1>1, <1>2, ClicksAtTheFront DEF CallsInv
<1>4. Clicks(updateQueue)' = Clicks(Tail(updateQueue))
  BY <1>1 DEF Clicks
<1> HIDE DEF next
<1>5. /\ StacksInv' /\ NodesInv' /\ FlagsTyped' /\ Counted'
      /\ highestId' \in Nat /\ highestId <= highestId'
  <2>1. CASE next.call = "edit"
    <3>1. next \in Edit
      BY <1>3, <2>1 DEF KnownEffect
    <3>2. /\ StacksInv' /\ NodesInv' /\ FlagsTyped'
          /\ highestId' \in Nat /\ highestId <= highestId' /\ highestId' <= highestId + 1
      BY <1>0, <1>1, <1>2, <2>1, <3>1, EditKeeps, Numbers
    <3>3. Counted'
      <4>1. /\ Cardinality(Clicks(updateQueue)') \in Nat
            /\ Cardinality(Clicks(updateQueue)') + 1 <= Cardinality(Clicks(updateQueue))
            /\ edits' = edits
        BY <1>1, <1>3, <1>4, <2>1
      <4> QED BY <1>0, <3>2, <4>1, Numbers DEF Counted
    <3> QED BY <3>2, <3>3
  <2>2. CASE next.call # "edit"
    <3>1. next \in KnownEffect
      BY <1>3, <2>2 DEF Edit
    <3>2. next.call \in {"undo", "redo"} /\ next.cmd \in Known
      BY <3>1 DEF KnownEffect
    <3>3. NodesInv' /\ FlagsTyped' /\ UNCHANGED <<undoCommands, redoCommands, highestId>>
      BY <1>0, <1>1, <2>2, <3>2, EffectKeeps
    <3>4. StacksInv'
      BY <1>0, <1>1, <3>3, SameStacks DEF manager
    <3>5. Counted'
      BY <1>0, <1>1, <1>3, <1>4, <3>3, Numbers DEF Counted
    <3>6. highestId' \in Nat /\ highestId <= highestId'
      BY <3>3, Numbers
    <3> QED BY <3>3, <3>4, <3>5, <3>6
  <2> QED BY <2>1, <2>2
<1>6. CallsInv'
  <2>1. KnownEffect \subseteq KnownEffect'
    BY <1>1, <1>5, KnowledgeGrows, Numbers
  <2>2. Edit' = Edit
    BY DEF Edit
  <2>3. updateQueue' \in Seq((Edit \cup KnownEffect)')
    BY <1>3, <2>1, <2>2, SeqMonotonic
  <2> QED BY <1>0, <1>1, <2>1, <2>3 DEF CallsInv
<1>7. FrameInv'
  BY <1>0, <1>1, <1>2, <1>3, Numbers DEF FrameInv
<1> QED BY <1>5, <1>6, <1>7 DEF Inv

\* The rest of the frame.  A scene is torn down with its history on the stacks, and
\* the next one is loaded after the clear.
LEMMA FrameKeeps ==
  Inv /\ (BeginUpdate \/ EndUpdate \/ NextFrame \/ Teardown \/ ClearOnCleanup \/ LoadScene) => Inv'
<1> SUFFICES ASSUME Inv, BeginUpdate \/ EndUpdate \/ NextFrame \/ Teardown \/ ClearOnCleanup \/ LoadScene
             PROVE  Inv'
  OBVIOUS
<1>0. StacksInv /\ CallsInv /\ FrameInv /\ NodesInv /\ Counted /\ FlagsTyped
  BY DEF Inv
<1>1. UNCHANGED <<taken, preQueue, updateQueue, highestId, edits, flags>>
  BY DEF BeginUpdate, EndUpdate, NextFrame, Teardown, ClearOnCleanup, LoadScene, place
<1>2. FlagsTyped'
  BY <1>0, <1>1, SameFlags
<1>3. Counted'
  BY <1>0, <1>1 DEF Counted, Clicks
<1>4. CASE BeginUpdate \/ EndUpdate \/ NextFrame
  <2>1. UNCHANGED <<manager, place>> /\ phase # "cleanup" /\ phase' # "cleanup"
    <3>1. CASE BeginUpdate
      BY <3>1 DEF BeginUpdate
    <3>2. CASE EndUpdate
      BY <3>2 DEF EndUpdate
    <3>3. CASE NextFrame
      BY <3>3 DEF NextFrame
    <3> QED BY <1>4, <3>1, <3>2, <3>3
  <2>2. StacksInv' /\ NodesInv'
    BY <1>0, <2>1, SameStacks, SameNodes DEF place
  <2>3. CallsInv'
    BY <1>0, <1>1, <2>1 DEF CallsInv, place, KnownEffect, Known
  <2>4. FrameInv'
    <3>1. CASE BeginUpdate
      BY <1>0, <1>1, <3>1, Numbers DEF FrameInv, BeginUpdate, place
    <3>2. CASE EndUpdate
      BY <1>0, <1>1, <3>2, Numbers DEF FrameInv, EndUpdate, place
    <3>3. CASE NextFrame
      BY <1>0, <1>1, <3>3, Numbers DEF FrameInv, NextFrame, place
    <3> QED BY <1>4, <3>1, <3>2, <3>3
  <2> QED BY <1>2, <1>3, <2>2, <2>3, <2>4 DEF Inv
<1>5. CASE Teardown
  <2>1. /\ phase = "end" /\ alive /\ scene < MaxScenes /\ alive' = FALSE /\ snapshot' = <<>>
        /\ phase' = "cleanup" /\ UNCHANGED <<manager, remaining, scene, highestId>>
    BY <1>5 DEF Teardown
  <2>2. StacksInv'
    <3>1. Own \subseteq Own'
      BY <2>1 DEF Own, Known
    <3>2. undoCommands \in Seq(Own') /\ redoCommands \in Seq(Own')
      BY <1>0, <3>1, SeqMonotonic DEF StacksInv
    <3> QED BY <2>1, <3>2 DEF StacksInv, manager
  <2>3. NodesInv'
    <3>1. snapshot' \in Seq(KnownNode')
      BY <2>1, EmptySeq
    <3>2. IdsAreUnique'
      BY <2>1 DEF IdsAreUnique
    <3> QED BY <1>0, <2>1, <3>1, <3>2 DEF NodesInv
  <2>4. CallsInv' /\ FrameInv'
    BY <1>0, <1>1, <2>1 DEF CallsInv, FrameInv, KnownEffect, Known
  <2> QED BY <1>2, <1>3, <2>2, <2>3, <2>4 DEF Inv
<1>6. CASE ClearOnCleanup
  <2>1. /\ phase = "cleanup" /\ undoCommands' = <<>> /\ redoCommands' = <<>>
        /\ phase' = "pre" /\ remaining' = Len(preQueue) /\ UNCHANGED place
    BY <1>6 DEF ClearOnCleanup, Stacks!DropAll
  <2>2. StacksInv'
    BY <2>1, EmptySeq DEF StacksInv
  <2>3. NodesInv'
    BY <1>0, <2>1, SameNodes DEF place
  <2>4. CallsInv'
    BY <1>0, <1>1, <2>1 DEF CallsInv, place, KnownEffect, Known
  <2>5. FrameInv'
    BY <1>0, <1>1, <2>1, Numbers DEF FrameInv, place
  <2> QED BY <1>2, <1>3, <2>2, <2>3, <2>4, <2>5 DEF Inv
<1>7. CASE LoadScene
  <2>1. /\ phase = "end" /\ ~alive /\ alive' = TRUE /\ scene' = scene + 1
        /\ snapshot' = AuthoredNodes(DefaultFacing)
        /\ phase' = "pre" /\ remaining' = Len(preQueue) /\ UNCHANGED <<manager, highestId>>
    BY <1>7 DEF LoadScene
  <2>2. undoCommands' = <<>> /\ redoCommands' = <<>>
    BY <1>0, <2>1 DEF StacksInv, manager
  <2>3. StacksInv'
    BY <2>1, <2>2, EmptySeq DEF StacksInv
  <2>4. NodesInv'
    <3>1. DefaultFacing \in Facings /\ Len(Authored) <= highestId /\ highestId \in Nat
      BY <1>0, SnapshotAssumption DEF DefaultFacing, NodesInv
    <3>2. snapshot' \in Seq(KnownNode') /\ IdsAreUnique'
      BY <2>1, <3>1, AuthoredFacts DEF KnownNode, IdsAreUnique
    <3> QED BY <2>1, <3>1, <3>2 DEF NodesInv
  <2>5. CallsInv'
    <3>1. KnownEffect \subseteq KnownEffect'
      BY <2>1, KnowledgeGrows, Numbers
    <3>2. Edit' = Edit
      BY DEF Edit
    <3>3. updateQueue' \in Seq((Edit \cup KnownEffect)')
      BY <1>0, <1>1, <3>1, <3>2, SeqMonotonic DEF CallsInv
    <3> QED BY <1>0, <1>1, <3>1, <3>3 DEF CallsInv
  <2>6. FrameInv'
    BY <1>0, <1>1, <2>1, Numbers, SnapshotAssumption DEF FrameInv
  <2> QED BY <1>2, <1>3, <2>3, <2>4, <2>5, <2>6 DEF Inv
<1> QED BY <1>4, <1>5, <1>6, <1>7

LEMMA NextInv == Inv /\ [Next]_vars => Inv'
<1> SUFFICES ASSUME Inv, [Next]_vars PROVE Inv'
  OBVIOUS
<1>1. CASE User \/ \E t \in Threads : QueueEffect(t)
  BY <1>1, UserKeeps
<1>2. CASE Game
  BY <1>2, HotkeyKeeps, UpdateKeeps, FrameKeeps DEF Game
<1>3. CASE UNCHANGED vars
  <2>1. StacksInv' /\ NodesInv' /\ FlagsTyped'
    BY <1>3, SameStacks, SameNodes, SameFlags DEF vars, manager, flags, Inv
  <2>2. CallsInv' /\ FrameInv' /\ Counted'
    BY <1>3 DEF vars, Inv, CallsInv, FrameInv, Counted, Clicks, KnownEffect, Known
  <2> QED BY <2>1, <2>2 DEF Inv
<1> QED BY <1>1, <1>2, <1>3 DEF Next

-----------------------------------------------------------------------------
(***************************************************************************)
(* Folding the commands over the scene, as the property does.               *)
(***************************************************************************)
\* Induction over the numbers up to n, with the statement as a set.
LEMMA UpTo ==
  ASSUME NEW n \in Nat, NEW P \in SUBSET Nat, 0 \in P,
         \A k \in Nat : k < n /\ k \in P => k + 1 \in P
  PROVE  \A k \in 0..n : k \in P
<1> DEFINE bad == {k \in 0..n : k \notin P}
<1> SUFFICES ASSUME bad # {} PROVE FALSE
  OBVIOUS
<1>1. bad \subseteq Nat
  OBVIOUS
<1> HIDE DEF bad
<1>2. PICK x \in bad : \A y \in bad : <<y, x>> \notin OpToRel(<, Nat)
  BY <1>1, NatLessThanWellFounded, WFMin
<1>3. x \in 1..n /\ x \notin P
  BY DEF bad
<1>4. x - 1 \notin bad
  <2>1. x - 1 \in Nat /\ x \in Nat /\ x - 1 < x
    BY <1>3
  <2>2. <<x - 1, x>> \in OpToRel(<, Nat)
    BY <2>1 DEF OpToRel
  <2> QED BY <1>2, <2>2
<1>5. x - 1 \in P /\ x - 1 \in Nat /\ x - 1 < n /\ (x - 1) + 1 = x
  BY <1>3, <1>4 DEF bad
<1> QED BY <1>3, <1>5

\* FoldLeft as a function over the sets of positions.
Folds(g, b, U, n) ==
  g = [s \in SUBSET (1..n) |-> IF s = {} THEN b ELSE Redone(g[s \ {Max(s)}], U[Max(s)])]

LEMMA FoldChoice ==
  ASSUME NEW S, NEW U \in Seq(S), NEW b
  PROVE  FoldLeft(Redone, b, U) = (CHOOSE g : Folds(g, b, U, Len(U)))[1..Len(U)]
<1>1. DOMAIN U = 1..Len(U)
  BY LenProperties
<1> QED BY <1>1 DEF FoldLeft, MapThenFoldSet, Folds

LEMMA MaxFacts ==
  ASSUME NEW n \in Nat, NEW s \in SUBSET (1..n), s # {}
  PROVE  /\ Max(s) \in s /\ \A x \in s : x <= Max(s)
         /\ \A m \in s : (\A x \in s : x <= m) => m = Max(s)
<1>1. \E m \in s : \A x \in s : x <= m
  <2> DEFINE P == {n - m : m \in s}
  <2>1. P \subseteq Nat /\ P # {}
    <3>1. \A m \in s : m \in 1..n /\ n - m \in Nat
      OBVIOUS
    <3> QED BY <3>1
  <2> HIDE DEF P
  <2>2. PICK x \in P : \A y \in P : <<y, x>> \notin OpToRel(<, Nat)
    BY <2>1, NatLessThanWellFounded, WFMin
  <2>3. PICK m \in s : x = n - m
    BY DEF P
  <2>4. ASSUME NEW k \in s PROVE k <= m
    <3>1. n - k \in P /\ n - k \in Nat /\ x \in Nat /\ k \in Int /\ m \in Int
      BY <2>1 DEF P
    <3>2. ~(n - k < x)
      BY <2>2, <3>1 DEF OpToRel
    <3> QED BY <2>3, <3>1, <3>2
  <2> QED BY <2>4
<1>2. Max(s) \in s /\ \A x \in s : x <= Max(s)
  BY <1>1 DEF Max
<1>3. ASSUME NEW m \in s, \A x \in s : x <= m PROVE m = Max(s)
  <2>1. m \in 1..n /\ Max(s) \in 1..n
    BY <1>2
  <2>2. m \in Int /\ Max(s) \in Int /\ m <= Max(s) /\ Max(s) <= m
    BY <1>2, <1>3, <2>1
  <2> QED BY <2>2
<1> QED BY <1>2, <1>3

LEMMA FoldExists ==
  ASSUME NEW b, NEW U, NEW n \in Nat
  PROVE  \E g : Folds(g, b, U, n)
<1> DEFINE P == {k \in Nat : \E g : Folds(g, b, U, k)}
<1>1. 0 \in P
  <2> DEFINE g == [s \in SUBSET (1..0) |-> b]
  <2>1. \A s \in SUBSET (1..0) : s = {}
    OBVIOUS
  <2>2. Folds(g, b, U, 0)
    BY <2>1 DEF Folds
  <2> QED BY <2>2
<1>2. ASSUME NEW k \in Nat, k \in P PROVE k + 1 \in P
  <2>1. PICK g : Folds(g, b, U, k)
    BY <1>2
  <2> DEFINE h == [s \in SUBSET (1..k + 1) |->
                     IF k + 1 \in s THEN Redone(g[s \ {k + 1}], U[k + 1]) ELSE g[s]]
  <2>2. ASSUME NEW s \in SUBSET (1..k + 1)
        PROVE  h[s] = IF s = {} THEN b ELSE Redone(h[s \ {Max(s)}], U[Max(s)])
    <3>1. CASE k + 1 \in s
      <4>1. \A x \in s : x <= k + 1
        OBVIOUS
      <4>2. Max(s) = k + 1
        <5>1. k + 1 \in Nat /\ s \in SUBSET (1..k + 1) /\ s # {}
          BY <3>1
        <5>2. \A m \in s : (\A x \in s : x <= m) => m = Max(s)
          BY <5>1, MaxFacts
        <5> QED BY <3>1, <4>1, <5>2
      <4>3. s \ {k + 1} \in SUBSET (1..k) /\ s \ {k + 1} \in SUBSET (1..k + 1)
        OBVIOUS
      <4>4. h[s \ {k + 1}] = g[s \ {k + 1}]
        BY <4>3
      <4> QED BY <3>1, <4>2, <4>4
    <3>2. CASE k + 1 \notin s
      <4>1. s \in SUBSET (1..k)
        BY <3>2
      <4>2. g[s] = IF s = {} THEN b ELSE Redone(g[s \ {Max(s)}], U[Max(s)])
        BY <2>1, <4>1 DEF Folds
      <4>3. k + 1 \notin s \ {Max(s)} /\ s \ {Max(s)} \in SUBSET (1..k + 1)
        BY <3>2
      <4>4. h[s \ {Max(s)}] = g[s \ {Max(s)}] /\ h[s] = g[s]
        BY <3>2, <4>3
      <4> QED BY <4>2, <4>4
    <3> QED BY <3>1, <3>2
  <2>3. Folds(h, b, U, k + 1)
    <3>1. h = [s \in SUBSET (1..k + 1) |-> h[s]]
      OBVIOUS
    <3> HIDE DEF h
    <3> QED BY <2>2, <3>1 DEF Folds
  <2> QED BY <2>3
<1> HIDE DEF P
<1>3. \A k \in 0..n : k \in P
  BY <1>1, <1>2, UpTo DEF P
<1> QED BY <1>3 DEF P

\* The fold over a history is where a chain of its steps ends.
LEMMA FoldIsChain ==
  ASSUME NEW S, NEW U \in Seq(S), NEW b, NEW T, T[0] = b,
         \A i \in 1..Len(U) : T[i] = Redone(T[i - 1], U[i])
  PROVE  FoldLeft(Redone, b, U) = T[Len(U)]
<1> DEFINE n == Len(U)
           g == CHOOSE f : Folds(f, b, U, n)
<1>1. n \in Nat
  BY LenProperties
<1> HIDE DEF n
<1>2. Folds(g, b, U, n)
  BY <1>1, FoldExists
<1> HIDE DEF g
<1> DEFINE Q == {k \in Nat : k <= n => g[1..k] = T[k]}
<1>3. 0 \in Q
  <2>1. 1..0 = {} /\ 1..0 \in SUBSET (1..n)
    OBVIOUS
  <2> QED BY <1>2, <2>1 DEF Folds
<1>4. ASSUME NEW k \in Nat, k < n, k \in Q PROVE k + 1 \in Q
  <2>0. k + 1 \in Nat /\ k + 1 <= n
    BY <1>1, <1>4
  <2>1. 1..k + 1 \in SUBSET (1..n) /\ k + 1 \in 1..k + 1
    BY <1>1, <2>0
  <2>2. k + 1 = Max(1..k + 1)
    <3>1. 1..k + 1 \in SUBSET (1..k + 1) /\ 1..k + 1 # {}
      BY <2>1
    <3>2. \A m \in 1..k + 1 : (\A x \in 1..k + 1 : x <= m) => m = Max(1..k + 1)
      BY <2>0, <3>1, MaxFacts
    <3>3. \A x \in 1..k + 1 : x <= k + 1
      OBVIOUS
    <3> QED BY <2>1, <3>2, <3>3
  <2>3. (1..k + 1) \ {k + 1} = 1..k
    OBVIOUS
  <2>4. g[1..k + 1] = Redone(g[1..k], U[k + 1])
    <3> DEFINE s == 1..k + 1
    <3>1. s \in SUBSET (1..n) /\ s # {} /\ Max(s) = k + 1 /\ s \ {k + 1} = 1..k
      BY <2>1, <2>2, <2>3
    <3> HIDE DEF s
    <3>2. g[s] = Redone(g[s \ {Max(s)}], U[Max(s)])
      BY <1>2, <3>1 DEF Folds
    <3>3. g[s] = Redone(g[1..k], U[k + 1])
      BY <3>1, <3>2
    <3> QED BY <3>3 DEF s
  <2>5. g[1..k] = T[k] /\ k + 1 \in 1..n /\ (k + 1) - 1 = k
    BY <1>1, <1>4
  <2>6. T[k + 1] = Redone(T[k], U[k + 1])
    BY <2>5 DEF n
  <2> QED BY <2>4, <2>5, <2>6
<1> HIDE DEF Q
<1>5. \A k \in 0..n : k \in Q
  BY <1>1, <1>3, <1>4, UpTo DEF Q
<1>6. g[1..n] = T[n]
  BY <1>1, <1>5 DEF Q
<1>7. FoldLeft(Redone, b, U) = g[1..n]
  BY FoldChoice DEF g, n
<1> QED BY <1>6, <1>7 DEF n

-----------------------------------------------------------------------------
(***************************************************************************)
(* The history of a scene.  T[i] is what the scene holds with the first i  *)
(* commands done, the undone ones included: they wait on the redo stack in *)
(* the order Redo will take them.                                          *)
(***************************************************************************)
Base == ToSet(AuthoredNodes(DefaultFacing))
Nth(U, R, i) == IF i <= Len(U) THEN U[i] ELSE R[Len(U) + Len(R) + 1 - i]
Apart(nodes) == \A m, n \in nodes : m.id = n.id => m = n

\* Command c was raised on these nodes.
Doable(nodes, c) ==
  /\ c.kind = "add" => \A n \in nodes : n.id # c.id
  /\ c.kind # "add" => [id |-> c.id, facing |-> c.before] \in nodes

Chain(T, U, R, K) ==
  /\ T[0] = Base
  /\ \A i \in 0..Len(U) + Len(R) : Apart(T[i]) /\ T[i] \subseteq K
  /\ \A i \in 1..Len(U) + Len(R) :
       Doable(T[i - 1], Nth(U, R, i)) /\ T[i] = Redone(T[i - 1], Nth(U, R, i))

\* The effects under way that are about the living scene.
Coming == {e \in {taken[t] : t \in Threads} \cup ToSet(updateQueue) :
             e.call \in {"undo", "redo"} /\ e.cmd.scene = scene}

\* The stacks have moved at once, the snapshot follows when the effect runs.
Shown(T) ==
  /\ Coming = {} => ToSet(snapshot) = T[Len(undoCommands)]
  /\ \A e \in Coming :
       /\ e.call = "undo" => /\ redoCommands # <<>> /\ e.cmd = Last(redoCommands)
                             /\ ToSet(snapshot) = T[Len(undoCommands) + 1]
       /\ e.call = "redo" => /\ undoCommands # <<>> /\ e.cmd = Last(undoCommands)
                             /\ ToSet(snapshot) = T[Len(undoCommands) - 1]

Followed ==
  alive /\ ~refused /\ ~strays =>
    \E T : Chain(T, undoCommands, redoCommands, KnownNode) /\ Shown(T)

\* A patient user has at most one thing under way.
One ==
  /\ Len(preQueue) + Len(updateQueue) <= 1
  /\ \A t \in Threads : taken[t] # Nothing =>
       preQueue = <<>> /\ updateQueue = <<>> /\ \A u \in Threads \ {t} : taken[u] = Nothing

LEMMA StackFacts ==
  ASSUME NEW S, NEW s \in Seq(S), s # <<>>
  PROVE  /\ Len(s) \in Nat \ {0} /\ Front(s) \in Seq(S) /\ Len(Front(s)) = Len(s) - 1
         /\ \A i \in 1..Len(s) - 1 : Front(s)[i] = s[i]
         /\ Last(s) = s[Len(s)] /\ Last(s) \in S
<1>1. Len(s) \in Nat /\ Len(s) > 0
  BY EmptySeq
<1> DEFINE m == Len(s) - 1
<1>2. Front(s) = SubSeq(s, 1, m) /\ m \in Nat /\ m <= Len(s)
  BY <1>1 DEF Front
<1>3. \A i \in 1..m : s[i] \in S
  BY <1>2, ElementOfSeq
<1>4. /\ Front(s) \in Seq(S) /\ Len(Front(s)) = m
      /\ \A i \in 1..m : Front(s)[i] = s[i]
  <2>1. /\ SubSeq(s, 1, m) \in Seq(S) /\ Len(SubSeq(s, 1, m)) = IF 1 <= m THEN m - 1 + 1 ELSE 0
        /\ \A i \in 1..m - 1 + 1 : SubSeq(s, 1, m)[i] = s[1 + i - 1]
    BY <1>2, <1>3, SubSeqProperties
  <2> HIDE DEF m
  <2> QED BY <1>2, <2>1
<1> QED BY <1>1, <1>4, PopFacts DEF Last

\* A command that moves from one stack to the other keeps its place in the history.
LEMMA NthMoves ==
  ASSUME NEW S, NEW U \in Seq(S), NEW R \in Seq(S), U # <<>>
  PROVE  /\ Len(Front(U)) + Len(Append(R, Last(U))) = Len(U) + Len(R)
         /\ \A i \in 1..Len(U) + Len(R) : Nth(Front(U), Append(R, Last(U)), i) = Nth(U, R, i)
<1> DEFINE A == Append(R, Last(U))
           F == Front(U)
<1>1. /\ Len(U) \in Nat \ {0} /\ Len(F) = Len(U) - 1
      /\ \A i \in 1..Len(U) - 1 : F[i] = U[i]
  BY StackFacts
<1>2. /\ Len(R) \in Nat /\ Len(A) = Len(R) + 1 /\ A[Len(R) + 1] = U[Len(U)]
      /\ \A i \in 1..Len(R) : A[i] = R[i]
  <2>1. Last(U) = U[Len(U)] /\ Last(U) \in S
    BY StackFacts
  <2> QED BY <2>1, AppendProperties
<1> HIDE DEF A, F
<1>3. Len(F) + Len(A) = Len(U) + Len(R)
  BY <1>1, <1>2
<1>4. ASSUME NEW i \in 1..Len(U) + Len(R) PROVE Nth(F, A, i) = Nth(U, R, i)
  <2>1. CASE i <= Len(U) - 1
    BY <1>1, <1>2, <2>1 DEF Nth
  <2>2. CASE i = Len(U)
    <3>1. Len(F) + Len(A) + 1 - i = Len(R) + 1 /\ ~(i <= Len(F))
      BY <1>1, <1>2, <2>2
    <3> QED BY <1>2, <2>2, <3>1, <1>1 DEF Nth
  <2>3. CASE i > Len(U)
    <3>1. Len(U) + Len(R) + 1 - i \in 1..Len(R) /\ ~(i <= Len(F)) /\ ~(i <= Len(U))
      BY <1>1, <1>2, <2>3
    <3> QED BY <1>2, <1>3, <3>1 DEF Nth
  <2> QED BY <1>1, <1>2, <2>1, <2>2, <2>3
<1> QED BY <1>3, <1>4 DEF A, F

LEMMA NthMovesBack ==
  ASSUME NEW S, NEW U \in Seq(S), NEW R \in Seq(S), R # <<>>
  PROVE  /\ Len(Append(U, Last(R))) + Len(Front(R)) = Len(U) + Len(R)
         /\ \A i \in 1..Len(U) + Len(R) : Nth(Append(U, Last(R)), Front(R), i) = Nth(U, R, i)
<1> DEFINE A == Append(U, Last(R))
           F == Front(R)
<1>1. /\ Len(R) \in Nat \ {0} /\ Len(F) = Len(R) - 1
      /\ \A i \in 1..Len(R) - 1 : F[i] = R[i]
  BY StackFacts
<1>2. /\ Len(U) \in Nat /\ Len(A) = Len(U) + 1 /\ A[Len(U) + 1] = R[Len(R)]
      /\ \A i \in 1..Len(U) : A[i] = U[i]
  <2>1. Last(R) = R[Len(R)] /\ Last(R) \in S
    BY StackFacts
  <2> QED BY <2>1, AppendProperties
<1> HIDE DEF A, F
<1>3. Len(A) + Len(F) = Len(U) + Len(R)
  BY <1>1, <1>2
<1>4. ASSUME NEW i \in 1..Len(U) + Len(R) PROVE Nth(A, F, i) = Nth(U, R, i)
  <2>1. CASE i <= Len(U)
    BY <1>1, <1>2, <2>1 DEF Nth
  <2>2. CASE i = Len(U) + 1
    <3>1. Len(U) + Len(R) + 1 - i = Len(R) /\ ~(i <= Len(U)) /\ i <= Len(A)
      BY <1>1, <1>2, <2>2
    <3> QED BY <1>2, <2>2, <3>1 DEF Nth
  <2>3. CASE i > Len(U) + 1
    <3>1. Len(U) + Len(R) + 1 - i \in 1..Len(R) - 1 /\ ~(i <= Len(A)) /\ ~(i <= Len(U))
      BY <1>1, <1>2, <2>3
    <3> QED BY <1>1, <1>3, <3>1 DEF Nth
  <2> QED BY <1>1, <1>2, <2>1, <2>2, <2>3
<1> QED BY <1>3, <1>4 DEF A, F

LEMMA ChainMoves ==
  ASSUME NEW S, NEW U \in Seq(S), NEW R \in Seq(S), NEW K, NEW T, Chain(T, U, R, K)
  PROVE  /\ U # <<>> => Chain(T, Front(U), Append(R, Last(U)), K)
         /\ R # <<>> => Chain(T, Append(U, Last(R)), Front(R), K)
  BY NthMoves, NthMovesBack DEF Chain

Without(nodes, id) == {n \in nodes : n.id # id}
Turned(nodes, id, f) == {IF n.id = id THEN [n EXCEPT !.facing = f] ELSE n : n \in nodes}

\* What a command changes, and that its inverse changes it back.
LEMMA RedoneAdd ==
  ASSUME NEW nodes, NEW c, Doable(nodes, c), c.kind = "add"
  PROVE  (\E n \in Redone(nodes, c) : n.id = c.id) /\ nodes = Without(Redone(nodes, c), c.id)
<1> DEFINE x == [id |-> c.id, facing |-> c.after]
<1>1. Redone(nodes, c) = nodes \cup {x}
  BY DEF Redone
<1>2. x.id = c.id /\ \A n \in nodes : n.id # c.id
  BY DEF Doable
<1> HIDE DEF x
<1> QED BY <1>1, <1>2 DEF Without

LEMMA RedoneRemove ==
  ASSUME NEW nodes, Apart(nodes), NEW c, Doable(nodes, c), c.kind = "remove"
  PROVE  /\ \A n \in Redone(nodes, c) : n.id # c.id
         /\ nodes = Redone(nodes, c) \cup {[id |-> c.id, facing |-> c.before]}
<1> DEFINE x == [id |-> c.id, facing |-> c.before]
<1>1. Redone(nodes, c) = {n \in nodes : n.id # c.id}
  BY DEF Redone
<1>2. x \in nodes /\ x.id = c.id
  BY DEF Doable
<1>3. \A n \in nodes : n.id = c.id => n = x
  BY <1>2 DEF Apart
<1> HIDE DEF x
<1> QED BY <1>1, <1>2, <1>3 DEF x

LEMMA RedoneTurn ==
  ASSUME NEW nodes, Apart(nodes), NEW c, Doable(nodes, c), c.kind = "turn"
  PROVE  /\ Redone(nodes, c) = {n \in nodes : n.id # c.id} \cup {[id |-> c.id, facing |-> c.after]}
         /\ nodes = Turned(Redone(nodes, c), c.id, c.before)
<1> DEFINE x == [id |-> c.id, facing |-> c.before]
           y == [id |-> c.id, facing |-> c.after]
           turned(n, f) == IF n.id = c.id THEN [n EXCEPT !.facing = f] ELSE n
<1>1. Redone(nodes, c) = {turned(n, c.after) : n \in nodes}
  BY DEF Redone
<1>2. x \in nodes /\ \A n \in nodes : n.id = c.id => n = x
  BY DEF Doable, Apart
<1>3. \A n \in nodes : turned(n, c.after) = IF n.id = c.id THEN y ELSE n
  BY <1>2
<1>4. Redone(nodes, c) = {n \in nodes : n.id # c.id} \cup {y}
  BY <1>1, <1>2, <1>3
<1>5. turned(y, c.before) = x /\ \A n \in nodes : n.id # c.id => turned(n, c.before) = n
  OBVIOUS
<1>6. {turned(n, c.before) : n \in Redone(nodes, c)} = {n \in nodes : n.id # c.id} \cup {x}
  BY <1>4, <1>5
<1>7. nodes = {n \in nodes : n.id # c.id} \cup {x}
  BY <1>2
<1> QED BY <1>4, <1>6, <1>7 DEF Turned

LEMMA RedoneTyped ==
  ASSUME NEW I, NEW F, NEW nodes \in SUBSET [id : I, facing : F], Apart(nodes),
         NEW c, Doable(nodes, c), c.kind \in {"add", "remove", "turn"},
         c.id \in I, c.before \in F, c.after \in F
  PROVE  Apart(Redone(nodes, c)) /\ Redone(nodes, c) \subseteq [id : I, facing : F]
<1> DEFINE y == [id |-> c.id, facing |-> c.after]
<1>1. y \in [id : I, facing : F] /\ y.id = c.id
  OBVIOUS
<1>2. CASE c.kind = "add"
  <2>1. Redone(nodes, c) = nodes \cup {y} /\ \A n \in nodes : n.id # c.id
    BY <1>2 DEF Redone, Doable
  <2> HIDE DEF y
  <2> QED BY <1>1, <2>1 DEF Apart
<1>3. CASE c.kind = "remove"
  <2>1. Redone(nodes, c) = {n \in nodes : n.id # c.id}
    BY <1>3 DEF Redone
  <2> QED BY <2>1 DEF Apart
<1>4. CASE c.kind = "turn"
  <2>1. Redone(nodes, c) = {n \in nodes : n.id # c.id} \cup {y}
    BY <1>4, RedoneTurn
  <2> HIDE DEF y
  <2> QED BY <1>1, <2>1 DEF Apart
<1> QED BY <1>2, <1>3, <1>4

LEMMA SetAppend ==
  ASSUME NEW S, NEW s \in Seq(S), NEW e \in S
  PROVE  ToSet(Append(s, e)) = ToSet(s) \cup {e}
<1>1. /\ Len(s) \in Nat /\ DOMAIN s = 1..Len(s) /\ DOMAIN Append(s, e) = 1..Len(s) + 1
      /\ Append(s, e)[Len(s) + 1] = e /\ \A i \in 1..Len(s) : Append(s, e)[i] = s[i]
  BY AppendProperties, LenProperties
<1>2. 1..Len(s) + 1 = 1..Len(s) \cup {Len(s) + 1}
  BY <1>1
<1> QED BY <1>1, <1>2 DEF ToSet

LEMMA SetRemove ==
  ASSUME NEW S, NEW s \in Seq(S), NEW at \in 1..Len(s),
         \A i, j \in DOMAIN s : s[i].id = s[j].id => i = j
  PROVE  ToSet(RemoveAt(s, at)) = {n \in ToSet(s) : n.id # s[at].id}
<1> DEFINE r == RemoveAt(s, at)
           n == Len(s)
<1>1. /\ r \in Seq(S) /\ Len(r) = Len(s) - 1 /\ Len(s) \in Nat /\ DOMAIN s = 1..Len(s)
      /\ \A i \in 1..Len(s) - 1 : r[i] = IF i < at THEN s[i] ELSE s[i + 1]
  BY RemoveOne, LenProperties
<1>2. DOMAIN r = 1..Len(s) - 1
  BY <1>1, LenProperties
<1> HIDE DEF r
<1>3. ASSUME NEW m \in ToSet(r) PROVE m \in ToSet(s) /\ m.id # s[at].id
  <2>1. PICK i \in 1..Len(s) - 1 : m = r[i]
    BY <1>2 DEF ToSet
  <2>2. PICK k \in 1..Len(s) : m = s[k] /\ k # at
    <3>1. CASE i < at
      BY <1>1, <2>1, <3>1
    <3>2. CASE ~(i < at)
      <4>1. i + 1 \in 1..Len(s) /\ i + 1 # at
        BY <1>1, <3>2
      <4> QED BY <1>1, <2>1, <3>2, <4>1
    <3> QED BY <3>1, <3>2
  <2> QED BY <1>1, <2>2 DEF ToSet
<1>4. ASSUME NEW m \in ToSet(s), m.id # s[at].id PROVE m \in ToSet(r)
  <2>1. PICK k \in 1..Len(s) : m = s[k] /\ k # at
    BY <1>1, <1>4 DEF ToSet
  <2>2. CASE k < at
    <3>1. k \in 1..Len(s) - 1 /\ r[k] = m
      BY <1>1, <2>1, <2>2
    <3> QED BY <1>2, <3>1 DEF ToSet
  <2>3. CASE k > at
    <3>1. k - 1 \in 1..Len(s) - 1 /\ ~(k - 1 < at) /\ (k - 1) + 1 = k
      BY <1>1, <2>3
    <3>2. r[k - 1] = m
      BY <1>1, <2>1, <3>1
    <3> QED BY <1>2, <3>1, <3>2 DEF ToSet
  <2> QED BY <1>1, <2>1, <2>2, <2>3
<1> QED BY <1>3, <1>4 DEF r

\* A command raised on what the scene holds starts a new end of the history.
LEMMA PushChain ==
  ASSUME NEW S, NEW U \in Seq(S), NEW R \in Seq(S), NEW K, NEW T, Chain(T, U, R, K),
         NEW I, NEW F, K \subseteq [id : I, facing : F],
         NEW c \in S, c.kind \in {"add", "remove", "turn"},
         c.id \in I, c.before \in F, c.after \in F, Doable(T[Len(U)], c)
  PROVE  \E V : /\ Chain(V, Append(U, c), <<>>, [id : I, facing : F])
                /\ V[Len(U) + 1] = Redone(T[Len(U)], c)
<1> DEFINE n == Len(U)
           K2 == [id : I, facing : F]
           V == [i \in 0..n + 1 |-> IF i <= n THEN T[i] ELSE Redone(T[n], c)]
           A == Append(U, c)
<1>1. n \in Nat /\ Len(R) \in Nat /\ n \in 0..n + Len(R)
  BY LenProperties
<1>2. Len(A) = n + 1 /\ A[n + 1] = c /\ \A i \in 1..n : A[i] = U[i]
  BY AppendProperties
<1>3. Len(<<>>) = 0
  OBVIOUS
<1> HIDE DEF n, A
<1>4. \A i \in 0..n : Apart(T[i]) /\ T[i] \subseteq K /\ i \in 0..n + Len(R)
  BY <1>1 DEF Chain, n
<1>5. Apart(T[n]) /\ T[n] \in SUBSET K2 /\ Doable(T[n], c)
  BY <1>1, <1>4 DEF n
<1>6. Apart(Redone(T[n], c)) /\ Redone(T[n], c) \subseteq K2
  <2> DEFINE nodes == T[n]
  <2>1. Apart(nodes) /\ nodes \in SUBSET K2 /\ Doable(nodes, c)
    BY <1>5
  <2> HIDE DEF nodes
  <2>3. Apart(Redone(nodes, c)) /\ Redone(nodes, c) \subseteq K2
    BY <2>1, RedoneTyped
  <2> QED BY <2>3 DEF nodes
<1>7. /\ V[0] = T[0] /\ V[n + 1] = Redone(T[n], c)
      /\ \A i \in 0..n : V[i] = T[i]
  BY <1>1
<1> HIDE DEF V
<1>8. \A i \in 0..n + 1 : Apart(V[i]) /\ V[i] \subseteq K2
  <2>1. ASSUME NEW i \in 0..n + 1 PROVE Apart(V[i]) /\ V[i] \subseteq K2
    <3>1. CASE i \in 0..n
      BY <1>4, <1>7, <3>1
    <3>2. CASE i = n + 1
      BY <1>6, <1>7, <3>2
    <3> QED BY <1>1, <3>1, <3>2
  <2> QED BY <2>1
<1>9. ASSUME NEW i \in 1..n + 1
      PROVE  Doable(V[i - 1], Nth(A, <<>>, i)) /\ V[i] = Redone(V[i - 1], Nth(A, <<>>, i))
  <2>1. Nth(A, <<>>, i) = A[i]
    BY <1>1, <1>2 DEF Nth
  <2>2. CASE i \in 1..n
    <3>1. Nth(U, R, i) = U[i] /\ A[i] = U[i]
      BY <1>1, <1>2, <2>2 DEF Nth, n
    <3>2. i \in 1..n + Len(R) /\ i - 1 \in 0..n /\ i \in 0..n
      BY <1>1, <2>2
    <3>3. Doable(T[i - 1], Nth(U, R, i)) /\ T[i] = Redone(T[i - 1], Nth(U, R, i))
      BY <3>2 DEF Chain, n
    <3>4. V[i - 1] = T[i - 1] /\ V[i] = T[i]
      BY <1>7, <3>2
    <3> QED BY <2>1, <3>1, <3>3, <3>4
  <2>3. CASE i = n + 1
    <3>1. i - 1 = n /\ n \in 0..n
      BY <1>1, <2>3
    <3>2. V[i - 1] = T[n] /\ V[i] = Redone(T[n], c) /\ A[i] = c
      BY <1>2, <1>7, <2>3, <3>1
    <3> QED BY <1>5, <2>1, <3>2
  <2> QED BY <1>1, <2>2, <2>3
<1>10. V[0] = Base
  BY <1>7 DEF Chain
<1>11. Len(A) + Len(<<>>) = n + 1
  BY <1>1, <1>2, <1>3
<1>12. Chain(V, A, <<>>, K2)
  <2> HIDE DEF K2
  <2> QED BY <1>8, <1>9, <1>10, <1>11 DEF Chain
<1> QED BY <1>7, <1>12 DEF A, n

\* The stacks and the snapshot, as the invariant types them.
LEMMA Typing ==
  ASSUME Inv
  PROVE  /\ undoCommands \in Seq(Own) /\ redoCommands \in Seq(Own)
         /\ snapshot \in Seq(KnownNode) /\ Len(snapshot) \in Nat
         /\ DOMAIN snapshot = 1..Len(snapshot)
         /\ \A i \in 1..Len(snapshot) : snapshot[i] \in KnownNode
         /\ (Families = {"live"} => IdsAreUnique)
         /\ highestId \in Nat /\ scene \in Nat \ {0}
         /\ \A c \in Known : /\ c.kind \in {"add", "remove", "turn"} /\ c.family \in FamiliesOf(c.kind)
                             /\ c.id \in 1..highestId /\ c.before \in Facings /\ c.after \in Facings
<1>1. StacksInv /\ NodesInv
  BY DEF Inv
<1>2. /\ Len(snapshot) \in Nat /\ DOMAIN snapshot = 1..Len(snapshot)
      /\ \A i \in 1..Len(snapshot) : snapshot[i] \in KnownNode
  BY <1>1, LenProperties, ElementOfSeq DEF NodesInv
<1> QED BY <1>1, <1>2, Numbers DEF StacksInv, NodesInv, Known

\* The history of a scene just loaded.
LEMMA NewChain ==
  ASSUME highestId \in Nat, Len(Authored) <= highestId
  PROVE  \E T : Chain(T, <<>>, <<>>, KnownNode) /\ T[0] = Base
<1> DEFINE T == [i \in 0..0 |-> Base]
<1>1. Apart(Base) /\ Base \subseteq KnownNode
  <2> DEFINE s == AuthoredNodes(DefaultFacing)
  <2>1. DefaultFacing \in Facings
    BY SnapshotAssumption DEF DefaultFacing
  <2>2. s \in Seq(KnownNode) /\ \A i, j \in DOMAIN s : s[i].id = s[j].id => i = j
    BY <2>1, AuthoredFacts DEF KnownNode
  <2> HIDE DEF s
  <2>3. DOMAIN s = 1..Len(s) /\ \A i \in 1..Len(s) : s[i] \in KnownNode
    BY <2>2, LenProperties, ElementOfSeq
  <2>4. Apart(ToSet(s)) /\ ToSet(s) \subseteq KnownNode
    BY <2>2, <2>3 DEF Apart, ToSet
  <2> QED BY <2>4 DEF s, Base
<1>2. Len(<<>>) + Len(<<>>) = 0 /\ T[0] = Base
  OBVIOUS
<1>3. \A i \in 0..0 : i = 0
  OBVIOUS
<1> HIDE DEF T
<1> QED BY <1>1, <1>2, <1>3 DEF Chain

LEMMA InitHist == Init => One /\ Followed
<1> SUFFICES ASSUME Init PROVE One /\ Followed
  OBVIOUS
<1>1. One
  BY DEF Init, One
<1>2. Coming = {}
  BY DEF Init, Coming, Nothing, ToSet
<1>3. /\ undoCommands = <<>> /\ redoCommands = <<>> /\ snapshot = AuthoredNodes(DefaultFacing)
      /\ highestId = Len(Authored) /\ scene \in Nat
  BY DEF Init, Stacks!EmptyStacks
<1>4. highestId \in Nat /\ Len(Authored) <= highestId
  BY <1>3, SnapshotAssumption
<1>5. PICK T : Chain(T, <<>>, <<>>, KnownNode) /\ T[0] = Base
  BY <1>4, NewChain
<1>6. Shown(T)
  BY <1>2, <1>3, <1>5 DEF Shown, Base
<1> QED BY <1>1, <1>3, <1>5, <1>6 DEF Followed

\* An edit raises its command on what the scene holds.
LEMMA EditFollows ==
  ASSUME Inv, Inv', Families = {"live"}, Followed, alive, UNCHANGED <<alive, scene>>,
         Coming = {}, Coming' = {}, NEW edit \in Edit, RunEdit(edit)
  PROVE  Followed'
<1> SUFFICES ASSUME ~refused', ~strays' PROVE Followed'
  BY DEF Followed
<1> DEFINE family == edit.family
           n == Len(undoCommands)
<1>1. /\ family \in {"live", "classic"} /\ UNCHANGED flags
      /\ \/ family \in FamiliesOf("add") /\ EditAdd(family)
         \/ family \in FamiliesOf("remove") /\ EditRemove(family)
         \/ family \in FamiliesOf("turn") /\ EditTurn(family)
  BY SnapshotAssumption DEF RunEdit, Edit
<1>2. ~refused /\ ~strays
  BY <1>1 DEF flags
<1>3. PICK T : Chain(T, undoCommands, redoCommands, KnownNode) /\ Shown(T)
  BY <1>2 DEF Followed
<1>4. ToSet(snapshot) = T[n]
  BY <1>3 DEF Shown
<1>5. highestId' \in Nat /\ highestId' >= highestId /\ highestId \in Nat
  BY <1>1, Typing DEF EditAdd, EditRemove, EditTurn
<1>6. undoCommands \in Seq(Own) /\ redoCommands \in Seq(Own) /\ undoCommands' \in Seq(Own')
  BY Typing DEF Inv, StacksInv
<1>7. undoCommands \in Seq(Own') /\ redoCommands \in Seq(Own')
  <2>1. Own \subseteq Own'
    BY <1>5, Typing, KnowledgeGrows DEF Own
  <2> QED BY <1>6, <2>1, SeqMonotonic
<1>8. KnownNode \subseteq [id : 1..highestId', facing : Facings] /\ KnownNode' = [id : 1..highestId', facing : Facings]
  BY <1>5 DEF KnownNode
<1>9. ASSUME NEW c, Stacks!Push(c), c \in Known', c.scene = scene,
             Doable(ToSet(snapshot), c), ToSet(snapshot') = Redone(ToSet(snapshot), c)
      PROVE  Followed'
  <2>1. /\ c \in Own' /\ c.kind \in {"add", "remove", "turn"} /\ c.id \in 1..highestId'
        /\ c.before \in Facings /\ c.after \in Facings
    BY <1>9 DEF Own, Known
  <2>2. undoCommands' = Append(undoCommands, c) /\ redoCommands' = <<>>
    BY <1>9 DEF Stacks!Push
  <2>3. Doable(T[n], c)
    BY <1>4, <1>9
  <2>4. PICK V : /\ Chain(V, Append(undoCommands, c), <<>>, [id : 1..highestId', facing : Facings])
                 /\ V[n + 1] = Redone(T[n], c)
    <3> DEFINE I == 1..highestId'
               S == Own'
               K == KnownNode
               nodes == T[n]
    <3>1. /\ undoCommands \in Seq(S) /\ redoCommands \in Seq(S) /\ K \subseteq [id : I, facing : Facings]
          /\ c \in S /\ c.kind \in {"add", "remove", "turn"} /\ c.id \in I
          /\ c.before \in Facings /\ c.after \in Facings
          /\ Chain(T, undoCommands, redoCommands, K) /\ Doable(T[Len(undoCommands)], c)
      BY <1>3, <1>7, <1>8, <2>1, <2>3
    <3> HIDE DEF I, S, K
    <3>2. \E V : /\ Chain(V, Append(undoCommands, c), <<>>, [id : I, facing : Facings])
                 /\ V[Len(undoCommands) + 1] = Redone(T[Len(undoCommands)], c)
      BY <3>1, PushChain
    <3> QED BY <3>2 DEF I
  <2>5. Len(Append(undoCommands, c)) = n + 1
    BY <1>7, <2>1, AppendProperties
  <2>6. Chain(V, undoCommands', redoCommands', KnownNode')
    BY <1>8, <2>2, <2>4
  <2>7. Shown(V)'
    BY <1>4, <1>9, <2>2, <2>4, <2>5 DEF Shown
  <2>8. (\E W : Chain(W, undoCommands, redoCommands, KnownNode) /\ Shown(W))'
    <3>1. Chain(V, undoCommands, redoCommands, KnownNode)'
      BY <2>6 DEF Chain, Base
    <3> QED BY <2>7, <3>1
  <2> QED BY <2>8 DEF Followed
<1>10. ASSUME UNCHANGED <<snapshot, undoCommands, redoCommands, highestId>> PROVE Followed'
  <2>1. Chain(T, undoCommands, redoCommands, KnownNode)' /\ Shown(T)'
    BY <1>3, <1>10 DEF Chain, Shown, KnownNode, Base
  <2> QED BY <2>1 DEF Followed
<1>11. /\ snapshot \in Seq(KnownNode) /\ DOMAIN snapshot = 1..Len(snapshot) /\ Len(snapshot) \in Nat
       /\ \A i \in 1..Len(snapshot) : snapshot[i] \in KnownNode
       /\ IdsAreUnique /\ scene \in Nat \ {0}
  BY Typing
<1>12. CASE family \in FamiliesOf("add") /\ EditAdd(family)
  <2>1. CASE /\ highestId' = highestId + 1
             /\ \E f \in Facings :
                  /\ snapshot' = Append(snapshot, [id |-> highestId', facing |-> f])
                  /\ Stacks!Push([kind |-> "add", family |-> family, id |-> highestId', scene |-> scene,
                                  before |-> f, after |-> f])
    <3>1. PICK f \in Facings :
            /\ snapshot' = Append(snapshot, [id |-> highestId', facing |-> f])
            /\ Stacks!Push([kind |-> "add", family |-> family, id |-> highestId', scene |-> scene,
                            before |-> f, after |-> f])
      BY <2>1
    <3> DEFINE c == [kind |-> "add", family |-> family, id |-> highestId', scene |-> scene,
                     before |-> f, after |-> f]
               x == [id |-> highestId', facing |-> f]
    <3>2. highestId' = highestId + 1
      BY <2>1
    <3>3. c \in Known' /\ c.scene = scene
      BY <1>1, <1>5, <1>11, <1>12, <3>2 DEF Known
    <3>4. Doable(ToSet(snapshot), c)
      <4>1. \A i \in 1..Len(snapshot) : snapshot[i].id # highestId'
        BY <1>5, <1>11, <3>2 DEF KnownNode
      <4> QED BY <1>11, <4>1 DEF Doable, ToSet
    <3>5. ToSet(snapshot') = ToSet(snapshot) \cup {x}
      <4>1. x \in KnownNode'
        BY <1>5, <3>2 DEF KnownNode
      <4>2. snapshot \in Seq(KnownNode')
        BY <1>8, <1>11, SeqMonotonic
      <4> QED BY <3>1, <4>1, <4>2, SetAppend
    <3>6. Redone(ToSet(snapshot), c) = ToSet(snapshot) \cup {x}
      BY DEF Redone
    <3>7. Stacks!Push(c)
      BY <3>1
    <3> HIDE DEF c, x
    <3> QED BY <1>9, <3>3, <3>4, <3>5, <3>6, <3>7
  <2>2. CASE UNCHANGED <<snapshot, undoCommands, redoCommands, highestId>>
    BY <1>10, <2>2
  <2> QED BY <1>12, <2>1, <2>2 DEF EditAdd
<1>13. CASE family \in FamiliesOf("remove") /\ EditRemove(family)
  <2>1. UNCHANGED highestId
    BY <1>13 DEF EditRemove
  <2>2. CASE \E i \in DOMAIN snapshot :
               /\ snapshot' = RemoveAt(snapshot, i)
               /\ Stacks!Push([kind |-> "remove", family |-> family, id |-> snapshot[i].id, scene |-> scene,
                               before |-> snapshot[i].facing, after |-> snapshot[i].facing])
    <3>1. PICK i \in DOMAIN snapshot :
               /\ snapshot' = RemoveAt(snapshot, i)
               /\ Stacks!Push([kind |-> "remove", family |-> family, id |-> snapshot[i].id, scene |-> scene,
                               before |-> snapshot[i].facing, after |-> snapshot[i].facing])
      BY <2>2
    <3> DEFINE c == [kind |-> "remove", family |-> family, id |-> snapshot[i].id, scene |-> scene,
                     before |-> snapshot[i].facing, after |-> snapshot[i].facing]
    <3>2. i \in 1..Len(snapshot) /\ snapshot[i] \in KnownNode /\ snapshot[i] \in ToSet(snapshot)
      BY <1>11 DEF ToSet
    <3>3. c \in Known' /\ c.scene = scene
      BY <1>1, <1>5, <1>11, <1>13, <2>1, <3>2 DEF Known, KnownNode
    <3>4. [id |-> c.id, facing |-> c.before] = snapshot[i]
      BY <3>2 DEF KnownNode
    <3>5. Doable(ToSet(snapshot), c)
      BY <3>2, <3>4 DEF Doable
    <3>6. ToSet(snapshot') = {m \in ToSet(snapshot) : m.id # snapshot[i].id}
      BY <1>11, <3>1, <3>2, SetRemove DEF IdsAreUnique
    <3>7. Redone(ToSet(snapshot), c) = {m \in ToSet(snapshot) : m.id # snapshot[i].id}
      BY DEF Redone
    <3>8. Stacks!Push(c)
      BY <3>1
    <3> HIDE DEF c
    <3> QED BY <1>9, <3>3, <3>5, <3>6, <3>7, <3>8
  <2>3. CASE UNCHANGED <<snapshot, undoCommands, redoCommands>>
    BY <1>10, <2>1, <2>3
  <2> QED BY <1>13, <2>2, <2>3 DEF EditRemove
<1>14. CASE family \in FamiliesOf("turn") /\ EditTurn(family)
  <2>1. UNCHANGED highestId
    BY <1>14 DEF EditTurn
  <2>2. CASE \E i \in DOMAIN snapshot, f \in Facings :
               /\ snapshot' = [snapshot EXCEPT ![i].facing = f]
               /\ Stacks!Push([kind |-> "turn", family |-> family, id |-> snapshot[i].id, scene |-> scene,
                               before |-> snapshot[i].facing, after |-> f])
    <3>1. PICK i \in DOMAIN snapshot, f \in Facings :
               /\ snapshot' = [snapshot EXCEPT ![i].facing = f]
               /\ Stacks!Push([kind |-> "turn", family |-> family, id |-> snapshot[i].id, scene |-> scene,
                               before |-> snapshot[i].facing, after |-> f])
      BY <2>2
    <3> DEFINE c == [kind |-> "turn", family |-> family, id |-> snapshot[i].id, scene |-> scene,
                     before |-> snapshot[i].facing, after |-> f]
               turned(m) == IF m.id = snapshot[i].id THEN [m EXCEPT !.facing = f] ELSE m
    <3>2. i \in 1..Len(snapshot) /\ snapshot[i] \in KnownNode /\ snapshot[i] \in ToSet(snapshot)
      BY <1>11 DEF ToSet
    <3>3. c \in Known' /\ c.scene = scene
      BY <1>1, <1>5, <1>11, <1>14, <2>1, <3>2 DEF Known, KnownNode
    <3>4. [id |-> c.id, facing |-> c.before] = snapshot[i]
      BY <3>2 DEF KnownNode
    <3>5. Doable(ToSet(snapshot), c)
      BY <3>2, <3>4 DEF Doable
    <3>6. ToSet(snapshot') = {turned(m) : m \in ToSet(snapshot)}
      <4>1. \A k \in 1..Len(snapshot) : snapshot'[k] = turned(snapshot[k])
        BY <1>11, <3>1, <3>2 DEF IdsAreUnique
      <4>2. DOMAIN snapshot' = 1..Len(snapshot)
        BY <1>11, <3>1
      <4> HIDE DEF turned
      <4> QED BY <1>11, <4>1, <4>2 DEF ToSet
    <3>7. Redone(ToSet(snapshot), c) = {turned(m) : m \in ToSet(snapshot)}
      BY DEF Redone
    <3>8. Stacks!Push(c)
      BY <3>1
    <3> HIDE DEF c, turned
    <3> QED BY <1>9, <3>3, <3>5, <3>6, <3>7, <3>8
  <2>3. CASE UNCHANGED <<snapshot, undoCommands, redoCommands>>
    BY <1>10, <2>1, <2>3
  <2> QED BY <1>14, <2>2, <2>3 DEF EditTurn
<1> QED BY <1>1, <1>12, <1>13, <1>14

\* What a replay does to the nodes of a scene whose ids are unique.
LEMMA ReplayShows ==
  ASSUME Inv, Families = {"live"}, NEW c \in Known
  PROVE  /\ \A f \in Facings : c.kind # "turn" /\ AddNode(c, f) /\ (\A n \in ToSet(snapshot) : n.id # c.id) =>
              ToSet(snapshot') = ToSet(snapshot) \cup {[id |-> c.id, facing |-> f]}
         /\ c.kind # "turn" /\ RemoveNode(c) /\ ~refused' /\ (\E n \in ToSet(snapshot) : n.id = c.id) =>
              ToSet(snapshot') = Without(ToSet(snapshot), c.id)
         /\ \A f \in Facings : TurnNode(c, f) =>
              ToSet(snapshot') = Turned(ToSet(snapshot), c.id, f)
<1>1. /\ snapshot \in Seq(KnownNode) /\ DOMAIN snapshot = 1..Len(snapshot) /\ Len(snapshot) \in Nat
      /\ \A i \in 1..Len(snapshot) : snapshot[i] \in KnownNode
      /\ IdsAreUnique /\ (c.kind # "turn" => c.family = "live") /\ c.id \in 1..highestId
  BY Typing DEF FamiliesOf
<1>2. ASSUME NEW f \in Facings, c.kind # "turn", AddNode(c, f), \A n \in ToSet(snapshot) : n.id # c.id
      PROVE  ToSet(snapshot') = ToSet(snapshot) \cup {[id |-> c.id, facing |-> f]}
  <2>1. c.id \notin IdsOf(snapshot)
    BY <1>2 DEF IdsOf, ToSet
  <2>2. snapshot' = Append(snapshot, [id |-> c.id, facing |-> f])
    BY <1>2, <2>1 DEF AddNode
  <2>3. [id |-> c.id, facing |-> f] \in KnownNode
    BY <1>1 DEF KnownNode
  <2> QED BY <1>1, <2>2, <2>3, SetAppend
<1>3. ASSUME c.kind # "turn", RemoveNode(c), ~refused', \E n \in ToSet(snapshot) : n.id = c.id
      PROVE  ToSet(snapshot') = Without(ToSet(snapshot), c.id)
  <2>1. RemoveById(c)
    BY <1>1, <1>3 DEF RemoveNode
  <2>2. c.id \in IdsOf(snapshot)
    BY <1>3 DEF IdsOf, ToSet
  <2>3. PICK i \in DOMAIN snapshot : snapshot[i].id = c.id /\ snapshot' = RemoveAt(snapshot, i)
    BY <1>3, <2>1, <2>2 DEF RemoveById
  <2>4. i \in 1..Len(snapshot) /\ \A k, j \in DOMAIN snapshot : snapshot[k].id = snapshot[j].id => k = j
    BY <1>1 DEF IdsAreUnique
  <2>5. ToSet(RemoveAt(snapshot, i)) = {n \in ToSet(snapshot) : n.id # snapshot[i].id}
    BY <1>1, <2>4, SetRemove
  <2> QED BY <2>3, <2>5 DEF Without
<1>4. ASSUME NEW f \in Facings, TurnNode(c, f)
      PROVE  ToSet(snapshot') = Turned(ToSet(snapshot), c.id, f)
  BY <1>4 DEF TurnNode, ToSet, Turned
<1> QED BY <1>2, <1>3, <1>4

LEMMA EffectShows ==
  ASSUME Inv, Families = {"live"}, NEW c \in Known, NEW call \in {"undo", "redo"},
         RunEffect(call, c), ~refused',
         NEW nodes \in SUBSET KnownNode, Apart(nodes), Doable(nodes, c)
  PROVE  /\ call = "undo" /\ ToSet(snapshot) = Redone(nodes, c) => ToSet(snapshot') = nodes
         /\ call = "redo" /\ ToSet(snapshot) = nodes => ToSet(snapshot') = Redone(nodes, c)
<1>1. /\ c.kind \in {"add", "remove", "turn"} /\ c.id \in 1..highestId
      /\ c.before \in Facings /\ c.after \in Facings
  BY Typing
<1> DEFINE I == 1..highestId
<1>2. nodes \in SUBSET [id : I, facing : Facings] /\ c.id \in I
  BY <1>1 DEF KnownNode
<1> HIDE DEF I
<1>3. ASSUME call = "undo", ToSet(snapshot) = Redone(nodes, c) PROVE ToSet(snapshot') = nodes
  <2>1. CASE c.kind = "add"
    <3>1. /\ \E n \in Redone(nodes, c) : n.id = c.id
          /\ nodes = Without(Redone(nodes, c), c.id)
      BY <2>1, RedoneAdd
    <3>2. RemoveNode(c)
      BY <1>3, <2>1 DEF RunEffect
    <3> QED BY <1>3, <2>1, <3>1, <3>2, ReplayShows
  <2>2. CASE c.kind = "remove"
    <3>1. /\ \A n \in Redone(nodes, c) : n.id # c.id
          /\ nodes = Redone(nodes, c) \cup {[id |-> c.id, facing |-> c.before]}
      BY <2>2, RedoneRemove
    <3>2. AddNode(c, c.before)
      BY <1>3, <2>2 DEF RunEffect
    <3>3. ToSet(snapshot') = ToSet(snapshot) \cup {[id |-> c.id, facing |-> c.before]}
      BY <1>1, <1>3, <2>2, <3>1, <3>2, ReplayShows
    <3> QED BY <1>3, <3>1, <3>3
  <2>3. CASE c.kind = "turn"
    <3>1. nodes = Turned(Redone(nodes, c), c.id, c.before)
      BY <2>3, RedoneTurn
    <3>2. TurnNode(c, c.before)
      BY <1>3, <2>3 DEF RunEffect
    <3> QED BY <1>1, <1>3, <3>1, <3>2, ReplayShows
  <2> QED BY <1>1, <2>1, <2>2, <2>3
<1>4. ASSUME call = "redo", ToSet(snapshot) = nodes PROVE ToSet(snapshot') = Redone(nodes, c)
  <2>1. CASE c.kind = "add"
    <3>1. AddNode(c, c.after) /\ \A n \in ToSet(snapshot) : n.id # c.id
      BY <1>4, <2>1 DEF RunEffect, Doable
    <3>2. ToSet(snapshot') = ToSet(snapshot) \cup {[id |-> c.id, facing |-> c.after]}
      BY <1>1, <2>1, <3>1, ReplayShows
    <3> QED BY <1>4, <2>1, <3>2 DEF Redone, Without, Turned
  <2>2. CASE c.kind = "remove"
    <3>1. RemoveNode(c) /\ \E n \in ToSet(snapshot) : n.id = c.id
      <4>1. [id |-> c.id, facing |-> c.before] \in nodes
        BY <2>2 DEF Doable
      <4> QED BY <1>4, <2>2, <4>1 DEF RunEffect
    <3>2. ToSet(snapshot') = Without(ToSet(snapshot), c.id)
      BY <2>2, <3>1, ReplayShows
    <3> QED BY <1>4, <2>2, <3>2 DEF Redone, Without, Turned
  <2>3. CASE c.kind = "turn"
    <3>1. TurnNode(c, c.after)
      BY <1>4, <2>3 DEF RunEffect
    <3>2. ToSet(snapshot') = Turned(ToSet(snapshot), c.id, c.after)
      BY <1>1, <3>1, ReplayShows
    <3> QED BY <1>4, <2>3, <3>2 DEF Redone, Without, Turned
  <2> QED BY <1>1, <2>1, <2>2, <2>3
<1> QED BY <1>3, <1>4

\* The effect under way, when it runs, brings the scene to where the stacks are.
LEMMA EffectFollows ==
  ASSUME Inv, Families = {"live"}, Followed, alive, UNCHANGED <<alive, scene>>,
         NEW e \in KnownEffect, e.cmd.scene = scene => e \in Coming,
         Coming' = {}, RunEffect(e.call, e.cmd)
  PROVE  Followed'
<1> SUFFICES ASSUME ~refused', ~strays' PROVE Followed'
  BY DEF Followed
<1> DEFINE c == e.cmd
           n == Len(undoCommands)
           m == Len(redoCommands)
<1>1. c \in Known /\ e.call \in {"undo", "redo"} /\ UNCHANGED <<undoCommands, redoCommands, highestId>>
  BY DEF KnownEffect, RunEffect
<1>2. ~strays /\ c.scene = scene /\ ~refused
  <2>1. strays \in BOOLEAN /\ refused \in BOOLEAN
    BY DEF Inv, FlagsTyped
  <2>2. ~strays /\ c.scene = scene
    BY <2>1 DEF RunEffect
  <2>3. refused' = refused \/ refused' = TRUE
    <3>1. \/ \E f \in {c.before, c.after} : AddNode(c, f) \/ TurnNode(c, f)
          \/ RemoveNode(c)
      BY <1>1, Typing DEF RunEffect
    <3>2. CASE RemoveNode(c)
      BY <3>2 DEF RemoveNode, RemoveById, RemoveLastNode
    <3> QED BY <3>1, <3>2 DEF AddNode, TurnNode
  <2> QED BY <2>1, <2>2, <2>3
<1>3. PICK T : Chain(T, undoCommands, redoCommands, KnownNode) /\ Shown(T)
  BY <1>2 DEF Followed
<1>4. undoCommands \in Seq(Own) /\ redoCommands \in Seq(Own) /\ n \in Nat /\ m \in Nat
  BY Typing, LenProperties
<1>5. e \in Coming
  BY <1>2
<1>6. ToSet(snapshot') = T[n]
  <2>1. CASE e.call = "undo"
    <3>1. redoCommands # <<>> /\ c = Last(redoCommands) /\ ToSet(snapshot) = T[n + 1]
      BY <1>3, <1>5, <2>1 DEF Shown
    <3>2. m > 0 /\ c = redoCommands[m]
      <4>1. redoCommands \in Seq(Own) /\ redoCommands # <<>>
        BY <1>4, <3>1
      <4>2. Len(redoCommands) \in Nat \ {0} /\ Last(redoCommands) = redoCommands[Len(redoCommands)]
        BY <4>1, StackFacts
      <4> QED BY <3>1, <4>2
    <3>3. Nth(undoCommands, redoCommands, n + 1) = c /\ n + 1 \in 1..n + m /\ n \in 0..n + m
      BY <1>4, <3>2 DEF Nth
    <3>4. Doable(T[n], c) /\ T[n + 1] = Redone(T[n], c) /\ Apart(T[n]) /\ T[n] \subseteq KnownNode
      <4>1. (n + 1) - 1 = n
        BY <1>4
      <4> QED BY <1>3, <3>3, <4>1 DEF Chain
    <3> HIDE DEF n, m, c
    <3>5. RunEffect("undo", c)
      BY <2>1 DEF c
    <3> QED BY <1>1, <3>1, <3>4, <3>5, EffectShows
  <2>2. CASE e.call = "redo"
    <3>1. undoCommands # <<>> /\ c = Last(undoCommands) /\ ToSet(snapshot) = T[n - 1]
      BY <1>3, <1>5, <2>2 DEF Shown
    <3>2. n > 0 /\ c = undoCommands[n]
      <4>1. undoCommands \in Seq(Own) /\ undoCommands # <<>>
        BY <1>4, <3>1
      <4>2. Len(undoCommands) \in Nat \ {0} /\ Last(undoCommands) = undoCommands[Len(undoCommands)]
        BY <4>1, StackFacts
      <4> QED BY <3>1, <4>2
    <3>3. Nth(undoCommands, redoCommands, n) = c /\ n \in 1..n + m /\ n - 1 \in 0..n + m
      BY <1>4, <3>2 DEF Nth
    <3>4. Doable(T[n - 1], c) /\ T[n] = Redone(T[n - 1], c) /\ Apart(T[n - 1]) /\ T[n - 1] \subseteq KnownNode
      BY <1>3, <3>3 DEF Chain
    <3> HIDE DEF n, m, c
    <3>5. RunEffect("redo", c)
      BY <2>2 DEF c
    <3> QED BY <1>1, <3>1, <3>4, <3>5, EffectShows
  <2> QED BY <1>1, <2>1, <2>2
<1>7. Shown(T)'
  BY <1>1, <1>6 DEF Shown
<1>8. Chain(T, undoCommands, redoCommands, KnownNode)'
  BY <1>1, <1>3 DEF Chain, Base, KnownNode
<1> QED BY <1>7, <1>8 DEF Followed

\* With nothing of the history or the scene changed, the history still stands.
LEMMA SameHistory ==
  ASSUME Followed, Coming' = Coming,
         UNCHANGED <<undoCommands, redoCommands, snapshot, highestId, alive, refused, strays>>
  PROVE  Followed'
<1> SUFFICES ASSUME alive, ~refused, ~strays
             PROVE  (\E T : Chain(T, undoCommands, redoCommands, KnownNode) /\ Shown(T))'
  BY DEF Followed
<1>1. PICK T : Chain(T, undoCommands, redoCommands, KnownNode) /\ Shown(T)
  BY DEF Followed
<1>2. Chain(T, undoCommands, redoCommands, KnownNode)'
  BY <1>1 DEF Chain, Base, KnownNode
<1>3. Shown(T)'
  BY <1>1 DEF Shown
<1> QED BY <1>2, <1>3

\* A taken command has moved between the stacks; its effect is what is coming.
LEMMA TakeFollows ==
  ASSUME Inv, Followed, NEW t \in Threads, TakeUndo(t) \/ TakeRedo(t),
         updateQueue = <<>>, \A u \in Threads : taken[u] = Nothing,
         UNCHANGED <<updateQueue, snapshot, highestId, alive, scene, refused, strays>>
  PROVE  Followed'
<1> SUFFICES ASSUME alive, ~refused, ~strays
             PROVE  (\E T : Chain(T, undoCommands, redoCommands, KnownNode) /\ Shown(T))'
  BY DEF Followed
<1>1. PICK T : Chain(T, undoCommands, redoCommands, KnownNode) /\ Shown(T)
  BY DEF Followed
<1>2. Coming = {}
  BY DEF Coming, Nothing, ToSet
<1>3. ToSet(snapshot) = T[Len(undoCommands)]
  BY <1>1, <1>2 DEF Shown
<1>4. undoCommands \in Seq(Own) /\ redoCommands \in Seq(Own) /\ taken \in [Threads -> KnownEffect \cup {Nothing}]
  BY Typing DEF Inv, CallsInv
<1>5. ASSUME NEW e, taken' = [taken EXCEPT ![t] = e], NEW d \in Coming' PROVE d = e
  <2>1. \A u \in Threads : taken'[u] = e \/ taken'[u] = Nothing
    BY <1>4, <1>5
  <2>2. Nothing.call \notin {"undo", "redo"}
    BY DEF Nothing
  <2>3. ToSet(updateQueue') = {}
    BY DEF ToSet
  <2> QED BY <1>5, <2>1, <2>2, <2>3 DEF Coming
<1>6. ASSUME NEW e, taken' = [taken EXCEPT ![t] = e], e.call \in {"undo", "redo"}, e.cmd.scene = scene
      PROVE  e \in Coming'
  <2>1. taken'[t] = e
    BY <1>4, <1>6
  <2> QED BY <1>6, <2>1 DEF Coming
<1>7. \A c \in Own : c.scene = scene
  BY DEF Own
<1>8. CASE TakeUndo(t)
  <2> DEFINE c == Last(undoCommands)
             e == [call |-> "undo", cmd |-> c]
  <2>1. /\ undoCommands # <<>> /\ undoCommands' = Front(undoCommands)
        /\ redoCommands' = Append(redoCommands, c) /\ taken' = [taken EXCEPT ![t] = e]
    BY <1>8 DEF TakeUndo, Stacks!MoveToRedo, Stacks!Front, Stacks!Last, Front, Last
  <2>2. /\ Len(undoCommands) \in Nat \ {0} /\ Len(undoCommands') = Len(undoCommands) - 1 /\ c \in Own
    BY <1>4, <2>1, StackFacts
  <2>3. redoCommands' # <<>> /\ Last(redoCommands') = c
    <3> HIDE DEF c
    <3>1. Len(redoCommands') = Len(redoCommands) + 1 /\ redoCommands'[Len(redoCommands) + 1] = c
          /\ Len(redoCommands) \in Nat
      BY <1>4, <2>1, <2>2, AppendProperties
    <3>2. redoCommands' # <<>>
      BY <3>1
    <3> QED BY <3>1, <3>2 DEF Last
  <2>4. Chain(T, undoCommands', redoCommands', KnownNode)
    BY <1>1, <1>4, <2>1, ChainMoves
  <2>5. Chain(T, undoCommands, redoCommands, KnownNode)'
    BY <2>4 DEF Chain, Base, KnownNode
  <2>6. e.call = "undo" /\ e.cmd = c /\ c.scene = scene
    BY <1>7, <2>2
  <2> HIDE DEF c, e
  <2>7. e \in Coming' /\ \A d \in Coming' : d = e
    BY <1>5, <1>6, <2>1, <2>6
  <2>8. Len(undoCommands') + 1 = Len(undoCommands)
    BY <2>2
  <2>9. Shown(T)'
    BY <1>3, <2>3, <2>6, <2>7, <2>8 DEF Shown
  <2> QED BY <2>5, <2>9
<1>9. CASE TakeRedo(t)
  <2> DEFINE c == Last(redoCommands)
             e == [call |-> "redo", cmd |-> c]
  <2>1. /\ redoCommands # <<>> /\ redoCommands' = Front(redoCommands)
        /\ undoCommands' = Append(undoCommands, c) /\ taken' = [taken EXCEPT ![t] = e]
    BY <1>9 DEF TakeRedo, Stacks!MoveToUndo, Stacks!Front, Stacks!Last, Front, Last
  <2>2. c \in Own
    BY <1>4, <2>1, StackFacts
  <2>3. undoCommands' # <<>> /\ Last(undoCommands') = c /\ Len(undoCommands') - 1 = Len(undoCommands)
    <3> HIDE DEF c
    <3>1. Len(undoCommands') = Len(undoCommands) + 1 /\ undoCommands'[Len(undoCommands) + 1] = c
          /\ Len(undoCommands) \in Nat
      BY <1>4, <2>1, <2>2, AppendProperties
    <3>2. undoCommands' # <<>>
      BY <3>1
    <3> QED BY <3>1, <3>2 DEF Last
  <2>4. Chain(T, undoCommands', redoCommands', KnownNode)
    BY <1>1, <1>4, <2>1, ChainMoves
  <2>5. Chain(T, undoCommands, redoCommands, KnownNode)'
    BY <2>4 DEF Chain, Base, KnownNode
  <2>6. e.call = "redo" /\ e.cmd = c /\ c.scene = scene
    BY <1>7, <2>2
  <2> HIDE DEF c, e
  <2>7. e \in Coming' /\ \A d \in Coming' : d = e
    BY <1>5, <1>6, <2>1, <2>6
  <2>9. Shown(T)'
    BY <1>3, <2>3, <2>6, <2>7 DEF Shown
  <2> QED BY <2>5, <2>9
<1> QED BY <1>8, <1>9

\* What a settled user finds, and one thing put under way.
LEMMA Idle ==
  ASSUME Inv, UserMayAct, Patient = TRUE
  PROVE  /\ preQueue = <<>> /\ updateQueue = <<>> /\ \A t \in Threads : taken[t] = Nothing
         /\ taken \in [Threads -> KnownEffect \cup {Nothing}]
         /\ Coming = {}
<1>1. preQueue = <<>> /\ updateQueue = <<>> /\ \A t \in Threads : taken[t] = Nothing
  BY DEF UserMayAct, Settled
<1>2. Coming = {}
  BY <1>1 DEF Coming, Nothing, ToSet
<1> QED BY <1>1, <1>2 DEF Inv, CallsInv

\* Of two queues with one call between them.
LEMMA Single ==
  ASSUME NEW p \in Nat, NEW q \in Nat, NEW r \in Nat, r >= 1, r <= p, p + q <= 1
  PROVE  p = 1 /\ q = 0
  OBVIOUS

\* What the user and the threads that queue effects do.
LEMMA UserHist ==
  ASSUME Inv, One, Followed, Patient = TRUE, User \/ \E t \in Threads : QueueEffect(t)
  PROVE  One' /\ Followed'
<1>1. ASSUME NEW kind \in Kinds, NEW family \in FamiliesOf(kind), ClickEdit(kind, family) PROVE One' /\ Followed'
  <2> DEFINE e == [call |-> "edit", kind |-> kind, family |-> family]
  <2>1. /\ UserMayAct /\ updateQueue' = Append(updateQueue, e)
        /\ UNCHANGED <<manager, taken, preQueue, place, flags>>
    BY <1>1 DEF ClickEdit
  <2>2. preQueue = <<>> /\ updateQueue = <<>> /\ Coming = {} /\ \A t \in Threads : taken[t] = Nothing
    BY <2>1, Idle
  <2>3. e.call = "edit"
    OBVIOUS
  <2> HIDE DEF e
  <2>4. Len(updateQueue') = 1 /\ ToSet(updateQueue') = {e}
    BY <2>1, <2>2 DEF ToSet
  <2>5. Coming' = {}
    BY <2>1, <2>2, <2>3, <2>4 DEF Coming, Nothing
  <2>6. Followed'
    BY <2>1, <2>2, <2>5, SameHistory DEF manager, place, flags
  <2>7. One'
    BY <2>1, <2>2, <2>4 DEF One
  <2> QED BY <2>6, <2>7
<1>2. ASSUME NEW what \in {"undo", "redo"}, PressHotkey(what) PROVE One' /\ Followed'
  <2>1. /\ UserMayAct /\ preQueue' = Append(preQueue, what)
        /\ UNCHANGED <<manager, taken, updateQueue, place, flags>>
    BY <1>2 DEF PressHotkey
  <2>2. preQueue = <<>> /\ updateQueue = <<>> /\ \A t \in Threads : taken[t] = Nothing
    BY <2>1, Idle
  <2>3. Coming' = Coming
    BY <2>1 DEF Coming, place
  <2>4. Followed'
    BY <2>1, <2>3, SameHistory DEF manager, place, flags
  <2>5. One'
    BY <2>1, <2>2 DEF One
  <2> QED BY <2>4, <2>5
<1>3. CASE ClickUndoOrRedo
  <2>1. /\ UserMayAct /\ (TakeUndo("ui") \/ TakeRedo("ui"))
        /\ UNCHANGED <<preQueue, updateQueue, place, flags>>
    BY <1>3 DEF ClickUndoOrRedo
  <2>2. /\ preQueue = <<>> /\ updateQueue = <<>> /\ \A t \in Threads : taken[t] = Nothing
        /\ taken \in [Threads -> KnownEffect \cup {Nothing}]
    BY <2>1, Idle
  <2>3. Followed'
    BY <2>1, <2>2, TakeFollows DEF Threads, place, flags
  <2>4. \A u \in Threads \ {"ui"} : taken'[u] = Nothing
    BY <2>1, <2>2 DEF TakeUndo, TakeRedo
  <2>5. One'
    <3>1. ASSUME NEW t \in Threads, taken'[t] # Nothing
          PROVE \A u \in Threads \ {t} : taken'[u] = Nothing
      BY <2>4, <3>1
    <3> QED BY <2>1, <2>2, <3>1 DEF One
  <2> QED BY <2>3, <2>5
<1>4. ASSUME NEW t \in Threads, QueueEffect(t) PROVE One' /\ Followed'
  <2>1. /\ taken[t] # Nothing /\ updateQueue' = Append(updateQueue, taken[t])
        /\ taken' = [taken EXCEPT ![t] = Nothing]
        /\ UNCHANGED <<manager, preQueue, place, flags>>
    BY <1>4 DEF QueueEffect
  <2>2. /\ preQueue = <<>> /\ updateQueue = <<>> /\ \A u \in Threads \ {t} : taken[u] = Nothing
        /\ taken \in [Threads -> KnownEffect \cup {Nothing}]
    BY <2>1 DEF One, Inv, CallsInv
  <2>3. \A u \in Threads : taken'[u] = Nothing
    BY <2>1, <2>2
  <2> DEFINE e == taken[t]
  <2>4. Len(updateQueue') = 1 /\ ToSet(updateQueue') = {e}
    <3> HIDE DEF e
    <3>1. updateQueue' = <<e>>
      BY <2>1, <2>2 DEF e
    <3> QED BY <3>1 DEF ToSet
  <2>5. Nothing.call \notin {"undo", "redo"} /\ ToSet(updateQueue) = {}
    BY <2>2 DEF Nothing, ToSet
  <2>6. Coming' = Coming
    <3> HIDE DEF e
    <3>1. scene' = scene
      BY <2>1 DEF place
    <3>2. \A u \in Threads : taken[u] = e \/ taken[u] = Nothing
      BY <2>2 DEF e
    <3>3. \A d : d \in Coming <=> (d = e /\ d.call \in {"undo", "redo"} /\ d.cmd.scene = scene)
      BY <2>5, <3>2 DEF Coming, e
    <3>4. \A d : d \in Coming' <=> (d = e /\ d.call \in {"undo", "redo"} /\ d.cmd.scene = scene)
      BY <2>3, <2>4, <2>5, <3>1 DEF Coming
    <3> QED BY <3>3, <3>4
  <2>7. Followed'
    BY <2>1, <2>6, SameHistory DEF manager, place, flags
  <2>8. One'
    BY <2>1, <2>2, <2>3, <2>4 DEF One
  <2> QED BY <2>7, <2>8
<1> QED BY <1>1, <1>2, <1>3, <1>4 DEF User

\* What the frame does.
LEMMA HotkeyHist ==
  ASSUME Inv, One, Followed, RunHotkey
  PROVE  One' /\ Followed'
<1>1. /\ phase = "pre" /\ remaining > 0 /\ preQueue' = Tail(preQueue)
      /\ UNCHANGED <<updateQueue, place, flags>>
  BY DEF RunHotkey
<1>2. TakeUndo("game") \/ TakeRedo("game") \/ UNCHANGED <<undoCommands, redoCommands, taken>>
  BY DEF RunHotkey
<1>3. remaining \in Nat /\ remaining <= Len(preQueue) /\ Len(preQueue) \in Nat /\ Len(updateQueue) \in Nat
      /\ preQueue \in Seq({"undo", "redo"}) /\ taken \in [Threads -> KnownEffect \cup {Nothing}]
      /\ updateQueue \in Seq(Edit \cup KnownEffect)
  BY <1>1, Numbers DEF Inv, FrameInv, CallsInv
<1>4. Len(preQueue) = 1 /\ Len(updateQueue) = 0 /\ \A t \in Threads : taken[t] = Nothing
  <2>1. preQueue # <<>>
    BY <1>1, <1>3
  <2>2. \A t \in Threads : taken[t] = Nothing
    BY <2>1 DEF One
  <2>3. remaining >= 1 /\ remaining <= Len(preQueue)
    BY <1>1, <1>3
  <2>4. Len(preQueue) + Len(updateQueue) <= 1
    BY DEF One
  <2>5. Len(preQueue) = 1 /\ Len(updateQueue) = 0
    BY <1>3, <2>3, <2>4, Single
  <2> QED BY <2>2, <2>5
<1>5. updateQueue = <<>> /\ preQueue' = <<>>
  <2>1. updateQueue = <<>>
    BY <1>3, <1>4, EmptySeq
  <2>2. preQueue # <<>>
    BY <1>4
  <2>3. Tail(preQueue) \in Seq({"undo", "redo"}) /\ Len(Tail(preQueue)) = 0
    BY <1>3, <1>4, <2>2, HeadTailProperties
  <2> QED BY <1>1, <2>1, <2>3, EmptySeq
<1>6. \A u \in Threads \ {"game"} : taken'[u] = Nothing
  BY <1>2, <1>3, <1>4 DEF TakeUndo, TakeRedo
<1>7. One'
  <2>1. ASSUME NEW t \in Threads, taken'[t] # Nothing
        PROVE \A u \in Threads \ {t} : taken'[u] = Nothing
    BY <1>6, <2>1
  <2> QED BY <1>1, <1>5, <2>1 DEF One
<1>8. CASE TakeUndo("game") \/ TakeRedo("game")
  <2>1. Followed'
    BY <1>1, <1>4, <1>5, <1>8, TakeFollows DEF Threads, place, flags
  <2> QED BY <1>7, <2>1
<1>9. CASE UNCHANGED <<undoCommands, redoCommands, taken>>
  <2>1. Coming' = Coming
    BY <1>1, <1>9 DEF Coming, place
  <2>2. Followed'
    BY <1>1, <1>9, <2>1, SameHistory DEF place, flags
  <2> QED BY <1>7, <2>2
<1> QED BY <1>2, <1>8, <1>9

LEMMA UpdateHist ==
  ASSUME Inv, Inv', One, Followed, Families = {"live"}, RunUpdateCall
  PROVE  One' /\ Followed'
<1> DEFINE next == Head(updateQueue)
<1>1. /\ phase = "update" /\ remaining > 0 /\ updateQueue' = Tail(updateQueue)
      /\ UNCHANGED <<taken, preQueue, alive, scene>>
      /\ IF next.call = "edit" THEN RunEdit(next) ELSE RunEffect(next.call, next.cmd)
  BY DEF RunUpdateCall
<1>2. /\ remaining \in Nat /\ remaining <= Len(updateQueue) /\ alive
      /\ Len(preQueue) \in Nat /\ Len(updateQueue) \in Nat
      /\ preQueue \in Seq({"undo", "redo"}) /\ updateQueue \in Seq(Edit \cup KnownEffect)
  BY <1>1, Numbers DEF Inv, FrameInv, CallsInv
<1>3. Len(updateQueue) = 1 /\ Len(preQueue) = 0 /\ \A t \in Threads : taken[t] = Nothing
  <2>1. updateQueue # <<>>
    BY <1>1, <1>2
  <2>2. \A t \in Threads : taken[t] = Nothing
    BY <2>1 DEF One
  <2>3. remaining >= 1 /\ remaining <= Len(updateQueue)
    BY <1>1, <1>2
  <2>4. Len(preQueue) + Len(updateQueue) <= 1
    BY DEF One
  <2>5. Len(updateQueue) = 1 /\ Len(preQueue) = 0
    <3>1. Len(updateQueue) + Len(preQueue) <= 1
      BY <1>2, <2>4
    <3> QED BY <1>2, <2>3, <3>1, Single
  <2> QED BY <2>2, <2>5
<1>4. preQueue = <<>> /\ updateQueue' = <<>> /\ next \in Edit \cup KnownEffect /\ updateQueue = <<next>>
  <2>1. preQueue = <<>>
    BY <1>2, <1>3, EmptySeq
  <2>2. updateQueue # <<>>
    BY <1>3
  <2>3. /\ Tail(updateQueue) \in Seq(Edit \cup KnownEffect) /\ Len(Tail(updateQueue)) = 0
        /\ next \in Edit \cup KnownEffect
    BY <1>2, <1>3, <2>2, HeadTailProperties
  <2>4. updateQueue = <<next>>
    <3>1. DOMAIN updateQueue = {1} /\ next = updateQueue[1]
      BY <1>2, <1>3, LenProperties
    <3> QED BY <1>2, <1>3, <3>1
  <2> QED BY <1>1, <2>1, <2>3, <2>4, EmptySeq
<1> HIDE DEF next
<1>5. One'
  BY <1>1, <1>3, <1>4 DEF One
<1>6. Coming' = {}
  BY <1>1, <1>3, <1>4 DEF Coming, Nothing, ToSet
<1>7. ToSet(updateQueue) = {next} /\ Nothing.call \notin {"undo", "redo"}
  BY <1>4 DEF ToSet, Nothing
<1>8. CASE next.call = "edit"
  <2>1. next \in Edit
    BY <1>4, <1>8 DEF KnownEffect
  <2>2. Coming = {}
    BY <1>3, <1>7, <1>8 DEF Coming
  <2>3. Followed'
    BY <1>1, <1>2, <1>6, <1>8, <2>1, <2>2, EditFollows
  <2> QED BY <1>5, <2>3
<1>9. CASE next.call # "edit"
  <2>1. next \in KnownEffect
    BY <1>4, <1>9 DEF Edit
  <2>2. next.cmd.scene = scene => next \in Coming
    <3>1. next.call \in {"undo", "redo"}
      BY <2>1 DEF KnownEffect
    <3> QED BY <1>7, <3>1 DEF Coming
  <2>3. Followed'
    BY <1>1, <1>2, <1>6, <1>9, <2>1, <2>2, EffectFollows
  <2> QED BY <1>5, <2>3
<1> QED BY <1>8, <1>9

LEMMA FrameHist ==
  ASSUME Inv, One, Followed,
         BeginUpdate \/ EndUpdate \/ NextFrame \/ Teardown \/ ClearOnCleanup \/ LoadScene
  PROVE  One' /\ Followed'
<1>1. UNCHANGED <<taken, preQueue, updateQueue, highestId, flags>>
  BY DEF BeginUpdate, EndUpdate, NextFrame, Teardown, ClearOnCleanup, LoadScene, place
<1>2. One'
  BY <1>1 DEF One
<1>3. CASE BeginUpdate \/ EndUpdate \/ NextFrame
  <2>1. UNCHANGED <<manager, place>>
    BY <1>3 DEF BeginUpdate, EndUpdate, NextFrame
  <2>2. Coming' = Coming
    BY <1>1, <2>1 DEF Coming, place
  <2>3. Followed'
    BY <1>1, <2>1, <2>2, SameHistory DEF manager, place, flags
  <2> QED BY <1>2, <2>3
<1>4. CASE Teardown
  <2>1. ~alive'
    BY <1>4 DEF Teardown
  <2>2. Followed'
    BY <2>1 DEF Followed
  <2> QED BY <1>2, <2>2
<1>5. CASE ClearOnCleanup
  <2>1. ~alive'
    BY <1>5 DEF ClearOnCleanup, place, Inv, FrameInv
  <2>2. Followed'
    BY <2>1 DEF Followed
  <2> QED BY <1>2, <2>2
<1>6. CASE LoadScene
  <2>1. /\ phase = "end" /\ ~alive /\ scene' = scene + 1
        /\ snapshot' = AuthoredNodes(DefaultFacing) /\ UNCHANGED manager
    BY <1>6 DEF LoadScene
  <2>2. undoCommands' = <<>> /\ redoCommands' = <<>>
    BY <2>1 DEF Inv, StacksInv, manager
  <2>3. Coming' = {}
    <3>1. taken \in [Threads -> KnownEffect \cup {Nothing}] /\ updateQueue \in Seq(Edit \cup KnownEffect)
      BY DEF Inv, CallsInv
    <3>2. ToSet(updateQueue) \subseteq Edit \cup KnownEffect
      <4>1. DOMAIN updateQueue = 1..Len(updateQueue)
        BY <3>1, LenProperties
      <4> QED BY <3>1, <4>1, ElementOfSeq DEF ToSet
    <3>3. \A e \in KnownEffect : e.cmd.scene # scene + 1
      BY Numbers DEF KnownEffect, Known
    <3>4. \A e \in Edit : e.call \notin {"undo", "redo"}
      BY DEF Edit
    <3>5. Nothing.call \notin {"undo", "redo"}
      BY DEF Nothing
    <3> QED BY <1>1, <2>1, <3>1, <3>2, <3>3, <3>4, <3>5 DEF Coming
  <2>4. highestId \in Nat /\ Len(Authored) <= highestId
    BY DEF Inv, NodesInv
  <2>5. PICK T : Chain(T, <<>>, <<>>, KnownNode) /\ T[0] = Base
    BY <2>4, NewChain
  <2>6. Chain(T, undoCommands', redoCommands', KnownNode')
    BY <1>1, <2>2, <2>5 DEF KnownNode
  <2>7. Shown(T)'
    BY <2>1, <2>2, <2>3, <2>5 DEF Shown, Base
  <2>8. Chain(T, undoCommands, redoCommands, KnownNode)'
    BY <2>6 DEF Chain, Base
  <2>9. Followed'
    BY <2>7, <2>8 DEF Followed
  <2> QED BY <1>2, <2>9
<1> QED BY <1>3, <1>4, <1>5, <1>6

LEMMA NextHist ==
  ASSUME Families = {"live"}, Patient = TRUE
  PROVE  Inv /\ One /\ Followed /\ [Next]_vars => (One /\ Followed)'
<1> SUFFICES ASSUME Inv, One, Followed, [Next]_vars PROVE One' /\ Followed'
  OBVIOUS
<1>1. Inv'
  BY NextInv
<1>2. CASE User \/ \E t \in Threads : QueueEffect(t)
  BY <1>2, UserHist
<1>3. CASE Game
  BY <1>1, <1>3, HotkeyHist, UpdateHist, FrameHist DEF Game
<1>4. CASE UNCHANGED vars
  <2>1. One' /\ Coming' = Coming
    BY <1>4 DEF vars, One, Coming
  <2> QED BY <1>4, <2>1, SameHistory DEF vars
<1> QED BY <1>2, <1>3, <1>4 DEF Next

\* Nothing is coming: the snapshot is where the chain of the undo stack ends.
LEMMA ShowsHistory == Inv /\ One /\ Followed => SnapshotIsHistory
<1> SUFFICES ASSUME Inv, Followed, Settled, alive, ~refused, ~strays
             PROVE  ToSet(snapshot) = FoldLeft(Redone, Base, undoCommands)
  BY DEF SnapshotIsHistory, Base
<1>1. PICK T : Chain(T, undoCommands, redoCommands, KnownNode) /\ Shown(T)
  BY DEF Followed
<1>2. Coming = {}
  BY DEF Coming, Nothing, ToSet, Settled
<1>3. ToSet(snapshot) = T[Len(undoCommands)]
  BY <1>1, <1>2 DEF Shown
<1>4. undoCommands \in Seq(Own) /\ redoCommands \in Seq(Own) /\ Len(undoCommands) \in Nat /\ Len(redoCommands) \in Nat
  BY Typing, LenProperties
<1>5. \A i \in 1..Len(undoCommands) : T[i] = Redone(T[i - 1], undoCommands[i])
  BY <1>1, <1>4 DEF Chain, Nth
<1>6. T[0] = Base
  BY <1>1 DEF Chain
<1> QED BY <1>3, <1>4, <1>5, <1>6, FoldIsChain

-----------------------------------------------------------------------------
(***************************************************************************)
(* Theorems.                                                               *)
(***************************************************************************)
LEMMA InvAlways == Spec => []Inv
  BY InitInv, NextInv, PTL DEF Spec

\* Every variable keeps its type: no drain asks an empty queue, and no id is given
\* out that no click asked for.
THEOREM TypeCorrect == Spec => []TypeOK
  BY InvAlways, InvIsTyped, PTL

\* Undo history does not reach past a scene change, for any user, any interleaving
\* of clicks, hotkeys and teardown, and any number of scenes.
THEOREM HistoryStaysInItsScene == Spec => []HistoryBelongsToScene
<1>1. Inv => HistoryBelongsToScene
  <2> SUFFICES ASSUME Inv, alive, NEW c \in ToSet(undoCommands) \cup ToSet(redoCommands)
               PROVE  c.scene = scene
    BY DEF HistoryBelongsToScene
  <2>1. ASSUME NEW s \in Seq(Own), c \in ToSet(s) PROVE c \in Own
    <3>1. DOMAIN s = 1..Len(s)
      BY LenProperties
    <3> QED BY <2>1, <3>1, ElementOfSeq DEF ToSet
  <2>2. c \in Own
    BY <2>1 DEF Inv, StacksInv
  <2> QED BY <2>2 DEF Own
<1> QED BY <1>1, InvAlways, PTL

\* Live additions and removals, with rotations (which are classic always) between them,
\* never put two nodes with one id into the snapshot, also when a replay runs after a
\* refused removal or in a scene that was loaded anew.
THEOREM LiveIdsAreUnique ==
  ASSUME Families = {"live"}
  PROVE  Spec => []IdsAreUnique
<1>1. Inv => IdsAreUnique
  BY DEF Inv, NodesInv
<1> QED BY <1>1, InvAlways, PTL

\* For a user who adds and removes live nodes, turns them (a classic command) and waits
\* for each action to take effect, undo and redo bring back exactly the nodes that were
\* there: whenever everything has settled, in a first scene or a later one, the snapshot
\* is the authored one with the commands on the undo stack done to it.  For one who clicks on it is false: the undo of an add that finds its node
\* removed by a click in between does nothing, and undoing that removal brings the node back.
THEOREM SnapshotFollowsHistory ==
  ASSUME Families = {"live"}, Patient = TRUE
  PROVE  Spec => []SnapshotIsHistory
<1>1. Spec => [](Inv /\ One /\ Followed)
  BY InitInv, NextInv, InitHist, NextHist, PTL DEF Spec
<1> QED BY <1>1, ShowsHistory, PTL
=============================================================================
