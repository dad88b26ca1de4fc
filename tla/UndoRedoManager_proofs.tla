----------------------- MODULE UndoRedoManager_proofs -----------------------
(***************************************************************************)
(* What UndoRedoManager guarantees for any set of commands, of merging     *)
(* pairs and of calling threads, and what its races leave true.            *)
(***************************************************************************)
EXTENDS UndoRedoRaces, Integers, SequenceTheorems, TLAPS

-----------------------------------------------------------------------------
(***************************************************************************)
(* Sequences, element by element.                                          *)
(***************************************************************************)
\* The first n elements of a sequence.
LEMMA PrefixFacts ==
  ASSUME NEW S, NEW s \in Seq(S), NEW n \in Nat, n <= Len(s)
  PROVE  /\ SubSeq(s, 1, n) \in Seq(S) /\ Len(SubSeq(s, 1, n)) = n
         /\ \A i \in 1..n : SubSeq(s, 1, n)[i] = s[i]
<1>1. \A i \in 1..n : s[i] \in S
  OBVIOUS
<1>2. /\ SubSeq(s, 1, n) \in Seq(S)
      /\ Len(SubSeq(s, 1, n)) = IF 1 <= n THEN n - 1 + 1 ELSE 0
      /\ \A i \in 1 .. n - 1 + 1 : SubSeq(s, 1, n)[i] = s[1 + i - 1]
  BY <1>1, SubSeqProperties
<1>3. (IF 1 <= n THEN n - 1 + 1 ELSE 0) = n /\ n - 1 + 1 = n /\ \A i \in 1..n : 1 + i - 1 = i
  OBVIOUS
<1> QED
  BY <1>2, <1>3

\* Popping: what Front and Last of a stack are.
LEMMA PopFacts ==
  ASSUME NEW S, NEW s \in Seq(S), s # <<>>
  PROVE  /\ Len(s) \in Nat /\ Len(s) >= 1
         /\ Last(s) = s[Len(s)] /\ Last(s) \in S
         /\ Front(s) \in Seq(S) /\ Len(Front(s)) = Len(s) - 1
         /\ \A i \in 1..(Len(s) - 1) : Front(s)[i] = s[i]
<1>1. Len(s) \in Nat /\ Len(s) >= 1 /\ \A i \in 1..Len(s) : s[i] \in S
  OBVIOUS
<1>2. Last(s) = s[Len(s)] /\ Last(s) \in S
  BY <1>1 DEF Last
<1> DEFINE m == Len(s) - 1
<1>3. Front(s) = SubSeq(s, 1, m) /\ m \in Nat /\ m <= Len(s)
  BY <1>1 DEF Front
<1> HIDE DEF m
<1>4. /\ SubSeq(s, 1, m) \in Seq(S) /\ Len(SubSeq(s, 1, m)) = m
      /\ \A i \in 1..m : SubSeq(s, 1, m)[i] = s[i]
  BY <1>3, PrefixFacts
<1>5. Front(s) \in Seq(S) /\ Len(Front(s)) = m /\ \A i \in 1..m : Front(s)[i] = s[i]
  BY <1>3, <1>4, Zenon
<1> QED
  BY <1>1, <1>2, <1>5 DEF m

\* Pushing.
LEMMA PushFacts ==
  ASSUME NEW S, NEW s \in Seq(S), NEW x \in S
  PROVE  /\ Append(s, x) \in Seq(S)
         /\ Len(s) \in Nat /\ Len(Append(s, x)) = Len(s) + 1
         /\ \A i \in 1..Len(s) : Append(s, x)[i] = s[i]
         /\ Append(s, x)[Len(s) + 1] = x
  OBVIOUS

LEMMA DomainOfSeq ==
  ASSUME NEW S, NEW s \in Seq(S)
  PROVE  DOMAIN s = 1..Len(s) /\ Len(s) \in Nat /\ \A i \in 1..Len(s) : s[i] \in S
  OBVIOUS

\* Moving the top of one stack to another.
LEMMA MoveFacts ==
  ASSUME NEW S, NEW from \in Seq(S), NEW to \in Seq(S), from # <<>>
  PROVE  /\ Len(from) \in Nat /\ Len(from) >= 1 /\ Len(to) \in Nat
         /\ DOMAIN Front(from) = 1..(Len(from) - 1)
         /\ \A i \in 1..(Len(from) - 1) : Front(from)[i] = from[i]
         /\ DOMAIN Append(to, Last(from)) = 1..(Len(to) + 1)
         /\ \A i \in 1..Len(to) : Append(to, Last(from))[i] = to[i]
         /\ Append(to, Last(from))[Len(to) + 1] = from[Len(from)]
<1>1. /\ Front(from) \in Seq(S) /\ Len(Front(from)) = Len(from) - 1
      /\ Last(from) = from[Len(from)] /\ Last(from) \in S
      /\ Len(from) \in Nat /\ Len(from) >= 1
      /\ \A i \in 1..(Len(from) - 1) : Front(from)[i] = from[i]
  BY PopFacts
<1>2. /\ Append(to, Last(from)) \in Seq(S) /\ Len(Append(to, Last(from))) = Len(to) + 1
      /\ Len(to) \in Nat
      /\ \A i \in 1..Len(to) : Append(to, Last(from))[i] = to[i]
      /\ Append(to, Last(from))[Len(to) + 1] = Last(from)
  BY <1>1, PushFacts
<1>3. DOMAIN Front(from) = 1..(Len(from) - 1)
  BY <1>1, DomainOfSeq
<1>4. DOMAIN Append(to, Last(from)) = 1..(Len(to) + 1)
  BY <1>2, DomainOfSeq
<1> QED
  BY <1>1, <1>2, <1>3, <1>4

-----------------------------------------------------------------------------
(***************************************************************************)
(* Type correctness.                                                       *)
(***************************************************************************)
\* An Undo or Redo in progress holds a command; only these calls hold one.
Holding ==
  \A t \in Callers :
    pc[t] \in {"undoing", "redoing"} => held[t] \in Commands

Typed == TypeOK /\ Holding

LEMMA InitTyped == Init => Typed
<1> SUFFICES ASSUME Init PROVE Typed
  OBVIOUS
<1>1. undoCommands \in Seq(Commands) /\ redoCommands \in Seq(Commands)
  BY DEF Init, EmptyStacks
<1>2. pc \in [Callers -> Points] /\ held \in [Callers -> Commands \cup {None}]
  BY DEF Init, Points
<1>3. seen \in [Callers -> BOOLEAN] /\ undoEnabled \in BOOLEAN /\ redoEnabled \in BOOLEAN
  BY Zenon DEF Init
<1>4. raised \subseteq Commands /\ applied \subseteq Commands
  BY DEF Init
<1>5. Holding
  BY DEF Init, Holding
<1> QED
  BY <1>1, <1>2, <1>3, <1>4, <1>5 DEF TypeOK, Typed

LEMMA NextTyped == Typed /\ [Next]_vars => Typed'
<1> SUFFICES ASSUME Typed, [Next]_vars
             PROVE  Typed'
  OBVIOUS
<1> USE DEF Typed, TypeOK, Holding, Points, Goto
<1>1. ASSUME NEW t \in Callers, NEW c \in Commands, RaiseAndPush(t, c)
      PROVE  Typed'
  BY <1>1, PushFacts DEF RaiseAndPush, Push
<1>2. ASSUME NEW t \in Callers, NEW c \in Commands, RaiseAndMerge(t, c)
      PROVE  Typed'
  BY <1>2 DEF RaiseAndMerge, Absorb, stacks
<1>3. ASSUME NEW t \in Callers, UndoTakes(t)
      PROVE  Typed'
  BY <1>3, PopFacts, PushFacts DEF UndoTakes, MoveToRedo
<1>4. ASSUME NEW t \in Callers, UndoRuns(t)
      PROVE  Typed'
  BY <1>4 DEF UndoRuns
<1>5. ASSUME NEW t \in Callers, RedoTakes(t)
      PROVE  Typed'
  BY <1>5, PopFacts, PushFacts DEF RedoTakes, MoveToUndo
<1>6. ASSUME NEW t \in Callers, RedoRuns(t)
      PROVE  Typed'
  BY <1>6 DEF RedoRuns
<1>7. ASSUME NEW t \in Callers, Clear(t)
      PROVE  Typed'
  BY <1>7 DEF Clear, DropAll
<1>8. ASSUME NEW t \in Callers, Refresh(t)
      PROVE  Typed'
  <2>1. pc' \in [Callers -> Points]
    BY <1>8 DEF Refresh, ReadUndoCount, EnableUndo, ReadRedoCount, EnableRedo
  <2>2. seen' \in [Callers -> BOOLEAN]
    BY <1>8, Zenon DEF Refresh, ReadUndoCount, EnableUndo, ReadRedoCount, EnableRedo
  <2>3. undoEnabled' \in BOOLEAN /\ redoEnabled' \in BOOLEAN
    BY <1>8, Zenon DEF Refresh, ReadUndoCount, EnableUndo, ReadRedoCount, EnableRedo
  <2>4. UNCHANGED <<undoCommands, redoCommands, held, raised, applied>>
    BY <1>8 DEF Refresh, ReadUndoCount, EnableUndo, ReadRedoCount, EnableRedo
  <2>5. Holding'
    BY <1>8 DEF Refresh, ReadUndoCount, EnableUndo, ReadRedoCount, EnableRedo
  <2> QED
    BY <2>1, <2>2, <2>3, <2>4, <2>5
<1>9. CASE UNCHANGED vars
  BY <1>9 DEF vars
<1> QED
  BY <1>1, <1>2, <1>3, <1>4, <1>5, <1>6, <1>7, <1>8, <1>9 DEF Next

LEMMA AlwaysTyped == Spec => []Typed
<1>1. Init => Typed
  BY InitTyped
<1>2. Typed /\ [Next]_vars => Typed'
  BY NextTyped
<1> QED
  BY <1>1, <1>2, PTL DEF Spec

\* The stacks hold commands, the program counters points of a call, the buttons
\* booleans, whatever the threads do.
THEOREM TypeCorrect == Spec => []TypeOK
<1>1. Typed => TypeOK
  BY DEF Typed
<1> QED
  BY <1>1, AlwaysTyped, PTL

-----------------------------------------------------------------------------
(***************************************************************************)
(* No command is in the history twice.  A command is raised once, so what  *)
(* keeps a push from doubling one is that everything on the stacks has     *)
(* been raised.                                                            *)
(***************************************************************************)
StackedIsRaised ==
  /\ \A i \in DOMAIN undoCommands : undoCommands[i] \in raised
  /\ \A i \in DOMAIN redoCommands : redoCommands[i] \in raised

Single == NoCommandTwice /\ StackedIsRaised

LEMMA InitSingle == Init => Single
  BY DEF Init, EmptyStacks, Single, NoCommandTwice, StackedIsRaised

LEMMA NextSingle == Typed /\ Single /\ [Next]_vars => Single'
<1> SUFFICES ASSUME Typed, Single, [Next]_vars
             PROVE  Single'
  OBVIOUS
<1>t. undoCommands \in Seq(Commands) /\ redoCommands \in Seq(Commands)
  BY DEF Typed, TypeOK
<1>d. DOMAIN undoCommands = 1..Len(undoCommands) /\ DOMAIN redoCommands = 1..Len(redoCommands)
  BY <1>t, DomainOfSeq
<1>1. ASSUME NEW t \in Callers, NEW c \in Commands, RaiseAndPush(t, c)
      PROVE  Single'
  <2>1. /\ DOMAIN undoCommands' = 1..(Len(undoCommands) + 1) /\ Len(undoCommands) \in Nat
        /\ \A i \in 1..Len(undoCommands) : undoCommands'[i] = undoCommands[i]
        /\ undoCommands'[Len(undoCommands) + 1] = c
    <3>1. undoCommands' = Append(undoCommands, c)
      BY <1>1 DEF RaiseAndPush, Push
    <3>2. Append(undoCommands, c) \in Seq(Commands)
      BY <1>t, PushFacts
    <3> QED
      BY <1>t, <3>1, <3>2, PushFacts, DomainOfSeq
  <2>2. redoCommands' = <<>> /\ raised' = raised \cup {c} /\ c \notin raised
    BY <1>1 DEF RaiseAndPush, Push
  <2>3. \A i \in 1..Len(undoCommands) : undoCommands'[i] # c
    BY <1>d, <2>1, <2>2 DEF Single, StackedIsRaised
  <2> QED
    BY <1>d, <2>1, <2>2, <2>3 DEF Single, NoCommandTwice, StackedIsRaised
<1>2. ASSUME NEW t \in Callers, NEW c \in Commands, RaiseAndMerge(t, c)
      PROVE  Single'
  BY <1>2 DEF RaiseAndMerge, Absorb, stacks, Single, NoCommandTwice, StackedIsRaised
<1>3. ASSUME NEW t \in Callers, UndoTakes(t)
      PROVE  Single'
  <2>1. /\ undoCommands # <<>> /\ undoCommands' = Front(undoCommands)
        /\ redoCommands' = Append(redoCommands, Last(undoCommands))
        /\ raised' = raised
    BY <1>3 DEF UndoTakes, MoveToRedo
  <2>2. /\ Len(undoCommands) \in Nat /\ Len(undoCommands) >= 1 /\ Len(redoCommands) \in Nat
        /\ DOMAIN undoCommands' = 1..(Len(undoCommands) - 1)
        /\ \A i \in 1..(Len(undoCommands) - 1) : undoCommands'[i] = undoCommands[i]
        /\ DOMAIN redoCommands' = 1..(Len(redoCommands) + 1)
        /\ \A i \in 1..Len(redoCommands) : redoCommands'[i] = redoCommands[i]
        /\ redoCommands'[Len(redoCommands) + 1] = undoCommands[Len(undoCommands)]
    BY <1>t, <2>1, MoveFacts
  <2> QED
    BY <1>d, <2>1, <2>2 DEF Single, NoCommandTwice, StackedIsRaised
<1>4. ASSUME NEW t \in Callers, UndoRuns(t)
      PROVE  Single'
  BY <1>4 DEF UndoRuns, Single, NoCommandTwice, StackedIsRaised
<1>5. ASSUME NEW t \in Callers, RedoTakes(t)
      PROVE  Single'
  <2>1. /\ redoCommands # <<>> /\ redoCommands' = Front(redoCommands)
        /\ undoCommands' = Append(undoCommands, Last(redoCommands))
        /\ raised' = raised
    BY <1>5 DEF RedoTakes, MoveToUndo
  <2>2. /\ Len(redoCommands) \in Nat /\ Len(redoCommands) >= 1 /\ Len(undoCommands) \in Nat
        /\ DOMAIN redoCommands' = 1..(Len(redoCommands) - 1)
        /\ \A i \in 1..(Len(redoCommands) - 1) : redoCommands'[i] = redoCommands[i]
        /\ DOMAIN undoCommands' = 1..(Len(undoCommands) + 1)
        /\ \A i \in 1..Len(undoCommands) : undoCommands'[i] = undoCommands[i]
        /\ undoCommands'[Len(undoCommands) + 1] = redoCommands[Len(redoCommands)]
    BY <1>t, <2>1, MoveFacts
  <2> QED
    BY <1>d, <2>1, <2>2 DEF Single, NoCommandTwice, StackedIsRaised
<1>6. ASSUME NEW t \in Callers, RedoRuns(t)
      PROVE  Single'
  BY <1>6 DEF RedoRuns, Single, NoCommandTwice, StackedIsRaised
<1>7. ASSUME NEW t \in Callers, Clear(t)
      PROVE  Single'
  BY <1>7 DEF Clear, DropAll, Single, NoCommandTwice, StackedIsRaised
<1>8. ASSUME NEW t \in Callers, Refresh(t)
      PROVE  Single'
  BY <1>8 DEF Refresh, ReadUndoCount, EnableUndo, ReadRedoCount, EnableRedo, Single, NoCommandTwice, StackedIsRaised
<1>9. CASE UNCHANGED vars
  BY <1>9 DEF vars, Single, NoCommandTwice, StackedIsRaised
<1> QED
  BY <1>1, <1>2, <1>3, <1>4, <1>5, <1>6, <1>7, <1>8, <1>9 DEF Next

LEMMA AlwaysSingle == Spec => []Single
<1>1. Init => Single
  BY InitSingle
<1>2. Typed /\ Single /\ [Next]_vars => Single'
  BY NextSingle
<1> QED
  BY <1>1, <1>2, AlwaysTyped, PTL DEF Spec

\* However many threads call AddUndoCommand, Undo, Redo and Clear, and however
\* their calls interleave, no command is on a stack twice or on both stacks.
THEOREM NeverTwice == Spec => []NoCommandTwice
<1>1. Single => NoCommandTwice
  BY DEF Single
<1> QED
  BY <1>1, AlwaysSingle, PTL

-----------------------------------------------------------------------------
(***************************************************************************)
(* The record of the races is one of the manager's own steps.              *)
(***************************************************************************)
LEMMA RacesAreOfTheManager == RacesSpec => Spec
<1>1. RacesInit => Init
  BY DEF RacesInit
<1>2. [RacesNext]_<<vars, history>> => [Next]_vars
  BY DEF RacesNext
<1> QED
  BY <1>1, <1>2, PTL DEF RacesSpec, Spec

-----------------------------------------------------------------------------
(***************************************************************************)
(* The stacks and the world.  A command that is not contested has one      *)
(* holder at most.  While this call is between the stack change and the    *)
(* effect, the command cannot come back to the stack it was taken from:    *)
(* whoever moved it would contest it, and a raised command is not raised   *)
(* again.                                                                  *)
(***************************************************************************)
Holds(t) == pc[t] \in {"undoing", "redoing"}

InFlight ==
  \A t \in Callers :
    /\ Holds(t) => held[t] \in raised
    /\ pc[t] = "undoing" /\ held[t] \notin contested =>
         \A i \in DOMAIN undoCommands : undoCommands[i] # held[t]
    /\ pc[t] = "redoing" /\ held[t] \notin contested =>
         \A i \in DOMAIN redoCommands : redoCommands[i] # held[t]

OneHolder ==
  \A t, u \in Callers :
    Holds(t) /\ Holds(u) /\ held[t] = held[u] /\ held[t] \notin contested => t = u

World == contested \subseteq Commands /\ InFlight /\ OneHolder /\ StacksDescribeWorld

LEMMA InitWorld == RacesInit => World
  BY DEF RacesInit, Init, EmptyStacks, World, InFlight, OneHolder, Holds, StacksDescribeWorld, ToSet

\* The call that takes a command contests it if another one still holds it.
LEMMA TakingContests ==
  ASSUME Typed, Contest, contested \subseteq Commands,
         NEW t \in Callers, NEW c \in Commands, NEW p \in {"undoing", "redoing"},
         pc[t] = "idle", pc' = [pc EXCEPT ![t] = p], held' = [held EXCEPT ![t] = c]
  PROVE  /\ contested' \subseteq Commands
         /\ \A d \in Commands \ {c} : d \in contested' <=> d \in contested
         /\ c \notin contested' => \A u \in Callers : ~(Holds(u) /\ held[u] = c)
         /\ pc'[t] = p /\ held'[t] = c
         /\ \A u \in Callers \ {t} : pc'[u] = pc[u] /\ held'[u] = held[u]
<1>1. pc \in [Callers -> Points] /\ held \in [Callers -> Commands \cup {None}]
  BY DEF Typed, TypeOK
<1>2. /\ pc'[t] = p /\ held'[t] = c
      /\ \A u \in Callers \ {t} : pc'[u] = pc[u] /\ held'[u] = held[u]
  BY <1>1
<1>3. \A d \in Commands \ {c} : Holders(d)' \subseteq Holders(d)
  BY <1>2 DEF Holders
<1>4. t \in Holders(c)' /\ t \notin Holders(c)
  BY <1>2 DEF Holders
<1>5. c \in contested' <=> Holders(c) # {}
  BY <1>4 DEF Contest
<1>6. \A d \in Commands \ {c} : d \in contested' <=> d \in contested
  BY <1>3 DEF Contest
<1> QED
  BY <1>2, <1>5, <1>6 DEF Contest, Holders, Holds

\* Any other step leaves contested what is.
LEMMA NothingTaken ==
  ASSUME Contest, contested \subseteq Commands,
         \A u \in Callers : Holds(u)' => Holds(u) /\ held'[u] = held[u]
  PROVE  contested' = contested
<1>1. \A d \in Commands : Holders(d)' \subseteq Holders(d)
  BY DEF Holders, Holds
<1> QED
  BY <1>1 DEF Contest

LEMMA NextWorld ==
  Typed /\ Single /\ World /\ [RacesNext]_<<vars, history>> => World'
<1> SUFFICES ASSUME Typed, Single, World, [RacesNext]_<<vars, history>>
             PROVE  World'
  OBVIOUS
<1>t. undoCommands \in Seq(Commands) /\ redoCommands \in Seq(Commands)
  BY DEF Typed, TypeOK
<1>d. DOMAIN undoCommands = 1..Len(undoCommands) /\ DOMAIN redoCommands = 1..Len(redoCommands)
  BY <1>t, DomainOfSeq
<1>h. pc \in [Callers -> Points] /\ held \in [Callers -> Commands \cup {None}]
  BY DEF Typed, TypeOK
<1>c. contested \subseteq Commands
  BY DEF World
<1>1. ASSUME NEW t \in Callers, NEW c \in Commands, RaiseAndPush(t, c), Contest
      PROVE  World'
  <2>1. /\ undoCommands' = Append(undoCommands, c) /\ redoCommands' = <<>>
        /\ c \notin raised /\ raised' = raised \cup {c} /\ applied' = applied \cup {c}
        /\ held' = held /\ pc[t] = "idle" /\ pc' = [pc EXCEPT ![t] = "readUndo"]
    BY <1>1 DEF RaiseAndPush, Push, Goto
  <2>2. Append(undoCommands, c) \in Seq(Commands)
    BY <1>t, PushFacts
  <2>3. /\ DOMAIN undoCommands' = 1..(Len(undoCommands) + 1) /\ Len(undoCommands) \in Nat
        /\ \A i \in 1..Len(undoCommands) : undoCommands'[i] = undoCommands[i]
        /\ undoCommands'[Len(undoCommands) + 1] = c
    BY <1>t, <2>1, <2>2, PushFacts, DomainOfSeq
  <2>4. \A u \in Callers : \A p \in {"undoing", "redoing"} : pc[u] = p <=> pc'[u] = p
    BY <2>1, <1>h
  <2>5. contested' = contested
    BY <1>1, <1>c, <2>1, <2>4, NothingTaken DEF Holds
  <2>6. InFlight' /\ OneHolder'
    BY <1>d, <2>1, <2>3, <2>4, <2>5 DEF World, InFlight, OneHolder, Holds
  <2>7. StacksDescribeWorld'
    BY <1>d, <2>1, <2>3, <2>4, <2>5
       DEF World, StacksDescribeWorld, UndoPending, RedoPending, ToSet
  <2> QED
    BY <1>c, <2>5, <2>6, <2>7 DEF World
<1>2. ASSUME NEW t \in Callers, NEW c \in Commands, RaiseAndMerge(t, c), Contest
      PROVE  World'
  <2>1. /\ UNCHANGED <<undoCommands, redoCommands, pc, held, applied>>
        /\ raised' = raised \cup {c}
    BY <1>2 DEF RaiseAndMerge, Absorb, stacks
  <2>2. contested' = contested
    BY <1>2, <1>c, <2>1, NothingTaken DEF Holds
  <2> QED
    BY <1>c, <2>1, <2>2
       DEF World, InFlight, OneHolder, Holds, StacksDescribeWorld, UndoPending, RedoPending, ToSet
<1>3. ASSUME NEW t \in Callers, UndoTakes(t), Contest
      PROVE  World'
  <2>1. /\ undoCommands # <<>> /\ undoCommands' = Front(undoCommands)
        /\ redoCommands' = Append(redoCommands, Last(undoCommands))
        /\ raised' = raised /\ applied' = applied
        /\ pc[t] = "idle"
        /\ held' = [held EXCEPT ![t] = Last(undoCommands)]
        /\ pc' = [pc EXCEPT ![t] = "undoing"]
    BY <1>3 DEF UndoTakes, MoveToRedo, Goto
  <2>2. /\ Len(undoCommands) \in Nat /\ Len(undoCommands) >= 1 /\ Len(redoCommands) \in Nat
        /\ DOMAIN undoCommands' = 1..(Len(undoCommands) - 1)
        /\ \A i \in 1..(Len(undoCommands) - 1) : undoCommands'[i] = undoCommands[i]
        /\ DOMAIN redoCommands' = 1..(Len(redoCommands) + 1)
        /\ \A i \in 1..Len(redoCommands) : redoCommands'[i] = redoCommands[i]
        /\ redoCommands'[Len(redoCommands) + 1] = undoCommands[Len(undoCommands)]
    BY <1>t, <2>1, MoveFacts
  <2> DEFINE c == undoCommands[Len(undoCommands)]
  <2>3. Last(undoCommands) = c
    BY DEF Last
  <2>4. c \in Commands
    BY <1>t, <2>2
  <2>5. /\ c \in raised
        /\ \A i \in 1..(Len(undoCommands) - 1) : undoCommands[i] # c
        /\ \A i \in 1..Len(redoCommands) : redoCommands[i] # c
    BY <1>d, <2>2 DEF Single, NoCommandTwice, StackedIsRaised
  <2> HIDE DEF c
  <2>6. /\ contested' \subseteq Commands
        /\ \A d \in Commands \ {c} : d \in contested' <=> d \in contested
        /\ c \notin contested' => \A u \in Callers : ~(Holds(u) /\ held[u] = c)
        /\ pc'[t] = "undoing" /\ held'[t] = c
        /\ \A u \in Callers \ {t} : pc'[u] = pc[u] /\ held'[u] = held[u]
    BY <1>3, <1>c, <2>1, <2>3, <2>4, TakingContests
  <2>7. \A u \in Callers \ {t} : Holds(u) => held[u] \in Commands
    BY DEF Typed, Holding, Holds
  <2>8. InFlight'
    <3>1. ASSUME NEW u \in Callers \ {t}, Holds(u), held[u] \notin contested'
          PROVE  held[u] # c /\ held[u] \notin contested
      BY <2>6, <2>7, <3>1
    <3>2. \A u \in Callers \ {t} : Holds(u) => held[u] \in raised
      BY DEF World, InFlight
    <3>3. \A i \in DOMAIN undoCommands' : undoCommands'[i] # c
      BY <2>2, <2>5
    <3>4. \A i \in DOMAIN redoCommands' : redoCommands'[i] = c \/ (i \in DOMAIN redoCommands /\ redoCommands'[i] = redoCommands[i])
      BY <1>d, <2>2 DEF c
    <3>5. \A i \in DOMAIN undoCommands' : i \in DOMAIN undoCommands /\ undoCommands'[i] = undoCommands[i]
      BY <1>d, <2>2
    <3>6. ASSUME NEW u \in Callers \ {t}, Holds(u), held[u] \notin contested'
          PROVE  /\ pc[u] = "undoing" => \A i \in DOMAIN undoCommands' : undoCommands'[i] # held[u]
                 /\ pc[u] = "redoing" => \A i \in DOMAIN redoCommands' : redoCommands'[i] # held[u]
      <4>1. held[u] # c /\ held[u] \notin contested
        BY <3>1, <3>6
      <4>2. /\ pc[u] = "undoing" => \A i \in DOMAIN undoCommands : undoCommands[i] # held[u]
            /\ pc[u] = "redoing" => \A i \in DOMAIN redoCommands : redoCommands[i] # held[u]
        BY <4>1 DEF World, InFlight
      <4> QED
        BY <3>4, <3>5, <4>1, <4>2
    <3>7. ASSUME NEW u \in Callers \ {t}, Holds(u)'
          PROVE  Holds(u) /\ held'[u] = held[u] /\ pc'[u] = pc[u]
      BY <2>6, <3>7 DEF Holds
    <3>8. held'[t] \in raised' /\ (\A i \in DOMAIN undoCommands' : undoCommands'[i] # held'[t])
      BY <2>1, <2>5, <2>6, <3>3
    <3>9. ASSUME NEW u \in Callers \ {t}
          PROVE  /\ Holds(u)' => held'[u] \in raised'
                 /\ pc'[u] = "undoing" /\ held'[u] \notin contested' =>
                      \A i \in DOMAIN undoCommands' : undoCommands'[i] # held'[u]
                 /\ pc'[u] = "redoing" /\ held'[u] \notin contested' =>
                      \A i \in DOMAIN redoCommands' : redoCommands'[i] # held'[u]
      <4>1. CASE Holds(u)'
        BY <2>1, <3>2, <3>6, <3>7, <4>1
      <4>2. CASE ~Holds(u)'
        BY <4>2 DEF Holds
      <4> QED
        BY <4>1, <4>2
    <3> QED
      BY <2>6, <3>8, <3>9 DEF InFlight
  <2>9. OneHolder'
    BY <2>6, <2>7 DEF World, OneHolder, Holds
  <2>10. StacksDescribeWorld'
    <3>1. ASSUME NEW i \in DOMAIN undoCommands', undoCommands'[i] \notin contested'
          PROVE  \/ undoCommands'[i] \in applied
                 \/ \E u \in Callers : pc'[u] = "redoing" /\ held'[u] = undoCommands'[i]
      <4>1. i \in DOMAIN undoCommands /\ undoCommands'[i] = undoCommands[i] /\ undoCommands[i] # c /\ undoCommands[i] \in Commands
        BY <1>t, <1>d, <2>2, <2>5
      <4>2. undoCommands[i] \notin contested
        BY <2>6, <3>1, <4>1
      <4>3. undoCommands[i] \in applied \/ RedoPending(undoCommands[i])
        BY <4>1, <4>2 DEF World, StacksDescribeWorld, ToSet
      <4>4. \A u \in Callers : pc[u] = "redoing" => pc'[u] = pc[u] /\ held'[u] = held[u]
        BY <2>1, <2>6
      <4> QED
        BY <4>1, <4>3, <4>4 DEF UndoPending, RedoPending
    <3>2. ASSUME NEW i \in DOMAIN redoCommands', redoCommands'[i] \notin contested'
          PROVE  \/ redoCommands'[i] \notin applied
                 \/ \E u \in Callers : pc'[u] = "undoing" /\ held'[u] = redoCommands'[i]
      <4>1. CASE redoCommands'[i] = c
        BY <2>6, <4>1
      <4>2. CASE redoCommands'[i] # c
        <5>1. i \in DOMAIN redoCommands /\ redoCommands'[i] = redoCommands[i] /\ redoCommands[i] \in Commands
          BY <1>t, <1>d, <2>2, <4>2 DEF c
        <5>2. redoCommands[i] \notin contested
          BY <2>6, <3>2, <4>2, <5>1
        <5>3. redoCommands[i] \notin applied \/ UndoPending(redoCommands[i])
          BY <5>1, <5>2 DEF World, StacksDescribeWorld, ToSet
        <5>4. \A u \in Callers : pc[u] = "undoing" => pc'[u] = pc[u] /\ held'[u] = held[u]
          BY <2>1, <2>6
        <5> QED
          BY <5>1, <5>3, <5>4 DEF UndoPending, RedoPending
      <4> QED
        BY <4>1, <4>2
    <3> QED
      BY <2>1, <3>1, <3>2 DEF StacksDescribeWorld, UndoPending, RedoPending, ToSet
  <2> QED
    BY <2>6, <2>8, <2>9, <2>10 DEF World
<1>4. ASSUME NEW t \in Callers, UndoRuns(t), Contest
      PROVE  World'
  <2>1. /\ pc[t] = "undoing" /\ applied' = applied \ {held[t]}
        /\ held' = [held EXCEPT ![t] = None] /\ pc' = [pc EXCEPT ![t] = "readUndo"]
        /\ UNCHANGED <<undoCommands, redoCommands, raised>>
    BY <1>4 DEF UndoRuns, Goto
  <2>2. pc'[t] = "readUndo" /\ \A u \in Callers \ {t} : pc'[u] = pc[u] /\ held'[u] = held[u]
    BY <2>1, <1>h
  <2>3. contested' = contested
    BY <1>4, <1>c, <2>2, NothingTaken DEF Holds
  <2>4. InFlight' /\ OneHolder'
    BY <2>1, <2>2, <2>3 DEF World, InFlight, OneHolder, Holds
  <2>5. \A u \in Callers \ {t} : Holds(u) /\ held[u] \notin contested => held[u] # held[t]
    BY <2>1 DEF World, OneHolder, Holds
  <2>6. StacksDescribeWorld'
    BY <2>1, <2>2, <2>3, <2>5
       DEF World, InFlight, Holds, StacksDescribeWorld, UndoPending, RedoPending, ToSet
  <2> QED
    BY <1>c, <2>3, <2>4, <2>6 DEF World
<1>5. ASSUME NEW t \in Callers, RedoTakes(t), Contest
      PROVE  World'
  <2>1. /\ redoCommands # <<>> /\ redoCommands' = Front(redoCommands)
        /\ undoCommands' = Append(undoCommands, Last(redoCommands))
        /\ raised' = raised /\ applied' = applied
        /\ pc[t] = "idle"
        /\ held' = [held EXCEPT ![t] = Last(redoCommands)]
        /\ pc' = [pc EXCEPT ![t] = "redoing"]
    BY <1>5 DEF RedoTakes, MoveToUndo, Goto
  <2>2. /\ Len(redoCommands) \in Nat /\ Len(redoCommands) >= 1 /\ Len(undoCommands) \in Nat
        /\ DOMAIN redoCommands' = 1..(Len(redoCommands) - 1)
        /\ \A i \in 1..(Len(redoCommands) - 1) : redoCommands'[i] = redoCommands[i]
        /\ DOMAIN undoCommands' = 1..(Len(undoCommands) + 1)
        /\ \A i \in 1..Len(undoCommands) : undoCommands'[i] = undoCommands[i]
        /\ undoCommands'[Len(undoCommands) + 1] = redoCommands[Len(redoCommands)]
    BY <1>t, <2>1, MoveFacts
  <2> DEFINE c == redoCommands[Len(redoCommands)]
  <2>3. Last(redoCommands) = c
    BY DEF Last
  <2>4. c \in Commands
    BY <1>t, <2>2
  <2>5. /\ c \in raised
        /\ \A i \in 1..(Len(redoCommands) - 1) : redoCommands[i] # c
        /\ \A i \in 1..Len(undoCommands) : undoCommands[i] # c
    BY <1>d, <2>2 DEF Single, NoCommandTwice, StackedIsRaised
  <2> HIDE DEF c
  <2>6. /\ contested' \subseteq Commands
        /\ \A d \in Commands \ {c} : d \in contested' <=> d \in contested
        /\ c \notin contested' => \A u \in Callers : ~(Holds(u) /\ held[u] = c)
        /\ pc'[t] = "redoing" /\ held'[t] = c
        /\ \A u \in Callers \ {t} : pc'[u] = pc[u] /\ held'[u] = held[u]
    BY <1>5, <1>c, <2>1, <2>3, <2>4, TakingContests
  <2>7. \A u \in Callers \ {t} : Holds(u) => held[u] \in Commands
    BY DEF Typed, Holding, Holds
  <2>8. InFlight'
    <3>1. ASSUME NEW u \in Callers \ {t}, Holds(u), held[u] \notin contested'
          PROVE  held[u] # c /\ held[u] \notin contested
      BY <2>6, <2>7, <3>1
    <3>2. \A u \in Callers \ {t} : Holds(u) => held[u] \in raised
      BY DEF World, InFlight
    <3>3. \A i \in DOMAIN redoCommands' : redoCommands'[i] # c
      BY <2>2, <2>5
    <3>4. \A i \in DOMAIN undoCommands' : undoCommands'[i] = c \/ (i \in DOMAIN undoCommands /\ undoCommands'[i] = undoCommands[i])
      BY <1>d, <2>2 DEF c
    <3>5. \A i \in DOMAIN redoCommands' : i \in DOMAIN redoCommands /\ redoCommands'[i] = redoCommands[i]
      BY <1>d, <2>2
    <3>6. ASSUME NEW u \in Callers \ {t}, Holds(u), held[u] \notin contested'
          PROVE  /\ pc[u] = "undoing" => \A i \in DOMAIN undoCommands' : undoCommands'[i] # held[u]
                 /\ pc[u] = "redoing" => \A i \in DOMAIN redoCommands' : redoCommands'[i] # held[u]
      <4>1. held[u] # c /\ held[u] \notin contested
        BY <3>1, <3>6
      <4>2. /\ pc[u] = "undoing" => \A i \in DOMAIN undoCommands : undoCommands[i] # held[u]
            /\ pc[u] = "redoing" => \A i \in DOMAIN redoCommands : redoCommands[i] # held[u]
        BY <4>1 DEF World, InFlight
      <4> QED
        BY <3>4, <3>5, <4>1, <4>2
    <3>7. ASSUME NEW u \in Callers \ {t}, Holds(u)'
          PROVE  Holds(u) /\ held'[u] = held[u] /\ pc'[u] = pc[u]
      BY <2>6, <3>7 DEF Holds
    <3>8. held'[t] \in raised' /\ (\A i \in DOMAIN redoCommands' : redoCommands'[i] # held'[t])
      BY <2>1, <2>5, <2>6, <3>3
    <3>9. ASSUME NEW u \in Callers \ {t}
          PROVE  /\ Holds(u)' => held'[u] \in raised'
                 /\ pc'[u] = "undoing" /\ held'[u] \notin contested' =>
                      \A i \in DOMAIN undoCommands' : undoCommands'[i] # held'[u]
                 /\ pc'[u] = "redoing" /\ held'[u] \notin contested' =>
                      \A i \in DOMAIN redoCommands' : redoCommands'[i] # held'[u]
      <4>1. CASE Holds(u)'
        BY <2>1, <3>2, <3>6, <3>7, <4>1
      <4>2. CASE ~Holds(u)'
        BY <4>2 DEF Holds
      <4> QED
        BY <4>1, <4>2
    <3> QED
      BY <2>6, <3>8, <3>9 DEF InFlight
  <2>9. OneHolder'
    BY <2>6, <2>7 DEF World, OneHolder, Holds
  <2>10. StacksDescribeWorld'
    <3>1. ASSUME NEW i \in DOMAIN redoCommands', redoCommands'[i] \notin contested'
          PROVE  \/ redoCommands'[i] \notin applied
                 \/ \E u \in Callers : pc'[u] = "undoing" /\ held'[u] = redoCommands'[i]
      <4>1. i \in DOMAIN redoCommands /\ redoCommands'[i] = redoCommands[i] /\ redoCommands[i] # c /\ redoCommands[i] \in Commands
        BY <1>t, <1>d, <2>2, <2>5
      <4>2. redoCommands[i] \notin contested
        BY <2>6, <3>1, <4>1
      <4>3. redoCommands[i] \notin applied \/ UndoPending(redoCommands[i])
        BY <4>1, <4>2 DEF World, StacksDescribeWorld, ToSet
      <4>4. \A u \in Callers : pc[u] = "undoing" => pc'[u] = pc[u] /\ held'[u] = held[u]
        BY <2>1, <2>6
      <4> QED
        BY <4>1, <4>3, <4>4 DEF UndoPending, RedoPending
    <3>2. ASSUME NEW i \in DOMAIN undoCommands', undoCommands'[i] \notin contested'
          PROVE  \/ undoCommands'[i] \in applied
                 \/ \E u \in Callers : pc'[u] = "redoing" /\ held'[u] = undoCommands'[i]
      <4>1. CASE undoCommands'[i] = c
        BY <2>6, <4>1
      <4>2. CASE undoCommands'[i] # c
        <5>1. i \in DOMAIN undoCommands /\ undoCommands'[i] = undoCommands[i] /\ undoCommands[i] \in Commands
          BY <1>t, <1>d, <2>2, <4>2 DEF c
        <5>2. undoCommands[i] \notin contested
          BY <2>6, <3>2, <4>2, <5>1
        <5>3. undoCommands[i] \in applied \/ RedoPending(undoCommands[i])
          BY <5>1, <5>2 DEF World, StacksDescribeWorld, ToSet
        <5>4. \A u \in Callers : pc[u] = "redoing" => pc'[u] = pc[u] /\ held'[u] = held[u]
          BY <2>1, <2>6
        <5> QED
          BY <5>1, <5>3, <5>4 DEF UndoPending, RedoPending
      <4> QED
        BY <4>1, <4>2
    <3> QED
      BY <2>1, <3>1, <3>2 DEF StacksDescribeWorld, UndoPending, RedoPending, ToSet
  <2> QED
    BY <2>6, <2>8, <2>9, <2>10 DEF World
<1>6. ASSUME NEW t \in Callers, RedoRuns(t), Contest
      PROVE  World'
  <2>1. /\ pc[t] = "redoing" /\ applied' = applied \cup {held[t]}
        /\ held' = [held EXCEPT ![t] = None] /\ pc' = [pc EXCEPT ![t] = "readUndo"]
        /\ UNCHANGED <<undoCommands, redoCommands, raised>>
    BY <1>6 DEF RedoRuns, Goto
  <2>2. pc'[t] = "readUndo" /\ \A u \in Callers \ {t} : pc'[u] = pc[u] /\ held'[u] = held[u]
    BY <2>1, <1>h
  <2>3. contested' = contested
    BY <1>6, <1>c, <2>2, NothingTaken DEF Holds
  <2>4. InFlight' /\ OneHolder'
    BY <2>1, <2>2, <2>3 DEF World, InFlight, OneHolder, Holds
  <2>5. \A u \in Callers \ {t} : Holds(u) /\ held[u] \notin contested => held[u] # held[t]
    BY <2>1 DEF World, OneHolder, Holds
  <2>6. StacksDescribeWorld'
    BY <2>1, <2>2, <2>3, <2>5
       DEF World, InFlight, Holds, StacksDescribeWorld, UndoPending, RedoPending, ToSet
  <2> QED
    BY <1>c, <2>3, <2>4, <2>6 DEF World
<1>7. ASSUME NEW t \in Callers, Clear(t), Contest
      PROVE  World'
  <2>1. /\ undoCommands' = <<>> /\ redoCommands' = <<>>
        /\ pc[t] = "idle" /\ pc' = [pc EXCEPT ![t] = "readUndo"]
        /\ UNCHANGED <<held, raised, applied>>
    BY <1>7 DEF Clear, DropAll, Goto
  <2>2. contested' = contested
    BY <1>7, <1>c, <1>h, <2>1, NothingTaken DEF Holds
  <2> QED
    BY <1>c, <1>h, <2>1, <2>2
       DEF World, InFlight, OneHolder, Holds, StacksDescribeWorld, UndoPending, RedoPending, ToSet
<1>8. ASSUME NEW t \in Callers, Refresh(t), Contest
      PROVE  World'
  <2>1. /\ UNCHANGED <<undoCommands, redoCommands, held, raised, applied>>
        /\ pc[t] \notin {"undoing", "redoing"}
        /\ \E p \in Points \ {"undoing", "redoing"} : pc' = [pc EXCEPT ![t] = p]
    BY <1>8 DEF Refresh, ReadUndoCount, EnableUndo, ReadRedoCount, EnableRedo, Goto, Points
  <2>2. \A u \in Callers : \A p \in {"undoing", "redoing"} : pc[u] = p <=> pc'[u] = p
    BY <2>1, <1>h
  <2>3. contested' = contested
    BY <1>8, <1>c, <2>1, <2>2, NothingTaken DEF Holds
  <2> QED
    BY <1>c, <2>1, <2>2, <2>3
       DEF World, InFlight, OneHolder, Holds, StacksDescribeWorld, UndoPending, RedoPending, ToSet
<1>9. CASE UNCHANGED <<vars, history>>
  BY <1>9 DEF vars, history, World, InFlight, OneHolder, Holds, StacksDescribeWorld, UndoPending, RedoPending, ToSet
<1> QED
  BY <1>1, <1>2, <1>3, <1>4, <1>5, <1>6, <1>7, <1>8, <1>9 DEF RacesNext, Next

\* However many threads undo, redo, raise, merge and clear: what the stacks say about
\* a command is true at every moment, unless the command was taken while another call
\* was still about to run it.
THEOREM StacksAreTrue == RacesSpec => []StacksDescribeWorld
<1>1. RacesInit => World
  BY InitWorld
<1>2. Typed /\ Single /\ World /\ [RacesNext]_<<vars, history>> => World'
  BY NextWorld
<1>3. World => StacksDescribeWorld
  BY DEF World
<1>4. RacesSpec => [](Typed /\ Single)
  BY RacesAreOfTheManager, AlwaysTyped, AlwaysSingle, PTL
<1> QED
  BY <1>1, <1>2, <1>3, <1>4, PTL DEF RacesSpec

-----------------------------------------------------------------------------
(***************************************************************************)
(* The manager implements UndoHistory: one line of commands, a position.   *)
(***************************************************************************)
LEMMA ReverseFacts ==
  ASSUME NEW S, NEW s \in Seq(S)
  PROVE  /\ Reverse(s) \in Seq(S) /\ Len(Reverse(s)) = Len(s)
         /\ \A i \in 1..Len(s) : Reverse(s)[i] = s[Len(s) - i + 1]
<1>1. Len(s) \in Nat /\ \A i \in 1..Len(s) : s[i] \in S
  OBVIOUS
<1>2. \A i \in 1..Len(s) : Len(s) - i + 1 \in 1..Len(s)
  BY <1>1
<1>3. Reverse(s) = [i \in 1..Len(s) |-> s[Len(s) - i + 1]]
  BY DEF Reverse
<1>4. \A i \in 1..Len(s) : s[Len(s) - i + 1] \in S
  BY <1>1, <1>2
<1>5. Reverse(s) \in Seq(S)
  BY <1>1, <1>3, <1>4, IsASeq
<1>6. DOMAIN Reverse(s) = 1..Len(s)
  BY <1>3
<1>7. Len(Reverse(s)) = Len(s)
  BY <1>1, <1>5, <1>6, LenProperties
<1> QED
  BY <1>3, <1>5, <1>7

LEMMA ReverseOfAppend ==
  ASSUME NEW S, NEW s \in Seq(S), NEW x \in S
  PROVE  Reverse(Append(s, x)) = <<x>> \o Reverse(s)
<1> DEFINE q == Append(s, x)
           n == Len(s)
<1>1. /\ q \in Seq(S) /\ n \in Nat /\ Len(q) = n + 1
      /\ \A i \in 1..n : q[i] = s[i]
      /\ q[n + 1] = x
  BY PushFacts
<1>2. /\ Reverse(s) \in Seq(S) /\ Len(Reverse(s)) = n
      /\ \A i \in 1..n : Reverse(s)[i] = s[n - i + 1]
  BY ReverseFacts
<1>3. <<x>> \in Seq(S) /\ Len(<<x>>) = 1 /\ <<x>>[1] = x
  OBVIOUS
<1> HIDE DEF q, n
<1>4. /\ Reverse(q) \in Seq(S) /\ Len(Reverse(q)) = Len(q)
      /\ \A i \in 1..Len(q) : Reverse(q)[i] = q[Len(q) - i + 1]
  BY <1>1, ReverseFacts
<1> DEFINE v == Reverse(s)
           o == <<x>>
           w == o \o v
<1>5. /\ w \in Seq(S) /\ Len(w) = Len(o) + Len(v)
      /\ \A i \in 1..(Len(o) + Len(v)) : w[i] = IF i <= Len(o) THEN o[i] ELSE v[i - Len(o)]
  <2>1. o \in Seq(S) /\ v \in Seq(S)
    BY <1>2, <1>3
  <2> HIDE DEF o, v
  <2> QED
    BY <2>1, ConcatProperties
<1>6. Len(o) = 1 /\ o[1] = x /\ Len(v) = n /\ \A i \in 1..n : v[i] = s[n - i + 1]
  BY <1>2, <1>3
<1> HIDE DEF o, v, w
<1>7. Len(w) = n + 1 /\ Len(Reverse(q)) = n + 1
  BY <1>1, <1>4, <1>5, <1>6
<1>8. ASSUME NEW i \in 1..(n + 1)
      PROVE  Reverse(q)[i] = w[i]
  <2>1. Reverse(q)[i] = q[(n + 1) - i + 1]
    BY <1>1, <1>4
  <2>2. CASE i = 1
    BY <1>1, <1>5, <1>6, <2>1, <2>2
  <2>3. CASE i > 1
    <3>1. i - 1 \in 1..n /\ (n + 1) - i + 1 \in 1..n /\ n - (i - 1) + 1 = (n + 1) - i + 1
      BY <1>1, <2>3
    <3>2. w[i] = v[i - 1]
      BY <1>1, <1>5, <1>6, <2>3
    <3> QED
      BY <1>1, <1>6, <2>1, <3>1, <3>2
  <2> QED
    BY <1>1, <2>2, <2>3
<1>9. Reverse(q) = w
  BY <1>1, <1>4, <1>5, <1>7, <1>8, SeqEqual
<1> QED
  BY <1>9 DEF q, w, o, v

LEMMA PopPush ==
  ASSUME NEW S, NEW s \in Seq(S), s # <<>>
  PROVE  Append(Front(s), Last(s)) = s
<1>1. /\ Len(s) \in Nat /\ Len(s) >= 1 /\ Last(s) = s[Len(s)] /\ Last(s) \in S
      /\ Front(s) \in Seq(S) /\ Len(Front(s)) = Len(s) - 1
      /\ \A i \in 1..(Len(s) - 1) : Front(s)[i] = s[i]
  BY PopFacts
<1>2. /\ Append(Front(s), Last(s)) \in Seq(S)
      /\ Len(Append(Front(s), Last(s))) = (Len(s) - 1) + 1
      /\ \A i \in 1..(Len(s) - 1) : Append(Front(s), Last(s))[i] = Front(s)[i]
      /\ Append(Front(s), Last(s))[(Len(s) - 1) + 1] = Last(s)
  BY <1>1, PushFacts
<1>3. (Len(s) - 1) + 1 = Len(s)
  BY <1>1
<1>4. \A i \in 1..Len(s) : i \in 1..(Len(s) - 1) \/ i = Len(s)
  BY <1>1
<1>5. \A i \in 1..Len(s) : Append(Front(s), Last(s))[i] = s[i]
  BY <1>1, <1>2, <1>3, <1>4
<1> QED
  BY <1>2, <1>3, <1>5, SeqEqual

\* Moving a command between the stacks leaves the line as it is.
LEMMA MoveKeepsLine ==
  ASSUME NEW S, NEW u \in Seq(S), NEW r \in Seq(S), NEW x \in S
  PROVE  Append(u, x) \o Reverse(r) = u \o Reverse(Append(r, x))
<1>1. Reverse(r) \in Seq(S) /\ <<x>> \in Seq(S)
  BY ReverseFacts
<1>2. Append(u, x) = u \o <<x>>
  BY AppendIsConcat
<1>3. (u \o <<x>>) \o Reverse(r) = u \o (<<x>> \o Reverse(r))
  BY <1>1, ConcatAssociative
<1> QED
  BY <1>2, <1>3, ReverseOfAppend

\* The undo stack is the part of the line up to the position.
LEMMA DonePart ==
  ASSUME NEW S, NEW u \in Seq(S), NEW r \in Seq(S)
  PROVE  /\ SubSeq(u \o Reverse(r), 1, Len(u)) = u
         /\ Len(u \o Reverse(r)) = Len(u) + Len(r)
         /\ Len(u) \in Nat /\ Len(r) \in Nat
<1> DEFINE v == Reverse(r)
           w == u \o v
           z == SubSeq(w, 1, Len(u))
<1>1. v \in Seq(S) /\ Len(v) = Len(r) /\ Len(u) \in Nat /\ Len(r) \in Nat
  BY ReverseFacts
<1> HIDE DEF v
<1>2. /\ w \in Seq(S) /\ Len(w) = Len(u) + Len(v)
      /\ \A i \in 1..(Len(u) + Len(v)) : w[i] = IF i <= Len(u) THEN u[i] ELSE v[i - Len(u)]
  BY <1>1, ConcatProperties
<1> HIDE DEF w
<1>3. \A i \in 1..Len(u) : w[i] = u[i] /\ u[i] \in S
  BY <1>1, <1>2
<1>4. /\ z \in Seq(S) /\ Len(z) = IF 1 <= Len(u) THEN Len(u) - 1 + 1 ELSE 0
      /\ \A i \in 1..(Len(u) - 1 + 1) : z[i] = w[1 + i - 1]
  <2>1. 1 \in Int /\ Len(u) \in Int /\ \A i \in 1..Len(u) : w[i] \in S
    BY <1>1, <1>3
  <2> QED
    BY <2>1, SubSeqProperties
<1> HIDE DEF z
<1>5. Len(z) = Len(u)
  <2>1. CASE Len(u) = 0
    BY <1>4, <2>1
  <2>2. CASE Len(u) >= 1
    BY <1>1, <1>4, <2>2
  <2> QED
    BY <1>1, <2>1, <2>2
<1>6. ASSUME NEW i \in 1..Len(u)
      PROVE  z[i] = u[i]
  <2>1. i \in 1..(Len(u) - 1 + 1) /\ 1 + i - 1 = i
    BY <1>1
  <2> QED
    BY <1>3, <1>4, <2>1
<1>7. z = u
  BY <1>4, <1>5, <1>6, SeqEqual
<1> QED
  BY <1>1, <1>2, <1>7 DEF z, w, v

LEMMA InitHistory == Init => History!Init
  BY DEF Init, EmptyStacks, History!Init, Timeline, Reverse

LEMMA NextHistory ==
  Typed /\ [Next]_vars => [History!Next]_<<Timeline, Len(undoCommands)>>
<1> SUFFICES ASSUME Typed, [Next]_vars
             PROVE  History!Next \/ UNCHANGED <<Timeline, Len(undoCommands)>>
  OBVIOUS
<1>t. undoCommands \in Seq(Commands) /\ redoCommands \in Seq(Commands)
  BY DEF Typed, TypeOK
<1>s. ASSUME UNCHANGED stacks
      PROVE  UNCHANGED <<Timeline, Len(undoCommands)>>
  BY <1>s DEF stacks, Timeline
<1>1. ASSUME NEW t \in Callers, NEW c \in Commands, RaiseAndPush(t, c)
      PROVE  History!Perform(c)
  <2>1. undoCommands' = Append(undoCommands, c) /\ redoCommands' = <<>>
    BY <1>1 DEF RaiseAndPush, Push
  <2>2. Reverse(<<>>) = <<>>
    BY DEF Reverse
  <2>3. Append(undoCommands, c) \in Seq(Commands)
        /\ Len(Append(undoCommands, c)) = Len(undoCommands) + 1
    BY <1>t, PushFacts
  <2>4. Timeline' = Append(undoCommands, c)
    BY <2>1, <2>2, <2>3, ConcatEmptySeq DEF Timeline
  <2>5. SubSeq(Timeline, 1, Len(undoCommands)) = undoCommands
    BY <1>t, DonePart DEF Timeline
  <2> QED
    BY <2>1, <2>3, <2>4, <2>5 DEF History!Perform
<1>2. ASSUME NEW t \in Callers, UndoTakes(t)
      PROVE  History!StepBack
  <2>1. /\ undoCommands # <<>> /\ undoCommands' = Front(undoCommands)
        /\ redoCommands' = Append(redoCommands, Last(undoCommands))
    BY <1>2 DEF UndoTakes, MoveToRedo
  <2>2. /\ Len(undoCommands) > 0 /\ Len(undoCommands') = Len(undoCommands) - 1
        /\ Front(undoCommands) \in Seq(Commands) /\ Last(undoCommands) \in Commands
    BY <1>t, <2>1, PopFacts
  <2>3. Append(Front(undoCommands), Last(undoCommands)) = undoCommands
    BY <1>t, <2>1, PopPush
  <2>4. Timeline' = Timeline
    <3>1. Append(Front(undoCommands), Last(undoCommands)) \o Reverse(redoCommands)
             = Front(undoCommands) \o Reverse(Append(redoCommands, Last(undoCommands)))
      BY <1>t, <2>2, MoveKeepsLine
    <3> QED
      BY <2>1, <2>3, <3>1 DEF Timeline
  <2> QED
    BY <2>2, <2>4 DEF History!StepBack
<1>3. ASSUME NEW t \in Callers, RedoTakes(t)
      PROVE  History!StepForward
  <2>1. /\ redoCommands # <<>> /\ redoCommands' = Front(redoCommands)
        /\ undoCommands' = Append(undoCommands, Last(redoCommands))
    BY <1>3 DEF RedoTakes, MoveToUndo
  <2>2. /\ Len(redoCommands) > 0
        /\ Front(redoCommands) \in Seq(Commands) /\ Last(redoCommands) \in Commands
    BY <1>t, <2>1, PopFacts
  <2>3. Append(Front(redoCommands), Last(redoCommands)) = redoCommands
    BY <1>t, <2>1, PopPush
  <2>4. Timeline' = Timeline
    <3>1. Append(undoCommands, Last(redoCommands)) \o Reverse(Front(redoCommands))
             = undoCommands \o Reverse(Append(Front(redoCommands), Last(redoCommands)))
      BY <1>t, <2>2, MoveKeepsLine
    <3> QED
      BY <2>1, <2>3, <3>1 DEF Timeline
  <2>5. Len(undoCommands') = Len(undoCommands) + 1
    BY <1>t, <2>1, <2>2, PushFacts
  <2>6. Len(undoCommands) < Len(Timeline)
    <3>1. Len(Timeline) = Len(undoCommands) + Len(redoCommands)
          /\ Len(undoCommands) \in Nat /\ Len(redoCommands) \in Nat
      BY <1>t, DonePart DEF Timeline
    <3> QED
      BY <2>2, <3>1
  <2> QED
    BY <2>4, <2>5, <2>6 DEF History!StepForward
<1>4. ASSUME NEW t \in Callers, Clear(t)
      PROVE  History!Forget
  <2>1. undoCommands' = <<>> /\ redoCommands' = <<>>
    BY <1>4 DEF Clear, DropAll
  <2>2. Timeline' = <<>>
    BY <2>1 DEF Timeline, Reverse
  <2> QED
    BY <2>1, <2>2 DEF History!Forget
<1>5. ASSUME NEW t \in Callers, NEW c \in Commands, RaiseAndMerge(t, c)
      PROVE  UNCHANGED stacks
  BY <1>5 DEF RaiseAndMerge, Absorb
<1>6. ASSUME NEW t \in Callers, UndoRuns(t) \/ RedoRuns(t) \/ Refresh(t)
      PROVE  UNCHANGED stacks
  BY <1>6 DEF UndoRuns, RedoRuns, Refresh, ReadUndoCount, EnableUndo, ReadRedoCount,
              EnableRedo, stacks
<1>7. CASE UNCHANGED vars
  BY <1>7, <1>s DEF vars, stacks
<1> QED
  BY <1>1, <1>2, <1>3, <1>4, <1>5, <1>6, <1>7, <1>s DEF Next, History!Next

\* With any number of threads the two stacks behave as one line of commands and
\* a position in it: a raised command cuts off what was ahead, undo and redo move
\* the position one step, Clear forgets the line, and nothing else changes it.
THEOREM ImplementsHistory == Spec => OneLineOfHistory
<1>1. Init => History!Init
  BY InitHistory
<1>2. Typed /\ [Next]_vars => [History!Next]_<<Timeline, Len(undoCommands)>>
  BY NextHistory
<1> QED
  BY <1>1, <1>2, AlwaysTyped, PTL DEF Spec, OneLineOfHistory, History!Spec

-----------------------------------------------------------------------------
(***************************************************************************)
(* The buttons.  One that is wrong is about to be written, or was written  *)
(* late; and a refresh that was not overtaken writes what is true.         *)
(***************************************************************************)
WillWriteUndo(t) == pc[t] \in {"undoing", "redoing", "readUndo", "writeUndo"}
WillWriteRedo(t) == WillWriteUndo(t) \/ pc[t] \in {"readRedo", "writeRedo"}

Refreshing ==
  /\ UndoButtonRight \/ "undo" \in late \/ \E t \in Callers : WillWriteUndo(t)
  /\ RedoButtonRight \/ "redo" \in late \/ \E t \in Callers : WillWriteRedo(t)
  /\ \A t \in Callers \ overtaken :
       /\ pc[t] = "writeUndo" => seen[t] = (undoCommands # <<>>)
       /\ pc[t] = "writeRedo" => seen[t] = (redoCommands # <<>>)

LEMMA InitRefreshing == RacesInit => Refreshing
  BY DEF RacesInit, Init, EmptyStacks, Refreshing, UndoButtonRight, RedoButtonRight

\* A step that writes no button leaves late what is.
LEMMA NothingWritten ==
  ASSUME WriteLate, \A u \in Callers : pc[u] \in {"writeUndo", "writeRedo"} => pc'[u] = pc[u],
         NEW button \in Buttons, button \in late
  PROVE  button \in late'
<1>1. \A u \in Callers : ~Writes(u, button)
  BY DEF Writes
<1> QED
  BY <1>1 DEF WriteLate

LEMMA NextRefreshing ==
  Typed /\ Refreshing /\ [RacesNext]_<<vars, history>> => Refreshing'
<1> SUFFICES ASSUME Typed, Refreshing, [RacesNext]_<<vars, history>>
             PROVE  Refreshing'
  OBVIOUS
<1>h. pc \in [Callers -> Points] /\ seen \in [Callers -> BOOLEAN]
  BY DEF Typed, TypeOK
<1> USE DEF WillWriteUndo, WillWriteRedo, UndoButtonRight, RedoButtonRight, Goto
<1>1. ASSUME NEW t \in Callers, pc[t] \notin {"writeUndo", "writeRedo"},
             pc' = [pc EXCEPT ![t] = "readUndo"] \/ pc' = [pc EXCEPT ![t] = "undoing"]
               \/ pc' = [pc EXCEPT ![t] = "redoing"],
             seen' = seen, Overtake
      PROVE  Refreshing'
  <2>1. WillWriteUndo(t)' /\ WillWriteRedo(t)'
    BY <1>1, <1>h
  <2>2. \A u \in Callers : pc'[u] \in {"writeUndo", "writeRedo"} => pc[u] = pc'[u]
    BY <1>1, <1>h
  <2>3. \A u \in Callers \ overtaken' :
          pc'[u] \in {"writeUndo", "writeRedo"} => u \notin overtaken /\ stacks' = stacks
    BY <1>1, <2>2 DEF Overtake
  <2>4. \A u \in Callers \ overtaken' :
          /\ pc'[u] = "writeUndo" => seen'[u] = (undoCommands' # <<>>)
          /\ pc'[u] = "writeRedo" => seen'[u] = (redoCommands' # <<>>)
    BY <1>1, <2>2, <2>3 DEF Refreshing, stacks
  <2> QED
    BY <2>1, <2>4 DEF Refreshing
<1>2. ASSUME NEW t \in Callers, NEW c \in Commands, RaiseAndPush(t, c), Overtake
      PROVE  Refreshing'
  BY <1>1, <1>2 DEF RaiseAndPush
<1>3. ASSUME NEW t \in Callers, UndoTakes(t) \/ RedoTakes(t), Overtake
      PROVE  Refreshing'
  BY <1>1, <1>3 DEF UndoTakes, RedoTakes
<1>4. ASSUME NEW t \in Callers, UndoRuns(t) \/ RedoRuns(t) \/ Clear(t), Overtake
      PROVE  Refreshing'
  BY <1>1, <1>4 DEF UndoRuns, RedoRuns, Clear
<1>5. ASSUME NEW t \in Callers, NEW c \in Commands, RaiseAndMerge(t, c), Overtake, WriteLate
      PROVE  Refreshing'
  <2>1. UNCHANGED <<undoCommands, redoCommands, pc, seen, undoEnabled, redoEnabled>>
    BY <1>5 DEF RaiseAndMerge, Absorb, stacks
  <2>2. \A button \in Buttons : button \in late => button \in late'
    BY <1>5, <2>1, NothingWritten
  <2>3. \A u \in Callers \ overtaken' : pc[u] \in {"writeUndo", "writeRedo"} => u \notin overtaken
    BY <1>5, <2>1 DEF Overtake
  <2> QED
    BY <2>1, <2>2, <2>3 DEF Refreshing, Buttons
<1>6. ASSUME NEW t \in Callers, ReadUndoCount(t) \/ ReadRedoCount(t), Overtake, WriteLate
      PROVE  Refreshing'
  <2>1. /\ UNCHANGED <<undoCommands, redoCommands, undoEnabled, redoEnabled>>
        /\ \/ /\ pc[t] = "readUndo" /\ pc' = [pc EXCEPT ![t] = "writeUndo"]
              /\ seen' = [seen EXCEPT ![t] = undoCommands # <<>>]
           \/ /\ pc[t] = "readRedo" /\ pc' = [pc EXCEPT ![t] = "writeRedo"]
              /\ seen' = [seen EXCEPT ![t] = redoCommands # <<>>]
    BY <1>6 DEF ReadUndoCount, ReadRedoCount
  <2>2. \A u \in Callers \ {t} : pc'[u] = pc[u] /\ seen'[u] = seen[u]
    BY <1>h, <2>1
  <2>3. \A button \in Buttons : button \in late => button \in late'
    BY <1>6, <2>1, <2>2, NothingWritten
  <2>4. \A u \in (Callers \ {t}) \ overtaken' : pc[u] \in {"writeUndo", "writeRedo"} => u \notin overtaken
    BY <1>6, <2>2 DEF Overtake
  <2>5. /\ pc'[t] = "writeUndo" => seen'[t] = (undoCommands # <<>>)
        /\ pc'[t] = "writeRedo" => seen'[t] = (redoCommands # <<>>)
    BY <1>h, <2>1
  <2>6. \A u \in Callers : (WillWriteUndo(u) => WillWriteUndo(u)') /\ (WillWriteRedo(u) => WillWriteRedo(u)')
    BY <1>h, <2>1, <2>2
  <2> QED
    BY <2>1, <2>2, <2>3, <2>4, <2>5, <2>6 DEF Refreshing, Buttons
<1>7. ASSUME NEW t \in Callers, EnableUndo(t), Overtake, WriteLate
      PROVE  Refreshing'
  <2>1. /\ UNCHANGED <<undoCommands, redoCommands, seen, redoEnabled>>
        /\ pc[t] = "writeUndo" /\ pc' = [pc EXCEPT ![t] = "readRedo"]
        /\ undoEnabled' = seen[t]
    BY <1>7 DEF EnableUndo
  <2>2. pc'[t] = "readRedo" /\ \A u \in Callers \ {t} : pc'[u] = pc[u]
    BY <1>h, <2>1
  <2>3. Writes(t, "undo") /\ \A u \in Callers : ~Writes(u, "redo")
    BY <2>1, <2>2 DEF Writes
  <2>4. ("redo" \in late => "redo" \in late') /\ (t \in overtaken => "undo" \in late')
    BY <1>7, <2>3 DEF WriteLate, Buttons
  <2>5. t \notin overtaken => UndoButtonRight'
    BY <2>1 DEF Refreshing
  <2>6. \A u \in Callers \ overtaken' : pc'[u] \in {"writeUndo", "writeRedo"} => u # t /\ u \notin overtaken
    BY <1>7, <2>2 DEF Overtake
  <2>7. WillWriteRedo(t)'
    BY <2>2
  <2> QED
    BY <2>1, <2>2, <2>4, <2>5, <2>6, <2>7 DEF Refreshing
<1>8. ASSUME NEW t \in Callers, EnableRedo(t), Overtake, WriteLate
      PROVE  Refreshing'
  <2>1. /\ UNCHANGED <<undoCommands, redoCommands, seen, undoEnabled>>
        /\ pc[t] = "writeRedo" /\ pc' = [pc EXCEPT ![t] = "idle"]
        /\ redoEnabled' = seen[t]
    BY <1>8 DEF EnableRedo
  <2>2. pc'[t] = "idle" /\ \A u \in Callers \ {t} : pc'[u] = pc[u]
    BY <1>h, <2>1
  <2>3. Writes(t, "redo") /\ \A u \in Callers : ~Writes(u, "undo")
    BY <2>1, <2>2 DEF Writes
  <2>4. ("undo" \in late => "undo" \in late') /\ (t \in overtaken => "redo" \in late')
    BY <1>8, <2>3 DEF WriteLate, Buttons
  <2>5. t \notin overtaken => RedoButtonRight'
    BY <2>1 DEF Refreshing
  <2>6. \A u \in Callers \ overtaken' : pc'[u] \in {"writeUndo", "writeRedo"} => u # t /\ u \notin overtaken
    BY <1>8, <2>2 DEF Overtake
  <2>7. \A u \in Callers : WillWriteUndo(u) => WillWriteUndo(u)'
    BY <2>1, <2>2
  <2> QED
    BY <2>1, <2>2, <2>4, <2>5, <2>6, <2>7 DEF Refreshing
<1>9. CASE UNCHANGED <<vars, history>>
  BY <1>9 DEF vars, history, Refreshing
<1> QED
  BY <1>2, <1>3, <1>4, <1>5, <1>6, <1>7, <1>8, <1>9 DEF RacesNext, Next, Refresh

\* For any number of threads: a button that is wrong when no call is in progress was
\* written last by a refresh that another thread overtook.  Nothing else makes one
\* wrong; no change of a stack goes without its refresh.
THEOREM WrongButtonsAreOvertaken == RacesSpec => []WrongButtonsAreLate
<1>1. RacesInit => Refreshing
  BY InitRefreshing
<1>2. Typed /\ Refreshing /\ [RacesNext]_<<vars, history>> => Refreshing'
  BY NextRefreshing
<1>3. Refreshing => WrongButtonsAreLate
  BY DEF Refreshing, WrongButtonsAreLate, Quiet, WillWriteUndo, WillWriteRedo
<1>4. RacesSpec => []Typed
  BY RacesAreOfTheManager, AlwaysTyped, PTL
<1> QED
  BY <1>1, <1>2, <1>3, <1>4, PTL DEF RacesSpec
=============================================================================
