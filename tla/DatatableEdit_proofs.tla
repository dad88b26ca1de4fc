------------------------ MODULE DatatableEdit_proofs ------------------------
(***************************************************************************)
(* What the datatable editor guarantees for any file, any types and any    *)
(* number of edits, undos, redos and saves:                                *)
(*   - there is no pending cascade without a flagged cell;                 *)
(*   - the table stays a rectangle of cells of its own;                    *)
(*   - with i commands done it looks as it did when they were first done,  *)
(*     and what a save writes is what the user sees, under the conditions  *)
(*     the two properties state.                                           *)
(* The second is proved from the sequences up: what inserting, removing    *)
(* and moving an element does; then what each operation does to the layout *)
(* of a table; then what a command needs, and leaves behind to be undone;  *)
(* then the stack of commands; then the steps.  The third compares the     *)
(* table with one that has not been through the undos: tables that look    *)
(* alike are taken to such by similar commands, a command is undone to     *)
(* where it was done, and the history is a chain of such tables.           *)
(***************************************************************************)
EXTENDS DatatableEdit, SequenceTheorems, FiniteSetTheorems, WellFoundedInduction, TLAPS

\* Every command that gets through, done or undone, ends in RecomputeCascadeState on
\* the table it leaves; one that throws leaves table and cascade; a save, which takes
\* the flags away, is refused while there are any, so there is no cascade then.
LEMMA NextCascade == CascadeHasFlags /\ [Next]_vars => CascadeHasFlags'
<1> SUFFICES ASSUME CascadeHasFlags, [Next]_vars PROVE CascadeHasFlags'
  OBVIOUS
<1>1. ASSUME NEW d, NEW c, doc' = d, cascade' = CascadeAfter(d, c) PROVE CascadeHasFlags'
  <2>1. cascade' => Flagged(d) # {}
    BY <1>1 DEF CascadeAfter
  <2>2. Flagged(doc)' = Flagged(d)
    BY <1>1 DEF Flagged, InTable
  <2> QED BY <2>1, <2>2 DEF CascadeHasFlags
<1>2. ASSUME UNCHANGED <<doc, cascade>> PROVE CascadeHasFlags'
  BY <1>2 DEF CascadeHasFlags, Flagged, InTable
<1>3. ASSUME NEW c \in Asked, Apply(c) PROVE CascadeHasFlags'
  <2>1. doc' = Do(doc, c).doc /\ cascade' = CascadeAfter(Do(doc, c).doc, Do(doc, c).cmd)
    BY <1>3 DEF Apply
  <2> QED BY <1>1, <2>1
<1>4. CASE Undo
  <2> DEFINE undone == UndoOp(doc, Last(undoStack))
  <2>1. IF undone.ok THEN doc' = undone.doc /\ cascade' = CascadeAfter(undone.doc, undone.cmd)
                     ELSE UNCHANGED <<doc, cascade>>
    BY <1>4, Zenon DEF Undo
  <2> HIDE DEF undone
  <2> QED BY <1>1, <1>2, <2>1
<1>5. CASE Redo
  <2> DEFINE redone == Do(doc, Last(redoStack))
  <2>1. IF redone.ok THEN doc' = redone.doc /\ cascade' = CascadeAfter(redone.doc, redone.cmd)
                     ELSE UNCHANGED <<doc, cascade>>
    BY <1>5, Zenon DEF Redo
  <2> HIDE DEF redone
  <2> QED BY <1>1, <1>2, <2>1
<1>6. CASE Save
  BY <1>6 DEF Save, CascadeHasFlags
<1>7. CASE UNCHANGED vars
  BY <1>2, <1>7 DEF vars
<1> QED
  BY <1>3, <1>4, <1>5, <1>6, <1>7 DEF Next, Edit

\* The editor never offers to resolve a cascade when no cell is left to review.
THEOREM NoCascadeWithoutFlags == Spec => []CascadeHasFlags
<1>1. Init => CascadeHasFlags
  BY DEF Init, CascadeHasFlags
<1> QED
  BY <1>1, NextCascade, PTL DEF Spec

-----------------------------------------------------------------------------
(***************************************************************************)
(* Sequences: what is inserted, removed and moved.  The lemmas use Once: a *)
(* sequence that has each of its elements once.                            *)
(***************************************************************************)
\* What is left when one element goes.
LEMMA RemoveOne ==
  ASSUME NEW S, NEW s \in Seq(S), NEW at \in 1..Len(s)
  PROVE  /\ RemoveAt(s, at) \in Seq(S) /\ Len(RemoveAt(s, at)) = Len(s) - 1
         /\ \A i \in 1..Len(s) - 1 : RemoveAt(s, at)[i] = IF i < at THEN s[i] ELSE s[i + 1]
<1> DEFINE n == Len(s)
           l == SubSeq(s, 1, at - 1)
           r == SubSeq(s, at + 1, n)
<1>1. n \in Nat /\ \A i \in 1..n : s[i] \in S
  BY LenProperties, ElementOfSeq
<1>2. n \in Int /\ at \in Int /\ 1 <= at /\ at <= n /\ n > 0
  <2> HIDE DEF n
  <2> QED BY <1>1 DEF n
<1>3. RemoveAt(s, at) = l \o r
  BY DEF RemoveAt
<1>4. l \in Seq(S) /\ Len(l) = at - 1 /\ \A i \in 1..at - 1 : l[i] = s[i]
  <2>1. 1 \in Int /\ at - 1 \in Int /\ \A i \in 1..at - 1 : s[i] \in S
    BY <1>1, <1>2
  <2>2. /\ l \in Seq(S) /\ Len(l) = IF 1 <= at - 1 THEN at - 1 - 1 + 1 ELSE 0
        /\ \A i \in 1..at - 1 - 1 + 1 : l[i] = s[1 + i - 1]
    BY <2>1, SubSeqProperties
  <2> HIDE DEF l
  <2> QED BY <1>1, <1>2, <2>2
<1>5. r \in Seq(S) /\ Len(r) = n - at /\ \A i \in 1..n - at : r[i] = s[at + i]
  <2>1. n \in Int /\ at + 1 \in Int /\ \A i \in at + 1..n : s[i] \in S
    BY <1>1, <1>2
  <2>2. /\ r \in Seq(S) /\ Len(r) = IF at + 1 <= n THEN n - (at + 1) + 1 ELSE 0
        /\ \A i \in 1..n - (at + 1) + 1 : r[i] = s[at + 1 + i - 1]
    BY <2>1, SubSeqProperties
  <2> HIDE DEF r, n
  <2>3. Len(r) = n - at
    <3>1. CASE at + 1 <= n
      BY <1>2, <2>2, <3>1
    <3>2. CASE ~(at + 1 <= n)
      <4>1. n = at
        BY <1>2, <3>2
      <4> QED BY <1>2, <2>2, <3>2, <4>1
    <3> QED BY <3>1, <3>2
  <2>4. ASSUME NEW i \in 1..n - at PROVE r[i] = s[at + i]
    <3>1. i \in 1..n - (at + 1) + 1 /\ at + 1 + i - 1 = at + i
      BY <1>2
    <3> QED BY <2>2, <3>1
  <2> QED BY <2>2, <2>3, <2>4
<1> HIDE DEF l, r, n
<1>6. /\ l \o r \in Seq(S) /\ Len(l \o r) = Len(l) + Len(r)
      /\ \A i \in 1..Len(l) + Len(r) : (l \o r)[i] = IF i <= Len(l) THEN l[i] ELSE r[i - Len(l)]
  BY <1>4, <1>5, ConcatProperties
<1>7. Len(l \o r) = n - 1
  BY <1>2, <1>4, <1>5, <1>6
<1>8. ASSUME NEW i \in 1..n - 1 PROVE (l \o r)[i] = IF i < at THEN s[i] ELSE s[i + 1]
  <2>1. i \in 1..Len(l) + Len(r) /\ i \in Int /\ Len(l) = at - 1
    BY <1>2, <1>4, <1>5
  <2>2. (l \o r)[i] = IF i <= at - 1 THEN l[i] ELSE r[i - (at - 1)]
    BY <1>6, <2>1
  <2>3. CASE i < at
    BY <1>2, <1>4, <2>1, <2>2, <2>3
  <2>4. CASE ~(i < at)
    <3>1. i - (at - 1) \in 1..n - at /\ at + (i - (at - 1)) = i + 1 /\ ~(i <= at - 1)
      BY <1>2, <2>1, <2>4
    <3> QED BY <1>5, <2>2, <2>4, <3>1
  <2> QED BY <2>3, <2>4
<1> QED BY <1>3, <1>6, <1>7, <1>8 DEF n


\* A sequence with an element more.
HasOneMore(t, S, s, at, e) ==
  /\ t \in Seq(S) /\ Len(t) = Len(s) + 1
  /\ \A i \in 1..(Len(s) + 1) : t[i] = IF i < at THEN s[i] ELSE IF i = at THEN e ELSE s[i - 1]

\* An element put in at a place: the ones from there on move up.
LEMMA InsertOne ==
  ASSUME NEW S, NEW s \in Seq(S), NEW at \in 1..(Len(s) + 1), NEW e \in S
  PROVE  HasOneMore(InsertAt(s, at, e), S, s, at, e)
<1> DEFINE n == Len(s)
           l == SubSeq(s, 1, at - 1)
           r == SubSeq(s, at, n)
           m == l \o <<e>>
<1>1. n \in Nat /\ \A i \in 1..n : s[i] \in S
  BY LenProperties, ElementOfSeq
<1>2. n \in Int /\ at \in Int /\ 1 <= at /\ at <= n + 1 /\ n >= 0
  <2> HIDE DEF n
  <2> QED BY <1>1 DEF n
<1>3. InsertAt(s, at, e) = m \o r
  BY DEF InsertAt
<1>4. l \in Seq(S) /\ Len(l) = at - 1 /\ \A i \in 1..at - 1 : l[i] = s[i]
  <2>1. 1 \in Int /\ at - 1 \in Int /\ \A i \in 1..at - 1 : s[i] \in S
    BY <1>1, <1>2
  <2>2. /\ l \in Seq(S) /\ Len(l) = IF 1 <= at - 1 THEN at - 1 - 1 + 1 ELSE 0
        /\ \A i \in 1..at - 1 - 1 + 1 : l[i] = s[1 + i - 1]
    BY <2>1, SubSeqProperties
  <2> HIDE DEF l
  <2> QED BY <1>1, <1>2, <2>2
<1>5. r \in Seq(S) /\ Len(r) = n - at + 1 /\ \A i \in 1..n - at + 1 : r[i] = s[at + i - 1]
  <2>1. n \in Int /\ at \in Int /\ \A i \in at..n : s[i] \in S
    BY <1>1, <1>2
  <2>2. /\ r \in Seq(S) /\ Len(r) = IF at <= n THEN n - at + 1 ELSE 0
        /\ \A i \in 1..n - at + 1 : r[i] = s[at + i - 1]
    BY <2>1, SubSeqProperties
  <2> HIDE DEF r, n
  <2>3. Len(r) = n - at + 1
    BY <1>2, <2>2
  <2> QED BY <2>2, <2>3
<1> HIDE DEF l, r, n
<1>6. <<e>> \in Seq(S) /\ Len(<<e>>) = 1 /\ <<e>>[1] = e
  OBVIOUS
<1>7. /\ m \in Seq(S) /\ Len(m) = at
      /\ \A i \in 1..at : m[i] = IF i < at THEN s[i] ELSE e
  <2>1. /\ m \in Seq(S) /\ Len(m) = Len(l) + Len(<<e>>)
        /\ \A i \in 1..Len(l) + Len(<<e>>) : m[i] = IF i <= Len(l) THEN l[i] ELSE <<e>>[i - Len(l)]
    BY <1>4, <1>6, ConcatProperties
  <2> HIDE DEF m
  <2>2. Len(l) + Len(<<e>>) = at
    BY <1>2, <1>4, <1>6
  <2>3. ASSUME NEW i \in 1..at PROVE m[i] = IF i < at THEN s[i] ELSE e
    <3>1. m[i] = IF i <= at - 1 THEN l[i] ELSE <<e>>[i - (at - 1)]
      BY <1>4, <2>1, <2>2
    <3>2. CASE i < at
      BY <1>2, <1>4, <3>1, <3>2
    <3>3. CASE ~(i < at)
      <4>1. i - (at - 1) = 1 /\ ~(i <= at - 1)
        BY <1>2, <3>3
      <4> QED BY <1>6, <3>1, <3>3, <4>1
    <3> QED BY <3>2, <3>3
  <2> QED BY <2>1, <2>2, <2>3
<1> HIDE DEF m
<1>8. /\ m \o r \in Seq(S) /\ Len(m \o r) = Len(m) + Len(r)
      /\ \A i \in 1..Len(m) + Len(r) : (m \o r)[i] = IF i <= Len(m) THEN m[i] ELSE r[i - Len(m)]
  BY <1>5, <1>7, ConcatProperties
<1>9. Len(m) + Len(r) = n + 1
  BY <1>2, <1>5, <1>7
<1>10. ASSUME NEW i \in 1..(n + 1)
       PROVE  (m \o r)[i] = IF i < at THEN s[i] ELSE IF i = at THEN e ELSE s[i - 1]
  <2>1. (m \o r)[i] = IF i <= at THEN m[i] ELSE r[i - at]
    BY <1>7, <1>8, <1>9
  <2>2. CASE i <= at
    BY <1>2, <1>7, <2>1, <2>2
  <2>3. CASE ~(i <= at)
    <3>1. i - at \in 1..n - at + 1 /\ at + (i - at) - 1 = i - 1
      BY <1>2, <2>3
    <3>2. r[i - at] = s[at + (i - at) - 1]
      BY <1>5, <3>1
    <3> QED BY <1>2, <2>1, <2>3, <3>1, <3>2
  <2> QED BY <2>2, <2>3
<1> QED BY <1>3, <1>8, <1>9, <1>10 DEF n, HasOneMore

\* A function on 1..n is a sequence of length n.
LEMMA FunctionIsSeq ==
  ASSUME NEW S, NEW n \in Nat, NEW f \in [1..n -> S]
  PROVE  f \in Seq(S) /\ Len(f) = n
<1>1. f \in Seq(S)
  BY SeqDef
<1> QED BY <1>1, LenProperties

\* Nothing occurs twice.
Once(s) == \A i, j \in DOMAIN s : s[i] = s[j] => i = j

\* A new element leaves a sequence with each of its elements once,
LEMMA InsertKeepsOnce ==
  ASSUME NEW S, NEW s \in Seq(S), NEW at \in 1..(Len(s) + 1), NEW e \in S
  PROVE  /\ ToSet(InsertAt(s, at, e)) = ToSet(s) \cup {e}
         /\ Once(s) /\ e \notin ToSet(s) => Once(InsertAt(s, at, e))
<1>0. HasOneMore(InsertAt(s, at, e), S, s, at, e)
  BY InsertOne
<1> DEFINE t == InsertAt(s, at, e)
<1>1. /\ t \in Seq(S) /\ Len(t) = Len(s) + 1
      /\ \A i \in 1..(Len(s) + 1) : t[i] = IF i < at THEN s[i] ELSE IF i = at THEN e ELSE s[i - 1]
  BY <1>0 DEF HasOneMore
<1> HIDE DEF t
<1>2. /\ Len(s) \in Nat /\ DOMAIN s = 1..Len(s) /\ DOMAIN t = 1..(Len(s) + 1)
      /\ at \in Nat /\ 1 <= at /\ at <= Len(s) + 1
  BY <1>1, LenProperties
<1>3. ASSUME NEW x \in ToSet(t) PROVE x \in ToSet(s) \cup {e}
  <2>1. PICK i \in 1..(Len(s) + 1) : x = t[i]
    BY <1>2 DEF ToSet
  <2>2. CASE i < at
    <3>1. i \in 1..Len(s) /\ x = s[i]
      BY <1>1, <1>2, <2>1, <2>2
    <3> QED BY <1>2, <3>1 DEF ToSet
  <2>3. CASE i = at
    BY <1>1, <1>2, <2>1, <2>3
  <2>4. CASE i > at
    <3>1. i - 1 \in 1..Len(s) /\ x = s[i - 1]
      BY <1>1, <1>2, <2>1, <2>4
    <3> QED BY <1>2, <3>1 DEF ToSet
  <2> QED BY <1>2, <2>2, <2>3, <2>4
<1>4. ASSUME NEW x \in ToSet(s) PROVE x \in ToSet(t)
  <2>1. PICK i \in 1..Len(s) : x = s[i]
    BY <1>2 DEF ToSet
  <2>2. CASE i < at
    <3>1. i \in 1..(Len(s) + 1) /\ x = t[i]
      BY <1>1, <1>2, <2>1, <2>2
    <3> QED BY <1>2, <3>1 DEF ToSet
  <2>3. CASE ~(i < at)
    <3>1. i + 1 \in 1..(Len(s) + 1) /\ ~(i + 1 < at) /\ i + 1 # at /\ i + 1 - 1 = i
      BY <1>2, <2>3
    <3>2. x = t[i + 1]
      BY <1>1, <2>1, <3>1
    <3> QED BY <1>2, <3>1, <3>2 DEF ToSet
  <2> QED BY <2>2, <2>3
<1>5. e \in ToSet(t)
  BY <1>1, <1>2 DEF ToSet
<1>6. ASSUME Once(s), e \notin ToSet(s), NEW i \in 1..(Len(s) + 1), NEW j \in 1..(Len(s) + 1), t[i] = t[j]
      PROVE  i = j
  <2>1. \A k \in 1..Len(s) : s[k] # e
    BY <1>2, <1>6 DEF ToSet
  <2>2. \A k, l \in 1..Len(s) : s[k] = s[l] => k = l
    BY <1>2, <1>6 DEF Once
  <2> DEFINE old(k) == IF k < at THEN k ELSE k - 1
  <2>3. ASSUME NEW k \in 1..(Len(s) + 1), k # at PROVE old(k) \in 1..Len(s) /\ t[k] = s[old(k)]
    BY <1>1, <1>2, <2>3
  <2>4. t[at] = e
    BY <1>1, <1>2
  <2>5. CASE i # at /\ j # at
    <3>1. s[old(i)] = s[old(j)] /\ old(i) \in 1..Len(s) /\ old(j) \in 1..Len(s)
      BY <1>6, <2>3, <2>5
    <3>2. old(i) = old(j)
      BY <2>2, <3>1
    <3> QED BY <1>2, <2>5, <3>2
  <2>6. CASE i = at \/ j = at
    BY <1>2, <1>6, <2>1, <2>3, <2>4, <2>6
  <2> QED BY <2>5, <2>6
<1> QED BY <1>2, <1>3, <1>4, <1>5, <1>6 DEF t, Once

\* one that goes leaves the others once and is gone,
LEMMA RemoveKeepsOnce ==
  ASSUME NEW S, NEW s \in Seq(S), NEW at \in 1..Len(s)
  PROVE  /\ ToSet(RemoveAt(s, at)) \subseteq ToSet(s)
         /\ Once(s) => Once(RemoveAt(s, at)) /\ s[at] \notin ToSet(RemoveAt(s, at))
<1> DEFINE t == RemoveAt(s, at)
<1>1. /\ t \in Seq(S) /\ Len(t) = Len(s) - 1
      /\ \A i \in 1..Len(s) - 1 : t[i] = IF i < at THEN s[i] ELSE s[i + 1]
  BY RemoveOne
<1> HIDE DEF t
<1>2. /\ Len(s) \in Nat /\ DOMAIN s = 1..Len(s) /\ DOMAIN t = 1..Len(s) - 1
      /\ at \in Nat /\ 1 <= at /\ at <= Len(s)
  BY <1>1, LenProperties
<1> DEFINE old(k) == IF k < at THEN k ELSE k + 1
<1>5. ASSUME NEW k \in 1..Len(s) - 1 PROVE old(k) \in 1..Len(s) /\ old(k) # at /\ t[k] = s[old(k)]
  BY <1>1, <1>2
<1>6. ASSUME NEW k \in 1..Len(s) - 1, NEW l \in 1..Len(s) - 1, old(k) = old(l) PROVE k = l
  BY <1>2, <1>6
<1> HIDE DEF old
<1>3. ToSet(t) \subseteq ToSet(s)
  BY <1>2, <1>5 DEF ToSet
<1>4. ASSUME Once(s) PROVE Once(t) /\ s[at] \notin ToSet(t)
  <2>1. ASSUME NEW i \in 1..Len(s) - 1, NEW j \in 1..Len(s) - 1, t[i] = t[j] PROVE i = j
    BY <1>2, <1>4, <1>5, <1>6, <2>1 DEF Once
  <2>2. ASSUME NEW i \in 1..Len(s) - 1 PROVE t[i] # s[at]
    BY <1>2, <1>4, <1>5 DEF Once
  <2> QED BY <1>2, <2>1, <2>2 DEF Once, ToSet
<1> QED BY <1>3, <1>4 DEF t

\* One element moves to another place.
LEMMA ShiftKeepsOnce ==
  ASSUME NEW S, NEW s \in Seq(S), NEW i \in 1..Len(s), NEW j \in 1..Len(s)
  PROVE  /\ Shifted(s, i, j) \in Seq(S) /\ Len(Shifted(s, i, j)) = Len(s)
         /\ ToSet(Shifted(s, i, j)) \subseteq ToSet(s)
         /\ Once(s) => Once(Shifted(s, i, j))
<1> DEFINE t == RemoveAt(s, i)
<1>1. t \in Seq(S) /\ Len(t) = Len(s) - 1
  BY RemoveOne
<1>2. ToSet(t) \subseteq ToSet(s) /\ (Once(s) => Once(t) /\ s[i] \notin ToSet(t))
  BY RemoveKeepsOnce
<1>3. s[i] \in S /\ s[i] \in ToSet(s) /\ Len(s) \in Nat
  BY LenProperties, ElementOfSeq DEF ToSet
<1> HIDE DEF t
<1>4. j \in 1..(Len(t) + 1) /\ Len(t) + 1 = Len(s)
  BY <1>1, <1>3
<1>5. InsertAt(t, j, s[i]) \in Seq(S) /\ Len(InsertAt(t, j, s[i])) = Len(t) + 1
  <2>1. HasOneMore(InsertAt(t, j, s[i]), S, t, j, s[i])
    BY <1>1, <1>3, <1>4, InsertOne
  <2> QED BY <2>1 DEF HasOneMore
<1>6. /\ ToSet(InsertAt(t, j, s[i])) = ToSet(t) \cup {s[i]}
      /\ Once(t) /\ s[i] \notin ToSet(t) => Once(InsertAt(t, j, s[i]))
  BY <1>1, <1>3, <1>4, InsertKeepsOnce
<1> QED BY <1>2, <1>3, <1>4, <1>5, <1>6 DEF Shifted, t

\* PositionOf finds the element if there is one.
LEMMA PositionFacts ==
  ASSUME NEW S, NEW s \in Seq(S), NEW e
  PROVE  /\ PositionOf(s, e) \in 0..Len(s)
         /\ PositionOf(s, e) # 0 => s[PositionOf(s, e)] = e
         /\ PositionOf(s, e) = 0 => e \notin ToSet(s)
<1> DEFINE I == {i \in 1..Len(s) : s[i] = e}
<1>1. PositionOf(s, e) = IF I # {} THEN Min(I) ELSE 0
  BY DEF PositionOf, SelectInSeq
<1>2. Len(s) \in Nat /\ DOMAIN s = 1..Len(s)
  BY LenProperties
<1>3. CASE I = {}
  BY <1>1, <1>2, <1>3 DEF ToSet
<1>4. CASE I # {}
  <2>1. I \subseteq Nat
    BY <1>2
  <2> HIDE DEF I
  <2>2. \E x \in I : \A y \in I : <<y, x>> \notin OpToRel(<, Nat)
    BY <1>4, <2>1, NatLessThanWellFounded, WFMin
  <2>3. \E x \in I : \A y \in I : x <= y
    <3>1. PICK x \in I : \A y \in I : <<y, x>> \notin OpToRel(<, Nat)
      BY <2>2
    <3>2. ASSUME NEW y \in I PROVE x <= y
      <4>1. x \in Nat /\ y \in Nat /\ <<y, x>> \notin {ss \in Nat \X Nat : ss[1] < ss[2]}
        BY <2>1, <3>1 DEF OpToRel
      <4>2. ~(y < x)
        BY <4>1
      <4> QED BY <4>1, <4>2
    <3> QED BY <3>2
  <2>4. Min(I) \in I
    BY <2>3 DEF Min
  <2>5. Min(I) \in 1..Len(s) /\ s[Min(I)] = e
    BY <2>4 DEF I
  <2> QED BY <1>1, <1>2, <1>4, <2>5
<1> QED BY <1>3, <1>4

-----------------------------------------------------------------------------
(***************************************************************************)
(* The layout of a table: K are rows and X cells that are out of it, with  *)
(* commands that may put them back.                                        *)
(***************************************************************************)
CellsOf(d, r) == ToSet(d.cells[r])
AllRows(d, K) == ToSet(d.rows) \cup K

IsTable(d) ==
  /\ d = [columns |-> d.columns, type |-> d.type, name |-> d.name,
          rows |-> d.rows, cells |-> d.cells, state |-> d.state]
  /\ d.type \in Seq(Types) /\ d.columns \in Seq(DOMAIN d.type)
  /\ d.cells \in Seq(Seq(DOMAIN d.state)) /\ d.rows \in Seq(DOMAIN d.cells)
  /\ \E S : d.state \in Seq(S)

LaidOut(d, K, X) ==
  /\ IsTable(d)
  /\ Once(d.rows) /\ K \subseteq DOMAIN d.cells /\ ToSet(d.rows) \cap K = {}
  /\ X \subseteq DOMAIN d.state
  /\ \A r \in ToSet(d.rows) : Len(d.cells[r]) = Len(d.columns)
  /\ \A r \in AllRows(d, K) : Once(d.cells[r]) /\ CellsOf(d, r) \cap X = {}
  /\ \A q, r \in AllRows(d, K) : q # r => CellsOf(d, q) \cap CellsOf(d, r) = {}

\* What no step undoes: objects stay, and so does a row that is out of the table.
Keeps(d, e, K) ==
  /\ DOMAIN d.type \subseteq DOMAIN e.type
  /\ DOMAIN d.cells \subseteq DOMAIN e.cells
  /\ DOMAIN d.state \subseteq DOMAIN e.state
  /\ \A r \in K : e.cells[r] = d.cells[r]

\* What happens to a row or a column that goes out of the table, or comes in.
RowOut(d, i) == [d EXCEPT !.rows = RemoveAt(@, i)]
RowIn(d, i, r) == [d EXCEPT !.rows = InsertAt(@, i, r)]
ColumnOut(d, k) == WithoutCells([d EXCEPT !.columns = RemoveAt(@, k)], k)
ColumnIn(d, k, c, xs) == WithCells([d EXCEPT !.columns = InsertAt(@, k, c)], k, xs)

\* The domains and the ranges of a table's parts.
LEMMA TableFacts ==
  ASSUME NEW d, IsTable(d)
  PROVE  /\ Len(d.columns) \in Nat /\ DOMAIN d.columns = 1..Len(d.columns)
         /\ Len(d.rows) \in Nat /\ DOMAIN d.rows = 1..Len(d.rows)
         /\ Len(d.cells) \in Nat /\ DOMAIN d.cells = 1..Len(d.cells)
         /\ Len(d.type) \in Nat /\ DOMAIN d.type = 1..Len(d.type)
         /\ Len(d.state) \in Nat /\ DOMAIN d.state = 1..Len(d.state)
         /\ ToSet(d.rows) \subseteq DOMAIN d.cells
         /\ ToSet(d.columns) \subseteq DOMAIN d.type
         /\ \A r \in DOMAIN d.cells : d.cells[r] \in Seq(DOMAIN d.state)
         /\ \A r \in DOMAIN d.cells : CellsOf(d, r) \subseteq DOMAIN d.state
<1>1. /\ Len(d.columns) \in Nat /\ DOMAIN d.columns = 1..Len(d.columns)
      /\ Len(d.rows) \in Nat /\ DOMAIN d.rows = 1..Len(d.rows)
      /\ Len(d.cells) \in Nat /\ DOMAIN d.cells = 1..Len(d.cells)
      /\ Len(d.type) \in Nat /\ DOMAIN d.type = 1..Len(d.type)
  BY LenProperties DEF IsTable
<1>2. Len(d.state) \in Nat /\ DOMAIN d.state = 1..Len(d.state)
  BY LenProperties DEF IsTable
<1>3. ToSet(d.rows) \subseteq DOMAIN d.cells /\ ToSet(d.columns) \subseteq DOMAIN d.type
  BY <1>1, ElementOfSeq DEF IsTable, ToSet
<1>4. \A r \in DOMAIN d.cells : d.cells[r] \in Seq(DOMAIN d.state)
  BY <1>1, ElementOfSeq DEF IsTable
<1>5. ASSUME NEW r \in DOMAIN d.cells PROVE CellsOf(d, r) \subseteq DOMAIN d.state
  <2>1. d.cells[r] \in Seq(DOMAIN d.state)
    BY <1>4
  <2>2. DOMAIN d.cells[r] = 1..Len(d.cells[r])
    BY <2>1, LenProperties
  <2> QED BY <2>1, <2>2, ElementOfSeq DEF CellsOf, ToSet
<1> QED BY <1>1, <1>2, <1>3, <1>4, <1>5

\* Rows and cells that are out may be forgotten.
LEMMA LaidOutFewer ==
  ASSUME NEW d, NEW K, NEW X, NEW A, NEW B, LaidOut(d, K \cup A, X \cup B)
  PROVE  LaidOut(d, K, X)
BY DEF LaidOut, AllRows

\* The layout depends on columns, rows and cells alone.
LEMMA SameLayout ==
  ASSUME NEW d, NEW e, NEW K, NEW X, LaidOut(d, K, X), IsTable(e),
         e.rows = d.rows, e.columns = d.columns, e.cells = d.cells,
         DOMAIN d.state \subseteq DOMAIN e.state
  PROVE  LaidOut(e, K, X)
BY DEF LaidOut, AllRows, CellsOf

\* A row goes out: it keeps its cells, and its width.
LEMMA TakeRowOut ==
  ASSUME NEW d, NEW K, NEW X, LaidOut(d, K, X), NEW i \in DOMAIN d.rows
  PROVE  LET e == RowOut(d, i)
         IN /\ LaidOut(e, K \cup {d.rows[i]}, X) /\ Keeps(d, e, K)
            /\ e.columns = d.columns /\ e.cells = d.cells
            /\ Len(e.rows) + 1 = Len(d.rows) /\ d.rows[i] \notin K
            /\ d.rows[i] \in DOMAIN d.cells /\ Len(d.cells[d.rows[i]]) = Len(d.columns)
<1> DEFINE e == RowOut(d, i)
           t == RemoveAt(d.rows, i)
<1>1. IsTable(d)
  BY DEF LaidOut
<1>2. d.rows \in Seq(DOMAIN d.cells) /\ i \in 1..Len(d.rows) /\ Len(d.rows) \in Nat
  BY <1>1, TableFacts DEF IsTable
<1>3. t \in Seq(DOMAIN d.cells) /\ Len(t) = Len(d.rows) - 1
  BY <1>2, RemoveOne
<1>4. ToSet(t) \subseteq ToSet(d.rows) /\ Once(t) /\ d.rows[i] \notin ToSet(t)
  BY <1>2, RemoveKeepsOnce DEF LaidOut
<1> HIDE DEF t
<1>5. d = [columns |-> d.columns, type |-> d.type, name |-> d.name,
           rows |-> d.rows, cells |-> d.cells, state |-> d.state]
  BY <1>1 DEF IsTable
<1>6. e = [columns |-> d.columns, type |-> d.type, name |-> d.name,
           rows |-> t, cells |-> d.cells, state |-> d.state]
  BY <1>5 DEF t, RowOut, RowIn
<1> HIDE DEF e
<1>7. IsTable(e)
  BY <1>1, <1>3, <1>6 DEF IsTable
<1>8. d.rows[i] \in ToSet(d.rows) /\ d.rows[i] \in DOMAIN d.cells
  BY <1>1, <1>2, TableFacts DEF ToSet
<1>9. AllRows(e, K \cup {d.rows[i]}) \subseteq AllRows(d, K)
  BY <1>4, <1>6, <1>8 DEF AllRows
<1>10. LaidOut(e, K \cup {d.rows[i]}, X)
  BY <1>4, <1>6, <1>7, <1>8, <1>9 DEF LaidOut, CellsOf
<1>11. Keeps(d, e, K)
  BY <1>6 DEF Keeps
<1>12. d.rows[i] \notin K /\ Len(d.cells[d.rows[i]]) = Len(d.columns)
  BY <1>8 DEF LaidOut
<1> QED BY <1>2, <1>3, <1>6, <1>8, <1>10, <1>11, <1>12 DEF e

\* A row that is out goes back, if it is as wide as the table.
LEMMA PutRowBack ==
  ASSUME NEW d, NEW K, NEW X, NEW r, LaidOut(d, K \cup {r}, X), r \notin K,
         Len(d.cells[r]) = Len(d.columns), NEW i \in 1..(Len(d.rows) + 1)
  PROVE  LET e == RowIn(d, i, r)
         IN /\ LaidOut(e, K, X) /\ Keeps(d, e, K)
            /\ e.columns = d.columns /\ e.cells = d.cells /\ Len(e.rows) = Len(d.rows) + 1
<1> DEFINE e == RowIn(d, i, r)
           t == InsertAt(d.rows, i, r)
<1>1. IsTable(d)
  BY DEF LaidOut
<1>2. d.rows \in Seq(DOMAIN d.cells) /\ r \in DOMAIN d.cells
  BY <1>1 DEF IsTable, LaidOut
<1>3. t \in Seq(DOMAIN d.cells) /\ Len(t) = Len(d.rows) + 1
  <2>1. HasOneMore(t, DOMAIN d.cells, d.rows, i, r)
    BY <1>2, InsertOne
  <2> QED BY <2>1 DEF HasOneMore
<1>4. ToSet(t) = ToSet(d.rows) \cup {r} /\ Once(t)
  BY <1>2, InsertKeepsOnce DEF LaidOut
<1> HIDE DEF t
<1>5. d = [columns |-> d.columns, type |-> d.type, name |-> d.name,
           rows |-> d.rows, cells |-> d.cells, state |-> d.state]
  BY <1>1 DEF IsTable
<1>6. e = [columns |-> d.columns, type |-> d.type, name |-> d.name,
           rows |-> t, cells |-> d.cells, state |-> d.state]
  BY <1>5 DEF t, RowOut, RowIn
<1> HIDE DEF e
<1>7. IsTable(e)
  BY <1>1, <1>3, <1>6 DEF IsTable
<1>8. AllRows(e, K) = AllRows(d, K \cup {r})
  BY <1>4, <1>6 DEF AllRows
<1>9. LaidOut(e, K, X)
  BY <1>4, <1>6, <1>7, <1>8 DEF LaidOut, CellsOf
<1>10. Keeps(d, e, K)
  BY <1>6 DEF Keeps
<1> QED BY <1>3, <1>6, <1>9, <1>10 DEF e

\* MoveRow, at the edge or not.
LEMMA ShiftRowKeeps ==
  ASSUME NEW d, NEW K, NEW X, LaidOut(d, K, X), NEW r, NEW down
  PROVE  LET e == ShiftRow(d, r, down)
         IN /\ LaidOut(e, K, X) /\ Keeps(d, e, K)
            /\ Len(e.columns) = Len(d.columns) /\ Len(e.rows) = Len(d.rows)
<1> DEFINE i == PositionOf(d.rows, r)
           j == IF down THEN i + 1 ELSE i - 1
<1>1. IsTable(d)
  BY DEF LaidOut
<1>2. d.rows \in Seq(DOMAIN d.cells) /\ DOMAIN d.rows = 1..Len(d.rows) /\ Len(d.rows) \in Nat
  BY <1>1, TableFacts DEF IsTable
<1>3. i \in 0..Len(d.rows)
  BY <1>2, PositionFacts
<1>4. ShiftRow(d, r, down) = IF i = 0 \/ j \notin DOMAIN d.rows THEN d
                             ELSE [d EXCEPT !.rows = Shifted(@, i, j)]
  BY DEF ShiftRow
<1> HIDE DEF i, j
<1>5. CASE i = 0 \/ j \notin DOMAIN d.rows
  BY <1>4, <1>5 DEF Keeps
<1>6. CASE i # 0 /\ j \in DOMAIN d.rows
  <2> DEFINE t == Shifted(d.rows, i, j)
             e == ShiftRow(d, r, down)
  <2>1. /\ t \in Seq(DOMAIN d.cells) /\ Len(t) = Len(d.rows)
        /\ ToSet(t) \subseteq ToSet(d.rows) /\ Once(t)
    <3>1. i \in 1..Len(d.rows) /\ j \in 1..Len(d.rows)
      BY <1>2, <1>3, <1>6
    <3> QED BY <1>2, <3>1, ShiftKeepsOnce DEF LaidOut
  <2> HIDE DEF t
  <2>2. e = [columns |-> d.columns, type |-> d.type, name |-> d.name,
             rows |-> t, cells |-> d.cells, state |-> d.state]
    BY <1>1, <1>4, <1>6 DEF IsTable, t
  <2> HIDE DEF e
  <2>3. IsTable(e)
    BY <1>1, <2>1, <2>2 DEF IsTable
  <2>4. AllRows(e, K) \subseteq AllRows(d, K)
    BY <2>1, <2>2 DEF AllRows
  <2>5. LaidOut(e, K, X)
    BY <2>1, <2>2, <2>3, <2>4 DEF LaidOut, CellsOf
  <2>6. Keeps(d, e, K)
    BY <2>2 DEF Keeps
  <2> QED BY <2>1, <2>2, <2>5, <2>6 DEF e
<1> QED BY <1>5, <1>6

\* A column's cells go in, one into each row.
GoIn(d, K, X, k, c, xs) ==
  /\ LaidOut(d, K, X \cup ToSet(xs)) /\ ToSet(xs) \cap X = {}
  /\ xs \in Seq(DOMAIN d.state) /\ Len(xs) = Len(d.rows) /\ Once(xs)
  /\ k \in 1..(Len(d.columns) + 1) /\ c \in DOMAIN d.type

\* The table stays a rectangle, one column wider.
LEMMA PutColumnIn ==
  ASSUME NEW d, NEW K, NEW X, NEW k, NEW c, NEW xs, GoIn(d, K, X, k, c, xs)
  PROVE  LET e == ColumnIn(d, k, c, xs)
         IN /\ LaidOut(e, K, X) /\ Keeps(d, e, K)
            /\ Len(e.columns) = Len(d.columns) + 1 /\ e.rows = d.rows /\ e.type = d.type
<1> DEFINE t == InsertAt(d.columns, k, c)
           at(r) == PositionOf(d.rows, r)
           row(r) == IF r \in ToSet(d.rows) THEN InsertAt(d.cells[r], k, xs[at(r)]) ELSE d.cells[r]
           cells == [r \in DOMAIN d.cells |-> row(r)]
           e == ColumnIn(d, k, c, xs)
<1>0. /\ LaidOut(d, K, X \cup ToSet(xs)) /\ ToSet(xs) \cap X = {}
      /\ xs \in Seq(DOMAIN d.state) /\ Len(xs) = Len(d.rows) /\ Once(xs)
      /\ k \in 1..(Len(d.columns) + 1) /\ c \in DOMAIN d.type
  BY DEF GoIn
<1> USE <1>0
<1>1. IsTable(d)
  BY DEF LaidOut
<1>2. /\ d.columns \in Seq(DOMAIN d.type) /\ Len(d.columns) \in Nat
      /\ d.rows \in Seq(DOMAIN d.cells) /\ DOMAIN d.rows = 1..Len(d.rows) /\ Len(d.rows) \in Nat
      /\ DOMAIN d.cells = 1..Len(d.cells) /\ Len(d.cells) \in Nat
      /\ ToSet(d.rows) \subseteq DOMAIN d.cells
      /\ \A r \in DOMAIN d.cells : d.cells[r] \in Seq(DOMAIN d.state)
  BY <1>1, TableFacts DEF IsTable
<1>3. t \in Seq(DOMAIN d.type) /\ Len(t) = Len(d.columns) + 1
  <2>1. HasOneMore(t, DOMAIN d.type, d.columns, k, c)
    BY <1>2, InsertOne
  <2> QED BY <2>1 DEF HasOneMore
<1>4. e = [columns |-> t, type |-> d.type, name |-> d.name,
           rows |-> d.rows, cells |-> cells, state |-> d.state]
  <2>1. d = [columns |-> d.columns, type |-> d.type, name |-> d.name,
             rows |-> d.rows, cells |-> d.cells, state |-> d.state]
    BY <1>1 DEF IsTable
  <2> DEFINE d1 == [d EXCEPT !.columns = InsertAt(@, k, c)]
  <2>2. d1 = [columns |-> t, type |-> d.type, name |-> d.name,
              rows |-> d.rows, cells |-> d.cells, state |-> d.state]
    BY <2>1
  <2>3. e = WithCells(d1, k, xs)
    BY DEF ColumnIn
  <2> HIDE DEF d1, e, t
  <2>4. WithCells(d1, k, xs) = [d1 EXCEPT !.cells = [r \in DOMAIN d1.cells |->
          IF r \in ToSet(d1.rows) THEN InsertAt(d1.cells[r], k, xs[PositionOf(d1.rows, r)])
                                  ELSE d1.cells[r]]]
    BY DEF WithCells
  <2>5. d1.cells = d.cells /\ d1.rows = d.rows
    BY <2>2
  <2>6. WithCells(d1, k, xs) = [d1 EXCEPT !.cells = cells]
    BY <2>4, <2>5, Zenon
  <2> HIDE DEF cells
  <2> QED BY <2>2, <2>3, <2>6
<1> HIDE DEF t, e, at
<1>5. ASSUME NEW r \in ToSet(d.rows)
      PROVE  at(r) \in 1..Len(d.rows) /\ d.rows[at(r)] = r
  BY <1>2, PositionFacts DEF at
<1>6. DOMAIN xs = 1..Len(d.rows) /\ \A p \in 1..Len(d.rows) : xs[p] \in DOMAIN d.state /\ xs[p] \in ToSet(xs)
  BY LenProperties, ElementOfSeq DEF ToSet
<1>7. ASSUME NEW r \in ToSet(d.rows)
      PROVE  /\ row(r) \in Seq(DOMAIN d.state) /\ Len(row(r)) = Len(d.columns) + 1
             /\ ToSet(row(r)) = CellsOf(d, r) \cup {xs[at(r)]} /\ Once(row(r))
  <2>1. /\ d.cells[r] \in Seq(DOMAIN d.state) /\ Len(d.cells[r]) = Len(d.columns)
        /\ xs[at(r)] \in DOMAIN d.state /\ xs[at(r)] \in ToSet(xs)
    BY <1>2, <1>5, <1>6 DEF LaidOut
  <2>2. Once(d.cells[r]) /\ xs[at(r)] \notin ToSet(d.cells[r])
    BY <2>1 DEF LaidOut, AllRows, CellsOf
  <2>3. k \in 1..(Len(d.cells[r]) + 1) /\ row(r) = InsertAt(d.cells[r], k, xs[at(r)])
    BY <2>1
  <2>4. HasOneMore(InsertAt(d.cells[r], k, xs[at(r)]), DOMAIN d.state, d.cells[r], k, xs[at(r)])
    BY <2>1, <2>3, InsertOne
  <2>5. /\ ToSet(InsertAt(d.cells[r], k, xs[at(r)])) = ToSet(d.cells[r]) \cup {xs[at(r)]}
        /\ Once(InsertAt(d.cells[r], k, xs[at(r)]))
    BY <2>1, <2>2, <2>3, InsertKeepsOnce
  <2> HIDE DEF row
  <2>6. row(r) \in Seq(DOMAIN d.state) /\ Len(row(r)) = Len(d.columns) + 1
    BY <2>1, <2>3, <2>4 DEF HasOneMore
  <2> QED BY <2>3, <2>5, <2>6 DEF CellsOf
<1>8. ASSUME NEW r \in DOMAIN d.cells, r \notin ToSet(d.rows)
      PROVE  row(r) = d.cells[r]
  BY <1>8
<1> HIDE DEF row
<1>9. cells \in Seq(Seq(DOMAIN d.state)) /\ DOMAIN cells = DOMAIN d.cells
  <2>1. \A r \in 1..Len(d.cells) : row(r) \in Seq(DOMAIN d.state)
    BY <1>2, <1>7, <1>8
  <2>2. cells \in [1..Len(d.cells) -> Seq(DOMAIN d.state)]
    BY <1>2, <2>1
  <2> QED BY <1>2, <2>2, FunctionIsSeq
<1>10. \A r \in DOMAIN d.cells : cells[r] = row(r)
  OBVIOUS
<1> HIDE DEF cells
<1>11. IsTable(e)
  BY <1>1, <1>2, <1>3, <1>4, <1>9 DEF IsTable
<1>12. AllRows(e, K) = AllRows(d, K) /\ AllRows(d, K) \subseteq DOMAIN d.cells
  BY <1>2, <1>4 DEF AllRows, LaidOut
<1>13. ASSUME NEW r \in AllRows(d, K)
       PROVE  /\ Once(e.cells[r])
              /\ CellsOf(e, r) = CellsOf(d, r) \cup (IF r \in ToSet(d.rows) THEN {xs[at(r)]} ELSE {})
  <2>1. e.cells[r] = row(r)
    BY <1>4, <1>10, <1>12
  <2>2. CASE r \in ToSet(d.rows)
    BY <1>7, <2>1, <2>2 DEF CellsOf
  <2>3. CASE r \notin ToSet(d.rows)
    <3>1. e.cells[r] = d.cells[r]
      BY <1>8, <1>12, <2>1, <2>3
    <3> QED BY <2>3, <3>1 DEF CellsOf, LaidOut
  <2> QED BY <2>2, <2>3
<1>14. ASSUME NEW r \in AllRows(d, K) PROVE CellsOf(d, r) \cap X = {} /\ CellsOf(d, r) \cap ToSet(xs) = {}
  BY DEF LaidOut
<1>15. ASSUME NEW r \in ToSet(d.rows) PROVE xs[at(r)] \in ToSet(xs) /\ xs[at(r)] \notin X
  BY <1>5, <1>6
<1>16. ASSUME NEW q \in ToSet(d.rows), NEW r \in ToSet(d.rows), q # r PROVE xs[at(q)] # xs[at(r)]
  <2>1. at(q) # at(r)
    BY <1>5, <1>16
  <2> QED BY <1>5, <1>6, <2>1 DEF Once
<1>17. ASSUME NEW r \in AllRows(d, K) PROVE CellsOf(e, r) \cap X = {}
  BY <1>13, <1>14, <1>15
<1>18. ASSUME NEW q \in AllRows(d, K), NEW r \in AllRows(d, K), q # r
       PROVE  CellsOf(e, q) \cap CellsOf(e, r) = {}
  <2>1. CellsOf(d, q) \cap CellsOf(d, r) = {}
    BY <1>18 DEF LaidOut
  <2> QED BY <1>13, <1>14, <1>15, <1>16, <1>18, <2>1
<1>19. LaidOut(e, K, X)
  <2>1. Once(e.rows) /\ K \subseteq DOMAIN e.cells /\ ToSet(e.rows) \cap K = {} /\ X \subseteq DOMAIN e.state
    BY <1>4, <1>9 DEF LaidOut
  <2>2. \A r \in ToSet(e.rows) : Len(e.cells[r]) = Len(e.columns)
    BY <1>2, <1>3, <1>4, <1>7, <1>10
  <2> QED BY <1>11, <1>12, <1>13, <1>17, <1>18, <2>1, <2>2 DEF LaidOut
<1>20. Keeps(d, e, K)
  <2>1. \A r \in K : r \in DOMAIN d.cells /\ r \notin ToSet(d.rows)
    BY DEF LaidOut
  <2> QED BY <1>4, <1>8, <1>9, <1>10, <2>1 DEF Keeps
<1> QED BY <1>3, <1>4, <1>19, <1>20 DEF e

\* A column's cells go out, one of each row.
LEMMA TakeColumnOut ==
  ASSUME NEW d, NEW K, NEW X, LaidOut(d, K, X), NEW k \in DOMAIN d.columns
  PROVE  LET e == ColumnOut(d, k)
             xs == ColumnCells(d, k)
         IN /\ LaidOut(e, K, X \cup ToSet(xs)) /\ Keeps(d, e, K)
            /\ Len(e.columns) + 1 = Len(d.columns) /\ e.rows = d.rows
            /\ xs \in Seq(DOMAIN d.state) /\ Len(xs) = Len(d.rows) /\ Once(xs)
            /\ ToSet(xs) \cap X = {} /\ DOMAIN e.state = DOMAIN d.state /\ e.type = d.type
            /\ k \in 1..Len(d.columns) /\ d.columns[k] \in DOMAIN d.type
<1> DEFINE t == RemoveAt(d.columns, k)
           row(r) == IF r \in ToSet(d.rows) THEN RemoveAt(d.cells[r], k) ELSE d.cells[r]
           cells == [r \in DOMAIN d.cells |-> row(r)]
           e == ColumnOut(d, k)
           xs == ColumnCells(d, k)
<1>1. IsTable(d)
  BY DEF LaidOut
<1>2. /\ d.columns \in Seq(DOMAIN d.type) /\ Len(d.columns) \in Nat /\ k \in 1..Len(d.columns)
      /\ d.rows \in Seq(DOMAIN d.cells) /\ DOMAIN d.rows = 1..Len(d.rows) /\ Len(d.rows) \in Nat
      /\ DOMAIN d.cells = 1..Len(d.cells) /\ Len(d.cells) \in Nat
      /\ ToSet(d.rows) \subseteq DOMAIN d.cells
      /\ \A r \in DOMAIN d.cells : d.cells[r] \in Seq(DOMAIN d.state)
  BY <1>1, TableFacts DEF IsTable
<1>3. t \in Seq(DOMAIN d.type) /\ Len(t) = Len(d.columns) - 1
  BY <1>2, RemoveOne
<1>4. e = [columns |-> t, type |-> d.type, name |-> d.name,
           rows |-> d.rows, cells |-> cells, state |-> d.state]
  <2>1. d = [columns |-> d.columns, type |-> d.type, name |-> d.name,
             rows |-> d.rows, cells |-> d.cells, state |-> d.state]
    BY <1>1 DEF IsTable
  <2> DEFINE d1 == [d EXCEPT !.columns = RemoveAt(@, k)]
  <2>2. d1 = [columns |-> t, type |-> d.type, name |-> d.name,
              rows |-> d.rows, cells |-> d.cells, state |-> d.state]
    BY <2>1
  <2>3. e = WithoutCells(d1, k)
    BY DEF ColumnOut
  <2> HIDE DEF d1, e, t
  <2>4. WithoutCells(d1, k) = [d1 EXCEPT !.cells = [r \in DOMAIN d1.cells |->
          IF r \in ToSet(d1.rows) THEN RemoveAt(d1.cells[r], k) ELSE d1.cells[r]]]
    BY DEF WithoutCells
  <2>5. d1.cells = d.cells /\ d1.rows = d.rows
    BY <2>2
  <2>6. WithoutCells(d1, k) = [d1 EXCEPT !.cells = cells]
    BY <2>4, <2>5, Zenon
  <2> HIDE DEF cells
  <2> QED BY <2>2, <2>3, <2>6
<1> HIDE DEF t, e
<1>5. ASSUME NEW r \in ToSet(d.rows)
      PROVE  /\ row(r) \in Seq(DOMAIN d.state) /\ Len(row(r)) = Len(d.columns) - 1
             /\ ToSet(row(r)) \subseteq CellsOf(d, r) /\ Once(row(r))
             /\ d.cells[r][k] \in CellsOf(d, r) /\ d.cells[r][k] \notin ToSet(row(r))
             /\ d.cells[r][k] \in DOMAIN d.state
  <2>1. /\ d.cells[r] \in Seq(DOMAIN d.state) /\ Len(d.cells[r]) = Len(d.columns)
        /\ Once(d.cells[r]) /\ k \in 1..Len(d.cells[r]) /\ row(r) = RemoveAt(d.cells[r], k)
    BY <1>2 DEF LaidOut, AllRows
  <2>2. RemoveAt(d.cells[r], k) \in Seq(DOMAIN d.state) /\ Len(RemoveAt(d.cells[r], k)) = Len(d.cells[r]) - 1
    BY <2>1, RemoveOne
  <2>3. /\ ToSet(RemoveAt(d.cells[r], k)) \subseteq ToSet(d.cells[r])
        /\ Once(RemoveAt(d.cells[r], k)) /\ d.cells[r][k] \notin ToSet(RemoveAt(d.cells[r], k))
    BY <2>1, RemoveKeepsOnce
  <2>4. d.cells[r][k] \in ToSet(d.cells[r]) /\ d.cells[r][k] \in DOMAIN d.state
    BY <2>1, LenProperties, ElementOfSeq DEF ToSet
  <2> HIDE DEF row
  <2> QED BY <2>1, <2>2, <2>3, <2>4 DEF CellsOf
<1>6. ASSUME NEW r \in DOMAIN d.cells, r \notin ToSet(d.rows)
      PROVE  row(r) = d.cells[r]
  BY <1>6
<1> HIDE DEF row
<1>7. cells \in Seq(Seq(DOMAIN d.state)) /\ DOMAIN cells = DOMAIN d.cells
  <2>1. \A r \in 1..Len(d.cells) : row(r) \in Seq(DOMAIN d.state)
    BY <1>2, <1>5, <1>6
  <2>2. cells \in [1..Len(d.cells) -> Seq(DOMAIN d.state)]
    BY <1>2, <2>1
  <2> QED BY <1>2, <2>2, FunctionIsSeq
<1>8. \A r \in DOMAIN d.cells : cells[r] = row(r)
  OBVIOUS
<1> HIDE DEF cells
<1>9. IsTable(e)
  BY <1>1, <1>2, <1>3, <1>4, <1>7 DEF IsTable
<1>10. /\ xs \in Seq(DOMAIN d.state) /\ Len(xs) = Len(d.rows) /\ DOMAIN xs = 1..Len(d.rows)
       /\ \A i \in 1..Len(d.rows) : xs[i] = d.cells[d.rows[i]][k] /\ d.rows[i] \in ToSet(d.rows)
  <2>1. xs = [i \in 1..Len(d.rows) |-> d.cells[d.rows[i]][k]]
    BY <1>2 DEF ColumnCells
  <2> HIDE DEF xs
  <2>2. \A i \in 1..Len(d.rows) : d.rows[i] \in ToSet(d.rows)
    BY <1>2 DEF ToSet
  <2>3. \A i \in 1..Len(d.rows) : d.cells[d.rows[i]][k] \in DOMAIN d.state
    BY <1>5, <2>2
  <2>4. xs \in [1..Len(d.rows) -> DOMAIN d.state]
    BY <2>1, <2>3
  <2>5. xs \in Seq(DOMAIN d.state) /\ Len(xs) = Len(d.rows)
    BY <1>2, <2>4, FunctionIsSeq
  <2> QED BY <2>1, <2>2, <2>5
<1> HIDE DEF xs
<1>11. Once(xs)
  <2> SUFFICES ASSUME NEW i \in 1..Len(d.rows), NEW j \in 1..Len(d.rows), xs[i] = xs[j] PROVE i = j
    BY <1>10 DEF Once
  <2>1. xs[i] \in CellsOf(d, d.rows[i]) /\ xs[i] \in CellsOf(d, d.rows[j])
    BY <1>5, <1>10
  <2>2. d.rows[i] \in AllRows(d, K) /\ d.rows[j] \in AllRows(d, K)
    BY <1>10 DEF AllRows
  <2>3. d.rows[i] = d.rows[j]
    BY <2>1, <2>2 DEF LaidOut
  <2> QED BY <1>2, <2>3 DEF LaidOut, Once
<1>12. AllRows(e, K) = AllRows(d, K) /\ AllRows(d, K) \subseteq DOMAIN d.cells
  BY <1>2, <1>4 DEF AllRows, LaidOut
<1>13. ASSUME NEW r \in AllRows(d, K)
       PROVE  /\ Once(e.cells[r]) /\ CellsOf(e, r) \subseteq CellsOf(d, r)
              /\ r \in ToSet(d.rows) => d.cells[r][k] \notin CellsOf(e, r)
  <2>1. e.cells[r] = row(r)
    BY <1>4, <1>8, <1>12
  <2>2. CASE r \in ToSet(d.rows)
    BY <1>5, <2>1, <2>2 DEF CellsOf
  <2>3. CASE r \notin ToSet(d.rows)
    <3>1. e.cells[r] = d.cells[r]
      BY <1>6, <1>12, <2>1, <2>3
    <3> QED BY <2>3, <3>1 DEF CellsOf, LaidOut
  <2> QED BY <2>2, <2>3
<1>14. ASSUME NEW x \in ToSet(xs)
       PROVE  \E q \in ToSet(d.rows) : x = d.cells[q][k] /\ x \in CellsOf(d, q) /\ x \in DOMAIN d.state
  <2>1. PICK i \in 1..Len(d.rows) : x = xs[i]
    BY <1>10 DEF ToSet
  <2> QED BY <1>5, <1>10, <2>1
<1>15. ASSUME NEW r \in AllRows(d, K), NEW x \in ToSet(xs) PROVE x \notin CellsOf(e, r)
  <2>1. PICK q \in ToSet(d.rows) : x = d.cells[q][k] /\ x \in CellsOf(d, q)
    BY <1>14
  <2>2. q \in AllRows(d, K)
    BY DEF AllRows
  <2>3. CASE q = r
    BY <1>13, <2>1, <2>3
  <2>4. CASE q # r
    <3>1. CellsOf(d, q) \cap CellsOf(d, r) = {}
      BY <2>2, <2>4 DEF LaidOut
    <3> QED BY <1>13, <2>1, <3>1
  <2> QED BY <2>3, <2>4
<1>16. ToSet(xs) \cap X = {} /\ ToSet(xs) \subseteq DOMAIN d.state
  <2>1. ASSUME NEW x \in ToSet(xs) PROVE x \notin X /\ x \in DOMAIN d.state
    <3>1. PICK q \in ToSet(d.rows) : x \in CellsOf(d, q) /\ x \in DOMAIN d.state
      BY <1>14
    <3> QED BY <3>1 DEF LaidOut, AllRows
  <2> QED BY <2>1
<1>17. LaidOut(e, K, X \cup ToSet(xs))
  <2>1. /\ Once(e.rows) /\ K \subseteq DOMAIN e.cells /\ ToSet(e.rows) \cap K = {}
        /\ X \cup ToSet(xs) \subseteq DOMAIN e.state
    BY <1>4, <1>7, <1>16 DEF LaidOut
  <2>2. \A r \in ToSet(e.rows) : Len(e.cells[r]) = Len(e.columns)
    BY <1>2, <1>3, <1>4, <1>5, <1>8
  <2>3. \A r \in AllRows(d, K) : CellsOf(d, r) \cap X = {}
    BY DEF LaidOut
  <2>4. \A q, r \in AllRows(d, K) : q # r => CellsOf(d, q) \cap CellsOf(d, r) = {}
    BY DEF LaidOut
  <2>5. \A q, r \in AllRows(d, K) : q # r => CellsOf(e, q) \cap CellsOf(e, r) = {}
    BY <1>13, <2>4
  <2>6. \A r \in AllRows(d, K) : CellsOf(e, r) \cap (X \cup ToSet(xs)) = {}
    BY <1>13, <1>15, <2>3
  <2> QED BY <1>9, <1>12, <1>13, <2>1, <2>2, <2>5, <2>6 DEF LaidOut
<1>18. Keeps(d, e, K)
  <2>1. \A r \in K : r \in DOMAIN d.cells /\ r \notin ToSet(d.rows)
    BY DEF LaidOut
  <2> QED BY <1>4, <1>6, <1>7, <1>8, <2>1 DEF Keeps
<1>19. d.columns[k] \in DOMAIN d.type /\ Len(e.columns) + 1 = Len(d.columns)
  BY <1>2, <1>3, <1>4, ElementOfSeq
<1> QED BY <1>2, <1>4, <1>10, <1>11, <1>16, <1>17, <1>18, <1>19 DEF e, xs

\* MoveColumn moves a cell of each row in the table and of no other.
LEMMA ShiftColumnKeeps ==
  ASSUME NEW d, NEW K, NEW X, LaidOut(d, K, X), NEW c, NEW right
  PROVE  LET e == ShiftColumn(d, c, right)
         IN /\ LaidOut(e, K, X) /\ Keeps(d, e, K)
            /\ Len(e.columns) = Len(d.columns) /\ Len(e.rows) = Len(d.rows)
<1> DEFINE i == PositionOf(d.columns, c)
           j == IF right THEN i + 1 ELSE i - 1
           t == Shifted(d.columns, i, j)
           row(r) == IF r \in ToSet(d.rows) THEN Shifted(d.cells[r], i, j) ELSE d.cells[r]
           cells == [r \in DOMAIN d.cells |-> row(r)]
           e == ShiftColumn(d, c, right)
<1>1. IsTable(d)
  BY DEF LaidOut
<1>2. /\ d.columns \in Seq(DOMAIN d.type) /\ Len(d.columns) \in Nat
      /\ DOMAIN d.columns = 1..Len(d.columns)
      /\ DOMAIN d.cells = 1..Len(d.cells) /\ Len(d.cells) \in Nat
      /\ ToSet(d.rows) \subseteq DOMAIN d.cells
      /\ \A r \in DOMAIN d.cells : d.cells[r] \in Seq(DOMAIN d.state)
  BY <1>1, TableFacts DEF IsTable
<1>3. i \in 0..Len(d.columns)
  BY <1>2, PositionFacts
<1>4. e = IF i = 0 \/ j \notin DOMAIN d.columns THEN d
          ELSE [d EXCEPT !.columns = t, !.cells = cells]
  <2>1. d = [columns |-> d.columns, type |-> d.type, name |-> d.name,
             rows |-> d.rows, cells |-> d.cells, state |-> d.state]
    BY <1>1 DEF IsTable
  <2> QED BY <2>1 DEF ShiftColumn
<1> HIDE DEF i, j, e
<1>5. CASE i = 0 \/ j \notin DOMAIN d.columns
  BY <1>4, <1>5 DEF Keeps, e
<1>6. CASE i # 0 /\ j \in DOMAIN d.columns
  <2>1. i \in 1..Len(d.columns) /\ j \in 1..Len(d.columns)
    BY <1>2, <1>3, <1>6
  <2>2. t \in Seq(DOMAIN d.type) /\ Len(t) = Len(d.columns)
    BY <1>2, <2>1, ShiftKeepsOnce
  <2>3. e = [columns |-> t, type |-> d.type, name |-> d.name,
             rows |-> d.rows, cells |-> cells, state |-> d.state]
    <3>1. d = [columns |-> d.columns, type |-> d.type, name |-> d.name,
               rows |-> d.rows, cells |-> d.cells, state |-> d.state]
      BY <1>1 DEF IsTable
    <3> HIDE DEF t, cells
    <3> QED BY <1>4, <1>6, <3>1
  <2> HIDE DEF t
  <2>4. ASSUME NEW r \in ToSet(d.rows)
        PROVE  /\ row(r) \in Seq(DOMAIN d.state) /\ Len(row(r)) = Len(d.columns)
               /\ ToSet(row(r)) \subseteq CellsOf(d, r) /\ Once(row(r))
    <3>1. /\ d.cells[r] \in Seq(DOMAIN d.state) /\ Len(d.cells[r]) = Len(d.columns)
          /\ Once(d.cells[r]) /\ row(r) = Shifted(d.cells[r], i, j)
      BY <1>2 DEF LaidOut, AllRows
    <3>2. /\ Shifted(d.cells[r], i, j) \in Seq(DOMAIN d.state)
          /\ Len(Shifted(d.cells[r], i, j)) = Len(d.cells[r])
          /\ ToSet(Shifted(d.cells[r], i, j)) \subseteq ToSet(d.cells[r])
          /\ Once(Shifted(d.cells[r], i, j))
      BY <2>1, <3>1, ShiftKeepsOnce
    <3> HIDE DEF row
    <3> QED BY <3>1, <3>2 DEF CellsOf
  <2>5. ASSUME NEW r \in DOMAIN d.cells, r \notin ToSet(d.rows)
        PROVE  row(r) = d.cells[r]
    BY <2>5
  <2> HIDE DEF row
  <2>6. cells \in Seq(Seq(DOMAIN d.state)) /\ DOMAIN cells = DOMAIN d.cells
    <3>1. \A r \in 1..Len(d.cells) : row(r) \in Seq(DOMAIN d.state)
      BY <1>2, <2>4, <2>5
    <3>2. cells \in [1..Len(d.cells) -> Seq(DOMAIN d.state)]
      BY <1>2, <3>1
    <3> QED BY <1>2, <3>2, FunctionIsSeq
  <2>7. \A r \in DOMAIN d.cells : cells[r] = row(r)
    OBVIOUS
  <2> HIDE DEF cells
  <2>8. IsTable(e)
    BY <1>1, <1>2, <2>2, <2>3, <2>6 DEF IsTable
  <2>9. AllRows(e, K) = AllRows(d, K) /\ AllRows(d, K) \subseteq DOMAIN d.cells
    BY <1>2, <2>3 DEF AllRows, LaidOut
  <2>10. ASSUME NEW r \in AllRows(d, K)
         PROVE  Once(e.cells[r]) /\ CellsOf(e, r) \subseteq CellsOf(d, r)
    <3>1. e.cells[r] = row(r)
      BY <2>3, <2>7, <2>9
    <3>2. CASE r \in ToSet(d.rows)
      BY <2>4, <3>1, <3>2 DEF CellsOf
    <3>3. CASE r \notin ToSet(d.rows)
      <4>1. e.cells[r] = d.cells[r]
        BY <2>5, <2>9, <3>1, <3>3
      <4> QED BY <4>1 DEF CellsOf, LaidOut
    <3> QED BY <3>2, <3>3
  <2>11. LaidOut(e, K, X)
    <3>1. Once(e.rows) /\ K \subseteq DOMAIN e.cells /\ ToSet(e.rows) \cap K = {} /\ X \subseteq DOMAIN e.state
      BY <2>3, <2>6 DEF LaidOut
    <3>2. \A r \in ToSet(e.rows) : Len(e.cells[r]) = Len(e.columns)
      BY <1>2, <2>2, <2>3, <2>4, <2>7
    <3>3. \A r \in AllRows(d, K) : CellsOf(d, r) \cap X = {}
      BY DEF LaidOut
    <3>4. \A q, r \in AllRows(d, K) : q # r => CellsOf(d, q) \cap CellsOf(d, r) = {}
      BY DEF LaidOut
    <3>5. \A q, r \in AllRows(d, K) : q # r => CellsOf(e, q) \cap CellsOf(e, r) = {}
      BY <2>10, <3>4
    <3>6. \A r \in AllRows(d, K) : CellsOf(e, r) \cap X = {}
      BY <2>10, <3>3
    <3> QED BY <2>8, <2>9, <2>10, <3>1, <3>2, <3>5, <3>6 DEF LaidOut
  <2>12. Keeps(d, e, K)
    <3>1. \A r \in K : r \in DOMAIN d.cells /\ r \notin ToSet(d.rows)
      BY DEF LaidOut
    <3> QED BY <2>3, <2>5, <2>6, <2>7, <3>1 DEF Keeps
  <2> QED BY <2>2, <2>3, <2>11, <2>12 DEF e
<1> QED BY <1>5, <1>6

\* New cells are appended to the states.
LEMMA MoreStates ==
  ASSUME NEW s, \E S : s \in Seq(S), NEW m \in Nat, NEW T, NEW f \in [1..m -> T]
  PROVE  /\ \E S : s \o f \in Seq(S)
         /\ Len(s) \in Nat /\ DOMAIN s = 1..Len(s) /\ DOMAIN (s \o f) = 1..(Len(s) + m)
<1>1. PICK S : s \in Seq(S)
  OBVIOUS
<1>2. s \in Seq(S \cup T) /\ f \in Seq(S \cup T) /\ Len(f) = m
  <2>1. f \in Seq(T) /\ Len(f) = m
    BY FunctionIsSeq
  <2>2. Seq(S) \subseteq Seq(S \cup T) /\ Seq(T) \subseteq Seq(S \cup T)
    BY SeqMonotonic
  <2> QED BY <1>1, <2>1, <2>2
<1>3. s \o f \in Seq(S \cup T) /\ Len(s \o f) = Len(s) + Len(f)
  BY <1>2, ConcatProperties
<1> QED BY <1>2, <1>3, LenProperties

\* The two updates of several parts of a table, part by part.
LEMMA RowsCellsState ==
  ASSUME NEW d, IsTable(d), NEW w, NEW l, NEW s
  PROVE  [d EXCEPT !.rows = w, !.cells = l, !.state = s]
         = [columns |-> d.columns, type |-> d.type, name |-> d.name,
            rows |-> w, cells |-> l, state |-> s]
<1> DEFINE x1 == [d EXCEPT !.rows = w]
           x2 == [x1 EXCEPT !.cells = l]
           x3 == [x2 EXCEPT !.state = s]
<1>1. x1 = [columns |-> d.columns, type |-> d.type, name |-> d.name,
            rows |-> w, cells |-> d.cells, state |-> d.state]
  <2>1. d = [columns |-> d.columns, type |-> d.type, name |-> d.name,
             rows |-> d.rows, cells |-> d.cells, state |-> d.state]
    BY DEF IsTable
  <2> QED BY <2>1
<1>2. [d EXCEPT !.rows = w, !.cells = l, !.state = s] = x3
  OBVIOUS
<1> HIDE DEF x1
<1>3. x2 = [columns |-> d.columns, type |-> d.type, name |-> d.name,
            rows |-> w, cells |-> l, state |-> d.state]
  BY <1>1
<1> HIDE DEF x2
<1>4. x3 = [columns |-> d.columns, type |-> d.type, name |-> d.name,
            rows |-> w, cells |-> l, state |-> s]
  BY <1>3
<1> HIDE DEF x3
<1> QED BY <1>2, <1>4

WithParts(d, k, y, m, s) == [d EXCEPT !.columns = k, !.type = y, !.name = m, !.state = s]

\* The same for a new column.
LEMMA ColumnsTypeNameState ==
  ASSUME NEW d, IsTable(d), NEW k, NEW y, NEW m, NEW s
  PROVE  WithParts(d, k, y, m, s) = [columns |-> k, type |-> y, name |-> m,
                                    rows |-> d.rows, cells |-> d.cells, state |-> s]
<1> DEFINE x1 == [d EXCEPT !.columns = k]
           x2 == [x1 EXCEPT !.type = y]
           x3 == [x2 EXCEPT !.name = m]
           x4 == [x3 EXCEPT !.state = s]
<1>1. x1 = [columns |-> k, type |-> d.type, name |-> d.name,
            rows |-> d.rows, cells |-> d.cells, state |-> d.state]
  <2>1. d = [columns |-> d.columns, type |-> d.type, name |-> d.name,
             rows |-> d.rows, cells |-> d.cells, state |-> d.state]
    BY DEF IsTable
  <2> QED BY <2>1
<1>2. WithParts(d, k, y, m, s) = x4
  BY DEF WithParts
<1> HIDE DEF x1
<1>3. x2 = [columns |-> k, type |-> y, name |-> d.name,
            rows |-> d.rows, cells |-> d.cells, state |-> d.state]
  BY <1>1
<1> HIDE DEF x2
<1>4. x3 = [columns |-> k, type |-> y, name |-> m,
            rows |-> d.rows, cells |-> d.cells, state |-> d.state]
  BY <1>3
<1> HIDE DEF x3
<1>5. x4 = [columns |-> k, type |-> y, name |-> m,
            rows |-> d.rows, cells |-> d.cells, state |-> s]
  BY <1>4
<1> HIDE DEF x4
<1> QED BY <1>2, <1>5

\* AddRow makes new cells, one for each column, for a new row.
LEMMA AddRowKeeps ==
  ASSUME NEW d, NEW K, NEW X, LaidOut(d, K, X), NEW i \in 1..(Len(d.rows) + 1)
  PROVE  LET e == AddRow(d, i)
         IN /\ LaidOut(e, K, X) /\ Keeps(d, e, K)
            /\ Len(e.columns) = Len(d.columns) /\ Len(e.rows) = Len(d.rows) + 1
<1> DEFINE r == Len(d.cells) + 1
           n == Len(d.state)
           ys == [k \in DOMAIN d.columns |-> n + k]
           new == [k \in DOMAIN d.columns |-> Fresh(d.type[d.columns[k]])]
           states == d.state \o new
           cells == Append(d.cells, ys)
           b == [columns |-> d.columns, type |-> d.type, name |-> d.name,
                 rows |-> d.rows, cells |-> cells, state |-> states]
<1>1. IsTable(d)
  BY DEF LaidOut
<1>2. /\ d.columns \in Seq(DOMAIN d.type) /\ Len(d.columns) \in Nat
      /\ DOMAIN d.columns = 1..Len(d.columns)
      /\ DOMAIN d.cells = 1..Len(d.cells) /\ Len(d.cells) \in Nat
      /\ ToSet(d.rows) \subseteq DOMAIN d.cells
      /\ d.cells \in Seq(Seq(DOMAIN d.state)) /\ \E S : d.state \in Seq(S)
      /\ \A q \in DOMAIN d.cells : CellsOf(d, q) \subseteq DOMAIN d.state
  BY <1>1, TableFacts DEF IsTable
<1>3. d = [columns |-> d.columns, type |-> d.type, name |-> d.name,
           rows |-> d.rows, cells |-> d.cells, state |-> d.state]
  BY <1>1 DEF IsTable
<1>4. b = [columns |-> d.columns, type |-> d.type, name |-> d.name,
           rows |-> d.rows, cells |-> cells, state |-> states]
  OBVIOUS
<1>5. AddRow(d, i) = RowIn(b, i, r)
  <2> DEFINE w == InsertAt(d.rows, i, r)
  <2>1. AddRow(d, i) = [d EXCEPT !.rows = w, !.cells = cells, !.state = states]
    BY DEF AddRow
  <2> HIDE DEF w, cells, states
  <2>2. AddRow(d, i) = [columns |-> d.columns, type |-> d.type, name |-> d.name,
                        rows |-> w, cells |-> cells, state |-> states]
    BY <1>1, <2>1, RowsCellsState
  <2>3. [b EXCEPT !.rows = w] = [columns |-> d.columns, type |-> d.type, name |-> d.name,
                                 rows |-> w, cells |-> cells, state |-> states]
    OBVIOUS
  <2>4. InsertAt(b.rows, i, r) = w
    BY DEF w
  <2> HIDE DEF b
  <2>5. RowIn(b, i, r) = [b EXCEPT !.rows = w]
    BY <2>4 DEF RowIn
  <2> QED BY <2>2, <2>3, <2>5
<1>6. /\ \E S : states \in Seq(S)
      /\ n \in Nat /\ DOMAIN d.state = 1..n /\ DOMAIN states = 1..(n + Len(d.columns))
  <2> DEFINE T == {new[k] : k \in 1..Len(d.columns)}
  <2>1. new \in [1..Len(d.columns) -> T]
    BY <1>2
  <2> HIDE DEF new, T
  <2> QED BY <1>2, <2>1, MoreStates
<1>7. /\ ys \in Seq(1..(n + Len(d.columns))) /\ Len(ys) = Len(d.columns) /\ Once(ys)
      /\ DOMAIN ys = 1..Len(d.columns) /\ \A k \in 1..Len(d.columns) : ys[k] = n + k
  <2> HIDE DEF n
  <2>1. ys \in [1..Len(d.columns) -> 1..(n + Len(d.columns))]
    BY <1>2, <1>6
  <2>2. ys \in Seq(1..(n + Len(d.columns))) /\ Len(ys) = Len(d.columns)
    BY <1>2, <2>1, FunctionIsSeq
  <2>3. DOMAIN ys = 1..Len(d.columns) /\ \A k \in 1..Len(d.columns) : ys[k] = n + k
    BY <1>2
  <2> HIDE DEF ys
  <2> QED BY <1>2, <1>6, <2>2, <2>3 DEF Once
<1> HIDE DEF states, ys, n, b
<1>8. /\ cells \in Seq(Seq(DOMAIN states)) /\ Len(cells) = Len(d.cells) + 1
      /\ cells[r] = ys /\ \A q \in DOMAIN d.cells : cells[q] = d.cells[q]
  <2>1. DOMAIN d.state \subseteq DOMAIN states
    BY <1>2, <1>6
  <2>2. Seq(DOMAIN d.state) \subseteq Seq(DOMAIN states)
    BY <2>1, SeqMonotonic
  <2>3. Seq(Seq(DOMAIN d.state)) \subseteq Seq(Seq(DOMAIN states))
    BY <2>2, SeqMonotonic
  <2>4. d.cells \in Seq(Seq(DOMAIN states)) /\ ys \in Seq(DOMAIN states)
    BY <1>2, <1>6, <1>7, <2>3
  <2> QED BY <1>2, <2>4, AppendProperties
<1> HIDE DEF cells
<1>9. r \notin DOMAIN d.cells /\ DOMAIN cells = DOMAIN d.cells \cup {r} /\ r \in DOMAIN cells
  <2>1. DOMAIN cells = 1..(Len(d.cells) + 1)
    BY <1>8, LenProperties
  <2> QED BY <1>2, <2>1
<1> HIDE DEF r
<1>10. IsTable(b)
  <2>1. d.rows \in Seq(DOMAIN cells)
    <3>1. Seq(DOMAIN d.cells) \subseteq Seq(DOMAIN cells)
      BY <1>9, SeqMonotonic
    <3> QED BY <1>1, <3>1 DEF IsTable
  <2> QED BY <1>1, <1>4, <1>6, <1>8, <2>1 DEF IsTable
<1>11. AllRows(b, K \cup {r}) = AllRows(d, K) \cup {r} /\ AllRows(d, K) \subseteq DOMAIN d.cells
  BY <1>2, <1>4 DEF AllRows, LaidOut
<1>12. \A q \in AllRows(d, K) : b.cells[q] = d.cells[q] /\ CellsOf(b, q) = CellsOf(d, q) /\ q # r
  BY <1>4, <1>8, <1>9, <1>11 DEF CellsOf
<1>13. Once(b.cells[r]) /\ CellsOf(b, r) \cap DOMAIN d.state = {} /\ Len(b.cells[r]) = Len(d.columns)
  <2>1. b.cells[r] = ys
    BY <1>4, <1>8
  <2>2. \A x \in ToSet(ys) : x \notin 1..n
    BY <1>2, <1>6, <1>7 DEF ToSet
  <2> QED BY <1>6, <1>7, <2>1, <2>2 DEF CellsOf
<1>14. LaidOut(b, K \cup {r}, X)
  <2>1. /\ Once(b.rows) /\ K \cup {r} \subseteq DOMAIN b.cells /\ ToSet(b.rows) \cap (K \cup {r}) = {}
        /\ X \subseteq DOMAIN b.state
    BY <1>2, <1>4, <1>6, <1>9 DEF LaidOut
  <2>2. \A q \in ToSet(b.rows) : Len(b.cells[q]) = Len(b.columns)
    BY <1>4, <1>12 DEF LaidOut, AllRows
  <2>3. \A q \in AllRows(d, K) : /\ Once(d.cells[q]) /\ CellsOf(d, q) \cap X = {}
                                 /\ CellsOf(d, q) \subseteq DOMAIN d.state
    BY <1>2, <1>11 DEF LaidOut
  <2>4. \A q \in AllRows(b, K \cup {r}) : Once(b.cells[q]) /\ CellsOf(b, q) \cap X = {}
    <3>1. X \subseteq DOMAIN d.state
      BY DEF LaidOut
    <3> QED BY <1>11, <1>12, <1>13, <2>3, <3>1
  <2>5. \A p, q \in AllRows(d, K) : p # q => CellsOf(d, p) \cap CellsOf(d, q) = {}
    BY DEF LaidOut
  <2>6. \A p, q \in AllRows(b, K \cup {r}) : p # q => CellsOf(b, p) \cap CellsOf(b, q) = {}
    BY <1>11, <1>12, <1>13, <2>3, <2>5
  <2> QED BY <1>10, <2>1, <2>2, <2>4, <2>6 DEF LaidOut
<1> DEFINE e == RowIn(b, i, r)
<1>15. /\ LaidOut(e, K, X) /\ Keeps(b, e, K)
       /\ e.columns = b.columns /\ Len(e.rows) = Len(b.rows) + 1
  <2>1. r \notin K /\ Len(b.cells[r]) = Len(b.columns) /\ i \in 1..(Len(b.rows) + 1)
    BY <1>4, <1>9, <1>13 DEF LaidOut
  <2> QED BY <1>14, <2>1, PutRowBack
<1> HIDE DEF e
<1>16. Keeps(d, e, K)
  <2>1. Keeps(d, b, K)
    BY <1>2, <1>4, <1>6, <1>9, <1>11, <1>12 DEF Keeps, AllRows
  <2> QED BY <1>15, <2>1 DEF Keeps
<1>17. e = AddRow(d, i)
  BY <1>5 DEF e
<1> QED BY <1>4, <1>15, <1>16, <1>17

\* AddColumn makes new cells, one for each row, for a new column.
LEMMA AddColumnKeeps ==
  ASSUME NEW d, NEW K, NEW X, LaidOut(d, K, X), NEW i \in 1..(Len(d.columns) + 1), NEW t \in Types
  PROVE  LET e == AddColumn(d, i, t)
         IN /\ LaidOut(e, K, X) /\ Keeps(d, e, K)
            /\ Len(e.columns) = Len(d.columns) + 1 /\ Len(e.rows) = Len(d.rows)
<1> DEFINE c == Len(d.type) + 1
           n == Len(d.state)
           xs == [r \in DOMAIN d.rows |-> n + r]
           new == [r \in DOMAIN d.rows |-> Fresh(t)]
           states == d.state \o new
           types == Append(d.type, t)
           names == Append(d.name, "added")
           b == [columns |-> d.columns, type |-> types, name |-> names,
                 rows |-> d.rows, cells |-> d.cells, state |-> states]
<1>1. IsTable(d)
  BY DEF LaidOut
<1>2. /\ d.columns \in Seq(DOMAIN d.type) /\ Len(d.rows) \in Nat /\ DOMAIN d.rows = 1..Len(d.rows)
      /\ d.type \in Seq(Types) /\ Len(d.type) \in Nat /\ DOMAIN d.type = 1..Len(d.type)
      /\ ToSet(d.rows) \subseteq DOMAIN d.cells
      /\ d.cells \in Seq(Seq(DOMAIN d.state)) /\ \E S : d.state \in Seq(S)
      /\ \A q \in DOMAIN d.cells : CellsOf(d, q) \subseteq DOMAIN d.state
  BY <1>1, TableFacts DEF IsTable
<1>3. d = [columns |-> d.columns, type |-> d.type, name |-> d.name,
           rows |-> d.rows, cells |-> d.cells, state |-> d.state]
  BY <1>1 DEF IsTable
<1>4. b = [columns |-> d.columns, type |-> types, name |-> names,
           rows |-> d.rows, cells |-> d.cells, state |-> states]
  OBVIOUS
<1>5. AddColumn(d, i, t) = ColumnIn(b, i, c, xs)
  <2>1. [d EXCEPT !.columns = InsertAt(@, i, c), !.type = Append(@, t),
                  !.name = Append(@, "added"), !.state = @ \o new]
        = [b EXCEPT !.columns = InsertAt(@, i, c)]
    <3> DEFINE k == InsertAt(d.columns, i, c)
    <3>1. InsertAt(b.columns, i, c) = k
      OBVIOUS
    <3> HIDE DEF k, types, names, states
    <3>2. WithParts(d, k, types, names, states) = [columns |-> k, type |-> types, name |-> names,
             rows |-> d.rows, cells |-> d.cells, state |-> states]
      BY <1>1, ColumnsTypeNameState
    <3>3. [b EXCEPT !.columns = k] = [columns |-> k, type |-> types, name |-> names,
                                      rows |-> d.rows, cells |-> d.cells, state |-> states]
      OBVIOUS
    <3> HIDE DEF b
    <3> QED BY <3>1, <3>2, <3>3, Zenon DEF k, types, names, states, WithParts
  <2> HIDE DEF b, c, n
  <2> QED BY <2>1, Zenon DEF AddColumn, ColumnIn, c, n
<1>6. /\ \E S : states \in Seq(S)
      /\ n \in Nat /\ DOMAIN d.state = 1..n /\ DOMAIN states = 1..(n + Len(d.rows))
  <2> DEFINE T == {Fresh(t)}
  <2>1. new \in [1..Len(d.rows) -> T]
    BY <1>2
  <2> HIDE DEF new, T
  <2> QED BY <1>2, <2>1, MoreStates
<1>7. /\ xs \in Seq(1..(n + Len(d.rows))) /\ Len(xs) = Len(d.rows) /\ Once(xs)
      /\ DOMAIN xs = 1..Len(d.rows) /\ \A r \in 1..Len(d.rows) : xs[r] = n + r
  <2> HIDE DEF n
  <2>1. xs \in [1..Len(d.rows) -> 1..(n + Len(d.rows))]
    BY <1>2, <1>6
  <2>2. xs \in Seq(1..(n + Len(d.rows))) /\ Len(xs) = Len(d.rows)
    BY <1>2, <2>1, FunctionIsSeq
  <2>3. DOMAIN xs = 1..Len(d.rows) /\ \A r \in 1..Len(d.rows) : xs[r] = n + r
    BY <1>2
  <2> HIDE DEF xs
  <2> QED BY <1>2, <1>6, <2>2, <2>3 DEF Once
<1> HIDE DEF states, xs, n, b
<1>8. types \in Seq(Types) /\ DOMAIN d.type \subseteq DOMAIN types /\ c \in DOMAIN types
  <2>1. types \in Seq(Types) /\ Len(types) = Len(d.type) + 1
    BY <1>2, AppendProperties
  <2>2. DOMAIN types = 1..(Len(d.type) + 1)
    BY <2>1, LenProperties
  <2> QED BY <1>2, <2>1, <2>2
<1> HIDE DEF types, names, c
<1>9. IsTable(b) /\ DOMAIN d.state \subseteq DOMAIN states
  <2>1. DOMAIN d.state \subseteq DOMAIN states
    BY <1>2, <1>6
  <2>2. Seq(DOMAIN d.state) \subseteq Seq(DOMAIN states)
    BY <2>1, SeqMonotonic
  <2>3. Seq(Seq(DOMAIN d.state)) \subseteq Seq(Seq(DOMAIN states))
    BY <2>2, SeqMonotonic
  <2>4. Seq(DOMAIN d.type) \subseteq Seq(DOMAIN types)
    BY <1>8, SeqMonotonic
  <2>5. d.cells \in Seq(Seq(DOMAIN states)) /\ d.columns \in Seq(DOMAIN types) /\ d.rows \in Seq(DOMAIN d.cells)
    BY <1>1, <1>2, <2>3, <2>4 DEF IsTable
  <2> QED BY <1>4, <1>6, <1>8, <2>1, <2>5 DEF IsTable
<1>10. ToSet(xs) \cap DOMAIN d.state = {} /\ ToSet(xs) \subseteq DOMAIN states
  <2>1. \A x \in ToSet(xs) : x \in (n + 1)..(n + Len(d.rows))
    BY <1>2, <1>6, <1>7 DEF ToSet
  <2> QED BY <1>2, <1>6, <2>1
<1>11. LaidOut(b, K, X \cup ToSet(xs))
  <2>1. AllRows(b, K) = AllRows(d, K) /\ AllRows(d, K) \subseteq DOMAIN d.cells
    BY <1>2, <1>4 DEF AllRows, LaidOut
  <2>2. \A q \in AllRows(d, K) : CellsOf(b, q) = CellsOf(d, q) /\ b.cells[q] = d.cells[q]
    BY <1>4 DEF CellsOf
  <2>3. \A q \in AllRows(d, K) : Once(d.cells[q]) /\ CellsOf(d, q) \cap (X \cup ToSet(xs)) = {}
    BY <1>2, <1>10, <2>1 DEF LaidOut
  <2>4. \A p, q \in AllRows(d, K) : p # q => CellsOf(d, p) \cap CellsOf(d, q) = {}
    BY DEF LaidOut
  <2>5. /\ Once(b.rows) /\ K \subseteq DOMAIN b.cells /\ ToSet(b.rows) \cap K = {}
        /\ X \cup ToSet(xs) \subseteq DOMAIN b.state
        /\ \A r \in ToSet(b.rows) : Len(b.cells[r]) = Len(b.columns)
    BY <1>4, <1>9, <1>10 DEF LaidOut
  <2> QED BY <1>9, <2>1, <2>2, <2>3, <2>4, <2>5 DEF LaidOut
<1> DEFINE e == ColumnIn(b, i, c, xs)
<1>12. /\ LaidOut(e, K, X) /\ Keeps(b, e, K)
       /\ Len(e.columns) = Len(b.columns) + 1 /\ e.rows = b.rows
  <2>1. /\ xs \in Seq(DOMAIN b.state) /\ Len(xs) = Len(b.rows) /\ ToSet(xs) \cap X = {}
        /\ i \in 1..(Len(b.columns) + 1) /\ c \in DOMAIN b.type
    BY <1>4, <1>6, <1>7, <1>8, <1>10 DEF LaidOut
  <2>2. Once(xs) /\ LaidOut(b, K, X \cup ToSet(xs))
    BY <1>7, <1>11
  <2> HIDE DEF e
  <2>3. GoIn(b, K, X, i, c, xs)
    BY <2>1, <2>2 DEF GoIn
  <2>4. e = ColumnIn(b, i, c, xs)
    BY DEF e
  <2> QED BY <2>3, <2>4, PutColumnIn
<1> HIDE DEF e
<1>13. Keeps(d, e, K)
  <2>1. Keeps(d, b, K)
    BY <1>4, <1>8, <1>9 DEF Keeps
  <2> QED BY <1>12, <2>1 DEF Keeps
<1>14. e = AddColumn(d, i, t)
  BY <1>5 DEF e
<1> QED BY <1>4, <1>12, <1>13, <1>14

-----------------------------------------------------------------------------
(***************************************************************************)
(* Commands: what holds of each before it is done, and what its parts say  *)
(* of the tables before and after it once it is done.                      *)
(***************************************************************************)
\* Nothing moves: states, names and types change, in place.
InPlace(d, e) ==
  /\ IsTable(e) /\ e.rows = d.rows /\ e.columns = d.columns /\ e.cells = d.cells
  /\ DOMAIN e.type = DOMAIN d.type /\ DOMAIN e.state = DOMAIN d.state

\* What changes in place leaves the layout and all that is out of the table.
LEMMA InPlaceKeeps ==
  ASSUME NEW d, NEW e, NEW K, NEW X, LaidOut(d, K, X), InPlace(d, e)
  PROVE  LaidOut(e, K, X) /\ Keeps(d, e, K)
BY SameLayout DEF InPlace, Keeps

\* New states for the cells,
LEMMA NewStates ==
  ASSUME NEW d, IsTable(d), NEW s, DOMAIN s = DOMAIN d.state, s = [x \in DOMAIN s |-> s[x]]
  PROVE  InPlace(d, [d EXCEPT !.state = s])
<1> DEFINE e == [d EXCEPT !.state = s]
           T == {s[x] : x \in DOMAIN s}
<1>1. d = [columns |-> d.columns, type |-> d.type, name |-> d.name,
           rows |-> d.rows, cells |-> d.cells, state |-> d.state]
  BY DEF IsTable
<1>2. e = [columns |-> d.columns, type |-> d.type, name |-> d.name,
           rows |-> d.rows, cells |-> d.cells, state |-> s]
  BY <1>1
<1>3. s \in Seq(T)
  <2>1. Len(d.state) \in Nat /\ DOMAIN s = 1..Len(d.state)
    BY TableFacts
  <2>2. s \in [1..Len(d.state) -> T]
    BY <2>1
  <2> HIDE DEF T
  <2> QED BY <2>1, <2>2, FunctionIsSeq
<1> HIDE DEF e, T
<1>4. IsTable(e)
  BY <1>2, <1>3 DEF IsTable
<1> QED BY <1>2, <1>4 DEF InPlace, e

\* in particular the restored ones,
LEMMA RestoredInPlace ==
  ASSUME NEW d, IsTable(d), NEW xs, NEW states
  PROVE  InPlace(d, Restored(d, xs, states))
<1> DEFINE s == [x \in DOMAIN d.state |->
                   IF x \in ToSet(xs) THEN states[PositionOf(xs, x)] ELSE d.state[x]]
<1>1. DOMAIN s = DOMAIN d.state /\ s = [x \in DOMAIN s |-> s[x]]
  OBVIOUS
<1>2. Restored(d, xs, states) = [d EXCEPT !.state = s]
  BY DEF Restored
<1> HIDE DEF s
<1> QED BY <1>1, <1>2, NewStates

\* a new name of a column,
LEMMA RenamedInPlace ==
  ASSUME NEW d, IsTable(d), NEW k, NEW n
  PROVE  InPlace(d, [d EXCEPT !.name[k] = n])
<1> DEFINE m == [d.name EXCEPT ![k] = n]
           e == [d EXCEPT !.name = m]
<1>1. d = [columns |-> d.columns, type |-> d.type, name |-> d.name,
           rows |-> d.rows, cells |-> d.cells, state |-> d.state]
  BY DEF IsTable
<1>2. [d EXCEPT !.name[k] = n] = e
  OBVIOUS
<1> HIDE DEF m
<1>3. e = [columns |-> d.columns, type |-> d.type, name |-> m,
           rows |-> d.rows, cells |-> d.cells, state |-> d.state]
  BY <1>1
<1> HIDE DEF e
<1>4. IsTable(e)
  BY <1>3 DEF IsTable
<1>5. InPlace(d, e)
  BY <1>3, <1>4 DEF InPlace
<1> QED BY <1>2, <1>5

\* and a new type of one are changes in place.
LEMMA RetypedInPlace ==
  ASSUME NEW d, IsTable(d), NEW k, NEW t \in Types
  PROVE  InPlace(d, [d EXCEPT !.type[k] = t])
<1> DEFINE y == [d.type EXCEPT ![k] = t]
           e == [d EXCEPT !.type = y]
<1>1. d = [columns |-> d.columns, type |-> d.type, name |-> d.name,
           rows |-> d.rows, cells |-> d.cells, state |-> d.state]
  BY DEF IsTable
<1>2. [d EXCEPT !.type[k] = t] = e
  OBVIOUS
<1>3. y \in Seq(Types) /\ DOMAIN y = DOMAIN d.type
  <2>1. d.type \in Seq(Types)
    BY DEF IsTable
  <2>2. d.type \in [1..Len(d.type) -> Types] /\ Len(d.type) \in Nat
    BY <2>1, LenProperties, ElementOfSeq
  <2>3. y \in [1..Len(d.type) -> Types]
    BY <2>2
  <2> QED BY <2>2, <2>3, FunctionIsSeq
<1> HIDE DEF y
<1>4. e = [columns |-> d.columns, type |-> y, name |-> d.name,
           rows |-> d.rows, cells |-> d.cells, state |-> d.state]
  BY <1>1
<1> HIDE DEF e
<1>5. IsTable(e)
  BY <1>3, <1>4 DEF IsTable
<1>6. InPlace(d, e)
  BY <1>3, <1>4, <1>5 DEF InPlace
<1> QED BY <1>2, <1>6

\* Two changes in place are one.
LEMMA InPlaceTwice ==
  ASSUME NEW d, NEW e, NEW f, InPlace(d, e), InPlace(e, f)
  PROVE  InPlace(d, f)
BY DEF InPlace

OpNames == {"edit", "import", "addRow", "addColumn", "removeRow", "removeColumn",
            "up", "down", "left", "right", "rename", "type"}

IsCommand(c) ==
  c = [op |-> c.op, on |-> c.on, at |-> c.at, arg |-> c.arg, value |-> c.value,
       old |-> c.old, cells |-> c.cells, was |-> c.was, raises |-> c.raises]

Known(c, d) ==
  /\ IsCommand(c)
  /\ c.op \in OpNames
  /\ c.op \in {"addRow", "addColumn"} => c.at \in Nat \ {0}
  /\ c.op \in {"addColumn", "type"} => c.arg \in Types
  /\ c.op = "type" => c.on \in DOMAIN d.type

\* The row and the cells a command has taken out.
OutRow(c) == IF c.op = "removeRow" THEN {c.on} ELSE {}
OutCell(c) == IF c.op = "removeColumn" THEN ToSet(c.cells) ELSE {}

\* Command c has turned a table of w columns and h rows into d, of w2 and h2.
Done(c, w, w2, h, h2, d) ==
  /\ c.op = "addRow" => h2 = h + 1 /\ c.at \in 1..h2
  /\ c.op = "removeRow" => /\ h = h2 + 1 /\ c.at \in 1..h
                           /\ c.on \in DOMAIN d.cells /\ Len(d.cells[c.on]) = w
  /\ c.op = "addColumn" => w2 = w + 1 /\ c.at \in 1..w2
  /\ c.op = "removeColumn" => /\ w = w2 + 1 /\ c.at \in 1..w /\ c.on \in DOMAIN d.type
                              /\ c.cells \in Seq(DOMAIN d.state) /\ Len(c.cells) = h /\ Once(c.cells)
  /\ c.op \notin {"addRow", "removeRow"} => h2 = h
  /\ c.op \notin {"addColumn", "removeColumn"} => w2 = w
  /\ c.op = "type" => c.was \in Types

Forward(d, e, c, K, X) ==
  /\ LaidOut(e, K \cup OutRow(c), X \cup OutCell(c)) /\ Keeps(d, e, K)
  /\ OutRow(c) \cap K = {} /\ OutCell(c) \cap X = {}
  /\ Known(c, e) /\ Done(c, Len(d.columns), Len(e.columns), Len(d.rows), Len(e.rows), e)

Backward(d, e, c, w, h, K, X) ==
  /\ LaidOut(e, K, X) /\ Keeps(d, e, K) /\ Known(c, e)
  /\ Len(e.columns) = w /\ Len(e.rows) = h

\* A command that changes the table in place, and one that moves a row or a column.
LEMMA StaysForward ==
  ASSUME NEW d, NEW e, NEW c, NEW K, NEW X, LaidOut(e, K, X), Keeps(d, e, K), Known(c, e),
         c.op \notin {"addRow", "removeRow", "addColumn", "removeColumn"},
         Len(e.columns) = Len(d.columns), Len(e.rows) = Len(d.rows),
         c.op = "type" => c.was \in Types
  PROVE  Forward(d, e, c, K, X)
<1>1. OutRow(c) = {} /\ OutCell(c) = {}
  BY DEF OutRow, OutCell
<1>2. K \cup {} = K /\ X \cup {} = X
  OBVIOUS
<1>3. Done(c, Len(d.columns), Len(e.columns), Len(d.rows), Len(e.rows), e)
  BY DEF Done
<1> QED BY <1>1, <1>2, <1>3 DEF Forward

\* What doing a command writes into it.
LEMMA WithOne ==
  ASSUME NEW c, IsCommand(c), NEW x
  PROVE  /\ [c EXCEPT !.at = x]
            = [op |-> c.op, on |-> c.on, at |-> x, arg |-> c.arg, value |-> c.value,
               old |-> c.old, cells |-> c.cells, was |-> c.was, raises |-> c.raises]
         /\ [c EXCEPT !.on = x]
            = [op |-> c.op, on |-> x, at |-> c.at, arg |-> c.arg, value |-> c.value,
               old |-> c.old, cells |-> c.cells, was |-> c.was, raises |-> c.raises]
         /\ [c EXCEPT !.was = x]
            = [op |-> c.op, on |-> c.on, at |-> c.at, arg |-> c.arg, value |-> c.value,
               old |-> c.old, cells |-> c.cells, was |-> x, raises |-> c.raises]
         /\ [c EXCEPT !.raises = x]
            = [op |-> c.op, on |-> c.on, at |-> c.at, arg |-> c.arg, value |-> c.value,
               old |-> c.old, cells |-> c.cells, was |-> c.was, raises |-> x]
<1>1. c = [op |-> c.op, on |-> c.on, at |-> c.at, arg |-> c.arg, value |-> c.value,
           old |-> c.old, cells |-> c.cells, was |-> c.was, raises |-> c.raises]
  BY DEF IsCommand
<1>2. [c EXCEPT !.at = x]
      = [op |-> c.op, on |-> c.on, at |-> x, arg |-> c.arg, value |-> c.value,
         old |-> c.old, cells |-> c.cells, was |-> c.was, raises |-> c.raises]
  BY <1>1
<1>3. [c EXCEPT !.on = x]
      = [op |-> c.op, on |-> x, at |-> c.at, arg |-> c.arg, value |-> c.value,
         old |-> c.old, cells |-> c.cells, was |-> c.was, raises |-> c.raises]
  BY <1>1
<1>4. [c EXCEPT !.was = x]
      = [op |-> c.op, on |-> c.on, at |-> c.at, arg |-> c.arg, value |-> c.value,
         old |-> c.old, cells |-> c.cells, was |-> x, raises |-> c.raises]
  BY <1>1
<1>5. [c EXCEPT !.raises = x]
      = [op |-> c.op, on |-> c.on, at |-> c.at, arg |-> c.arg, value |-> c.value,
         old |-> c.old, cells |-> c.cells, was |-> c.was, raises |-> x]
  BY <1>1
<1> QED BY <1>2, <1>3, <1>4, <1>5

Remembering(c, x, y) == [c EXCEPT !.old = x, !.cells = y]
\* An edit or an import remembers the states and the cells.
LEMMA RememberingIs ==
  ASSUME NEW c, IsCommand(c), NEW x, NEW y
  PROVE  Remembering(c, x, y)
         = [op |-> c.op, on |-> c.on, at |-> c.at, arg |-> c.arg, value |-> c.value,
            old |-> x, cells |-> y, was |-> c.was, raises |-> c.raises]
<1> DEFINE c1 == [c EXCEPT !.old = x]
           c2 == [c1 EXCEPT !.cells = y]
<1>1. c = [op |-> c.op, on |-> c.on, at |-> c.at, arg |-> c.arg, value |-> c.value,
           old |-> c.old, cells |-> c.cells, was |-> c.was, raises |-> c.raises]
  BY DEF IsCommand
<1>2. c1 = [op |-> c.op, on |-> c.on, at |-> c.at, arg |-> c.arg, value |-> c.value,
            old |-> x, cells |-> c.cells, was |-> c.was, raises |-> c.raises]
  BY <1>1
<1>3. Remembering(c, x, y) = c2
  BY DEF Remembering
<1> HIDE DEF c1
<1>4. c2 = [op |-> c.op, on |-> c.on, at |-> c.at, arg |-> c.arg, value |-> c.value,
            old |-> x, cells |-> y, was |-> c.was, raises |-> c.raises]
  BY <1>2
<1> HIDE DEF c2
<1> QED BY <1>3, <1>4

TakenFrom(c, x, y) == [c EXCEPT !.at = x, !.cells = y]
\* A removed column's command remembers the index and the cells.
LEMMA TakenFromIs ==
  ASSUME NEW c, IsCommand(c), NEW x, NEW y
  PROVE  TakenFrom(c, x, y)
         = [op |-> c.op, on |-> c.on, at |-> x, arg |-> c.arg, value |-> c.value,
            old |-> c.old, cells |-> y, was |-> c.was, raises |-> c.raises]
<1> DEFINE c1 == [c EXCEPT !.at = x]
           c2 == [c1 EXCEPT !.cells = y]
<1>1. c = [op |-> c.op, on |-> c.on, at |-> c.at, arg |-> c.arg, value |-> c.value,
           old |-> c.old, cells |-> c.cells, was |-> c.was, raises |-> c.raises]
  BY DEF IsCommand
<1>2. c1 = [op |-> c.op, on |-> c.on, at |-> x, arg |-> c.arg, value |-> c.value,
            old |-> c.old, cells |-> c.cells, was |-> c.was, raises |-> c.raises]
  BY <1>1
<1>3. TakenFrom(c, x, y) = c2
  BY DEF TakenFrom
<1> HIDE DEF c1
<1>4. c2 = [op |-> c.op, on |-> c.on, at |-> x, arg |-> c.arg, value |-> c.value,
            old |-> c.old, cells |-> y, was |-> c.was, raises |-> c.raises]
  BY <1>2
<1> HIDE DEF c2
<1> QED BY <1>3, <1>4

Cascading(c, x, y) == [c EXCEPT !.was = x, !.raises = y]
\* A change of type remembers the old type and whether it flagged a cell.
LEMMA CascadingIs ==
  ASSUME NEW c, IsCommand(c), NEW x, NEW y
  PROVE  Cascading(c, x, y)
         = [op |-> c.op, on |-> c.on, at |-> c.at, arg |-> c.arg, value |-> c.value,
            old |-> c.old, cells |-> c.cells, was |-> x, raises |-> y]
<1> DEFINE c1 == [c EXCEPT !.was = x]
           c2 == [c1 EXCEPT !.raises = y]
<1>1. c = [op |-> c.op, on |-> c.on, at |-> c.at, arg |-> c.arg, value |-> c.value,
           old |-> c.old, cells |-> c.cells, was |-> c.was, raises |-> c.raises]
  BY DEF IsCommand
<1>2. c1 = [op |-> c.op, on |-> c.on, at |-> c.at, arg |-> c.arg, value |-> c.value,
            old |-> c.old, cells |-> c.cells, was |-> x, raises |-> c.raises]
  BY <1>1
<1>3. Cascading(c, x, y) = c2
  BY DEF Cascading
<1> HIDE DEF c1
<1>4. c2 = [op |-> c.op, on |-> c.on, at |-> c.at, arg |-> c.arg, value |-> c.value,
            old |-> c.old, cells |-> c.cells, was |-> x, raises |-> y]
  BY <1>2
<1> HIDE DEF c2
<1> QED BY <1>3, <1>4

\* EditCellValue and ApplyCsvImport change cells in place.
LEMMA ChangeForward ==
  ASSUME NEW d, NEW K, NEW X, LaidOut(d, K, X), NEW c, Known(c, d),
         c.op \in {"edit", "import"}, NEW xs, NEW states
  PROVE  LET done == Changing(d, c, xs, states)
         IN Forward(d, done.doc, done.cmd, K, X)
<1> DEFINE e == Restored(d, xs, states)
           y == [i \in DOMAIN xs |-> d.state[xs[i]]]
           c2 == Remembering(c, y, xs)
<1>1. Changing(d, c, xs, states) = Ok(e, c2)
  BY DEF Changing, Remembering
<1>2. Changing(d, c, xs, states).doc = e /\ Changing(d, c, xs, states).cmd = c2
  <2> HIDE DEF e, c2
  <2> QED BY <1>1 DEF Ok
<1> HIDE DEF y
<1>3. IsCommand(c2) /\ c2.op = c.op
  <2>1. c2 = [op |-> c.op, on |-> c.on, at |-> c.at, arg |-> c.arg, value |-> c.value,
              old |-> y, cells |-> xs, was |-> c.was, raises |-> c.raises]
    BY RememberingIs DEF Known
  <2> HIDE DEF c2
  <2> QED BY <2>1 DEF IsCommand
<1>4. IsTable(d) /\ InPlace(d, e)
  BY RestoredInPlace DEF LaidOut
<1> HIDE DEF e, c2
<1>5. Known(c2, e)
  BY <1>3 DEF Known
<1>6. LaidOut(e, K, X) /\ Keeps(d, e, K) /\ Len(e.columns) = Len(d.columns) /\ Len(e.rows) = Len(d.rows)
  BY <1>4, InPlaceKeeps DEF InPlace
<1>7. Forward(d, e, c2, K, X)
  BY <1>3, <1>5, <1>6, StaysForward
<1> QED BY <1>2, <1>7

\* A command that fits a table fits what comes after it.
LEMMA KnownKept ==
  ASSUME NEW d, NEW e, NEW K, NEW c, Known(c, d), Keeps(d, e, K)
  PROVE  Known(c, e)
BY DEF Known, Keeps

\* ChangeColumnType changes cells and a column in place.
LEMMA RetypeForward ==
  ASSUME NEW d, NEW K, NEW X, LaidOut(d, K, X), NEW c, Known(c, d), c.op = "type"
  PROVE  Retype(d, c).ok /\ Forward(d, Retype(d, c).doc, Retype(d, c).cmd, K, X)
<1> DEFINE k == PositionOf(d.columns, c.on)
           xs == IF k = 0 THEN <<>> ELSE ColumnCells(d, k)
           d1 == [d EXCEPT !.type[c.on] = c.arg]
           states == [i \in DOMAIN xs |-> Retyped(d.state[xs[i]], c.arg)]
           done == Changing(d1, c, xs, states)
           flag == \E x \in ToSet(xs) : Reads[c.arg][d.state[x].value.text] = Fails
           c2 == Cascading(done.cmd, d.type[c.on], flag)
<1>1. Retype(d, c) = Ok(done.doc, c2)
  BY DEF Retype, Cascading
<1> HIDE DEF xs, states, flag
<1> DEFINE e == Restored(d1, xs, states)
           y == [i \in DOMAIN xs |-> d1.state[xs[i]]]
           c1 == Remembering(c, y, xs)
<1>2. done = Ok(e, c1)
  BY DEF Changing, Remembering
<1> HIDE DEF e, y, c1, done, d1
<1>3. done.doc = e /\ done.cmd = c1
  BY <1>2 DEF Ok
<1>4. c1 = [op |-> c.op, on |-> c.on, at |-> c.at, arg |-> c.arg, value |-> c.value,
            old |-> y, cells |-> xs, was |-> c.was, raises |-> c.raises]
  BY RememberingIs DEF Known, c1
<1>5. IsCommand(c1)
  BY <1>4 DEF IsCommand
<1>6. c2 = [op |-> c1.op, on |-> c1.on, at |-> c1.at, arg |-> c1.arg, value |-> c1.value,
            old |-> c1.old, cells |-> c1.cells, was |-> d.type[c.on], raises |-> flag]
  BY <1>3, <1>5, CascadingIs
<1> HIDE DEF c2
<1>7. /\ IsCommand(c2) /\ c2.op = c.op /\ c2.on = c.on /\ c2.arg = c.arg
      /\ c2.was = d.type[c.on]
  BY <1>4, <1>6 DEF IsCommand
<1>8. Retype(d, c).ok /\ Retype(d, c).doc = e /\ Retype(d, c).cmd = c2
  BY <1>1, <1>3 DEF Ok
<1>9. IsTable(d) /\ c.arg \in Types /\ c.on \in DOMAIN d.type
  BY DEF LaidOut, Known
<1>10. InPlace(d, d1)
  BY <1>9, RetypedInPlace DEF d1
<1>11. InPlace(d, e)
  <2>1. InPlace(d1, e)
    BY <1>10, RestoredInPlace DEF InPlace, e
  <2> QED BY <1>10, <2>1, InPlaceTwice
<1>12. LaidOut(e, K, X) /\ Keeps(d, e, K) /\ Len(e.columns) = Len(d.columns) /\ Len(e.rows) = Len(d.rows)
  BY <1>11, InPlaceKeeps DEF InPlace
<1>13. Known(c2, e)
  BY <1>7, <1>9, <1>12 DEF Known, Keeps
<1>14. c2.was \in Types
  <2>1. d.type \in Seq(Types) /\ DOMAIN d.type = 1..Len(d.type)
    BY <1>9, TableFacts DEF IsTable
  <2> QED BY <1>7, <1>9, <2>1, ElementOfSeq
<1>15. Forward(d, e, c2, K, X)
  BY <1>7, <1>12, <1>13, <1>14, StaysForward
<1> QED BY <1>8, <1>15

\* RemoveRow, when it finds the row,
LEMMA RemoveRowForward ==
  ASSUME NEW d, NEW K, NEW X, LaidOut(d, K, X), NEW c, Known(c, d), c.op = "removeRow",
         RemoveRow(d, c).ok
  PROVE  Forward(d, RemoveRow(d, c).doc, RemoveRow(d, c).cmd, K, X)
<1> DEFINE i == PositionOf(d.rows, c.on)
           e == RowOut(d, i)
           c2 == [c EXCEPT !.at = i]
<1>1. RemoveRow(d, c) = IF i = 0 THEN Throws(d, c) ELSE Ok(e, c2)
  BY DEF RemoveRow, RowOut
<1>2. c2 = [op |-> c.op, on |-> c.on, at |-> i, arg |-> c.arg, value |-> c.value,
            old |-> c.old, cells |-> c.cells, was |-> c.was, raises |-> c.raises]
  <2> HIDE DEF i
  <2> QED BY WithOne DEF Known
<1> HIDE DEF i, e, c2
<1>3. i # 0 /\ RemoveRow(d, c).doc = e /\ RemoveRow(d, c).cmd = c2
  BY <1>1 DEF Ok, Throws
<1>4. i \in DOMAIN d.rows /\ d.rows[i] = c.on
  <2>1. IsTable(d)
    BY DEF LaidOut
  <2>2. d.rows \in Seq(DOMAIN d.cells) /\ DOMAIN d.rows = 1..Len(d.rows)
    BY <2>1, TableFacts DEF IsTable
  <2> QED BY <1>3, <2>2, PositionFacts DEF i
<1>5. /\ LaidOut(e, K \cup {d.rows[i]}, X) /\ Keeps(d, e, K)
      /\ e.columns = d.columns /\ e.cells = d.cells
      /\ Len(e.rows) + 1 = Len(d.rows) /\ d.rows[i] \notin K
      /\ d.rows[i] \in DOMAIN d.cells /\ Len(d.cells[d.rows[i]]) = Len(d.columns)
  BY <1>4, TakeRowOut DEF e
<1>6. IsCommand(c2) /\ c2.op = "removeRow" /\ c2.on = c.on /\ c2.at = i
  BY <1>2 DEF IsCommand
<1>7. OutRow(c2) = {d.rows[i]} /\ OutCell(c2) = {} /\ Known(c2, e)
  BY <1>4, <1>6 DEF OutRow, OutCell, Known, OpNames
<1>8. Len(d.rows) \in Nat /\ Len(e.rows) \in Nat /\ i \in 1..Len(d.rows)
  <2>1. IsTable(d) /\ IsTable(e)
    BY <1>5 DEF LaidOut
  <2> QED BY <1>4, <2>1, TableFacts
<1>9. Done(c2, Len(d.columns), Len(e.columns), Len(d.rows), Len(e.rows), e)
  BY <1>4, <1>5, <1>6, <1>8 DEF Done
<1>10. LaidOut(e, K \cup OutRow(c2), X \cup OutCell(c2))
  <2>1. X \cup OutCell(c2) = X
    BY <1>7
  <2> QED BY <1>5, <1>7, <2>1
<1>11. Forward(d, e, c2, K, X)
  BY <1>5, <1>7, <1>9, <1>10 DEF Forward
<1> QED BY <1>3, <1>11

\* and RemoveColumn, when it finds the column, take out what they remember.
LEMMA RemoveColumnForward ==
  ASSUME NEW d, NEW K, NEW X, LaidOut(d, K, X), NEW c, Known(c, d), c.op = "removeColumn",
         RemoveColumn(d, c).ok
  PROVE  Forward(d, RemoveColumn(d, c).doc, RemoveColumn(d, c).cmd, K, X)
<1> DEFINE i == PositionOf(d.columns, c.on)
           e == ColumnOut(d, i)
           xs == ColumnCells(d, i)
           c2 == TakenFrom(c, i, xs)
<1>1. RemoveColumn(d, c) = IF i = 0 THEN Throws(d, c) ELSE Ok(e, c2)
  BY DEF RemoveColumn, ColumnOut, TakenFrom
<1> HIDE DEF i, xs
<1>2. c2 = [op |-> c.op, on |-> c.on, at |-> i, arg |-> c.arg, value |-> c.value,
            old |-> c.old, cells |-> xs, was |-> c.was, raises |-> c.raises]
  BY TakenFromIs DEF Known
<1> HIDE DEF e, c2
<1>3. i # 0 /\ RemoveColumn(d, c).doc = e /\ RemoveColumn(d, c).cmd = c2
  BY <1>1 DEF Ok, Throws
<1>4. i \in DOMAIN d.columns /\ d.columns[i] = c.on
  <2>1. IsTable(d)
    BY DEF LaidOut
  <2>2. d.columns \in Seq(DOMAIN d.type) /\ DOMAIN d.columns = 1..Len(d.columns)
    BY <2>1, TableFacts DEF IsTable
  <2> QED BY <1>3, <2>2, PositionFacts DEF i
<1>5. /\ LaidOut(e, K, X \cup ToSet(xs)) /\ Keeps(d, e, K)
      /\ Len(e.columns) + 1 = Len(d.columns) /\ e.rows = d.rows
      /\ xs \in Seq(DOMAIN d.state) /\ Len(xs) = Len(d.rows) /\ Once(xs)
      /\ ToSet(xs) \cap X = {} /\ DOMAIN e.state = DOMAIN d.state /\ e.type = d.type
      /\ i \in 1..Len(d.columns) /\ d.columns[i] \in DOMAIN d.type
  BY <1>4, TakeColumnOut DEF e, xs
<1>6. IsCommand(c2) /\ c2.op = "removeColumn" /\ c2.on = c.on /\ c2.at = i /\ c2.cells = xs
  BY <1>2 DEF IsCommand
<1>7. OutRow(c2) = {} /\ OutCell(c2) = ToSet(xs) /\ Known(c2, e)
  BY <1>4, <1>6 DEF OutRow, OutCell, Known, OpNames
<1>8. Len(d.columns) \in Nat /\ Len(e.columns) \in Nat
  <2>1. IsTable(d) /\ IsTable(e)
    BY <1>5 DEF LaidOut
  <2> QED BY <2>1, TableFacts
<1>9. Done(c2, Len(d.columns), Len(e.columns), Len(d.rows), Len(e.rows), e)
  BY <1>4, <1>5, <1>6, <1>8 DEF Done
<1>10. LaidOut(e, K \cup OutRow(c2), X \cup OutCell(c2))
  <2>1. K \cup OutRow(c2) = K
    BY <1>7
  <2> QED BY <1>5, <1>7, <2>1
<1>11. Forward(d, e, c2, K, X)
  BY <1>5, <1>7, <1>9, <1>10 DEF Forward
<1> QED BY <1>3, <1>11

\* AddRow and AddColumn make the table larger by one.
LEMMA AddRowForward ==
  ASSUME NEW d, NEW K, NEW X, LaidOut(d, K, X), NEW c, Known(c, d), c.op = "addRow",
         c.at \in 1..(Len(d.rows) + 1)
  PROVE  Forward(d, AddRow(d, c.at), c, K, X)
<1> DEFINE e == AddRow(d, c.at)
<1>1. /\ LaidOut(e, K, X) /\ Keeps(d, e, K)
      /\ Len(e.columns) = Len(d.columns) /\ Len(e.rows) = Len(d.rows) + 1
  BY AddRowKeeps
<1> HIDE DEF e
<1>2. Known(c, e)
  BY <1>1, KnownKept
<1>3. OutRow(c) = {} /\ OutCell(c) = {} /\ K \cup {} = K /\ X \cup {} = X
  BY DEF OutRow, OutCell
<1>4. Done(c, Len(d.columns), Len(e.columns), Len(d.rows), Len(e.rows), e)
  BY <1>1 DEF Done
<1>5. Forward(d, e, c, K, X)
  BY <1>1, <1>2, <1>3, <1>4 DEF Forward
<1> QED BY <1>5 DEF e

\* The added column is remembered.
LEMMA AddColumnForward ==
  ASSUME NEW d, NEW K, NEW X, LaidOut(d, K, X), NEW c, Known(c, d), c.op = "addColumn",
         c.at \in 1..(Len(d.columns) + 1), NEW n
  PROVE  Forward(d, AddColumn(d, c.at, c.arg), [c EXCEPT !.on = n], K, X)
<1> DEFINE e == AddColumn(d, c.at, c.arg)
           c2 == [c EXCEPT !.on = n]
<1>1. c2 = [op |-> c.op, on |-> n, at |-> c.at, arg |-> c.arg, value |-> c.value,
            old |-> c.old, cells |-> c.cells, was |-> c.was, raises |-> c.raises]
  BY WithOne DEF Known
<1>2. c.arg \in Types
  BY DEF Known
<1>3. /\ LaidOut(e, K, X) /\ Keeps(d, e, K)
      /\ Len(e.columns) = Len(d.columns) + 1 /\ Len(e.rows) = Len(d.rows)
  BY <1>2, AddColumnKeeps
<1> HIDE DEF e, c2
<1>4. IsCommand(c2) /\ c2.op = "addColumn" /\ c2.at = c.at /\ c2.arg = c.arg
  BY <1>1 DEF IsCommand
<1>5. Known(c2, e)
  BY <1>4 DEF Known
<1>6. OutRow(c2) = {} /\ OutCell(c2) = {} /\ K \cup {} = K /\ X \cup {} = X
  BY <1>4 DEF OutRow, OutCell
<1>7. Done(c2, Len(d.columns), Len(e.columns), Len(d.rows), Len(e.rows), e)
  BY <1>3, <1>4 DEF Done
<1>8. Forward(d, e, c2, K, X)
  BY <1>3, <1>5, <1>6, <1>7 DEF Forward
<1> QED BY <1>8 DEF e, c2

\* The four moves leave the sizes.
LEMMA MoveForward ==
  ASSUME NEW d, NEW K, NEW X, LaidOut(d, K, X), NEW c, Known(c, d),
         c.op \in {"up", "down", "left", "right"}, NEW e,
         \E r, b : e = ShiftRow(d, r, b) \/ e = ShiftColumn(d, r, b)
  PROVE  Forward(d, e, c, K, X)
<1>1. /\ LaidOut(e, K, X) /\ Keeps(d, e, K)
      /\ Len(e.columns) = Len(d.columns) /\ Len(e.rows) = Len(d.rows)
  <2>1. PICK r, b : e = ShiftRow(d, r, b) \/ e = ShiftColumn(d, r, b)
    OBVIOUS
  <2>2. CASE e = ShiftRow(d, r, b)
    BY <2>2, ShiftRowKeeps
  <2>3. CASE e = ShiftColumn(d, r, b)
    BY <2>3, ShiftColumnKeeps
  <2> QED BY <2>1, <2>2, <2>3
<1> QED BY <1>1, KnownKept, StaysForward

\* RenameColumn remembers the first name it replaces.
LEMMA RenameForward ==
  ASSUME NEW d, NEW K, NEW X, LaidOut(d, K, X), NEW c, Known(c, d), c.op = "rename"
  PROVE  Forward(d, [d EXCEPT !.name[c.on] = c.arg],
                 IF c.was = None THEN [c EXCEPT !.was = d.name[c.on]] ELSE c, K, X)
<1> DEFINE e == [d EXCEPT !.name[c.on] = c.arg]
           n == d.name[c.on]
           c1 == [c EXCEPT !.was = n]
           c2 == IF c.was = None THEN c1 ELSE c
<1>1. IsTable(d)
  BY DEF LaidOut
<1>2. InPlace(d, e)
  BY <1>1, RenamedInPlace
<1> HIDE DEF e, n
<1>3. c1 = [op |-> c.op, on |-> c.on, at |-> c.at, arg |-> c.arg, value |-> c.value,
            old |-> c.old, cells |-> c.cells, was |-> n, raises |-> c.raises]
  BY WithOne DEF Known
<1> HIDE DEF c1
<1>4. IsCommand(c2) /\ c2.op = c.op
  <2>1. IsCommand(c1) /\ c1.op = c.op
    BY <1>3 DEF IsCommand
  <2> QED BY <2>1 DEF Known
<1> HIDE DEF c2
<1>5. Known(c2, e)
  BY <1>4 DEF Known
<1>6. LaidOut(e, K, X) /\ Keeps(d, e, K) /\ Len(e.columns) = Len(d.columns) /\ Len(e.rows) = Len(d.rows)
  BY <1>2, InPlaceKeeps DEF InPlace
<1>7. Forward(d, e, c2, K, X)
  BY <1>4, <1>5, <1>6, StaysForward
<1> QED BY <1>7 DEF e, c1, c2, n

\* Doing a command that gets through.
LEMMA DoForward ==
  ASSUME NEW d, NEW K, NEW X, LaidOut(d, K, X), NEW c, Known(c, d), Do(d, c).ok
  PROVE  Forward(d, Do(d, c).doc, Do(d, c).cmd, K, X)
<1>1. CASE c.op \in {"edit", "import"}
  <2>1. \E xs, states : Do(d, c) = Changing(d, c, xs, states)
    BY <1>1 DEF Do, SetCells
  <2> QED BY <1>1, <2>1, ChangeForward
<1>2. CASE c.op = "addRow"
  <2>1. Do(d, c) = IF c.at > Len(d.rows) + 1 THEN Throws(d, c) ELSE Ok(AddRow(d, c.at), c)
    BY <1>2 DEF Do
  <2>2. /\ ~(c.at > Len(d.rows) + 1) /\ Do(d, c).doc = AddRow(d, c.at) /\ Do(d, c).cmd = c
    BY <2>1 DEF Ok, Throws
  <2>3. Len(d.rows) \in Nat /\ c.at \in Nat \ {0}
    BY <1>2, TableFacts DEF LaidOut, Known
  <2>4. c.at \in 1..(Len(d.rows) + 1)
    BY <2>2, <2>3
  <2> QED BY <1>2, <2>2, <2>4, AddRowForward
<1>3. CASE c.op = "addColumn"
  <2> DEFINE c2 == [c EXCEPT !.on = Len(d.type) + 1]
             e == AddColumn(d, c.at, c.arg)
  <2>1. Do(d, c) = IF c.at > Len(d.columns) + 1 THEN Throws(d, c) ELSE Ok(e, c2)
    BY <1>3 DEF Do
  <2> HIDE DEF c2, e
  <2>2. /\ ~(c.at > Len(d.columns) + 1) /\ Do(d, c).doc = e /\ Do(d, c).cmd = c2
    BY <2>1 DEF Ok, Throws
  <2>3. Len(d.columns) \in Nat /\ c.at \in Nat \ {0}
    BY <1>3, TableFacts DEF LaidOut, Known
  <2>4. c.at \in 1..(Len(d.columns) + 1)
    BY <2>2, <2>3
  <2>5. Forward(d, e, c2, K, X)
    BY <1>3, <2>4, AddColumnForward DEF c2, e
  <2> QED BY <2>2, <2>5
<1>4. CASE c.op = "removeRow"
  <2>1. Do(d, c) = RemoveRow(d, c)
    BY <1>4 DEF Do
  <2> QED BY <1>4, <2>1, RemoveRowForward
<1>5. CASE c.op = "removeColumn"
  <2>1. Do(d, c) = RemoveColumn(d, c)
    BY <1>5 DEF Do
  <2> QED BY <1>5, <2>1, RemoveColumnForward
<1>6. CASE c.op \in {"up", "down"}
  <2>1. Do(d, c) = Ok(ShiftRow(d, c.on, c.op = "down"), c)
    BY <1>6 DEF Do
  <2>2. Do(d, c).doc = ShiftRow(d, c.on, c.op = "down") /\ Do(d, c).cmd = c
    BY <2>1 DEF Ok
  <2> QED BY <1>6, <2>2, MoveForward
<1>7. CASE c.op \in {"left", "right"}
  <2>1. Do(d, c) = Ok(ShiftColumn(d, c.on, c.op = "right"), c)
    BY <1>7 DEF Do
  <2>2. Do(d, c).doc = ShiftColumn(d, c.on, c.op = "right") /\ Do(d, c).cmd = c
    BY <2>1 DEF Ok
  <2> QED BY <1>7, <2>2, MoveForward
<1>8. CASE c.op = "rename"
  <2> DEFINE e == [d EXCEPT !.name[c.on] = c.arg]
             c2 == IF c.was = None THEN [c EXCEPT !.was = d.name[c.on]] ELSE c
  <2>1. Do(d, c) = Ok(e, c2)
    BY <1>8 DEF Do
  <2>2. Forward(d, e, c2, K, X)
    BY <1>8, RenameForward
  <2> HIDE DEF e, c2
  <2> QED BY <2>1, <2>2 DEF Ok
<1>9. CASE c.op = "type"
  <2>1. Do(d, c) = Retype(d, c)
    BY <1>9 DEF Do
  <2> QED BY <1>9, <2>1, RetypeForward
<1> QED BY <1>1, <1>2, <1>3, <1>4, <1>5, <1>6, <1>7, <1>8, <1>9 DEF Known, OpNames

\* A command c that is the last one done, after w columns and h rows.
LastDone(d, c, w, h, K, X) ==
  /\ LaidOut(d, K \cup OutRow(c), X \cup OutCell(c))
  /\ OutRow(c) \cap K = {} /\ OutCell(c) \cap X = {}
  /\ Known(c, d) /\ w \in Nat /\ h \in Nat
  /\ Done(c, w, Len(d.columns), h, Len(d.rows), d)

\* The table under the last command, without what that one has taken out.
LEMMA LastDoneFacts ==
  ASSUME NEW d, NEW c, NEW w, NEW h, NEW K, NEW X, LastDone(d, c, w, h, K, X)
  PROVE  /\ IsTable(d) /\ LaidOut(d, K, X) /\ Known(c, d) /\ w \in Nat /\ h \in Nat
         /\ Len(d.columns) \in Nat /\ DOMAIN d.columns = 1..Len(d.columns)
         /\ Len(d.rows) \in Nat /\ DOMAIN d.rows = 1..Len(d.rows)
<1>1. LaidOut(d, K, X)
  BY LaidOutFewer DEF LastDone
<1> QED BY <1>1, TableFacts DEF LastDone, LaidOut

\* The sizes before a command that left them are the sizes after its undo.
LEMMA StaysBackward ==
  ASSUME NEW d, NEW e, NEW c, NEW c2, NEW w, NEW h, NEW K, NEW X, LastDone(d, c, w, h, K, X),
         c.op \notin {"addRow", "removeRow", "addColumn", "removeColumn"},
         LaidOut(e, K, X), Keeps(d, e, K), Known(c2, e),
         Len(e.columns) = Len(d.columns), Len(e.rows) = Len(d.rows)
  PROVE  Backward(d, e, c2, w, h, K, X)
BY DEF LastDone, Done, Backward

\* So it is for one that changes the table in place.
LEMMA InPlaceBackward ==
  ASSUME NEW d, NEW e, NEW c, NEW w, NEW h, NEW K, NEW X, LastDone(d, c, w, h, K, X),
         c.op \notin {"addRow", "removeRow", "addColumn", "removeColumn"}, InPlace(d, e)
  PROVE  Backward(d, e, c, w, h, K, X)
<1>1. LaidOut(d, K, X) /\ Known(c, d)
  BY LastDoneFacts
<1>2. LaidOut(e, K, X) /\ Keeps(d, e, K)
  BY <1>1, InPlaceKeeps
<1>3. Len(e.columns) = Len(d.columns) /\ Len(e.rows) = Len(d.rows)
  BY DEF InPlace
<1> QED BY <1>1, <1>2, <1>3, KnownKept, StaysBackward

\* A change of type is undone in place, whichever rows there are now.
LEMMA UndoRetypeBackward ==
  ASSUME NEW d, NEW c, NEW w, NEW h, NEW K, NEW X, LastDone(d, c, w, h, K, X), c.op = "type"
  PROVE  UndoRetype(d, c).ok /\ Backward(d, UndoRetype(d, c).doc, UndoRetype(d, c).cmd, w, h, K, X)
<1> DEFINE k == PositionOf(d.columns, c.on)
           d2 == [d EXCEPT !.type[c.on] = c.was]
           e == IF k = 0 THEN d2 ELSE Restored(d2, ColumnCells(d2, k), c.old)
           c2 == [c EXCEPT !.raises = FALSE]
<1>1. UndoRetype(d, c) = Ok(e, c2)
  BY DEF UndoRetype
<1>2. IsTable(d) /\ LaidOut(d, K, X) /\ Known(c, d) /\ c.was \in Types
  BY LastDoneFacts DEF LastDone, Done
<1>3. InPlace(d, d2)
  BY <1>2, RetypedInPlace
<1> HIDE DEF d2, k
<1>4. InPlace(d, e)
  <2>1. InPlace(d2, Restored(d2, ColumnCells(d2, k), c.old))
    BY <1>3, RestoredInPlace DEF InPlace
  <2> QED BY <1>3, <2>1, InPlaceTwice
<1> HIDE DEF e
<1>5. c2 = [op |-> c.op, on |-> c.on, at |-> c.at, arg |-> c.arg, value |-> c.value,
            old |-> c.old, cells |-> c.cells, was |-> c.was, raises |-> FALSE]
  BY <1>2, WithOne DEF Known
<1> HIDE DEF c2
<1>6. IsCommand(c2) /\ c2.op = c.op /\ c2.on = c.on /\ c2.arg = c.arg
  BY <1>5 DEF IsCommand
<1>7. Known(c2, e)
  BY <1>2, <1>4, <1>6 DEF Known, InPlace
<1>8. LaidOut(e, K, X) /\ Keeps(d, e, K) /\ Len(e.columns) = Len(d.columns) /\ Len(e.rows) = Len(d.rows)
  BY <1>2, <1>4, InPlaceKeeps DEF InPlace
<1>9. Backward(d, e, c2, w, h, K, X)
  BY <1>7, <1>8, StaysBackward
<1> QED BY <1>1, <1>9 DEF Ok

\* The row at the added row's index goes, and there is one at that index.
LEMMA UndoAddRowBackward ==
  ASSUME NEW d, NEW c, NEW w, NEW h, NEW K, NEW X, LastDone(d, c, w, h, K, X), c.op = "addRow"
  PROVE  c.at \in DOMAIN d.rows /\ Backward(d, RowOut(d, c.at), c, w, h, K, X)
<1> DEFINE e == RowOut(d, c.at)
<1>1. /\ LaidOut(d, K, X) /\ Known(c, d) /\ w \in Nat /\ h \in Nat
      /\ Len(d.rows) \in Nat /\ DOMAIN d.rows = 1..Len(d.rows)
  BY LastDoneFacts
<1>2. Len(d.rows) = h + 1 /\ c.at \in 1..Len(d.rows) /\ Len(d.columns) = w
  BY DEF LastDone, Done
<1>3. /\ LaidOut(e, K \cup {d.rows[c.at]}, X) /\ Keeps(d, e, K)
      /\ e.columns = d.columns /\ Len(e.rows) + 1 = Len(d.rows)
  BY <1>1, <1>2, TakeRowOut
<1> HIDE DEF e
<1>4. LaidOut(e, K, X)
  <2>1. X \cup {} = X
    OBVIOUS
  <2>2. LaidOut(e, K \cup {d.rows[c.at]}, X \cup {})
    BY <1>3, <2>1
  <2> QED BY <2>2, LaidOutFewer
<1>5. Len(e.rows) = h
  <2>1. Len(e.rows) \in Nat
    BY <1>4, TableFacts DEF LaidOut
  <2> QED BY <1>1, <1>2, <1>3, <2>1
<1>6. Known(c, e)
  BY <1>1, <1>3, KnownKept
<1>7. Backward(d, e, c, w, h, K, X)
  BY <1>2, <1>3, <1>4, <1>5, <1>6 DEF Backward
<1> QED BY <1>1, <1>2, <1>7 DEF e

\* The removed row is as wide as the table was then, and goes back.
LEMMA UndoRemoveRowBackward ==
  ASSUME NEW d, NEW c, NEW w, NEW h, NEW K, NEW X, LastDone(d, c, w, h, K, X), c.op = "removeRow"
  PROVE  c.at \in 1..(Len(d.rows) + 1) /\ Backward(d, RowIn(d, c.at, c.on), c, w, h, K, X)
<1> DEFINE e == RowIn(d, c.at, c.on)
<1>1. Known(c, d) /\ OutRow(c) = {c.on} /\ OutCell(c) = {} /\ X \cup {} = X
  BY DEF LastDone, OutRow, OutCell
<1>2. /\ h = Len(d.rows) + 1 /\ c.at \in 1..h
      /\ Len(d.cells[c.on]) = Len(d.columns) /\ w = Len(d.columns)
  BY DEF LastDone, Done
<1>3. LaidOut(d, K \cup {c.on}, X) /\ c.on \notin K
  BY <1>1 DEF LastDone
<1>4. /\ LaidOut(e, K, X) /\ Keeps(d, e, K) /\ e.columns = d.columns /\ Len(e.rows) = Len(d.rows) + 1
  BY <1>2, <1>3, PutRowBack
<1> HIDE DEF e
<1>5. Backward(d, e, c, w, h, K, X)
  BY <1>1, <1>2, <1>4, KnownKept DEF Backward
<1> QED BY <1>2, <1>5 DEF e

\* The added column goes, or the one at its index after a redo made a new one.
LEMMA UndoAddColumnBackward ==
  ASSUME NEW d, NEW c, NEW w, NEW h, NEW K, NEW X, LastDone(d, c, w, h, K, X), c.op = "addColumn"
  PROVE  /\ UndoAddColumn(d, c).ok
         /\ Backward(d, UndoAddColumn(d, c).doc, UndoAddColumn(d, c).cmd, w, h, K, X)
<1> DEFINE found == PositionOf(d.columns, c.on)
           i == IF found = 0 THEN c.at ELSE found
           e == ColumnOut(d, i)
           xs == ColumnCells(d, i)
<1>1. UndoAddColumn(d, c) = IF i \notin DOMAIN d.columns THEN Throws(d, c) ELSE Ok(e, c)
  BY DEF UndoAddColumn, ColumnOut
<1>2. /\ IsTable(d) /\ LaidOut(d, K, X) /\ Known(c, d) /\ w \in Nat /\ h \in Nat
      /\ Len(d.columns) \in Nat /\ DOMAIN d.columns = 1..Len(d.columns)
  BY LastDoneFacts
<1>3. Len(d.columns) = w + 1 /\ c.at \in 1..Len(d.columns) /\ Len(d.rows) = h
  BY DEF LastDone, Done
<1>4. i \in DOMAIN d.columns
  <2>1. found \in 0..Len(d.columns)
    BY <1>2, PositionFacts DEF IsTable
  <2> HIDE DEF found
  <2> QED BY <1>2, <1>3, <2>1
<1> HIDE DEF i, e, xs
<1>5. /\ LaidOut(e, K, X \cup ToSet(xs)) /\ Keeps(d, e, K)
      /\ Len(e.columns) + 1 = Len(d.columns) /\ e.rows = d.rows
  BY <1>2, <1>4, TakeColumnOut DEF e, xs
<1>6. LaidOut(e, K, X)
  <2>1. K \cup {} = K
    OBVIOUS
  <2>2. LaidOut(e, K \cup {}, X \cup ToSet(xs))
    BY <1>5, <2>1
  <2> QED BY <2>2, LaidOutFewer
<1>7. Len(e.columns) = w
  <2>1. Len(e.columns) \in Nat
    BY <1>6, TableFacts DEF LaidOut
  <2> QED BY <1>2, <1>3, <1>5, <2>1
<1>8. Known(c, e)
  BY <1>2, <1>5, KnownKept
<1>9. Backward(d, e, c, w, h, K, X)
  BY <1>3, <1>5, <1>6, <1>7, <1>8 DEF Backward
<1> QED BY <1>1, <1>4, <1>9 DEF Ok

\* The removed column has a cell for each row there was then, and goes back.
LEMMA UndoRemoveColumnBackward ==
  ASSUME NEW d, NEW c, NEW w, NEW h, NEW K, NEW X, LastDone(d, c, w, h, K, X), c.op = "removeColumn"
  PROVE  /\ c.at \in 1..(Len(d.columns) + 1)
         /\ Backward(d, ColumnIn(d, c.at, c.on, c.cells), c, w, h, K, X)
<1> DEFINE e == ColumnIn(d, c.at, c.on, c.cells)
<1>1. Known(c, d) /\ OutRow(c) = {} /\ OutCell(c) = ToSet(c.cells) /\ K \cup {} = K
  BY DEF LastDone, OutRow, OutCell
<1>2. /\ w = Len(d.columns) + 1 /\ c.at \in 1..w /\ c.on \in DOMAIN d.type
      /\ c.cells \in Seq(DOMAIN d.state) /\ Len(c.cells) = Len(d.rows) /\ Once(c.cells) /\ h = Len(d.rows)
  BY DEF LastDone, Done
<1>3. LaidOut(d, K, X \cup ToSet(c.cells)) /\ ToSet(c.cells) \cap X = {}
  BY <1>1 DEF LastDone
<1>4. GoIn(d, K, X, c.at, c.on, c.cells)
  BY <1>2, <1>3 DEF GoIn
<1>5. /\ LaidOut(e, K, X) /\ Keeps(d, e, K) /\ Len(e.columns) = Len(d.columns) + 1 /\ e.rows = d.rows
  BY <1>4, PutColumnIn
<1> HIDE DEF e
<1>6. Backward(d, e, c, w, h, K, X)
  BY <1>1, <1>2, <1>5, KnownKept DEF Backward
<1> QED BY <1>2, <1>6 DEF e

\* The last command done can always be undone.
LEMMA UndoBackward ==
  ASSUME NEW d, NEW c, NEW w, NEW h, NEW K, NEW X, LastDone(d, c, w, h, K, X)
  PROVE  UndoOp(d, c).ok /\ Backward(d, UndoOp(d, c).doc, UndoOp(d, c).cmd, w, h, K, X)
<1>0. IsTable(d) /\ LaidOut(d, K, X) /\ Known(c, d)
  BY LastDoneFacts
<1>1. CASE c.op \in {"edit", "import"}
  <2> DEFINE e == Restored(d, c.cells, c.old)
  <2>1. UndoOp(d, c) = Ok(e, c)
    BY <1>1 DEF UndoOp
  <2>2. Backward(d, e, c, w, h, K, X)
    BY <1>0, <1>1, RestoredInPlace, InPlaceBackward
  <2> HIDE DEF e
  <2> QED BY <2>1, <2>2 DEF Ok
<1>2. CASE c.op = "addRow"
  <2> DEFINE e == RowOut(d, c.at)
  <2>1. UndoOp(d, c) = IF c.at \notin DOMAIN d.rows THEN Throws(d, c) ELSE Ok(e, c)
    BY <1>2 DEF UndoOp, RowOut
  <2>2. c.at \in DOMAIN d.rows /\ Backward(d, e, c, w, h, K, X)
    BY <1>2, UndoAddRowBackward
  <2> HIDE DEF e
  <2> QED BY <2>1, <2>2 DEF Ok
<1>3. CASE c.op = "addColumn"
  <2>1. UndoOp(d, c) = UndoAddColumn(d, c)
    BY <1>3 DEF UndoOp
  <2> QED BY <1>3, <2>1, UndoAddColumnBackward
<1>4. CASE c.op = "removeRow"
  <2> DEFINE e == RowIn(d, c.at, c.on)
  <2>1. UndoOp(d, c) = IF c.at > Len(d.rows) + 1 THEN Throws(d, c) ELSE Ok(e, c)
    BY <1>4 DEF UndoOp, RowIn
  <2>2. c.at \in 1..(Len(d.rows) + 1) /\ Backward(d, e, c, w, h, K, X)
    BY <1>4, UndoRemoveRowBackward
  <2>3. ~(c.at > Len(d.rows) + 1)
    BY <2>2, LastDoneFacts
  <2> HIDE DEF e
  <2> QED BY <2>1, <2>2, <2>3 DEF Ok
<1>5. CASE c.op = "removeColumn"
  <2> DEFINE e == ColumnIn(d, c.at, c.on, c.cells)
  <2>1. UndoOp(d, c) = IF c.at > Len(d.columns) + 1 THEN Throws(d, c) ELSE Ok(e, c)
    BY <1>5 DEF UndoOp, ColumnIn
  <2>2. c.at \in 1..(Len(d.columns) + 1) /\ Backward(d, e, c, w, h, K, X)
    BY <1>5, UndoRemoveColumnBackward
  <2>3. ~(c.at > Len(d.columns) + 1)
    BY <2>2, LastDoneFacts
  <2> HIDE DEF e
  <2> QED BY <2>1, <2>2, <2>3 DEF Ok
<1>6. CASE c.op \in {"up", "down", "left", "right"}
  <2>1. PICK e : UndoOp(d, c) = Ok(e, c) /\ \E r, b : e = ShiftRow(d, r, b) \/ e = ShiftColumn(d, r, b)
    BY <1>6 DEF UndoOp
  <2>2. Forward(d, e, c, K, X)
    BY <1>0, <1>6, <2>1, MoveForward
  <2>3. /\ LaidOut(e, K, X) /\ Keeps(d, e, K) /\ Known(c, e)
        /\ Len(e.columns) = Len(d.columns) /\ Len(e.rows) = Len(d.rows)
    <3>1. OutRow(c) = {} /\ OutCell(c) = {} /\ K \cup {} = K /\ X \cup {} = X
      BY <1>6 DEF OutRow, OutCell
    <3> QED BY <1>6, <2>2, <3>1 DEF Forward, Done
  <2>4. Backward(d, e, c, w, h, K, X)
    BY <1>6, <2>3, StaysBackward
  <2> QED BY <2>1, <2>4 DEF Ok
<1>7. CASE c.op = "rename"
  <2> DEFINE e == [d EXCEPT !.name[c.on] = c.was]
  <2>1. UndoOp(d, c) = Ok(e, c)
    BY <1>7 DEF UndoOp
  <2>2. InPlace(d, e)
    BY <1>0, RenamedInPlace
  <2> HIDE DEF e
  <2>3. Backward(d, e, c, w, h, K, X)
    BY <1>7, <2>2, InPlaceBackward
  <2> QED BY <2>1, <2>3 DEF Ok
<1>8. CASE c.op = "type"
  <2>1. UndoOp(d, c) = UndoRetype(d, c)
    BY <1>8 DEF UndoOp
  <2> QED BY <1>8, <2>1, UndoRetypeBackward
<1> QED BY <1>0, <1>1, <1>2, <1>3, <1>4, <1>5, <1>6, <1>7, <1>8 DEF Known, OpNames

-----------------------------------------------------------------------------
(***************************************************************************)
(* The stack of the commands done: each fits the sizes the table had before *)
(* and after it, and no two have taken out the same row or cell.           *)
(***************************************************************************)
OutRows(s) == UNION {OutRow(s[i]) : i \in DOMAIN s}
OutCells(s) == UNION {OutCell(s[i]) : i \in DOMAIN s}

Apart(s) ==
  \A i, j \in DOMAIN s :
    i # j => OutRow(s[i]) \cap OutRow(s[j]) = {} /\ OutCell(s[i]) \cap OutCell(s[j]) = {}

Chain(d, s, W, H) == \A i \in 1..Len(s) : Done(s[i], W[i - 1], W[i], H[i - 1], H[i], d)

Past(d, s, w, h) ==
  /\ \E S : s \in Seq(S)
  /\ \A i \in DOMAIN s : Known(s[i], d)
  /\ Apart(s)
  /\ \E W, H \in [0..Len(s) -> Nat] : W[Len(s)] = w /\ H[Len(s)] = h /\ Chain(d, s, W, H)

\* What a done command says of the objects holds as long as they are kept,
LEMMA DoneKept ==
  ASSUME NEW d, NEW e, NEW K, Keeps(d, e, K), NEW c, NEW w, NEW w2, NEW h, NEW h2,
         Done(c, w, w2, h, h2, d), OutRow(c) \subseteq K
  PROVE  Done(c, w, w2, h, h2, e)
<1>1. Seq(DOMAIN d.state) \subseteq Seq(DOMAIN e.state)
  BY SeqMonotonic DEF Keeps
<1>2. c.op = "removeRow" => e.cells[c.on] = d.cells[c.on]
  BY DEF Keeps, OutRow
<1> QED BY <1>1, <1>2 DEF Done, Keeps

\* and so does what the stack says.
LEMMA PastKept ==
  ASSUME NEW d, NEW e, NEW s, NEW w, NEW h, Past(d, s, w, h), Keeps(d, e, OutRows(s))
  PROVE  Past(e, s, w, h)
<1>1. PICK W, H \in [0..Len(s) -> Nat] : W[Len(s)] = w /\ H[Len(s)] = h /\ Chain(d, s, W, H)
  BY DEF Past
<1>2. DOMAIN s = 1..Len(s)
  BY LenProperties DEF Past
<1>3. Chain(e, s, W, H)
  <2> SUFFICES ASSUME NEW i \in 1..Len(s)
               PROVE  Done(s[i], W[i - 1], W[i], H[i - 1], H[i], e)
    BY DEF Chain
  <2>1. Done(s[i], W[i - 1], W[i], H[i - 1], H[i], d) /\ OutRow(s[i]) \subseteq OutRows(s)
    BY <1>1, <1>2 DEF Chain, OutRows
  <2> QED BY <2>1, DoneKept
<1>4. \A i \in DOMAIN s : Known(s[i], e)
  BY KnownKept DEF Past
<1> QED BY <1>1, <1>3, <1>4 DEF Past

\* One more command on the stack, with what it has taken out.
LEMMA PastMore ==
  ASSUME NEW d, NEW s, NEW w, NEW h, Past(d, s, w, h), NEW c, Known(c, d),
         NEW w2 \in Nat, NEW h2 \in Nat, Done(c, w, w2, h, h2, d),
         OutRow(c) \cap OutRows(s) = {}, OutCell(c) \cap OutCells(s) = {}
  PROVE  /\ Past(d, Append(s, c), w2, h2)
         /\ OutRows(Append(s, c)) = OutRows(s) \cup OutRow(c)
         /\ OutCells(Append(s, c)) = OutCells(s) \cup OutCell(c)
<1> DEFINE t == Append(s, c)
           n == Len(s)
<1>1. PICK S : s \in Seq(S)
  BY DEF Past
<1>2. /\ t \in Seq(S \cup {c}) /\ Len(t) = n + 1 /\ t[n + 1] = c /\ \A i \in 1..n : t[i] = s[i]
      /\ n \in Nat /\ DOMAIN s = 1..n /\ DOMAIN t = 1..(n + 1)
  <2>1. s \in Seq(S \cup {c}) /\ c \in S \cup {c}
    <3>1. Seq(S) \subseteq Seq(S \cup {c})
      BY SeqMonotonic
    <3> QED BY <1>1, <3>1
  <2>2. t \in Seq(S \cup {c}) /\ Len(t) = n + 1 /\ t[n + 1] = c /\ \A i \in 1..n : t[i] = s[i]
    BY <2>1, AppendProperties
  <2> QED BY <1>1, <2>2, LenProperties
<1> HIDE DEF t, n
<1>3. PICK W, H \in [0..n -> Nat] : W[n] = w /\ H[n] = h /\ Chain(d, s, W, H)
  BY DEF Past, n
<1> DEFINE W2 == [i \in 0..(n + 1) |-> IF i = n + 1 THEN w2 ELSE W[i]]
           H2 == [i \in 0..(n + 1) |-> IF i = n + 1 THEN h2 ELSE H[i]]
<1>4. W2 \in [0..(n + 1) -> Nat] /\ H2 \in [0..(n + 1) -> Nat]
  BY <1>2, <1>3
<1>5. /\ W2[n + 1] = w2 /\ H2[n + 1] = h2
      /\ \A i \in 0..n : W2[i] = W[i] /\ H2[i] = H[i]
  BY <1>2
<1> HIDE DEF W2, H2
<1>6. Chain(d, t, W2, H2)
  <2> SUFFICES ASSUME NEW i \in 1..(n + 1)
               PROVE  Done(t[i], W2[i - 1], W2[i], H2[i - 1], H2[i], d)
    BY <1>2 DEF Chain
  <2>1. CASE i = n + 1
    <3>1. i - 1 = n /\ n \in 0..n
      BY <1>2, <2>1
    <3>2. W2[i - 1] = w /\ W2[i] = w2 /\ H2[i - 1] = h /\ H2[i] = h2 /\ t[i] = c
      BY <1>2, <1>3, <1>5, <2>1, <3>1
    <3> QED BY <3>2
  <2>2. CASE i # n + 1
    <3>1. i \in 1..n /\ i \in 0..n /\ i - 1 \in 0..n
      BY <1>2, <2>2
    <3>2. W2[i - 1] = W[i - 1] /\ W2[i] = W[i] /\ H2[i - 1] = H[i - 1] /\ H2[i] = H[i] /\ t[i] = s[i]
      BY <1>2, <1>5, <3>1
    <3>3. Done(s[i], W[i - 1], W[i], H[i - 1], H[i], d)
      BY <1>3, <3>1 DEF Chain, n
    <3> QED BY <3>2, <3>3
  <2> QED BY <2>1, <2>2
<1>7. \A i \in DOMAIN t : Known(t[i], d)
  BY <1>2 DEF Past
<1>8. \A i \in 1..n : OutRow(t[i]) \cap OutRow(c) = {} /\ OutCell(t[i]) \cap OutCell(c) = {}
  BY <1>2 DEF OutRows, OutCells
<1>9. Apart(t)
  <2> SUFFICES ASSUME NEW i \in 1..(n + 1), NEW j \in 1..(n + 1), i # j
               PROVE  OutRow(t[i]) \cap OutRow(t[j]) = {} /\ OutCell(t[i]) \cap OutCell(t[j]) = {}
    BY <1>2 DEF Apart
  <2>1. CASE i \in 1..n /\ j \in 1..n
    BY <1>2, <2>1 DEF Past, Apart
  <2>2. CASE i = n + 1 /\ j \in 1..n
    BY <1>2, <1>8, <2>2
  <2>3. CASE i \in 1..n /\ j = n + 1
    BY <1>2, <1>8, <2>3
  <2> QED BY <1>2, <2>1, <2>2, <2>3
<1>10. Past(d, t, w2, h2)
  BY <1>2, <1>4, <1>5, <1>6, <1>7, <1>9 DEF Past
<1>11. 1..(n + 1) = 1..n \cup {n + 1}
  BY <1>2
<1>12. OutRows(t) = OutRows(s) \cup OutRow(c)
  BY <1>2, <1>11 DEF OutRows
<1>13. OutCells(t) = OutCells(s) \cup OutCell(c)
  BY <1>2, <1>11 DEF OutCells
<1> QED BY <1>10, <1>12, <1>13 DEF t

\* A stack that is not empty: its last command and the ones before.
LEMMA Shorter ==
  ASSUME NEW s, \E S : s \in Seq(S), s # <<>>
  PROVE  /\ \E S : Front(s) \in Seq(S)
         /\ Len(s) \in Nat /\ DOMAIN s = 1..Len(s) /\ Len(s) > 0 /\ Last(s) = s[Len(s)]
         /\ Len(Front(s)) = Len(s) - 1 /\ DOMAIN Front(s) = 1..(Len(s) - 1)
         /\ \A i \in 1..(Len(s) - 1) : Front(s)[i] = s[i]
<1> DEFINE n == Len(s)
           f == SubSeq(s, 1, n - 1)
<1>1. PICK S : s \in Seq(S)
  OBVIOUS
<1>2. n \in Nat /\ DOMAIN s = 1..n /\ n > 0 /\ \A i \in 1..n : s[i] \in S
  BY <1>1, LenProperties, ElementOfSeq, EmptySeq
<1>3. Front(s) = f /\ Last(s) = s[n]
  BY DEF Front, Last
<1>4. 1 \in Int /\ n - 1 \in Int /\ \A i \in 1..(n - 1) : s[i] \in S
  BY <1>2
<1>5. /\ f \in Seq(S) /\ Len(f) = IF 1 <= n - 1 THEN n - 1 - 1 + 1 ELSE 0
      /\ \A i \in 1..(n - 1 - 1 + 1) : f[i] = s[1 + i - 1]
  BY <1>4, SubSeqProperties
<1> HIDE DEF f, n
<1>6. Len(f) = n - 1 /\ \A i \in 1..(n - 1) : f[i] = s[i]
  BY <1>2, <1>5
<1>7. DOMAIN f = 1..(n - 1)
  BY <1>5, <1>6, LenProperties
<1> QED BY <1>2, <1>3, <1>5, <1>6, <1>7 DEF n

\* Without its last command the stack fits the table before that one.
LEMMA PastFewer ==
  ASSUME NEW d, NEW s, NEW w2, NEW h2, Past(d, s, w2, h2), s # <<>>
  PROVE  /\ \E w, h \in Nat : /\ Past(d, Front(s), w, h) /\ Done(Last(s), w, w2, h, h2, d)
         /\ Known(Last(s), d)
         /\ OutRow(Last(s)) \cap OutRows(Front(s)) = {}
         /\ OutCell(Last(s)) \cap OutCells(Front(s)) = {}
         /\ OutRows(s) = OutRows(Front(s)) \cup OutRow(Last(s))
         /\ OutCells(s) = OutCells(Front(s)) \cup OutCell(Last(s))
<1> DEFINE n == Len(s)
           f == Front(s)
           c == Last(s)
<1>1. /\ \E S : f \in Seq(S)
      /\ n \in Nat /\ DOMAIN s = 1..n /\ n > 0 /\ c = s[n]
      /\ Len(f) = n - 1 /\ DOMAIN f = 1..(n - 1) /\ \A i \in 1..(n - 1) : f[i] = s[i]
  BY Shorter DEF Past
<1> HIDE DEF f, c, n
<1>2. PICK W, H \in [0..n -> Nat] : W[n] = w2 /\ H[n] = h2 /\ Chain(d, s, W, H)
  BY DEF Past, n
<1>3. Done(c, W[n - 1], w2, H[n - 1], h2, d)
  <2>1. n \in 1..n
    BY <1>1
  <2> QED BY <1>1, <1>2, <2>1 DEF Chain, n
<1> DEFINE W1 == [i \in 0..(n - 1) |-> W[i]]
           H1 == [i \in 0..(n - 1) |-> H[i]]
<1>4. /\ W1 \in [0..(n - 1) -> Nat] /\ H1 \in [0..(n - 1) -> Nat]
      /\ W1[n - 1] = W[n - 1] /\ H1[n - 1] = H[n - 1] /\ W[n - 1] \in Nat /\ H[n - 1] \in Nat
      /\ \A i \in 0..(n - 1) : W1[i] = W[i] /\ H1[i] = H[i]
  BY <1>1, <1>2
<1> HIDE DEF W1, H1
<1>5. Chain(d, f, W1, H1)
  <2> SUFFICES ASSUME NEW i \in 1..(n - 1)
               PROVE  Done(f[i], W1[i - 1], W1[i], H1[i - 1], H1[i], d)
    BY <1>1 DEF Chain
  <2>1. i \in 1..n /\ i \in 0..(n - 1) /\ i - 1 \in 0..(n - 1)
    BY <1>1
  <2>2. Done(s[i], W[i - 1], W[i], H[i - 1], H[i], d)
    BY <1>2, <2>1 DEF Chain, n
  <2> QED BY <1>1, <1>4, <2>1, <2>2
<1>6. \A i \in 1..n : Known(s[i], d)
  BY <1>1 DEF Past
<1>7. \A i \in 1..(n - 1) : i \in 1..n /\ i # n
  BY <1>1
<1>8. n \in 1..n /\ 1..n = 1..(n - 1) \cup {n}
  BY <1>1
<1>9. Apart(f) /\ \A i \in 1..(n - 1) : OutRow(f[i]) \cap OutRow(c) = {} /\ OutCell(f[i]) \cap OutCell(c) = {}
  BY <1>1, <1>7, <1>8 DEF Past, Apart
<1>10. Known(c, d) /\ \A i \in DOMAIN f : Known(f[i], d)
  BY <1>1, <1>6, <1>7, <1>8
<1>11. Past(d, f, W[n - 1], H[n - 1])
  BY <1>1, <1>4, <1>5, <1>9, <1>10 DEF Past
<1>12. OutRow(c) \cap OutRows(f) = {} /\ OutCell(c) \cap OutCells(f) = {}
  BY <1>1, <1>9 DEF OutRows, OutCells
<1>13. OutRows(s) = OutRows(f) \cup OutRow(c)
  BY <1>1, <1>8 DEF OutRows
<1>14. OutCells(s) = OutCells(f) \cup OutCell(c)
  BY <1>1, <1>8 DEF OutCells
<1>15. \E w, h \in Nat : Past(d, f, w, h) /\ Done(c, w, w2, h, h2, d)
  BY <1>3, <1>4, <1>11
<1> QED BY <1>10, <1>12, <1>13, <1>14, <1>15 DEF f, c

Fitting(d, s) ==
  /\ LaidOut(d, OutRows(s), OutCells(s))
  /\ Past(d, s, Len(d.columns), Len(d.rows))

\* A command that gets through goes on the stack.
LEMMA PushKeeps ==
  ASSUME NEW d, NEW s, Fitting(d, s), NEW e, NEW c, Forward(d, e, c, OutRows(s), OutCells(s))
  PROVE  Fitting(e, Append(s, c))
<1> DEFINE t == Append(s, c)
<1>1. /\ LaidOut(e, OutRows(s) \cup OutRow(c), OutCells(s) \cup OutCell(c))
      /\ Keeps(d, e, OutRows(s)) /\ OutRow(c) \cap OutRows(s) = {} /\ OutCell(c) \cap OutCells(s) = {}
      /\ Known(c, e) /\ Done(c, Len(d.columns), Len(e.columns), Len(d.rows), Len(e.rows), e)
  BY DEF Forward
<1>2. Past(e, s, Len(d.columns), Len(d.rows))
  BY <1>1, PastKept DEF Fitting
<1>3. Len(e.columns) \in Nat /\ Len(e.rows) \in Nat
  BY <1>1, TableFacts DEF LaidOut
<1>4. /\ Past(e, t, Len(e.columns), Len(e.rows))
      /\ OutRows(t) = OutRows(s) \cup OutRow(c) /\ OutCells(t) = OutCells(s) \cup OutCell(c)
  BY <1>1, <1>2, <1>3, PastMore
<1> HIDE DEF t
<1>5. Fitting(e, t)
  BY <1>1, <1>4 DEF Fitting
<1> QED BY <1>5 DEF t

\* The last one can be undone, and the stack without it fits the table then.
LEMMA PopKeeps ==
  ASSUME NEW d, NEW s, Fitting(d, s), s # <<>>
  PROVE  LET undone == UndoOp(d, Last(s))
         IN /\ undone.ok /\ Fitting(undone.doc, Front(s)) /\ Known(undone.cmd, undone.doc)
            /\ Keeps(d, undone.doc, OutRows(Front(s)))
<1> DEFINE c == Last(s)
           f == Front(s)
           K == OutRows(f)
           X == OutCells(f)
           e == UndoOp(d, c).doc
           c2 == UndoOp(d, c).cmd
<1>1. LaidOut(d, OutRows(s), OutCells(s)) /\ Past(d, s, Len(d.columns), Len(d.rows))
  BY DEF Fitting
<1>2. /\ \E w, h \in Nat : Past(d, f, w, h) /\ Done(c, w, Len(d.columns), h, Len(d.rows), d)
      /\ Known(c, d) /\ OutRow(c) \cap K = {} /\ OutCell(c) \cap X = {}
      /\ OutRows(s) = K \cup OutRow(c) /\ OutCells(s) = X \cup OutCell(c)
  BY <1>1, PastFewer
<1> HIDE DEF c, f, K, X
<1>3. PICK w, h \in Nat : Past(d, f, w, h) /\ Done(c, w, Len(d.columns), h, Len(d.rows), d)
  BY <1>2
<1>4. LastDone(d, c, w, h, K, X)
  BY <1>1, <1>2, <1>3 DEF LastDone
<1>5. UndoOp(d, c).ok /\ Backward(d, e, c2, w, h, K, X)
  BY <1>4, UndoBackward
<1> HIDE DEF e, c2
<1>6. /\ LaidOut(e, K, X) /\ Keeps(d, e, K) /\ Known(c2, e)
      /\ Len(e.columns) = w /\ Len(e.rows) = h
  BY <1>5 DEF Backward
<1>7. Past(e, f, w, h)
  BY <1>3, <1>6, PastKept DEF K
<1>8. Fitting(e, f)
  BY <1>6, <1>7 DEF Fitting, K, X
<1> QED BY <1>5, <1>6, <1>8 DEF e, c2, c, f, K

\* The stack still fits a table that changes in place.
LEMMA InPlaceFits ==
  ASSUME NEW d, NEW s, Fitting(d, s), NEW e, InPlace(d, e)
  PROVE  Fitting(e, s) /\ Keeps(d, e, OutRows(s))
<1>1. LaidOut(e, OutRows(s), OutCells(s)) /\ Keeps(d, e, OutRows(s))
  BY InPlaceKeeps DEF Fitting
<1>2. Len(e.columns) = Len(d.columns) /\ Len(e.rows) = Len(d.rows)
  BY DEF InPlace
<1> QED BY <1>1, <1>2, PastKept DEF Fitting

\* The commands to redo.
Waiting(d, s) == (\E S : s \in Seq(S)) /\ \A i \in DOMAIN s : Known(s[i], d)

\* Commands to redo fit whatever table comes,
LEMMA WaitingKept ==
  ASSUME NEW d, NEW s, Waiting(d, s), NEW e, NEW K, Keeps(d, e, K)
  PROVE  Waiting(e, s)
BY KnownKept DEF Waiting

\* one that was undone joins them,
LEMMA WaitingMore ==
  ASSUME NEW d, NEW s, Waiting(d, s), NEW c, Known(c, d)
  PROVE  Waiting(d, Append(s, c)) /\ Len(s) \in Nat /\ Len(Append(s, c)) = Len(s) + 1
<1> DEFINE t == Append(s, c)
<1>1. PICK S : s \in Seq(S)
  BY DEF Waiting
<1>2. /\ t \in Seq(S \cup {c}) /\ Len(t) = Len(s) + 1 /\ Len(s) \in Nat
      /\ t[Len(s) + 1] = c /\ \A i \in 1..Len(s) : t[i] = s[i]
  <2>1. s \in Seq(S \cup {c}) /\ c \in S \cup {c}
    <3>1. Seq(S) \subseteq Seq(S \cup {c})
      BY SeqMonotonic
    <3> QED BY <1>1, <3>1
  <2> QED BY <2>1, AppendProperties, LenProperties
<1>3. DOMAIN t = 1..Len(t) /\ DOMAIN s = 1..Len(s) /\ Len(s) \in Nat
  BY <1>1, <1>2, LenProperties
<1> HIDE DEF t
<1>4. ASSUME NEW i \in DOMAIN t PROVE Known(t[i], d)
  <2> DEFINE n == Len(s)
  <2>0. n \in Nat /\ i \in 1..(n + 1)
    BY <1>2, <1>3
  <2> HIDE DEF n
  <2>1. i = n + 1 \/ i \in 1..n
    BY <2>0
  <2> QED BY <1>2, <1>3, <2>1 DEF Waiting, n
<1> QED BY <1>2, <1>3, <1>4 DEF Waiting, t

\* and one that is redone leaves them.
LEMMA WaitingFewer ==
  ASSUME NEW d, NEW s, Waiting(d, s), s # <<>>
  PROVE  /\ Waiting(d, Front(s)) /\ Known(Last(s), d)
         /\ Len(s) \in Nat /\ Len(Front(s)) = Len(s) - 1 /\ Len(s) > 0
<1>1. /\ \E S : Front(s) \in Seq(S)
      /\ Len(s) \in Nat /\ DOMAIN s = 1..Len(s) /\ Len(s) > 0 /\ Last(s) = s[Len(s)]
      /\ Len(Front(s)) = Len(s) - 1 /\ DOMAIN Front(s) = 1..(Len(s) - 1)
      /\ \A i \in 1..(Len(s) - 1) : Front(s)[i] = s[i]
  BY Shorter DEF Waiting
<1>2. Len(s) \in 1..Len(s) /\ \A i \in 1..(Len(s) - 1) : i \in 1..Len(s)
  BY <1>1
<1> QED BY <1>1, <1>2 DEF Waiting

-----------------------------------------------------------------------------
(***************************************************************************)
(* The controller.                                                         *)
(***************************************************************************)
LEMMA CommandFacts ==
  ASSUME NEW op, NEW on, NEW at, NEW arg, NEW v
  PROVE  /\ /\ IsCommand(Command(op, on, at, arg)) /\ Command(op, on, at, arg).op = op
            /\ Command(op, on, at, arg).on = on /\ Command(op, on, at, arg).at = at
            /\ Command(op, on, at, arg).arg = arg
         /\ IsCommand(ValueCommand(op, on, at, v)) /\ ValueCommand(op, on, at, v).op = op
<1>1. Command(op, on, at, arg)
      = [op |-> op, on |-> on, at |-> at, arg |-> arg, value |-> NoValue,
         old |-> <<>>, cells |-> <<>>, was |-> None, raises |-> FALSE]
  BY DEF Command
<1>2. ValueCommand(op, on, at, v)
      = [op |-> op, on |-> on, at |-> at, arg |-> None, value |-> v,
         old |-> <<>>, cells |-> <<>>, was |-> None, raises |-> FALSE]
  <2> DEFINE c == Command(op, on, at, None)
  <2>1. c = [op |-> op, on |-> on, at |-> at, arg |-> None, value |-> NoValue,
             old |-> <<>>, cells |-> <<>>, was |-> None, raises |-> FALSE]
    BY DEF Command
  <2> HIDE DEF c
  <2>2. ValueCommand(op, on, at, v) = [c EXCEPT !.value = v]
    BY DEF ValueCommand, c
  <2> QED BY <2>1, <2>2
<1> QED BY <1>1, <1>2 DEF IsCommand

\* What the user may ask for gets through.
LEMMA AskedGetsThrough ==
  ASSUME IsTable(doc), NEW c \in Asked
  PROVE  Known(c, doc) /\ Do(doc, c).ok
<1> DEFINE E == UNION {{ValueCommand("edit", doc.cells[doc.rows[r]][k], 0, v)
                        : v \in Coerced(doc.type[doc.columns[k]])}
                       : r \in DOMAIN doc.rows, k \in DOMAIN doc.columns}
           I == UNION {{ValueCommand("import", Len(doc.rows), k, v)
                        : v \in Coerced(doc.type[doc.columns[k]])}
                       : k \in DOMAIN doc.columns}
           R == {Command("addRow", 0, i, None) : i \in 1..(Len(doc.rows) + 1)}
           C == {Command("addColumn", 0, i, t) : i \in 1..(Len(doc.columns) + 1), t \in Types}
           M == {Command(op, r, 0, None) : op \in {"removeRow", "up", "down"}, r \in ToSet(doc.rows)}
           N == {Command(op, k, 0, None)
                 : op \in {"removeColumn", "left", "right"}, k \in ToSet(doc.columns)}
           A == {Command("rename", k, 0, n) : k \in ToSet(doc.columns), n \in Names}
           T == {Command("type", k, 0, t) : k \in ToSet(doc.columns), t \in Types}
<1>1. c \in E \/ c \in I \/ c \in R \/ c \in C \/ c \in M \/ c \in N \/ c \in A \/ c \in T
  <2>1. Asked = E \cup I \cup R \cup C \cup M \cup N \cup A \cup T
    BY DEF Asked
  <2> HIDE DEF E, I, R, C, M, N, A, T
  <2> QED BY <2>1
<1>2. /\ Len(doc.columns) \in Nat /\ Len(doc.rows) \in Nat
      /\ ToSet(doc.columns) \subseteq DOMAIN doc.type
  BY TableFacts
<1>3. CASE c \in E \/ c \in I
  <2>0. PICK on, at, v : c = ValueCommand("edit", on, at, v) \/ c = ValueCommand("import", on, at, v)
    BY <1>3
  <2>1. PICK op \in {"edit", "import"} : c = ValueCommand(op, on, at, v)
    BY <2>0
  <2>2. IsCommand(c) /\ c.op \in {"edit", "import"}
    BY <2>1, CommandFacts
  <2>3. \E xs, states : Do(doc, c) = Changing(doc, c, xs, states)
    BY <2>2 DEF Do, SetCells
  <2> QED BY <2>2, <2>3 DEF Known, OpNames, Changing, Ok
<1>4. CASE c \in R
  <2>1. PICK i \in 1..(Len(doc.rows) + 1) : c = Command("addRow", 0, i, None)
    BY <1>4
  <2>2. IsCommand(c) /\ c.op = "addRow" /\ c.at = i
    BY <2>1, CommandFacts
  <2>3. Do(doc, c) = IF c.at > Len(doc.rows) + 1 THEN Throws(doc, c) ELSE Ok(AddRow(doc, c.at), c)
    BY <2>2 DEF Do
  <2>4. i \in Nat \ {0} /\ ~(i > Len(doc.rows) + 1)
    BY <1>2
  <2> QED BY <2>2, <2>3, <2>4 DEF Known, OpNames, Ok
<1>5. CASE c \in C
  <2>1. PICK i \in 1..(Len(doc.columns) + 1), t \in Types : c = Command("addColumn", 0, i, t)
    BY <1>5
  <2>2. IsCommand(c) /\ c.op = "addColumn" /\ c.at = i /\ c.arg = t
    BY <2>1, CommandFacts
  <2>3. i \in Nat \ {0} /\ ~(i > Len(doc.columns) + 1)
    BY <1>2
  <2>4. \E e, c2 : Do(doc, c) = IF c.at > Len(doc.columns) + 1 THEN Throws(doc, c) ELSE Ok(e, c2)
    BY <2>2 DEF Do
  <2> QED BY <2>2, <2>3, <2>4 DEF Known, OpNames, Ok
<1>6. CASE c \in M
  <2>1. PICK op \in {"removeRow", "up", "down"}, r \in ToSet(doc.rows) : c = Command(op, r, 0, None)
    BY <1>6
  <2>2. IsCommand(c) /\ c.op = op /\ c.on = r
    BY <2>1, CommandFacts
  <2>3. Known(c, doc)
    BY <2>1, <2>2 DEF Known, OpNames
  <2>4. CASE op = "removeRow"
    <3>1. PositionOf(doc.rows, c.on) # 0
      BY <2>2, PositionFacts DEF IsTable
    <3>2. Do(doc, c) = RemoveRow(doc, c)
      BY <2>2, <2>4 DEF Do
    <3>3. \E e, c2 : RemoveRow(doc, c) = Ok(e, c2)
      BY <3>1 DEF RemoveRow
    <3> QED BY <2>3, <3>2, <3>3 DEF Ok
  <2>5. CASE op # "removeRow"
    <3>1. \E e : Do(doc, c) = Ok(e, c)
      BY <2>2, <2>5 DEF Do
    <3> QED BY <2>3, <3>1 DEF Ok
  <2> QED BY <2>4, <2>5
<1>7. CASE c \in N
  <2>1. PICK op \in {"removeColumn", "left", "right"}, k \in ToSet(doc.columns) : c = Command(op, k, 0, None)
    BY <1>7
  <2>2. IsCommand(c) /\ c.op = op /\ c.on = k
    BY <2>1, CommandFacts
  <2>3. Known(c, doc)
    BY <2>1, <2>2 DEF Known, OpNames
  <2>4. CASE op = "removeColumn"
    <3>1. PositionOf(doc.columns, c.on) # 0
      BY <2>2, PositionFacts DEF IsTable
    <3>2. Do(doc, c) = RemoveColumn(doc, c)
      BY <2>2, <2>4 DEF Do
    <3>3. \E e, c2 : RemoveColumn(doc, c) = Ok(e, c2)
      BY <3>1 DEF RemoveColumn
    <3> QED BY <2>3, <3>2, <3>3 DEF Ok
  <2>5. CASE op # "removeColumn"
    <3>1. \E e : Do(doc, c) = Ok(e, c)
      BY <2>2, <2>5 DEF Do
    <3> QED BY <2>3, <3>1 DEF Ok
  <2> QED BY <2>4, <2>5
<1>8. CASE c \in A
  <2>1. PICK k, n : c = Command("rename", k, 0, n)
    BY <1>8
  <2>2. IsCommand(c) /\ c.op = "rename"
    BY <2>1, CommandFacts
  <2>3. \E e, c2 : Do(doc, c) = Ok(e, c2)
    BY <2>2 DEF Do
  <2> QED BY <2>2, <2>3 DEF Known, OpNames, Ok
<1>9. CASE c \in T
  <2>1. PICK k \in ToSet(doc.columns), t \in Types : c = Command("type", k, 0, t)
    BY <1>9
  <2>2. IsCommand(c) /\ c.op = "type" /\ c.on = k /\ c.arg = t
    BY <2>1, CommandFacts
  <2>3. Do(doc, c) = Retype(doc, c)
    BY <2>2 DEF Do
  <2>4. \E e, c2 : Retype(doc, c) = Ok(e, c2)
    BY DEF Retype
  <2> QED BY <1>2, <2>2, <2>3, <2>4 DEF Known, OpNames, Ok
<1> HIDE DEF E, I, R, C, M, N, A, T
<1> QED BY <1>1, <1>3, <1>4, <1>5, <1>6, <1>7, <1>8, <1>9

\* As loaded, row r has the cells (r - 1) * Width + 1 .. r * Width.
LEMMA RowsOfCells ==
  ASSUME NEW w \in Nat, NEW n \in Nat, NEW q \in 1..n, NEW k \in 1..w
  PROVE  /\ (q - 1) * w + k \in 1..(n * w)
         /\ \A r \in 1..n : \A l \in 1..w : q < r => (q - 1) * w + k < (r - 1) * w + l
<1>1. ASSUME NEW a \in Nat, NEW b \in Nat, a <= b PROVE a * w <= b * w
  <2>1. PICK m \in Nat : b = a + m
    <3>1. b - a \in Nat /\ b = a + (b - a)
      BY <1>1
    <3> QED BY <3>1
  <2>2. b * w = a * w + m * w /\ m * w \in Nat /\ a * w \in Nat
    BY <2>1
  <2> QED BY <2>2
<1>2. q - 1 \in Nat /\ q \in Nat /\ (q - 1) * w \in Nat /\ q * w \in Nat /\ n * w \in Nat
  BY <1>1
<1>3. q * w = (q - 1) * w + w
  BY <1>2
<1>4. q * w <= n * w
  BY <1>1, <1>2
<1>5. (q - 1) * w + k \in 1..(n * w)
  BY <1>2, <1>3, <1>4
<1>6. ASSUME NEW r \in 1..n, NEW l \in 1..w, q < r
      PROVE  (q - 1) * w + k < (r - 1) * w + l
  <2>1. q <= r - 1 /\ r - 1 \in Nat
    BY <1>6
  <2>2. q * w <= (r - 1) * w /\ (r - 1) * w \in Nat
    BY <1>1, <1>2, <2>1
  <2> QED BY <1>2, <1>3, <2>2
<1> QED BY <1>5, <1>6

\* A file as loaded is a rectangle of cells of its own.
LEMMA LoadingLaidOut == LaidOut(Loading, {}, {})
<1> DEFINE w == Width
           n == Len(LoadedTexts)
           cols == [k \in 1..Width |-> k]
           names == [k \in 1..Width |-> "loaded"]
           rows == [r \in DOMAIN LoadedTexts |-> r]
           row(r) == [k \in 1..Width |-> (r - 1) * Width + k]
           cells == [r \in DOMAIN LoadedTexts |-> row(r)]
           states == [x \in 1..(Len(LoadedTexts) * Width) |->
             LET r == ((x - 1) \div Width) + 1
                 k == ((x - 1) % Width) + 1
             IN Read(LoadedTypes[k], LoadedTexts[r][k])]
           d == Loading
<1>1. d = [columns |-> cols, type |-> LoadedTypes, name |-> names,
           rows |-> rows, cells |-> cells, state |-> states]
  <2>1. Loading = [columns |-> cols, type |-> LoadedTypes, name |-> names,
                   rows |-> rows, cells |-> cells, state |-> states]
    BY DEF Loading
  <2> QED BY <2>1
<1>2. /\ w \in Nat /\ n \in Nat /\ DOMAIN LoadedTypes = 1..w /\ DOMAIN LoadedTexts = 1..n
      /\ LoadedTypes \in Seq(Types)
  BY DatatableAssumption, LenProperties DEF Width
<1>3. n * w \in Nat
  <2> HIDE DEF n, w
  <2> QED BY <1>2
<1>4. DOMAIN states = 1..(n * w) /\ \E S : states \in Seq(S)
  <2>1. DOMAIN states = 1..(n * w)
    OBVIOUS
  <2> DEFINE S == {states[x] : x \in 1..(n * w)}
  <2>2. states \in [1..(n * w) -> S]
    BY <2>1
  <2> HIDE DEF states, S, n, w
  <2> QED BY <1>3, <2>1, <2>2, FunctionIsSeq
<1>5. cols \in Seq(DOMAIN LoadedTypes) /\ Len(cols) = w
  <2>1. cols \in [1..w -> 1..w]
    OBVIOUS
  <2> HIDE DEF cols
  <2> QED BY <1>2, <2>1, FunctionIsSeq
<1>6. rows \in Seq(1..n) /\ Len(rows) = n /\ Once(rows)
  <2>1. rows \in [1..n -> 1..n] /\ Once(rows)
    BY <1>2 DEF Once
  <2> HIDE DEF rows, n
  <2> QED BY <1>2, <2>1, FunctionIsSeq
<1>7. ASSUME NEW r \in 1..n
      PROVE  row(r) \in Seq(1..(n * w)) /\ Len(row(r)) = w
  <2>1. \A k \in 1..w : (r - 1) * w + k \in 1..(n * w)
    BY <1>2, RowsOfCells
  <2>2. row(r) \in [1..w -> 1..(n * w)]
    BY <2>1
  <2> HIDE DEF row, n, w
  <2> QED BY <1>2, <2>2, FunctionIsSeq
<1>8. ASSUME NEW q \in 1..n, NEW r \in 1..n, q < r, NEW x
      PROVE  ~(x \in ToSet(row(q)) /\ x \in ToSet(row(r)))
  <2>1. \A k, l \in 1..w : (q - 1) * w + k < (r - 1) * w + l
    BY <1>2, <1>8, RowsOfCells
  <2>2. \A k \in 1..w : (q - 1) * w + k \in 1..(n * w) /\ (r - 1) * w + k \in 1..(n * w)
    BY <1>2, RowsOfCells
  <2>3. SUFFICES ASSUME x \in ToSet(row(q)), x \in ToSet(row(r)) PROVE FALSE
    OBVIOUS
  <2>4. PICK k \in 1..w : x = (q - 1) * w + k
    BY <2>3 DEF ToSet
  <2>5. PICK l \in 1..w : x = (r - 1) * w + l
    BY <2>3 DEF ToSet
  <2>6. x < x /\ x \in Nat
    BY <1>3, <2>1, <2>2, <2>4, <2>5
  <2> QED BY <2>6
<1>9. ASSUME NEW r \in 1..n PROVE Once(row(r))
  <2> SUFFICES ASSUME NEW k \in 1..w, NEW l \in 1..w, row(r)[k] = row(r)[l] PROVE k = l
    BY DEF Once
  <2>1. (r - 1) * w + k = (r - 1) * w + l
    OBVIOUS
  <2>2. (r - 1) * w \in Int
    <3> HIDE DEF w, n
    <3> QED BY <1>2
  <2> DEFINE m == (r - 1) * w
  <2> HIDE DEF m, w
  <2> QED BY <2>1, <2>2 DEF m
<1>10. cells \in Seq(Seq(1..(n * w))) /\ Len(cells) = n /\ DOMAIN cells = 1..n /\ \A r \in 1..n : cells[r] = row(r)
  <2>1. DOMAIN cells = 1..n /\ \A r \in 1..n : cells[r] = row(r)
    BY <1>2
  <2>2. cells \in [1..n -> Seq(1..(n * w))]
    BY <1>2, <1>7
  <2> HIDE DEF cells, row, n, w
  <2> QED BY <1>2, <2>1, <2>2, FunctionIsSeq
<1> HIDE DEF cols, names, rows, row, cells, states, d, w, n
<1>11. IsTable(d)
  BY <1>1, <1>2, <1>4, <1>5, <1>6, <1>10 DEF IsTable
<1>12. AllRows(d, {}) \subseteq 1..n /\ ToSet(d.rows) \subseteq 1..n
  <2>1. ToSet(d.rows) \subseteq DOMAIN d.cells
    BY <1>11, TableFacts
  <2> QED BY <1>1, <1>10, <2>1 DEF AllRows
<1>13. \A r \in 1..n : d.cells[r] = row(r) /\ CellsOf(d, r) = ToSet(row(r))
  BY <1>1, <1>10 DEF CellsOf
<1>14. ASSUME NEW q \in 1..n, NEW r \in 1..n, q # r
       PROVE  CellsOf(d, q) \cap CellsOf(d, r) = {}
  <2>1. q < r \/ r < q
    BY <1>2, <1>14
  <2> QED BY <1>8, <1>13, <2>1
<1>15. LaidOut(d, {}, {})
  <2>1. Once(d.rows) /\ \A r \in ToSet(d.rows) : Len(d.cells[r]) = Len(d.columns)
    BY <1>1, <1>5, <1>6, <1>7, <1>12, <1>13
  <2>2. \A r \in AllRows(d, {}) : Once(d.cells[r])
    BY <1>9, <1>12, <1>13
  <2>3. \A q, r \in AllRows(d, {}) : q # r => CellsOf(d, q) \cap CellsOf(d, r) = {}
    BY <1>12, <1>14
  <2> QED BY <1>11, <2>1, <2>2, <2>3 DEF LaidOut
<1> QED BY <1>15 DEF d

\* No command is done or waits to be redone in it.
LEMMA NothingDone ==
  ASSUME NEW d, LaidOut(d, {}, {})
  PROVE  Fitting(d, <<>>) /\ Waiting(d, <<>>)
<1> DEFINE s == <<>>
           w == Len(d.columns)
           h == Len(d.rows)
<1>1. s \in Seq({}) /\ Len(s) = 0 /\ DOMAIN s = {}
  OBVIOUS
<1>2. w \in Nat /\ h \in Nat
  BY TableFacts DEF LaidOut
<1> HIDE DEF s, w, h
<1> DEFINE W == [i \in 0..0 |-> w]
           H == [i \in 0..0 |-> h]
<1>3. W \in [0..0 -> Nat] /\ H \in [0..0 -> Nat] /\ W[0] = w /\ H[0] = h
  BY <1>2
<1> HIDE DEF W, H
<1>4. Past(d, s, w, h)
  BY <1>1, <1>3 DEF Past, Apart, Chain
<1>5. OutRows(s) = {} /\ OutCells(s) = {}
  BY <1>1 DEF OutRows, OutCells
<1>6. Waiting(d, s)
  BY <1>1 DEF Waiting
<1> QED BY <1>4, <1>5, <1>6 DEF Fitting, s, w, h

\* As many cells in the table as it has places.
LEMMA CellCount ==
  ASSUME NEW d, NEW K, NEW X, LaidOut(d, K, X)
  PROVE  Cardinality(InTable(d)) = Len(d.rows) * Len(d.columns)
<1> DEFINE h == Len(d.rows)
           w == Len(d.columns)
           S == (1..h) \X (1..w)
           T == InTable(d)
           f == [p \in S |-> d.cells[d.rows[p[1]]][p[2]]]
<1>1. IsTable(d)
  BY DEF LaidOut
<1>2. /\ h \in Nat /\ w \in Nat /\ DOMAIN d.rows = 1..h
      /\ ToSet(d.rows) \subseteq DOMAIN d.cells
      /\ \A r \in DOMAIN d.cells : d.cells[r] \in Seq(DOMAIN d.state)
  BY <1>1, TableFacts
<1>3. ASSUME NEW i \in 1..h
      PROVE  /\ d.rows[i] \in ToSet(d.rows) /\ DOMAIN d.cells[d.rows[i]] = 1..w
             /\ Once(d.cells[d.rows[i]])
  <2>1. d.rows[i] \in ToSet(d.rows)
    BY <1>2 DEF ToSet
  <2>2. d.cells[d.rows[i]] \in Seq(DOMAIN d.state) /\ Len(d.cells[d.rows[i]]) = w
    BY <1>2, <2>1 DEF LaidOut
  <2>3. Once(d.cells[d.rows[i]])
    BY <2>1 DEF LaidOut, AllRows
  <2> QED BY <2>1, <2>2, <2>3, LenProperties
<1> HIDE DEF h, w
<1>4. ASSUME NEW i \in 1..h, NEW k \in 1..w
      PROVE  d.cells[d.rows[i]][k] \in CellsOf(d, d.rows[i]) /\ d.cells[d.rows[i]][k] \in T
  <2>1. d.cells[d.rows[i]][k] \in ToSet(d.cells[d.rows[i]])
    BY <1>3 DEF ToSet
  <2> QED BY <1>3, <2>1 DEF CellsOf, InTable
<1>5. ASSUME NEW i \in 1..h, NEW j \in 1..h, NEW k \in 1..w, NEW l \in 1..w,
             d.cells[d.rows[i]][k] = d.cells[d.rows[j]][l]
      PROVE  i = j /\ k = l
  <2>1. d.rows[i] = d.rows[j]
    <3>1. d.rows[i] \in AllRows(d, K) /\ d.rows[j] \in AllRows(d, K)
      BY <1>3 DEF AllRows
    <3>2. d.cells[d.rows[i]][k] \in CellsOf(d, d.rows[i]) /\ d.cells[d.rows[i]][k] \in CellsOf(d, d.rows[j])
      BY <1>4, <1>5
    <3> QED BY <3>1, <3>2 DEF LaidOut
  <2>2. i = j
    BY <1>2, <2>1 DEF LaidOut, Once, h
  <2> QED BY <1>3, <1>5, <2>2 DEF Once
<1>6. ASSUME NEW x \in T PROVE \E i \in 1..h, k \in 1..w : x = d.cells[d.rows[i]][k]
  <2>1. PICK r \in ToSet(d.rows) : x \in ToSet(d.cells[r])
    BY DEF InTable
  <2>2. PICK i \in 1..h : r = d.rows[i]
    BY <1>2, <2>1 DEF ToSet, h
  <2> QED BY <1>3, <2>1, <2>2 DEF ToSet
<1>7. f \in [S -> T]
  BY <1>4
<1>8. \A p, q \in S : f[p] = f[q] => p = q
  BY <1>5
<1>9. \A x \in T : \E p \in S : f[p] = x
  <2> SUFFICES ASSUME NEW x \in T PROVE \E p \in S : f[p] = x
    OBVIOUS
  <2>1. PICK i \in 1..h, k \in 1..w : x = d.cells[d.rows[i]][k]
    BY <1>6
  <2>2. <<i, k>> \in S /\ f[<<i, k>>] = x
    BY <2>1
  <2> QED BY <2>2
<1> HIDE DEF f
<1>10. ExistsBijection(S, T)
  <2>1. DOMAIN f = S
    BY <1>7
  <2>2. f \in Injection(S, T) /\ f \in Surjection(S, T)
    BY <1>7, <1>8, <1>9, <2>1 DEF Injection, IsInjective, Surjection
  <2> QED BY <2>2 DEF ExistsBijection, Bijection
<1>11. /\ IsFiniteSet(1..h) /\ Cardinality(1..h) = h
       /\ IsFiniteSet(1..w) /\ Cardinality(1..w) = w
  <2>1. h \in Nat /\ w \in Nat
    BY <1>2 DEF h, w
  <2>2. 1 \in Int /\ h \in Int /\ w \in Int
    BY <2>1
  <2>3. /\ IsFiniteSet(1..h) /\ Cardinality(1..h) = IF 1 > h THEN 0 ELSE h - 1 + 1
        /\ IsFiniteSet(1..w) /\ Cardinality(1..w) = IF 1 > w THEN 0 ELSE w - 1 + 1
    BY <2>2, FS_Interval
  <2> QED BY <2>1, <2>3
<1>12. IsFiniteSet(S) /\ Cardinality(S) = h * w
  <2> DEFINE A == 1..h
             B == 1..w
  <2>1. S = A \X B /\ IsFiniteSet(A) /\ IsFiniteSet(B) /\ Cardinality(A) = h /\ Cardinality(B) = w
    BY <1>11
  <2> HIDE DEF A, B, S
  <2>2. IsFiniteSet(A \X B) /\ Cardinality(A \X B) = Cardinality(A) * Cardinality(B)
    BY <2>1, FS_Product, Zenon
  <2> QED BY <2>1, <2>2
<1> HIDE DEF S, T
<1>13. Cardinality(T) = Cardinality(S)
  BY <1>10, <1>12, FS_Bijection
<1> QED BY <1>12, <1>13 DEF T, h, w

Counted ==
  /\ net \in Nat /\ applies \in 0..MaxApplies /\ saves \in 0..MaxSaves /\ recreated \in 0..MaxRedos
  /\ cascade \in BOOLEAN /\ edgeMoves \in BOOLEAN
  /\ Len(undoStack) \in Nat /\ Len(redoStack) \in Nat
  /\ Len(undoStack) + Len(redoStack) <= applies
  /\ Len(undoStack) <= net /\ net + Len(redoStack) <= MaxApplies + applies

\* What every command done, whether asked for, undone or redone, leaves behind it.
TableInv == Fitting(doc, undoStack) /\ Waiting(doc, redoStack) /\ Counted

\* The table invariant holds at first,
LEMMA InitTable == Init => TableInv
<1> SUFFICES ASSUME Init PROVE TableInv
  OBVIOUS
<1>1. Fitting(doc, undoStack) /\ Waiting(doc, redoStack)
  BY LoadingLaidOut, NothingDone DEF Init
<1>2. Counted
  <2>1. MaxApplies \in Nat /\ MaxSaves \in Nat /\ MaxRedos \in Nat
    BY DatatableAssumption
  <2>2. /\ net = MaxApplies /\ applies = 0 /\ saves = 0 /\ recreated = 0
        /\ cascade = FALSE /\ edgeMoves = FALSE
    BY DEF Init, Baseline
  <2>3. Len(undoStack) = 0 /\ Len(redoStack) = 0
    BY DEF Init
  <2>4. cascade \in BOOLEAN /\ edgeMoves \in BOOLEAN
    BY <2>2
  <2> DEFINE u == Len(undoStack)
             r == Len(redoStack)
  <2> HIDE DEF u, r
  <2>5. u = 0 /\ r = 0
    BY <2>3 DEF u, r
  <2>6. u \in Nat /\ r \in Nat /\ u + r <= applies /\ u <= net /\ net + r <= MaxApplies + applies
    BY <2>1, <2>2, <2>5
  <2>7. net \in Nat /\ applies \in 0..MaxApplies /\ saves \in 0..MaxSaves /\ recreated \in 0..MaxRedos
    BY <2>1, <2>2
  <2> QED BY <2>4, <2>6, <2>7 DEF Counted, u, r
<1> QED BY <1>1, <1>2 DEF TableInv

\* after an edit,
LEMMA ApplyTable ==
  ASSUME TableInv, applies < MaxApplies, NEW c \in Asked, Apply(c)
  PROVE  TableInv'
<1> DEFINE e == Do(doc, c).doc
           c2 == Do(doc, c).cmd
<1>1. /\ doc' = e /\ undoStack' = Append(undoStack, c2) /\ redoStack' = <<>>
      /\ cascade' = CascadeAfter(e, c2) /\ edgeMoves' = (edgeMoves \/ AtEdge(c))
      /\ net' = net + 1 /\ applies' = applies + 1 /\ UNCHANGED <<saves, recreated>>
  BY DEF Apply
<1>2. LaidOut(doc, OutRows(undoStack), OutCells(undoStack)) /\ IsTable(doc)
  BY DEF TableInv, Fitting, LaidOut
<1>3. Forward(doc, e, c2, OutRows(undoStack), OutCells(undoStack))
  BY <1>2, AskedGetsThrough, DoForward
<1> HIDE DEF e, c2
<1>4. Fitting(e, Append(undoStack, c2))
  BY <1>3, PushKeeps DEF TableInv
<1>5. Waiting(e, <<>>)
  BY DEF Waiting
<1>6. Len(Append(undoStack, c2)) = Len(undoStack) + 1
  <2>1. PICK S : undoStack \in Seq(S)
    BY DEF TableInv, Fitting, Past
  <2>2. undoStack \in Seq(S \cup {c2}) /\ c2 \in S \cup {c2}
    <3>1. Seq(S) \subseteq Seq(S \cup {c2})
      BY SeqMonotonic
    <3> QED BY <2>1, <3>1
  <2> QED BY <2>2, AppendProperties
<1>7. Len(<<>>) = 0
  OBVIOUS
<1>8. cascade' \in BOOLEAN /\ edgeMoves' \in BOOLEAN
  BY <1>1 DEF CascadeAfter
<1>9. Counted'
  <2> DEFINE u == Len(undoStack)
             r == Len(redoStack)
  <2>1. Len(undoStack)' = u + 1 /\ Len(redoStack)' = 0
    BY <1>1, <1>6, <1>7
  <2>2. /\ net \in Nat /\ applies \in 0..MaxApplies /\ u \in Nat /\ r \in Nat /\ u + r <= applies
        /\ u <= net /\ net + r <= MaxApplies + applies
        /\ saves \in 0..MaxSaves /\ recreated \in 0..MaxRedos /\ MaxApplies \in Nat
    BY DatatableAssumption DEF TableInv, Counted
  <2> HIDE DEF u, r
  <2> QED BY <1>1, <1>8, <2>1, <2>2 DEF Counted
<1> QED BY <1>1, <1>4, <1>5, <1>9 DEF TableInv

\* an undo, which always gets through,
LEMMA UndoTable == TableInv /\ Undo => TableInv'
<1> SUFFICES ASSUME TableInv, Undo PROVE TableInv'
  OBVIOUS
<1> DEFINE c == Last(undoStack)
           e == UndoOp(doc, c).doc
           c2 == UndoOp(doc, c).cmd
           u == Len(undoStack)
           r == Len(redoStack)
<1>1. undoStack # <<>> /\ undoStack' = Front(undoStack)
  BY DEF Undo
<1>2. /\ UndoOp(doc, c).ok /\ Fitting(e, Front(undoStack)) /\ Known(c2, e)
      /\ Keeps(doc, e, OutRows(Front(undoStack)))
  BY <1>1, PopKeeps DEF TableInv
<1>3. /\ doc' = e /\ redoStack' = Append(redoStack, c2) /\ net' = net - 1
      /\ cascade' = CascadeAfter(e, c2)
      /\ UNCHANGED <<applies, saves, edgeMoves, recreated>>
  BY <1>2 DEF Undo
<1> HIDE DEF e, c2, c
<1>4. Waiting(e, redoStack)
  BY <1>2, WaitingKept DEF TableInv
<1>5. Waiting(e, Append(redoStack, c2)) /\ Len(Append(redoStack, c2)) = r + 1
  BY <1>2, <1>4, WaitingMore
<1>6. Len(Front(undoStack)) = u - 1 /\ u > 0
  <2>1. \E S : undoStack \in Seq(S)
    BY DEF TableInv, Fitting, Past
  <2> QED BY <1>1, <2>1, Shorter
<1>7. cascade' \in BOOLEAN
  BY <1>3 DEF CascadeAfter
<1>8. Counted'
  <2>1. Len(undoStack)' = u - 1 /\ Len(redoStack)' = r + 1
    BY <1>1, <1>3, <1>5, <1>6
  <2>2. /\ net \in Nat /\ applies \in 0..MaxApplies /\ u \in Nat /\ r \in Nat /\ u + r <= applies
        /\ u <= net /\ net + r <= MaxApplies + applies /\ edgeMoves \in BOOLEAN
        /\ saves \in 0..MaxSaves /\ recreated \in 0..MaxRedos /\ MaxApplies \in Nat
    BY DatatableAssumption DEF TableInv, Counted
  <2> HIDE DEF u, r
  <2> QED BY <1>3, <1>6, <1>7, <2>1, <2>2 DEF Counted
<1> QED BY <1>1, <1>2, <1>3, <1>5, <1>8 DEF TableInv

\* a redo, which may not,
LEMMA RedoTable == TableInv /\ Redo => TableInv'
<1> SUFFICES ASSUME TableInv, Redo PROVE TableInv'
  OBVIOUS
<1> DEFINE c == Last(redoStack)
           f == Front(redoStack)
           e == Do(doc, c).doc
           c2 == Do(doc, c).cmd
           u == Len(undoStack)
           r == Len(redoStack)
<1>1. /\ redoStack # <<>> /\ redoStack' = f
      /\ recreated' = IF Creates(c) THEN recreated + 1 ELSE recreated
      /\ Creates(c) => recreated < MaxRedos
      /\ UNCHANGED <<applies, saves, edgeMoves>>
  BY DEF Redo
<1>2. \/ /\ Do(doc, c).ok /\ doc' = e /\ undoStack' = Append(undoStack, c2) /\ net' = net + 1
         /\ cascade' = CascadeAfter(e, c2)
      \/ UNCHANGED <<doc, undoStack, net, cascade>>
  BY DEF Redo
<1>3. /\ Waiting(doc, f) /\ Known(c, doc) /\ Len(f) = r - 1 /\ r > 0
  BY <1>1, WaitingFewer DEF TableInv
<1>4. recreated' \in 0..MaxRedos
  BY <1>1, DatatableAssumption DEF TableInv, Counted
<1>5. /\ net \in Nat /\ applies \in 0..MaxApplies /\ u \in Nat /\ r \in Nat /\ u + r <= applies
      /\ u <= net /\ net + r <= MaxApplies + applies /\ edgeMoves \in BOOLEAN /\ cascade \in BOOLEAN
      /\ saves \in 0..MaxSaves /\ MaxApplies \in Nat
  BY DatatableAssumption DEF TableInv, Counted
<1> HIDE DEF c, f
<1>6. CASE /\ Do(doc, c).ok /\ doc' = e /\ undoStack' = Append(undoStack, c2) /\ net' = net + 1
           /\ cascade' = CascadeAfter(e, c2)
  <2>1. LaidOut(doc, OutRows(undoStack), OutCells(undoStack))
    BY DEF TableInv, Fitting
  <2>2. Forward(doc, e, c2, OutRows(undoStack), OutCells(undoStack))
    BY <1>3, <1>6, <2>1, DoForward
  <2> HIDE DEF e, c2
  <2>3. Fitting(e, Append(undoStack, c2))
    BY <2>2, PushKeeps DEF TableInv
  <2>4. Waiting(e, f)
    BY <1>3, <2>2, WaitingKept DEF Forward
  <2>5. Len(Append(undoStack, c2)) = u + 1
    <3>1. PICK S : undoStack \in Seq(S)
      BY DEF TableInv, Fitting, Past
    <3>2. undoStack \in Seq(S \cup {c2}) /\ c2 \in S \cup {c2}
      <4>1. Seq(S) \subseteq Seq(S \cup {c2})
        BY SeqMonotonic
      <4> QED BY <3>1, <4>1
    <3> QED BY <3>2, AppendProperties
  <2>6. cascade' \in BOOLEAN
    BY <1>6 DEF CascadeAfter
  <2>7. Len(undoStack)' = u + 1 /\ Len(redoStack)' = r - 1
    BY <1>1, <1>3, <1>6, <2>5
  <2>8. Counted'
    <3> HIDE DEF u, r
    <3> QED BY <1>1, <1>3, <1>4, <1>5, <1>6, <2>6, <2>7 DEF Counted
  <2> QED BY <1>1, <1>6, <2>3, <2>4, <2>8 DEF TableInv
<1>7. CASE UNCHANGED <<doc, undoStack, net, cascade>>
  <2>1. Len(undoStack)' = u /\ Len(redoStack)' = r - 1
    BY <1>1, <1>3, <1>7
  <2>2. Counted'
    <3> HIDE DEF u, r
    <3> QED BY <1>1, <1>3, <1>4, <1>5, <1>7, <2>1 DEF Counted
  <2> QED BY <1>1, <1>3, <1>7, <2>2 DEF TableInv
<1> HIDE DEF e, c2, u, r
<1> QED BY <1>2, <1>6, <1>7

\* and a save, which changes the cells in place.
LEMMA SaveTable == TableInv /\ Save => TableInv'
<1> SUFFICES ASSUME TableInv, Save PROVE TableInv'
  OBVIOUS
<1> DEFINE s == [x \in DOMAIN doc.state |->
                   IF x \in InTable(doc) THEN Rebaselined(doc.state[x]) ELSE doc.state[x]]
           e == [doc EXCEPT !.state = s]
<1>1. /\ doc' = e /\ saves < MaxSaves /\ net' = MaxApplies /\ saves' = saves + 1
      /\ UNCHANGED <<undoStack, redoStack, cascade, applies, edgeMoves, recreated>>
  BY DEF Save, Baseline
<1>2. DOMAIN s = DOMAIN doc.state /\ s = [x \in DOMAIN s |-> s[x]]
  OBVIOUS
<1> HIDE DEF s
<1>3. InPlace(doc, e)
  <2>1. IsTable(doc)
    BY DEF TableInv, Fitting, LaidOut
  <2> QED BY <1>2, <2>1, NewStates
<1> HIDE DEF e
<1>4. Fitting(e, undoStack) /\ Waiting(e, redoStack)
  BY <1>3, InPlaceFits, WaitingKept DEF TableInv
<1>5. Counted'
  BY <1>1, DatatableAssumption DEF TableInv, Counted
<1> QED BY <1>1, <1>4, <1>5 DEF TableInv

\* It is inductive,
LEMMA NextTable == TableInv /\ [Next]_vars => TableInv'
<1> SUFFICES ASSUME TableInv, [Next]_vars PROVE TableInv'
  OBVIOUS
<1>1. CASE Edit
  BY <1>1, ApplyTable DEF Edit
<1>2. CASE UNCHANGED vars
  BY <1>2 DEF vars, TableInv, Counted
<1> QED BY <1>1, <1>2, UndoTable, RedoTable, SaveTable DEF Next

\* and it says that the table is a rectangle.
LEMMA TableHolds == TableInv => TableIsRectangular
<1> SUFFICES ASSUME TableInv PROVE TableIsRectangular
  OBVIOUS
<1>1. LaidOut(doc, OutRows(undoStack), OutCells(undoStack)) /\ IsTable(doc)
  BY DEF TableInv, Fitting, LaidOut
<1>2. /\ ToSet(doc.columns) \subseteq DOMAIN doc.type /\ doc.type \in Seq(Types)
      /\ ToSet(doc.rows) \subseteq DOMAIN doc.cells
  BY <1>1, TableFacts DEF IsTable
<1>3. InTable(doc) \subseteq DOMAIN doc.state
  BY <1>1, TableFacts DEF InTable, CellsOf
<1>4. /\ net \in 0..(2 * MaxApplies) /\ applies \in 0..MaxApplies /\ saves \in 0..MaxSaves
      /\ {cascade, edgeMoves} \subseteq BOOLEAN /\ recreated \in 0..MaxRedos
  BY DatatableAssumption DEF TableInv, Counted
<1>5. \A r \in ToSet(doc.rows) : Len(doc.cells[r]) = Len(doc.columns)
  BY <1>1 DEF LaidOut
<1>6. Cardinality(InTable(doc)) = Len(doc.rows) * Len(doc.columns)
  BY <1>1, CellCount
<1> QED BY <1>2, <1>3, <1>4, <1>5, <1>6 DEF TableIsRectangular, Typed

\* Every row has one cell for each column and no cell has two places, after any edits,
\* undos, redos and saves, for a file of any size.
THEOREM TableIsAlwaysRectangular == Spec => []TableIsRectangular
<1> QED
  BY InitTable, NextTable, TableHolds, PTL DEF Spec

-----------------------------------------------------------------------------
(***************************************************************************)
(* What each operation makes of a table, part by part.                     *)
(***************************************************************************)
Table(k, y, m, w, l, s) ==
  [columns |-> k, type |-> y, name |-> m, rows |-> w, cells |-> l, state |-> s]

GrownCells(l, w, k, xs) ==
  [r \in DOMAIN l |-> IF r \in ToSet(w) THEN InsertAt(l[r], k, xs[PositionOf(w, r)]) ELSE l[r]]
ShrunkCells(l, w, k) == [r \in DOMAIN l |-> IF r \in ToSet(w) THEN RemoveAt(l[r], k) ELSE l[r]]
ShiftedCells(l, w, i, j) == [r \in DOMAIN l |-> IF r \in ToSet(w) THEN Shifted(l[r], i, j) ELSE l[r]]
StatesBack(s, xs, states) ==
  [x \in DOMAIN s |-> IF x \in ToSet(xs) THEN states[PositionOf(xs, x)] ELSE s[x]]

LEMMA TableIs ==
  ASSUME NEW d, IsTable(d)
  PROVE  d = Table(d.columns, d.type, d.name, d.rows, d.cells, d.state)
BY DEF IsTable, Table

LEMMA Parts ==
  ASSUME NEW k, NEW y, NEW m, NEW w, NEW l, NEW s
  PROVE  LET d == Table(k, y, m, w, l, s)
         IN /\ d.columns = k /\ d.type = y /\ d.name = m
            /\ d.rows = w /\ d.cells = l /\ d.state = s
BY DEF Table

\* The same for a table by name.
LEMMA PartOf ==
  ASSUME NEW d, IsTable(d), NEW v
  PROVE  /\ [d EXCEPT !.columns = v] = Table(v, d.type, d.name, d.rows, d.cells, d.state)
         /\ [d EXCEPT !.type = v] = Table(d.columns, v, d.name, d.rows, d.cells, d.state)
         /\ [d EXCEPT !.name = v] = Table(d.columns, d.type, v, d.rows, d.cells, d.state)
         /\ [d EXCEPT !.rows = v] = Table(d.columns, d.type, d.name, v, d.cells, d.state)
         /\ [d EXCEPT !.cells = v] = Table(d.columns, d.type, d.name, d.rows, v, d.state)
         /\ [d EXCEPT !.state = v] = Table(d.columns, d.type, d.name, d.rows, d.cells, v)
<1> DEFINE e == Table(d.columns, d.type, d.name, d.rows, d.cells, d.state)
<1>1. d = e
  BY TableIs
<1>2. /\ [e EXCEPT !.columns = v] = Table(v, d.type, d.name, d.rows, d.cells, d.state)
      /\ [e EXCEPT !.type = v] = Table(d.columns, v, d.name, d.rows, d.cells, d.state)
      /\ [e EXCEPT !.name = v] = Table(d.columns, d.type, v, d.rows, d.cells, d.state)
      /\ [e EXCEPT !.rows = v] = Table(d.columns, d.type, d.name, v, d.cells, d.state)
      /\ [e EXCEPT !.cells = v] = Table(d.columns, d.type, d.name, d.rows, v, d.state)
      /\ [e EXCEPT !.state = v] = Table(d.columns, d.type, d.name, d.rows, d.cells, v)
  BY DEF Table
<1> HIDE DEF e
<1> QED BY <1>1, <1>2

LEMMA RowOutIs ==
  ASSUME NEW d, IsTable(d), NEW i
  PROVE  /\ RowOut(d, i) = Table(d.columns, d.type, d.name, RemoveAt(d.rows, i), d.cells, d.state)
         /\ [d EXCEPT !.rows = RemoveAt(@, i)] = RowOut(d, i)
BY PartOf DEF RowOut

LEMMA RowInIs ==
  ASSUME NEW d, IsTable(d), NEW i, NEW r
  PROVE  /\ RowIn(d, i, r) = Table(d.columns, d.type, d.name, InsertAt(d.rows, i, r), d.cells, d.state)
         /\ [d EXCEPT !.rows = InsertAt(@, i, r)] = RowIn(d, i, r)
BY PartOf DEF RowIn

LEMMA WithCellsIs ==
  ASSUME NEW k, NEW y, NEW m, NEW w, NEW l, NEW s, NEW i, NEW xs
  PROVE  /\ WithCells(Table(k, y, m, w, l, s), i, xs) = Table(k, y, m, w, GrownCells(l, w, i, xs), s)
         /\ WithoutCells(Table(k, y, m, w, l, s), i) = Table(k, y, m, w, ShrunkCells(l, w, i), s)
<1> DEFINE d == Table(k, y, m, w, l, s)
           g == [r \in DOMAIN d.cells |->
                  IF r \in ToSet(d.rows) THEN InsertAt(d.cells[r], i, xs[PositionOf(d.rows, r)]) ELSE d.cells[r]]
           h == [r \in DOMAIN d.cells |-> IF r \in ToSet(d.rows) THEN RemoveAt(d.cells[r], i) ELSE d.cells[r]]
<1>1. WithCells(d, i, xs) = [d EXCEPT !.cells = g] /\ WithoutCells(d, i) = [d EXCEPT !.cells = h]
  BY DEF WithCells, WithoutCells
<1>2. d.rows = w /\ d.cells = l
  BY Parts
<1>3. g = GrownCells(l, w, i, xs) /\ h = ShrunkCells(l, w, i)
  <2> HIDE DEF d
  <2> QED BY <1>2, Zenon DEF GrownCells, ShrunkCells
<1> HIDE DEF g, h
<1>4. /\ [d EXCEPT !.cells = g] = Table(k, y, m, w, g, s)
      /\ [d EXCEPT !.cells = h] = Table(k, y, m, w, h, s)
  BY DEF Table
<1> HIDE DEF d
<1>5. /\ WithCells(d, i, xs) = Table(k, y, m, w, GrownCells(l, w, i, xs), s)
      /\ WithoutCells(d, i) = Table(k, y, m, w, ShrunkCells(l, w, i), s)
  BY <1>1, <1>3, <1>4
<1> QED BY <1>5 DEF d

LEMMA ColumnInIs ==
  ASSUME NEW d, IsTable(d), NEW i, NEW c, NEW xs
  PROVE  /\ ColumnIn(d, i, c, xs) = Table(InsertAt(d.columns, i, c), d.type, d.name, d.rows,
                                          GrownCells(d.cells, d.rows, i, xs), d.state)
         /\ WithCells([d EXCEPT !.columns = InsertAt(@, i, c)], i, xs) = ColumnIn(d, i, c, xs)
<1>1. [d EXCEPT !.columns = InsertAt(@, i, c)]
      = Table(InsertAt(d.columns, i, c), d.type, d.name, d.rows, d.cells, d.state)
  BY PartOf
<1> QED BY <1>1, WithCellsIs DEF ColumnIn

LEMMA ColumnOutIs ==
  ASSUME NEW d, IsTable(d), NEW i
  PROVE  /\ ColumnOut(d, i) = Table(RemoveAt(d.columns, i), d.type, d.name, d.rows,
                                    ShrunkCells(d.cells, d.rows, i), d.state)
         /\ WithoutCells([d EXCEPT !.columns = RemoveAt(@, i)], i) = ColumnOut(d, i)
<1>1. [d EXCEPT !.columns = RemoveAt(@, i)]
      = Table(RemoveAt(d.columns, i), d.type, d.name, d.rows, d.cells, d.state)
  BY PartOf
<1> QED BY <1>1, WithCellsIs DEF ColumnOut

LEMMA RestoredIs ==
  ASSUME NEW d, IsTable(d), NEW xs, NEW states
  PROVE  Restored(d, xs, states)
         = Table(d.columns, d.type, d.name, d.rows, d.cells, StatesBack(d.state, xs, states))
<1> DEFINE n == StatesBack(d.state, xs, states)
<1>1. Restored(d, xs, states) = [d EXCEPT !.state = n]
  BY DEF Restored, StatesBack
<1> HIDE DEF n
<1>2. [d EXCEPT !.state = n] = Table(d.columns, d.type, d.name, d.rows, d.cells, n)
  BY PartOf
<1> QED BY <1>1, <1>2 DEF n

LEMMA RenamedIs ==
  ASSUME NEW d, IsTable(d), NEW k, NEW v
  PROVE  [d EXCEPT !.name[k] = v]
         = Table(d.columns, d.type, [d.name EXCEPT ![k] = v], d.rows, d.cells, d.state)
<1> DEFINE n == [d.name EXCEPT ![k] = v]
<1>1. [d EXCEPT !.name[k] = v] = [d EXCEPT !.name = n]
  OBVIOUS
<1> HIDE DEF n
<1>2. [d EXCEPT !.name = n] = Table(d.columns, d.type, n, d.rows, d.cells, d.state)
  BY PartOf
<1> QED BY <1>1, <1>2 DEF n

LEMMA RetypedIs ==
  ASSUME NEW d, IsTable(d), NEW k, NEW v
  PROVE  [d EXCEPT !.type[k] = v]
         = Table(d.columns, [d.type EXCEPT ![k] = v], d.name, d.rows, d.cells, d.state)
<1> DEFINE n == [d.type EXCEPT ![k] = v]
<1>1. [d EXCEPT !.type[k] = v] = [d EXCEPT !.type = n]
  OBVIOUS
<1> HIDE DEF n
<1>2. [d EXCEPT !.type = n] = Table(d.columns, n, d.name, d.rows, d.cells, d.state)
  BY PartOf
<1> QED BY <1>1, <1>2 DEF n

\* Where a move to a neighbour leads.
Beside(i, further) == IF further THEN i + 1 ELSE i - 1

LEMMA ShiftRowIs ==
  ASSUME NEW d, IsTable(d), NEW r, NEW down
  PROVE  LET i == PositionOf(d.rows, r)
             j == Beside(i, down)
         IN ShiftRow(d, r, down)
            = IF i = 0 \/ j \notin DOMAIN d.rows THEN d
              ELSE Table(d.columns, d.type, d.name, Shifted(d.rows, i, j), d.cells, d.state)
<1> DEFINE i == PositionOf(d.rows, r)
           j == Beside(i, down)
           w == Shifted(d.rows, i, j)
<1>1. ShiftRow(d, r, down) = IF i = 0 \/ j \notin DOMAIN d.rows THEN d ELSE [d EXCEPT !.rows = w]
  BY DEF ShiftRow, Beside
<1> HIDE DEF w
<1>2. [d EXCEPT !.rows = w] = Table(d.columns, d.type, d.name, w, d.cells, d.state)
  BY PartOf
<1> HIDE DEF i, j
<1>3. ShiftRow(d, r, down)
      = IF i = 0 \/ j \notin DOMAIN d.rows THEN d
        ELSE Table(d.columns, d.type, d.name, w, d.cells, d.state)
  BY <1>1, <1>2
<1> QED BY <1>3 DEF w, i, j

LEMMA ShiftColumnIs ==
  ASSUME NEW d, IsTable(d), NEW c, NEW right
  PROVE  LET i == PositionOf(d.columns, c)
             j == Beside(i, right)
         IN ShiftColumn(d, c, right)
            = IF i = 0 \/ j \notin DOMAIN d.columns THEN d
              ELSE Table(Shifted(d.columns, i, j), d.type, d.name, d.rows,
                         ShiftedCells(d.cells, d.rows, i, j), d.state)
<1> DEFINE i == PositionOf(d.columns, c)
           j == Beside(i, right)
           k == Shifted(d.columns, i, j)
           l == ShiftedCells(d.cells, d.rows, i, j)
           d2 == [d EXCEPT !.columns = k]
<1>1. ShiftColumn(d, c, right) = IF i = 0 \/ j \notin DOMAIN d.columns THEN d
                                 ELSE [d EXCEPT !.columns = k, !.cells = l]
  BY DEF ShiftColumn, Beside, ShiftedCells
<1> HIDE DEF k, l
<1>2. [d EXCEPT !.columns = k, !.cells = l] = [d2 EXCEPT !.cells = l]
  OBVIOUS
<1>3. d2 = Table(k, d.type, d.name, d.rows, d.cells, d.state)
  BY PartOf
<1> HIDE DEF d2
<1>4. [d2 EXCEPT !.cells = l] = Table(k, d.type, d.name, d.rows, l, d.state)
  BY <1>3 DEF Table
<1> HIDE DEF i, j
<1>5. ShiftColumn(d, c, right) = IF i = 0 \/ j \notin DOMAIN d.columns THEN d
                                 ELSE Table(k, d.type, d.name, d.rows, l, d.state)
  BY <1>1, <1>2, <1>4
<1> QED BY <1>5 DEF k, l, i, j

\* The cells of a new row or column, and their states.
NewCells(d, s) == [k \in DOMAIN s |-> Len(d.state) + k]
FreshRow(d) == [k \in DOMAIN d.columns |-> Fresh(d.type[d.columns[k]])]
FreshColumn(d, t) == [r \in DOMAIN d.rows |-> Fresh(t)]

LEMMA AddRowIs ==
  ASSUME NEW d, IsTable(d), NEW i
  PROVE  AddRow(d, i)
         = Table(d.columns, d.type, d.name, InsertAt(d.rows, i, Len(d.cells) + 1),
                 Append(d.cells, NewCells(d, d.columns)), d.state \o FreshRow(d))
<1> DEFINE w == InsertAt(d.rows, i, Len(d.cells) + 1)
           l == Append(d.cells, NewCells(d, d.columns))
           s == d.state \o FreshRow(d)
<1>1. AddRow(d, i) = [d EXCEPT !.rows = w, !.cells = l, !.state = s]
  BY DEF AddRow, NewCells, FreshRow
<1> HIDE DEF w, l, s
<1>2. AddRow(d, i) = Table(d.columns, d.type, d.name, w, l, s)
  BY <1>1, RowsCellsState DEF Table
<1> QED BY <1>2 DEF w, l, s

LEMMA AddColumnIs ==
  ASSUME NEW d, IsTable(d), NEW i, NEW t
  PROVE  AddColumn(d, i, t)
         = Table(InsertAt(d.columns, i, Len(d.type) + 1), Append(d.type, t), Append(d.name, "added"),
                 d.rows, GrownCells(d.cells, d.rows, i, NewCells(d, d.rows)), d.state \o FreshColumn(d, t))
<1> DEFINE k == InsertAt(d.columns, i, Len(d.type) + 1)
           y == Append(d.type, t)
           m == Append(d.name, "added")
           s == d.state \o FreshColumn(d, t)
           xs == NewCells(d, d.rows)
<1>1. AddColumn(d, i, t) = WithCells(WithParts(d, k, y, m, s), i, xs)
  BY DEF AddColumn, NewCells, FreshColumn, WithParts
<1> HIDE DEF k, y, m, s, xs
<1>2. WithParts(d, k, y, m, s) = Table(k, y, m, d.rows, d.cells, s)
  BY ColumnsTypeNameState DEF Table
<1>3. AddColumn(d, i, t) = Table(k, y, m, d.rows, GrownCells(d.cells, d.rows, i, xs), s)
  BY <1>1, <1>2, WithCellsIs
<1> QED BY <1>3 DEF k, y, m, s, xs

-----------------------------------------------------------------------------
(***************************************************************************)
(* Tables that look alike: the same but for captured slices, for what is   *)
(* out of the table since, and for commands' traces of either.             *)
(***************************************************************************)
SameState(s, u) == s.value = u.value /\ s.review = u.review

\* d is a, as far as the objects go that were there.
Alike(d, a) ==
  /\ d.columns = a.columns /\ d.rows = a.rows
  /\ DOMAIN a.type \subseteq DOMAIN d.type
  /\ \A c \in DOMAIN a.type : d.type[c] = a.type[c] /\ d.name[c] = a.name[c]
  /\ DOMAIN a.cells \subseteq DOMAIN d.cells
  /\ \A r \in DOMAIN a.cells : d.cells[r] = a.cells[r]
  /\ DOMAIN a.state \subseteq DOMAIN d.state
  /\ \A x \in DOMAIN a.state : SameState(d.state[x], a.state[x])

\* The same command, up to captured slices and the cascade it raised.
Similar(c, e) ==
  /\ IsCommand(c) /\ IsCommand(e)
  /\ c.op = e.op /\ c.on = e.on /\ c.at = e.at /\ c.arg = e.arg
  /\ c.value = e.value /\ c.cells = e.cells /\ c.was = e.was
  /\ DOMAIN c.old = DOMAIN e.old
  /\ \A i \in DOMAIN e.old : SameState(c.old[i], e.old[i])

\* A state is the record it should be and its slice, if any, spells its value.
Honest(s) ==
  /\ s = [value |-> s.value, slice |-> s.slice, review |-> s.review]
  /\ s.slice \in {NoValue, s.value} /\ s.review \in BOOLEAN

\* A table whose names fit its columns and whose states are honest.
Proper(d) ==
  /\ \E S : d.name \in Seq(S)
  /\ DOMAIN d.name = DOMAIN d.type
  /\ \A x \in DOMAIN d.state : Honest(d.state[x])

LEMMA AlikeItself == ASSUME NEW d PROVE Alike(d, d)
BY DEF Alike, SameState

LEMMA AlikeChain ==
  ASSUME NEW d, NEW a, NEW b, Alike(d, a), Alike(a, b)
  PROVE  Alike(d, b)
<1>1. \A x \in DOMAIN b.state : SameState(d.state[x], b.state[x])
  BY DEF Alike, SameState
<1> QED BY <1>1 DEF Alike

LEMMA SimilarItself == ASSUME NEW c, IsCommand(c) PROVE Similar(c, c)
BY DEF Similar, SameState

LEMMA SimilarChain ==
  ASSUME NEW c, NEW e, NEW f, Similar(c, e), Similar(e, f)
  PROVE  Similar(c, f)
BY DEF Similar, SameState

LEMMA SimilarBack ==
  ASSUME NEW c, NEW e, Similar(c, e)
  PROVE  Similar(e, c)
BY DEF Similar, SameState

\* A table that is laid out: where everything is.
LEMMA LaidOutFacts ==
  ASSUME NEW a, LaidOut(a, {}, {})
  PROVE  /\ IsTable(a)
         /\ a.columns \in Seq(DOMAIN a.type) /\ Len(a.columns) \in Nat /\ DOMAIN a.columns = 1..Len(a.columns)
         /\ a.rows \in Seq(DOMAIN a.cells) /\ Len(a.rows) \in Nat /\ DOMAIN a.rows = 1..Len(a.rows)
         /\ \A i \in DOMAIN a.rows : a.rows[i] \in ToSet(a.rows) /\ a.rows[i] \in DOMAIN a.cells
         /\ \A k \in DOMAIN a.columns : a.columns[k] \in ToSet(a.columns) /\ a.columns[k] \in DOMAIN a.type
         /\ ToSet(a.rows) \subseteq DOMAIN a.cells /\ ToSet(a.columns) \subseteq DOMAIN a.type
         /\ \A r \in ToSet(a.rows) : /\ a.cells[r] \in Seq(DOMAIN a.state)
                                     /\ Len(a.cells[r]) = Len(a.columns)
                                     /\ DOMAIN a.cells[r] = DOMAIN a.columns
         /\ \A r \in ToSet(a.rows) : \A k \in DOMAIN a.columns : a.cells[r][k] \in DOMAIN a.state
<1>1. IsTable(a) /\ \A r \in ToSet(a.rows) : Len(a.cells[r]) = Len(a.columns)
  BY DEF LaidOut
<1>2. /\ Len(a.columns) \in Nat /\ DOMAIN a.columns = 1..Len(a.columns)
      /\ Len(a.rows) \in Nat /\ DOMAIN a.rows = 1..Len(a.rows)
      /\ ToSet(a.rows) \subseteq DOMAIN a.cells /\ ToSet(a.columns) \subseteq DOMAIN a.type
      /\ \A r \in DOMAIN a.cells : a.cells[r] \in Seq(DOMAIN a.state)
  BY <1>1, TableFacts
<1>3. a.columns \in Seq(DOMAIN a.type) /\ a.rows \in Seq(DOMAIN a.cells)
  BY <1>1 DEF IsTable
<1>4. \A r \in ToSet(a.rows) : /\ a.cells[r] \in Seq(DOMAIN a.state)
                               /\ Len(a.cells[r]) = Len(a.columns)
                               /\ DOMAIN a.cells[r] = DOMAIN a.columns
  <2> SUFFICES ASSUME NEW r \in ToSet(a.rows)
               PROVE  /\ a.cells[r] \in Seq(DOMAIN a.state) /\ Len(a.cells[r]) = Len(a.columns)
                      /\ DOMAIN a.cells[r] = DOMAIN a.columns
    OBVIOUS
  <2>1. a.cells[r] \in Seq(DOMAIN a.state) /\ Len(a.cells[r]) = Len(a.columns)
    BY <1>1, <1>2
  <2>2. DOMAIN a.cells[r] = 1..Len(a.cells[r])
    BY <2>1, LenProperties
  <2> QED BY <1>2, <2>1, <2>2
<1>5. \A r \in ToSet(a.rows) : \A k \in DOMAIN a.columns : a.cells[r][k] \in DOMAIN a.state
  <2> SUFFICES ASSUME NEW r \in ToSet(a.rows), NEW k \in DOMAIN a.columns
               PROVE  a.cells[r][k] \in DOMAIN a.state
    OBVIOUS
  <2>1. a.cells[r] \in Seq(DOMAIN a.state) /\ k \in 1..Len(a.cells[r])
    BY <1>2, <1>4
  <2> QED BY <2>1, ElementOfSeq
<1>6. \A i \in DOMAIN a.rows : a.rows[i] \in ToSet(a.rows) /\ a.rows[i] \in DOMAIN a.cells
  BY <1>2 DEF ToSet
<1>7. \A k \in DOMAIN a.columns : a.columns[k] \in ToSet(a.columns) /\ a.columns[k] \in DOMAIN a.type
  BY <1>2 DEF ToSet
<1> QED BY <1>1, <1>2, <1>3, <1>4, <1>5, <1>6, <1>7

\* What looks alike has the same cells below each column,
LEMMA AlikeCells ==
  ASSUME NEW d, NEW a, IsTable(a), Alike(d, a), NEW k
  PROVE  ColumnCells(d, k) = ColumnCells(a, k)
<1>1. d.rows = a.rows /\ \A r \in DOMAIN a.cells : d.cells[r] = a.cells[r]
  BY DEF Alike
<1>2. \A i \in DOMAIN a.rows : a.rows[i] \in DOMAIN a.cells
  BY TableFacts DEF ToSet
<1>3. ColumnCells(d, k) = [i \in DOMAIN a.rows |-> d.cells[a.rows[i]][k]]
  BY <1>1, Zenon DEF ColumnCells
<1>4. ColumnCells(a, k) = [i \in DOMAIN a.rows |-> a.cells[a.rows[i]][k]]
  BY Zenon DEF ColumnCells
<1>5. \A i \in DOMAIN a.rows : d.cells[a.rows[i]][k] = a.cells[a.rows[i]][k]
  BY <1>1, <1>2
<1> QED BY <1>3, <1>4, <1>5

\* and shows the user the same.
Heading(d) == [k \in DOMAIN d.columns |-> <<d.type[d.columns[k]], d.name[d.columns[k]]>>]
Line(d, r) == LET xs == d.cells[d.rows[r]] IN
                [k \in DOMAIN xs |-> <<d.state[xs[k]].value, d.state[xs[k]].review>>]
Lines(d) == [r \in DOMAIN d.rows |-> Line(d, r)]

LEMMA AlikeLooks ==
  ASSUME NEW d, NEW a, LaidOut(a, {}, {}), Alike(d, a)
  PROVE  View(d) = View(a)
<1>0. d.columns = a.columns /\ d.rows = a.rows
  BY DEF Alike
<1>1. Heading(d) = Heading(a)
  <2>1. \A k \in DOMAIN a.columns : /\ d.type[d.columns[k]] = a.type[a.columns[k]]
                                    /\ d.name[d.columns[k]] = a.name[a.columns[k]]
    BY LaidOutFacts DEF Alike
  <2> QED BY <1>0, <2>1 DEF Heading
<1>2. ASSUME NEW r \in DOMAIN a.rows PROVE Line(d, r) = Line(a, r)
  <2> DEFINE xs == a.cells[a.rows[r]]
  <2>1. a.rows[r] \in ToSet(a.rows) /\ a.rows[r] \in DOMAIN a.cells
    BY LaidOutFacts
  <2>2. d.cells[d.rows[r]] = xs
    BY <1>0, <2>1 DEF Alike
  <2>3. \A k \in DOMAIN xs : xs[k] \in DOMAIN a.state
    BY <2>1, LaidOutFacts
  <2>4. \A k \in DOMAIN xs : d.state[xs[k]].value = a.state[xs[k]].value /\ d.state[xs[k]].review = a.state[xs[k]].review
    BY <2>3 DEF Alike, SameState
  <2>5. Line(a, r) = [k \in DOMAIN xs |-> <<a.state[xs[k]].value, a.state[xs[k]].review>>]
    BY DEF Line
  <2>6. Line(d, r) = [k \in DOMAIN xs |-> <<d.state[xs[k]].value, d.state[xs[k]].review>>]
    <3> HIDE DEF xs
    <3> QED BY <2>2, Zenon DEF Line
  <2> HIDE DEF xs
  <2> QED BY <2>4, <2>5, <2>6
<1>3. Lines(d) = Lines(a)
  BY <1>0, <1>2 DEF Lines
<1>4. View(d) = <<Heading(d), Lines(d)>> /\ View(a) = <<Heading(a), Lines(a)>>
  BY Zenon DEF View, Heading, Lines, Line
<1> QED BY <1>1, <1>3, <1>4

-----------------------------------------------------------------------------
(***************************************************************************)
(* Undoing similar commands in tables that look alike leads to tables that *)
(* look alike.                                                             *)
(***************************************************************************)
LEMMA ColumnCellsFacts ==
  ASSUME NEW a, LaidOut(a, {}, {}), NEW k \in DOMAIN a.columns
  PROVE  /\ ColumnCells(a, k) \in Seq(DOMAIN a.state) /\ Len(ColumnCells(a, k)) = Len(a.rows)
         /\ DOMAIN ColumnCells(a, k) = DOMAIN a.rows
         /\ \A r \in DOMAIN a.rows : ColumnCells(a, k)[r] = a.cells[a.rows[r]][k]
<1>1. Len(a.rows) \in Nat /\ DOMAIN a.rows = 1..Len(a.rows)
  BY LaidOutFacts
<1>2. \A r \in DOMAIN a.rows : a.cells[a.rows[r]][k] \in DOMAIN a.state
  BY LaidOutFacts
<1>3. ColumnCells(a, k) = [r \in DOMAIN a.rows |-> a.cells[a.rows[r]][k]]
  BY DEF ColumnCells
<1>4. ColumnCells(a, k) \in [1..Len(a.rows) -> DOMAIN a.state]
  BY <1>1, <1>2, <1>3
<1> QED BY <1>1, <1>3, <1>4, FunctionIsSeq

LEMMA FoundFacts ==
  ASSUME NEW S, NEW s \in Seq(S), NEW e, PositionOf(s, e) # 0
  PROVE  PositionOf(s, e) \in DOMAIN s /\ s[PositionOf(s, e)] = e
<1>1. PositionOf(s, e) \in 0..Len(s) /\ s[PositionOf(s, e)] = e
  BY PositionFacts
<1>2. DOMAIN s = 1..Len(s) /\ Len(s) \in Nat
  BY LenProperties
<1> QED BY <1>1, <1>2

LEMMA MemberFound ==
  ASSUME NEW S, NEW s \in Seq(S), NEW e \in ToSet(s)
  PROVE  PositionOf(s, e) # 0 /\ PositionOf(s, e) \in DOMAIN s /\ s[PositionOf(s, e)] = e
BY PositionFacts, FoundFacts

\* A command that has changed states knows a state for each of its cells.
Holds(c, b) ==
  /\ c.op \in {"edit", "import"} => (\E S : c.cells \in Seq(S)) /\ DOMAIN c.old = DOMAIN c.cells
  /\ c.op = "type" => DOMAIN c.old = DOMAIN b.rows

LEMMA BackAlike ==
  ASSUME NEW d, IsTable(d), NEW b, IsTable(b), Alike(d, b), NEW S, NEW xs \in Seq(S),
         NEW u, NEW v, DOMAIN v = DOMAIN xs, \A i \in DOMAIN v : SameState(u[i], v[i])
  PROVE  Alike(Restored(d, xs, u), Restored(b, xs, v))
<1> DEFINE s == StatesBack(d.state, xs, u)
           t == StatesBack(b.state, xs, v)
<1>1. /\ Restored(d, xs, u) = Table(d.columns, d.type, d.name, d.rows, d.cells, s)
      /\ Restored(b, xs, v) = Table(b.columns, b.type, b.name, b.rows, b.cells, t)
  BY RestoredIs
<1>2. DOMAIN s = DOMAIN d.state /\ DOMAIN t = DOMAIN b.state
  BY DEF StatesBack
<1>3. ASSUME NEW x \in DOMAIN b.state PROVE SameState(s[x], t[x])
  <2>1. x \in DOMAIN d.state /\ SameState(d.state[x], b.state[x])
    BY DEF Alike
  <2>2. CASE x \in ToSet(xs)
    <3>1. PositionOf(xs, x) \in DOMAIN v
      BY <2>2, MemberFound
    <3>2. s[x] = u[PositionOf(xs, x)] /\ t[x] = v[PositionOf(xs, x)]
      BY <2>1, <2>2 DEF StatesBack
    <3> HIDE DEF s, t
    <3> QED BY <3>1, <3>2
  <2>3. CASE x \notin ToSet(xs)
    <3>1. s[x] = d.state[x] /\ t[x] = b.state[x]
      BY <2>1, <2>3 DEF StatesBack
    <3> HIDE DEF s, t
    <3> QED BY <2>1, <3>1
  <2> QED BY <2>2, <2>3
<1> HIDE DEF s, t
<1> QED BY <1>1, <1>2, <1>3, Parts DEF Alike

LEMMA RetypedAlike ==
  ASSUME NEW d, IsTable(d), NEW b, IsTable(b), Alike(d, b), NEW k, NEW t
  PROVE  Alike([d EXCEPT !.type[k] = t], [b EXCEPT !.type[k] = t])
<1> DEFINE y == [d.type EXCEPT ![k] = t]
           z == [b.type EXCEPT ![k] = t]
<1>1. /\ [d EXCEPT !.type[k] = t] = Table(d.columns, y, d.name, d.rows, d.cells, d.state)
      /\ [b EXCEPT !.type[k] = t] = Table(b.columns, z, b.name, b.rows, b.cells, b.state)
  BY RetypedIs
<1>2. DOMAIN y = DOMAIN d.type /\ DOMAIN z = DOMAIN b.type
  OBVIOUS
<1>3. \A c \in DOMAIN b.type : y[c] = z[c]
  BY DEF Alike
<1> HIDE DEF y, z
<1> QED BY <1>1, <1>2, <1>3, Parts DEF Alike

LEMMA RenamedAlike ==
  ASSUME NEW d, IsTable(d), NEW b, IsTable(b), Alike(d, b), NEW k, NEW n,
         DOMAIN d.name = DOMAIN d.type, DOMAIN b.name = DOMAIN b.type
  PROVE  Alike([d EXCEPT !.name[k] = n], [b EXCEPT !.name[k] = n])
<1> DEFINE y == [d.name EXCEPT ![k] = n]
           z == [b.name EXCEPT ![k] = n]
<1>1. /\ [d EXCEPT !.name[k] = n] = Table(d.columns, d.type, y, d.rows, d.cells, d.state)
      /\ [b EXCEPT !.name[k] = n] = Table(b.columns, b.type, z, b.rows, b.cells, b.state)
  BY RenamedIs
<1>3. \A c \in DOMAIN b.type : y[c] = z[c]
  BY DEF Alike
<1> HIDE DEF y, z
<1> QED BY <1>1, <1>3, Parts DEF Alike

\* Rows and columns come and go alike.
LEMMA RowsAlike ==
  ASSUME NEW d, IsTable(d), NEW b, IsTable(b), Alike(d, b), NEW i, NEW r
  PROVE  /\ Alike(RowOut(d, i), RowOut(b, i))
         /\ Alike(RowIn(d, i, r), RowIn(b, i, r))
<1>1. d.rows = b.rows
  BY DEF Alike
<1>2. /\ RowOut(d, i) = Table(d.columns, d.type, d.name, RemoveAt(d.rows, i), d.cells, d.state)
      /\ RowOut(b, i) = Table(b.columns, b.type, b.name, RemoveAt(d.rows, i), b.cells, b.state)
  BY <1>1, RowOutIs
<1>3. /\ RowIn(d, i, r) = Table(d.columns, d.type, d.name, InsertAt(d.rows, i, r), d.cells, d.state)
      /\ RowIn(b, i, r) = Table(b.columns, b.type, b.name, InsertAt(d.rows, i, r), b.cells, b.state)
  BY <1>1, RowInIs
<1>4. Alike(RowOut(d, i), RowOut(b, i))
  BY <1>2, Parts DEF Alike
<1>5. Alike(RowIn(d, i, r), RowIn(b, i, r))
  BY <1>3, Parts DEF Alike
<1> QED BY <1>4, <1>5

LEMMA ColumnsAlike ==
  ASSUME NEW d, IsTable(d), NEW b, IsTable(b), Alike(d, b), NEW k, NEW c, NEW xs
  PROVE  /\ Alike(ColumnOut(d, k), ColumnOut(b, k))
         /\ Alike(ColumnIn(d, k, c, xs), ColumnIn(b, k, c, xs))
<1> DEFINE l1 == ShrunkCells(d.cells, d.rows, k)
           l2 == ShrunkCells(b.cells, b.rows, k)
           g1 == GrownCells(d.cells, d.rows, k, xs)
           g2 == GrownCells(b.cells, b.rows, k, xs)
<1>1. d.rows = b.rows /\ d.columns = b.columns
  BY DEF Alike
<1>2. /\ DOMAIN l1 = DOMAIN d.cells /\ DOMAIN l2 = DOMAIN b.cells
      /\ DOMAIN g1 = DOMAIN d.cells /\ DOMAIN g2 = DOMAIN b.cells
  BY DEF ShrunkCells, GrownCells
<1>3. \A r \in DOMAIN b.cells : r \in DOMAIN d.cells /\ d.cells[r] = b.cells[r]
  BY DEF Alike
<1>4. \A r \in DOMAIN b.cells : l1[r] = l2[r]
  BY <1>1, <1>3 DEF ShrunkCells
<1>5. \A r \in DOMAIN b.cells : g1[r] = g2[r]
  BY <1>1, <1>3 DEF GrownCells
<1> HIDE DEF l1, l2, g1, g2
<1>6. /\ ColumnOut(d, k) = Table(RemoveAt(d.columns, k), d.type, d.name, d.rows, l1, d.state)
      /\ ColumnOut(b, k) = Table(RemoveAt(d.columns, k), b.type, b.name, b.rows, l2, b.state)
  BY <1>1, ColumnOutIs DEF l1, l2
<1>7. /\ ColumnIn(d, k, c, xs) = Table(InsertAt(d.columns, k, c), d.type, d.name, d.rows, g1, d.state)
      /\ ColumnIn(b, k, c, xs) = Table(InsertAt(d.columns, k, c), b.type, b.name, b.rows, g2, b.state)
  BY <1>1, ColumnInIs DEF g1, g2
<1>8. Alike(ColumnOut(d, k), ColumnOut(b, k))
  BY <1>2, <1>4, <1>6, Parts DEF Alike
<1>9. Alike(ColumnIn(d, k, c, xs), ColumnIn(b, k, c, xs))
  BY <1>2, <1>5, <1>7, Parts DEF Alike
<1> QED BY <1>8, <1>9

LEMMA ShiftsAlike ==
  ASSUME NEW d, IsTable(d), NEW b, IsTable(b), Alike(d, b), NEW e, NEW further
  PROVE  /\ Alike(ShiftRow(d, e, further), ShiftRow(b, e, further))
         /\ Alike(ShiftColumn(d, e, further), ShiftColumn(b, e, further))
<1>1. d.rows = b.rows /\ d.columns = b.columns
  BY DEF Alike
<1>2. Alike(ShiftRow(d, e, further), ShiftRow(b, e, further))
  <2> DEFINE i == PositionOf(d.rows, e)
             j == Beside(i, further)
             w == Shifted(d.rows, i, j)
  <2>1. ShiftRow(d, e, further) = IF i = 0 \/ j \notin DOMAIN d.rows THEN d
                                  ELSE Table(d.columns, d.type, d.name, w, d.cells, d.state)
    BY ShiftRowIs
  <2>2. ShiftRow(b, e, further) = IF i = 0 \/ j \notin DOMAIN d.rows THEN b
                                  ELSE Table(b.columns, b.type, b.name, w, b.cells, b.state)
    BY <1>1, ShiftRowIs
  <2> HIDE DEF i, j, w
  <2>3. CASE i = 0 \/ j \notin DOMAIN d.rows
    BY <2>1, <2>2, <2>3
  <2>4. CASE ~(i = 0 \/ j \notin DOMAIN d.rows)
    <3>1. /\ ShiftRow(d, e, further) = Table(d.columns, d.type, d.name, w, d.cells, d.state)
          /\ ShiftRow(b, e, further) = Table(b.columns, b.type, b.name, w, b.cells, b.state)
      BY <2>1, <2>2, <2>4
    <3> QED BY <3>1, Parts DEF Alike
  <2> QED BY <2>3, <2>4
<1>3. Alike(ShiftColumn(d, e, further), ShiftColumn(b, e, further))
  <2> DEFINE i == PositionOf(d.columns, e)
             j == Beside(i, further)
             k == Shifted(d.columns, i, j)
             l1 == ShiftedCells(d.cells, d.rows, i, j)
             l2 == ShiftedCells(b.cells, b.rows, i, j)
  <2>1. ShiftColumn(d, e, further) = IF i = 0 \/ j \notin DOMAIN d.columns THEN d
                                     ELSE Table(k, d.type, d.name, d.rows, l1, d.state)
    BY ShiftColumnIs
  <2>2. ShiftColumn(b, e, further) = IF i = 0 \/ j \notin DOMAIN d.columns THEN b
                                     ELSE Table(k, b.type, b.name, b.rows, l2, b.state)
    BY <1>1, ShiftColumnIs
  <2>3. DOMAIN l1 = DOMAIN d.cells /\ DOMAIN l2 = DOMAIN b.cells
    BY DEF ShiftedCells
  <2>4. \A r \in DOMAIN b.cells : r \in DOMAIN d.cells /\ d.cells[r] = b.cells[r]
    BY DEF Alike
  <2>5. \A r \in DOMAIN b.cells : l1[r] = l2[r]
    BY <1>1, <2>4 DEF ShiftedCells
  <2> HIDE DEF i, j, k, l1, l2
  <2>6. CASE i = 0 \/ j \notin DOMAIN d.columns
    BY <2>1, <2>2, <2>6
  <2>7. CASE ~(i = 0 \/ j \notin DOMAIN d.columns)
    <3>1. /\ ShiftColumn(d, e, further) = Table(k, d.type, d.name, d.rows, l1, d.state)
          /\ ShiftColumn(b, e, further) = Table(k, b.type, b.name, b.rows, l2, b.state)
      BY <2>1, <2>2, <2>7
    <3> QED BY <1>1, <2>3, <2>5, <3>1, Parts DEF Alike
  <2> QED BY <2>6, <2>7
<1> QED BY <1>2, <1>3

-----------------------------------------------------------------------------
\* Both get through, to tables that look alike.
Together(p, q) == p.ok = q.ok /\ (q.ok => Alike(p.doc, q.doc))

\* Two tables that look alike, and names that fit.
Pair(d, b) ==
  /\ IsTable(d) /\ LaidOut(b, {}, {}) /\ Alike(d, b)
  /\ DOMAIN d.name = DOMAIN d.type /\ DOMAIN b.name = DOMAIN b.type

LEMMA TogetherOk ==
  ASSUME NEW x, NEW y, Alike(x, y), NEW c, NEW e
  PROVE  Together(Ok(x, c), Ok(y, e))
BY DEF Together, Ok

LEMMA TogetherThrow == ASSUME NEW x, NEW y, NEW c, NEW e PROVE Together(Throws(x, c), Throws(y, e))
BY DEF Together, Throws

LEMMA UndoEditAlike ==
  ASSUME NEW d, NEW b, Pair(d, b), NEW c, NEW e, Similar(c, e), Holds(e, b), e.op \in {"edit", "import"}
  PROVE  Together(UndoOp(d, c), UndoOp(b, e))
<1>1. IsTable(b) /\ IsTable(d) /\ Alike(d, b)
  BY DEF Pair, LaidOut
<1>2. PICK S : e.cells \in Seq(S)
  BY DEF Holds
<1>3. c.cells = e.cells /\ DOMAIN e.old = DOMAIN e.cells /\ \A i \in DOMAIN e.old : SameState(c.old[i], e.old[i])
  BY DEF Similar, Holds
<1>4. Alike(Restored(d, e.cells, c.old), Restored(b, e.cells, e.old))
  BY <1>1, <1>2, <1>3, BackAlike
<1>5. UndoOp(d, c) = Ok(Restored(d, e.cells, c.old), c) /\ UndoOp(b, e) = Ok(Restored(b, e.cells, e.old), e)
  BY <1>3 DEF UndoOp, Similar
<1> QED BY <1>4, <1>5, TogetherOk

LEMMA UndoTypeAlike ==
  ASSUME NEW d, NEW b, Pair(d, b), NEW c, NEW e, Similar(c, e), Holds(e, b), e.op = "type", e.was \in Types
  PROVE  Together(UndoRetype(d, c), UndoRetype(b, e))
<1>1. IsTable(b) /\ IsTable(d) /\ Alike(d, b) /\ LaidOut(b, {}, {}) /\ d.columns = b.columns /\ d.rows = b.rows
  BY DEF Pair, LaidOut, Alike
<1>2. /\ c.on = e.on /\ c.was = e.was /\ DOMAIN e.old = DOMAIN b.rows
      /\ \A i \in DOMAIN e.old : SameState(c.old[i], e.old[i])
  BY DEF Similar, Holds
<1> DEFINE k == PositionOf(b.columns, e.on)
           d2 == [d EXCEPT !.type[e.on] = e.was]
           b2 == [b EXCEPT !.type[e.on] = e.was]
<1>3. Alike(d2, b2) /\ InPlace(d, d2) /\ InPlace(b, b2)
  BY <1>1, RetypedAlike, RetypedInPlace
<1>4. LaidOut(b2, {}, {}) /\ b2.rows = b.rows /\ b2.columns = b.columns /\ IsTable(d2) /\ IsTable(b2)
  BY <1>1, <1>3, InPlaceKeeps DEF InPlace
<1>5. /\ UndoRetype(d, c) = Ok(IF k = 0 THEN d2 ELSE Restored(d2, ColumnCells(d2, k), c.old), [c EXCEPT !.raises = FALSE])
      /\ UndoRetype(b, e) = Ok(IF k = 0 THEN b2 ELSE Restored(b2, ColumnCells(b2, k), e.old), [e EXCEPT !.raises = FALSE])
  BY <1>1, <1>2 DEF UndoRetype
<1> HIDE DEF d2, b2
<1>6. CASE k = 0
  <2>1. /\ UndoRetype(d, c) = Ok(d2, [c EXCEPT !.raises = FALSE])
        /\ UndoRetype(b, e) = Ok(b2, [e EXCEPT !.raises = FALSE])
    BY <1>5, <1>6
  <2> QED BY <1>3, <2>1, TogetherOk
<1>7. CASE k # 0
  <2> DEFINE xs == ColumnCells(b2, k)
  <2>1. k \in DOMAIN b2.columns
    BY <1>1, <1>4, <1>7, LaidOutFacts, FoundFacts
  <2>2. xs \in Seq(DOMAIN b2.state) /\ DOMAIN xs = DOMAIN e.old /\ ColumnCells(d2, k) = xs
    BY <1>2, <1>3, <1>4, <2>1, ColumnCellsFacts, AlikeCells
  <2> HIDE DEF k, xs
  <2>3. Alike(Restored(d2, xs, c.old), Restored(b2, xs, e.old))
    BY <1>2, <1>3, <1>4, <2>2, BackAlike
  <2>4. /\ UndoRetype(d, c) = Ok(Restored(d2, xs, c.old), [c EXCEPT !.raises = FALSE])
        /\ UndoRetype(b, e) = Ok(Restored(b2, xs, e.old), [e EXCEPT !.raises = FALSE])
    BY <1>5, <1>7, <2>2 DEF xs
  <2> QED BY <2>3, <2>4, TogetherOk
<1> QED BY <1>6, <1>7

LEMMA UndoAlike ==
  ASSUME NEW d, NEW b, Pair(d, b), NEW c, NEW e, Similar(c, e), Holds(e, b), e.op \in OpNames,
         e.op = "type" => e.was \in Types
  PROVE  Together(UndoOp(d, c), UndoOp(b, e))
<1>1. /\ IsTable(b) /\ IsTable(d) /\ Alike(d, b) /\ d.columns = b.columns /\ d.rows = b.rows
      /\ DOMAIN d.name = DOMAIN d.type /\ DOMAIN b.name = DOMAIN b.type
  BY DEF Pair, LaidOut, Alike
<1>2. c.op = e.op /\ c.on = e.on /\ c.at = e.at /\ c.arg = e.arg /\ c.was = e.was /\ c.cells = e.cells
  BY DEF Similar
<1>3. CASE e.op \in {"edit", "import"}
  BY <1>3, UndoEditAlike
<1>4. CASE e.op = "addRow"
  <2>1. /\ UndoOp(d, c) = IF e.at \notin DOMAIN b.rows THEN Throws(d, c) ELSE Ok(RowOut(d, e.at), c)
        /\ UndoOp(b, e) = IF e.at \notin DOMAIN b.rows THEN Throws(b, e) ELSE Ok(RowOut(b, e.at), e)
    BY <1>1, <1>2, <1>4 DEF UndoOp, RowOut
  <2> QED BY <1>1, <2>1, RowsAlike, TogetherOk, TogetherThrow
<1>5. CASE e.op = "addColumn"
  <2> DEFINE f == PositionOf(b.columns, e.on)
             i == IF f = 0 THEN e.at ELSE f
  <2>1. /\ UndoOp(d, c) = IF i \notin DOMAIN b.columns THEN Throws(d, c) ELSE Ok(ColumnOut(d, i), c)
        /\ UndoOp(b, e) = IF i \notin DOMAIN b.columns THEN Throws(b, e) ELSE Ok(ColumnOut(b, i), e)
    BY <1>1, <1>2, <1>5 DEF UndoOp, UndoAddColumn, ColumnOut
  <2> HIDE DEF i
  <2> QED BY <1>1, <2>1, ColumnsAlike, TogetherOk, TogetherThrow
<1>6. CASE e.op = "removeRow"
  <2>1. /\ UndoOp(d, c) = IF e.at > Len(b.rows) + 1 THEN Throws(d, c) ELSE Ok(RowIn(d, e.at, e.on), c)
        /\ UndoOp(b, e) = IF e.at > Len(b.rows) + 1 THEN Throws(b, e) ELSE Ok(RowIn(b, e.at, e.on), e)
    BY <1>1, <1>2, <1>6 DEF UndoOp, RowIn
  <2> QED BY <1>1, <2>1, RowsAlike, TogetherOk, TogetherThrow
<1>7. CASE e.op = "removeColumn"
  <2>1. /\ UndoOp(d, c) = IF e.at > Len(b.columns) + 1 THEN Throws(d, c)
                          ELSE Ok(ColumnIn(d, e.at, e.on, e.cells), c)
        /\ UndoOp(b, e) = IF e.at > Len(b.columns) + 1 THEN Throws(b, e)
                          ELSE Ok(ColumnIn(b, e.at, e.on, e.cells), e)
    BY <1>1, <1>2, <1>7 DEF UndoOp, ColumnIn
  <2> QED BY <1>1, <2>1, ColumnsAlike, TogetherOk, TogetherThrow
<1>8. CASE e.op \in {"up", "down"}
  <2>1. /\ UndoOp(d, c) = Ok(ShiftRow(d, e.on, e.op = "up"), c)
        /\ UndoOp(b, e) = Ok(ShiftRow(b, e.on, e.op = "up"), e)
    BY <1>2, <1>8 DEF UndoOp
  <2>2. Alike(ShiftRow(d, e.on, e.op = "up"), ShiftRow(b, e.on, e.op = "up"))
    BY <1>1, ShiftsAlike
  <2> QED BY <2>1, <2>2, TogetherOk
<1>9. CASE e.op \in {"left", "right"}
  <2>1. /\ UndoOp(d, c) = Ok(ShiftColumn(d, e.on, e.op = "left"), c)
        /\ UndoOp(b, e) = Ok(ShiftColumn(b, e.on, e.op = "left"), e)
    BY <1>2, <1>9 DEF UndoOp
  <2>2. Alike(ShiftColumn(d, e.on, e.op = "left"), ShiftColumn(b, e.on, e.op = "left"))
    BY <1>1, ShiftsAlike
  <2> QED BY <2>1, <2>2, TogetherOk
<1>10. CASE e.op = "rename"
  <2>1. /\ UndoOp(d, c) = Ok([d EXCEPT !.name[e.on] = e.was], c)
        /\ UndoOp(b, e) = Ok([b EXCEPT !.name[e.on] = e.was], e)
    BY <1>2, <1>10 DEF UndoOp
  <2>2. Alike([d EXCEPT !.name[e.on] = e.was], [b EXCEPT !.name[e.on] = e.was])
    BY <1>1, RenamedAlike
  <2> QED BY <2>1, <2>2, TogetherOk
<1>11. CASE e.op = "type"
  <2>1. UndoOp(d, c) = UndoRetype(d, c) /\ UndoOp(b, e) = UndoRetype(b, e)
    BY <1>2, <1>11 DEF UndoOp
  <2> QED BY <1>11, <2>1, UndoTypeAlike
<1> QED BY <1>3, <1>4, <1>5, <1>6, <1>7, <1>8, <1>9, <1>10, <1>11 DEF OpNames

-----------------------------------------------------------------------------
(***************************************************************************)
(* Doing similar commands in tables that look alike.  The two additions,   *)
(* which make new objects, are left out.                                   *)
(***************************************************************************)
Both(p, q) == /\ p.ok = q.ok
              /\ q.ok => Alike(p.doc, q.doc) /\ Similar(p.cmd, q.cmd)

LEMMA BothOk ==
  ASSUME NEW x, NEW y, Alike(x, y), NEW c, NEW e, Similar(c, e)
  PROVE  Both(Ok(x, c), Ok(y, e))
BY DEF Both, Ok

LEMMA BothThrow == ASSUME NEW x, NEW y, NEW c, NEW e PROVE Both(Throws(x, c), Throws(y, e))
BY DEF Both, Throws

\* What a command refers to is there.
Refers(e, b) ==
  /\ e.op = "edit" => e.on \in DOMAIN b.state
  /\ e.op = "import" => e.at \in DOMAIN b.columns /\ e.on = Len(b.rows)
  /\ e.op \in {"rename", "type"} => e.on \in DOMAIN b.type
  /\ e.op = "type" => e.arg \in Types

\* Commands part by part.
CommandOf(op, on, at, arg, value, old, cells, was, raises) ==
  [op |-> op, on |-> on, at |-> at, arg |-> arg, value |-> value,
   old |-> old, cells |-> cells, was |-> was, raises |-> raises]

LEMMA CommandParts ==
  ASSUME NEW op, NEW on, NEW at, NEW arg, NEW value, NEW old, NEW cells, NEW was, NEW raises
  PROVE  LET c == CommandOf(op, on, at, arg, value, old, cells, was, raises)
         IN /\ IsCommand(c) /\ c.op = op /\ c.on = on /\ c.at = at /\ c.arg = arg /\ c.value = value
            /\ c.old = old /\ c.cells = cells /\ c.was = was /\ c.raises = raises
BY DEF CommandOf, IsCommand

LEMMA SimilarParts ==
  ASSUME NEW op, NEW on, NEW at, NEW arg, NEW value, NEW cells, NEW was,
         NEW old1, NEW old2, NEW raises1, NEW raises2,
         DOMAIN old1 = DOMAIN old2, \A i \in DOMAIN old2 : SameState(old1[i], old2[i])
  PROVE  Similar(CommandOf(op, on, at, arg, value, old1, cells, was, raises1),
                 CommandOf(op, on, at, arg, value, old2, cells, was, raises2))
BY CommandParts DEF Similar

LEMMA SimilarFacts ==
  ASSUME NEW c, NEW e, Similar(c, e)
  PROVE  /\ IsCommand(c) /\ IsCommand(e)
         /\ c.op = e.op /\ c.on = e.on /\ c.at = e.at /\ c.arg = e.arg
         /\ c.value = e.value /\ c.cells = e.cells /\ c.was = e.was
         /\ DOMAIN c.old = DOMAIN e.old
         /\ \A i \in DOMAIN e.old : SameState(c.old[i], e.old[i])
BY DEF Similar

LEMMA SimilarAt ==
  ASSUME NEW c, NEW e, Similar(c, e), NEW x
  PROVE  Similar([c EXCEPT !.at = x], [e EXCEPT !.at = x])
<1>1. IsCommand(c) /\ IsCommand(e)
  BY SimilarFacts
<1> DEFINE c2 == [c EXCEPT !.at = x]
           e2 == [e EXCEPT !.at = x]
<1>2. c2 = CommandOf(c.op, c.on, x, c.arg, c.value, c.old, c.cells, c.was, c.raises)
  BY <1>1, WithOne DEF CommandOf
<1>3. e2 = CommandOf(e.op, e.on, x, e.arg, e.value, e.old, e.cells, e.was, e.raises)
  BY <1>1, WithOne DEF CommandOf
<1> HIDE DEF c2, e2
<1>4. e2 = CommandOf(c.op, c.on, x, c.arg, c.value, e.old, c.cells, c.was, e.raises)
  BY <1>3, SimilarFacts
<1>6. Similar(c2, e2)
  BY <1>2, <1>4, SimilarFacts, SimilarParts
<1> QED BY <1>6 DEF c2, e2

LEMMA SimilarWas ==
  ASSUME NEW c, NEW e, Similar(c, e), NEW x
  PROVE  Similar([c EXCEPT !.was = x], [e EXCEPT !.was = x])
<1>1. IsCommand(c) /\ IsCommand(e)
  BY SimilarFacts
<1> DEFINE c2 == [c EXCEPT !.was = x]
           e2 == [e EXCEPT !.was = x]
<1>2. c2 = CommandOf(c.op, c.on, c.at, c.arg, c.value, c.old, c.cells, x, c.raises)
  BY <1>1, WithOne DEF CommandOf
<1>3. e2 = CommandOf(e.op, e.on, e.at, e.arg, e.value, e.old, e.cells, x, e.raises)
  BY <1>1, WithOne DEF CommandOf
<1> HIDE DEF c2, e2
<1>4. e2 = CommandOf(c.op, c.on, c.at, c.arg, c.value, e.old, c.cells, x, e.raises)
  BY <1>3, SimilarFacts
<1>6. Similar(c2, e2)
  BY <1>2, <1>4, SimilarFacts, SimilarParts
<1> QED BY <1>6 DEF c2, e2

LEMMA SimilarTaken ==
  ASSUME NEW c, NEW e, Similar(c, e), NEW x, NEW y
  PROVE  Similar(TakenFrom(c, x, y), TakenFrom(e, x, y))
<1>1. IsCommand(c) /\ IsCommand(e)
  BY SimilarFacts
<1> DEFINE c2 == TakenFrom(c, x, y)
           e2 == TakenFrom(e, x, y)
<1>2. c2 = CommandOf(c.op, c.on, x, c.arg, c.value, c.old, y, c.was, c.raises)
  BY <1>1, TakenFromIs DEF CommandOf
<1>3. e2 = CommandOf(e.op, e.on, x, e.arg, e.value, e.old, y, e.was, e.raises)
  BY <1>1, TakenFromIs DEF CommandOf
<1> HIDE DEF c2, e2
<1>4. e2 = CommandOf(c.op, c.on, x, c.arg, c.value, e.old, y, c.was, e.raises)
  BY <1>3, SimilarFacts
<1>6. Similar(c2, e2)
  BY <1>2, <1>4, SimilarFacts, SimilarParts
<1> QED BY <1>6 DEF c2, e2

LEMMA SimilarRemembering ==
  ASSUME NEW c, NEW e, Similar(c, e), NEW x, NEW z, NEW y,
         DOMAIN x = DOMAIN z, \A i \in DOMAIN z : SameState(x[i], z[i])
  PROVE  /\ Similar(Remembering(c, x, y), Remembering(e, z, y))
         /\ Remembering(e, z, y).cells = y /\ Remembering(e, z, y).old = z
         /\ Remembering(e, z, y).op = e.op
<1>1. IsCommand(c) /\ IsCommand(e)
  BY SimilarFacts
<1> DEFINE c2 == Remembering(c, x, y)
           e2 == Remembering(e, z, y)
<1>2. c2 = CommandOf(c.op, c.on, c.at, c.arg, c.value, x, y, c.was, c.raises)
  BY <1>1, RememberingIs DEF CommandOf
<1>3. e2 = CommandOf(e.op, e.on, e.at, e.arg, e.value, z, y, e.was, e.raises)
  BY <1>1, RememberingIs DEF CommandOf
<1> HIDE DEF c2, e2
<1>4. e2 = CommandOf(c.op, c.on, c.at, c.arg, c.value, z, y, c.was, e.raises)
  BY <1>3, SimilarFacts
<1>5. e2.cells = y /\ e2.old = z /\ e2.op = e.op
  BY <1>3 DEF CommandOf
<1>6. Similar(c2, e2)
  BY <1>2, <1>4, SimilarFacts, SimilarParts
<1> QED BY <1>5, <1>6 DEF c2, e2

LEMMA SimilarCascading ==
  ASSUME NEW c, NEW e, Similar(c, e), NEW x, NEW y, NEW z
  PROVE  Similar(Cascading(c, x, y), Cascading(e, x, z))
<1>1. IsCommand(c) /\ IsCommand(e)
  BY SimilarFacts
<1> DEFINE c2 == Cascading(c, x, y)
           e2 == Cascading(e, x, z)
<1>2. c2 = CommandOf(c.op, c.on, c.at, c.arg, c.value, c.old, c.cells, x, y)
  BY <1>1, CascadingIs DEF CommandOf
<1>3. e2 = CommandOf(e.op, e.on, e.at, e.arg, e.value, e.old, e.cells, x, z)
  BY <1>1, CascadingIs DEF CommandOf
<1> HIDE DEF c2, e2
<1>4. e2 = CommandOf(c.op, c.on, c.at, c.arg, c.value, e.old, c.cells, x, z)
  BY <1>3, SimilarFacts
<1>6. Similar(c2, e2)
  BY <1>2, <1>4, SimilarFacts, SimilarParts
<1> QED BY <1>6 DEF c2, e2

-----------------------------------------------------------------------------
LEMMA SetAlike ==
  ASSUME NEW s, NEW u, SameState(s, u), NEW v
  PROVE  SameState(Set(s, v), Set(u, v))
BY DEF SameState, Set

StateOf(v, w, x) == [value |-> v, slice |-> w, review |-> x]
Reviewed(s, x) == [s EXCEPT !.review = x]

LEMMA ReviewSet ==
  ASSUME NEW v, NEW w, NEW r, NEW x
  PROVE  Reviewed(StateOf(v, w, r), x) = StateOf(v, w, x)
BY DEF Reviewed, StateOf

LEMMA Flagging ==
  ASSUME NEW s, Honest(s)
  PROVE  [s EXCEPT !.review = TRUE] = StateOf(s.value, s.slice, TRUE)
<1>1. s = StateOf(s.value, s.slice, s.review)
  BY DEF Honest, StateOf
<1> DEFINE v == s.value
           w == s.slice
           r == s.review
<1>2. Reviewed(StateOf(v, w, r), TRUE) = StateOf(v, w, TRUE)
  BY ReviewSet
<1>3. Reviewed(s, TRUE) = StateOf(v, w, TRUE)
  BY <1>1, <1>2, Zenon
<1> QED BY <1>3, Zenon DEF Reviewed

LEMMA RetypedStates ==
  ASSUME NEW s, NEW u, SameState(s, u), Honest(s), Honest(u), NEW t
  PROVE  SameState(Retyped(s, t), Retyped(u, t))
<1> DEFINE x == Reads[t][u.value.text]
<1>1. s.value = u.value
  BY DEF SameState
<1>2. /\ Retyped(s, t) = IF x = Fails THEN [s EXCEPT !.review = TRUE] ELSE Set(s, Value(t, x))
      /\ Retyped(u, t) = IF x = Fails THEN [u EXCEPT !.review = TRUE] ELSE Set(u, Value(t, x))
  BY <1>1 DEF Retyped
<1>3. SameState([s EXCEPT !.review = TRUE], [u EXCEPT !.review = TRUE])
  <2>1. /\ [s EXCEPT !.review = TRUE] = StateOf(s.value, s.slice, TRUE)
        /\ [u EXCEPT !.review = TRUE] = StateOf(u.value, u.slice, TRUE)
    BY Flagging
  <2> QED BY <1>1, <2>1 DEF SameState, StateOf
<1>4. SameState(Set(s, Value(t, x)), Set(u, Value(t, x)))
  BY SetAlike
<1> QED BY <1>2, <1>3, <1>4

\* The states of some cells.
StatesAt(d, xs) == [i \in DOMAIN xs |-> d.state[xs[i]]]

LEMMA ChangingIs ==
  ASSUME NEW d, NEW c, NEW xs, NEW states
  PROVE  Changing(d, c, xs, states) = Ok(Restored(d, xs, states), Remembering(c, StatesAt(d, xs), xs))
BY DEF Changing, Remembering, StatesAt

LEMMA ChangingAlike ==
  ASSUME NEW d, IsTable(d), NEW b, IsTable(b), Alike(d, b), NEW c, NEW e, Similar(c, e),
         NEW f, NEW xs \in Seq(DOMAIN b.state), DOMAIN f.state = DOMAIN b.state,
         NEW g, \A x \in DOMAIN f.state : SameState(g.state[x], f.state[x]),
         NEW u, NEW v, DOMAIN v = DOMAIN xs, \A i \in DOMAIN v : SameState(u[i], v[i])
  PROVE  /\ Alike(Restored(d, xs, u), Restored(b, xs, v))
         /\ Similar(Remembering(c, StatesAt(g, xs), xs), Remembering(e, StatesAt(f, xs), xs))
<1>1. Alike(Restored(d, xs, u), Restored(b, xs, v))
  BY BackAlike
<1> DEFINE x == StatesAt(g, xs)
           z == StatesAt(f, xs)
<1>2. DOMAIN x = DOMAIN z
  BY DEF StatesAt
<1>3. \A i \in DOMAIN z : SameState(x[i], z[i])
  <2>1. \A i \in DOMAIN xs : xs[i] \in DOMAIN f.state
    BY LenProperties, ElementOfSeq
  <2> QED BY <2>1 DEF StatesAt
<1> HIDE DEF x, z
<1>4. Similar(Remembering(c, x, xs), Remembering(e, z, xs))
  BY <1>2, <1>3, SimilarRemembering
<1> QED BY <1>1, <1>4 DEF x, z

SetStates(d, xs, v) == [i \in DOMAIN xs |-> Set(d.state[xs[i]], v)]

LEMMA SetCellsAlike ==
  ASSUME NEW d, IsTable(d), NEW b, IsTable(b), Alike(d, b), NEW c, NEW e, Similar(c, e),
         NEW xs \in Seq(DOMAIN b.state)
  PROVE  Both(SetCells(d, c, xs), SetCells(b, e, xs))
<1> DEFINE u == SetStates(d, xs, e.value)
           v == SetStates(b, xs, e.value)
<1>1. c.value = e.value
  BY DEF Similar
<1>2. /\ SetCells(d, c, xs) = Ok(Restored(d, xs, u), Remembering(c, StatesAt(d, xs), xs))
      /\ SetCells(b, e, xs) = Ok(Restored(b, xs, v), Remembering(e, StatesAt(b, xs), xs))
  BY <1>1, ChangingIs DEF SetCells, SetStates
<1>3. \A x \in DOMAIN b.state : SameState(d.state[x], b.state[x])
  BY DEF Alike
<1>4. DOMAIN v = DOMAIN xs /\ \A i \in DOMAIN v : SameState(u[i], v[i])
  <2>1. \A i \in DOMAIN xs : xs[i] \in DOMAIN b.state
    BY LenProperties, ElementOfSeq
  <2>2. \A i \in DOMAIN xs : SameState(Set(d.state[xs[i]], e.value), Set(b.state[xs[i]], e.value))
    BY <1>3, <2>1, SetAlike
  <2> QED BY <2>2 DEF SetStates
<1> HIDE DEF u, v
<1>5. /\ Alike(Restored(d, xs, u), Restored(b, xs, v))
      /\ Similar(Remembering(c, StatesAt(d, xs), xs), Remembering(e, StatesAt(b, xs), xs))
  BY <1>3, <1>4, ChangingAlike
<1> QED BY <1>2, <1>5, BothOk

RetypedStatesAt(d, xs, t) == [i \in DOMAIN xs |-> Retyped(d.state[xs[i]], t)]
RetypedCells(d, c) == LET k == PositionOf(d.columns, c.on) IN IF k = 0 THEN <<>> ELSE ColumnCells(d, k)
Fallen(d, c, xs) == \E x \in ToSet(xs) : Reads[c.arg][d.state[x].value.text] = Fails

LEMMA RetypeIs ==
  ASSUME NEW d, NEW c
  PROVE  LET xs == RetypedCells(d, c)
         IN Retype(d, c)
            = Ok(Restored([d EXCEPT !.type[c.on] = c.arg], xs, RetypedStatesAt(d, xs, c.arg)),
                 Cascading(Remembering(c, StatesAt([d EXCEPT !.type[c.on] = c.arg], xs), xs),
                           d.type[c.on], Fallen(d, c, xs)))
<1> DEFINE xs == RetypedCells(d, c)
           d2 == [d EXCEPT !.type[c.on] = c.arg]
           states == RetypedStatesAt(d, xs, c.arg)
           done == Changing(d2, c, xs, states)
<1>1. Retype(d, c) = Ok(done.doc, Cascading(done.cmd, d.type[c.on], Fallen(d, c, xs)))
  BY DEF Retype, RetypedCells, RetypedStatesAt, Cascading, Fallen
<1> HIDE DEF xs, d2, states
<1>2. done = Ok(Restored(d2, xs, states), Remembering(c, StatesAt(d2, xs), xs))
  BY ChangingIs
<1> HIDE DEF done
<1>3. done.doc = Restored(d2, xs, states) /\ done.cmd = Remembering(c, StatesAt(d2, xs), xs)
  BY <1>2 DEF Ok
<1>4. Retype(d, c) = Ok(Restored(d2, xs, states),
                        Cascading(Remembering(c, StatesAt(d2, xs), xs), d.type[c.on], Fallen(d, c, xs)))
  BY <1>1, <1>3
<1> QED BY <1>4 DEF xs, d2, states

LEMMA RetypedCellsFacts ==
  ASSUME NEW b, LaidOut(b, {}, {}), NEW e
  PROVE  RetypedCells(b, e) \in Seq(DOMAIN b.state)
<1> DEFINE k == PositionOf(b.columns, e.on)
<1>1. CASE k = 0
  BY <1>1 DEF RetypedCells
<1>2. CASE k # 0
  <2>1. k \in DOMAIN b.columns
    BY <1>2, LaidOutFacts, FoundFacts
  <2> HIDE DEF k
  <2>2. ColumnCells(b, k) \in Seq(DOMAIN b.state)
    BY <2>1, ColumnCellsFacts
  <2>3. RetypedCells(b, e) = ColumnCells(b, k)
    BY <1>2 DEF RetypedCells, k
  <2> QED BY <2>2, <2>3
<1> QED BY <1>1, <1>2

LEMMA RetypeAlike ==
  ASSUME NEW d, IsTable(d), NEW b, LaidOut(b, {}, {}), Alike(d, b), NEW c, NEW e, Similar(c, e),
         Proper(d), Proper(b), e.on \in DOMAIN b.type, e.arg \in Types
  PROVE  Both(Retype(d, c), Retype(b, e))
<1> DEFINE xs == RetypedCells(b, e)
           d2 == [d EXCEPT !.type[e.on] = e.arg]
           b2 == [b EXCEPT !.type[e.on] = e.arg]
           u == RetypedStatesAt(d, xs, e.arg)
           v == RetypedStatesAt(b, xs, e.arg)
<1>1. /\ c.on = e.on /\ c.arg = e.arg /\ IsTable(b) /\ d.columns = b.columns
      /\ d.type[e.on] = b.type[e.on]
  BY DEF Similar, LaidOut, Alike
<1>2. RetypedCells(d, c) = xs
  BY <1>1, AlikeCells DEF RetypedCells
<1>3. /\ Retype(d, c) = Ok(Restored(d2, xs, u), Cascading(Remembering(c, StatesAt(d2, xs), xs), b.type[e.on], Fallen(d, c, xs)))
      /\ Retype(b, e) = Ok(Restored(b2, xs, v), Cascading(Remembering(e, StatesAt(b2, xs), xs), b.type[e.on], Fallen(b, e, xs)))
  <2> HIDE DEF xs
  <2>1. /\ RetypedCells(b, e) = xs /\ RetypedStatesAt(d, xs, c.arg) = u
        /\ [d EXCEPT !.type[c.on] = c.arg] = d2
    BY <1>1 DEF xs
  <2> HIDE DEF d2, b2, u, v
  <2>2. Retype(d, c) = Ok(Restored(d2, xs, u), Cascading(Remembering(c, StatesAt(d2, xs), xs), d.type[c.on], Fallen(d, c, xs)))
    BY <1>2, <2>1, RetypeIs
  <2>3. Retype(b, e) = Ok(Restored(b2, xs, v), Cascading(Remembering(e, StatesAt(b2, xs), xs), b.type[e.on], Fallen(b, e, xs)))
    BY <2>1, RetypeIs DEF b2, v
  <2> QED BY <1>1, <2>2, <2>3
<1>4. Alike(d2, b2) /\ InPlace(d, d2) /\ InPlace(b, b2)
  BY <1>1, RetypedAlike, RetypedInPlace
<1>5. xs \in Seq(DOMAIN b.state)
  BY RetypedCellsFacts
<1>6. \A x \in DOMAIN b.state : SameState(d.state[x], b.state[x]) /\ x \in DOMAIN d.state
  BY DEF Alike
<1>7. DOMAIN v = DOMAIN xs /\ \A i \in DOMAIN v : SameState(u[i], v[i])
  <2> HIDE DEF xs
  <2>1. \A i \in DOMAIN xs : xs[i] \in DOMAIN b.state
    BY <1>5, LenProperties, ElementOfSeq
  <2>2. \A i \in DOMAIN xs : SameState(Retyped(d.state[xs[i]], e.arg), Retyped(b.state[xs[i]], e.arg))
    <3> SUFFICES ASSUME NEW i \in DOMAIN xs
                 PROVE  SameState(Retyped(d.state[xs[i]], e.arg), Retyped(b.state[xs[i]], e.arg))
      OBVIOUS
    <3>1. SameState(d.state[xs[i]], b.state[xs[i]]) /\ Honest(d.state[xs[i]]) /\ Honest(b.state[xs[i]])
      BY <1>6, <2>1 DEF Proper
    <3> QED BY <3>1, RetypedStates
  <2> QED BY <2>2 DEF RetypedStatesAt
<1> HIDE DEF xs, u, v, d2, b2
<1>8. IsTable(d2) /\ IsTable(b2) /\ DOMAIN b2.state = DOMAIN b.state
  BY <1>4 DEF InPlace
<1>9. \A x \in DOMAIN b2.state : SameState(d2.state[x], b2.state[x])
  BY <1>4 DEF Alike
<1>10. /\ Alike(Restored(d2, xs, u), Restored(b2, xs, v))
       /\ Similar(Remembering(c, StatesAt(d2, xs), xs), Remembering(e, StatesAt(b2, xs), xs))
  <2>1. xs \in Seq(DOMAIN b2.state)
    BY <1>5, <1>8
  <2> QED BY <1>4, <1>7, <1>8, <1>9, <2>1, ChangingAlike
<1> DEFINE c2 == Cascading(Remembering(c, StatesAt(d2, xs), xs), b.type[e.on], Fallen(d, c, xs))
           e2 == Cascading(Remembering(e, StatesAt(b2, xs), xs), b.type[e.on], Fallen(b, e, xs))
<1>11. Similar(c2, e2)
  BY <1>10, SimilarCascading
<1> HIDE DEF c2, e2
<1> QED BY <1>3, <1>10, <1>11, BothOk DEF c2, e2

-----------------------------------------------------------------------------
LEMMA WholeSequence ==
  ASSUME NEW S, NEW s \in Seq(S), NEW n, n = Len(s)
  PROVE  SubSeq(s, 1, Min({n, Len(s)})) = s
<1>1. Len(s) \in Nat
  BY LenProperties
<1>2. Min({n, Len(s)}) = Len(s)
  BY <1>1 DEF Min
<1>3. SubSeq(s, 1, Len(s)) = s
  BY <1>1
<1> QED BY <1>2, <1>3

\* An import goes down a whole column.
LEMMA ImportIs ==
  ASSUME NEW d, IsTable(d), NEW b, LaidOut(b, {}, {}), Alike(d, b), NEW c, c.op = "import",
         c.at \in DOMAIN b.columns, c.on = Len(b.rows)
  PROVE  /\ Do(d, c) = SetCells(d, c, ColumnCells(b, c.at))
         /\ ColumnCells(b, c.at) \in Seq(DOMAIN b.state)
<1>1. d.columns = b.columns /\ d.rows = b.rows /\ IsTable(b)
  BY DEF Alike, LaidOut
<1> DEFINE xs == ColumnCells(b, c.at)
<1>2. ColumnCells(d, c.at) = xs
  BY <1>1, AlikeCells
<1>3. xs \in Seq(DOMAIN b.state) /\ Len(xs) = Len(b.rows)
  BY ColumnCellsFacts
<1> HIDE DEF xs
<1>4. SubSeq(xs, 1, Min({c.on, Len(d.rows)})) = xs
  <2>1. SubSeq(xs, 1, Min({c.on, Len(xs)})) = xs
    BY <1>3, WholeSequence
  <2> QED BY <1>1, <1>3, <2>1
<1>5. Do(d, c) = SetCells(d, c, SubSeq(ColumnCells(d, c.at), 1, Min({c.on, Len(d.rows)})))
  BY <1>1 DEF Do
<1> QED BY <1>2, <1>3, <1>4, <1>5 DEF xs

LEMMA OneIsSeq == ASSUME NEW S, NEW x \in S PROVE <<x>> \in Seq(S)
OBVIOUS

LEMMA DoAlike ==
  ASSUME NEW d, IsTable(d), NEW b, LaidOut(b, {}, {}), Alike(d, b), Proper(d), Proper(b),
         NEW c, NEW e, Similar(c, e), Refers(e, b), e.op \in OpNames, ~Creates(e)
  PROVE  Both(Do(d, c), Do(b, e))
<1>1. /\ IsTable(b) /\ d.columns = b.columns /\ d.rows = b.rows
      /\ DOMAIN d.name = DOMAIN d.type /\ DOMAIN b.name = DOMAIN b.type
  BY DEF LaidOut, Alike, Proper
<1>2. /\ c.op = e.op /\ c.on = e.on /\ c.at = e.at /\ c.arg = e.arg /\ c.was = e.was
      /\ c.cells = e.cells /\ IsCommand(c) /\ IsCommand(e)
  BY DEF Similar
<1>3. CASE e.op = "edit"
  <2> DEFINE xs == <<e.on>>
  <2>1. e.on \in DOMAIN b.state
    BY <1>3 DEF Refers
  <2>3. xs \in Seq(DOMAIN b.state)
    BY <2>1, OneIsSeq
  <2>2. Do(d, c) = SetCells(d, c, xs) /\ Do(b, e) = SetCells(b, e, xs)
    BY <1>2, <1>3 DEF Do
  <2> HIDE DEF xs
  <2> QED BY <1>1, <2>2, <2>3, SetCellsAlike
<1>4. CASE e.op = "import"
  <2> DEFINE xs == ColumnCells(b, e.at)
  <2>1. e.at \in DOMAIN b.columns /\ e.on = Len(b.rows)
    BY <1>4 DEF Refers
  <2>2. Do(d, c) = SetCells(d, c, xs) /\ xs \in Seq(DOMAIN b.state)
    BY <1>2, <1>4, <2>1, ImportIs
  <2>3. Do(b, e) = SetCells(b, e, xs)
    BY <1>1, <1>4, <2>1, ImportIs, AlikeItself
  <2> HIDE DEF xs
  <2> QED BY <1>1, <2>2, <2>3, SetCellsAlike
<1>5. CASE e.op = "removeRow"
  <2> DEFINE i == PositionOf(b.rows, e.on)
             c2 == [c EXCEPT !.at = i]
             e2 == [e EXCEPT !.at = i]
  <2>1. /\ Do(d, c) = IF i = 0 THEN Throws(d, c) ELSE Ok(RowOut(d, i), c2)
        /\ Do(b, e) = IF i = 0 THEN Throws(b, e) ELSE Ok(RowOut(b, i), e2)
    BY <1>1, <1>2, <1>5 DEF Do, RemoveRow, RowOut
  <2>2. Similar(c2, e2)
    BY SimilarAt
  <2> HIDE DEF i, c2, e2
  <2> QED BY <1>1, <2>1, <2>2, RowsAlike, BothOk, BothThrow
<1>6. CASE e.op = "removeColumn"
  <2> DEFINE i == PositionOf(b.columns, e.on)
             c2 == TakenFrom(c, i, ColumnCells(b, i))
             e2 == TakenFrom(e, i, ColumnCells(b, i))
  <2>1. ColumnCells(d, i) = ColumnCells(b, i)
    BY <1>1, AlikeCells
  <2>2. /\ Do(d, c) = IF i = 0 THEN Throws(d, c) ELSE Ok(ColumnOut(d, i), c2)
        /\ Do(b, e) = IF i = 0 THEN Throws(b, e) ELSE Ok(ColumnOut(b, i), e2)
    BY <1>1, <1>2, <1>6, <2>1 DEF Do, RemoveColumn, ColumnOut, TakenFrom
  <2>3. Similar(c2, e2)
    BY SimilarTaken
  <2> HIDE DEF i, c2, e2
  <2> QED BY <1>1, <2>2, <2>3, ColumnsAlike, BothOk, BothThrow
<1>7. CASE e.op \in {"up", "down"}
  <2>1. /\ Do(d, c) = Ok(ShiftRow(d, e.on, e.op = "down"), c)
        /\ Do(b, e) = Ok(ShiftRow(b, e.on, e.op = "down"), e)
    BY <1>2, <1>7 DEF Do
  <2>2. Alike(ShiftRow(d, e.on, e.op = "down"), ShiftRow(b, e.on, e.op = "down"))
    BY <1>1, ShiftsAlike
  <2> QED BY <2>1, <2>2, BothOk
<1>8. CASE e.op \in {"left", "right"}
  <2>1. /\ Do(d, c) = Ok(ShiftColumn(d, e.on, e.op = "right"), c)
        /\ Do(b, e) = Ok(ShiftColumn(b, e.on, e.op = "right"), e)
    BY <1>2, <1>8 DEF Do
  <2>2. Alike(ShiftColumn(d, e.on, e.op = "right"), ShiftColumn(b, e.on, e.op = "right"))
    BY <1>1, ShiftsAlike
  <2> QED BY <2>1, <2>2, BothOk
<1>9. CASE e.op = "rename"
  <2> DEFINE n == b.name[e.on]
             c2 == IF c.was = None THEN [c EXCEPT !.was = n] ELSE c
             e2 == IF e.was = None THEN [e EXCEPT !.was = n] ELSE e
  <2>1. d.name[e.on] = n
    BY <1>9 DEF Refers, Alike
  <2>2. /\ Do(d, c) = Ok([d EXCEPT !.name[e.on] = e.arg], c2)
        /\ Do(b, e) = Ok([b EXCEPT !.name[e.on] = e.arg], e2)
    BY <1>2, <1>9, <2>1 DEF Do
  <2>3. Alike([d EXCEPT !.name[e.on] = e.arg], [b EXCEPT !.name[e.on] = e.arg])
    BY <1>1, RenamedAlike
  <2>4. Similar([c EXCEPT !.was = n], [e EXCEPT !.was = n])
    BY SimilarWas
  <2>5. Similar(c2, e2)
    BY <1>2, <2>4
  <2> HIDE DEF n, c2, e2
  <2> QED BY <2>2, <2>3, <2>5, BothOk
<1>10. CASE e.op = "type"
  <2>1. Do(d, c) = Retype(d, c) /\ Do(b, e) = Retype(b, e)
    BY <1>2, <1>10 DEF Do
  <2>2. e.on \in DOMAIN b.type /\ e.arg \in Types
    BY <1>10 DEF Refers
  <2>3. Both(Retype(d, c), Retype(b, e))
    BY <2>2, RetypeAlike
  <2> QED BY <2>1, <2>3
<1> QED BY <1>3, <1>4, <1>5, <1>6, <1>7, <1>8, <1>9, <1>10 DEF OpNames, Creates

-----------------------------------------------------------------------------
(***************************************************************************)
(* There and back: sequences.                                              *)
(***************************************************************************)
LEMMA InsertThenRemove ==
  ASSUME NEW S, NEW s \in Seq(S), NEW at \in 1..(Len(s) + 1), NEW e
  PROVE  /\ RemoveAt(InsertAt(s, at, e), at) = s
         /\ InsertAt(s, at, e)[at] = e /\ at \in DOMAIN InsertAt(s, at, e)
<1> DEFINE T == S \cup {e}
           t == InsertAt(s, at, e)
           u == RemoveAt(t, at)
<1>1. s \in Seq(T) /\ e \in T /\ Len(s) \in Nat /\ DOMAIN s = 1..Len(s)
  <2>1. Seq(S) \subseteq Seq(T)
    BY SeqMonotonic
  <2> QED BY <2>1, LenProperties
<1>2. HasOneMore(t, T, s, at, e)
  BY <1>1, InsertOne
<1> HIDE DEF t, T
<1>3. t \in Seq(T) /\ Len(t) = Len(s) + 1 /\ at \in 1..Len(t)
  BY <1>1, <1>2 DEF HasOneMore
<1>4. u \in Seq(T) /\ Len(u) = Len(t) - 1
  BY <1>3, RemoveOne
<1>5. \A i \in 1..Len(t) - 1 : u[i] = IF i < at THEN t[i] ELSE t[i + 1]
  BY <1>3, RemoveOne
<1> HIDE DEF u
<1>6. Len(u) = Len(s)
  BY <1>1, <1>3, <1>4
<1>7. ASSUME NEW i \in 1..Len(s) PROVE u[i] = s[i]
  <2>1. i \in Nat /\ at \in Nat /\ i \in 1..(Len(s) + 1) /\ i + 1 \in 1..(Len(s) + 1) /\ (i + 1) - 1 = i
        /\ i \in 1..(Len(t) - 1)
    BY <1>1, <1>3
  <2>2. CASE i < at
    BY <1>2, <1>5, <2>1, <2>2 DEF HasOneMore
  <2>3. CASE ~(i < at)
    <3>1. ~(i + 1 < at) /\ i + 1 # at
      BY <2>1, <2>3
    <3>2. t[i + 1] = s[i]
      BY <1>2, <2>1, <3>1 DEF HasOneMore
    <3> QED BY <1>5, <2>1, <2>3, <3>2
  <2> QED BY <2>2, <2>3
<1>8. u = s
  BY <1>1, <1>4, <1>6, <1>7, SeqEqual
<1>9. t[at] = e /\ at \in DOMAIN t
  <2>1. at \in 1..(Len(s) + 1) /\ ~(at < at)
    BY <1>1
  <2>2. t[at] = e
    BY <1>2, <2>1 DEF HasOneMore
  <2> QED BY <1>3, <2>2, LenProperties
<1> QED BY <1>8, <1>9 DEF u, t

LEMMA RemoveThenInsert ==
  ASSUME NEW S, NEW s \in Seq(S), NEW at \in 1..Len(s)
  PROVE  /\ InsertAt(RemoveAt(s, at), at, s[at]) = s
         /\ RemoveAt(s, at) \in Seq(S) /\ Len(RemoveAt(s, at)) + 1 = Len(s)
<1> DEFINE t == RemoveAt(s, at)
           u == InsertAt(t, at, s[at])
<1>1. Len(s) \in Nat /\ s[at] \in S /\ DOMAIN s = 1..Len(s)
  BY LenProperties, ElementOfSeq
<1>2. t \in Seq(S) /\ Len(t) = Len(s) - 1
  BY RemoveOne
<1>3. \A i \in 1..Len(s) - 1 : t[i] = IF i < at THEN s[i] ELSE s[i + 1]
  BY RemoveOne
<1> HIDE DEF t
<1>4. at \in 1..(Len(t) + 1)
  BY <1>1, <1>2
<1>5. HasOneMore(u, S, t, at, s[at])
  BY <1>1, <1>2, <1>4, InsertOne
<1> HIDE DEF u
<1>6. u \in Seq(S) /\ Len(u) = Len(s)
  BY <1>1, <1>2, <1>5 DEF HasOneMore
<1>7. ASSUME NEW i \in 1..Len(s) PROVE u[i] = s[i]
  <2>1. i \in 1..(Len(t) + 1) /\ i \in Nat /\ at \in Nat
    BY <1>1, <1>2
  <2>2. CASE i < at
    <3>1. i \in 1..Len(s) - 1
      BY <1>1, <2>1, <2>2
    <3> QED BY <1>3, <1>5, <2>1, <2>2, <3>1 DEF HasOneMore
  <2>3. CASE i = at
    <3>1. ~(i < at)
      BY <2>1, <2>3
    <3> QED BY <1>5, <2>1, <2>3, <3>1 DEF HasOneMore
  <2>4. CASE i > at
    <3>1. i - 1 \in 1..Len(s) - 1 /\ ~(i - 1 < at) /\ (i - 1) + 1 = i /\ ~(i < at) /\ i # at
      BY <1>1, <2>1, <2>4
    <3>2. u[i] = t[i - 1]
      BY <1>5, <2>1, <3>1 DEF HasOneMore
    <3> QED BY <1>3, <3>1, <3>2
  <2> QED BY <2>1, <2>2, <2>3, <2>4
<1>8. u = s
  BY <1>1, <1>6, <1>7, SeqEqual
<1> QED BY <1>1, <1>2, <1>8 DEF u, t

\* The only place of an element is where it is found.
LEMMA OnlyPlace ==
  ASSUME NEW S, NEW s \in Seq(S), NEW i \in DOMAIN s, NEW e, s[i] = e,
         \A k \in DOMAIN s : s[k] = e => k = i
  PROVE  PositionOf(s, e) = i
<1>1. e \in ToSet(s)
  BY DEF ToSet
<1>2. PositionOf(s, e) \in DOMAIN s /\ s[PositionOf(s, e)] = e
  BY <1>1, MemberFound
<1> QED BY <1>2

LEMMA FreshFound ==
  ASSUME NEW S, NEW s \in Seq(S), NEW at \in 1..(Len(s) + 1), NEW e, e \notin ToSet(s)
  PROVE  PositionOf(InsertAt(s, at, e), e) = at
<1> DEFINE T == S \cup {e}
           t == InsertAt(s, at, e)
<1>1. s \in Seq(T) /\ e \in T /\ Len(s) \in Nat /\ DOMAIN s = 1..Len(s)
  <2>1. Seq(S) \subseteq Seq(T)
    BY SeqMonotonic
  <2> QED BY <2>1, LenProperties
<1>2. HasOneMore(t, T, s, at, e)
  BY <1>1, InsertOne
<1> HIDE DEF t, T
<1>3. t \in Seq(T) /\ DOMAIN t = 1..(Len(s) + 1)
  <2>1. t \in Seq(T) /\ Len(t) = Len(s) + 1
    BY <1>2 DEF HasOneMore
  <2> QED BY <2>1, LenProperties
<1>4. t[at] = e /\ at \in DOMAIN t
  BY InsertThenRemove DEF t
<1>5. ASSUME NEW k \in DOMAIN t, t[k] = e PROVE k = at
  <2>1. k \in 1..(Len(s) + 1) /\ k \in Nat /\ at \in Nat
    BY <1>1, <1>3
  <2>2. \A i \in 1..Len(s) : s[i] # e
    BY <1>1 DEF ToSet
  <2>3. CASE k < at
    <3>1. k \in 1..Len(s)
      BY <1>1, <2>1, <2>3
    <3>2. t[k] = s[k]
      BY <1>2, <2>1, <2>3 DEF HasOneMore
    <3> QED BY <1>5, <2>2, <3>1, <3>2
  <2>4. CASE k > at
    <3>1. k - 1 \in 1..Len(s) /\ ~(k < at) /\ k # at
      BY <1>1, <2>1, <2>4
    <3>2. t[k] = s[k - 1]
      BY <1>2, <2>1, <3>1 DEF HasOneMore
    <3> QED BY <1>5, <2>2, <3>1, <3>2
  <2> QED BY <2>1, <2>3, <2>4
<1>6. PositionOf(t, e) = at
  BY <1>3, <1>4, <1>5, OnlyPlace
<1> QED BY <1>6 DEF t

\* A move and the opposite move.
LEMMA ShiftBack ==
  ASSUME NEW S, NEW s \in Seq(S), NEW i \in 1..Len(s), NEW j \in 1..Len(s)
  PROVE  /\ Shifted(Shifted(s, i, j), j, i) = s
         /\ Shifted(s, i, j)[j] = s[i] /\ j \in DOMAIN Shifted(s, i, j)
         /\ DOMAIN Shifted(s, i, j) = DOMAIN s
<1> DEFINE t == RemoveAt(s, i)
           e == s[i]
           u == InsertAt(t, j, e)
<1>1. InsertAt(t, i, e) = s /\ t \in Seq(S) /\ Len(t) + 1 = Len(s)
  BY RemoveThenInsert
<1> HIDE DEF t
<1>2. j \in 1..(Len(t) + 1)
  BY <1>1
<1>3. RemoveAt(u, j) = t /\ u[j] = e /\ j \in DOMAIN u
  BY <1>1, <1>2, InsertThenRemove
<1>4. Shifted(s, i, j) = u
  BY DEF Shifted, t
<1> HIDE DEF u
<1>5. Shifted(u, j, i) = InsertAt(RemoveAt(u, j), i, u[j])
  BY DEF Shifted
<1>6. Shifted(u, j, i) = s
  BY <1>1, <1>3, <1>5
<1>7. u \in Seq(S) /\ Len(u) = Len(s)
  BY <1>4, ShiftKeepsOnce
<1>8. DOMAIN u = DOMAIN s
  BY <1>7, LenProperties
<1> QED BY <1>3, <1>4, <1>6, <1>8

LEMMA ShiftedFound ==
  ASSUME NEW S, NEW s \in Seq(S), Once(s), NEW i \in 1..Len(s), NEW j \in 1..Len(s)
  PROVE  PositionOf(Shifted(s, i, j), s[i]) = j
<1> DEFINE u == Shifted(s, i, j)
<1>1. u \in Seq(S) /\ Once(u)
  BY ShiftKeepsOnce
<1>2. u[j] = s[i] /\ j \in DOMAIN u
  BY ShiftBack
<1> HIDE DEF u
<1>3. \A k \in DOMAIN u : u[k] = s[i] => k = j
  BY <1>1, <1>2 DEF Once
<1>4. PositionOf(u, s[i]) = j
  BY <1>1, <1>2, <1>3, OnlyPlace
<1> QED BY <1>4 DEF u

-----------------------------------------------------------------------------
(***************************************************************************)
(* There and back: commands.                                               *)
(***************************************************************************)
\* What the user asks for: its objects are in the table, and a move is possible.
Wanted(c, a) ==
  /\ Known(c, a) /\ Refers(c, a)
  /\ c.op \in {"removeRow", "up", "down"} => c.on \in ToSet(a.rows)
  /\ c.op \in {"removeColumn", "left", "right", "type"} => c.on \in ToSet(a.columns)
  /\ c.op = "addRow" => c.at \in 1..(Len(a.rows) + 1)
  /\ c.op = "addColumn" => c.at \in 1..(Len(a.columns) + 1)
  /\ c.op = "rename" => c.was = None
  /\ c.op = "up" => a.rows[1] # c.on
  /\ c.op = "down" => a.rows[Len(a.rows)] # c.on
  /\ c.op = "left" => a.columns[1] # c.on
  /\ c.op = "right" => a.columns[Len(a.columns)] # c.on

\* Undoing c in b leads back to a.
Returns(a, c, b) ==
  /\ UndoOp(b, c).ok /\ Alike(UndoOp(b, c).doc, a)
  /\ Holds(c, b) /\ (c.op = "type" => c.was \in Types)

LEMMA ReturnsOk ==
  ASSUME NEW a, NEW b, NEW c, NEW e, NEW f, UndoOp(b, c) = Ok(e, f), Alike(e, a), Holds(c, b),
         c.op = "type" => c.was \in Types
  PROVE  Returns(a, c, b)
BY DEF Returns, Ok

LEMMA StatesReturn ==
  ASSUME NEW s, NEW xs \in Seq(DOMAIN s), NEW u
  PROVE  LET old == [i \in DOMAIN xs |-> s[xs[i]]]
             t == StatesBack(StatesBack(s, xs, u), xs, old)
         IN DOMAIN t = DOMAIN s /\ \A x \in DOMAIN s : t[x] = s[x]
<1> DEFINE old == [i \in DOMAIN xs |-> s[xs[i]]]
           v == StatesBack(s, xs, u)
           t == StatesBack(v, xs, old)
<1>1. DOMAIN v = DOMAIN s /\ \A x \in DOMAIN s : x \notin ToSet(xs) => v[x] = s[x]
  BY DEF StatesBack
<1>2. \A x \in ToSet(xs) : PositionOf(xs, x) \in DOMAIN xs /\ xs[PositionOf(xs, x)] = x
  BY MemberFound
<1>3. \A x \in ToSet(xs) : old[PositionOf(xs, x)] = s[x]
  BY <1>2
<1> HIDE DEF old, v
<1>4. DOMAIN t = DOMAIN s
  BY <1>1 DEF StatesBack
<1>5. ASSUME NEW x \in DOMAIN s PROVE t[x] = s[x]
  <2>1. t[x] = IF x \in ToSet(xs) THEN old[PositionOf(xs, x)] ELSE v[x]
    BY <1>1 DEF StatesBack
  <2> HIDE DEF t
  <2> QED BY <1>1, <1>3, <2>1
<1> QED BY <1>4, <1>5 DEF t, v, old

LEMMA RestoredReturns ==
  ASSUME NEW a, IsTable(a), NEW xs \in Seq(DOMAIN a.state), NEW u
  PROVE  Alike(Restored(Restored(a, xs, u), xs, StatesAt(a, xs)), a)
<1> DEFINE b == Restored(a, xs, u)
           s == StatesBack(a.state, xs, u)
           t == StatesBack(s, xs, StatesAt(a, xs))
<1>1. b = Table(a.columns, a.type, a.name, a.rows, a.cells, s) /\ IsTable(b)
  BY RestoredIs, RestoredInPlace DEF InPlace
<1>2. DOMAIN t = DOMAIN a.state /\ \A x \in DOMAIN a.state : t[x] = a.state[x]
  BY StatesReturn DEF StatesAt
<1> HIDE DEF b, s
<1>3. b.state = s /\ b.columns = a.columns /\ b.type = a.type /\ b.name = a.name /\ b.rows = a.rows /\ b.cells = a.cells
  BY <1>1, Parts
<1>4. Restored(b, xs, StatesAt(a, xs)) = Table(a.columns, a.type, a.name, a.rows, a.cells, t)
  BY <1>1, <1>3, RestoredIs
<1> HIDE DEF t
<1>5. Alike(Restored(b, xs, StatesAt(a, xs)), a)
  BY <1>2, <1>4, Parts DEF Alike, SameState
<1> QED BY <1>5 DEF b

LEMMA RememberingParts ==
  ASSUME NEW c, IsCommand(c), NEW x, NEW y
  PROVE  /\ IsCommand(Remembering(c, x, y))
         /\ Remembering(c, x, y).op = c.op /\ Remembering(c, x, y).on = c.on /\ Remembering(c, x, y).at = c.at
         /\ Remembering(c, x, y).arg = c.arg /\ Remembering(c, x, y).value = c.value
         /\ Remembering(c, x, y).old = x /\ Remembering(c, x, y).cells = y
         /\ Remembering(c, x, y).was = c.was
<1>1. Remembering(c, x, y) = CommandOf(c.op, c.on, c.at, c.arg, c.value, x, y, c.was, c.raises)
  BY RememberingIs DEF CommandOf
<1> QED BY <1>1, CommandParts

LEMMA CascadingParts ==
  ASSUME NEW c, IsCommand(c), NEW x, NEW y
  PROVE  /\ IsCommand(Cascading(c, x, y))
         /\ Cascading(c, x, y).op = c.op /\ Cascading(c, x, y).on = c.on /\ Cascading(c, x, y).at = c.at
         /\ Cascading(c, x, y).arg = c.arg /\ Cascading(c, x, y).value = c.value
         /\ Cascading(c, x, y).old = c.old /\ Cascading(c, x, y).cells = c.cells
         /\ Cascading(c, x, y).was = x
<1>1. Cascading(c, x, y) = CommandOf(c.op, c.on, c.at, c.arg, c.value, c.old, c.cells, x, y)
  BY CascadingIs DEF CommandOf
<1> QED BY <1>1, CommandParts

LEMMA TakenParts ==
  ASSUME NEW c, IsCommand(c), NEW x, NEW y
  PROVE  /\ IsCommand(TakenFrom(c, x, y))
         /\ TakenFrom(c, x, y).op = c.op /\ TakenFrom(c, x, y).on = c.on /\ TakenFrom(c, x, y).at = x
         /\ TakenFrom(c, x, y).arg = c.arg /\ TakenFrom(c, x, y).value = c.value
         /\ TakenFrom(c, x, y).old = c.old /\ TakenFrom(c, x, y).cells = y
         /\ TakenFrom(c, x, y).was = c.was
<1>1. TakenFrom(c, x, y) = CommandOf(c.op, c.on, x, c.arg, c.value, c.old, y, c.was, c.raises)
  BY TakenFromIs DEF CommandOf
<1> QED BY <1>1, CommandParts

LEMMA OneNewPart ==
  ASSUME NEW c, IsCommand(c), NEW x
  PROVE  /\ [c EXCEPT !.at = x] = CommandOf(c.op, c.on, x, c.arg, c.value, c.old, c.cells, c.was, c.raises)
         /\ [c EXCEPT !.on = x] = CommandOf(c.op, x, c.at, c.arg, c.value, c.old, c.cells, c.was, c.raises)
         /\ [c EXCEPT !.was = x] = CommandOf(c.op, c.on, c.at, c.arg, c.value, c.old, c.cells, x, c.raises)
BY WithOne DEF CommandOf

\* An edit or an import.
LEMMA SetReturns ==
  ASSUME NEW a, IsTable(a), NEW c, IsCommand(c), c.op \in {"edit", "import"}, NEW xs \in Seq(DOMAIN a.state)
  PROVE  Returns(a, SetCells(a, c, xs).cmd, SetCells(a, c, xs).doc)
<1> DEFINE u == SetStates(a, xs, c.value)
           b == Restored(a, xs, u)
           c1 == Remembering(c, StatesAt(a, xs), xs)
<1>1. SetCells(a, c, xs) = Ok(b, c1)
  BY ChangingIs DEF SetCells, SetStates
<1>2. Alike(Restored(b, xs, StatesAt(a, xs)), a)
  BY RestoredReturns
<1>3. c1.op = c.op /\ c1.old = StatesAt(a, xs) /\ c1.cells = xs
  BY RememberingParts
<1>4. DOMAIN StatesAt(a, xs) = DOMAIN xs
  BY DEF StatesAt
<1> HIDE DEF b, c1, u
<1>5. UndoOp(b, c1) = Ok(Restored(b, xs, StatesAt(a, xs)), c1)
  BY <1>3 DEF UndoOp
<1>6. Holds(c1, b)
  BY <1>3, <1>4 DEF Holds
<1>7. Returns(a, c1, b)
  BY <1>2, <1>3, <1>5, <1>6, ReturnsOk
<1>8. SetCells(a, c, xs).doc = b /\ SetCells(a, c, xs).cmd = c1
  BY <1>1 DEF Ok
<1> QED BY <1>7, <1>8

\* A change of type.
LEMMA RetypeReturns ==
  ASSUME NEW a, LaidOut(a, {}, {}), NEW c, IsCommand(c), c.op = "type",
         c.on \in ToSet(a.columns), c.arg \in Types
  PROVE  Returns(a, Retype(a, c).cmd, Retype(a, c).doc)
<1> DEFINE k == PositionOf(a.columns, c.on)
           xs == RetypedCells(a, c)
           a2 == [a EXCEPT !.type[c.on] = c.arg]
           u == RetypedStatesAt(a, xs, c.arg)
           b == Restored(a2, xs, u)
           c1 == Remembering(c, StatesAt(a2, xs), xs)
           c2 == Cascading(c1, a.type[c.on], Fallen(a, c, xs))
           y == [a.type EXCEPT ![c.on] = c.arg]
           s == StatesBack(a.state, xs, u)
<1>1. Retype(a, c) = Ok(b, c2)
  BY RetypeIs
<1>2. /\ IsTable(a) /\ a.columns \in Seq(DOMAIN a.type) /\ c.on \in DOMAIN a.type /\ a.type \in Seq(Types)
      /\ k # 0 /\ k \in DOMAIN a.columns
  BY LaidOutFacts, MemberFound DEF IsTable
<1>3. xs = ColumnCells(a, k) /\ xs \in Seq(DOMAIN a.state) /\ DOMAIN xs = DOMAIN a.rows
  BY <1>2, ColumnCellsFacts DEF RetypedCells
<1>4. a2 = Table(a.columns, y, a.name, a.rows, a.cells, a.state) /\ IsTable(a2)
  <2>1. a2 = Table(a.columns, y, a.name, a.rows, a.cells, a.state)
    BY <1>2, RetypedIs
  <2>2. InPlace(a, a2)
    BY <1>2, RetypedInPlace
  <2> HIDE DEF a2, y
  <2>3. IsTable(a2)
    BY <2>2 DEF InPlace
  <2> QED BY <2>1, <2>3
<1>5. a.type[c.on] \in Types
  BY <1>2, ElementOfSeq, LenProperties
<1>6. y = [a.type EXCEPT ![c.on] = c.arg] /\ DOMAIN y = DOMAIN a.type
  OBVIOUS
<1> HIDE DEF a2, xs, u, k, y, s
<1>7. a2.columns = a.columns /\ a2.type = y /\ a2.name = a.name /\ a2.rows = a.rows /\ a2.cells = a.cells /\ a2.state = a.state
  BY <1>4, Parts
<1>8. b = Table(a.columns, y, a.name, a.rows, a.cells, s) /\ IsTable(b)
  BY <1>4, <1>7, RestoredIs, RestoredInPlace DEF InPlace, s
<1> HIDE DEF b
<1>9. b.columns = a.columns /\ b.type = y /\ b.name = a.name /\ b.rows = a.rows /\ b.cells = a.cells /\ b.state = s
  BY <1>8, Parts
<1>10. c1.op = c.op /\ c1.on = c.on /\ c1.old = StatesAt(a2, xs) /\ IsCommand(c1)
  BY RememberingParts
<1> HIDE DEF c1
<1>11. c2.op = "type" /\ c2.on = c.on /\ c2.old = StatesAt(a2, xs) /\ c2.was = a.type[c.on]
  BY <1>10, CascadingParts
<1> HIDE DEF c2
<1> DEFINE z == [y EXCEPT ![c.on] = a.type[c.on]]
           b2 == [b EXCEPT !.type[c.on] = a.type[c.on]]
           t == StatesBack(s, xs, StatesAt(a2, xs))
<1>12. b2 = Table(a.columns, z, a.name, a.rows, a.cells, s) /\ IsTable(b2)
  BY <1>5, <1>8, <1>9, RetypedIs, RetypedInPlace DEF InPlace
<1>13. DOMAIN z = DOMAIN a.type /\ \A x \in DOMAIN a.type : z[x] = a.type[x]
  BY <1>6
<1>14. UndoRetype(b, c2) = Ok(Restored(b2, ColumnCells(b2, k), StatesAt(a2, xs)), [c2 EXCEPT !.raises = FALSE])
  BY <1>2, <1>9, <1>11 DEF UndoRetype, k
<1> HIDE DEF z, b2
<1>15. b2.columns = a.columns /\ b2.type = z /\ b2.name = a.name /\ b2.rows = a.rows /\ b2.cells = a.cells /\ b2.state = s
  BY <1>12, Parts
<1>16. ColumnCells(b2, k) = xs
  BY <1>3, <1>15, Zenon DEF ColumnCells
<1>17. Restored(b2, xs, StatesAt(a2, xs)) = Table(a.columns, z, a.name, a.rows, a.cells, t)
  BY <1>12, <1>15, RestoredIs
<1>18. DOMAIN t = DOMAIN a.state /\ \A x \in DOMAIN a.state : t[x] = a.state[x]
  <2>1. StatesAt(a2, xs) = [i \in DOMAIN xs |-> a.state[xs[i]]]
    BY <1>7 DEF StatesAt
  <2> QED BY <1>3, <2>1, StatesReturn DEF s
<1> HIDE DEF t
<1>19. Alike(Restored(b2, xs, StatesAt(a2, xs)), a)
  BY <1>13, <1>17, <1>18, Parts DEF Alike, SameState
<1>20. DOMAIN StatesAt(a2, xs) = DOMAIN b.rows
  BY <1>3, <1>9 DEF StatesAt
<1>21. Holds(c2, b)
  BY <1>11, <1>20 DEF Holds
<1>22. UndoOp(b, c2) = UndoRetype(b, c2)
  BY <1>11 DEF UndoOp
<1>23. Returns(a, c2, b)
  BY <1>5, <1>11, <1>14, <1>16, <1>19, <1>21, <1>22, ReturnsOk
<1>24. Retype(a, c).doc = b /\ Retype(a, c).cmd = c2
  BY <1>1 DEF Ok
<1> QED BY <1>23, <1>24

-----------------------------------------------------------------------------
\* The parts of a table after its rows or columns changed and came back.
LEMMA SameParts ==
  ASSUME NEW a, NEW y, NEW m, NEW l, NEW s,
         DOMAIN a.type \subseteq DOMAIN y, \A c \in DOMAIN a.type : y[c] = a.type[c] /\ m[c] = a.name[c],
         DOMAIN a.cells \subseteq DOMAIN l, \A r \in DOMAIN a.cells : l[r] = a.cells[r],
         DOMAIN a.state \subseteq DOMAIN s, \A x \in DOMAIN a.state : s[x] = a.state[x]
  PROVE  Alike(Table(a.columns, y, m, a.rows, l, s), a)
BY Parts DEF Alike, SameState

LEMMA Prefix ==
  ASSUME NEW S, NEW s \in Seq(S), NEW e
  PROVE  /\ DOMAIN s \subseteq DOMAIN Append(s, e) /\ \A i \in DOMAIN s : Append(s, e)[i] = s[i]
<1>1. DOMAIN s = 1..Len(s) /\ Len(s) \in Nat
  BY LenProperties
<1>2. s \in Seq(S \cup {e}) /\ e \in S \cup {e}
  BY SeqMonotonic
<1>3. Len(Append(s, e)) = Len(s) + 1 /\ Append(s, e) \in Seq(S \cup {e})
      /\ \A i \in 1..Len(s) : Append(s, e)[i] = s[i]
  BY <1>1, <1>2, AppendProperties
<1>4. DOMAIN Append(s, e) = 1..(Len(s) + 1)
  BY <1>3, LenProperties
<1> QED BY <1>1, <1>3, <1>4

Joined(u, s, f, n) ==
  /\ DOMAIN s \subseteq DOMAIN u /\ \A i \in DOMAIN s : u[i] = s[i]
  /\ DOMAIN u = 1..(Len(s) + n)
  /\ \A i \in 1..n : Len(s) + i \in DOMAIN u /\ u[Len(s) + i] = f[i]

LEMMA JoinedPrefix ==
  ASSUME NEW S, NEW s \in Seq(S), NEW T, NEW n \in Nat, NEW f \in [1..n -> T]
  PROVE  Joined(s \o f, s, f, n)
<1>1. f \in Seq(T) /\ Len(f) = n
  BY FunctionIsSeq
<1>2. DOMAIN s = 1..Len(s) /\ Len(s) \in Nat
  BY LenProperties
<1>3. s \in Seq(S \cup T) /\ f \in Seq(S \cup T)
  BY <1>1, SeqMonotonic
<1>4. /\ s \o f \in Seq(S \cup T) /\ Len(s \o f) = Len(s) + n
      /\ \A i \in 1..(Len(s) + n) : (s \o f)[i] = IF i <= Len(s) THEN s[i] ELSE f[i - Len(s)]
  BY <1>1, <1>3, ConcatProperties
<1>5. DOMAIN (s \o f) = 1..(Len(s) + n)
  BY <1>4, LenProperties
<1>6. \A i \in 1..n : /\ Len(s) + i \in 1..(Len(s) + n) /\ ~(Len(s) + i <= Len(s))
                      /\ (Len(s) + i) - Len(s) = i
  BY <1>2
<1>7. \A i \in 1..Len(s) : i \in 1..(Len(s) + n) /\ i <= Len(s)
  BY <1>2
<1>8. \A i \in DOMAIN s : (s \o f)[i] = s[i]
  BY <1>2, <1>4, <1>7
<1>9. \A i \in 1..n : (s \o f)[Len(s) + i] = f[i]
  BY <1>4, <1>6
<1> QED BY <1>2, <1>5, <1>6, <1>7, <1>8, <1>9 DEF Joined

\* A new row goes.
LEMMA AddRowReturns ==
  ASSUME NEW a, LaidOut(a, {}, {}), NEW c, IsCommand(c), c.op = "addRow", c.at \in 1..(Len(a.rows) + 1)
  PROVE  Returns(a, c, AddRow(a, c.at))
<1> DEFINE b == AddRow(a, c.at)
           w == InsertAt(a.rows, c.at, Len(a.cells) + 1)
           l == Append(a.cells, NewCells(a, a.columns))
           s == a.state \o FreshRow(a)
<1>1. IsTable(a) /\ a.rows \in Seq(DOMAIN a.cells)
  BY LaidOutFacts
<1>2. b = Table(a.columns, a.type, a.name, w, l, s)
  BY <1>1, AddRowIs
<1>3. IsTable(b)
  <2>1. LaidOut(b, {}, {})
    BY AddRowKeeps
  <2> QED BY <2>1 DEF LaidOut
<1>4. RemoveAt(w, c.at) = a.rows /\ c.at \in DOMAIN w
  BY <1>1, InsertThenRemove
<1>5. DOMAIN a.cells \subseteq DOMAIN l /\ \A r \in DOMAIN a.cells : l[r] = a.cells[r]
  BY <1>1, Prefix DEF IsTable
<1>6. DOMAIN a.state \subseteq DOMAIN s /\ \A x \in DOMAIN a.state : s[x] = a.state[x]
  <2>1. PICK S : a.state \in Seq(S)
    BY <1>1 DEF IsTable
  <2>2. Len(a.columns) \in Nat /\ DOMAIN a.columns = 1..Len(a.columns)
    BY LaidOutFacts
  <2> DEFINE T == {Fresh(a.type[a.columns[k]]) : k \in DOMAIN a.columns}
  <2>3. FreshRow(a) \in [1..Len(a.columns) -> T]
    BY <2>2 DEF FreshRow
  <2> HIDE DEF T
  <2> QED BY <2>1, <2>2, <2>3, JoinedPrefix DEF Joined
<1> HIDE DEF b, w, l, s
<1>7. b.rows = w /\ b.columns = a.columns /\ b.type = a.type /\ b.name = a.name /\ b.cells = l /\ b.state = s
  BY <1>2, Parts
<1>8. UndoOp(b, c) = Ok(RowOut(b, c.at), c)
  BY <1>4, <1>7 DEF UndoOp, RowOut
<1>9. RowOut(b, c.at) = Table(a.columns, a.type, a.name, a.rows, l, s)
  BY <1>3, <1>4, <1>7, RowOutIs
<1>10. Alike(RowOut(b, c.at), a)
  <2>1. Alike(Table(a.columns, a.type, a.name, a.rows, l, s), a)
    BY <1>5, <1>6, SameParts
  <2> QED BY <1>9, <2>1
<1>11. Holds(c, b)
  BY DEF Holds
<1>12. Returns(a, c, b)
  BY <1>8, <1>10, <1>11, ReturnsOk
<1> QED BY <1>12 DEF b

\* A removed row comes back.
LEMMA RemoveRowReturns ==
  ASSUME NEW a, LaidOut(a, {}, {}), NEW c, IsCommand(c), c.op = "removeRow", c.on \in ToSet(a.rows)
  PROVE  Returns(a, RemoveRow(a, c).cmd, RemoveRow(a, c).doc)
<1> DEFINE i == PositionOf(a.rows, c.on)
           b == RowOut(a, i)
           c1 == [c EXCEPT !.at = i]
           w == RemoveAt(a.rows, i)
<1>1. IsTable(a) /\ a.rows \in Seq(DOMAIN a.cells) /\ DOMAIN a.rows = 1..Len(a.rows)
  BY LaidOutFacts
<1>2. i # 0 /\ i \in DOMAIN a.rows /\ a.rows[i] = c.on
  BY <1>1, MemberFound
<1>3. RemoveRow(a, c) = Ok(b, c1)
  BY <1>2 DEF RemoveRow, RowOut
<1>4. b = Table(a.columns, a.type, a.name, w, a.cells, a.state)
  BY <1>1, RowOutIs
<1>5. IsTable(b)
  <2>1. LaidOut(b, {} \cup {a.rows[i]}, {})
    BY <1>2, TakeRowOut
  <2> QED BY <2>1 DEF LaidOut
<1>6. InsertAt(w, i, c.on) = a.rows /\ Len(w) + 1 = Len(a.rows)
  <2> DEFINE e == a.rows
  <2>1. e \in Seq(DOMAIN a.cells) /\ i \in 1..Len(e) /\ c.on = e[i]
    BY <1>1, <1>2
  <2> HIDE DEF i, e
  <2>2. InsertAt(RemoveAt(e, i), i, e[i]) = e /\ Len(RemoveAt(e, i)) + 1 = Len(e)
    BY <2>1, RemoveThenInsert
  <2> QED BY <2>1, <2>2 DEF e
<1>7. c1.op = "removeRow" /\ c1.on = c.on /\ c1.at = i
  BY OneNewPart, CommandParts
<1>8. i \in Nat /\ ~(i > Len(w) + 1)
  BY <1>1, <1>2, <1>6, LaidOutFacts
<1> HIDE DEF b, c1, w, i
<1>9. b.rows = w /\ b.columns = a.columns /\ b.type = a.type /\ b.name = a.name /\ b.cells = a.cells /\ b.state = a.state
  BY <1>4, Parts
<1>10. UndoOp(b, c1) = Ok(RowIn(b, i, c.on), c1)
  BY <1>7, <1>8, <1>9 DEF UndoOp, RowIn
<1>11. RowIn(b, i, c.on) = Table(a.columns, a.type, a.name, a.rows, a.cells, a.state)
  BY <1>5, <1>6, <1>9, RowInIs
<1>12. Alike(RowIn(b, i, c.on), a)
  BY <1>11, SameParts
<1>13. Holds(c1, b)
  BY <1>7 DEF Holds
<1>14. Returns(a, c1, b)
  BY <1>7, <1>10, <1>12, <1>13, ReturnsOk
<1>15. RemoveRow(a, c).doc = b /\ RemoveRow(a, c).cmd = c1
  BY <1>3 DEF Ok
<1> QED BY <1>14, <1>15

\* The cells of a column go in and out.
LEMMA CellsInAndOut ==
  ASSUME NEW a, LaidOut(a, {}, {}), NEW i \in 1..(Len(a.columns) + 1), NEW xs
  PROVE  LET l == ShrunkCells(GrownCells(a.cells, a.rows, i, xs), a.rows, i)
         IN DOMAIN l = DOMAIN a.cells /\ \A r \in DOMAIN a.cells : l[r] = a.cells[r]
<1> DEFINE g == GrownCells(a.cells, a.rows, i, xs)
           l == ShrunkCells(g, a.rows, i)
<1>1. DOMAIN g = DOMAIN a.cells
  BY DEF GrownCells
<1>2. DOMAIN l = DOMAIN a.cells
  BY <1>1 DEF ShrunkCells
<1>3. ASSUME NEW r \in DOMAIN a.cells PROVE l[r] = a.cells[r]
  <2>1. CASE r \in ToSet(a.rows)
    <3>1. g[r] = InsertAt(a.cells[r], i, xs[PositionOf(a.rows, r)])
      BY <2>1 DEF GrownCells
    <3>2. a.cells[r] \in Seq(DOMAIN a.state) /\ Len(a.cells[r]) = Len(a.columns)
      BY <2>1, LaidOutFacts
    <3>3. l[r] = RemoveAt(g[r], i)
      BY <1>1, <2>1 DEF ShrunkCells
    <3> HIDE DEF g, l
    <3>4. RemoveAt(InsertAt(a.cells[r], i, xs[PositionOf(a.rows, r)]), i) = a.cells[r]
      BY <3>2, InsertThenRemove
    <3> QED BY <3>1, <3>3, <3>4
  <2>2. CASE r \notin ToSet(a.rows)
    <3>1. g[r] = a.cells[r]
      BY <2>2 DEF GrownCells
    <3>2. l[r] = g[r]
      BY <1>1, <2>2 DEF ShrunkCells
    <3> QED BY <3>1, <3>2
  <2> QED BY <2>1, <2>2
<1> QED BY <1>2, <1>3

LEMMA CellsOutAndIn ==
  ASSUME NEW a, LaidOut(a, {}, {}), NEW i \in DOMAIN a.columns
  PROVE  LET l == GrownCells(ShrunkCells(a.cells, a.rows, i), a.rows, i, ColumnCells(a, i))
         IN DOMAIN l = DOMAIN a.cells /\ \A r \in DOMAIN a.cells : l[r] = a.cells[r]
<1> DEFINE xs == ColumnCells(a, i)
           g == ShrunkCells(a.cells, a.rows, i)
           l == GrownCells(g, a.rows, i, xs)
<1>1. DOMAIN g = DOMAIN a.cells
  BY DEF ShrunkCells
<1>2. DOMAIN l = DOMAIN a.cells
  BY <1>1 DEF GrownCells
<1>3. ASSUME NEW r \in DOMAIN a.cells PROVE l[r] = a.cells[r]
  <2>1. CASE r \in ToSet(a.rows)
    <3>1. g[r] = RemoveAt(a.cells[r], i)
      BY <2>1 DEF ShrunkCells
    <3>2. a.cells[r] \in Seq(DOMAIN a.state) /\ i \in 1..Len(a.cells[r])
      BY <2>1, LaidOutFacts
    <3>3. l[r] = InsertAt(g[r], i, xs[PositionOf(a.rows, r)])
      BY <1>1, <2>1 DEF GrownCells
    <3>4. PositionOf(a.rows, r) \in DOMAIN a.rows /\ a.rows[PositionOf(a.rows, r)] = r
      BY <2>1, LaidOutFacts, MemberFound
    <3>5. xs[PositionOf(a.rows, r)] = a.cells[r][i]
      BY <3>4, ColumnCellsFacts
    <3> HIDE DEF g, l, xs
    <3>6. InsertAt(RemoveAt(a.cells[r], i), i, a.cells[r][i]) = a.cells[r]
      BY <3>2, RemoveThenInsert
    <3> QED BY <3>1, <3>3, <3>5, <3>6
  <2>2. CASE r \notin ToSet(a.rows)
    <3>1. g[r] = a.cells[r]
      BY <2>2 DEF ShrunkCells
    <3>2. l[r] = g[r]
      BY <1>1, <2>2 DEF GrownCells
    <3> QED BY <3>1, <3>2
  <2> QED BY <2>1, <2>2
<1> QED BY <1>2, <1>3

\* A removed column comes back.
LEMMA RemoveColumnReturns ==
  ASSUME NEW a, LaidOut(a, {}, {}), NEW c, IsCommand(c), c.op = "removeColumn", c.on \in ToSet(a.columns)
  PROVE  Returns(a, RemoveColumn(a, c).cmd, RemoveColumn(a, c).doc)
<1> DEFINE i == PositionOf(a.columns, c.on)
           xs == ColumnCells(a, i)
           b == ColumnOut(a, i)
           c1 == TakenFrom(c, i, xs)
           k == RemoveAt(a.columns, i)
           g == ShrunkCells(a.cells, a.rows, i)
           l == GrownCells(g, a.rows, i, xs)
<1>1. IsTable(a) /\ a.columns \in Seq(DOMAIN a.type) /\ DOMAIN a.columns = 1..Len(a.columns) /\ Len(a.columns) \in Nat
  BY LaidOutFacts
<1>2. i # 0 /\ i \in DOMAIN a.columns /\ a.columns[i] = c.on
  BY <1>1, MemberFound
<1>3. RemoveColumn(a, c) = Ok(b, c1)
  BY <1>2 DEF RemoveColumn, ColumnOut, TakenFrom
<1>4. b = Table(k, a.type, a.name, a.rows, g, a.state)
  BY <1>1, ColumnOutIs
<1>5. IsTable(b)
  <2>1. LaidOut(b, {}, {} \cup ToSet(xs))
    BY <1>2, TakeColumnOut
  <2> QED BY <2>1 DEF LaidOut
<1>6. InsertAt(k, i, c.on) = a.columns /\ Len(k) + 1 = Len(a.columns)
  <2> DEFINE s == a.columns
  <2>1. s \in Seq(DOMAIN a.type) /\ i \in 1..Len(s) /\ s[i] = c.on
    BY <1>1, <1>2
  <2> HIDE DEF i, s
  <2>2. InsertAt(RemoveAt(s, i), i, s[i]) = s /\ Len(RemoveAt(s, i)) + 1 = Len(s)
    BY <2>1, RemoveThenInsert
  <2> QED BY <2>1, <2>2 DEF s
<1>7. c1.op = "removeColumn" /\ c1.on = c.on /\ c1.at = i /\ c1.cells = xs
  BY TakenParts
<1>8. i \in Nat /\ ~(i > Len(k) + 1)
  BY <1>1, <1>2, <1>6
<1>9. DOMAIN l = DOMAIN a.cells /\ \A r \in DOMAIN a.cells : l[r] = a.cells[r]
  BY <1>2, CellsOutAndIn
<1> HIDE DEF b, c1, k, i, xs, g, l
<1>10. b.rows = a.rows /\ b.columns = k /\ b.type = a.type /\ b.name = a.name /\ b.cells = g /\ b.state = a.state
  BY <1>4, Parts
<1>11. UndoOp(b, c1) = Ok(ColumnIn(b, i, c.on, xs), c1)
  BY <1>7, <1>8, <1>10 DEF UndoOp, ColumnIn
<1>12. ColumnIn(b, i, c.on, xs) = Table(a.columns, a.type, a.name, a.rows, l, a.state)
  <2>1. GrownCells(b.cells, b.rows, i, xs) = l
    BY <1>10 DEF l
  <2>2. ColumnIn(b, i, c.on, xs) = Table(InsertAt(b.columns, i, c.on), b.type, b.name, b.rows,
                                         GrownCells(b.cells, b.rows, i, xs), b.state)
    BY <1>5, ColumnInIs
  <2> QED BY <1>6, <1>10, <2>1, <2>2
<1>13. Alike(ColumnIn(b, i, c.on, xs), a)
  <2> DEFINE y == a.type
             m == a.name
             s == a.state
  <2>1. \A x \in DOMAIN y : y[x] = a.type[x] /\ m[x] = a.name[x]
    OBVIOUS
  <2>2. Alike(Table(a.columns, y, m, a.rows, l, s), a)
    BY <1>9, <2>1, SameParts
  <2> QED BY <1>12, <2>2
<1>14. Holds(c1, b)
  BY <1>7 DEF Holds
<1>15. Returns(a, c1, b)
  BY <1>7, <1>11, <1>13, <1>14, ReturnsOk
<1>16. RemoveColumn(a, c).doc = b /\ RemoveColumn(a, c).cmd = c1
  BY <1>3 DEF Ok
<1> QED BY <1>15, <1>16

-----------------------------------------------------------------------------
\* A new column goes.
LEMMA AddColumnReturns ==
  ASSUME NEW a, LaidOut(a, {}, {}), Proper(a), NEW c, IsCommand(c), c.op = "addColumn",
         c.at \in 1..(Len(a.columns) + 1), c.arg \in Types
  PROVE  Returns(a, [c EXCEPT !.on = Len(a.type) + 1], AddColumn(a, c.at, c.arg))
<1> DEFINE n == Len(a.type) + 1
           c1 == [c EXCEPT !.on = n]
           b == AddColumn(a, c.at, c.arg)
           k == InsertAt(a.columns, c.at, n)
           y == Append(a.type, c.arg)
           m == Append(a.name, "added")
           xs == NewCells(a, a.rows)
           g == GrownCells(a.cells, a.rows, c.at, xs)
           l == ShrunkCells(g, a.rows, c.at)
           s == a.state \o FreshColumn(a, c.arg)
<1>1. IsTable(a) /\ a.columns \in Seq(DOMAIN a.type) /\ a.type \in Seq(Types) /\ Len(a.type) \in Nat
  BY LaidOutFacts, LenProperties DEF IsTable
<1>2. b = Table(k, y, m, a.rows, g, s)
  BY <1>1, AddColumnIs
<1>3. IsTable(b)
  <2>1. LaidOut(b, {}, {})
    BY AddColumnKeeps
  <2> QED BY <2>1 DEF LaidOut
<1>4. n \notin ToSet(a.columns)
  <2>1. ToSet(a.columns) \subseteq DOMAIN a.type
    BY LaidOutFacts
  <2>2. DOMAIN a.type = 1..Len(a.type)
    BY <1>1, LenProperties
  <2> QED BY <1>1, <2>1, <2>2
<1>5. RemoveAt(k, c.at) = a.columns /\ c.at \in DOMAIN k
  BY <1>1, InsertThenRemove
<1>6. PositionOf(k, n) = c.at
  BY <1>1, <1>4, FreshFound
<1>7. DOMAIN l = DOMAIN a.cells /\ \A r \in DOMAIN a.cells : l[r] = a.cells[r]
  BY CellsInAndOut
<1>8. DOMAIN a.state \subseteq DOMAIN s /\ \A x \in DOMAIN a.state : s[x] = a.state[x]
  <2>1. PICK S : a.state \in Seq(S)
    BY <1>1 DEF IsTable
  <2>2. Len(a.rows) \in Nat /\ DOMAIN a.rows = 1..Len(a.rows)
    BY LaidOutFacts
  <2>3. FreshColumn(a, c.arg) \in [1..Len(a.rows) -> {Fresh(c.arg)}]
    BY <2>2 DEF FreshColumn
  <2> DEFINE T == {Fresh(c.arg)}
             f == FreshColumn(a, c.arg)
  <2>4. f \in [1..Len(a.rows) -> T]
    BY <2>3
  <2> HIDE DEF T, f
  <2>5. DOMAIN a.state \subseteq DOMAIN (a.state \o f) /\ \A x \in DOMAIN a.state : (a.state \o f)[x] = a.state[x]
    BY <2>1, <2>2, <2>4, JoinedPrefix DEF Joined
  <2> QED BY <2>5 DEF f
<1>9. DOMAIN a.type \subseteq DOMAIN y /\ \A x \in DOMAIN a.type : y[x] = a.type[x]
  BY <1>1, Prefix
<1>10. \A x \in DOMAIN a.type : m[x] = a.name[x]
  <2>1. PICK S : a.name \in Seq(S)
    BY DEF Proper
  <2>2. DOMAIN a.name = DOMAIN a.type
    BY DEF Proper
  <2> QED BY <2>1, <2>2, Prefix
<1>11. c1.op = "addColumn" /\ c1.on = n /\ c1.at = c.at
  BY OneNewPart, CommandParts
<1>12. c.at # 0
  BY LaidOutFacts
<1> HIDE DEF b, c1, k, y, m, g, l, s, n, xs
<1>13. b.rows = a.rows /\ b.columns = k /\ b.type = y /\ b.name = m /\ b.cells = g /\ b.state = s
  BY <1>2, Parts
<1>14. UndoOp(b, c1) = Ok(ColumnOut(b, c.at), c1)
  BY <1>5, <1>6, <1>11, <1>12, <1>13 DEF UndoOp, UndoAddColumn, ColumnOut
<1>15. ColumnOut(b, c.at) = Table(a.columns, y, m, a.rows, l, s)
  <2>1. ShrunkCells(b.cells, b.rows, c.at) = l
    BY <1>13 DEF l
  <2>2. ColumnOut(b, c.at) = Table(RemoveAt(b.columns, c.at), b.type, b.name, b.rows,
                                   ShrunkCells(b.cells, b.rows, c.at), b.state)
    BY <1>3, ColumnOutIs
  <2> QED BY <1>5, <1>13, <2>1, <2>2
<1>16. Alike(ColumnOut(b, c.at), a)
  <2>1. Alike(Table(a.columns, y, m, a.rows, l, s), a)
    BY <1>7, <1>8, <1>9, <1>10, SameParts
  <2> QED BY <1>15, <2>1
<1>17. Holds(c1, b)
  BY <1>11 DEF Holds
<1>18. Returns(a, c1, b)
  BY <1>11, <1>14, <1>16, <1>17, ReturnsOk
<1> QED BY <1>18 DEF c1, n, b

\* Where one finds the element one place further, and back.
LEMMA BesideBack ==
  ASSUME NEW i \in Nat, NEW further \in BOOLEAN
  PROVE  Beside(Beside(i, further), ~further) = i
BY DEF Beside

LEMMA BesideThere ==
  ASSUME NEW S, NEW s \in Seq(S), NEW e \in ToSet(s), NEW further \in BOOLEAN,
         IF further THEN s[Len(s)] # e ELSE s[1] # e
  PROVE  Beside(PositionOf(s, e), further) \in DOMAIN s
<1>1. PositionOf(s, e) \in DOMAIN s /\ s[PositionOf(s, e)] = e
  BY MemberFound
<1>2. DOMAIN s = 1..Len(s) /\ Len(s) \in Nat
  BY LenProperties
<1>3. further => PositionOf(s, e) # Len(s)
  BY <1>1
<1>4. ~further => PositionOf(s, e) # 1
  BY <1>1
<1> QED BY <1>1, <1>2, <1>3, <1>4 DEF Beside

\* A row that moves to a neighbour's place moves back.
LEMMA RowMoveReturns ==
  ASSUME NEW a, LaidOut(a, {}, {}), NEW r \in ToSet(a.rows), NEW down \in BOOLEAN,
         IF down THEN a.rows[Len(a.rows)] # r ELSE a.rows[1] # r
  PROVE  Alike(ShiftRow(ShiftRow(a, r, down), r, ~down), a)
<1> DEFINE i == PositionOf(a.rows, r)
           j == Beside(i, down)
           w == Shifted(a.rows, i, j)
           b == ShiftRow(a, r, down)
           v == Shifted(w, j, i)
<1>1. IsTable(a) /\ a.rows \in Seq(DOMAIN a.cells) /\ DOMAIN a.rows = 1..Len(a.rows) /\ Once(a.rows)
  BY LaidOutFacts DEF LaidOut
<1>2. i # 0 /\ i \in DOMAIN a.rows /\ a.rows[i] = r
  BY <1>1, MemberFound
<1>3. j \in DOMAIN a.rows
  BY <1>1, BesideThere
<1>4. b = Table(a.columns, a.type, a.name, w, a.cells, a.state)
  BY <1>1, <1>2, <1>3, ShiftRowIs
<1>5. IsTable(b)
  <2>1. LaidOut(b, {}, {})
    BY ShiftRowKeeps
  <2> QED BY <2>1 DEF LaidOut
<1>6. i \in Nat /\ Beside(j, ~down) = i
  <2>1. i \in Nat
    BY <1>1, <1>2
  <2> HIDE DEF i
  <2> QED BY <2>1, BesideBack
<1> HIDE DEF b, i, j, w, v
<1>7. /\ Shifted(w, j, i) = a.rows /\ DOMAIN w = DOMAIN a.rows
  <2>1. i \in 1..Len(a.rows) /\ j \in 1..Len(a.rows)
    BY <1>1, <1>2, <1>3
  <2> QED BY <1>1, <2>1, ShiftBack DEF w
<1>8. PositionOf(w, r) = j
  <2>1. i \in 1..Len(a.rows) /\ j \in 1..Len(a.rows)
    BY <1>1, <1>2, <1>3
  <2> QED BY <1>1, <1>2, <2>1, ShiftedFound DEF w
<1>9. b.rows = w /\ b.columns = a.columns /\ b.type = a.type /\ b.name = a.name /\ b.cells = a.cells /\ b.state = a.state
  BY <1>4, Parts
<1>10. j # 0
  BY <1>1, <1>3
<1>11. ShiftRow(b, r, ~down) = IF j = 0 \/ i \notin DOMAIN w THEN b
                               ELSE Table(a.columns, a.type, a.name, Shifted(w, j, i), a.cells, a.state)
  BY <1>5, <1>6, <1>8, <1>9, ShiftRowIs
<1>12. ShiftRow(b, r, ~down) = Table(a.columns, a.type, a.name, a.rows, a.cells, a.state)
  BY <1>2, <1>7, <1>10, <1>11
<1>13. Alike(ShiftRow(b, r, ~down), a)
  BY <1>12, SameParts
<1> QED BY <1>13 DEF b

\* The cells of each row move back with the column.
LEMMA CellsMoveBack ==
  ASSUME NEW a, LaidOut(a, {}, {}), NEW i \in DOMAIN a.columns, NEW j \in DOMAIN a.columns
  PROVE  LET l == ShiftedCells(ShiftedCells(a.cells, a.rows, i, j), a.rows, j, i)
         IN DOMAIN l = DOMAIN a.cells /\ \A r \in DOMAIN a.cells : l[r] = a.cells[r]
<1> DEFINE g == ShiftedCells(a.cells, a.rows, i, j)
           l == ShiftedCells(g, a.rows, j, i)
<1>1. DOMAIN g = DOMAIN a.cells
  BY DEF ShiftedCells
<1>2. DOMAIN l = DOMAIN a.cells
  BY <1>1 DEF ShiftedCells
<1>3. ASSUME NEW r \in DOMAIN a.cells PROVE l[r] = a.cells[r]
  <2>1. CASE r \in ToSet(a.rows)
    <3>1. g[r] = Shifted(a.cells[r], i, j)
      BY <2>1 DEF ShiftedCells
    <3>2. a.cells[r] \in Seq(DOMAIN a.state) /\ i \in 1..Len(a.cells[r]) /\ j \in 1..Len(a.cells[r])
      BY <2>1, LaidOutFacts
    <3>3. l[r] = Shifted(g[r], j, i)
      BY <1>1, <2>1 DEF ShiftedCells
    <3> HIDE DEF g, l
    <3>4. Shifted(Shifted(a.cells[r], i, j), j, i) = a.cells[r]
      BY <3>2, ShiftBack
    <3> QED BY <3>1, <3>3, <3>4
  <2>2. CASE r \notin ToSet(a.rows)
    <3>1. g[r] = a.cells[r]
      BY <2>2 DEF ShiftedCells
    <3>2. l[r] = g[r]
      BY <1>1, <2>2 DEF ShiftedCells
    <3> QED BY <3>1, <3>2
  <2> QED BY <2>1, <2>2
<1> QED BY <1>2, <1>3

\* A column that moves to a neighbour's place moves back.
LEMMA ColumnMoveReturns ==
  ASSUME NEW a, LaidOut(a, {}, {}), Once(a.columns), NEW c \in ToSet(a.columns), NEW right \in BOOLEAN,
         IF right THEN a.columns[Len(a.columns)] # c ELSE a.columns[1] # c
  PROVE  Alike(ShiftColumn(ShiftColumn(a, c, right), c, ~right), a)
<1> DEFINE i == PositionOf(a.columns, c)
           j == Beside(i, right)
           k == Shifted(a.columns, i, j)
           g == ShiftedCells(a.cells, a.rows, i, j)
           l == ShiftedCells(g, a.rows, j, i)
           b == ShiftColumn(a, c, right)
<1>1. IsTable(a) /\ a.columns \in Seq(DOMAIN a.type) /\ DOMAIN a.columns = 1..Len(a.columns)
  BY LaidOutFacts
<1>2. i # 0 /\ i \in DOMAIN a.columns /\ a.columns[i] = c
  BY <1>1, MemberFound
<1>3. j \in DOMAIN a.columns
  BY <1>1, BesideThere
<1>4. b = Table(k, a.type, a.name, a.rows, g, a.state)
  BY <1>1, <1>2, <1>3, ShiftColumnIs
<1>5. IsTable(b)
  <2>1. LaidOut(b, {}, {})
    BY ShiftColumnKeeps
  <2> QED BY <2>1 DEF LaidOut
<1>6. i \in Nat /\ Beside(j, ~right) = i
  <2>1. i \in Nat
    BY <1>1, <1>2
  <2> HIDE DEF i
  <2> QED BY <2>1, BesideBack
<1>7. DOMAIN l = DOMAIN a.cells /\ \A r \in DOMAIN a.cells : l[r] = a.cells[r]
  BY <1>2, <1>3, CellsMoveBack
<1> HIDE DEF b, i, j, k, g, l
<1>8. i \in 1..Len(a.columns) /\ j \in 1..Len(a.columns)
  BY <1>1, <1>2, <1>3
<1>9. Shifted(k, j, i) = a.columns /\ DOMAIN k = DOMAIN a.columns
  BY <1>1, <1>8, ShiftBack DEF k
<1>10. PositionOf(k, c) = j
  BY <1>1, <1>2, <1>8, ShiftedFound DEF k
<1>11. b.rows = a.rows /\ b.columns = k /\ b.type = a.type /\ b.name = a.name /\ b.cells = g /\ b.state = a.state
  BY <1>4, Parts
<1>12. j # 0
  BY <1>8
<1>13. ShiftedCells(b.cells, b.rows, j, i) = l
  BY <1>11 DEF l
<1>14. ShiftColumn(b, c, ~right) = IF j = 0 \/ i \notin DOMAIN k THEN b
                                   ELSE Table(Shifted(k, j, i), a.type, a.name, a.rows, l, a.state)
  BY <1>5, <1>6, <1>10, <1>11, <1>13, ShiftColumnIs
<1>15. ShiftColumn(b, c, ~right) = Table(a.columns, a.type, a.name, a.rows, l, a.state)
  BY <1>2, <1>9, <1>12, <1>14
<1>16. Alike(ShiftColumn(b, c, ~right), a)
  <2> DEFINE y == a.type
             m == a.name
             s == a.state
  <2>1. Alike(Table(a.columns, y, m, a.rows, l, s), a)
    BY <1>7, SameParts
  <2> QED BY <1>15, <2>1
<1> QED BY <1>16 DEF b

\* The old name comes back.
LEMMA RenameReturns ==
  ASSUME NEW a, IsTable(a), Proper(a), NEW c, IsCommand(c), c.op = "rename"
  PROVE  Returns(a, [c EXCEPT !.was = a.name[c.on]], [a EXCEPT !.name[c.on] = c.arg])
<1> DEFINE c1 == [c EXCEPT !.was = a.name[c.on]]
           b == [a EXCEPT !.name[c.on] = c.arg]
           m == [a.name EXCEPT ![c.on] = c.arg]
           n == [m EXCEPT ![c.on] = a.name[c.on]]
<1>1. b = Table(a.columns, a.type, m, a.rows, a.cells, a.state)
  BY RenamedIs
<1>2. IsTable(b)
  <2>1. InPlace(a, b)
    BY RenamedInPlace
  <2> QED BY <2>1 DEF InPlace
<1>3. \A x \in DOMAIN a.type : n[x] = a.name[x]
  <2>1. \A x \in DOMAIN a.name : n[x] = a.name[x]
    OBVIOUS
  <2> QED BY <2>1 DEF Proper
<1>4. c1.op = "rename" /\ c1.on = c.on /\ c1.was = a.name[c.on]
  BY OneNewPart, CommandParts
<1> HIDE DEF c1, b, m, n
<1>5. b.rows = a.rows /\ b.columns = a.columns /\ b.type = a.type /\ b.name = m /\ b.cells = a.cells /\ b.state = a.state
  BY <1>1, Parts
<1> DEFINE v == a.name[c.on]
<1>6. UndoOp(b, c1) = Ok([b EXCEPT !.name[c.on] = v], c1)
  BY <1>4 DEF UndoOp
<1>7. [b EXCEPT !.name[c.on] = v] = Table(a.columns, a.type, n, a.rows, a.cells, a.state)
  <2> HIDE DEF v
  <2>1. [b EXCEPT !.name[c.on] = v] = Table(b.columns, b.type, [b.name EXCEPT ![c.on] = v], b.rows, b.cells, b.state)
    BY <1>2, RenamedIs
  <2>2. [b.name EXCEPT ![c.on] = v] = n
    BY <1>5 DEF n, v
  <2> QED BY <1>5, <2>1, <2>2
<1>9. Alike([b EXCEPT !.name[c.on] = v], a)
  <2>1. Alike(Table(a.columns, a.type, n, a.rows, a.cells, a.state), a)
    BY <1>3, SameParts
  <2> QED BY <1>7, <2>1
<1>10. Holds(c1, b)
  BY <1>4 DEF Holds
<1>11. Returns(a, c1, b)
  BY <1>4, <1>6, <1>9, <1>10, ReturnsOk
<1> QED BY <1>11 DEF c1, b

-----------------------------------------------------------------------------
LEMMA OkParts ==
  ASSUME NEW p, NEW d, NEW c, p = Ok(d, c)
  PROVE  p.ok /\ p.doc = d /\ p.cmd = c
BY DEF Ok

\* What is done on what is there gets through, and its undo leads back.
LEMMA DoThenUndo ==
  ASSUME NEW a, LaidOut(a, {}, {}), Once(a.columns), Proper(a), NEW c, Wanted(c, a)
  PROVE  Do(a, c).ok /\ Returns(a, Do(a, c).cmd, Do(a, c).doc)
<1>1. /\ IsTable(a) /\ IsCommand(c) /\ c.op \in OpNames /\ Refers(c, a)
      /\ Len(a.rows) \in Nat /\ Len(a.columns) \in Nat
  BY LaidOutFacts DEF Wanted, Known
<1> DEFINE p == Do(a, c)
<1>2. CASE c.op = "edit"
  <2> DEFINE xs == <<c.on>>
  <2>1. c.on \in DOMAIN a.state
    BY <1>1, <1>2 DEF Refers
  <2>2. xs \in Seq(DOMAIN a.state)
    BY <2>1, OneIsSeq
  <2>3. p = SetCells(a, c, xs)
    BY <1>2 DEF Do
  <2> HIDE DEF xs, p
  <2>4. Returns(a, SetCells(a, c, xs).cmd, SetCells(a, c, xs).doc)
    BY <1>1, <1>2, <2>2, SetReturns
  <2>5. p.ok
    BY <2>3, ChangingIs, OkParts DEF SetCells
  <2> QED BY <2>3, <2>4, <2>5 DEF p
<1>3. CASE c.op = "import"
  <2> DEFINE xs == ColumnCells(a, c.at)
  <2>1. c.at \in DOMAIN a.columns /\ c.on = Len(a.rows)
    BY <1>1, <1>3 DEF Refers
  <2>2. p = SetCells(a, c, xs) /\ xs \in Seq(DOMAIN a.state)
    BY <1>1, <1>3, <2>1, ImportIs, AlikeItself
  <2> HIDE DEF xs, p
  <2>4. Returns(a, SetCells(a, c, xs).cmd, SetCells(a, c, xs).doc)
    BY <1>1, <1>3, <2>2, SetReturns
  <2>5. p.ok
    BY <2>2, ChangingIs, OkParts DEF SetCells
  <2> QED BY <2>2, <2>4, <2>5 DEF p
<1>4. CASE c.op = "addRow"
  <2>1. c.at \in 1..(Len(a.rows) + 1)
    BY <1>4 DEF Wanted
  <2>2. ~(c.at > Len(a.rows) + 1)
    BY <1>1, <2>1
  <2>3. p = Ok(AddRow(a, c.at), c)
    BY <1>4, <2>2 DEF Do
  <2>4. Returns(a, c, AddRow(a, c.at))
    BY <1>1, <1>4, <2>1, AddRowReturns
  <2> HIDE DEF p
  <2>5. p.ok /\ p.doc = AddRow(a, c.at) /\ p.cmd = c
    BY <2>3, OkParts
  <2> QED BY <2>4, <2>5 DEF p
<1>5. CASE c.op = "addColumn"
  <2> DEFINE c1 == [c EXCEPT !.on = Len(a.type) + 1]
  <2>1. c.at \in 1..(Len(a.columns) + 1) /\ c.arg \in Types
    BY <1>5 DEF Wanted, Known
  <2>2. ~(c.at > Len(a.columns) + 1)
    BY <1>1, <2>1
  <2>3. p = Ok(AddColumn(a, c.at, c.arg), c1)
    BY <1>5, <2>2 DEF Do
  <2>4. Returns(a, c1, AddColumn(a, c.at, c.arg))
    BY <1>1, <1>5, <2>1, AddColumnReturns
  <2> HIDE DEF p, c1
  <2>5. p.ok /\ p.doc = AddColumn(a, c.at, c.arg) /\ p.cmd = c1
    BY <2>3, OkParts
  <2> QED BY <2>4, <2>5 DEF p
<1>6. CASE c.op = "removeRow"
  <2>1. c.on \in ToSet(a.rows)
    BY <1>6 DEF Wanted
  <2>2. p = RemoveRow(a, c)
    BY <1>6 DEF Do
  <2>3. PositionOf(a.rows, c.on) # 0
    BY <2>1, LaidOutFacts, MemberFound
  <2>4. RemoveRow(a, c).ok
    BY <2>3 DEF RemoveRow, Ok
  <2>5. Returns(a, RemoveRow(a, c).cmd, RemoveRow(a, c).doc)
    BY <1>1, <1>6, <2>1, RemoveRowReturns
  <2> QED BY <2>2, <2>4, <2>5
<1>7. CASE c.op = "removeColumn"
  <2>1. c.on \in ToSet(a.columns)
    BY <1>7 DEF Wanted
  <2>2. p = RemoveColumn(a, c)
    BY <1>7 DEF Do
  <2>3. PositionOf(a.columns, c.on) # 0
    BY <2>1, LaidOutFacts, MemberFound
  <2>4. RemoveColumn(a, c).ok
    BY <2>3 DEF RemoveColumn, Ok
  <2>5. Returns(a, RemoveColumn(a, c).cmd, RemoveColumn(a, c).doc)
    BY <1>1, <1>7, <2>1, RemoveColumnReturns
  <2> QED BY <2>2, <2>4, <2>5
<1>8. CASE c.op \in {"up", "down"}
  <2> DEFINE down == c.op = "down"
             b == ShiftRow(a, c.on, down)
  <2>1. p = Ok(b, c)
    BY <1>8 DEF Do
  <2>2. down \in BOOLEAN /\ c.on \in ToSet(a.rows) /\ (IF down THEN a.rows[Len(a.rows)] # c.on ELSE a.rows[1] # c.on)
    BY <1>8 DEF Wanted
  <2>3. UndoOp(b, c) = Ok(ShiftRow(b, c.on, ~down), c)
    <3>1. (c.op = "up") = ~down
      BY <1>8
    <3> HIDE DEF b, down
    <3> QED BY <1>8, <3>1 DEF UndoOp
  <2> HIDE DEF down, p
  <2>4. Alike(ShiftRow(b, c.on, ~down), a)
    BY <2>2, RowMoveReturns
  <2> HIDE DEF b
  <2>5. Holds(c, b)
    BY <1>8 DEF Holds
  <2>6. Returns(a, c, b)
    BY <1>8, <2>3, <2>4, <2>5, ReturnsOk
  <2>7. p.ok /\ p.doc = b /\ p.cmd = c
    BY <2>1, OkParts
  <2> QED BY <2>6, <2>7 DEF p
<1>9. CASE c.op \in {"left", "right"}
  <2> DEFINE right == c.op = "right"
             b == ShiftColumn(a, c.on, right)
  <2>1. p = Ok(b, c)
    BY <1>9 DEF Do
  <2>2. right \in BOOLEAN /\ c.on \in ToSet(a.columns) /\ (IF right THEN a.columns[Len(a.columns)] # c.on ELSE a.columns[1] # c.on)
    BY <1>9 DEF Wanted
  <2>3. UndoOp(b, c) = Ok(ShiftColumn(b, c.on, ~right), c)
    <3>1. (c.op = "left") = ~right
      BY <1>9
    <3> HIDE DEF b, right
    <3> QED BY <1>9, <3>1 DEF UndoOp
  <2> HIDE DEF right, p
  <2>4. Alike(ShiftColumn(b, c.on, ~right), a)
    BY <2>2, ColumnMoveReturns
  <2> HIDE DEF b
  <2>5. Holds(c, b)
    BY <1>9 DEF Holds
  <2>6. Returns(a, c, b)
    BY <1>9, <2>3, <2>4, <2>5, ReturnsOk
  <2>7. p.ok /\ p.doc = b /\ p.cmd = c
    BY <2>1, OkParts
  <2> QED BY <2>6, <2>7 DEF p
<1>10. CASE c.op = "rename"
  <2> DEFINE b == [a EXCEPT !.name[c.on] = c.arg]
             c1 == [c EXCEPT !.was = a.name[c.on]]
  <2>1. c.was = None
    BY <1>10 DEF Wanted
  <2>2. p = Ok(b, c1)
    BY <1>10, <2>1 DEF Do
  <2>3. Returns(a, c1, b)
    BY <1>1, <1>10, RenameReturns
  <2> HIDE DEF p, b, c1
  <2>4. p.ok /\ p.doc = b /\ p.cmd = c1
    BY <2>2, OkParts
  <2> QED BY <2>3, <2>4 DEF p
<1>11. CASE c.op = "type"
  <2>1. c.on \in ToSet(a.columns) /\ c.arg \in Types
    BY <1>11 DEF Wanted, Known
  <2>2. p = Retype(a, c)
    BY <1>11 DEF Do
  <2>3. Returns(a, Retype(a, c).cmd, Retype(a, c).doc)
    BY <1>1, <1>11, <2>1, RetypeReturns
  <2>4. Retype(a, c).ok
    BY RetypeIs, OkParts
  <2> QED BY <2>2, <2>3, <2>4
<1> QED BY <1>1, <1>2, <1>3, <1>4, <1>5, <1>6, <1>7, <1>8, <1>9, <1>10, <1>11 DEF OpNames

-----------------------------------------------------------------------------
(***************************************************************************)
(* A command that was done does the same again, and remembers the same.    *)
(***************************************************************************)
Again(a, c) ==
  LET c1 == Do(a, c).cmd
  IN /\ Do(a, c1).ok /\ Do(a, c1).doc = Do(a, c).doc /\ Similar(Do(a, c1).cmd, c1)
     /\ c1.op = c.op /\ Refers(c1, a) /\ IsCommand(c1)

LEMMA AgainOk ==
  ASSUME NEW a, NEW c, NEW b, NEW c1, NEW c2, Do(a, c) = Ok(b, c1), Do(a, c1) = Ok(b, c2),
         Similar(c2, c1), c1.op = c.op, Refers(c1, a)
  PROVE  Again(a, c)
<1>1. Do(a, c).cmd = c1 /\ Do(a, c).doc = b
  BY OkParts
<1>2. Do(a, c1).ok /\ Do(a, c1).doc = b /\ Do(a, c1).cmd = c2
  BY OkParts
<1>3. IsCommand(c1)
  BY DEF Similar
<1> QED BY <1>1, <1>2, <1>3 DEF Again

LEMMA SameCommand ==
  ASSUME NEW c, NEW e, IsCommand(c), IsCommand(e), c.op = e.op, c.on = e.on, c.at = e.at, c.arg = e.arg,
         c.value = e.value, c.old = e.old, c.cells = e.cells, c.was = e.was
  PROVE  Similar(c, e)
BY DEF Similar, SameState

LEMMA SameReference ==
  ASSUME NEW c, NEW e, NEW a, Refers(e, a), c.op = e.op, c.on = e.on, c.at = e.at, c.arg = e.arg
  PROVE  Refers(c, a)
BY DEF Refers

LEMMA SetAgain ==
  ASSUME NEW a, NEW c, IsCommand(c), Refers(c, a), NEW xs,
         Do(a, c) = SetCells(a, c, xs),
         \A c1 : c1.op = c.op /\ c1.on = c.on /\ c1.at = c.at => Do(a, c1) = SetCells(a, c1, xs)
  PROVE  Again(a, c)
<1> DEFINE b == Restored(a, xs, SetStates(a, xs, c.value))
           old == StatesAt(a, xs)
           c1 == Remembering(c, old, xs)
           c2 == Remembering(c1, old, xs)
<1>1. SetCells(a, c, xs) = Ok(b, c1)
  BY ChangingIs DEF SetCells, SetStates
<1>2. /\ IsCommand(c1) /\ c1.op = c.op /\ c1.on = c.on /\ c1.at = c.at /\ c1.arg = c.arg
      /\ c1.value = c.value /\ c1.old = old /\ c1.cells = xs /\ c1.was = c.was
  BY RememberingParts
<1>3. SetCells(a, c1, xs) = Ok(b, c2)
  <2> HIDE DEF c1
  <2>1. SetCells(a, c1, xs) = Ok(Restored(a, xs, SetStates(a, xs, c1.value)), c2)
    BY ChangingIs DEF SetCells, SetStates
  <2> QED BY <1>2, <2>1
<1> HIDE DEF b, old, c1
<1>4. /\ IsCommand(c2) /\ c2.op = c1.op /\ c2.on = c1.on /\ c2.at = c1.at /\ c2.arg = c1.arg
      /\ c2.value = c1.value /\ c2.old = old /\ c2.cells = xs /\ c2.was = c1.was
  BY <1>2, RememberingParts
<1> HIDE DEF c2
<1>5. Similar(c2, c1)
  BY <1>2, <1>4, SameCommand
<1>6. Do(a, c) = Ok(b, c1) /\ Do(a, c1) = Ok(b, c2)
  BY <1>1, <1>2, <1>3
<1>7. Refers(c1, a)
  BY <1>2, SameReference
<1> QED BY <1>2, <1>5, <1>6, <1>7, AgainOk

LEMMA AtParts ==
  ASSUME NEW c, IsCommand(c), NEW x, NEW c1, c1 = [c EXCEPT !.at = x]
  PROVE  /\ IsCommand(c1) /\ c1.op = c.op /\ c1.on = c.on /\ c1.at = x /\ c1.arg = c.arg
         /\ c1.value = c.value /\ c1.old = c.old /\ c1.cells = c.cells /\ c1.was = c.was
<1>1. c1 = CommandOf(c.op, c.on, x, c.arg, c.value, c.old, c.cells, c.was, c.raises)
  BY OneNewPart
<1> QED BY <1>1, CommandParts

LEMMA OnParts ==
  ASSUME NEW c, IsCommand(c), NEW x, NEW c1, c1 = [c EXCEPT !.on = x]
  PROVE  /\ IsCommand(c1) /\ c1.op = c.op /\ c1.on = x /\ c1.at = c.at /\ c1.arg = c.arg
         /\ c1.value = c.value /\ c1.old = c.old /\ c1.cells = c.cells /\ c1.was = c.was
<1>1. c1 = CommandOf(c.op, x, c.at, c.arg, c.value, c.old, c.cells, c.was, c.raises)
  BY OneNewPart
<1> QED BY <1>1, CommandParts

LEMMA WasParts ==
  ASSUME NEW c, IsCommand(c), NEW x, NEW c1, c1 = [c EXCEPT !.was = x]
  PROVE  /\ IsCommand(c1) /\ c1.op = c.op /\ c1.on = c.on /\ c1.at = c.at /\ c1.arg = c.arg
         /\ c1.value = c.value /\ c1.old = c.old /\ c1.cells = c.cells /\ c1.was = x
<1>1. c1 = CommandOf(c.op, c.on, c.at, c.arg, c.value, c.old, c.cells, x, c.raises)
  BY OneNewPart
<1> QED BY <1>1, CommandParts

LEMMA RetypeAgain ==
  ASSUME NEW a, NEW c, IsCommand(c), Refers(c, a), c.op = "type"
  PROVE  Again(a, c)
<1> DEFINE xs == RetypedCells(a, c)
           a2 == [a EXCEPT !.type[c.on] = c.arg]
           b == Restored(a2, xs, RetypedStatesAt(a, xs, c.arg))
           old == StatesAt(a2, xs)
           raised == Fallen(a, c, xs)
           c0 == Remembering(c, old, xs)
           c1 == Cascading(c0, a.type[c.on], raised)
           c3 == Remembering(c1, old, xs)
           c2 == Cascading(c3, a.type[c.on], Fallen(a, c1, xs))
<1>1. Retype(a, c) = Ok(b, c1)
  BY RetypeIs
<1>2. /\ IsCommand(c0) /\ c0.op = c.op /\ c0.on = c.on /\ c0.at = c.at /\ c0.arg = c.arg
      /\ c0.value = c.value /\ c0.old = old /\ c0.cells = xs
  BY RememberingParts
<1> HIDE DEF c0, old, raised, b
<1>3. /\ IsCommand(c1) /\ c1.op = c.op /\ c1.on = c.on /\ c1.at = c.at /\ c1.arg = c.arg
      /\ c1.value = c.value /\ c1.old = old /\ c1.cells = xs /\ c1.was = a.type[c.on]
  BY <1>2, CascadingParts
<1> HIDE DEF c1
<1>4. Retype(a, c1) = Ok(b, c2)
  <2>1. RetypedCells(a, c1) = xs
    BY <1>3 DEF RetypedCells
  <2> HIDE DEF xs
  <2>2. Retype(a, c1)
        = Ok(Restored([a EXCEPT !.type[c1.on] = c1.arg], xs, RetypedStatesAt(a, xs, c1.arg)),
             Cascading(Remembering(c1, StatesAt([a EXCEPT !.type[c1.on] = c1.arg], xs), xs),
                       a.type[c1.on], Fallen(a, c1, xs)))
    BY <2>1, RetypeIs
  <2> QED BY <1>3, <2>2 DEF b, old
<1>5. /\ IsCommand(c3) /\ c3.op = c.op /\ c3.on = c.on /\ c3.at = c.at /\ c3.arg = c.arg
      /\ c3.value = c.value /\ c3.old = old /\ c3.cells = xs
  BY <1>3, RememberingParts
<1> HIDE DEF c3, xs
<1>6. /\ IsCommand(c2) /\ c2.op = c.op /\ c2.on = c.on /\ c2.at = c.at /\ c2.arg = c.arg
      /\ c2.value = c.value /\ c2.old = old /\ c2.cells = xs /\ c2.was = a.type[c.on]
  BY <1>5, CascadingParts
<1> HIDE DEF c2
<1>7. Similar(c2, c1)
  BY <1>3, <1>6, SameCommand
<1>8. Do(a, c) = Retype(a, c) /\ Do(a, c1) = Retype(a, c1)
  BY <1>3 DEF Do
<1>9. Refers(c1, a)
  BY <1>3, SameReference
<1> QED BY <1>1, <1>3, <1>4, <1>7, <1>8, <1>9, AgainOk

LEMMA DoAgain ==
  ASSUME NEW a, LaidOut(a, {}, {}), NEW c, Wanted(c, a), ~Creates(c)
  PROVE  Again(a, c)
<1>1. IsTable(a) /\ IsCommand(c) /\ c.op \in OpNames /\ Refers(c, a)
  BY DEF Wanted, Known, LaidOut
<1>2. CASE c.op = "edit"
  <2> DEFINE xs == <<c.on>>
  <2>1. \A c1 : c1.op = c.op /\ c1.on = c.on /\ c1.at = c.at => Do(a, c1) = SetCells(a, c1, xs)
    BY <1>2 DEF Do
  <2> HIDE DEF xs
  <2>2. Do(a, c) = SetCells(a, c, xs)
    BY <2>1
  <2> QED BY <1>1, <2>1, <2>2, SetAgain
<1>3. CASE c.op = "import"
  <2> DEFINE xs == ColumnCells(a, c.at)
  <2>1. ASSUME NEW c1, c1.op = c.op /\ c1.on = c.on /\ c1.at = c.at PROVE Do(a, c1) = SetCells(a, c1, xs)
    <3>1. c1.at \in DOMAIN a.columns /\ c1.on = Len(a.rows) /\ c1.op = "import"
      BY <1>1, <1>3, <2>1 DEF Refers
    <3>2. Do(a, c1) = SetCells(a, c1, ColumnCells(a, c1.at))
      BY <1>1, <3>1, ImportIs, AlikeItself
    <3> QED BY <2>1, <3>2
  <2> HIDE DEF xs
  <2>2. Do(a, c) = SetCells(a, c, xs)
    BY <2>1
  <2> QED BY <1>1, <2>1, <2>2, SetAgain
<1>4. CASE c.op = "removeRow"
  <2> DEFINE i == PositionOf(a.rows, c.on)
             b == RowOut(a, i)
             c1 == [c EXCEPT !.at = i]
             c2 == [c1 EXCEPT !.at = i]
  <2>1. i # 0
    BY <1>4, LaidOutFacts, MemberFound DEF Wanted
  <2>2. Do(a, c) = Ok(b, c1)
    BY <1>4, <2>1 DEF Do, RemoveRow, RowOut
  <2>3. /\ IsCommand(c1) /\ c1.op = c.op /\ c1.on = c.on /\ c1.at = i /\ c1.arg = c.arg
        /\ c1.value = c.value /\ c1.old = c.old /\ c1.cells = c.cells /\ c1.was = c.was
    BY <1>1, AtParts
  <2> HIDE DEF c1, b
  <2>4. Do(a, c1) = Ok(b, c2)
    BY <1>4, <2>1, <2>3 DEF Do, RemoveRow, RowOut, b
  <2>5. /\ IsCommand(c2) /\ c2.op = c1.op /\ c2.on = c1.on /\ c2.at = i /\ c2.arg = c1.arg
        /\ c2.value = c1.value /\ c2.old = c1.old /\ c2.cells = c1.cells /\ c2.was = c1.was
    BY <2>3, AtParts
  <2> HIDE DEF c2, i
  <2>6. Similar(c2, c1)
    BY <2>3, <2>5, SameCommand
  <2>7. Refers(c1, a)
    BY <1>4, <2>3 DEF Refers
  <2> QED BY <2>2, <2>3, <2>4, <2>6, <2>7, AgainOk
<1>5. CASE c.op = "removeColumn"
  <2> DEFINE i == PositionOf(a.columns, c.on)
             xs == ColumnCells(a, i)
             b == ColumnOut(a, i)
             c1 == TakenFrom(c, i, xs)
             c2 == TakenFrom(c1, i, xs)
  <2>1. i # 0
    BY <1>5, LaidOutFacts, MemberFound DEF Wanted
  <2>2. Do(a, c) = Ok(b, c1)
    BY <1>5, <2>1 DEF Do, RemoveColumn, ColumnOut, TakenFrom
  <2>3. /\ IsCommand(c1) /\ c1.op = c.op /\ c1.on = c.on /\ c1.at = i /\ c1.arg = c.arg
        /\ c1.value = c.value /\ c1.old = c.old /\ c1.cells = xs /\ c1.was = c.was
    BY <1>1, TakenParts
  <2> HIDE DEF c1, b
  <2>4. Do(a, c1) = Ok(b, c2)
    BY <1>5, <2>1, <2>3 DEF Do, RemoveColumn, ColumnOut, b, TakenFrom
  <2>5. /\ IsCommand(c2) /\ c2.op = c1.op /\ c2.on = c1.on /\ c2.at = i /\ c2.arg = c1.arg
        /\ c2.value = c1.value /\ c2.old = c1.old /\ c2.cells = xs /\ c2.was = c1.was
    BY <2>3, TakenParts
  <2> HIDE DEF c2, i, xs
  <2>6. Similar(c2, c1)
    BY <2>3, <2>5, SameCommand
  <2>7. Refers(c1, a)
    BY <1>5, <2>3 DEF Refers
  <2> QED BY <2>2, <2>3, <2>4, <2>6, <2>7, AgainOk
<1>6. CASE c.op \in {"up", "down", "left", "right"}
  <2>1. Do(a, c).ok /\ Do(a, c).cmd = c
    BY <1>6 DEF Do, Ok
  <2>2. Similar(c, c)
    BY <1>1, SimilarItself
  <2> QED BY <1>1, <2>1, <2>2 DEF Again
<1>7. CASE c.op = "rename"
  <2> DEFINE n == a.name[c.on]
             b == [a EXCEPT !.name[c.on] = c.arg]
             c1 == [c EXCEPT !.was = n]
             c3 == [c1 EXCEPT !.was = n]
             c2 == IF c1.was = None THEN c3 ELSE c1
  <2>1. c.was = None
    BY <1>7 DEF Wanted
  <2>2. Do(a, c) = Ok(b, c1)
    BY <1>7, <2>1 DEF Do
  <2>3. /\ IsCommand(c1) /\ c1.op = c.op /\ c1.on = c.on /\ c1.at = c.at /\ c1.arg = c.arg
        /\ c1.value = c.value /\ c1.old = c.old /\ c1.cells = c.cells /\ c1.was = n
    BY <1>1, WasParts
  <2> HIDE DEF c1, b
  <2>4. Do(a, c1) = Ok(b, c2)
    BY <1>7, <2>3 DEF Do, b
  <2>5. /\ IsCommand(c3) /\ c3.op = c1.op /\ c3.on = c1.on /\ c3.at = c1.at /\ c3.arg = c1.arg
        /\ c3.value = c1.value /\ c3.old = c1.old /\ c3.cells = c1.cells /\ c3.was = n
    BY <2>3, WasParts
  <2> HIDE DEF c3
  <2>6. Similar(c2, c1)
    BY <2>3, <2>5, SameCommand, SimilarItself
  <2>7. Refers(c1, a)
    BY <1>1, <2>3, SameReference
  <2> HIDE DEF c2, n
  <2> QED BY <2>2, <2>3, <2>4, <2>6, <2>7, AgainOk
<1>8. CASE c.op = "type"
  BY <1>1, <1>8, RetypeAgain
<1> QED BY <1>1, <1>2, <1>3, <1>4, <1>5, <1>6, <1>7, <1>8 DEF OpNames, Creates

-----------------------------------------------------------------------------
(***************************************************************************)
(* A cell that does not wait for review holds a value of its column's kind.*)
(***************************************************************************)
KindFits(s, t) == s.review \/ s.value.kind = KindOf[t]
Right(a) == \A r \in ToSet(a.rows) : \A k \in DOMAIN a.columns :
              KindFits(a.state[a.cells[r][k]], a.type[a.columns[k]])
Neat(a) == Once(a.columns) /\ Proper(a) /\ Right(a)
Tidy(a) == LaidOut(a, {}, {}) /\ Neat(a)

\* A value the user enters has been coerced to its column's type.
Suits(c, a) ==
  /\ c.op = "edit" =>
       \E r \in ToSet(a.rows) : \E k \in DOMAIN a.columns :
         c.on = a.cells[r][k] /\ c.value.kind = KindOf[a.type[a.columns[k]]]
  /\ c.op = "import" => c.value.kind = KindOf[a.type[a.columns[c.at]]]

LEMMA NeatParts ==
  ASSUME NEW k, NEW y, NEW m, NEW w, NEW l, NEW s, Once(k), \E S : m \in Seq(S), DOMAIN m = DOMAIN y,
         \A x \in DOMAIN s : Honest(s[x]),
         \A r \in ToSet(w) : \A j \in DOMAIN k : KindFits(s[l[r][j]], y[k[j]])
  PROVE  Neat(Table(k, y, m, w, l, s))
BY Parts DEF Neat, Proper, Right

LEMMA NeatFacts ==
  ASSUME NEW a, Neat(a)
  PROVE  /\ Once(a.columns) /\ (\E S : a.name \in Seq(S)) /\ DOMAIN a.name = DOMAIN a.type
         /\ \A x \in DOMAIN a.state : Honest(a.state[x])
         /\ \A r \in ToSet(a.rows) : \A k \in DOMAIN a.columns :
              KindFits(a.state[a.cells[r][k]], a.type[a.columns[k]])
BY DEF Neat, Proper, Right

\* No cell has two places.
LEMMA CellPlace ==
  ASSUME NEW a, LaidOut(a, {}, {}), NEW q \in ToSet(a.rows), NEW r \in ToSet(a.rows),
         NEW k \in DOMAIN a.columns, NEW l \in DOMAIN a.columns, a.cells[q][k] = a.cells[r][l]
  PROVE  q = r /\ k = l
<1>1. q \in AllRows(a, {}) /\ r \in AllRows(a, {})
  BY DEF AllRows
<1>2. DOMAIN a.cells[q] = DOMAIN a.columns /\ DOMAIN a.cells[r] = DOMAIN a.columns
  BY LaidOutFacts
<1>3. a.cells[q][k] \in CellsOf(a, q) /\ a.cells[q][k] \in CellsOf(a, r)
  BY <1>2 DEF CellsOf, ToSet
<1>4. q = r
  BY <1>1, <1>3 DEF LaidOut
<1>5. Once(a.cells[q])
  BY <1>1 DEF LaidOut
<1> QED BY <1>2, <1>4, <1>5 DEF Once

LEMMA BackAt ==
  ASSUME NEW s, NEW S, NEW xs \in Seq(S), NEW u, NEW x \in DOMAIN s
  PROVE  /\ DOMAIN StatesBack(s, xs, u) = DOMAIN s
         /\ x \in ToSet(xs) => \E i \in DOMAIN xs : xs[i] = x /\ StatesBack(s, xs, u)[x] = u[i]
         /\ x \notin ToSet(xs) => StatesBack(s, xs, u)[x] = s[x]
BY MemberFound DEF StatesBack

LEMMA HonestSet ==
  ASSUME NEW s, Honest(s), NEW v
  PROVE  Honest(Set(s, v)) /\ Set(s, v).value = v
BY DEF Honest, Set

LEMMA HonestRetyped ==
  ASSUME NEW s, Honest(s), NEW t
  PROVE  Honest(Retyped(s, t)) /\ KindFits(Retyped(s, t), t)
<1> DEFINE x == Reads[t][s.value.text]
           v == Value(t, x)
<1>1. Retyped(s, t) = IF x = Fails THEN [s EXCEPT !.review = TRUE] ELSE Set(s, v)
  BY DEF Retyped
<1>2. [s EXCEPT !.review = TRUE] = StateOf(s.value, s.slice, TRUE)
  BY Flagging
<1>3. Honest(StateOf(s.value, s.slice, TRUE)) /\ KindFits(StateOf(s.value, s.slice, TRUE), t)
  BY DEF Honest, StateOf, KindFits
<1>4. Honest(Set(s, v)) /\ Set(s, v).value = v
  BY HonestSet
<1>5. KindFits(Set(s, v), t)
  <2>1. v.kind = KindOf[t]
    BY DEF Value
  <2> HIDE DEF v
  <2> QED BY <1>4, <2>1 DEF KindFits
<1> HIDE DEF x, v
<1> QED BY <1>1, <1>2, <1>3, <1>4, <1>5

LEMMA HonestFresh ==
  ASSUME NEW t
  PROVE  Honest(Fresh(t)) /\ KindFits(Fresh(t), t)
BY DEF Honest, Fresh, KindFits, Value

\* An edit or an import.
LEMMA SetNeat ==
  ASSUME NEW a, LaidOut(a, {}, {}), Neat(a), NEW xs \in Seq(DOMAIN a.state), NEW v,
         \A r \in ToSet(a.rows) : \A k \in DOMAIN a.columns :
           a.cells[r][k] \in ToSet(xs) => v.kind = KindOf[a.type[a.columns[k]]]
  PROVE  Neat(Restored(a, xs, SetStates(a, xs, v)))
<1> DEFINE s == StatesBack(a.state, xs, SetStates(a, xs, v))
<1>1. Restored(a, xs, SetStates(a, xs, v)) = Table(a.columns, a.type, a.name, a.rows, a.cells, s)
  BY RestoredIs, LaidOutFacts
<1>2. ASSUME NEW x \in DOMAIN a.state
      PROVE  /\ x \in ToSet(xs) => s[x] = Set(a.state[x], v)
             /\ x \notin ToSet(xs) => s[x] = a.state[x]
  <2>1. \A i \in DOMAIN xs : xs[i] = x => SetStates(a, xs, v)[i] = Set(a.state[x], v)
    BY DEF SetStates
  <2> QED BY <2>1, BackAt
<1>3. DOMAIN s = DOMAIN a.state
  BY DEF StatesBack
<1> HIDE DEF s
<1>4. \A x \in DOMAIN s : Honest(s[x])
  BY <1>2, <1>3, NeatFacts, HonestSet
<1>5. ASSUME NEW r \in ToSet(a.rows), NEW k \in DOMAIN a.columns
      PROVE  KindFits(s[a.cells[r][k]], a.type[a.columns[k]])
  <2> DEFINE x == a.cells[r][k]
  <2>1. x \in DOMAIN a.state
    BY LaidOutFacts
  <2>2. Honest(a.state[x]) /\ KindFits(a.state[x], a.type[a.columns[k]])
    BY <2>1, NeatFacts
  <2>3. x \in ToSet(xs) => v.kind = KindOf[a.type[a.columns[k]]]
    OBVIOUS
  <2> HIDE DEF x
  <2>4. CASE x \in ToSet(xs)
    <3>1. s[x].value = v
      BY <1>2, <2>1, <2>2, <2>4, HonestSet
    <3> QED BY <2>3, <2>4, <3>1 DEF KindFits, x
  <2>5. CASE x \notin ToSet(xs)
    BY <1>2, <2>1, <2>2, <2>5 DEF x
  <2> QED BY <2>4, <2>5
<1>6. Neat(Table(a.columns, a.type, a.name, a.rows, a.cells, s))
  BY <1>4, <1>5, NeatFacts, NeatParts
<1> QED BY <1>1, <1>6

\* A change of type.
LEMMA RetypeNeat ==
  ASSUME NEW a, LaidOut(a, {}, {}), Neat(a), NEW c, c.on \in ToSet(a.columns), c.arg \in Types
  PROVE  Neat(Retype(a, c).doc)
<1> DEFINE i == PositionOf(a.columns, c.on)
           xs == RetypedCells(a, c)
           a2 == [a EXCEPT !.type[c.on] = c.arg]
           u == RetypedStatesAt(a, xs, c.arg)
           y == [a.type EXCEPT ![c.on] = c.arg]
           s == StatesBack(a.state, xs, u)
<1>1. IsTable(a) /\ a.columns \in Seq(DOMAIN a.type) /\ c.on \in DOMAIN a.type
  BY LaidOutFacts
<1>2. i # 0 /\ i \in DOMAIN a.columns /\ a.columns[i] = c.on
  BY <1>1, MemberFound
<1>3. xs = ColumnCells(a, i) /\ xs \in Seq(DOMAIN a.state) /\ DOMAIN xs = DOMAIN a.rows
      /\ \A r \in DOMAIN a.rows : xs[r] = a.cells[a.rows[r]][i]
  <2>1. xs = ColumnCells(a, i)
    BY <1>2 DEF RetypedCells
  <2> HIDE DEF xs, i
  <2> QED BY <1>2, <2>1, ColumnCellsFacts
<1>4. Retype(a, c).doc = Restored(a2, xs, u)
  BY RetypeIs, OkParts
<1>5. a2 = Table(a.columns, y, a.name, a.rows, a.cells, a.state)
  BY <1>1, RetypedIs
<1>6. IsTable(a2)
  <2>1. InPlace(a, a2)
    BY <1>1, RetypedInPlace
  <2> QED BY <2>1 DEF InPlace
<1>7. DOMAIN y = DOMAIN a.type /\ \A x \in DOMAIN a.type : y[x] = IF x = c.on THEN c.arg ELSE a.type[x]
  OBVIOUS
<1> HIDE DEF a2, y
<1>8. Restored(a2, xs, u) = Table(a.columns, y, a.name, a.rows, a.cells, s)
  <2>1. a2.columns = a.columns /\ a2.type = y /\ a2.name = a.name /\ a2.rows = a.rows /\ a2.cells = a.cells /\ a2.state = a.state
    BY <1>5, Parts
  <2> HIDE DEF u, xs
  <2> QED BY <1>6, <2>1, RestoredIs
<1>9. ASSUME NEW x \in DOMAIN a.state
      PROVE  /\ x \in ToSet(xs) => s[x] = Retyped(a.state[x], c.arg)
             /\ x \notin ToSet(xs) => s[x] = a.state[x]
  <2> HIDE DEF xs
  <2>1. \A j \in DOMAIN xs : xs[j] = x => u[j] = Retyped(a.state[x], c.arg)
    BY DEF RetypedStatesAt
  <2> HIDE DEF u
  <2> QED BY <1>3, <2>1, BackAt
<1>10. DOMAIN s = DOMAIN a.state
  BY DEF StatesBack
<1> HIDE DEF s, xs, i, u
<1>11. \A x \in DOMAIN s : Honest(s[x])
  BY <1>9, <1>10, NeatFacts, HonestRetyped
<1>12. ASSUME NEW r \in ToSet(a.rows), NEW k \in DOMAIN a.columns
       PROVE  KindFits(s[a.cells[r][k]], y[a.columns[k]])
  <2> DEFINE x == a.cells[r][k]
  <2>1. x \in DOMAIN a.state /\ a.columns[k] \in DOMAIN a.type
    BY LaidOutFacts
  <2>2. Honest(a.state[x]) /\ KindFits(a.state[x], a.type[a.columns[k]])
    BY <2>1, NeatFacts
  <2>3. CASE k = i
    <3>1. y[a.columns[k]] = c.arg
      BY <1>2, <1>7, <2>1, <2>3
    <3>2. PICK q \in DOMAIN a.rows : a.rows[q] = r
      BY DEF ToSet
    <3>3. x \in ToSet(xs)
      BY <1>3, <2>3, <3>2 DEF ToSet
    <3> HIDE DEF x
    <3>4. s[x] = Retyped(a.state[x], c.arg)
      BY <1>9, <2>1, <3>3
    <3>5. KindFits(s[x], c.arg)
      BY <2>2, <3>4, HonestRetyped
    <3> QED BY <3>1, <3>5 DEF x
  <2>4. CASE k # i
    <3>1. a.columns[k] # c.on
      BY <1>2, <2>4, NeatFacts DEF Once
    <3>2. y[a.columns[k]] = a.type[a.columns[k]]
      BY <1>7, <2>1, <3>1
    <3>3. x \notin ToSet(xs)
      <4> SUFFICES ASSUME x \in ToSet(xs) PROVE FALSE
        OBVIOUS
      <4>1. PICK q \in DOMAIN a.rows : xs[q] = x
        BY <1>3 DEF ToSet
      <4>2. a.cells[a.rows[q]][i] = a.cells[r][k] /\ a.rows[q] \in ToSet(a.rows)
        BY <1>3, <4>1, LaidOutFacts
      <4>3. k = i
        BY <1>2, <4>2, CellPlace
      <4> QED BY <2>4, <4>3
    <3> HIDE DEF x
    <3>4. s[x] = a.state[x]
      BY <1>9, <2>1, <3>3
    <3> QED BY <2>2, <3>2, <3>4 DEF x
  <2> QED BY <2>3, <2>4
<1>13. Neat(Table(a.columns, y, a.name, a.rows, a.cells, s))
  BY <1>7, <1>11, <1>12, NeatFacts, NeatParts
<1> QED BY <1>4, <1>8, <1>13

-----------------------------------------------------------------------------
(***************************************************************************)
(* Two sequences of one length that change at the same places.             *)
(***************************************************************************)
SamePlacesBut(v, w, s, t, d, e) ==
  \A k \in DOMAIN v : \/ v[k] = d /\ w[k] = e
                      \/ \E l \in DOMAIN s : v[k] = s[l] /\ w[k] = t[l]
SamePlaces(v, w, s, t) == \A k \in DOMAIN v : \E l \in DOMAIN s : v[k] = s[l] /\ w[k] = t[l]

LEMMA RemovePair ==
  ASSUME NEW S, NEW s \in Seq(S), NEW T, NEW t \in Seq(T), Len(s) = Len(t), NEW i \in 1..Len(s)
  PROVE  /\ DOMAIN RemoveAt(s, i) = 1..(Len(s) - 1)
         /\ SamePlaces(RemoveAt(s, i), RemoveAt(t, i), s, t)
<1>1. Len(s) \in Nat /\ DOMAIN s = 1..Len(s)
  BY LenProperties
<1>2. /\ RemoveAt(s, i) \in Seq(S) /\ Len(RemoveAt(s, i)) = Len(s) - 1
      /\ \A k \in 1..Len(s) - 1 : RemoveAt(s, i)[k] = IF k < i THEN s[k] ELSE s[k + 1]
  BY RemoveOne
<1>3. \A k \in 1..Len(s) - 1 : RemoveAt(t, i)[k] = IF k < i THEN t[k] ELSE t[k + 1]
  BY RemoveOne
<1>4. DOMAIN RemoveAt(s, i) = 1..(Len(s) - 1)
  BY <1>2, LenProperties
<1>5. ASSUME NEW k \in 1..(Len(s) - 1)
      PROVE  \E l \in DOMAIN s : RemoveAt(s, i)[k] = s[l] /\ RemoveAt(t, i)[k] = t[l]
  <2>1. k \in DOMAIN s /\ k + 1 \in DOMAIN s
    BY <1>1
  <2> QED BY <1>2, <1>3, <2>1
<1> QED BY <1>4, <1>5 DEF SamePlaces

LEMMA InsertPair ==
  ASSUME NEW S, NEW s \in Seq(S), NEW T, NEW t \in Seq(T), Len(s) = Len(t), NEW i \in 1..(Len(s) + 1),
         NEW d, NEW e
  PROVE  /\ DOMAIN InsertAt(s, i, d) = 1..(Len(s) + 1)
         /\ SamePlacesBut(InsertAt(s, i, d), InsertAt(t, i, e), s, t, d, e)
<1> DEFINE S2 == S \cup {d}
           T2 == T \cup {e}
           v == InsertAt(s, i, d)
           w == InsertAt(t, i, e)
<1>1. Len(s) \in Nat /\ DOMAIN s = 1..Len(s)
  BY LenProperties
<1>2. s \in Seq(S2) /\ t \in Seq(T2) /\ d \in S2 /\ e \in T2
  BY SeqMonotonic
<1> HIDE DEF S2, T2
<1>3. HasOneMore(v, S2, s, i, d) /\ HasOneMore(w, T2, t, i, e)
  BY <1>2, InsertOne
<1> HIDE DEF v, w
<1>4. DOMAIN v = 1..(Len(s) + 1)
  <2>1. v \in Seq(S2) /\ Len(v) = Len(s) + 1
    BY <1>3 DEF HasOneMore
  <2> QED BY <2>1, LenProperties
<1>5. ASSUME NEW k \in 1..(Len(s) + 1)
      PROVE  (v[k] = d /\ w[k] = e) \/ \E l \in DOMAIN s : v[k] = s[l] /\ w[k] = t[l]
  <2>1. /\ v[k] = IF k < i THEN s[k] ELSE IF k = i THEN d ELSE s[k - 1]
        /\ w[k] = IF k < i THEN t[k] ELSE IF k = i THEN e ELSE t[k - 1]
    BY <1>3 DEF HasOneMore
  <2>2. k < i => k \in DOMAIN s
    BY <1>1
  <2>3. ~(k < i) /\ k # i => k - 1 \in DOMAIN s
    BY <1>1
  <2> QED BY <2>1, <2>2, <2>3
<1> QED BY <1>4, <1>5 DEF v, w, SamePlacesBut

LEMMA ShiftPair ==
  ASSUME NEW S, NEW s \in Seq(S), NEW T, NEW t \in Seq(T), Len(s) = Len(t), NEW i \in 1..Len(s), NEW j \in 1..Len(s)
  PROVE  /\ DOMAIN Shifted(s, i, j) = DOMAIN s
         /\ SamePlaces(Shifted(s, i, j), Shifted(t, i, j), s, t)
<1> DEFINE v == RemoveAt(s, i)
           w == RemoveAt(t, i)
<1>1. Len(s) \in Nat /\ DOMAIN s = 1..Len(s)
  BY LenProperties
<1>2. v \in Seq(S) /\ Len(v) = Len(s) - 1 /\ w \in Seq(T) /\ Len(w) = Len(s) - 1
  BY RemoveOne
<1>3. DOMAIN v = 1..(Len(s) - 1) /\ SamePlaces(v, w, s, t)
  BY RemovePair
<1> HIDE DEF v, w
<1>4. j \in 1..(Len(v) + 1) /\ Len(v) = Len(w)
  BY <1>1, <1>2
<1>5. /\ DOMAIN InsertAt(v, j, s[i]) = 1..(Len(v) + 1)
      /\ \A k \in DOMAIN InsertAt(v, j, s[i]) :
           \/ InsertAt(v, j, s[i])[k] = s[i] /\ InsertAt(w, j, t[i])[k] = t[i]
           \/ \E l \in DOMAIN v : InsertAt(v, j, s[i])[k] = v[l] /\ InsertAt(w, j, t[i])[k] = w[l]
  <2>1. SamePlacesBut(InsertAt(v, j, s[i]), InsertAt(w, j, t[i]), v, w, s[i], t[i])
    BY <1>2, <1>4, InsertPair
  <2>2. DOMAIN InsertAt(v, j, s[i]) = 1..(Len(v) + 1)
    BY <1>2, <1>4, InsertPair
  <2> QED BY <2>1, <2>2 DEF SamePlacesBut
<1>6. Shifted(s, i, j) = InsertAt(v, j, s[i]) /\ Shifted(t, i, j) = InsertAt(w, j, t[i])
  BY DEF Shifted, v, w
<1>7. 1..(Len(v) + 1) = DOMAIN s /\ i \in DOMAIN s
  BY <1>1, <1>2
<1>8. DOMAIN Shifted(s, i, j) = DOMAIN s
  BY <1>5, <1>6, <1>7
<1>9. ASSUME NEW k \in DOMAIN s
      PROVE  \E l \in DOMAIN s : Shifted(s, i, j)[k] = s[l] /\ Shifted(t, i, j)[k] = t[l]
  <2>1. k \in DOMAIN InsertAt(v, j, s[i])
    BY <1>5, <1>7
  <2>2. CASE InsertAt(v, j, s[i])[k] = s[i] /\ InsertAt(w, j, t[i])[k] = t[i]
    BY <1>6, <1>7, <2>2
  <2>3. CASE \E l \in DOMAIN v : InsertAt(v, j, s[i])[k] = v[l] /\ InsertAt(w, j, t[i])[k] = w[l]
    BY <1>3, <1>6, <2>3 DEF SamePlaces
  <2> QED BY <1>5, <2>1, <2>2, <2>3
<1> QED BY <1>8, <1>9 DEF SamePlaces

-----------------------------------------------------------------------------
\* The same cells in other places, below the same columns.
LEMMA ElsewhereNeat ==
  ASSUME NEW a, Neat(a), NEW k, NEW w, NEW l, Once(k),
         \A r \in ToSet(w) : \A j \in DOMAIN k : \E q \in ToSet(a.rows) : \E i \in DOMAIN a.columns :
           l[r][j] = a.cells[q][i] /\ k[j] = a.columns[i]
  PROVE  Neat(Table(k, a.type, a.name, w, l, a.state))
<1>1. \A r \in ToSet(w) : \A j \in DOMAIN k : KindFits(a.state[l[r][j]], a.type[k[j]])
  BY NeatFacts
<1> QED BY <1>1, NeatFacts, NeatParts

LEMMA RowOutNeat ==
  ASSUME NEW a, LaidOut(a, {}, {}), Neat(a), NEW i \in DOMAIN a.rows
  PROVE  Neat(RowOut(a, i))
<1> DEFINE w == RemoveAt(a.rows, i)
<1>1. IsTable(a) /\ a.rows \in Seq(DOMAIN a.cells) /\ i \in 1..Len(a.rows)
  BY LaidOutFacts
<1>2. ToSet(w) \subseteq ToSet(a.rows)
  BY <1>1, RemoveKeepsOnce
<1> HIDE DEF w
<1>3. Neat(Table(a.columns, a.type, a.name, w, a.cells, a.state))
  <2> DEFINE k == a.columns
             l == a.cells
  <2>1. \A r \in ToSet(w) : \A j \in DOMAIN k : \E q \in ToSet(a.rows) : \E h \in DOMAIN a.columns :
           l[r][j] = a.cells[q][h] /\ k[j] = a.columns[h]
    BY <1>2
  <2>2. Once(k)
    BY NeatFacts
  <2> HIDE DEF k, l
  <2>3. Neat(Table(k, a.type, a.name, w, l, a.state))
    BY <2>1, <2>2, ElsewhereNeat
  <2> QED BY <2>3 DEF k, l
<1> QED BY <1>1, <1>3, RowOutIs DEF w

LEMMA ColumnOutNeat ==
  ASSUME NEW a, LaidOut(a, {}, {}), Neat(a), NEW i \in DOMAIN a.columns
  PROVE  Neat(ColumnOut(a, i))
<1> DEFINE k == RemoveAt(a.columns, i)
           l == ShrunkCells(a.cells, a.rows, i)
<1>1. IsTable(a) /\ a.columns \in Seq(DOMAIN a.type) /\ i \in 1..Len(a.columns)
  BY LaidOutFacts
<1>2. Once(k)
  BY <1>1, RemoveKeepsOnce, NeatFacts
<1>3. ASSUME NEW r \in ToSet(a.rows), NEW j \in DOMAIN k
      PROVE  \E q \in ToSet(a.rows) : \E h \in DOMAIN a.columns :
               l[r][j] = a.cells[q][h] /\ k[j] = a.columns[h]
  <2>1. r \in DOMAIN a.cells /\ a.cells[r] \in Seq(DOMAIN a.state) /\ Len(a.cells[r]) = Len(a.columns)
    BY LaidOutFacts
  <2>2. l[r] = RemoveAt(a.cells[r], i)
    BY <2>1 DEF ShrunkCells
  <2>3. \E h \in DOMAIN a.columns : k[j] = a.columns[h] /\ RemoveAt(a.cells[r], i)[j] = a.cells[r][h]
    <3>1. SamePlaces(k, RemoveAt(a.cells[r], i), a.columns, a.cells[r])
      BY <1>1, <2>1, RemovePair
    <3> QED BY <3>1 DEF SamePlaces
  <2> QED BY <2>2, <2>3
<1> HIDE DEF k, l
<1>4. Neat(Table(k, a.type, a.name, a.rows, l, a.state))
  BY <1>2, <1>3, ElsewhereNeat
<1>5. ColumnOut(a, i) = Table(k, a.type, a.name, a.rows, l, a.state)
  BY <1>1, ColumnOutIs DEF k, l
<1> QED BY <1>4, <1>5

LEMMA ShiftRowNeat ==
  ASSUME NEW a, LaidOut(a, {}, {}), Neat(a), NEW r, NEW down
  PROVE  Neat(ShiftRow(a, r, down))
<1> DEFINE i == PositionOf(a.rows, r)
           j == Beside(i, down)
           w == Shifted(a.rows, i, j)
<1>1. IsTable(a) /\ a.rows \in Seq(DOMAIN a.cells) /\ DOMAIN a.rows = 1..Len(a.rows)
  BY LaidOutFacts
<1>2. i # 0 => i \in DOMAIN a.rows
  BY <1>1, FoundFacts
<1>3. ShiftRow(a, r, down) = IF i = 0 \/ j \notin DOMAIN a.rows THEN a
                             ELSE Table(a.columns, a.type, a.name, w, a.cells, a.state)
  BY <1>1, ShiftRowIs
<1> HIDE DEF i, j
<1>4. CASE i # 0 /\ j \in DOMAIN a.rows
  <2>1. i \in 1..Len(a.rows) /\ j \in 1..Len(a.rows)
    BY <1>1, <1>2, <1>4
  <2>2. ToSet(w) \subseteq ToSet(a.rows)
    BY <1>1, <2>1, ShiftKeepsOnce
  <2> HIDE DEF w
  <2> DEFINE k == a.columns
             l == a.cells
  <2>3. \A x \in ToSet(w) : \A y \in DOMAIN k : \E q \in ToSet(a.rows) : \E h \in DOMAIN a.columns :
           l[x][y] = a.cells[q][h] /\ k[y] = a.columns[h]
    BY <2>2
  <2>4. Once(k)
    BY NeatFacts
  <2> HIDE DEF k, l
  <2>5. Neat(Table(k, a.type, a.name, w, l, a.state))
    BY <2>3, <2>4, ElsewhereNeat
  <2> QED BY <1>3, <1>4, <2>5 DEF k, l
<1>5. CASE i = 0 \/ j \notin DOMAIN a.rows
  BY <1>3, <1>5
<1> QED BY <1>4, <1>5

LEMMA ShiftColumnNeat ==
  ASSUME NEW a, LaidOut(a, {}, {}), Neat(a), NEW c, NEW right
  PROVE  Neat(ShiftColumn(a, c, right))
<1> DEFINE i == PositionOf(a.columns, c)
           j == Beside(i, right)
           k == Shifted(a.columns, i, j)
           l == ShiftedCells(a.cells, a.rows, i, j)
<1>1. IsTable(a) /\ a.columns \in Seq(DOMAIN a.type) /\ DOMAIN a.columns = 1..Len(a.columns)
  BY LaidOutFacts
<1>2. i # 0 => i \in DOMAIN a.columns
  BY <1>1, FoundFacts
<1>3. ShiftColumn(a, c, right) = IF i = 0 \/ j \notin DOMAIN a.columns THEN a
                                 ELSE Table(k, a.type, a.name, a.rows, l, a.state)
  BY <1>1, ShiftColumnIs
<1> HIDE DEF i, j
<1>4. CASE i # 0 /\ j \in DOMAIN a.columns
  <2>1. i \in 1..Len(a.columns) /\ j \in 1..Len(a.columns)
    BY <1>1, <1>2, <1>4
  <2>2. Once(k)
    BY <1>1, <2>1, ShiftKeepsOnce, NeatFacts
  <2>3. DOMAIN k = DOMAIN a.columns
    BY <1>1, <2>1, ShiftBack
  <2>4. ASSUME NEW r \in ToSet(a.rows), NEW y \in DOMAIN k
        PROVE  \E q \in ToSet(a.rows) : \E h \in DOMAIN a.columns :
                 l[r][y] = a.cells[q][h] /\ k[y] = a.columns[h]
    <3>1. r \in DOMAIN a.cells /\ a.cells[r] \in Seq(DOMAIN a.state) /\ Len(a.cells[r]) = Len(a.columns)
      BY LaidOutFacts
    <3>2. l[r] = Shifted(a.cells[r], i, j)
      BY <3>1 DEF ShiftedCells
    <3>3. \E h \in DOMAIN a.columns : k[y] = a.columns[h] /\ Shifted(a.cells[r], i, j)[y] = a.cells[r][h]
      <4>1. SamePlaces(k, Shifted(a.cells[r], i, j), a.columns, a.cells[r])
        BY <1>1, <2>1, <3>1, ShiftPair
      <4> QED BY <4>1 DEF SamePlaces
    <3> QED BY <3>2, <3>3
  <2> HIDE DEF k, l
  <2>5. Neat(Table(k, a.type, a.name, a.rows, l, a.state))
    BY <2>2, <2>4, ElsewhereNeat
  <2> QED BY <1>3, <1>4, <2>5
<1>5. CASE i = 0 \/ j \notin DOMAIN a.columns
  BY <1>3, <1>5
<1> QED BY <1>4, <1>5

LEMMA RenameNeat ==
  ASSUME NEW a, LaidOut(a, {}, {}), Neat(a), NEW k, NEW v
  PROVE  Neat([a EXCEPT !.name[k] = v])
<1> DEFINE m == [a.name EXCEPT ![k] = v]
<1>1. PICK S : a.name \in Seq(S)
  BY NeatFacts
<1>2. m \in Seq(S \cup {v}) /\ DOMAIN m = DOMAIN a.name
  <2>1. Len(a.name) \in Nat /\ a.name \in [1..Len(a.name) -> S]
    BY <1>1, LenProperties
  <2>2. m \in [1..Len(a.name) -> S \cup {v}]
    BY <2>1
  <2> HIDE DEF m
  <2>3. m \in Seq(S \cup {v})
    BY <2>1, <2>2, FunctionIsSeq
  <2> QED BY <2>1, <2>2, <2>3
<1> HIDE DEF m
<1>3. \E T : m \in Seq(T)
  BY <1>2
<1>4. DOMAIN m = DOMAIN a.type
  BY <1>2, NeatFacts
<1> DEFINE y == a.type
           w == a.rows
           l == a.cells
           s == a.state
           h == a.columns
<1>5. /\ Once(h) /\ \A x \in DOMAIN s : Honest(s[x])
      /\ \A r \in ToSet(w) : \A j \in DOMAIN h : KindFits(s[l[r][j]], y[h[j]])
  BY NeatFacts
<1>6. DOMAIN m = DOMAIN y
  BY <1>4
<1> HIDE DEF y, w, l, s, h
<1>7. Neat(Table(h, y, m, w, l, s))
  BY <1>3, <1>5, <1>6, NeatParts
<1>8. [a EXCEPT !.name[k] = v] = Table(a.columns, a.type, m, a.rows, a.cells, a.state)
  BY LaidOutFacts, RenamedIs DEF m
<1> QED BY <1>7, <1>8 DEF y, w, l, s, h

-----------------------------------------------------------------------------
LEMMA AppendAt ==
  ASSUME NEW S, NEW s \in Seq(S), NEW e
  PROVE  /\ \E T : Append(s, e) \in Seq(T)
         /\ Len(s) \in Nat /\ DOMAIN s = 1..Len(s) /\ DOMAIN Append(s, e) = 1..(Len(s) + 1)
         /\ Append(s, e)[Len(s) + 1] = e /\ \A i \in DOMAIN s : Append(s, e)[i] = s[i]
<1> DEFINE T == S \cup {e}
<1>1. s \in Seq(T) /\ e \in T /\ Len(s) \in Nat /\ DOMAIN s = 1..Len(s)
  BY SeqMonotonic, LenProperties
<1> HIDE DEF T
<1>2. /\ Append(s, e) \in Seq(T) /\ Len(Append(s, e)) = Len(s) + 1
      /\ \A i \in 1..Len(s) : Append(s, e)[i] = s[i]
      /\ Append(s, e)[Len(s) + 1] = e
  BY <1>1, AppendProperties
<1>3. DOMAIN Append(s, e) = 1..(Len(s) + 1)
  BY <1>2, LenProperties
<1> QED BY <1>1, <1>2, <1>3

LEMMA Beyond ==
  ASSUME NEW m \in Nat, NEW n \in Nat, NEW x \in 1..(m + n), x \notin 1..m
  PROVE  x - m \in 1..n /\ x = m + (x - m)
OBVIOUS

\* A new row.
LEMMA AddRowNeat ==
  ASSUME NEW a, LaidOut(a, {}, {}), Neat(a), NEW i \in 1..(Len(a.rows) + 1)
  PROVE  Neat(AddRow(a, i))
<1> DEFINE n == Len(a.cells) + 1
           w == InsertAt(a.rows, i, n)
           new == NewCells(a, a.columns)
           l == Append(a.cells, new)
           f == FreshRow(a)
           s == a.state \o f
<1>1. /\ IsTable(a) /\ a.rows \in Seq(DOMAIN a.cells) /\ Len(a.columns) \in Nat
      /\ DOMAIN a.columns = 1..Len(a.columns) /\ ToSet(a.rows) \subseteq DOMAIN a.cells
  BY LaidOutFacts
<1>2. AddRow(a, i) = Table(a.columns, a.type, a.name, w, l, s)
  BY <1>1, AddRowIs
<1>3. ToSet(w) = ToSet(a.rows) \cup {n}
  <2> DEFINE T == DOMAIN a.cells \cup {n}
  <2>1. a.rows \in Seq(T) /\ n \in T
    BY <1>1, SeqMonotonic
  <2> HIDE DEF T, n
  <2> QED BY <2>1, InsertKeepsOnce
<1>4. l[n] = new /\ \A r \in DOMAIN a.cells : l[r] = a.cells[r]
  BY <1>1, AppendAt DEF IsTable
<1>5. PICK S : a.state \in Seq(S)
  BY <1>1 DEF IsTable
<1>6. Len(a.state) \in Nat /\ DOMAIN a.state = 1..Len(a.state)
  BY <1>5, LenProperties
<1> DEFINE T == {Fresh(a.type[a.columns[k]]) : k \in DOMAIN a.columns}
<1>7. f \in [1..Len(a.columns) -> T] /\ \A k \in DOMAIN a.columns : f[k] = Fresh(a.type[a.columns[k]])
  BY <1>1 DEF FreshRow
<1>8. new = [k \in DOMAIN a.columns |-> Len(a.state) + k]
  BY DEF NewCells
<1> HIDE DEF T, f, new, l, w, n
<1>15. Joined(s, a.state, f, Len(a.columns))
  BY <1>1, <1>5, <1>7, JoinedPrefix
<1> HIDE DEF s
<1>9. \A x \in DOMAIN a.state : s[x] = a.state[x]
  BY <1>15 DEF Joined
<1>16. DOMAIN s = 1..(Len(a.state) + Len(a.columns))
  BY <1>15 DEF Joined
<1>17. \A k \in DOMAIN a.columns : s[Len(a.state) + k] = Fresh(a.type[a.columns[k]])
  BY <1>1, <1>7, <1>15 DEF Joined
<1>10. \A x \in DOMAIN s : Honest(s[x])
  <2> SUFFICES ASSUME NEW x \in DOMAIN s PROVE Honest(s[x])
    OBVIOUS
  <2>1. CASE x \in DOMAIN a.state
    BY <1>9, <2>1, NeatFacts
  <2>2. CASE x \notin DOMAIN a.state
    <3> DEFINE k == x - Len(a.state)
    <3>3. x \in 1..(Len(a.state) + Len(a.columns)) /\ x \notin 1..Len(a.state)
      BY <1>6, <1>16, <2>2
    <3>4. Len(a.state) \in Nat /\ Len(a.columns) \in Nat
      BY <1>1, <1>6
    <3>1. k \in 1..Len(a.columns) /\ x = Len(a.state) + k
      BY <3>3, <3>4, Beyond
    <3> HIDE DEF k
    <3>2. s[x] = Fresh(a.type[a.columns[k]])
      BY <1>1, <1>17, <3>1
    <3> QED BY <3>2, HonestFresh
  <2> QED BY <2>1, <2>2
<1>11. ASSUME NEW r \in ToSet(w), NEW k \in DOMAIN a.columns
       PROVE  KindFits(s[l[r][k]], a.type[a.columns[k]])
  <2>1. CASE r \in ToSet(a.rows)
    <3>1. l[r][k] = a.cells[r][k] /\ a.cells[r][k] \in DOMAIN a.state
      BY <1>1, <1>4, <2>1, LaidOutFacts
    <3>2. KindFits(a.state[a.cells[r][k]], a.type[a.columns[k]])
      BY <2>1, NeatFacts
    <3>3. s[l[r][k]] = a.state[a.cells[r][k]]
      BY <1>9, <3>1
    <3> QED BY <3>2, <3>3
  <2>2. CASE r = n
    <3>1. l[r][k] = Len(a.state) + k
      BY <1>4, <1>8, <2>2
    <3>2. s[l[r][k]] = Fresh(a.type[a.columns[k]])
      BY <1>1, <1>17, <3>1
    <3> QED BY <3>2, HonestFresh
  <2> QED BY <1>3, <2>1, <2>2
<1> DEFINE y == a.type
           m == a.name
           h == a.columns
<1>12. Once(h) /\ (\E U : m \in Seq(U)) /\ DOMAIN m = DOMAIN y
  BY NeatFacts
<1>13. \A r \in ToSet(w) : \A k \in DOMAIN h : KindFits(s[l[r][k]], y[h[k]])
  BY <1>11
<1> HIDE DEF y, m, h
<1>14. Neat(Table(h, y, m, w, l, s))
  BY <1>10, <1>12, <1>13, NeatParts
<1> QED BY <1>2, <1>14 DEF y, m, h

\* A new column.
LEMMA AddColumnNeat ==
  ASSUME NEW a, LaidOut(a, {}, {}), Neat(a), NEW i \in 1..(Len(a.columns) + 1), NEW t \in Types
  PROVE  Neat(AddColumn(a, i, t))
<1> DEFINE n == Len(a.type) + 1
           k == InsertAt(a.columns, i, n)
           y == Append(a.type, t)
           m == Append(a.name, "added")
           new == NewCells(a, a.rows)
           l == GrownCells(a.cells, a.rows, i, new)
           f == FreshColumn(a, t)
           s == a.state \o f
<1>1. /\ IsTable(a) /\ a.columns \in Seq(DOMAIN a.type) /\ a.rows \in Seq(DOMAIN a.cells)
      /\ a.type \in Seq(Types) /\ Len(a.rows) \in Nat
      /\ DOMAIN a.rows = 1..Len(a.rows) /\ ToSet(a.columns) \subseteq DOMAIN a.type
  BY LaidOutFacts DEF IsTable
<1>2. AddColumn(a, i, t) = Table(k, y, m, a.rows, l, s)
  BY <1>1, AddColumnIs
<1>3. DOMAIN a.type = 1..Len(a.type) /\ Len(a.type) \in Nat
      /\ DOMAIN y = 1..n /\ y[n] = t /\ \A c \in DOMAIN a.type : y[c] = a.type[c]
  BY <1>1, AppendAt
<1>4. (\E U : m \in Seq(U)) /\ DOMAIN m = DOMAIN y
  <2>1. PICK S : a.name \in Seq(S)
    BY NeatFacts
  <2>2. DOMAIN a.name = DOMAIN a.type
    BY NeatFacts
  <2>3. /\ \E U : m \in Seq(U)
        /\ Len(a.name) \in Nat /\ DOMAIN a.name = 1..Len(a.name) /\ DOMAIN m = 1..(Len(a.name) + 1)
    BY <2>1, AppendAt
  <2>4. Len(a.name) = Len(a.type)
    BY <1>3, <2>2, <2>3
  <2> QED BY <1>3, <2>3, <2>4
<1>5. n \notin ToSet(a.columns)
  BY <1>1, <1>3
<1>6. Once(k)
  <2> DEFINE T == DOMAIN a.type \cup {n}
  <2>1. a.columns \in Seq(T) /\ n \in T
    BY <1>1, SeqMonotonic
  <2>2. Once(a.columns)
    BY NeatFacts
  <2> HIDE DEF T, n
  <2> QED BY <1>5, <2>1, <2>2, InsertKeepsOnce
<1>7. PICK S : a.state \in Seq(S)
  BY <1>1 DEF IsTable
<1>8. Len(a.state) \in Nat /\ DOMAIN a.state = 1..Len(a.state)
  BY <1>7, LenProperties
<1> DEFINE T == {Fresh(t)}
<1>9. f \in [1..Len(a.rows) -> T] /\ \A r \in DOMAIN a.rows : f[r] = Fresh(t)
  BY <1>1 DEF FreshColumn
<1>10. new = [r \in DOMAIN a.rows |-> Len(a.state) + r]
  BY DEF NewCells
<1> HIDE DEF T, f
<1>15. Joined(s, a.state, f, Len(a.rows))
  BY <1>1, <1>7, <1>9, JoinedPrefix
<1> HIDE DEF s
<1>11. \A x \in DOMAIN a.state : s[x] = a.state[x]
  BY <1>15 DEF Joined
<1>16. DOMAIN s = 1..(Len(a.state) + Len(a.rows))
  BY <1>15 DEF Joined
<1>17. \A r \in DOMAIN a.rows : s[Len(a.state) + r] = Fresh(t)
  BY <1>1, <1>9, <1>15 DEF Joined
<1>12. \A x \in DOMAIN s : Honest(s[x])
  <2> SUFFICES ASSUME NEW x \in DOMAIN s PROVE Honest(s[x])
    OBVIOUS
  <2>1. CASE x \in DOMAIN a.state
    BY <1>11, <2>1, NeatFacts
  <2>2. CASE x \notin DOMAIN a.state
    <3> DEFINE r == x - Len(a.state)
    <3>3. x \in 1..(Len(a.state) + Len(a.rows)) /\ x \notin 1..Len(a.state)
      BY <1>8, <1>16, <2>2
    <3>4. Len(a.state) \in Nat /\ Len(a.rows) \in Nat
      BY <1>1, <1>8
    <3>1. r \in 1..Len(a.rows) /\ x = Len(a.state) + r
      BY <3>3, <3>4, Beyond
    <3> HIDE DEF r
    <3>2. s[x] = Fresh(t)
      BY <1>1, <1>17, <3>1
    <3> QED BY <3>2, HonestFresh
  <2> QED BY <2>1, <2>2
<1>13. ASSUME NEW r \in ToSet(a.rows), NEW j \in DOMAIN k
       PROVE  KindFits(s[l[r][j]], y[k[j]])
  <2> DEFINE e == new[PositionOf(a.rows, r)]
  <2>1. r \in DOMAIN a.cells /\ a.cells[r] \in Seq(DOMAIN a.state) /\ Len(a.cells[r]) = Len(a.columns)
    BY LaidOutFacts
  <2>2. l[r] = InsertAt(a.cells[r], i, e)
    BY <2>1 DEF GrownCells
  <2>3. PositionOf(a.rows, r) \in DOMAIN a.rows
    BY <1>1, MemberFound
  <2>4. s[e] = Fresh(t)
    BY <1>10, <1>17, <2>3
  <2> HIDE DEF e, l
  <2>5. \/ k[j] = n /\ InsertAt(a.cells[r], i, e)[j] = e
        \/ \E h \in DOMAIN a.columns : k[j] = a.columns[h] /\ InsertAt(a.cells[r], i, e)[j] = a.cells[r][h]
    <3> HIDE DEF n
    <3>1. SamePlacesBut(k, InsertAt(a.cells[r], i, e), a.columns, a.cells[r], n, e)
      BY <1>1, <2>1, InsertPair
    <3> HIDE DEF k
    <3> QED BY <3>1 DEF SamePlacesBut
  <2>6. CASE k[j] = n /\ l[r][j] = e
    <3> HIDE DEF k, y
    <3> QED BY <1>3, <2>4, <2>6, HonestFresh
  <2>7. CASE \E h \in DOMAIN a.columns : k[j] = a.columns[h] /\ l[r][j] = a.cells[r][h]
    <3> HIDE DEF k, y
    <3>1. PICK h \in DOMAIN a.columns : k[j] = a.columns[h] /\ l[r][j] = a.cells[r][h]
      BY <2>7
    <3>2. a.columns[h] \in DOMAIN a.type /\ a.cells[r][h] \in DOMAIN a.state
      BY LaidOutFacts
    <3>3. KindFits(a.state[a.cells[r][h]], a.type[a.columns[h]])
      BY NeatFacts
    <3>4. s[l[r][j]] = a.state[a.cells[r][h]] /\ y[k[j]] = a.type[a.columns[h]]
      BY <1>3, <1>11, <3>1, <3>2
    <3> QED BY <3>3, <3>4
  <2> QED BY <2>2, <2>5, <2>6, <2>7
<1> HIDE DEF k, y, m, l
<1> DEFINE w == a.rows
<1>14. Neat(Table(k, y, m, w, l, s))
  <2>1. \A r \in ToSet(w) : \A j \in DOMAIN k : KindFits(s[l[r][j]], y[k[j]])
    BY <1>13
  <2> HIDE DEF w
  <2> QED BY <1>4, <1>6, <1>12, <2>1, NeatParts
<1> QED BY <1>2, <1>14

-----------------------------------------------------------------------------
\* What the user does to a tidy table leaves a tidy table.
LEMMA DoNeat ==
  ASSUME NEW a, Tidy(a), NEW c, Wanted(c, a), Suits(c, a)
  PROVE  Neat(Do(a, c).doc)
<1>1. /\ LaidOut(a, {}, {}) /\ Neat(a) /\ IsTable(a) /\ IsCommand(c) /\ c.op \in OpNames /\ Refers(c, a)
      /\ Len(a.rows) \in Nat /\ Len(a.columns) \in Nat
  BY LaidOutFacts DEF Tidy, Wanted, Known
<1>2. CASE c.op = "edit"
  <2> DEFINE xs == <<c.on>>
  <2>1. c.on \in DOMAIN a.state
    BY <1>1, <1>2 DEF Refers
  <2>7. xs \in Seq(DOMAIN a.state)
    BY <2>1, OneIsSeq
  <2>8. \A x \in ToSet(xs) : x = c.on
    <3>1. DOMAIN xs = {1} /\ xs[1] = c.on
      OBVIOUS
    <3> HIDE DEF xs
    <3> QED BY <3>1 DEF ToSet
  <2>2. xs \in Seq(DOMAIN a.state) /\ \A x \in ToSet(xs) : x = c.on
    BY <2>7, <2>8
  <2>3. Do(a, c) = SetCells(a, c, xs)
    BY <1>2 DEF Do
  <2>4. ASSUME NEW r \in ToSet(a.rows), NEW k \in DOMAIN a.columns, a.cells[r][k] = c.on
        PROVE  c.value.kind = KindOf[a.type[a.columns[k]]]
    <3>1. PICK q \in ToSet(a.rows) : \E h \in DOMAIN a.columns :
                 c.on = a.cells[q][h] /\ c.value.kind = KindOf[a.type[a.columns[h]]]
      BY <1>2 DEF Suits
    <3>2. PICK h \in DOMAIN a.columns : c.on = a.cells[q][h] /\ c.value.kind = KindOf[a.type[a.columns[h]]]
      BY <3>1
    <3>3. k = h
      BY <1>1, <2>4, <3>2, CellPlace
    <3> QED BY <3>2, <3>3
  <2> HIDE DEF xs
  <2>5. Neat(Restored(a, xs, SetStates(a, xs, c.value)))
    BY <1>1, <2>2, <2>4, SetNeat
  <2>6. SetCells(a, c, xs).doc = Restored(a, xs, SetStates(a, xs, c.value))
    BY ChangingIs, OkParts DEF SetCells, SetStates
  <2> QED BY <2>3, <2>5, <2>6
<1>3. CASE c.op = "import"
  <2> DEFINE xs == ColumnCells(a, c.at)
  <2>1. c.at \in DOMAIN a.columns /\ c.on = Len(a.rows)
    BY <1>1, <1>3 DEF Refers
  <2>2. Do(a, c) = SetCells(a, c, xs) /\ xs \in Seq(DOMAIN a.state)
    BY <1>1, <1>3, <2>1, ImportIs, AlikeItself
  <2>3. ASSUME NEW r \in ToSet(a.rows), NEW k \in DOMAIN a.columns, a.cells[r][k] \in ToSet(xs)
        PROVE  c.value.kind = KindOf[a.type[a.columns[k]]]
    <3>1. PICK q \in DOMAIN xs : xs[q] = a.cells[r][k]
      BY <2>3 DEF ToSet
    <3>2. q \in DOMAIN a.rows /\ xs[q] = a.cells[a.rows[q]][c.at]
      BY <1>1, <2>1, ColumnCellsFacts
    <3>3. a.rows[q] \in ToSet(a.rows)
      BY <1>1, <3>2, LaidOutFacts
    <3>5. a.cells[r][k] = a.cells[a.rows[q]][c.at]
      BY <3>1, <3>2
    <3> DEFINE p == a.rows[q]
               j == c.at
    <3>6. p \in ToSet(a.rows) /\ j \in DOMAIN a.columns /\ a.cells[r][k] = a.cells[p][j]
      BY <2>1, <3>3, <3>5
    <3> HIDE DEF p, j
    <3>7. k = j
      BY <1>1, <3>6, CellPlace
    <3>4. k = c.at
      BY <3>7 DEF j
    <3> QED BY <1>3, <3>4 DEF Suits
  <2> HIDE DEF xs
  <2>5. Neat(Restored(a, xs, SetStates(a, xs, c.value)))
    BY <1>1, <2>2, <2>3, SetNeat
  <2>6. SetCells(a, c, xs).doc = Restored(a, xs, SetStates(a, xs, c.value))
    BY ChangingIs, OkParts DEF SetCells, SetStates
  <2> QED BY <2>2, <2>5, <2>6
<1>4. CASE c.op = "addRow"
  <2>1. c.at \in 1..(Len(a.rows) + 1)
    BY <1>4 DEF Wanted
  <2>2. ~(c.at > Len(a.rows) + 1)
    BY <1>1, <2>1
  <2>3. Do(a, c) = Ok(AddRow(a, c.at), c)
    BY <1>4, <2>2 DEF Do
  <2>4. Do(a, c).doc = AddRow(a, c.at)
    BY <2>3, OkParts
  <2> QED BY <1>1, <2>1, <2>4, AddRowNeat
<1>5. CASE c.op = "addColumn"
  <2>1. c.at \in 1..(Len(a.columns) + 1) /\ c.arg \in Types
    BY <1>5 DEF Wanted, Known
  <2>2. ~(c.at > Len(a.columns) + 1)
    BY <1>1, <2>1
  <2>3. Do(a, c) = Ok(AddColumn(a, c.at, c.arg), [c EXCEPT !.on = Len(a.type) + 1])
    BY <1>5, <2>2 DEF Do
  <2>4. Do(a, c).doc = AddColumn(a, c.at, c.arg)
    BY <2>3, OkParts
  <2> QED BY <1>1, <2>1, <2>4, AddColumnNeat
<1>6. CASE c.op = "removeRow"
  <2> DEFINE i == PositionOf(a.rows, c.on)
  <2>1. i # 0 /\ i \in DOMAIN a.rows
    BY <1>1, <1>6, LaidOutFacts, MemberFound DEF Wanted
  <2>2. Do(a, c) = Ok(RowOut(a, i), [c EXCEPT !.at = i])
    BY <1>6, <2>1 DEF Do, RemoveRow, RowOut
  <2> HIDE DEF i
  <2>3. Do(a, c).doc = RowOut(a, i)
    BY <2>2, OkParts
  <2> QED BY <1>1, <2>1, <2>3, RowOutNeat
<1>7. CASE c.op = "removeColumn"
  <2> DEFINE i == PositionOf(a.columns, c.on)
  <2>1. i # 0 /\ i \in DOMAIN a.columns
    BY <1>1, <1>7, LaidOutFacts, MemberFound DEF Wanted
  <2>2. Do(a, c) = Ok(ColumnOut(a, i), TakenFrom(c, i, ColumnCells(a, i)))
    BY <1>7, <2>1 DEF Do, RemoveColumn, ColumnOut, TakenFrom
  <2> HIDE DEF i
  <2>3. Do(a, c).doc = ColumnOut(a, i)
    BY <2>2, OkParts
  <2> QED BY <1>1, <2>1, <2>3, ColumnOutNeat
<1>8. CASE c.op \in {"up", "down"}
  <2>1. Do(a, c).doc = ShiftRow(a, c.on, c.op = "down")
    BY <1>8 DEF Do, Ok
  <2> QED BY <1>1, <2>1, ShiftRowNeat
<1>9. CASE c.op \in {"left", "right"}
  <2>1. Do(a, c).doc = ShiftColumn(a, c.on, c.op = "right")
    BY <1>9 DEF Do, Ok
  <2> QED BY <1>1, <2>1, ShiftColumnNeat
<1>10. CASE c.op = "rename"
  <2> DEFINE b == [a EXCEPT !.name[c.on] = c.arg]
             c1 == IF c.was = None THEN [c EXCEPT !.was = a.name[c.on]] ELSE c
  <2>1. Do(a, c) = Ok(b, c1)
    BY <1>10 DEF Do
  <2>2. Neat(b)
    BY <1>1, RenameNeat
  <2> HIDE DEF b, c1
  <2> QED BY <2>1, <2>2, OkParts
<1>11. CASE c.op = "type"
  <2>1. c.on \in ToSet(a.columns) /\ c.arg \in Types
    BY <1>11 DEF Wanted, Known
  <2>2. Do(a, c) = Retype(a, c)
    BY <1>11 DEF Do
  <2> QED BY <1>1, <2>1, <2>2, RetypeNeat
<1> QED BY <1>1, <1>2, <1>3, <1>4, <1>5, <1>6, <1>7, <1>8, <1>9, <1>10, <1>11 DEF OpNames

LEMMA DoTidy ==
  ASSUME NEW a, Tidy(a), NEW c, Wanted(c, a), Suits(c, a)
  PROVE  Tidy(Do(a, c).doc)
<1>1. LaidOut(a, {}, {}) /\ Once(a.columns) /\ Proper(a) /\ Known(c, a)
  BY DEF Tidy, Neat, Wanted
<1>2. Do(a, c).ok
  BY <1>1, DoThenUndo
<1> DEFINE b == Do(a, c).doc
           c1 == Do(a, c).cmd
<1>3. Forward(a, b, c1, {}, {})
  BY <1>1, <1>2, DoForward
<1> HIDE DEF b, c1
<1>4. LaidOut(b, {} \cup OutRow(c1), {} \cup OutCell(c1))
  BY <1>3 DEF Forward
<1>5. LaidOut(b, {}, {})
  BY <1>4, LaidOutFewer
<1> QED BY <1>5, DoNeat DEF Tidy, b

-----------------------------------------------------------------------------
\* What a command remembers of cells are states that cells have had.
Wise(c) == \A i \in DOMAIN c.old : Honest(c.old[i])

LEMMA SameProper ==
  ASSUME NEW a, Proper(a), NEW k, NEW w, NEW l
  PROVE  Proper(Table(k, a.type, a.name, w, l, a.state))
BY Parts DEF Proper

LEMMA RestoredProper ==
  ASSUME NEW d, IsTable(d), Proper(d), NEW S, NEW xs \in Seq(S), NEW u, \A i \in DOMAIN xs : Honest(u[i])
  PROVE  Proper(Restored(d, xs, u))
<1> DEFINE s == StatesBack(d.state, xs, u)
<1>1. Restored(d, xs, u) = Table(d.columns, d.type, d.name, d.rows, d.cells, s)
  BY RestoredIs
<1>2. DOMAIN s = DOMAIN d.state
  BY DEF StatesBack
<1>3. ASSUME NEW x \in DOMAIN d.state PROVE Honest(s[x])
  <2>1. Honest(d.state[x])
    BY DEF Proper
  <2>2. /\ x \in ToSet(xs) => \E i \in DOMAIN xs : xs[i] = x /\ s[x] = u[i]
        /\ x \notin ToSet(xs) => s[x] = d.state[x]
    BY BackAt
  <2> HIDE DEF s
  <2> QED BY <2>1, <2>2
<1> HIDE DEF s
<1>4. Proper(Table(d.columns, d.type, d.name, d.rows, d.cells, s))
  BY <1>2, <1>3, Parts DEF Proper
<1> QED BY <1>1, <1>4

LEMMA RetypedProper ==
  ASSUME NEW d, IsTable(d), Proper(d), NEW k, NEW t
  PROVE  Proper([d EXCEPT !.type[k] = t])
<1> DEFINE y == [d.type EXCEPT ![k] = t]
<1>1. [d EXCEPT !.type[k] = t] = Table(d.columns, y, d.name, d.rows, d.cells, d.state)
  BY RetypedIs
<1>2. DOMAIN y = DOMAIN d.type
  OBVIOUS
<1> HIDE DEF y
<1>3. Proper(Table(d.columns, y, d.name, d.rows, d.cells, d.state))
  BY <1>2, Parts DEF Proper
<1> QED BY <1>1, <1>3

LEMMA RenamedProper ==
  ASSUME NEW d, IsTable(d), Proper(d), NEW k, NEW v
  PROVE  Proper([d EXCEPT !.name[k] = v])
<1> DEFINE m == [d.name EXCEPT ![k] = v]
<1>1. PICK S : d.name \in Seq(S)
  BY DEF Proper
<1>2. Len(d.name) \in Nat /\ d.name \in [1..Len(d.name) -> S]
  BY <1>1, LenProperties
<1>3. m \in [1..Len(d.name) -> S \cup {v}] /\ DOMAIN m = DOMAIN d.name
  BY <1>2
<1> HIDE DEF m
<1>4. m \in Seq(S \cup {v})
  BY <1>2, <1>3, FunctionIsSeq
<1>5. Proper(Table(d.columns, d.type, m, d.rows, d.cells, d.state))
  BY <1>3, <1>4, Parts DEF Proper
<1>6. [d EXCEPT !.name[k] = v] = Table(d.columns, d.type, m, d.rows, d.cells, d.state)
  BY RenamedIs DEF m
<1> QED BY <1>5, <1>6

LEMMA ShiftsProper ==
  ASSUME NEW d, IsTable(d), Proper(d), NEW e, NEW further
  PROVE  Proper(ShiftRow(d, e, further)) /\ Proper(ShiftColumn(d, e, further))
<1>1. Proper(ShiftRow(d, e, further))
  <2> DEFINE i == PositionOf(d.rows, e)
             j == Beside(i, further)
             w == Shifted(d.rows, i, j)
  <2>1. ShiftRow(d, e, further) = IF i = 0 \/ j \notin DOMAIN d.rows THEN d
                                  ELSE Table(d.columns, d.type, d.name, w, d.cells, d.state)
    BY ShiftRowIs
  <2> HIDE DEF i, j, w
  <2> QED BY <2>1, SameProper
<1>2. Proper(ShiftColumn(d, e, further))
  <2> DEFINE i == PositionOf(d.columns, e)
             j == Beside(i, further)
             k == Shifted(d.columns, i, j)
             l == ShiftedCells(d.cells, d.rows, i, j)
  <2>1. ShiftColumn(d, e, further) = IF i = 0 \/ j \notin DOMAIN d.columns THEN d
                                     ELSE Table(k, d.type, d.name, d.rows, l, d.state)
    BY ShiftColumnIs
  <2> HIDE DEF i, j, k, l
  <2> QED BY <2>1, SameProper
<1> QED BY <1>1, <1>2

\* Rows and columns that come and go change no state and no name.
LEMMA InOutProper ==
  ASSUME NEW d, IsTable(d), Proper(d), NEW i, NEW c, NEW xs
  PROVE  /\ Proper(RowOut(d, i)) /\ Proper(RowIn(d, i, c))
         /\ Proper(ColumnOut(d, i)) /\ Proper(ColumnIn(d, i, c, xs))
<1> DEFINE w1 == RemoveAt(d.rows, i)
           w2 == InsertAt(d.rows, i, c)
           k1 == RemoveAt(d.columns, i)
           k2 == InsertAt(d.columns, i, c)
           l1 == ShrunkCells(d.cells, d.rows, i)
           l2 == GrownCells(d.cells, d.rows, i, xs)
<1>1. RowOut(d, i) = Table(d.columns, d.type, d.name, w1, d.cells, d.state)
  BY RowOutIs
<1>2. RowIn(d, i, c) = Table(d.columns, d.type, d.name, w2, d.cells, d.state)
  BY RowInIs
<1>3. ColumnOut(d, i) = Table(k1, d.type, d.name, d.rows, l1, d.state)
  BY ColumnOutIs
<1>4. ColumnIn(d, i, c, xs) = Table(k2, d.type, d.name, d.rows, l2, d.state)
  BY ColumnInIs
<1> HIDE DEF w1, w2, k1, k2, l1, l2
<1>5. Proper(RowOut(d, i))
  BY <1>1, SameProper
<1>6. Proper(RowIn(d, i, c))
  BY <1>2, SameProper
<1>7. Proper(ColumnOut(d, i))
  BY <1>3, SameProper
<1>8. Proper(ColumnIn(d, i, c, xs))
  BY <1>4, SameProper
<1> QED BY <1>5, <1>6, <1>7, <1>8

LEMMA StatesHonest ==
  ASSUME NEW d, Proper(d), NEW xs \in Seq(DOMAIN d.state)
  PROVE  \A i \in DOMAIN xs : xs[i] \in DOMAIN d.state /\ Honest(d.state[xs[i]])
BY LenProperties, ElementOfSeq DEF Proper

LEMMA SetProper ==
  ASSUME NEW d, IsTable(d), Proper(d), NEW c, IsCommand(c), NEW xs \in Seq(DOMAIN d.state)
  PROVE  Proper(SetCells(d, c, xs).doc) /\ Wise(SetCells(d, c, xs).cmd)
<1> DEFINE u == SetStates(d, xs, c.value)
           old == StatesAt(d, xs)
<1>1. SetCells(d, c, xs).doc = Restored(d, xs, u) /\ SetCells(d, c, xs).cmd = Remembering(c, old, xs)
  BY ChangingIs, OkParts DEF SetCells, SetStates
<1>2. \A i \in DOMAIN xs : Honest(u[i])
  BY StatesHonest, HonestSet DEF SetStates
<1>3. \A i \in DOMAIN old : Honest(old[i])
  BY StatesHonest DEF StatesAt
<1> HIDE DEF u, old
<1>4. Proper(Restored(d, xs, u))
  BY <1>2, RestoredProper
<1>5. Remembering(c, old, xs).old = old
  BY RememberingParts
<1> QED BY <1>1, <1>3, <1>4, <1>5 DEF Wise

LEMMA RetypeProper ==
  ASSUME NEW d, LaidOut(d, {}, {}), Proper(d), NEW c, IsCommand(c), c.on \in DOMAIN d.type, c.arg \in Types
  PROVE  Proper(Retype(d, c).doc) /\ Wise(Retype(d, c).cmd)
<1> DEFINE xs == RetypedCells(d, c)
           d2 == [d EXCEPT !.type[c.on] = c.arg]
           u == RetypedStatesAt(d, xs, c.arg)
           old == StatesAt(d2, xs)
           c0 == Remembering(c, old, xs)
           c1 == Cascading(c0, d.type[c.on], Fallen(d, c, xs))
<1>1. Retype(d, c).doc = Restored(d2, xs, u) /\ Retype(d, c).cmd = c1
  BY RetypeIs, OkParts
<1>2. IsTable(d) /\ xs \in Seq(DOMAIN d.state)
  BY LaidOutFacts, RetypedCellsFacts
<1>3. InPlace(d, d2) /\ Proper(d2)
  BY <1>2, RetypedInPlace, RetypedProper
<1> HIDE DEF xs, d2
<1>4. IsTable(d2) /\ DOMAIN d2.state = DOMAIN d.state
  BY <1>3 DEF InPlace
<1>5. \A i \in DOMAIN xs : Honest(u[i])
  BY <1>2, StatesHonest, HonestRetyped DEF RetypedStatesAt
<1>6. \A i \in DOMAIN old : Honest(old[i])
  <2>1. xs \in Seq(DOMAIN d2.state)
    BY <1>2, <1>4
  <2> QED BY <1>3, <2>1, StatesHonest DEF StatesAt
<1> HIDE DEF u, old
<1>7. Proper(Restored(d2, xs, u))
  BY <1>2, <1>3, <1>4, <1>5, RestoredProper
<1>8. IsCommand(c0) /\ c0.old = old
  BY RememberingParts
<1> HIDE DEF c0
<1>9. c1.old = old
  BY <1>8, CascadingParts
<1> QED BY <1>1, <1>6, <1>7, <1>9 DEF Wise

\* Whatever is done again, states stay honest, also the remembered ones.
LEMMA DoProper ==
  ASSUME NEW d, LaidOut(d, {}, {}), Proper(d), NEW c, IsCommand(c), c.op \in OpNames, ~Creates(c),
         Refers(c, d), Wise(c), Do(d, c).ok
  PROVE  Proper(Do(d, c).doc) /\ Wise(Do(d, c).cmd)
<1>1. IsTable(d)
  BY DEF LaidOut
<1>2. CASE c.op = "edit"
  <2> DEFINE xs == <<c.on>>
  <2>1. c.on \in DOMAIN d.state
    BY <1>2 DEF Refers
  <2>2. xs \in Seq(DOMAIN d.state)
    BY <2>1, OneIsSeq
  <2>3. Do(d, c) = SetCells(d, c, xs)
    BY <1>2 DEF Do
  <2> HIDE DEF xs
  <2> QED BY <1>1, <2>2, <2>3, SetProper
<1>3. CASE c.op = "import"
  <2> DEFINE xs == ColumnCells(d, c.at)
  <2>1. c.at \in DOMAIN d.columns /\ c.on = Len(d.rows)
    BY <1>3 DEF Refers
  <2>2. Do(d, c) = SetCells(d, c, xs) /\ xs \in Seq(DOMAIN d.state)
    BY <1>1, <1>3, <2>1, ImportIs, AlikeItself
  <2> HIDE DEF xs
  <2> QED BY <1>1, <2>2, SetProper
<1>4. CASE c.op = "removeRow"
  <2> DEFINE i == PositionOf(d.rows, c.on)
             c1 == [c EXCEPT !.at = i]
  <2>1. i # 0
    BY <1>4 DEF Do, RemoveRow, Throws
  <2>2. Do(d, c) = Ok(RowOut(d, i), c1)
    BY <1>4, <2>1 DEF Do, RemoveRow, RowOut
  <2>3. c1.old = c.old
    BY AtParts
  <2> HIDE DEF i, c1
  <2>4. Do(d, c).doc = RowOut(d, i) /\ Do(d, c).cmd = c1
    BY <2>2, OkParts
  <2> QED BY <1>1, <2>3, <2>4, InOutProper DEF Wise
<1>5. CASE c.op = "removeColumn"
  <2> DEFINE i == PositionOf(d.columns, c.on)
             c1 == TakenFrom(c, i, ColumnCells(d, i))
  <2>1. i # 0
    BY <1>5 DEF Do, RemoveColumn, Throws
  <2>2. Do(d, c) = Ok(ColumnOut(d, i), c1)
    BY <1>5, <2>1 DEF Do, RemoveColumn, ColumnOut, TakenFrom
  <2>3. c1.old = c.old
    BY TakenParts
  <2> HIDE DEF i, c1
  <2>4. Do(d, c).doc = ColumnOut(d, i) /\ Do(d, c).cmd = c1
    BY <2>2, OkParts
  <2> QED BY <1>1, <2>3, <2>4, InOutProper DEF Wise
<1>6. CASE c.op \in {"up", "down"}
  <2>1. Do(d, c).doc = ShiftRow(d, c.on, c.op = "down") /\ Do(d, c).cmd = c
    BY <1>6 DEF Do, Ok
  <2> QED BY <1>1, <2>1, ShiftsProper
<1>7. CASE c.op \in {"left", "right"}
  <2>1. Do(d, c).doc = ShiftColumn(d, c.on, c.op = "right") /\ Do(d, c).cmd = c
    BY <1>7 DEF Do, Ok
  <2> QED BY <1>1, <2>1, ShiftsProper
<1>8. CASE c.op = "rename"
  <2> DEFINE b == [d EXCEPT !.name[c.on] = c.arg]
             c0 == [c EXCEPT !.was = d.name[c.on]]
             c1 == IF c.was = None THEN c0 ELSE c
  <2>1. Do(d, c) = Ok(b, c1)
    BY <1>8 DEF Do
  <2>2. Proper(b)
    BY <1>1, RenamedProper
  <2>3. c0.old = c.old
    BY WasParts
  <2> HIDE DEF b, c0
  <2>4. c1.old = c.old
    BY <2>3
  <2> HIDE DEF c1
  <2>5. Do(d, c).doc = b /\ Do(d, c).cmd = c1
    BY <2>1, OkParts
  <2> QED BY <2>2, <2>4, <2>5 DEF Wise
<1>9. CASE c.op = "type"
  <2>1. c.on \in DOMAIN d.type /\ c.arg \in Types
    BY <1>9 DEF Refers
  <2>2. Do(d, c) = Retype(d, c)
    BY <1>9 DEF Do
  <2> QED BY <2>1, <2>2, RetypeProper
<1> QED BY <1>2, <1>3, <1>4, <1>5, <1>6, <1>7, <1>8, <1>9 DEF OpNames, Creates

LEMMA RaisesParts ==
  ASSUME NEW c, IsCommand(c), NEW x, NEW c1, c1 = [c EXCEPT !.raises = x]
  PROVE  Similar(c1, c) /\ c1.old = c.old
<1>1. c1 = CommandOf(c.op, c.on, c.at, c.arg, c.value, c.old, c.cells, c.was, x)
  BY WithOne DEF CommandOf
<1>2. /\ IsCommand(c1) /\ c1.op = c.op /\ c1.on = c.on /\ c1.at = c.at /\ c1.arg = c.arg
      /\ c1.value = c.value /\ c1.old = c.old /\ c1.cells = c.cells /\ c1.was = c.was
  BY <1>1, CommandParts
<1> QED BY <1>2, SameCommand

\* An undo leaves its command as it was, but for the cascade.
LEMMA UndoCommand ==
  ASSUME NEW d, NEW c, IsCommand(c), c.op \in OpNames
  PROVE  Similar(UndoOp(d, c).cmd, c) /\ UndoOp(d, c).cmd.old = c.old
<1> DEFINE no == FALSE
           c1 == [c EXCEPT !.raises = no]
<1>1. Similar(c, c)
  BY SimilarItself
<1>2. CASE c.op = "type"
  <2>1. UndoOp(d, c).cmd = c1
    BY <1>2 DEF UndoOp, UndoRetype, Ok
  <2> HIDE DEF no
  <2>2. Similar(c1, c) /\ c1.old = c.old
    <3> DEFINE e == c1
    <3>1. e = [c EXCEPT !.raises = no]
      OBVIOUS
    <3> HIDE DEF e
    <3>2. Similar(e, c) /\ e.old = c.old
      BY <3>1, RaisesParts
    <3> QED BY <3>2 DEF e
  <2> HIDE DEF c1
  <2> QED BY <2>1, <2>2
<1>3. CASE c.op \in {"edit", "import", "rename", "up", "down", "left", "right"}
  BY <1>1, <1>3 DEF UndoOp, Ok
<1>4. CASE c.op \in {"addRow", "addColumn", "removeRow", "removeColumn"}
  BY <1>1, <1>4 DEF UndoOp, UndoAddColumn, Ok, Throws
<1> QED BY <1>2, <1>3, <1>4 DEF OpNames

LEMMA UndoProper ==
  ASSUME NEW d, LaidOut(d, {}, {}), Proper(d), NEW c, IsCommand(c), c.op \in OpNames, Wise(c), Holds(c, d),
         c.op = "type" => c.was \in Types, UndoOp(d, c).ok
  PROVE  Proper(UndoOp(d, c).doc)
<1>1. IsTable(d)
  BY DEF LaidOut
<1>2. CASE c.op \in {"edit", "import"}
  <2>1. UndoOp(d, c).doc = Restored(d, c.cells, c.old)
    BY <1>2 DEF UndoOp, Ok
  <2>2. PICK S : c.cells \in Seq(S)
    BY <1>2 DEF Holds
  <2>3. \A i \in DOMAIN c.cells : Honest(c.old[i])
    BY <1>2 DEF Holds, Wise
  <2> QED BY <1>1, <2>1, <2>2, <2>3, RestoredProper
<1>3. CASE c.op = "addRow"
  <2>1. UndoOp(d, c).doc = RowOut(d, c.at)
    BY <1>3 DEF UndoOp, Ok, Throws, RowOut
  <2> QED BY <1>1, <2>1, InOutProper
<1>4. CASE c.op = "addColumn"
  <2> DEFINE f == PositionOf(d.columns, c.on)
             i == IF f = 0 THEN c.at ELSE f
  <2>1. UndoOp(d, c) = IF i \notin DOMAIN d.columns THEN Throws(d, c) ELSE Ok(ColumnOut(d, i), c)
    BY <1>4 DEF UndoOp, UndoAddColumn, ColumnOut
  <2> HIDE DEF i
  <2>2. UndoOp(d, c).doc = ColumnOut(d, i)
    BY <2>1 DEF Ok, Throws
  <2> QED BY <1>1, <2>2, InOutProper
<1>5. CASE c.op = "removeRow"
  <2>1. UndoOp(d, c).doc = RowIn(d, c.at, c.on)
    BY <1>5 DEF UndoOp, Ok, Throws, RowIn
  <2> QED BY <1>1, <2>1, InOutProper
<1>6. CASE c.op = "removeColumn"
  <2>1. UndoOp(d, c).doc = ColumnIn(d, c.at, c.on, c.cells)
    BY <1>6 DEF UndoOp, Ok, Throws, ColumnIn
  <2> QED BY <1>1, <2>1, InOutProper
<1>7. CASE c.op \in {"up", "down"}
  <2>1. UndoOp(d, c).doc = ShiftRow(d, c.on, c.op = "up")
    BY <1>7 DEF UndoOp, Ok
  <2> QED BY <1>1, <2>1, ShiftsProper
<1>8. CASE c.op \in {"left", "right"}
  <2>1. UndoOp(d, c).doc = ShiftColumn(d, c.on, c.op = "left")
    BY <1>8 DEF UndoOp, Ok
  <2> QED BY <1>1, <2>1, ShiftsProper
<1>9. CASE c.op = "rename"
  <2> DEFINE b == [d EXCEPT !.name[c.on] = c.was]
  <2>1. UndoOp(d, c) = Ok(b, c)
    BY <1>9 DEF UndoOp
  <2>2. Proper(b)
    BY <1>1, RenamedProper
  <2> HIDE DEF b
  <2> QED BY <2>1, <2>2, OkParts
<1>10. CASE c.op = "type"
  <2> DEFINE k == PositionOf(d.columns, c.on)
             d2 == [d EXCEPT !.type[c.on] = c.was]
             xs == ColumnCells(d2, k)
             b == IF k = 0 THEN d2 ELSE Restored(d2, xs, c.old)
  <2>1. UndoOp(d, c).doc = b
    <3>1. UndoOp(d, c) = Ok(b, [c EXCEPT !.raises = FALSE])
      BY <1>10 DEF UndoOp, UndoRetype
    <3> HIDE DEF b
    <3> QED BY <3>1, OkParts
  <2>2. InPlace(d, d2) /\ Proper(d2)
    BY <1>1, <1>10, RetypedInPlace, RetypedProper
  <2> HIDE DEF d2
  <2>3. LaidOut(d2, {}, {}) /\ IsTable(d2) /\ d2.columns = d.columns /\ d2.rows = d.rows
    BY <2>2, InPlaceKeeps DEF InPlace
  <2>4. CASE k # 0
    <3>1. k \in DOMAIN d2.columns
      BY <2>3, <2>4, LaidOutFacts, FoundFacts
    <3> HIDE DEF k
    <3>2. xs \in Seq(DOMAIN d2.state) /\ DOMAIN xs = DOMAIN d.rows
      BY <2>3, <3>1, ColumnCellsFacts
    <3>3. \A i \in DOMAIN xs : Honest(c.old[i])
      BY <1>10, <3>2 DEF Holds, Wise
    <3> HIDE DEF xs
    <3>4. Proper(Restored(d2, xs, c.old))
      BY <2>2, <2>3, <3>2, <3>3, RestoredProper
    <3> QED BY <2>1, <2>4, <3>4
  <2>5. CASE k = 0
    BY <2>1, <2>2, <2>5
  <2> QED BY <2>4, <2>5
<1> QED BY <1>2, <1>3, <1>4, <1>5, <1>6, <1>7, <1>8, <1>9, <1>10 DEF OpNames

-----------------------------------------------------------------------------
LEMMA Remainder ==
  ASSUME NEW w \in Nat, w > 0, NEW q \in Nat, NEW j \in 0..(w - 1)
  PROVE  (q * w + j) % w = j
<1> DEFINE x == q * w + j
           d == x \div w
           m == x % w
<1>1. x \in Nat /\ q * w \in Nat
  OBVIOUS
<1>2. d \in Int /\ m \in 0..(w - 1) /\ x = w * d + m
  BY <1>1
<1>3. w * d - w * q = j - m /\ w * q = q * w
  BY <1>1, <1>2
<1>4. w * (d - q) = j - m
  <2> HIDE DEF d, m
  <2> QED BY <1>2, <1>3
<1>5. ASSUME NEW z \in Int, NEW v \in Int, w * z = v, v < w, -w < v PROVE z = 0
  <2>1. CASE z > 0
    <3>1. w * z >= w
      BY <2>1
    <3> QED BY <1>5, <3>1
  <2>2. CASE z < 0
    <3>1. w * z <= -w
      BY <2>2
    <3> QED BY <1>5, <3>1
  <2> QED BY <2>1, <2>2
<1>6. d - q \in Int /\ j - m \in Int /\ j - m < w /\ -w < j - m
  BY <1>2
<1> HIDE DEF d, m, x
<1>7. d - q = 0
  BY <1>4, <1>5, <1>6
<1>8. w * 0 = 0
  OBVIOUS
<1>9. j - m = 0
  BY <1>4, <1>7, <1>8
<1>10. m = j
  BY <1>2, <1>9
<1> QED BY <1>10 DEF m, x

\* The file as loaded: every value of its column's kind, in a state of its own.
LEMMA LoadingTidy == Tidy(Loading)
<1> DEFINE w == Width
           n == Len(LoadedTexts)
           cols == [k \in 1..Width |-> k]
           names == [k \in 1..Width |-> "loaded"]
           rows == [r \in DOMAIN LoadedTexts |-> r]
           cells == [r \in DOMAIN LoadedTexts |-> [k \in 1..Width |-> (r - 1) * Width + k]]
           states == [x \in 1..(Len(LoadedTexts) * Width) |->
             LET r == ((x - 1) \div Width) + 1
                 k == ((x - 1) % Width) + 1
             IN Read(LoadedTypes[k], LoadedTexts[r][k])]
<1>1. Loading = Table(cols, LoadedTypes, names, rows, cells, states)
  BY DEF Loading, Table
<1>2. /\ w \in Nat /\ n \in Nat /\ DOMAIN LoadedTypes = 1..w /\ DOMAIN LoadedTexts = 1..n
  BY DatatableAssumption, LenProperties DEF Width
<1>3. Once(cols) /\ DOMAIN cols = 1..w /\ \A k \in 1..w : cols[k] = k
  BY DEF Once
<1>4. (\E S : names \in Seq(S)) /\ DOMAIN names = DOMAIN LoadedTypes
  <2>1. names \in [1..w -> {"loaded"}] /\ DOMAIN names = 1..w
    OBVIOUS
  <2> HIDE DEF names, w
  <2> QED BY <1>2, <2>1, FunctionIsSeq
<1>5. \A x \in DOMAIN states : Honest(states[x])
  <2>1. \A t, y : Honest(Read(t, y))
    BY DEF Read, Honest
  <2>2. \A x \in DOMAIN states : \E t, y : states[x] = Read(t, y)
    OBVIOUS
  <2> HIDE DEF states
  <2> QED BY <2>1, <2>2
<1>6. ASSUME NEW r \in ToSet(rows), NEW k \in DOMAIN cols
      PROVE  KindFits(states[cells[r][k]], LoadedTypes[cols[k]])
  <2>1. r \in 1..n /\ k \in 1..w
    BY <1>2, <1>3 DEF ToSet
  <2> DEFINE q == r - 1
             j == k - 1
             x == q * w + k
  <2>2. q \in Nat /\ j \in 0..(w - 1) /\ w > 0 /\ q * w \in Nat
    BY <1>2, <2>1
  <2>3. x \in 1..(n * w)
    BY <1>2, <2>1, RowsOfCells
  <2>4. x - 1 = q * w + j
    <3> DEFINE z == q * w
    <3>1. z \in Nat /\ k \in Nat /\ x = z + k
      BY <2>1, <2>2
    <3> HIDE DEF z, q, x
    <3>2. x - 1 = z + j
      BY <3>1
    <3> QED BY <3>2 DEF z
  <2> HIDE DEF q
  <2>5. (q * w + j) % w = j
    <3> HIDE DEF j, w
    <3> QED BY <1>2, <2>2, Remainder
  <2>6. ((x - 1) % w) + 1 = k
    <3>1. (x - 1) % w = j
      BY <2>4, <2>5
    <3>2. j + 1 = k
      BY <2>1
    <3> HIDE DEF x, j
    <3> QED BY <3>1, <3>2
  <2>7. cells[r][k] = x
    BY <1>2, <2>1 DEF q
  <2> HIDE DEF x
  <2>8. \E y : states[x] = Read(LoadedTypes[((x - 1) % w) + 1], y)
    BY <2>3
  <2>9. PICK y : states[x] = Read(LoadedTypes[k], y)
    BY <2>6, <2>8
  <2>10. cols[k] = k
    BY <1>3, <2>1
  <2>11. KindFits(Read(LoadedTypes[k], y), LoadedTypes[k])
    BY DEF KindFits, Read, Value
  <2> HIDE DEF states, cells, cols
  <2> QED BY <2>7, <2>9, <2>10, <2>11
<1> HIDE DEF cols, names, rows, cells, states
<1>7. Neat(Table(cols, LoadedTypes, names, rows, cells, states))
  BY <1>3, <1>4, <1>5, <1>6, NeatParts
<1> QED BY <1>1, <1>7, LoadingLaidOut DEF Tidy

\* What looks like a tidy table is tidy.
LEMMA TidyAlike ==
  ASSUME NEW d, NEW a, LaidOut(d, {}, {}), Proper(d), Tidy(a), Alike(d, a)
  PROVE  Tidy(d)
<1>1. d.columns = a.columns /\ d.rows = a.rows /\ LaidOut(a, {}, {})
  BY DEF Alike, Tidy
<1>2. ASSUME NEW r \in ToSet(d.rows), NEW k \in DOMAIN d.columns
      PROVE  KindFits(d.state[d.cells[r][k]], d.type[d.columns[k]])
  <2> DEFINE x == a.cells[r][k]
             c == a.columns[k]
  <2>1. r \in ToSet(a.rows) /\ k \in DOMAIN a.columns /\ r \in DOMAIN a.cells
    BY <1>1, <1>2, LaidOutFacts
  <2>2. x \in DOMAIN a.state /\ c \in DOMAIN a.type
    BY <1>1, <2>1, LaidOutFacts
  <2>3. KindFits(a.state[x], a.type[c])
    BY <2>1, NeatFacts DEF Tidy
  <2>4. d.cells[r][k] = x /\ d.columns[k] = c
    BY <1>1, <2>1 DEF Alike
  <2> HIDE DEF x, c
  <2>5. SameState(d.state[x], a.state[x]) /\ d.type[c] = a.type[c]
    BY <2>2 DEF Alike
  <2> QED BY <2>3, <2>4, <2>5 DEF KindFits, SameState
<1>3. Once(d.columns)
  BY <1>1, NeatFacts DEF Tidy
<1> QED BY <1>2, <1>3 DEF Tidy, Neat, Right

\* A save keeps values and flags, and leaves honest states.
SavedStates(d) ==
  [x \in DOMAIN d.state |-> IF x \in InTable(d) THEN Rebaselined(d.state[x]) ELSE d.state[x]]

Written(s, x, y) == [s EXCEPT !.slice = x, !.review = y]

LEMMA WrittenIs ==
  ASSUME NEW v, NEW w, NEW r, NEW x, NEW y
  PROVE  Written(StateOf(v, w, r), x, y) = StateOf(v, x, y)
<1> DEFINE s == StateOf(v, w, r)
           u == [s EXCEPT !.slice = x]
<1>1. u = StateOf(v, x, r)
  BY DEF StateOf
<1>2. [StateOf(v, x, r) EXCEPT !.review = y] = StateOf(v, x, y)
  BY DEF StateOf
<1> HIDE DEF s
<1>3. Written(s, x, y) = [u EXCEPT !.review = y]
  BY DEF Written
<1> HIDE DEF u
<1>4. Written(s, x, y) = StateOf(v, x, y)
  BY <1>1, <1>2, <1>3
<1> QED BY <1>4 DEF s

LEMMA Rebaselining ==
  ASSUME NEW v, NEW w, NEW r
  PROVE  Rebaselined(StateOf(v, w, r)) = StateOf(v, v, FALSE)
<1> DEFINE s == StateOf(v, w, r)
<1>1. s.value = v
  BY DEF StateOf
<1>2. Written(s, v, FALSE) = StateOf(v, v, FALSE)
  <2> DEFINE no == FALSE
  <2> HIDE DEF no
  <2>1. Written(s, v, no) = StateOf(v, v, no)
    BY WrittenIs
  <2> QED BY <2>1 DEF no
<1> HIDE DEF s
<1>3. Rebaselined(s) = Written(s, v, FALSE)
  BY <1>1, Zenon DEF Rebaselined, Written
<1>4. Rebaselined(s) = StateOf(v, v, FALSE)
  BY <1>2, <1>3, Zenon
<1> QED BY <1>4 DEF s

LEMMA SavedAlike ==
  ASSUME NEW d, IsTable(d), Proper(d), Flagged(d) = {}
  PROVE  Alike([d EXCEPT !.state = SavedStates(d)], d) /\ Proper([d EXCEPT !.state = SavedStates(d)])
<1> DEFINE s == SavedStates(d)
<1>1. [d EXCEPT !.state = s] = Table(d.columns, d.type, d.name, d.rows, d.cells, s)
  BY PartOf
<1>2. DOMAIN s = DOMAIN d.state
  BY DEF SavedStates
<1>3. ASSUME NEW x \in DOMAIN d.state PROVE SameState(s[x], d.state[x]) /\ Honest(s[x])
  <2> DEFINE u == d.state[x]
  <2>1. Honest(u)
    BY DEF Proper
  <2>2. s[x] = IF x \in InTable(d) THEN Rebaselined(u) ELSE u
    BY DEF SavedStates
  <2>3. x \in InTable(d) => u.review = FALSE
    <3>1. x \in InTable(d) => ~u.review
      BY DEF Flagged
    <3>2. u.review \in BOOLEAN
      BY <2>1 DEF Honest
    <3> HIDE DEF u
    <3> QED BY <3>1, <3>2
  <2> HIDE DEF u, s
  <2>4. Rebaselined(u).value = u.value /\ Rebaselined(u).review = FALSE /\ Honest(Rebaselined(u))
    <3>1. u = StateOf(u.value, u.slice, u.review)
      BY <2>1 DEF Honest, StateOf
    <3>2. Rebaselined(StateOf(u.value, u.slice, u.review)) = StateOf(u.value, u.value, FALSE)
      BY Rebaselining
    <3>3. Rebaselined(u) = StateOf(u.value, u.value, FALSE)
      BY <3>1, <3>2
    <3>4. /\ StateOf(u.value, u.value, FALSE).value = u.value
          /\ StateOf(u.value, u.value, FALSE).review = FALSE
          /\ Honest(StateOf(u.value, u.value, FALSE))
      BY DEF StateOf, Honest
    <3> QED BY <3>3, <3>4
  <2> QED BY <2>1, <2>2, <2>3, <2>4 DEF SameState, u
<1> HIDE DEF s
<1>4. /\ Alike(Table(d.columns, d.type, d.name, d.rows, d.cells, s), d)
      /\ Proper(Table(d.columns, d.type, d.name, d.rows, d.cells, s))
  BY <1>2, <1>3, Parts DEF Alike, Proper
<1> QED BY <1>1, <1>4 DEF s

-----------------------------------------------------------------------------
(***************************************************************************)
(* What the user may ask for.                                              *)
(***************************************************************************)
LEMMA NewCommand ==
  ASSUME NEW op, NEW on, NEW at, NEW arg, NEW v
  PROVE  /\ Command(op, on, at, arg).was = None /\ Wise(Command(op, on, at, arg))
         /\ ValueCommand(op, on, at, v).on = on /\ ValueCommand(op, on, at, v).at = at
         /\ ValueCommand(op, on, at, v).value = v /\ Wise(ValueCommand(op, on, at, v))
<1> DEFINE c == Command(op, on, at, None)
           e == ValueCommand(op, on, at, v)
<1>1. Command(op, on, at, arg).was = None /\ Command(op, on, at, arg).old = <<>>
  BY DEF Command
<1>2. e.on = on /\ e.at = at /\ e.value = v /\ e.old = <<>>
  <2>1. c = [op |-> op, on |-> on, at |-> at, arg |-> None, value |-> NoValue,
             old |-> <<>>, cells |-> <<>>, was |-> None, raises |-> FALSE]
    BY DEF Command
  <2> HIDE DEF c
  <2>2. e = [c EXCEPT !.value = v]
    BY DEF ValueCommand, c
  <2> HIDE DEF e
  <2> QED BY <2>1, <2>2
<1> HIDE DEF e
<1>3. \A i \in DOMAIN <<>> : FALSE
  OBVIOUS
<1> QED BY <1>1, <1>2, <1>3 DEF Wise, e

LEMMA EdgeFacts ==
  ASSUME NEW S, NEW s \in Seq(S), NEW e \in ToSet(s)
  PROVE  Head(s) = s[1] /\ Last(s) = s[Len(s)]
<1>1. s # <<>>
  BY DEF ToSet
<1> QED BY <1>1 DEF Last

\* What the user asks for in a table can be done in one it looks like.
LEMMA AskedWanted ==
  ASSUME LaidOut(doc, {}, {}), NEW c \in Asked, ~AtEdge(c), NEW a, LaidOut(a, {}, {}), Alike(doc, a)
  PROVE  Wanted(c, a) /\ Suits(c, a) /\ Wise(c)
<1> DEFINE E == UNION {{ValueCommand("edit", doc.cells[doc.rows[r]][k], 0, v)
                        : v \in Coerced(doc.type[doc.columns[k]])}
                       : r \in DOMAIN doc.rows, k \in DOMAIN doc.columns}
           I == UNION {{ValueCommand("import", Len(doc.rows), k, v)
                        : v \in Coerced(doc.type[doc.columns[k]])}
                       : k \in DOMAIN doc.columns}
           R == {Command("addRow", 0, i, None) : i \in 1..(Len(doc.rows) + 1)}
           C == {Command("addColumn", 0, i, t) : i \in 1..(Len(doc.columns) + 1), t \in Types}
           M == {Command(op, r, 0, None) : op \in {"removeRow", "up", "down"}, r \in ToSet(doc.rows)}
           N == {Command(op, k, 0, None)
                 : op \in {"removeColumn", "left", "right"}, k \in ToSet(doc.columns)}
           A == {Command("rename", k, 0, n) : k \in ToSet(doc.columns), n \in Names}
           T == {Command("type", k, 0, t) : k \in ToSet(doc.columns), t \in Types}
<1>1. c \in E \/ c \in I \/ c \in R \/ c \in C \/ c \in M \/ c \in N \/ c \in A \/ c \in T
  <2>1. Asked = E \cup I \cup R \cup C \cup M \cup N \cup A \cup T
    BY DEF Asked
  <2> HIDE DEF E, I, R, C, M, N, A, T
  <2> QED BY <2>1
<1>2. doc.columns = a.columns /\ doc.rows = a.rows
  BY DEF Alike
<1>3. /\ a.columns \in Seq(DOMAIN a.type) /\ a.rows \in Seq(DOMAIN a.cells)
      /\ Len(a.columns) \in Nat /\ Len(a.rows) \in Nat /\ ToSet(a.columns) \subseteq DOMAIN a.type
  BY LaidOutFacts
<1>4. ASSUME NEW t, NEW v \in Coerced(t) PROVE v.kind = KindOf[t]
  <2>1. PICK x : v = Value(t, x)
    BY DEF Coerced
  <2> QED BY <2>1 DEF Value
<1>5. CASE c \in E
  <2>0. PICK r \in DOMAIN a.rows, k \in DOMAIN a.columns :
          \E v \in Coerced(doc.type[a.columns[k]]) : c = ValueCommand("edit", doc.cells[a.rows[r]][k], 0, v)
    <3>1. \E r \in DOMAIN doc.rows, k \in DOMAIN doc.columns : \E v \in Coerced(doc.type[doc.columns[k]]) :
            c = ValueCommand("edit", doc.cells[doc.rows[r]][k], 0, v)
      BY <1>5
    <3> QED BY <1>2, <3>1
  <2>1. PICK v \in Coerced(doc.type[a.columns[k]]) : c = ValueCommand("edit", doc.cells[a.rows[r]][k], 0, v)
    BY <2>0
  <2> DEFINE q == a.rows[r]
             x == a.cells[q][k]
  <2>2. q \in ToSet(a.rows) /\ q \in DOMAIN a.cells /\ a.columns[k] \in DOMAIN a.type
    BY LaidOutFacts
  <2>3. x \in DOMAIN a.state
    BY <2>2, LaidOutFacts
  <2>4. doc.cells[q] = a.cells[q] /\ doc.type[a.columns[k]] = a.type[a.columns[k]]
    BY <2>2 DEF Alike
  <2>5. c = ValueCommand("edit", x, 0, v) /\ v.kind = KindOf[a.type[a.columns[k]]]
    BY <1>4, <2>1, <2>4
  <2>6. Suits(ValueCommand("edit", x, 0, v), a)
    <3>1. ValueCommand("edit", x, 0, v).on = x /\ ValueCommand("edit", x, 0, v).value = v
      BY NewCommand
    <3>2. ValueCommand("edit", x, 0, v).op = "edit"
      BY CommandFacts
    <3> QED BY <2>2, <2>5, <3>1, <3>2 DEF Suits
  <2> HIDE DEF x, q
  <2>7. IsCommand(c) /\ c.op = "edit"
    BY <2>5, CommandFacts
  <2>8. c.on = x /\ Wise(c)
    BY <2>5, NewCommand
  <2>9. Wanted(c, a)
    BY <2>3, <2>7, <2>8 DEF Wanted, Known, Refers, OpNames
  <2> QED BY <2>5, <2>6, <2>8, <2>9
<1>6. CASE c \in I
  <2>0. PICK k \in DOMAIN a.columns :
          \E v \in Coerced(doc.type[a.columns[k]]) : c = ValueCommand("import", Len(a.rows), k, v)
    BY <1>2, <1>6
  <2>1. PICK v \in Coerced(doc.type[a.columns[k]]) : c = ValueCommand("import", Len(a.rows), k, v)
    BY <2>0
  <2>2. doc.type[a.columns[k]] = a.type[a.columns[k]]
    BY LaidOutFacts DEF Alike
  <2>3. v.kind = KindOf[a.type[a.columns[k]]]
    BY <1>4, <2>2
  <2>4. IsCommand(c) /\ c.op = "import"
    BY <2>1, CommandFacts
  <2>5. c.on = Len(a.rows) /\ c.at = k /\ c.value = v /\ Wise(c)
    BY <2>1, NewCommand
  <2>6. Wanted(c, a)
    BY <2>4, <2>5 DEF Wanted, Known, Refers, OpNames
  <2> QED BY <2>3, <2>4, <2>5, <2>6 DEF Suits
<1>7. CASE c \in R
  <2>1. PICK i \in 1..(Len(a.rows) + 1) : c = Command("addRow", 0, i, None)
    BY <1>2, <1>7
  <2>2. IsCommand(c) /\ c.op = "addRow" /\ c.at = i
    BY <2>1, CommandFacts
  <2>3. i \in Nat \ {0}
    BY <1>3
  <2>4. Wanted(c, a)
    BY <2>2, <2>3 DEF Wanted, Known, Refers, OpNames
  <2>5. Wise(c)
    BY <2>1, NewCommand
  <2> QED BY <2>2, <2>4, <2>5 DEF Suits
<1>8. CASE c \in C
  <2>1. PICK i \in 1..(Len(a.columns) + 1), t \in Types : c = Command("addColumn", 0, i, t)
    BY <1>2, <1>8
  <2>2. IsCommand(c) /\ c.op = "addColumn" /\ c.at = i /\ c.arg = t
    BY <2>1, CommandFacts
  <2>3. i \in Nat \ {0}
    BY <1>3
  <2>4. Wanted(c, a)
    BY <2>2, <2>3 DEF Wanted, Known, Refers, OpNames
  <2>5. Wise(c)
    BY <2>1, NewCommand
  <2> QED BY <2>2, <2>4, <2>5 DEF Suits
<1>9. CASE c \in M
  <2>1. PICK op \in {"removeRow", "up", "down"}, r \in ToSet(a.rows) : c = Command(op, r, 0, None)
    BY <1>2, <1>9
  <2>2. IsCommand(c) /\ c.op = op /\ c.on = r
    BY <2>1, CommandFacts
  <2>3. Head(a.rows) = a.rows[1] /\ Last(a.rows) = a.rows[Len(a.rows)]
    BY <1>3, EdgeFacts
  <2>4. (c.op = "up" => a.rows[1] # c.on) /\ (c.op = "down" => a.rows[Len(a.rows)] # c.on)
    BY <1>2, <2>3 DEF AtEdge
  <2>5. Wanted(c, a)
    BY <2>1, <2>2, <2>4 DEF Wanted, Known, Refers, OpNames
  <2>6. Wise(c)
    BY <2>1, NewCommand
  <2> QED BY <2>1, <2>2, <2>5, <2>6 DEF Suits
<1>10. CASE c \in N
  <2>1. PICK op \in {"removeColumn", "left", "right"}, k \in ToSet(a.columns) : c = Command(op, k, 0, None)
    BY <1>2, <1>10
  <2>2. IsCommand(c) /\ c.op = op /\ c.on = k
    BY <2>1, CommandFacts
  <2>3. Head(a.columns) = a.columns[1] /\ Last(a.columns) = a.columns[Len(a.columns)]
    BY <1>3, EdgeFacts
  <2>4. (c.op = "left" => a.columns[1] # c.on) /\ (c.op = "right" => a.columns[Len(a.columns)] # c.on)
    BY <1>2, <2>3 DEF AtEdge
  <2>5. Wanted(c, a)
    BY <2>1, <2>2, <2>4 DEF Wanted, Known, Refers, OpNames
  <2>6. Wise(c)
    BY <2>1, NewCommand
  <2> QED BY <2>1, <2>2, <2>5, <2>6 DEF Suits
<1>11. CASE c \in A
  <2>0. PICK k \in ToSet(a.columns) : \E n : c = Command("rename", k, 0, n)
    BY <1>2, <1>11
  <2>1. PICK n : c = Command("rename", k, 0, n)
    BY <2>0
  <2>2. IsCommand(c) /\ c.op = "rename" /\ c.on = k
    BY <2>1, CommandFacts
  <2>3. Wise(c) /\ c.was = None
    BY <2>1, NewCommand
  <2>4. Wanted(c, a)
    BY <1>3, <2>2, <2>3 DEF Wanted, Known, Refers, OpNames
  <2> QED BY <2>2, <2>3, <2>4 DEF Suits
<1>12. CASE c \in T
  <2>1. PICK k \in ToSet(a.columns), t \in Types : c = Command("type", k, 0, t)
    BY <1>2, <1>12
  <2>2. IsCommand(c) /\ c.op = "type" /\ c.on = k /\ c.arg = t
    BY <2>1, CommandFacts
  <2>3. Wise(c)
    BY <2>1, NewCommand
  <2>4. Wanted(c, a)
    BY <1>3, <2>2 DEF Wanted, Known, Refers, OpNames
  <2> QED BY <2>2, <2>3, <2>4 DEF Suits
<1> HIDE DEF E, I, R, C, M, N, A, T
<1> QED BY <1>1, <1>5, <1>6, <1>7, <1>8, <1>9, <1>10, <1>11, <1>12

-----------------------------------------------------------------------------
(***************************************************************************)
(* What a command has to do with the table before and the one after it.    *)
(***************************************************************************)
Links(a, c, b) ==
  /\ c.op \in OpNames /\ Returns(a, c, b)
  /\ ~Creates(c) => /\ Refers(c, a) /\ Do(a, c).ok /\ Alike(Do(a, c).doc, b)
                    /\ Similar(Do(a, c).cmd, c)

Linked(a, c, b) == IsCommand(c) /\ Wise(c) /\ Links(a, c, b)

\* A similar command links the two tables as well.
LEMMA LinksSimilar ==
  ASSUME NEW a, Tidy(a), NEW b, Tidy(b), NEW c, Links(a, c, b), NEW e, Similar(e, c), Wise(e)
  PROVE  Linked(a, e, b)
<1>1. /\ IsCommand(e) /\ e.op = c.op /\ e.on = c.on /\ e.at = c.at /\ e.arg = c.arg
      /\ e.was = c.was /\ e.cells = c.cells /\ DOMAIN e.old = DOMAIN c.old
  BY SimilarFacts
<1>2. /\ LaidOut(a, {}, {}) /\ LaidOut(b, {}, {}) /\ IsTable(a) /\ IsTable(b) /\ Proper(a) /\ Proper(b)
  BY LaidOutFacts DEF Tidy, Neat
<1>3. /\ c.op \in OpNames /\ UndoOp(b, c).ok /\ Alike(UndoOp(b, c).doc, a) /\ Holds(c, b)
      /\ c.op = "type" => c.was \in Types
  BY DEF Links, Returns
<1>4. Holds(e, b)
  BY <1>1, <1>3 DEF Holds
<1>5. Returns(a, e, b)
  <2>1. Pair(b, b)
    BY <1>2, AlikeItself DEF Pair, Proper
  <2>2. Together(UndoOp(b, e), UndoOp(b, c))
    BY <1>3, <2>1, UndoAlike
  <2>3. UndoOp(b, e).ok /\ Alike(UndoOp(b, e).doc, UndoOp(b, c).doc)
    BY <1>3, <2>2 DEF Together
  <2>4. Alike(UndoOp(b, e).doc, a)
    BY <1>3, <2>3, AlikeChain
  <2> QED BY <1>1, <1>3, <1>4, <2>3, <2>4 DEF Returns
<1>6. ASSUME ~Creates(e)
      PROVE  Refers(e, a) /\ Do(a, e).ok /\ Alike(Do(a, e).doc, b) /\ Similar(Do(a, e).cmd, e)
  <2>1. ~Creates(c)
    BY <1>1, <1>6 DEF Creates
  <2>2. Refers(c, a) /\ Do(a, c).ok /\ Alike(Do(a, c).doc, b) /\ Similar(Do(a, c).cmd, c)
    BY <2>1 DEF Links
  <2>3. Both(Do(a, e), Do(a, c))
    BY <1>2, <1>3, <2>1, <2>2, AlikeItself, DoAlike
  <2>4. Do(a, e).ok /\ Alike(Do(a, e).doc, Do(a, c).doc) /\ Similar(Do(a, e).cmd, Do(a, c).cmd)
    BY <2>2, <2>3 DEF Both
  <2>5. Alike(Do(a, e).doc, b)
    BY <2>2, <2>4, AlikeChain
  <2>6. Similar(c, e)
    BY SimilarBack
  <2>7. Similar(Do(a, e).cmd, e)
    BY <2>2, <2>4, <2>6, SimilarChain
  <2>8. Refers(e, a)
    BY <1>1, <2>2, SameReference
  <2> QED BY <2>4, <2>5, <2>7, <2>8
<1> QED BY <1>1, <1>3, <1>5, <1>6 DEF Linked, Links

\* What creating a row or a column makes of the command.
LEMMA MakerCommand ==
  ASSUME NEW d, NEW c, IsCommand(c), Creates(c), Do(d, c).ok
  PROVE  /\ IsCommand(Do(d, c).cmd) /\ Do(d, c).cmd.op = c.op /\ Do(d, c).cmd.old = c.old
<1>1. CASE c.op = "addRow"
  <2>1. Do(d, c).cmd = c
    BY <1>1 DEF Do, Ok, Throws
  <2> QED BY <2>1
<1>2. CASE c.op = "addColumn"
  <2> DEFINE n == Len(d.type) + 1
             c1 == [c EXCEPT !.on = n]
             b == AddColumn(d, c.at, c.arg)
  <2>1. Do(d, c) = IF c.at > Len(d.columns) + 1 THEN Throws(d, c) ELSE Ok(b, c1)
    BY <1>2 DEF Do
  <2>2. IsCommand(c1) /\ c1.op = c.op /\ c1.old = c.old
    <3> DEFINE e == c1
    <3>1. e = [c EXCEPT !.on = n]
      OBVIOUS
    <3> HIDE DEF e, n
    <3>2. IsCommand(e) /\ e.op = c.op /\ e.old = c.old
      BY <3>1, OnParts
    <3> QED BY <3>2 DEF e
  <2> HIDE DEF c1, b
  <2>3. Do(d, c).cmd = c1
    BY <2>1 DEF Ok, Throws
  <2> QED BY <2>2, <2>3
<1> QED BY <1>1, <1>2 DEF Creates

\* The table after a new edit, as the history has it: with what was there if nothing is
\* created, and as it is if something is.
Leads(p, a, b) ==
  /\ p.ok /\ Tidy(b) /\ Alike(p.doc, b) /\ Proper(p.doc) /\ Linked(a, p.cmd, b)

LEMMA NewLeads ==
  ASSUME LaidOut(doc, {}, {}), Proper(doc), NEW a, Tidy(a), Alike(doc, a),
         NEW c \in Asked, ~AtEdge(c)
  PROVE  \E b : Leads(Do(doc, c), a, b)
<1> DEFINE p == Do(doc, c)
           q == Do(a, c)
<1>1. Tidy(doc) /\ LaidOut(a, {}, {}) /\ Once(a.columns) /\ Proper(a)
  BY TidyAlike DEF Tidy, Neat
<1>2. Wanted(c, doc) /\ Suits(c, doc) /\ Wise(c)
  BY AskedWanted, AlikeItself
<1>3. IsCommand(c) /\ c.op \in OpNames /\ Once(doc.columns)
  BY <1>1, <1>2 DEF Wanted, Known, Tidy, Neat
<1>4. p.ok /\ Returns(doc, p.cmd, p.doc)
  BY <1>2, <1>3, DoThenUndo
<1>5. Tidy(p.doc)
  BY <1>1, <1>2, DoTidy
<1>6. Proper(p.doc)
  BY <1>5 DEF Tidy, Neat
<1>7. CASE Creates(c)
  <2>1. IsCommand(p.cmd) /\ p.cmd.op = c.op /\ p.cmd.old = c.old
    BY <1>3, <1>4, <1>7, MakerCommand
  <2> HIDE DEF p
  <2>2. Creates(p.cmd) /\ Wise(p.cmd)
    BY <1>2, <1>7, <2>1 DEF Creates, Wise
  <2>3. Returns(a, p.cmd, p.doc)
    <3>1. Alike(UndoOp(p.doc, p.cmd).doc, doc)
      BY <1>4 DEF Returns
    <3>2. Alike(UndoOp(p.doc, p.cmd).doc, a)
      BY <3>1, AlikeChain
    <3> QED BY <1>4, <3>2 DEF Returns
  <2>4. Linked(a, p.cmd, p.doc)
    BY <1>3, <2>1, <2>2, <2>3 DEF Linked, Links
  <2>5. Leads(p, a, p.doc)
    BY <1>4, <1>5, <1>6, <2>4, AlikeItself DEF Leads
  <2> QED BY <2>5 DEF p
<1>8. CASE ~Creates(c)
  <2>1. Wanted(c, a) /\ Suits(c, a)
    BY <1>1, AskedWanted
  <2>2. q.ok /\ Returns(a, q.cmd, q.doc)
    BY <1>1, <2>1, DoThenUndo
  <2>3. Tidy(q.doc)
    BY <2>1, DoTidy
  <2>4. /\ Do(a, q.cmd).ok /\ Do(a, q.cmd).doc = q.doc /\ Similar(Do(a, q.cmd).cmd, q.cmd)
        /\ q.cmd.op = c.op /\ Refers(q.cmd, a) /\ IsCommand(q.cmd)
    <3>1. Again(a, c)
      BY <1>1, <1>8, <2>1, DoAgain
    <3> QED BY <3>1 DEF Again
  <2>5. Both(p, q)
    <3>1. Similar(c, c) /\ Refers(c, a) /\ IsTable(doc)
      BY <1>3, <2>1, SimilarItself, LaidOutFacts DEF Wanted
    <3> HIDE DEF p, q
    <3>2. Both(Do(doc, c), Do(a, c))
      BY <1>1, <1>3, <1>8, <3>1, DoAlike
    <3> QED BY <3>2 DEF p, q
  <2>6. Wise(p.cmd)
    <3>1. Refers(c, doc)
      BY <1>2 DEF Wanted
    <3> QED BY <1>2, <1>3, <1>4, <1>8, <3>1, DoProper
  <2> HIDE DEF p, q
  <2>7. Links(a, q.cmd, q.doc)
    BY <1>3, <2>2, <2>4, AlikeItself DEF Links
  <2>8. Alike(p.doc, q.doc) /\ Similar(p.cmd, q.cmd)
    BY <2>2, <2>5 DEF Both
  <2>9. Linked(a, p.cmd, q.doc)
    BY <2>3, <2>6, <2>7, <2>8, LinksSimilar
  <2>10. Leads(p, a, q.doc)
    BY <1>4, <1>6, <2>3, <2>8, <2>9 DEF Leads
  <2> QED BY <2>10 DEF p
<1> QED BY <1>7, <1>8

\* An undo leads back, and leaves a command that links the two tables.
LEMMA UndoLeads ==
  ASSUME NEW d, LaidOut(d, {}, {}), Proper(d), NEW a, Tidy(a), NEW b, Tidy(b), Alike(d, b),
         NEW c, Linked(a, c, b)
  PROVE  /\ UndoOp(d, c).ok /\ Alike(UndoOp(d, c).doc, a) /\ Proper(UndoOp(d, c).doc)
         /\ Linked(a, UndoOp(d, c).cmd, b)
<1>1. /\ IsCommand(c) /\ Wise(c) /\ Links(a, c, b) /\ c.op \in OpNames
      /\ UndoOp(b, c).ok /\ Alike(UndoOp(b, c).doc, a) /\ Holds(c, b)
      /\ c.op = "type" => c.was \in Types
  BY DEF Linked, Links, Returns
<1>2. LaidOut(b, {}, {}) /\ Proper(b) /\ IsTable(d) /\ d.rows = b.rows
  BY LaidOutFacts DEF Tidy, Neat, Alike
<1>3. Together(UndoOp(d, c), UndoOp(b, c))
  <2>1. Pair(d, b)
    BY <1>2 DEF Pair, Proper
  <2> QED BY <1>1, <2>1, SimilarItself, UndoAlike
<1>4. UndoOp(d, c).ok /\ Alike(UndoOp(d, c).doc, UndoOp(b, c).doc)
  BY <1>1, <1>3 DEF Together
<1>5. Alike(UndoOp(d, c).doc, a)
  BY <1>1, <1>4, AlikeChain
<1>6. Holds(c, d)
  BY <1>1, <1>2 DEF Holds
<1>7. Proper(UndoOp(d, c).doc)
  BY <1>1, <1>4, <1>6, UndoProper
<1> DEFINE e == UndoOp(d, c).cmd
<1>8. Similar(e, c) /\ e.old = c.old
  BY <1>1, UndoCommand
<1> HIDE DEF e
<1>9. Wise(e)
  BY <1>1, <1>8 DEF Wise
<1>10. Linked(a, e, b)
  BY <1>1, <1>8, <1>9, LinksSimilar
<1> QED BY <1>4, <1>5, <1>7, <1>10 DEF e

\* So does a redo that creates nothing.
LEMMA RedoLeads ==
  ASSUME NEW d, LaidOut(d, {}, {}), Proper(d), NEW a, Tidy(a), NEW b, Tidy(b), Alike(d, a),
         NEW c, Linked(a, c, b), ~Creates(c)
  PROVE  Leads(Do(d, c), a, b)
<1>1. /\ IsCommand(c) /\ Wise(c) /\ Links(a, c, b) /\ c.op \in OpNames
      /\ Refers(c, a) /\ Do(a, c).ok /\ Alike(Do(a, c).doc, b) /\ Similar(Do(a, c).cmd, c)
  BY DEF Linked, Links
<1>2. LaidOut(a, {}, {}) /\ Proper(a) /\ IsTable(d) /\ d.rows = a.rows /\ d.columns = a.columns
  BY LaidOutFacts DEF Tidy, Neat, Alike
<1>3. Both(Do(d, c), Do(a, c))
  BY <1>1, <1>2, SimilarItself, DoAlike
<1>4. Do(d, c).ok /\ Alike(Do(d, c).doc, Do(a, c).doc) /\ Similar(Do(d, c).cmd, Do(a, c).cmd)
  BY <1>1, <1>3 DEF Both
<1>5. Refers(c, d)
  BY <1>1, <1>2 DEF Refers, Alike
<1>6. Proper(Do(d, c).doc) /\ Wise(Do(d, c).cmd)
  BY <1>1, <1>4, <1>5, DoProper
<1>7. Alike(Do(d, c).doc, b) /\ Similar(Do(d, c).cmd, c)
  BY <1>1, <1>4, AlikeChain, SimilarChain
<1>8. Linked(a, Do(d, c).cmd, b)
  BY <1>1, <1>6, <1>7, LinksSimilar
<1> QED BY <1>4, <1>6, <1>7, <1>8 DEF Leads

-----------------------------------------------------------------------------
(***************************************************************************)
(* The stacks as one history: what is done, and then what is undone, the   *)
(* last undone first.                                                      *)
(***************************************************************************)
Nth(U, R, i) == IF i <= Len(U) THEN U[i] ELSE R[Len(U) + Len(R) + 1 - i]

\* D[k] is the table with the first k commands done, the undone ones included, and
\* W[k + 1] what it looked like.
Story(D, U, R, W) ==
  /\ Len(W) = Len(U) + Len(R) + 1
  /\ \A k \in 0..(Len(U) + Len(R)) : Tidy(D[k]) /\ W[k + 1] = View(D[k])
  /\ \A k \in 1..(Len(U) + Len(R)) : Linked(D[k - 1], Nth(U, R, k), D[k])

LEMMA StackFacts ==
  ASSUME NEW S, NEW s \in Seq(S), s # <<>>
  PROVE  /\ Len(s) \in Nat /\ Len(s) > 0 /\ Front(s) \in Seq(S) /\ Len(Front(s)) = Len(s) - 1
         /\ \A i \in 1..(Len(s) - 1) : Front(s)[i] = s[i]
         /\ Last(s) = s[Len(s)] /\ Last(s) \in S
<1>1. /\ Len(s) \in Nat /\ Len(s) > 0 /\ Last(s) = s[Len(s)] /\ Len(Front(s)) = Len(s) - 1
      /\ \A i \in 1..(Len(s) - 1) : Front(s)[i] = s[i]
  BY Shorter
<1>2. Last(s) \in S
  <2>1. Len(s) \in 1..Len(s)
    BY <1>1
  <2> QED BY <1>1, <2>1, ElementOfSeq
<1> DEFINE m == Len(s) - 1
<1>3. Front(s) = SubSeq(s, 1, m) /\ m \in Int /\ \A i \in 1..m : s[i] \in S
  BY <1>1, ElementOfSeq DEF Front
<1> HIDE DEF m
<1>4. Front(s) \in Seq(S)
  BY <1>3, SubSeqProperties
<1> QED BY <1>1, <1>2, <1>4

\* A command that goes from one stack to the other keeps its place, or leaves it to e.
LEMMA NthBack ==
  ASSUME NEW S, NEW U \in Seq(S), NEW R \in Seq(S), U # <<>>, NEW e \in S
  PROVE  /\ Len(Front(U)) + Len(Append(R, e)) = Len(U) + Len(R)
         /\ \A i \in 1..(Len(U) + Len(R)) :
              Nth(Front(U), Append(R, e), i) = IF i = Len(U) THEN e ELSE Nth(U, R, i)
<1> DEFINE A == Append(R, e)
           F == Front(U)
<1>1. /\ Len(U) \in Nat /\ Len(U) > 0 /\ Len(F) = Len(U) - 1
      /\ \A i \in 1..(Len(U) - 1) : F[i] = U[i]
  BY StackFacts
<1>2. /\ Len(R) \in Nat /\ Len(A) = Len(R) + 1 /\ A[Len(R) + 1] = e
      /\ \A i \in 1..Len(R) : A[i] = R[i]
  BY AppendProperties, LenProperties
<1> HIDE DEF A, F
<1>3. Len(F) + Len(A) = Len(U) + Len(R)
  BY <1>1, <1>2
<1>4. ASSUME NEW i \in 1..(Len(U) + Len(R))
      PROVE  Nth(F, A, i) = IF i = Len(U) THEN e ELSE Nth(U, R, i)
  <2>1. CASE i <= Len(U) - 1
    BY <1>1, <1>2, <2>1 DEF Nth
  <2>2. CASE i = Len(U)
    <3>1. Len(F) + Len(A) + 1 - i = Len(R) + 1 /\ ~(i <= Len(F))
      BY <1>1, <1>2, <2>2
    <3> QED BY <1>2, <2>2, <3>1, <1>1 DEF Nth
  <2>3. CASE i > Len(U)
    <3>1. Len(U) + Len(R) + 1 - i \in 1..Len(R) /\ ~(i <= Len(F)) /\ ~(i <= Len(U)) /\ i # Len(U)
      BY <1>1, <1>2, <2>3
    <3> QED BY <1>2, <1>3, <3>1 DEF Nth
  <2> QED BY <1>1, <1>2, <2>1, <2>2, <2>3
<1> QED BY <1>3, <1>4 DEF A, F

LEMMA NthOn ==
  ASSUME NEW S, NEW U \in Seq(S), NEW R \in Seq(S), R # <<>>, NEW e \in S
  PROVE  /\ Len(Append(U, e)) + Len(Front(R)) = Len(U) + Len(R)
         /\ \A i \in 1..(Len(U) + Len(R)) :
              Nth(Append(U, e), Front(R), i) = IF i = Len(U) + 1 THEN e ELSE Nth(U, R, i)
<1> DEFINE A == Append(U, e)
           F == Front(R)
<1>1. /\ Len(R) \in Nat /\ Len(R) > 0 /\ Len(F) = Len(R) - 1
      /\ \A i \in 1..(Len(R) - 1) : F[i] = R[i]
  BY StackFacts
<1>2. /\ Len(U) \in Nat /\ Len(A) = Len(U) + 1 /\ A[Len(U) + 1] = e
      /\ \A i \in 1..Len(U) : A[i] = U[i]
  BY AppendProperties, LenProperties
<1> HIDE DEF A, F
<1>3. Len(A) + Len(F) = Len(U) + Len(R)
  BY <1>1, <1>2
<1>4. ASSUME NEW i \in 1..(Len(U) + Len(R))
      PROVE  Nth(A, F, i) = IF i = Len(U) + 1 THEN e ELSE Nth(U, R, i)
  <2>1. CASE i <= Len(U)
    BY <1>1, <1>2, <2>1 DEF Nth
  <2>2. CASE i = Len(U) + 1
    <3>1. ~(i <= Len(U)) /\ i <= Len(A)
      BY <1>1, <1>2, <2>2
    <3> QED BY <1>2, <2>2, <3>1 DEF Nth
  <2>3. CASE i > Len(U) + 1
    <3>1. Len(U) + Len(R) + 1 - i \in 1..(Len(R) - 1) /\ ~(i <= Len(A)) /\ ~(i <= Len(U)) /\ i # Len(U) + 1
      BY <1>1, <1>2, <2>3
    <3> QED BY <1>1, <1>3, <3>1 DEF Nth
  <2> QED BY <1>1, <1>2, <2>1, <2>2, <2>3
<1> QED BY <1>3, <1>4 DEF A, F

\* One command may leave its place to another that links the same tables.
SameBut(P, Q, U, R, j, e) ==
  /\ Len(P) + Len(Q) = Len(U) + Len(R)
  /\ \A i \in 1..(Len(U) + Len(R)) : Nth(P, Q, i) = IF i = j THEN e ELSE Nth(U, R, i)

LEMMA StoryMoves ==
  ASSUME NEW U, NEW R, NEW P, NEW Q, NEW D, NEW W, Story(D, U, R, W),
         NEW j, NEW e, Linked(D[j - 1], e, D[j]), SameBut(P, Q, U, R, j, e)
  PROVE  Story(D, P, Q, W)
<1> DEFINE n == Len(U) + Len(R)
           l == Len(P) + Len(Q)
<1>1. /\ Len(W) = n + 1
      /\ \A k \in 0..n : Tidy(D[k]) /\ W[k + 1] = View(D[k])
      /\ \A k \in 1..n : Linked(D[k - 1], Nth(U, R, k), D[k])
      /\ l = n /\ \A i \in 1..n : Nth(P, Q, i) = IF i = j THEN e ELSE Nth(U, R, i)
  BY DEF Story, SameBut
<1> HIDE DEF n, l
<1>2. /\ Len(W) = l + 1
      /\ \A k \in 0..l : Tidy(D[k]) /\ W[k + 1] = View(D[k])
  BY <1>1
<1>3. ASSUME NEW k \in 1..l PROVE Linked(D[k - 1], Nth(P, Q, k), D[k])
  <2>1. CASE k = j
    BY <1>1, <2>1
  <2>2. CASE k # j
    BY <1>1, <2>2
  <2> QED BY <2>1, <2>2
<1> QED BY <1>2, <1>3 DEF Story, l

LEMMA StoryBack ==
  ASSUME NEW S, NEW U \in Seq(S), NEW R \in Seq(S), U # <<>>, NEW D, NEW W, Story(D, U, R, W),
         NEW e \in S, Linked(D[Len(U) - 1], e, D[Len(U)])
  PROVE  Story(D, Front(U), Append(R, e), W)
<1> DEFINE P == Front(U)
           Q == Append(R, e)
           j == Len(U)
<1>1. SameBut(P, Q, U, R, j, e)
  BY NthBack DEF SameBut
<1>2. Linked(D[j - 1], e, D[j])
  OBVIOUS
<1> HIDE DEF P, Q, j
<1>3. Story(D, P, Q, W)
  BY <1>1, <1>2, StoryMoves
<1> QED BY <1>3 DEF P, Q

LEMMA StoryOn ==
  ASSUME NEW S, NEW U \in Seq(S), NEW R \in Seq(S), R # <<>>, NEW D, NEW W, Story(D, U, R, W),
         NEW e \in S, Linked(D[Len(U)], e, D[Len(U) + 1])
  PROVE  Story(D, Append(U, e), Front(R), W)
<1> DEFINE P == Append(U, e)
           Q == Front(R)
           j == Len(U) + 1
<1>1. SameBut(P, Q, U, R, j, e)
  BY NthOn DEF SameBut
<1>2. j - 1 = Len(U)
  BY LenProperties
<1>3. Linked(D[j - 1], e, D[j])
  BY <1>2
<1> HIDE DEF P, Q, j
<1>4. Story(D, P, Q, W)
  BY <1>1, <1>3, StoryMoves
<1> QED BY <1>4 DEF P, Q

LEMMA StoryStarts == Story([k \in {0} |-> Loading], <<>>, <<>>, <<View(Loading)>>)
<1> DEFINE D == [k \in {0} |-> Loading]
           W == <<View(Loading)>>
<1>1. D[0] = Loading /\ Len(W) = 1 /\ W[1] = View(Loading) /\ Len(<<>>) = 0
  OBVIOUS
<1> HIDE DEF D, W
<1>2. Len(<<>>) + Len(<<>>) = 0 /\ 0..0 = {0} /\ 1..0 = {}
  BY <1>1
<1> QED BY <1>1, <1>2, LoadingTidy DEF Story, D, W

\* The tables around where the history stands.
LEMMA StoryHere ==
  ASSUME NEW S, NEW U \in Seq(S), NEW R \in Seq(S), NEW D, NEW W, Story(D, U, R, W)
  PROVE  /\ Len(U) \in Nat /\ Len(R) \in Nat /\ Tidy(D[Len(U)]) /\ W[Len(U) + 1] = View(D[Len(U)])
         /\ U # <<>> => /\ Tidy(D[Len(U) - 1]) /\ Linked(D[Len(U) - 1], Last(U), D[Len(U)])
                        /\ Len(Front(U)) = Len(U) - 1
         /\ R # <<>> => Tidy(D[Len(U) + 1]) /\ Linked(D[Len(U)], Last(R), D[Len(U) + 1])
<1> DEFINE u == Len(U)
           n == Len(U) + Len(R)
<1>1. /\ u \in Nat /\ Len(R) \in Nat /\ n = u + Len(R)
      /\ \A k \in 0..n : Tidy(D[k]) /\ W[k + 1] = View(D[k])
      /\ \A k \in 1..n : Linked(D[k - 1], Nth(U, R, k), D[k])
  BY LenProperties DEF Story
<1>2. Tidy(D[u]) /\ W[u + 1] = View(D[u])
  <2> HIDE DEF u, n
  <2>1. u \in 0..n
    BY <1>1
  <2> QED BY <1>1, <2>1
<1>3. ASSUME U # <<>>
      PROVE /\ Tidy(D[u - 1]) /\ Linked(D[u - 1], Last(U), D[u])
            /\ Len(Front(U)) = u - 1
  <2>1. u > 0 /\ Last(U) = U[u] /\ Len(Front(U)) = u - 1
    BY <1>1, <1>3, StackFacts
  <2>2. Nth(U, R, u) = U[u]
    BY <1>1 DEF Nth
  <2> HIDE DEF u, n
  <2>3. u - 1 \in 0..n /\ u \in 1..n
    BY <1>1, <2>1
  <2> QED BY <1>1, <2>1, <2>2, <2>3
<1>4. ASSUME R # <<>>
      PROVE Tidy(D[u + 1]) /\ Linked(D[u], Last(R), D[u + 1])
  <2>1. Len(R) > 0 /\ Last(R) = R[Len(R)]
    BY <1>1, <1>4, StackFacts
  <2>2. Nth(U, R, u + 1) = Last(R)
    <3>1. ~(u + 1 <= Len(U)) /\ Len(U) + Len(R) + 1 - (u + 1) = Len(R)
      BY <1>1
    <3> QED BY <2>1, <3>1 DEF Nth
  <2> HIDE DEF u, n
  <2>4. u + 1 \in 0..n /\ u + 1 \in 1..n /\ (u + 1) - 1 = u
    BY <1>1, <2>1
  <2>5. Linked(D[(u + 1) - 1], Nth(U, R, u + 1), D[u + 1])
    BY <1>1, <2>4
  <2> QED BY <1>1, <2>2, <2>4, <2>5
<1> QED BY <1>1, <1>2, <1>3, <1>4

\* A new command takes the place of what was undone.
LEMMA StoryGrows ==
  ASSUME NEW S, NEW U \in Seq(S), NEW R \in Seq(S), NEW D, NEW V, NEW W \in Seq(V), Story(D, U, R, W),
         NEW c \in S, NEW b, Tidy(b), Linked(D[Len(U)], c, b), NEW v \in V, v = View(b)
  PROVE  /\ \E E : /\ Story(E, Append(U, c), <<>>, Append(SubSeq(W, 1, Len(U) + 1), v))
                   /\ E[Len(U) + 1] = b
         /\ Append(SubSeq(W, 1, Len(U) + 1), v) \in Seq(V)
<1> DEFINE u == Len(U)
           A == Append(U, c)
           X == SubSeq(W, 1, u + 1)
           Y == Append(X, v)
           E == [k \in 0..(u + 1) |-> IF k = u + 1 THEN b ELSE D[k]]
<1>1. /\ u \in Nat /\ Len(R) \in Nat /\ Len(A) = u + 1 /\ A[u + 1] = c
      /\ \A i \in 1..u : A[i] = U[i]
  BY AppendProperties, LenProperties
<1>2. Len(W) = u + Len(R) + 1 /\ Len(W) \in Nat
  BY <1>1 DEF Story
<1>3. /\ X \in Seq(V) /\ Len(X) = u + 1 /\ \A i \in 1..(u + 1) : X[i] = W[i]
  <2>1. \A i \in 1..(u + 1) : W[i] \in V
    <3>1. \A i \in 1..(u + 1) : i \in 1..Len(W)
      BY <1>1, <1>2
    <3> QED BY <3>1, ElementOfSeq
  <2> DEFINE m == u + 1
  <2>2. m \in Int /\ 1 <= m /\ m - 1 + 1 = m /\ \A i \in 1..m : 1 + i - 1 = i
    BY <1>1
  <2> HIDE DEF m
  <2>3. /\ SubSeq(W, 1, m) \in Seq(V) /\ Len(SubSeq(W, 1, m)) = IF 1 <= m THEN m - 1 + 1 ELSE 0
        /\ \A i \in 1..(m - 1 + 1) : SubSeq(W, 1, m)[i] = W[1 + i - 1]
    <3>1. \A i \in 1..m : W[i] \in V
      BY <2>1 DEF m
    <3> QED BY <2>2, <3>1, SubSeqProperties
  <2>4. SubSeq(W, 1, m) \in Seq(V) /\ Len(SubSeq(W, 1, m)) = m /\ \A i \in 1..m : SubSeq(W, 1, m)[i] = W[i]
    BY <2>2, <2>3
  <2> QED BY <2>4 DEF m
<1> HIDE DEF X
<1>4. Len(Y) = u + 2 /\ Y[u + 2] = v /\ (\A i \in 1..(u + 1) : Y[i] = W[i]) /\ Y \in Seq(V)
  <2>1. Len(Y) = Len(X) + 1 /\ Y[Len(X) + 1] = v /\ (\A i \in 1..Len(X) : Y[i] = X[i]) /\ Y \in Seq(V)
    BY <1>3, AppendProperties
  <2>2. Len(X) + 1 = u + 2
    BY <1>1, <1>3
  <2> HIDE DEF Y
  <2> QED BY <1>3, <2>1, <2>2
<1>5. E[u + 1] = b /\ \A k \in 0..u : E[k] = D[k]
  BY <1>1
<1> HIDE DEF A, Y, E, u
<1>6. Len(A) + Len(<<>>) = u + 1
  BY <1>1
<1>7. ASSUME NEW k \in 0..(u + 1) PROVE Tidy(E[k]) /\ Y[k + 1] = View(E[k])
  <2>1. CASE k = u + 1
    <3>1. k + 1 = u + 2
      BY <1>1, <2>1
    <3> QED BY <1>4, <1>5, <2>1, <3>1
  <2>2. CASE k # u + 1
    <3>1. k \in 0..u /\ k + 1 \in 1..(u + 1) /\ k \in 0..(u + Len(R))
      BY <1>1, <2>2
    <3> QED BY <1>4, <1>5, <3>1 DEF Story, u
  <2> QED BY <2>1, <2>2
<1>8. ASSUME NEW k \in 1..(u + 1) PROVE Linked(E[k - 1], Nth(A, <<>>, k), E[k])
  <2>1. Nth(A, <<>>, k) = A[k]
    BY <1>1 DEF Nth
  <2>2. CASE k = u + 1
    <3>1. k - 1 = u /\ u \in 0..u
      BY <1>1, <2>2
    <3>2. E[k - 1] = D[Len(U)] /\ E[k] = b /\ A[k] = c
      BY <1>1, <1>5, <2>2, <3>1 DEF u
    <3> QED BY <2>1, <3>2
  <2>3. CASE k # u + 1
    <3>1. k \in 1..u /\ k - 1 \in 0..u /\ k \in 0..u /\ k \in 1..(u + Len(R))
      BY <1>1, <2>3
    <3>2. Nth(U, R, k) = U[k] /\ A[k] = U[k]
      BY <1>1, <3>1 DEF Nth, u
    <3>3. Linked(D[k - 1], Nth(U, R, k), D[k])
      BY <3>1 DEF Story, u
    <3> QED BY <1>5, <2>1, <3>1, <3>2, <3>3
  <2> QED BY <2>2, <2>3
<1>9. Story(E, A, <<>>, Y)
  <2>1. Len(Y) = (u + 1) + 1
    BY <1>1, <1>4
  <2> QED BY <1>6, <1>7, <1>8, <2>1 DEF Story
<1> QED BY <1>4, <1>5, <1>9 DEF A, Y, X, u

-----------------------------------------------------------------------------
\* As long as the history is to be kept, it is: the table looks like the one the
\* commands done have led to, and its states are honest.
Remembers ==
  ~edgeMoves /\ recreated = 0 =>
    /\ Proper(doc) /\ \E V : views \in Seq(V)
    /\ \E D : Story(D, undoStack, redoStack, views) /\ Alike(doc, D[Len(undoStack)])

LEMMA TableFree == TableInv => LaidOut(doc, {}, {})
<1> SUFFICES ASSUME TableInv PROVE LaidOut(doc, {}, {})
  OBVIOUS
<1> DEFINE K == OutRows(undoStack)
           X == OutCells(undoStack)
<1>1. LaidOut(doc, K, X)
  BY DEF TableInv, Fitting
<1> HIDE DEF K, X
<1>2. {} \cup K = K /\ {} \cup X = X
  OBVIOUS
<1>3. LaidOut(doc, {} \cup K, {} \cup X)
  BY <1>1, <1>2
<1> QED BY <1>3, LaidOutFewer

LEMMA SeqWider ==
  ASSUME NEW S, NEW s \in Seq(S), NEW T, S \subseteq T
  PROVE  s \in Seq(T)
<1>1. Seq(S) \subseteq Seq(T)
  BY SeqMonotonic
<1> QED BY <1>1

LEMMA BothStacks ==
  ASSUME TableInv, NEW e
  PROVE  \E S : e \in S /\ undoStack \in Seq(S) /\ redoStack \in Seq(S)
<1>1. PICK S : undoStack \in Seq(S)
  BY DEF TableInv, Fitting, Past
<1>2. PICK T : redoStack \in Seq(T)
  BY DEF TableInv, Waiting
<1> DEFINE X == S \cup T \cup {e}
<1>3. S \subseteq X /\ T \subseteq X /\ e \in X
  OBVIOUS
<1> HIDE DEF X
<1>4. undoStack \in Seq(X)
  BY <1>1, <1>3, SeqWider
<1>5. redoStack \in Seq(X)
  BY <1>2, <1>3, SeqWider
<1> QED BY <1>3, <1>4, <1>5

LEMMA InitRemembers == Init => Remembers
<1> SUFFICES ASSUME Init PROVE Remembers
  OBVIOUS
<1>1. doc = Loading /\ undoStack = <<>> /\ redoStack = <<>> /\ views = <<View(Loading)>>
  BY DEF Init
<1>2. views \in Seq({View(Loading)})
  BY <1>1
<1> DEFINE D == [k \in {0} |-> Loading]
<1>3. Story(D, undoStack, redoStack, views)
  BY <1>1, StoryStarts
<1>4. Len(undoStack) = 0 /\ D[0] = Loading
  BY <1>1
<1> HIDE DEF D
<1>5. Alike(doc, D[Len(undoStack)])
  BY <1>1, <1>4, AlikeItself
<1>6. Proper(doc)
  BY <1>1, LoadingTidy DEF Tidy, Neat
<1> QED BY <1>2, <1>3, <1>5, <1>6 DEF Remembers

LEMMA ApplyRemembers ==
  ASSUME TableInv, Remembers, NEW c \in Asked, Apply(c)
  PROVE  Remembers'
<1> SUFFICES ASSUME ~edgeMoves', recreated' = 0 PROVE Remembers'
  BY DEF Remembers
<1>1. ~edgeMoves /\ recreated = 0 /\ ~AtEdge(c)
  BY DEF Apply
<1>2. PICK V : views \in Seq(V)
  BY <1>1 DEF Remembers
<1>3. PICK D : Story(D, undoStack, redoStack, views) /\ Alike(doc, D[Len(undoStack)])
  BY <1>1 DEF Remembers
<1> DEFINE p == Do(doc, c)
           u == Len(undoStack)
           k == p.cmd
           v == View(p.doc)
           A == Append(undoStack, k)
           Y == Append(SubSeq(views, 1, u + 1), v)
<1>4. PICK S : k \in S /\ undoStack \in Seq(S) /\ redoStack \in Seq(S)
  BY BothStacks
<1>5. Tidy(D[u]) /\ u \in Nat
  BY <1>3, <1>4, StoryHere
<1>6. PICK b : Leads(p, D[u], b)
  <2> DEFINE a == D[u]
  <2>1. Tidy(a) /\ Alike(doc, a) /\ Proper(doc) /\ LaidOut(doc, {}, {})
    BY <1>1, <1>3, <1>5, TableFree DEF Remembers
  <2> HIDE DEF a
  <2> QED BY <1>1, <2>1, NewLeads DEF a
<1>7. /\ doc' = p.doc /\ undoStack' = A /\ redoStack' = <<>> /\ views' = Y
  BY DEF Apply
<1> HIDE DEF p
<1>8. Tidy(b) /\ Alike(p.doc, b) /\ Proper(p.doc) /\ Linked(D[u], k, b)
  BY <1>6 DEF Leads
<1>9. v = View(b)
  BY <1>8, AlikeLooks DEF Tidy
<1> HIDE DEF k, v
<1> DEFINE V2 == V \cup {v}
<1>10. views \in Seq(V2) /\ v \in V2
  <2> DEFINE W == views
  <2> HIDE DEF W
  <2>1. W \in Seq(V) /\ V \subseteq V2
    BY <1>2 DEF W
  <2> HIDE DEF V2
  <2>2. W \in Seq(V2)
    BY <2>1, SeqWider
  <2> QED BY <2>2 DEF W, V2
<1> HIDE DEF V2
<1>11. (\E E : Story(E, A, <<>>, Y) /\ E[u + 1] = b) /\ Y \in Seq(V2)
  BY <1>3, <1>4, <1>8, <1>9, <1>10, StoryGrows
<1>12. PICK E : Story(E, A, <<>>, Y) /\ E[u + 1] = b
  BY <1>11
<1>13. Len(A) = u + 1
  BY <1>4, AppendProperties
<1> HIDE DEF A, Y, u
<1>14. Story(E, undoStack', redoStack', views') /\ views' \in Seq(V2)
  BY <1>7, <1>11, <1>12
<1>15. Alike(doc', E[Len(undoStack')]) /\ Proper(doc')
  BY <1>7, <1>8, <1>12, <1>13
<1>16. \E F : Story(F, undoStack', redoStack', views') /\ Alike(doc', F[Len(undoStack')])
  BY <1>14, <1>15
<1> QED BY <1>14, <1>15, <1>16 DEF Remembers

LEMMA UndoRemembers ==
  ASSUME TableInv, Remembers, Undo
  PROVE  Remembers'
<1> SUFFICES ASSUME ~edgeMoves', recreated' = 0 PROVE Remembers'
  BY DEF Remembers
<1>1. /\ ~edgeMoves /\ recreated = 0 /\ views' = views /\ undoStack # <<>>
      /\ undoStack' = Front(undoStack)
  BY DEF Undo
<1>2. PICK D : Story(D, undoStack, redoStack, views) /\ Alike(doc, D[Len(undoStack)])
  BY <1>1 DEF Remembers
<1> DEFINE u == Len(undoStack)
           c == Last(undoStack)
           p == UndoOp(doc, c)
           e == p.cmd
           a == D[u - 1]
           b == D[u]
<1>3. PICK S : e \in S /\ undoStack \in Seq(S) /\ redoStack \in Seq(S)
  BY BothStacks
<1>4. /\ u \in Nat /\ Tidy(b) /\ Tidy(a) /\ Linked(a, c, b) /\ Len(Front(undoStack)) = u - 1
  BY <1>1, <1>2, <1>3, StoryHere
<1>5. /\ p.ok /\ Alike(p.doc, a) /\ Proper(p.doc) /\ Linked(a, e, b)
  <2>1. Alike(doc, b) /\ Proper(doc) /\ LaidOut(doc, {}, {})
    BY <1>1, <1>2, TableFree DEF Remembers
  <2> HIDE DEF a, b, c
  <2> QED BY <1>4, <2>1, UndoLeads
<1>6. doc' = p.doc /\ redoStack' = Append(redoStack, e)
  BY <1>5 DEF Undo
<1> HIDE DEF p, e
<1>7. Story(D, Front(undoStack), Append(redoStack, e), views)
  BY <1>1, <1>2, <1>3, <1>5, StoryBack
<1>8. Story(D, undoStack', redoStack', views')
  BY <1>1, <1>6, <1>7
<1>9. Len(undoStack') = u - 1
  BY <1>1, <1>4
<1>10. Alike(doc', D[Len(undoStack')]) /\ Proper(doc')
  BY <1>5, <1>6, <1>9
<1>11. \E V : views' \in Seq(V)
  BY <1>1 DEF Remembers
<1> QED BY <1>8, <1>10, <1>11 DEF Remembers

LEMMA RedoRemembers ==
  ASSUME TableInv, Remembers, Redo
  PROVE  Remembers'
<1> SUFFICES ASSUME ~edgeMoves', recreated' = 0 PROVE Remembers'
  BY DEF Remembers
<1>1. /\ ~edgeMoves /\ views' = views /\ redoStack # <<>> /\ redoStack' = Front(redoStack)
      /\ recreated' = IF Creates(Last(redoStack)) THEN recreated + 1 ELSE recreated
  BY DEF Redo
<1>2. recreated = 0 /\ ~Creates(Last(redoStack))
  <2>1. recreated \in Nat
    BY DEF TableInv, Counted
  <2> QED BY <1>1, <2>1
<1>3. PICK D : Story(D, undoStack, redoStack, views) /\ Alike(doc, D[Len(undoStack)])
  BY <1>1, <1>2 DEF Remembers
<1> DEFINE u == Len(undoStack)
           c == Last(redoStack)
           p == Do(doc, c)
           e == p.cmd
           a == D[u]
           b == D[u + 1]
<1>4. PICK S : e \in S /\ undoStack \in Seq(S) /\ redoStack \in Seq(S)
  BY BothStacks
<1>5. u \in Nat /\ Tidy(b) /\ Tidy(a) /\ Linked(a, c, b)
  BY <1>1, <1>3, <1>4, StoryHere
<1>6. Leads(p, a, b)
  <2>1. Alike(doc, a) /\ Proper(doc) /\ LaidOut(doc, {}, {})
    BY <1>1, <1>2, <1>3, TableFree DEF Remembers
  <2> HIDE DEF a, b, c
  <2> QED BY <1>2, <1>5, <2>1, RedoLeads DEF c
<1>7. p.ok /\ Alike(p.doc, b) /\ Proper(p.doc) /\ Linked(a, e, b)
  BY <1>6 DEF Leads
<1>8. doc' = p.doc /\ undoStack' = Append(undoStack, e)
  BY <1>7 DEF Redo
<1> HIDE DEF p, e
<1>9. Story(D, Append(undoStack, e), Front(redoStack), views)
  BY <1>1, <1>3, <1>4, <1>7, StoryOn
<1>10. Story(D, undoStack', redoStack', views')
  BY <1>1, <1>8, <1>9
<1>11. Len(undoStack') = u + 1
  BY <1>4, <1>8, AppendProperties
<1>12. Alike(doc', D[Len(undoStack')]) /\ Proper(doc')
  BY <1>7, <1>8, <1>11
<1>13. \E V : views' \in Seq(V)
  BY <1>1, <1>2 DEF Remembers
<1> QED BY <1>10, <1>12, <1>13 DEF Remembers

LEMMA SaveRemembers ==
  ASSUME TableInv, Remembers, Save
  PROVE  Remembers'
<1> SUFFICES ASSUME ~edgeMoves', recreated' = 0 PROVE Remembers'
  BY DEF Remembers
<1>1. /\ ~edgeMoves /\ recreated = 0 /\ UNCHANGED <<views, undoStack, redoStack>>
      /\ Flagged(doc) = {} /\ doc' = [doc EXCEPT !.state = SavedStates(doc)]
  BY DEF Save, SavedStates
<1>2. PICK D : Story(D, undoStack, redoStack, views) /\ Alike(doc, D[Len(undoStack)])
  BY <1>1 DEF Remembers
<1>3. Alike(doc', doc) /\ Proper(doc')
  <2>1. IsTable(doc) /\ Proper(doc)
    BY <1>1, TableFree, LaidOutFacts DEF Remembers
  <2> QED BY <1>1, <2>1, SavedAlike
<1>4. Alike(doc', D[Len(undoStack)])
  BY <1>2, <1>3, AlikeChain
<1> QED BY <1>1, <1>2, <1>3, <1>4 DEF Remembers

LEMMA NextRemembers == TableInv /\ Remembers /\ [Next]_vars => Remembers'
<1> SUFFICES ASSUME TableInv, Remembers, [Next]_vars PROVE Remembers'
  OBVIOUS
<1>1. CASE Edit
  BY <1>1, ApplyRemembers DEF Edit
<1>2. CASE UNCHANGED vars
  BY <1>2 DEF vars, Remembers
<1> QED BY <1>1, <1>2, UndoRemembers, RedoRemembers, SaveRemembers DEF Next

\* Whatever is asked for, undone, redone and saved, as long as no move was asked for at
\* the edge and no redo has created a row or column anew: with i commands done the table
\* looks as it did when they were first done, the flags for review included.
THEOREM HistoryIsKept == Spec => []HistoryIsFaithful
<1>1. TableInv /\ Remembers => HistoryIsFaithful
  <2> SUFFICES ASSUME TableInv, Remembers, ~edgeMoves, recreated = 0
               PROVE  View(doc) = views[Len(undoStack) + 1]
    BY DEF HistoryIsFaithful
  <2>1. PICK D : Story(D, undoStack, redoStack, views) /\ Alike(doc, D[Len(undoStack)])
    BY DEF Remembers
  <2>2. PICK S : undoStack \in Seq(S) /\ redoStack \in Seq(S)
    BY BothStacks
  <2>3. Tidy(D[Len(undoStack)]) /\ views[Len(undoStack) + 1] = View(D[Len(undoStack)])
    BY <2>1, <2>2, StoryHere
  <2>4. View(doc) = View(D[Len(undoStack)])
    BY <2>1, <2>3, AlikeLooks DEF Tidy
  <2> QED BY <2>3, <2>4
<1> QED BY <1>1, InitTable, NextTable, InitRemembers, NextRemembers, PTL DEF Spec

\* And what a save would write when no cell waits for review is the value the user sees,
\* of the kind its column's type stores.
THEOREM SavesAreFaithful == Spec => []SavesWhatIsThere
<1>1. TableInv /\ Remembers => SavesWhatIsThere
  <2> SUFFICES ASSUME TableInv, Remembers, ~edgeMoves, recreated = 0, Flagged(doc) = {},
                      NEW k \in DOMAIN doc.columns, NEW x \in Under(doc, k)
               PROVE  /\ doc.state[x].value.kind = KindOf[doc.type[doc.columns[k]]]
                      /\ Payload(doc.state[x], doc.type[doc.columns[k]]) = doc.state[x].value
    BY DEF SavesWhatIsThere
  <2>1. PICK D : Story(D, undoStack, redoStack, views) /\ Alike(doc, D[Len(undoStack)])
    BY DEF Remembers
  <2>2. PICK S : undoStack \in Seq(S) /\ redoStack \in Seq(S)
    BY BothStacks
  <2> DEFINE a == D[Len(undoStack)]
  <2>3. Tidy(a) /\ Alike(doc, a) /\ Proper(doc) /\ LaidOut(doc, {}, {})
    BY <2>1, <2>2, StoryHere, TableFree DEF Remembers
  <2> HIDE DEF a
  <2>4. Tidy(doc)
    BY <2>3, TidyAlike
  <2>5. PICK r \in ToSet(doc.rows) : x = doc.cells[r][k]
    <3>1. PICK i \in DOMAIN doc.rows : x = doc.cells[doc.rows[i]][k]
      <4>1. DOMAIN ColumnCells(doc, k) = DOMAIN doc.rows
        BY DEF ColumnCells
      <4>2. PICK i \in DOMAIN ColumnCells(doc, k) : x = ColumnCells(doc, k)[i]
        BY DEF Under, ToSet
      <4> QED BY <4>1, <4>2 DEF ColumnCells
    <3> QED BY <2>3, <3>1, LaidOutFacts
  <2>6. x \in DOMAIN doc.state /\ x \in InTable(doc)
    <3>1. x \in DOMAIN doc.state /\ DOMAIN doc.cells[r] = DOMAIN doc.columns
      BY <2>3, <2>5, LaidOutFacts
    <3>2. x \in ToSet(doc.cells[r])
      BY <2>5, <3>1 DEF ToSet
    <3> QED BY <2>5, <3>1, <3>2 DEF InTable
  <2> DEFINE s == doc.state[x]
             t == doc.type[doc.columns[k]]
  <2>7. KindFits(s, t) /\ Honest(s)
    BY <2>4, <2>5, <2>6, NeatFacts DEF Tidy
  <2>8. ~s.review
    BY <2>6 DEF Flagged
  <2> HIDE DEF s, t
  <2>9. s.value.kind = KindOf[t]
    BY <2>7, <2>8 DEF KindFits
  <2>10. Payload(s, t) = s.value
    BY <2>7, <2>9 DEF Payload, Honest
  <2> QED BY <2>9, <2>10 DEF s, t
<1> QED BY <1>1, InitTable, NextTable, InitRemembers, NextRemembers, PTL DEF Spec
=============================================================================
