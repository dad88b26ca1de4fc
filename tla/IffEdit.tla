------------------------------ MODULE IffEdit ------------------------------
(***************************************************************************)
(* Editing an IFF file: the mutable tree of Formats/Iff/MutableIffNode.cs, *)
(* the undoable commands and the controller of Editing/IffEditController.cs*)
(* and the writer of Formats/Iff/IffWriter.cs, which copies the bytes a    *)
(* node was read from as long as nothing in it has changed.                *)
(*                                                                         *)
(* Nodes are numbers, handed out in the order the objects are created; the *)
(* root is 1.  A tag and a body stand for the four letters of a node and   *)
(* for its payload (leaf) or sub-type (container).  IsDirty and a missing  *)
(* captured slice always go together in the code and are one set here: the *)
(* nodes that still have their slice.                                      *)
(***************************************************************************)
EXTENDS Naturals, Sequences, SequencesExt, FiniteSets

CONSTANTS
  LoadedChildren,    \* the file as read: children of the nodes 1..n, in order
  LoadedContainers,  \* which of them are containers
  Labels,            \* values of tags and bodies; the file has only Plain ones
  Plain,
  Ops,               \* the edits the user makes
  MaxNodes, MaxApplies  \* bounds on objects created and on edits applied

\* The reader's tree, numbered as BuildSubtree makes the objects: each node once, and
\* a container before its children.
ASSUME IffAssumption ==
  /\ Plain \in Labels
  /\ LoadedChildren \in Seq(Seq(1..Len(LoadedChildren)))
  /\ \A p \in DOMAIN LoadedChildren : \A i \in DOMAIN LoadedChildren[p] :
       /\ p < LoadedChildren[p][i]
       /\ \A q \in DOMAIN LoadedChildren : \A j \in DOMAIN LoadedChildren[q] :
            LoadedChildren[p][i] = LoadedChildren[q][j] => p = q /\ i = j
  /\ 1 \in LoadedContainers /\ LoadedContainers \subseteq DOMAIN LoadedChildren
  /\ MaxNodes \in Nat /\ Len(LoadedChildren) <= MaxNodes
  /\ MaxApplies \in Nat

VARIABLES
  doc,        \* the tree
  undoStack, redoStack,
  net,        \* netAppliedCount
  applies,    \* edits applied so far
  views,      \* what the document looked like before and after each command done
  edgeMoves,  \* has a first node been moved up or a last one down
  recreated   \* has a redo created a node anew

vars == <<doc, undoStack, redoStack, net, applies, views, edgeMoves, recreated>>

Nodes == 1..MaxNodes
Root == 1
Nowhere == 0
Unset == "unset"

Loaded(n) == n \in DOMAIN LoadedChildren
Loading ==
  [children |-> [n \in Nodes |-> IF Loaded(n) THEN LoadedChildren[n] ELSE <<>>],
   parent |-> [n \in Nodes |->
     IF \E p \in DOMAIN LoadedChildren : n \in ToSet(LoadedChildren[p])
     THEN CHOOSE p \in DOMAIN LoadedChildren : n \in ToSet(LoadedChildren[p])
     ELSE Nowhere],
   tag |-> [n \in Nodes |-> Plain],
   body |-> [n \in Nodes |-> Plain],
   containers |-> LoadedContainers,
   verbatim |-> DOMAIN LoadedChildren,
   fresh |-> Len(LoadedChildren) + 1]   \* the next object

(***************************************************************************)
(* MutableIffNode.                                                         *)
(***************************************************************************)
\* n and everything above it, or below it.
Up(d, n) ==
  LET up[i \in Nat] ==
        IF i = 0 THEN {n}
        ELSE LET below == up[i-1] IN below \cup ({d.parent[m] : m \in below} \ {Nowhere})
  IN up[MaxNodes]
Down(d, n) ==
  LET down[i \in Nat] ==
        IF i = 0 THEN {n}
        ELSE LET above == down[i-1] IN above \cup UNION {ToSet(d.children[m]) : m \in above}
  IN down[MaxNodes]

\* A slip: only the node and its parent lose their slices.
TouchParentOnly(d, n) == [d EXCEPT !.verbatim = @ \ {n, d.parent[n]}]

\* MarkDirtyAndInvalidateAncestors
Touch(d, n) == [d EXCEPT !.verbatim = @ \ Up(d, n)]

SetTag(d, n, label) ==
  IF d.tag[n] = label THEN d ELSE Touch([d EXCEPT !.tag[n] = label], n)
SetSubType(d, n, label) ==
  IF d.body[n] = label THEN d ELSE Touch([d EXCEPT !.body[n] = label], n)
SetPayload(d, n, label) == Touch([d EXCEPT !.body[n] = label], n)

\* AddLeaf and AddContainer: a new object becomes the last child.
AddNew(d, p, isContainer, label) ==
  Touch([d EXCEPT !.fresh = @ + 1,
                  !.children[p] = Append(@, d.fresh),
                  !.parent[d.fresh] = p,
                  !.tag[d.fresh] = label, !.body[d.fresh] = label,
                  !.containers = IF isContainer THEN @ \cup {d.fresh} ELSE @], p)

\* IndexOf, 0 when n is not a child of p.
IndexIn(d, p, n) ==
  IF n \in ToSet(d.children[p]) THEN CHOOSE i \in DOMAIN d.children[p] : d.children[p][i] = n
  ELSE 0

Detach(d, p, n) ==
  IF n \notin ToSet(d.children[p]) THEN d
  ELSE Touch([d EXCEPT !.children[p] = RemoveAt(@, IndexIn(d, p, n)), !.parent[n] = Nowhere], p)

\* Slips: the node goes to the end; the parent is told, the child is not.
InsertAtTheEnd(d, p, i, n) ==
  Touch([d EXCEPT !.children[p] = Append(@, n), !.parent[n] = p], p)
InsertWithoutParent(d, p, i, n) ==
  Touch([d EXCEPT !.children[p] = InsertAt(@, i, n)], p)

\* InsertChildAtInternal, for a node that is nowhere and an index that exists.
Insert(d, p, i, n) ==
  Touch([d EXCEPT !.children[p] = InsertAt(@, i, n), !.parent[n] = p], p)

Swap(d, p, i, j) ==
  Touch([d EXCEPT !.children[p] = [@ EXCEPT ![i] = d.children[p][j], ![j] = d.children[p][i]]], p)

\* ReorderUp and ReorderDown: nothing happens at the edge.
Reorder(d, p, n, up) ==
  LET i == IndexIn(d, p, n)
      j == IF up THEN i - 1 ELSE i + 1
  IN IF i = 0 \/ j \notin DOMAIN d.children[p] THEN d ELSE Swap(d, p, i, j)

\* Duplicate: a deep copy becomes the last child.
Duplicate(d, p, n) ==
  LET originals == SetToSeq(Down(d, n))
      made == d.fresh..(d.fresh + Len(originals) - 1)
      Original(m) == originals[m - d.fresh + 1]
      CopyOf(m) == CHOOSE k \in made : Original(k) = m
      copied ==
        [d EXCEPT !.fresh = @ + Len(originals),
                  !.children = [m \in Nodes |-> IF m \in made
                     THEN [i \in DOMAIN @[Original(m)] |-> CopyOf(@[Original(m)][i])] ELSE @[m]],
                  !.parent = [m \in Nodes |-> IF m \in made \ {CopyOf(n)}
                     THEN CopyOf(@[Original(m)]) ELSE @[m]],
                  !.tag = [m \in Nodes |-> IF m \in made THEN @[Original(m)] ELSE @[m]],
                  !.body = [m \in Nodes |-> IF m \in made THEN @[Original(m)] ELSE @[m]],
                  !.containers = @ \cup {m \in made : Original(m) \in @}]
  IN Touch([copied EXCEPT !.children[p] = Append(@, CopyOf(n)), !.parent[CopyOf(n)] = p], p)

(***************************************************************************)
(* The commands.  Do and UndoOp return the document, the command with what *)
(* it remembers, and whether the code gets through without an exception.   *)
(***************************************************************************)
Command(op, n, p, label) ==
  [op |-> op, node |-> n, parent |-> p, label |-> label,
   old |-> Unset, made |-> Nowhere, index |-> 0]

Ok(d, c)   == [doc |-> d, cmd |-> c, ok |-> TRUE]
Throws(d, c) == [doc |-> d, cmd |-> c, ok |-> FALSE]

Remembering(c, value) == IF c.old = Unset THEN [c EXCEPT !.old = value] ELSE c
Last1(d, p) == Last(d.children[p])

Do(d, c) ==
  CASE c.op = "edit" -> Ok(SetPayload(d, c.node, c.label), Remembering(c, d.body[c.node]))
    [] c.op = "sub"  -> Ok(SetSubType(d, c.node, c.label), Remembering(c, d.body[c.node]))
    [] c.op = "tag"  -> Ok(SetTag(d, c.node, c.label), Remembering(c, d.tag[c.node]))
    [] c.op \in {"addLeaf", "addForm"} ->
         LET d2 == AddNew(d, c.parent, c.op = "addForm", c.label)
         IN Ok(d2, [c EXCEPT !.made = Last1(d2, c.parent)])
    [] c.op = "copy" ->
         IF c.node \notin ToSet(d.children[c.parent]) THEN Throws(d, c)
         ELSE LET d2 == Duplicate(d, c.parent, c.node)
              IN Ok(d2, [c EXCEPT !.made = Last1(d2, c.parent)])
    [] c.op = "remove" ->
         Ok(Detach(d, c.parent, c.node), [c EXCEPT !.index = IndexIn(d, c.parent, c.node)])
    [] c.op \in {"up", "down"} ->
         IF d.parent[c.node] = Nowhere THEN Throws(d, c)
         ELSE Ok(Reorder(d, d.parent[c.node], c.node, c.op = "up"), c)

UndoOp(d, c) ==
  CASE c.op = "edit" -> Ok(SetPayload(d, c.node, c.old), c)
    [] c.op = "sub"  -> Ok(SetSubType(d, c.node, c.old), c)
    [] c.op = "tag"  -> Ok(SetTag(d, c.node, c.old), c)
    [] c.op \in {"addLeaf", "addForm", "copy"} -> Ok(Detach(d, c.parent, c.made), c)
    [] c.op = "remove" ->
         IF d.parent[c.node] # Nowhere \/ c.index \notin 1..(Len(d.children[c.parent]) + 1)
         THEN Throws(d, c)
         ELSE Ok(Insert(d, c.parent, c.index, c.node), c)
    [] c.op \in {"up", "down"} ->
         IF d.parent[c.node] = Nowhere THEN Throws(d, c)
         ELSE Ok(Reorder(d, d.parent[c.node], c.node, c.op = "down"), c)

(***************************************************************************)
(* What is in the document, and what the writer makes of it: a clean node  *)
(* is written as it was read, the others from their present content.       *)
(***************************************************************************)
\* A node with what is below it, i levels deep.
Drawn(d, n, i, below) ==
  <<d.tag[n], d.body[n],
    IF i = 0 THEN <<>> ELSE [k \in DOMAIN d.children[n] |-> below[d.children[n][k]]]>>

Image(d, slices) ==
  LET asRead[i \in Nat] == [n \in Nodes |-> Drawn(Loading, n, i, asRead[i-1])]
      image[i \in Nat] ==
        [n \in Nodes |-> IF n \in slices THEN asRead[i][n] ELSE Drawn(d, n, i, image[i-1])]
  IN image[MaxNodes][Root]

View(d) == Image(d, {})
Written(d) == Image(d, d.verbatim)

(***************************************************************************)
(* The controller.                                                         *)
(***************************************************************************)
Init ==
  /\ doc = Loading
  /\ undoStack = <<>> /\ redoStack = <<>>
  /\ net = 0 /\ applies = 0
  /\ views = <<View(Loading)>>
  /\ edgeMoves = FALSE /\ recreated = FALSE

\* What the user may ask for in the tree as it is.
Below == Down(doc, Root) \ {Root}
Asked ==
  {Command("edit", n, Nowhere, x) : n \in Below \ doc.containers, x \in Labels}
  \cup {Command("tag", n, Nowhere, x) : n \in Down(doc, Root), x \in Labels}
  \cup {Command("sub", n, Nowhere, x) : n \in Down(doc, Root) \cap doc.containers, x \in Labels}
  \cup {Command(op, Nowhere, p, Plain) : op \in {"addLeaf", "addForm"},
                                       p \in Down(doc, Root) \cap doc.containers}
  \cup {Command(op, n, doc.parent[n], Plain) : op \in {"remove", "copy", "up", "down"}, n \in Below}

Room(c) ==
  doc.fresh + (IF c.op = "copy" THEN Cardinality(Down(doc, c.node)) ELSE 1) <= MaxNodes + 1

AtEdge(c) ==
  LET siblings == doc.children[doc.parent[c.node]]
  IN \/ c.op = "up" /\ siblings[1] = c.node
     \/ c.op = "down" /\ Last(siblings) = c.node

Apply(c) ==
  /\ applies < MaxApplies /\ Room(c)
  /\ LET done == Do(doc, c) IN
       /\ doc' = done.doc
       /\ undoStack' = Append(undoStack, done.cmd)
       /\ views' = Append(SubSeq(views, 1, Len(undoStack) + 1), View(done.doc))
  /\ redoStack' = <<>>
  /\ net' = net + 1 /\ applies' = applies + 1
  /\ edgeMoves' = (edgeMoves \/ (c.op \in {"up", "down"} /\ AtEdge(c)))
  /\ UNCHANGED recreated

\* The command is popped before it runs: one that throws is gone from both stacks.
Undo ==
  /\ undoStack # <<>>
  /\ undoStack' = Front(undoStack)
  /\ LET undone == UndoOp(doc, Last(undoStack)) IN
       IF undone.ok
       THEN /\ doc' = undone.doc
            /\ redoStack' = Append(redoStack, undone.cmd)
            /\ net' = net - 1
       ELSE UNCHANGED <<doc, redoStack, net>>
  /\ UNCHANGED <<applies, views, edgeMoves, recreated>>

Redo ==
  /\ redoStack # <<>> /\ Room(Last(redoStack))
  /\ redoStack' = Front(redoStack)
  /\ LET redone == Do(doc, Last(redoStack)) IN
       IF redone.ok
       THEN /\ doc' = redone.doc
            /\ undoStack' = Append(undoStack, redone.cmd)
            /\ net' = net + 1
       ELSE UNCHANGED <<doc, undoStack, net>>
  /\ recreated' = (recreated \/ Last(redoStack).op \in {"addLeaf", "addForm", "copy"})
  /\ UNCHANGED <<applies, views, edgeMoves>>

Next == (\E c \in {a \in Asked : a.op \in Ops} : Apply(c)) \/ Undo \/ Redo

Spec == Init /\ [][Next]_vars

-----------------------------------------------------------------------------
(***************************************************************************)
(* Properties.                                                             *)
(***************************************************************************)
\* Every variable has its type.
Typed ==
  /\ doc.children \in [Nodes -> Seq(Nodes)] /\ doc.parent \in [Nodes -> Nodes \cup {Nowhere}]
  /\ doc.tag \in [Nodes -> Labels] /\ doc.body \in [Nodes -> Labels]
  /\ doc.containers \subseteq Nodes /\ doc.verbatim \subseteq Nodes
  /\ doc.fresh \in 1..(MaxNodes + 1)
  /\ net \in 0..MaxApplies /\ applies \in 0..MaxApplies
  /\ {edgeMoves, recreated} \subseteq BOOLEAN

\* The writer never copies stale bytes: what it writes is the present content, after
\* any edits, moves, removals, copies, undos and redos, those of nodes that were
\* changed while they were detached from the tree included.
WritesWhatIsThere == Written(doc) = View(doc)

\* Parents and children agree, no node has two places, and nothing hangs below
\* itself, whatever is detached and attached again.
TreeIsSound ==
  /\ Typed
  /\ \A p \in Nodes : \A i \in DOMAIN doc.children[p] : doc.parent[doc.children[p][i]] = p
  /\ \A n \in Nodes : doc.parent[n] # Nowhere =>
       \E i \in DOMAIN doc.children[doc.parent[n]] :
         /\ doc.children[doc.parent[n]][i] = n
         /\ \A j \in DOMAIN doc.children[doc.parent[n]] \ {i} : doc.children[doc.parent[n]][j] # n
  /\ \A n \in Nodes : doc.parent[n] # Nowhere => n \notin Up(doc, doc.parent[n])

\* With i commands done the document looks as it did when i commands were first
\* done, back to the file as read when it counts as clean - as long as no move was
\* asked for at the edge and no redo has created a node anew.
HistoryIsFaithful ==
  ~edgeMoves /\ ~recreated =>
    /\ View(doc) = views[Len(undoStack) + 1]
    /\ net = Len(undoStack)
=============================================================================
